------------------------------ MODULE MCGuestRun ------------------------------
(* A screen three characters wide, with messages that stay within a row, fill it *)
(* and hold line breaks; sizes in both bases, with F, with a repeated unit, with *)
(* none, and ones that overflow.                                                 *)
EXTENDS GuestRun

MCTexts == {<<"a">>, <<"a", "b", "c">>, <<"b", NL, NL, "c">>}

MCMemArgs == { <<"1", "2", "K">>, <<"0", "x", "1", "e", "m">>, <<"9", "g">>, <<"0", "x", "F", "K">>,
               <<"1", "A", "k">>, <<"3">>, <<"1", "K", "K">>, <<"1", "x">>, << >> }
===============================================================================
