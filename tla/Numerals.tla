-------------------------------- MODULE Numerals --------------------------------
(***************************************************************************)
(* What digits stand for: the reference for the numbers that the launcher  *)
(* reads from its command line and that the guest prints.                  *)
(***************************************************************************)
EXTENDS Integers, Sequences

\* The number read after each digit, from the left, if it was high before the first.
Reading(digits, radix, high) ==
  LET v[n \in 0 .. Len(digits)] == IF n = 0 THEN high ELSE v[n - 1] * radix + digits[n] IN v
===============================================================================
