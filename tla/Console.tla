-------------------------------- MODULE Console --------------------------------
(***************************************************************************)
(* The guest's screen and the launcher's terminal: putc, write_char and    *)
(* the hex printing of libs64.S, and the branch of the loop in vm.c that   *)
(* turns each video store into output.  A position is a character cell,    *)
(* two bytes of video memory from 0xb8000 on.                              *)
(***************************************************************************)
EXTENDS Integers, Sequences, SequencesExt, Numerals

CONSTANTS
  COLS,     \* 80
  LAST,     \* the last cell that is stored to, 0xb9ff0
  Texts,    \* messages the guest may put
  Numbers,  \* values of a register it may print, and
  Digits    \* with how many digits

ASSUME ConsoleAssumption ==
  /\ COLS \in Nat \ {0} /\ LAST \in Nat /\ Digits \in Nat
  /\ Texts \subseteq Seq(STRING) \ {<< >>} /\ Numbers \subseteq Nat

VARIABLES
  job,            \* the messages and the number that are put
  rest,           \* what is left of the characters being put
  video_current,  \* the next cell
  store,          \* cell and character of the last store
  shown           \* what the launcher's loop has put out

consoleVars == <<job, rest, video_current, store, shown>>

NL == "nl"
number_character == <<"0", "1", "2", "3", "4", "5", "6", "7", "8", "9", "A", "B", "C", "D", "E", "F">>

hex_to_char(x) == number_character[(x % 16) + 1]

\* print_hex_by_byte: rdx counts down to 0, the number is shifted by rdx times 4 bits.
print_hex_by_byte(x, count) ==
  LET shr[rdx \in 0 .. count] == IF rdx = 0 THEN x ELSE shr[rdx - 1] \div 16
  IN  [d \in 1 .. count |-> hex_to_char(shr[count - d])]

ConsoleInit ==
  /\ job = [before |-> << >>, number |-> 0, after |-> << >>]
  /\ rest = << >> /\ video_current = 0 /\ store = <<0, NL>> /\ shown = << >>

\* A message, a dump and a message, with println after each; the first register that is
\* printed stands for the dump.
Characters(j) == j.before \o <<NL>> \o print_hex_by_byte(j.number, Digits) \o <<NL>> \o j.after \o <<NL>>

StartPutting ==
  /\ job' \in [before : Texts, number : Numbers, after : Texts]
  /\ rest' = Characters(job')
  /\ UNCHANGED <<video_current, store, shown>>

get_current_column == video_current % COLS

\* A variant that moves down without going to the left.
NewLineKeepsColumn == video_current + COLS

\* The first cell of the next row; a full row has already moved on and is followed by an
\* empty one.
NewLine == video_current + COLS - get_current_column

\* One character that is not stored: a line break, or one beyond the last cell.
MoveOn ==
  /\ rest # << >> /\ rest' = Tail(rest)
  /\ \/ Head(rest) = NL /\ video_current' = NewLine
     \/ Head(rest) # NL /\ video_current > LAST /\ UNCHANGED video_current
  /\ UNCHANGED <<job, store, shown>>

\* One that is: KVM_RUN returns with it.
StoreChar ==
  /\ rest # << >> /\ Head(rest) # NL /\ video_current <= LAST
  /\ rest' = Tail(rest) /\ store' = <<video_current, Head(rest)>> /\ video_current' = video_current + 1
  /\ UNCHANGED <<job, shown>>

\* The launcher's part: a line break before the first cell of a row, then the character.
MmioVideo ==
  /\ shown' = shown \o (IF store[1] % COLS = 0 THEN <<NL, store[2]>> ELSE <<store[2]>>)
  /\ UNCHANGED <<job, rest, video_current, store>>

------------------------------------------------------------------------------
\* A text says what the job is: it holds the messages and the last digits of the number,
\* those that, read after some high part, make the number.
Says(text, j) ==
  \E ds \in [1 .. Digits -> 0 .. 15] :
    /\ text = j.before \o <<NL>> \o [d \in 1 .. Digits |-> number_character[ds[d] + 1]] \o <<NL>>
                \o j.after \o <<NL>>
    /\ \E high \in 0 .. j.number : Reading(ds, 16, high)[Digits] = j.number

\* How the terminal should look after each character of a text: it is the k-th of its
\* line, and every COLS characters a line breaks.  Empty lines do not show.
InLine(text, p) == p - 1 - Max({0} \union {q \in 1 .. p - 1 : text[q] = NL})

Cell(text, p) ==
  IF text[p] = NL THEN << >>
  ELSE IF InLine(text, p) % COLS = 0 THEN <<NL, text[p]>> ELSE <<text[p]>>

Terminal(text) ==
  LET t[p \in 0 .. Len(text)] == IF p = 0 THEN << >> ELSE t[p - 1] \o Cell(text, p) IN t
===============================================================================
