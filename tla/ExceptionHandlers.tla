--------------------------- MODULE ExceptionHandlers ---------------------------
(***************************************************************************)
(* The exception handlers of the guest (handler64.S) and the stack frame   *)
(* the processor gives them.  Every handler prints words of the frame by   *)
(* their offset from rsp; the processor puts an error code on top of the   *)
(* frame for some vectors only.  Exceptions may nest: an NMI or a machine  *)
(* check comes at any time, and a handler may itself fault.  A context is  *)
(* known by the number of the exception that interrupted it.               *)
(***************************************************************************)
EXTENDS Integers, Sequences

CONSTANTS
  Raised,   \* the exceptions that happen in a run
  MaxTaken  \* bound on their number

ASSUME MaxTakenAssumption == MaxTaken \in Nat

VARIABLES
  stack,   \* the double words on the stack, the one at rsp first
  active,  \* handlers entered and not left, the running one first
  taken,   \* number of exceptions so far
  cr2,     \* the page fault that cr2 belongs to
  L0,      \* DR7.L0
  lines    \* what has been printed

vars == <<stack, active, taken, cr2, L0, lines>>

------------------------------------------------------------------------------
\* The frame of exception k.
WithErrorCode == {"DF", "TS", "NP", "GP", "PF"}
Words(v) == IF v \in WithErrorCode THEN <<"err", "rip", "cs", "rflags", "rsp", "ss">>
            ELSE <<"rip", "cs", "rflags", "rsp", "ss">>

Half(word, k, half) == [word |-> word, of |-> k, half |-> half, rf |-> FALSE]
QWord(word, k) == <<Half(word, k, "lo"), Half(word, k, "hi")>>
Frame(v, k) ==
  [i \in 1 .. 2 * Len(Words(v)) |-> QWord(Words(v)[(i + 1) \div 2], k)[IF i % 2 = 1 THEN 1 ELSE 2]]

\* The quad word at offset(%rsp).
At(offset) == SubSeq(stack, offset \div 4 + 1, offset \div 4 + 2)

------------------------------------------------------------------------------
\* Handlers as the instructions that matter.  Every message comes with its number.
Show(label, offset) == [op |-> "show", label |-> label, offset |-> offset]
Do(op) == [op |-> op]

\* The nine handlers that print the same three lines.
Reporting == {"DE", "NMI", "OF", "UD", "NM", "TS", "NP", "GP", "MC"}
Report == << Show("rip", 8), Show("err", 0), Show("rsp", 32), Do("spin") >>

DF_handler == << Show("rip", 4), Do("spin") >>
PF_handler == << Do("add8"), Show("rip", 0), Do("show_cr2"), Do("spin") >>

\* A variant that looks for the flags behind an error code.
DBFlagsLater == << Do("clear_l0"), [op |-> "set_rf", offset |-> 24], Do("iretq") >>
DB_handler == << Do("clear_l0"), [op |-> "set_rf", offset |-> 16], Do("iretq") >>

\* A variant that forgets to drop the error code.
PFKeepsCode(v) ==
  CASE v \in Reporting -> Report [] v = "DF" -> DF_handler [] v = "PF" -> Tail(PF_handler) [] v = "DB" -> DB_handler

Handler(v) ==
  CASE v \in Reporting -> Report [] v = "DF" -> DF_handler [] v = "PF" -> PF_handler [] v = "DB" -> DB_handler

ASSUME RaisedAssumption == Raised \subseteq Reporting \union {"DF", "PF", "DB"}

------------------------------------------------------------------------------
Init == /\ stack = << >> /\ active = << >> /\ taken = 0 /\ cr2 = 0 /\ L0 \in BOOLEAN /\ lines = {}

\* The processor takes an exception: the frame goes on the stack, its handler runs.
Raise(v) ==
  /\ taken < MaxTaken
  /\ taken' = taken + 1
  /\ stack' = Frame(v, taken') \o stack
  /\ active' = << [v |-> v, k |-> taken', pc |-> 1] >> \o active
  /\ cr2' = IF v = "PF" THEN taken' ELSE cr2
  /\ UNCHANGED <<L0, lines>>

Running == active # << >>
Self == Head(active)
Instr == Handler(Self.v)[Self.pc]
Advance == active' = [active EXCEPT ![1].pc = @ + 1]
Line(label, value) == [v |-> Self.v, k |-> Self.k, label |-> label, value |-> value]

\* puts, print_qword_value and println leave the stack as it was.
ShowWord ==
  /\ Running /\ Instr.op = "show"
  /\ lines' = lines \union {Line(Instr.label, At(Instr.offset))}
  /\ Advance /\ UNCHANGED <<stack, taken, cr2, L0>>

ShowCr2 ==
  /\ Running /\ Instr.op = "show_cr2"
  /\ lines' = lines \union {Line("address", QWord("address", cr2))}
  /\ Advance /\ UNCHANGED <<stack, taken, cr2, L0>>

DropErrorCode ==
  /\ Running /\ Instr.op = "add8"
  /\ stack' = SubSeq(stack, 3, Len(stack))
  /\ Advance /\ UNCHANGED <<taken, cr2, L0, lines>>

ClearL0 ==
  /\ Running /\ Instr.op = "clear_l0"
  /\ L0' = FALSE
  /\ Advance /\ UNCHANGED <<stack, taken, cr2, lines>>

\* btsl $16
SetRF ==
  /\ Running /\ Instr.op = "set_rf"
  /\ stack' = [stack EXCEPT ![Instr.offset \div 4 + 1].rf = TRUE]
  /\ Advance /\ UNCHANGED <<taken, cr2, L0, lines>>

\* iretq takes five quad words off the stack.
Iretq ==
  /\ Running /\ Instr.op = "iretq"
  /\ stack' = SubSeq(stack, 11, Len(stack))
  /\ active' = Tail(active)
  /\ UNCHANGED <<taken, cr2, L0, lines>>

Next == \/ \E v \in Raised : Raise(v)
        \/ ShowWord \/ ShowCr2 \/ DropErrorCode \/ ClearL0 \/ SetRF \/ Iretq

Spec == Init /\ [][Next]_vars

------------------------------------------------------------------------------
\* A line tells of the exception its handler was entered for, however exceptions nest.
Truthful(line) == line.value = QWord(line.label, line.k)

\* The handlers of exceptions with an error code (but #DF) report the right words.
CodedReports == \A l \in lines : l.v \in WithErrorCode \ {"DF"} => Truthful(l)

\* The #DB handler goes back to the context that was interrupted, with RF set and the
\* breakpoint off, so that the instruction behind it does not fault again.
BreakpointResumes ==
  [][Len(active') < Len(active) =>
       /\ SubSeq(stack, 1, 10) = [Frame("DB", Self.k) EXCEPT ![5].rf = TRUE]
       /\ ~L0']_vars

\* "enter #DE handler, occur at: 0x" is followed by the address of the fault.
OccurAt == \A l \in lines : l.label = "rip" => Truthful(l)
===============================================================================
