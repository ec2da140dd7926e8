----------------------------- MODULE MessageStack -----------------------------
(***************************************************************************)
(* What the custom device promises its clients: the messages written form  *)
(* a stack of bounded depth, and a read takes the youngest one, whole.  A  *)
(* call that cannot proceed (empty, full, no memory) changes nothing; a    *)
(* copy to or from user space may stop short, which shortens the message   *)
(* written, or what is seen of the message read.  What a call returns is   *)
(* the number the driver returns: a read that finds no memory says so, but *)
(* a write that is refused looks like one that stored 28 bytes, or one.    *)
(***************************************************************************)
EXTENDS Integers, Sequences

CONSTANTS Readers, Writers, Msgs, Lens, NoMsg, Capacity

VARIABLES
  stack,  \* the messages, youngest last: [msg, n] is the first n bytes of msg
  call,   \* each client's call: [op, msg, n]
  ret     \* what each client's last call returned

Clients == Readers \union Writers
Idle == [op |-> "idle", msg |-> NoMsg, n |-> 0]

\* The numbers of a call that did nothing.
Full == 28
NoMemoryOf == [read |-> -12, write |-> 1]

Result(c, kind, n, msg) ==
  ret' = [ret EXCEPT ![c] = [call |-> kind, n |-> n, msg |-> msg]]

Init ==
  /\ stack = << >>
  /\ call = [c \in Clients |-> Idle]
  /\ ret = [c \in Clients |-> [call |-> "none", n |-> 0, msg |-> NoMsg]]

\* A call refused at once.
ReadEmpty(c) ==
  /\ c \in Readers /\ call[c] = Idle /\ stack = << >>
  /\ Result(c, "read", 0, NoMsg)
  /\ UNCHANGED <<stack, call>>

WriteFull(c) ==
  /\ c \in Writers /\ call[c] = Idle /\ Len(stack) = Capacity
  /\ Result(c, "write", Full, NoMsg)
  /\ UNCHANGED <<stack, call>>

\* A call accepted: it will find the stack as promised unless others interfere.
ReadCall(c) ==
  /\ c \in Readers /\ call[c] = Idle /\ stack # << >>
  /\ call' = [call EXCEPT ![c].op = "read"]
  /\ UNCHANGED <<stack, ret>>

WriteCall(c) ==
  /\ c \in Writers /\ call[c] = Idle /\ Len(stack) < Capacity
  /\ \E m \in Msgs, n \in Lens : call' = [call EXCEPT ![c] = [op |-> "write", msg |-> m, n |-> n]]
  /\ UNCHANGED <<stack, ret>>

NoMemory(c) ==
  /\ call[c].op \in {"read", "write"}
  /\ call' = [call EXCEPT ![c] = Idle]
  /\ Result(c, call[c].op, NoMemoryOf[call[c].op], NoMsg)
  /\ UNCHANGED stack

\* The user copy stops short.
Shorten(c) ==
  /\ call[c].op \in {"write", "got"}
  /\ \E k \in 0 .. call[c].n : call' = [call EXCEPT ![c].n = k]
  /\ UNCHANGED <<stack, ret>>

Push(c) ==
  /\ call[c].op = "write" /\ Len(stack) < Capacity
  /\ stack' = Append(stack, [msg |-> call[c].msg, n |-> call[c].n])
  /\ call' = [call EXCEPT ![c].op = "written"]
  /\ UNCHANGED ret

Pop(c) ==
  /\ call[c].op = "read" /\ stack # << >>
  /\ LET d == stack[Len(stack)] IN
       call' = [call EXCEPT ![c] = [op |-> "got", msg |-> d.msg, n |-> d.n]]
  /\ stack' = SubSeq(stack, 1, Len(stack) - 1)
  /\ UNCHANGED ret

Return(c) ==
  /\ call[c].op \in {"written", "got"}
  /\ Result(c, IF call[c].op = "got" THEN "read" ELSE "write", call[c].n, call[c].msg)
  /\ call' = [call EXCEPT ![c] = Idle]
  /\ UNCHANGED stack

Next == \E c \in Clients :
  \/ ReadEmpty(c) \/ WriteFull(c) \/ ReadCall(c) \/ WriteCall(c) \/ NoMemory(c)
  \/ Shorten(c) \/ Push(c) \/ Pop(c) \/ Return(c)

Spec == Init /\ [][Next]_<<stack, call, ret>>
================================================================================
