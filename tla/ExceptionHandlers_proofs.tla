----------------------- MODULE ExceptionHandlers_proofs -----------------------
(***************************************************************************)
(* What the exception handlers find on the stack, however deep exceptions  *)
(* nest.                                                                   *)
(***************************************************************************)
EXTENDS ExceptionHandlers, TLAPS

------------------------------------------------------------------------------
(* The frames and the handlers *)

Vectors == Reporting \union {"DF", "PF", "DB"}
Names == {"err", "rip", "cs", "rflags", "rsp", "ss"}
DWord == [word : Names, of : Nat, half : {"lo", "hi"}, rf : BOOLEAN]

LEMMA FrameIs ==
  ASSUME NEW v, NEW k \in Nat
  PROVE  /\ Frame(v, k) \in Seq(DWord)
         /\ Len(Frame(v, k)) = IF v \in WithErrorCode THEN 12 ELSE 10
         /\ v \in WithErrorCode =>
              /\ Frame(v, k)[1] = Half("err", k, "lo") /\ Frame(v, k)[2] = Half("err", k, "hi")
              /\ Frame(v, k)[3] = Half("rip", k, "lo") /\ Frame(v, k)[4] = Half("rip", k, "hi")
              /\ Frame(v, k)[9] = Half("rsp", k, "lo") /\ Frame(v, k)[10] = Half("rsp", k, "hi")
<1>0. \A word \in Names : /\ QWord(word, k)[1] = Half(word, k, "lo") /\ QWord(word, k)[2] = Half(word, k, "hi")
                           /\ Half(word, k, "lo") \in DWord /\ Half(word, k, "hi") \in DWord
  BY DEF QWord, Half, DWord
<1>1. CASE v \in WithErrorCode
  <2>1. Words(v) = <<"err", "rip", "cs", "rflags", "rsp", "ss">> /\ Len(Words(v)) = 6
    BY <1>1 DEF Words
  <2>2. Frame(v, k) = [i \in 1 .. 12 |-> QWord(Words(v)[(i + 1) \div 2], k)[IF i % 2 = 1 THEN 1 ELSE 2]]
    BY <2>1 DEF Frame
  <2>3. \A i \in 1 .. 12 : (i + 1) \div 2 \in 1 .. 6
    OBVIOUS
  <2>4. \A i \in 1 .. 6 : Words(v)[i] \in Names
    BY <2>1 DEF Names
  <2>5. ASSUME NEW i \in 1 .. 12 PROVE Frame(v, k)[i] \in DWord
    <3>1. Words(v)[(i + 1) \div 2] \in Names
      BY <2>3, <2>4
    <3>2. Frame(v, k)[i] = QWord(Words(v)[(i + 1) \div 2], k)[IF i % 2 = 1 THEN 1 ELSE 2]
      BY <2>2
    <3> QED BY <1>0, <3>1, <3>2
  <2>6. Frame(v, k) \in Seq(DWord) /\ Len(Frame(v, k)) = 12
    BY <2>2, <2>5
  <2>7. /\ Frame(v, k)[1] = QWord(Words(v)[1], k)[1] /\ Frame(v, k)[2] = QWord(Words(v)[1], k)[2]
        /\ Frame(v, k)[3] = QWord(Words(v)[2], k)[1] /\ Frame(v, k)[4] = QWord(Words(v)[2], k)[2]
        /\ Frame(v, k)[9] = QWord(Words(v)[5], k)[1] /\ Frame(v, k)[10] = QWord(Words(v)[5], k)[2]
    BY <2>2
  <2> QED BY <1>0, <1>1, <2>1, <2>4, <2>6, <2>7
<1>2. CASE v \notin WithErrorCode
  <2>1. Words(v) = <<"rip", "cs", "rflags", "rsp", "ss">> /\ Len(Words(v)) = 5
    BY <1>2 DEF Words
  <2>2. Frame(v, k) = [i \in 1 .. 10 |-> QWord(Words(v)[(i + 1) \div 2], k)[IF i % 2 = 1 THEN 1 ELSE 2]]
    BY <2>1 DEF Frame
  <2>3. \A i \in 1 .. 10 : (i + 1) \div 2 \in 1 .. 5
    OBVIOUS
  <2>4. \A i \in 1 .. 5 : Words(v)[i] \in Names
    BY <2>1 DEF Names
  <2>5. ASSUME NEW i \in 1 .. 10 PROVE Frame(v, k)[i] \in DWord
    <3>1. Words(v)[(i + 1) \div 2] \in Names
      BY <2>3, <2>4
    <3>2. Frame(v, k)[i] = QWord(Words(v)[(i + 1) \div 2], k)[IF i % 2 = 1 THEN 1 ELSE 2]
      BY <2>2
    <3> QED BY <1>0, <3>1, <3>2
  <2> QED BY <1>2, <2>2, <2>5
<1> QED BY <1>1, <1>2

\* Which instruction of which handler does what.
LEMMA InstrIs ==
  ASSUME NEW v \in Vectors, NEW p \in 1 .. Len(Handler(v))
  PROVE  LET i == Handler(v)[p] IN
         /\ i.op = "show" /\ v \in WithErrorCode \ {"DF"} =>
              \/ v # "PF" /\ p = 1 /\ i.label = "rip" /\ i.offset = 8
              \/ v # "PF" /\ p = 2 /\ i.label = "err" /\ i.offset = 0
              \/ v # "PF" /\ p = 3 /\ i.label = "rsp" /\ i.offset = 32
              \/ v = "PF" /\ p = 2 /\ i.label = "rip" /\ i.offset = 0
         /\ i.op = "show" => v # "DB" /\ (v = "PF" => p = 2)
         /\ i.op = "show_cr2" => v = "PF" /\ p = 3
         /\ i.op = "add8" => v = "PF" /\ p = 1
         /\ i.op = "clear_l0" => v = "DB" /\ p = 1
         /\ i.op = "set_rf" => v = "DB" /\ p = 2 /\ i.offset = 16
         /\ i.op = "iretq" => v = "DB" /\ p = 3
         /\ i.op # "spin" /\ i.op # "iretq" => p + 1 \in 1 .. Len(Handler(v))
<1>1. CASE v \in Reporting
  BY <1>1 DEF Handler, Report, Reporting, Show, Do, WithErrorCode
<1>2. CASE v = "DF"
  BY <1>2 DEF Handler, DF_handler, Reporting, Show, Do, WithErrorCode
<1>3. CASE v = "PF"
  BY <1>3 DEF Handler, PF_handler, Reporting, Show, Do, WithErrorCode
<1>4. CASE v = "DB"
  BY <1>4 DEF Handler, DB_handler, Reporting, Show, Do, WithErrorCode
<1> QED BY <1>1, <1>2, <1>3, <1>4 DEF Vectors

------------------------------------------------------------------------------
(* The stack is made of what is left of the frames *)

Handling == [v : Vectors, k : Nat, pc : Nat]

\* What is left of the frame of a: #PF drops the error code, #DB sets RF.
Skip(a) == IF a.v = "PF" /\ a.pc > 1 THEN 2 ELSE 0
Size(a) == (IF a.v \in WithErrorCode THEN 12 ELSE 10) - Skip(a)
Word(a, j) ==
  IF a.v = "DB" /\ a.pc > 2 /\ j = 5 THEN [Frame(a.v, a.k)[5] EXCEPT !.rf = TRUE]
  ELSE Frame(a.v, a.k)[j + Skip(a)]

\* The frame of the i-th handler lies behind the first pos[i] words.
LaidIn(pos, handlers, words) ==
  LET n == Len(handlers) IN
  /\ pos \in [1 .. n + 1 -> Nat] /\ pos[1] = 0 /\ pos[n + 1] = Len(words)
  /\ \A i, j \in 1 .. n + 1 : i <= j => pos[i] <= pos[j]
  /\ \A i \in 1 .. n : pos[i + 1] = pos[i] + Size(handlers[i])
  /\ \A i \in 1 .. n : \A j \in 1 .. Size(handlers[i]) : words[pos[i] + j] = Word(handlers[i], j)
Laid(pos) == LaidIn(pos, active, stack)

\* #PF never leaves its handler, so cr2 is that of the page fault running last; L0 is
\* never set again.
Nested ==
  /\ \A i \in 1 .. Len(active) :
       active[i].v = "PF" /\ (\A j \in 1 .. i - 1 : active[j].v # "PF") => cr2 = active[i].k
  /\ \A i \in 1 .. Len(active) : active[i].v = "DB" /\ active[i].pc > 1 => L0 = FALSE

Typed ==
  /\ stack \in Seq(DWord) /\ active \in Seq(Handling) /\ taken \in Nat /\ cr2 \in Nat
  /\ \A i \in 1 .. Len(active) : active[i].pc \in 1 .. Len(Handler(active[i].v))

HandlersInv == Typed /\ (\E pos : Laid(pos)) /\ Nested /\ CodedReports

\* The stack positions that belong to the i-th handler.
LEMMA Within ==
  ASSUME Typed, NEW pos, Laid(pos), NEW i \in 1 .. Len(active), NEW j \in 1 .. Size(active[i])
  PROVE  /\ pos[i] \in Nat /\ Size(active[i]) \in {10, 12} /\ pos[i] + j \in 1 .. Len(stack)
         /\ stack[pos[i] + j] = Word(active[i], j)
<1>1. Len(active) \in Nat /\ Len(stack) \in Nat
  BY DEF Typed
<1>2. pos[i] \in Nat /\ pos[i + 1] \in Nat /\ pos[i + 1] <= Len(stack) /\ pos[i + 1] = pos[i] + Size(active[i])
  BY <1>1 DEF Laid, LaidIn
<1>3. Size(active[i]) \in {10, 12}
  BY DEF Size, Skip, WithErrorCode
<1>4. stack[pos[i] + j] = Word(active[i], j)
  BY DEF Laid, LaidIn
<1> QED BY <1>1, <1>2, <1>3, <1>4

\* The words of the running handler are the first ones.
LEMMA OnTop ==
  ASSUME Typed, \E pos : Laid(pos), Running
  PROVE  /\ Self = active[1] /\ Self \in Handling /\ Self.pc \in 1 .. Len(Handler(Self.v))
         /\ Len(active) \in Nat \ {0} /\ Size(Self) \in {10, 12} /\ Len(stack) >= Size(Self) /\ Len(stack) \in Nat
         /\ \A j \in 1 .. Size(Self) : stack[j] = Word(Self, j)
<1>1. /\ Self = active[1] /\ Self \in Handling /\ Self.pc \in 1 .. Len(Handler(Self.v))
      /\ Len(active) \in Nat \ {0} /\ Len(stack) \in Nat
  BY DEF Typed, Running, Self
<1>2. PICK pos : Laid(pos)
  OBVIOUS
<1>3. 1 \in 1 .. Len(active) /\ pos[1] = 0
  BY <1>1, <1>2 DEF Laid, LaidIn
<1>4. Size(Self) \in {10, 12}
  BY DEF Size, Skip, WithErrorCode
<1>5. \A j \in 1 .. Size(Self) : stack[j] = Word(Self, j) /\ j <= Len(stack)
  <2> TAKE j \in 1 .. Size(Self)
  <2>1. j \in 1 .. Size(active[1]) /\ j \in Nat
    BY <1>1, <1>4
  <2>2. pos[1] + j \in 1 .. Len(stack) /\ stack[pos[1] + j] = Word(active[1], j)
    BY <1>2, <1>3, <2>1, Within
  <2> QED BY <1>1, <1>3, <2>1, <2>2
<1>6. Len(stack) >= Size(Self)
  BY <1>1, <1>4, <1>5
<1> QED BY <1>1, <1>4, <1>5, <1>6

\* The running handler goes on; what is left of its frame shrinks by d words.
LEMMA Relaid ==
  ASSUME Typed, NEW pos, Laid(pos), Running, NEW d \in {0, 2},
         Len(active') = Len(active), \A i \in 2 .. Len(active) : active'[i] = active[i],
         Size(active'[1]) = Size(Self) - d, Len(stack') = Len(stack) - d,
         \A m \in 1 .. Len(stack') : m > Size(active'[1]) => stack'[m] = stack[m + d],
         \A j \in 1 .. Size(active'[1]) : stack'[j] = Word(active'[1], j)
  PROVE  \E q : Laid(q)'
<1> DEFINE n == Len(active)
           q == [i \in 1 .. n + 1 |-> IF i = 1 THEN 0 ELSE pos[i] - d]
<1>1. /\ Self = active[1] /\ n \in Nat \ {0} /\ Size(Self) \in {10, 12}
      /\ Len(stack) \in Nat
  BY OnTop
<1>2. /\ pos \in [1 .. n + 1 -> Nat] /\ pos[1] = 0 /\ pos[n + 1] = Len(stack)
      /\ \A i, j \in 1 .. n + 1 : i <= j => pos[i] <= pos[j]
      /\ \A i \in 1 .. n : pos[i + 1] = pos[i] + Size(active[i])
  BY DEF Laid, LaidIn
<1>a. 1 \in 1 .. n /\ 2 \in 1 .. n + 1 /\ 1 + 1 = 2
  BY <1>1
<1>b. pos[2] = pos[1] + Size(active[1])
  BY <1>2, <1>a
<1>c. pos[2] = Size(Self)
  BY <1>1, <1>2, <1>b
<1>3. pos[2] = Size(Self) /\ \A i \in 2 .. n + 1 : pos[i] \in Nat /\ pos[i] >= Size(Self)
  BY <1>1, <1>2, <1>a, <1>c
<1>4. q \in [1 .. n + 1 -> Nat] /\ q[1] = 0 /\ \A i \in 2 .. n + 1 : q[i] = pos[i] - d
  BY <1>1, <1>3
<1> HIDE DEF q
<1>5. q[n + 1] = Len(stack')
  BY <1>1, <1>2, <1>4
<1>6. ASSUME NEW i \in 1 .. n + 1, NEW j \in 1 .. n + 1, i <= j PROVE q[i] <= q[j]
  <2>1. CASE i = 1
    BY <1>4, <2>1
  <2>2. CASE i # 1
    <3>1. i \in 2 .. n + 1 /\ j \in 2 .. n + 1 /\ pos[i] <= pos[j]
      BY <1>1, <1>2, <1>6, <2>2
    <3> QED BY <1>3, <1>4, <3>1
  <2> QED BY <2>1, <2>2
<1>7. ASSUME NEW i \in 1 .. n PROVE q[i + 1] = q[i] + Size(active'[i])
  <2>1. CASE i = 1
    BY <1>1, <1>3, <1>4, <2>1
  <2>2. CASE i # 1
    <3>1. i \in 2 .. n /\ i + 1 \in 2 .. n + 1 /\ i \in 2 .. n + 1
      BY <1>1, <2>2
    <3>2. q[i] = pos[i] - d /\ q[i + 1] = pos[i + 1] - d /\ active'[i] = active[i]
      BY <1>4, <3>1
    <3>3. pos[i] \in Nat /\ Size(active[i]) \in Nat /\ pos[i + 1] = pos[i] + Size(active[i])
      BY <1>2, <1>3, <3>1 DEF Size, Skip, WithErrorCode
    <3> QED BY <3>2, <3>3
  <2> QED BY <2>1, <2>2
<1>8. ASSUME NEW i \in 1 .. n, NEW j \in 1 .. Size(active'[i]) PROVE stack'[q[i] + j] = Word(active'[i], j)
  <2>1. CASE i = 1
    <3>1. j \in 1 .. Size(active'[1]) /\ j \in Nat /\ q[1] + j = j
      BY <1>1, <1>4, <2>1
    <3> QED BY <2>1, <3>1
  <2>2. CASE i # 1
    <3>1. i \in 2 .. n /\ i \in 2 .. n + 1 /\ active'[i] = active[i]
      BY <1>1, <2>2
    <3>2. q[i] = pos[i] - d /\ pos[i] \in Nat /\ pos[i] >= Size(Self)
      BY <1>3, <1>4, <3>1
    <3>3. pos[i] + j \in 1 .. Len(stack) /\ stack[pos[i] + j] = Word(active[i], j) /\ j \in 1 .. 12
      <4>1. j \in 1 .. Size(active[i])
        BY <3>1
      <4>2. /\ Size(active[i]) \in {10, 12} /\ pos[i] + j \in 1 .. Len(stack)
            /\ stack[pos[i] + j] = Word(active[i], j)
        BY <4>1, Within
      <4>3. \A z \in {10, 12} : 1 .. z \subseteq 1 .. 12
        OBVIOUS
      <4> QED BY <4>1, <4>2, <4>3
    <3>4. q[i] + j \in 1 .. Len(stack') /\ q[i] + j > Size(active'[1]) /\ q[i] + j + d = pos[i] + j
      <4>1. d = 0 \/ d = 2
        OBVIOUS
      <4>2. j \in Nat /\ j >= 1 /\ pos[i] + j <= Len(stack)
        BY <1>1, <3>2, <3>3
      <4>3. Size(Self) \in Nat /\ Size(Self) >= 10
        BY <1>1
      <4>4. \A x, y, l, z \in Nat : x + y <= l /\ y >= 1 /\ x >= z /\ z >= 10 =>
              (x - d) + y \in 1 .. l - d /\ (x - d) + y > z - d /\ (x - d) + y + d = x + y
        BY <4>1
      <4>5. /\ (pos[i] - d) + j \in 1 .. Len(stack) - d /\ (pos[i] - d) + j > Size(Self) - d
            /\ (pos[i] - d) + j + d = pos[i] + j
        BY <1>1, <3>2, <4>2, <4>3, <4>4, Zenon
      <4> QED BY <3>2, <4>5, Zenon
    <3> QED BY <3>1, <3>3, <3>4
  <2> QED BY <2>1, <2>2
<1>9. LaidIn(q, active', stack')
  BY <1>4, <1>5, <1>6, <1>7, <1>8 DEF LaidIn
<1> QED BY <1>9 DEF Laid

\* The handler that advances.
LEMMA Advances ==
  ASSUME Typed, Running, Advance, Instr.op \notin {"spin", "iretq"}
  PROVE  /\ active' \in Seq(Handling) /\ Len(active') = Len(active)
         /\ \A i \in 2 .. Len(active) : active'[i] = active[i]
         /\ active'[1].v = Self.v /\ active'[1].k = Self.k /\ active'[1].pc = Self.pc + 1
         /\ \A i \in 1 .. Len(active') : active'[i].pc \in 1 .. Len(Handler(active'[i].v))
         /\ 1 \in 1 .. Len(active)
<1>1. /\ Self = active[1] /\ Self \in Handling /\ Self.pc \in 1 .. Len(Handler(Self.v))
      /\ Len(active) \in Nat \ {0}
  BY DEF Typed, Running, Self
<1>2. active' = [active EXCEPT ![1].pc = @ + 1] /\ active \in Seq(Handling)
  BY DEF Advance, Typed
<1>3. active'[1] = [active[1] EXCEPT !.pc = @ + 1]
  BY <1>1, <1>2
<1>4. active'[1].v = Self.v /\ active'[1].k = Self.k /\ active'[1].pc = Self.pc + 1 /\ active'[1] \in Handling
  BY <1>1, <1>3 DEF Handling
<1>5. Len(active') = Len(active) /\ \A i \in 2 .. Len(active) : active'[i] = active[i]
  BY <1>1, <1>2
<1>6. active' \in Seq(Handling)
  BY <1>1, <1>2, <1>3, <1>4
<1>7. Self.pc + 1 \in 1 .. Len(Handler(Self.v))
  BY <1>1, InstrIs DEF Instr, Handling
<1>8. ASSUME NEW i \in 1 .. Len(active') PROVE active'[i].pc \in 1 .. Len(Handler(active'[i].v))
  <2>1. CASE i = 1
    BY <1>4, <1>7, <2>1
  <2>2. CASE i # 1
    <3>1. i \in 2 .. Len(active) /\ i \in 1 .. Len(active)
      BY <1>1, <1>5, <2>2
    <3> QED BY <1>5, <3>1 DEF Typed
  <2> QED BY <2>1, <2>2
<1> QED BY <1>1, <1>4, <1>5, <1>6, <1>8

\* What it does to cr2 and L0: nothing, or clear L0.
LEMMA NestedAdvances ==
  ASSUME Typed, Nested, Running, Advance, Instr.op \notin {"spin", "iretq"}, cr2' = cr2,
         \/ L0' = FALSE
         \/ L0' = L0 /\ (Self.v = "DB" => Self.pc > 1)
  PROVE  Nested'
<1>1. /\ Len(active') = Len(active) /\ 1 \in 1 .. Len(active) /\ Len(active) \in Nat
      /\ \A i \in 2 .. Len(active) : active'[i] = active[i]
      /\ active'[1].v = Self.v /\ active'[1].k = Self.k /\ Self = active[1]
  BY Advances DEF Typed, Running, Self
<1>2. \A i \in 1 .. Len(active) : active'[i].v = active[i].v /\ active'[i].k = active[i].k
  <2> TAKE i \in 1 .. Len(active)
  <2>1. i = 1 \/ i \in 2 .. Len(active)
    BY <1>1
  <2> QED BY <1>1, <2>1
<1>3. ASSUME NEW i \in 1 .. Len(active'), active'[i].v = "PF", \A j \in 1 .. i - 1 : active'[j].v # "PF"
      PROVE  cr2' = active'[i].k
  <2>1. i \in 1 .. Len(active) /\ \A j \in 1 .. i - 1 : j \in 1 .. Len(active)
    BY <1>1
  <2>2. active[i].v = "PF" /\ \A j \in 1 .. i - 1 : active[j].v # "PF"
    BY <1>2, <1>3, <2>1
  <2> QED BY <1>2, <2>1, <2>2 DEF Nested
<1>4. ASSUME NEW i \in 1 .. Len(active'), active'[i].v = "DB", active'[i].pc > 1 PROVE L0' = FALSE
  <2>1. i = 1 \/ (i \in 2 .. Len(active) /\ i \in 1 .. Len(active))
    BY <1>1
  <2> QED BY <1>1, <1>4, <2>1 DEF Nested
<1> QED BY <1>3, <1>4 DEF Nested

\* A frame on top of the others.
LEMMA Pushed ==
  ASSUME HandlersInv, NEW v \in Raised, Raise(v)
  PROVE  Typed' /\ (\E q : Laid(q)') /\ Nested'
<1> DEFINE k == taken + 1
           f == Frame(v, k)
           a == [v |-> v, k |-> k, pc |-> 1]
           n == Len(active)
           z == Size(a)
<1>1. /\ taken' = k /\ stack' = f \o stack /\ active' = <<a>> \o active
      /\ cr2' = (IF v = "PF" THEN k ELSE cr2) /\ L0' = L0
  BY DEF Raise
<1>2. /\ stack \in Seq(DWord) /\ active \in Seq(Handling) /\ k \in Nat /\ cr2 \in Nat /\ n \in Nat
      /\ v \in Vectors /\ Len(stack) \in Nat
  BY RaisedAssumption DEF HandlersInv, Typed, Vectors
<1>3. f \in Seq(DWord) /\ Len(f) = z /\ z \in {10, 12} /\ \A j \in 1 .. z : f[j] = Word(a, j)
  <2>1. z = (IF v \in WithErrorCode THEN 12 ELSE 10) /\ Skip(a) = 0
    BY DEF Size, Skip
  <2>2. f \in Seq(DWord) /\ Len(f) = z
    BY <1>2, <2>1, FrameIs
  <2>3. \A j \in 1 .. z : Word(a, j) = Frame(v, k)[j + 0] /\ j + 0 = j
    BY <2>1 DEF Word
  <2> QED BY <2>1, <2>2, <2>3
<1>4. a \in Handling /\ <<a>> \in Seq(Handling) /\ Len(<<a>>) = 1 /\ <<a>>[1] = a
  BY <1>2 DEF Handling
<1>5. 1 \in 1 .. Len(Handler(v))
  BY <1>2 DEF Handler, Vectors, Report, DF_handler, PF_handler, DB_handler, Reporting
<1>p. a.v = v /\ a.k = k /\ a.pc = 1
  OBVIOUS
<1> HIDE DEF a, f, k, z
<1>6. /\ stack' \in Seq(DWord) /\ Len(stack') = z + Len(stack)
      /\ \A j \in 1 .. z : stack'[j] = f[j]
      /\ \A m \in 1 .. Len(stack) : stack'[z + m] = stack[m]
  BY <1>1, <1>2, <1>3
<1>7. /\ active' \in Seq(Handling) /\ Len(active') = n + 1 /\ active'[1] = a
      /\ \A i \in 1 .. n : active'[i + 1] = active[i]
  BY <1>1, <1>2, <1>4
<1>8. \A i \in 1 .. n + 1 : i = 1 \/ (i - 1 \in 1 .. n /\ active'[i] = active[i - 1])
  <2> TAKE i \in 1 .. n + 1
  <2>1. i = 1 \/ (i - 1 \in 1 .. n /\ (i - 1) + 1 = i)
    BY <1>2
  <2> QED BY <1>7, <2>1
<1>9. Typed'
  <2>1. ASSUME NEW i \in 1 .. n + 1 PROVE active'[i].pc \in 1 .. Len(Handler(active'[i].v))
    <3>1. CASE i = 1
      BY <1>5, <1>7, <1>p, <3>1
    <3>2. CASE i # 1
      BY <1>8, <3>2 DEF HandlersInv, Typed
    <3> QED BY <3>1, <3>2
  <2>2. cr2' \in Nat /\ taken' \in Nat
    BY <1>1, <1>2
  <2> QED BY <1>6, <1>7, <2>1, <2>2 DEF Typed
<1>10. \E q : Laid(q)'
  <2>1. PICK pos : Laid(pos)
    BY DEF HandlersInv
  <2> DEFINE q == [i \in 1 .. n + 2 |-> IF i = 1 THEN 0 ELSE pos[i - 1] + z]
  <2>2. /\ pos \in [1 .. n + 1 -> Nat] /\ pos[1] = 0 /\ pos[n + 1] = Len(stack)
        /\ \A i, j \in 1 .. n + 1 : i <= j => pos[i] <= pos[j]
        /\ \A i \in 1 .. n : pos[i + 1] = pos[i] + Size(active[i])
    BY <2>1 DEF Laid, LaidIn
  <2>3. q \in [1 .. n + 2 -> Nat] /\ q[1] = 0 /\ \A i \in 1 .. n + 1 : q[i + 1] = pos[i] + z
    BY <1>2, <1>3, <2>2
  <2> HIDE DEF q
  <2>4. n + 2 = (n + 1) + 1 /\ n + 1 \in 1 .. n + 1 /\ 1 \in 1 .. n + 1 /\ z \in Nat
    BY <1>2, <1>3
  <2>5. q[(n + 1) + 1] = Len(stack') /\ q[1 + 1] = z
    <3>1. q[(n + 1) + 1] = pos[n + 1] + z /\ q[1 + 1] = pos[1] + z
      BY <2>3, <2>4
    <3> QED BY <1>2, <1>6, <2>2, <2>4, <3>1
  <2>6. ASSUME NEW i \in 1 .. n + 2, NEW j \in 1 .. n + 2, i <= j PROVE q[i] <= q[j]
    <3>1. CASE i = 1
      BY <2>3, <3>1
    <3>2. CASE i # 1
      <4>1. i - 1 \in 1 .. n + 1 /\ j - 1 \in 1 .. n + 1 /\ i - 1 <= j - 1 /\ (i - 1) + 1 = i /\ (j - 1) + 1 = j
        BY <1>2, <2>6, <3>2
      <4>2. q[i] = pos[i - 1] + z /\ q[j] = pos[j - 1] + z /\ pos[i - 1] <= pos[j - 1]
        BY <2>2, <2>3, <4>1
      <4>3. pos[i - 1] \in Nat /\ pos[j - 1] \in Nat
        BY <2>2, <4>1
      <4> QED BY <2>4, <4>2, <4>3
    <3> QED BY <3>1, <3>2
  <2>7. ASSUME NEW i \in 1 .. n + 1 PROVE q[i + 1] = q[i] + Size(active'[i])
    <3>1. CASE i = 1
      BY <1>7, <2>3, <2>4, <2>5, <3>1 DEF z
    <3>2. CASE i # 1
      <4>1. i - 1 \in 1 .. n /\ i - 1 \in 1 .. n + 1 /\ (i - 1) + 1 = i /\ active'[i] = active[i - 1]
        BY <1>2, <1>8, <3>2
      <4>2. q[i] = pos[i - 1] + z /\ q[i + 1] = pos[i] + z
        BY <2>3, <4>1
      <4>3. pos[i] = pos[i - 1] + Size(active[i - 1]) /\ pos[i - 1] \in Nat /\ Size(active[i - 1]) \in Nat
        BY <2>2, <4>1 DEF Size, Skip, WithErrorCode
      <4> QED BY <2>4, <4>1, <4>2, <4>3
    <3> QED BY <3>1, <3>2
  <2>8. ASSUME NEW i \in 1 .. n + 1, NEW j \in 1 .. Size(active'[i]) PROVE stack'[q[i] + j] = Word(active'[i], j)
    <3>1. CASE i = 1
      <4>1. j \in 1 .. z /\ q[i] + j = j
        BY <1>3, <1>7, <2>3, <2>4, <3>1 DEF z
      <4> QED BY <1>3, <1>6, <1>7, <3>1, <4>1
    <3>2. CASE i # 1
      <4>1. i - 1 \in 1 .. n /\ i - 1 \in 1 .. n + 1 /\ (i - 1) + 1 = i /\ active'[i] = active[i - 1]
        BY <1>2, <1>8, <3>2
      <4>2. j \in 1 .. Size(active[i - 1])
        BY <4>1
      <4>3. /\ pos[i - 1] \in Nat /\ pos[i - 1] + j \in 1 .. Len(stack) /\ Size(active[i - 1]) \in {10, 12}
            /\ stack[pos[i - 1] + j] = Word(active[i - 1], j)
        BY <2>1, <4>1, <4>2, Within DEF HandlersInv
      <4>4. q[i] = pos[i - 1] + z /\ j \in Int
        BY <2>3, <4>1, <4>2, <4>3
      <4>5. q[i] + j = z + (pos[i - 1] + j)
        BY <2>4, <4>3, <4>4
      <4> QED BY <1>6, <4>1, <4>3, <4>5
    <3> QED BY <3>1, <3>2
  <2>9. LaidIn(q, active', stack')
    BY <1>7, <2>3, <2>4, <2>5, <2>6, <2>7, <2>8 DEF LaidIn
  <2> QED BY <2>9 DEF Laid
<1>11. Nested'
  <2>1. ASSUME NEW i \in 1 .. n + 1, active'[i].v = "PF", \A j \in 1 .. i - 1 : active'[j].v # "PF"
        PROVE  cr2' = active'[i].k
    <3>1. CASE i = 1
      BY <1>1, <1>7, <1>p, <2>1, <3>1
    <3>2. CASE i # 1
      <4>1. i - 1 \in 1 .. n /\ active'[i] = active[i - 1] /\ 1 \in 1 .. i - 1
        BY <1>2, <1>8, <3>2
      <4>2. cr2' = cr2
        BY <1>1, <1>7, <1>p, <2>1, <4>1
      <4>3. ASSUME NEW j \in 1 .. (i - 1) - 1 PROVE active[j].v # "PF"
        <5>1. j + 1 \in 1 .. i - 1 /\ j \in 1 .. n
          BY <1>2, <4>1
        <5> QED BY <1>7, <2>1, <5>1
      <4> QED BY <2>1, <4>1, <4>2, <4>3 DEF HandlersInv, Nested
    <3> QED BY <3>1, <3>2
  <2>2. ASSUME NEW i \in 1 .. n + 1, active'[i].v = "DB", active'[i].pc > 1 PROVE L0' = FALSE
    <3>1. i # 1
      BY <1>7, <1>p, <2>2
    <3>2. i - 1 \in 1 .. n /\ active'[i] = active[i - 1]
      BY <1>8, <3>1
    <3> QED BY <1>1, <2>2, <3>2 DEF HandlersInv, Nested
  <2> QED BY <1>7, <2>1, <2>2 DEF Nested
<1> QED BY <1>9, <1>10, <1>11

\* The frame of #DB is taken off, whole.
LEMMA Popped ==
  ASSUME HandlersInv, Iretq
  PROVE  /\ Typed' /\ (\E q : Laid(q)') /\ Nested'
         /\ Self.v = "DB" /\ Self.pc = 3 /\ Size(Self) = 10
<1> DEFINE n == Len(active)
<1>1. /\ Running /\ Instr.op = "iretq" /\ stack' = SubSeq(stack, 11, Len(stack)) /\ active' = Tail(active)
      /\ UNCHANGED <<taken, cr2, L0>>
  BY DEF Iretq
<1>2. /\ Self = active[1] /\ Self \in Handling /\ Self.pc \in 1 .. Len(Handler(Self.v))
      /\ n \in Nat \ {0} /\ Len(stack) >= Size(Self) /\ Len(stack) \in Nat
  BY <1>1, OnTop DEF HandlersInv
<1>3. Self.v = "DB" /\ Self.pc = 3
  BY <1>1, <1>2, InstrIs DEF Instr, Handling
<1>4. Size(Self) = 10
  BY <1>3 DEF Size, Skip, WithErrorCode
<1>5. /\ stack \in Seq(DWord) /\ active \in Seq(Handling) /\ taken \in Nat /\ cr2 \in Nat
      /\ \A i \in 1 .. n : active[i].pc \in 1 .. Len(Handler(active[i].v))
  BY DEF HandlersInv, Typed
<1>6. /\ active' \in Seq(Handling) /\ Len(active') = n - 1
      /\ \A i \in 1 .. n - 1 : active'[i] = active[i + 1] /\ i + 1 \in 1 .. n
  BY <1>1, <1>2, <1>5
<1>7. /\ stack' \in Seq(DWord) /\ Len(stack') = Len(stack) - 10
      /\ \A m \in 1 .. Len(stack') : stack'[m] = stack[m + 10]
  <2> DEFINE len == Len(stack)
  <2>1. len \in Nat /\ len >= 10 /\ len = Len(stack)
    BY <1>2, <1>4
  <2> HIDE DEF len
  <2>2. /\ SubSeq(stack, 11, len) \in Seq(DWord) /\ Len(SubSeq(stack, 11, len)) = len - 10
    BY <1>5, <2>1
  <2>3. \A m \in 1 .. len - 10 : SubSeq(stack, 11, len)[m] = stack[m + 10]
    BY <1>5, <2>1
  <2> QED BY <1>1, <2>1, <2>2, <2>3
<1>8. Typed'
  BY <1>1, <1>5, <1>6, <1>7 DEF Typed
<1>9. \E q : Laid(q)'
  <2>1. PICK pos : Laid(pos)
    BY DEF HandlersInv
  <2> DEFINE q == [i \in 1 .. n |-> pos[i + 1] - 10]
  <2>2. /\ pos \in [1 .. n + 1 -> Nat] /\ pos[1] = 0 /\ pos[n + 1] = Len(stack)
        /\ \A i, j \in 1 .. n + 1 : i <= j => pos[i] <= pos[j]
        /\ \A i \in 1 .. n : pos[i + 1] = pos[i] + Size(active[i])
    BY <2>1 DEF Laid, LaidIn
  <2>3. 1 \in 1 .. n /\ 1 + 1 \in 1 .. n + 1 /\ n \in 1 .. n
    BY <1>2
  <2>4. pos[1 + 1] = 10
    BY <1>2, <1>4, <2>2, <2>3
  <2>5. \A i \in 1 .. n : i + 1 \in 1 .. n + 1 /\ pos[i + 1] \in Nat /\ pos[i + 1] >= 10
    <3> TAKE i \in 1 .. n
    <3>1. i + 1 \in 1 .. n + 1 /\ 1 + 1 <= i + 1
      BY <1>2
    <3>2. pos[1 + 1] <= pos[i + 1] /\ pos[i + 1] \in Nat
      BY <2>2, <2>3, <3>1
    <3> QED BY <2>4, <3>1, <3>2
  <2>6. q \in [1 .. n -> Nat] /\ \A i \in 1 .. n : q[i] = pos[i + 1] - 10
    BY <2>5
  <2> HIDE DEF q
  <2>7. q[1] = 0 /\ q[n] = Len(stack')
    BY <1>2, <1>7, <2>2, <2>3, <2>4, <2>6
  <2>8. ASSUME NEW i \in 1 .. n, NEW j \in 1 .. n, i <= j PROVE q[i] <= q[j]
    <3>1. i + 1 \in 1 .. n + 1 /\ j + 1 \in 1 .. n + 1 /\ i + 1 <= j + 1
      BY <1>2, <2>8
    <3>2. pos[i + 1] <= pos[j + 1]
      BY <2>2, <3>1
    <3> QED BY <2>5, <2>6, <3>2
  <2>9. ASSUME NEW i \in 1 .. n - 1 PROVE q[i + 1] = q[i] + Size(active'[i])
    <3>1. i \in 1 .. n /\ i + 1 \in 1 .. n /\ active'[i] = active[i + 1]
      BY <1>2, <1>6
    <3>2. pos[(i + 1) + 1] = pos[i + 1] + Size(active[i + 1])
      BY <2>2, <3>1
    <3>3. Size(active[i + 1]) \in Nat
      BY DEF Size, Skip, WithErrorCode
    <3>4. q[i + 1] = pos[(i + 1) + 1] - 10 /\ q[i] = pos[i + 1] - 10 /\ pos[i + 1] \in Nat
      BY <2>5, <2>6, <3>1
    <3> QED BY <3>1, <3>2, <3>3, <3>4
  <2>10. ASSUME NEW i \in 1 .. n - 1, NEW j \in 1 .. Size(active'[i])
         PROVE  stack'[q[i] + j] = Word(active'[i], j)
    <3>1. i \in 1 .. n /\ i + 1 \in 1 .. n /\ active'[i] = active[i + 1]
      BY <1>2, <1>6
    <3>2. j \in 1 .. Size(active[i + 1])
      BY <3>1
    <3>3. /\ pos[i + 1] + j \in 1 .. Len(stack) /\ Size(active[i + 1]) \in {10, 12}
          /\ stack[pos[i + 1] + j] = Word(active[i + 1], j)
      BY <2>1, <3>1, <3>2, Within DEF HandlersInv
    <3>4. q[i] = pos[i + 1] - 10 /\ pos[i + 1] \in Nat /\ pos[i + 1] >= 10 /\ j \in Nat /\ j >= 1
      BY <2>5, <2>6, <3>1, <3>2, <3>3
    <3>5. q[i] + j \in 1 .. Len(stack') /\ (q[i] + j) + 10 = pos[i + 1] + j
      <4>1. \A x, y, l \in Nat : x >= 10 /\ y >= 1 /\ x + y \in 1 .. l =>
              (x - 10) + y \in 1 .. l - 10 /\ ((x - 10) + y) + 10 = x + y
        OBVIOUS
      <4>2. (pos[i + 1] - 10) + j \in 1 .. Len(stack) - 10 /\ ((pos[i + 1] - 10) + j) + 10 = pos[i + 1] + j
        BY <1>2, <3>3, <3>4, <4>1, Zenon
      <4> QED BY <1>7, <3>4, <4>2, Zenon
    <3> QED BY <1>7, <3>1, <3>3, <3>5
  <2>11. (n - 1) + 1 = n
    BY <1>2
  <2>12. LaidIn(q, active', stack')
    BY <1>6, <2>6, <2>7, <2>8, <2>9, <2>10, <2>11 DEF LaidIn
  <2> QED BY <2>12 DEF Laid
<1>10. Nested'
  <2>1. ASSUME NEW i \in 1 .. n - 1, active'[i].v = "PF", \A j \in 1 .. i - 1 : active'[j].v # "PF"
        PROVE  cr2' = active'[i].k
    <3>1. i + 1 \in 1 .. n /\ active'[i] = active[i + 1]
      BY <1>6
    <3>2. ASSUME NEW j \in 1 .. (i + 1) - 1 PROVE active[j].v # "PF"
      <4>1. CASE j = 1
        BY <1>2, <1>3, <4>1
      <4>2. CASE j # 1
        <5>1. j - 1 \in 1 .. i - 1 /\ j - 1 \in 1 .. n - 1 /\ (j - 1) + 1 = j
          BY <1>2, <4>2
        <5> QED BY <1>6, <2>1, <5>1
      <4> QED BY <4>1, <4>2
    <3> QED BY <1>1, <2>1, <3>1, <3>2 DEF HandlersInv, Nested
  <2>2. ASSUME NEW i \in 1 .. n - 1, active'[i].v = "DB", active'[i].pc > 1 PROVE L0' = FALSE
    BY <1>1, <1>6, <2>2 DEF HandlersInv, Nested
  <2> QED BY <1>6, <2>1, <2>2 DEF Nested
<1> QED BY <1>3, <1>4, <1>8, <1>9, <1>10

------------------------------------------------------------------------------
(* Each step keeps the invariant *)

\* The words of a frame that an instruction leaves alone.
LEMMA SameWords ==
  ASSUME NEW a, NEW b, a.v = b.v, a.k = b.k, Skip(a) = Skip(b), a.v # "DB" \/ (a.pc <= 2 /\ b.pc <= 2),
         a.pc \in Nat, b.pc \in Nat
  PROVE  Size(a) = Size(b) /\ \A j : Word(a, j) = Word(b, j)
BY DEF Size, Word

\* A handler that advances and leaves the stack alone.
LEMMA StackLeft ==
  ASSUME HandlersInv, Running, Advance, Instr.op \notin {"spin", "iretq"}, UNCHANGED <<stack, taken, cr2>>,
         Self.v = "PF" => Self.pc > 1, Self.v = "DB" => Self.pc = 1,
         L0' = FALSE \/ (L0' = L0 /\ Self.v # "DB")
  PROVE  Typed' /\ (\E q : Laid(q)') /\ Nested'
<1>1. /\ Self \in Handling /\ Len(stack) \in Nat /\ Size(Self) \in {10, 12} /\ Len(stack) >= Size(Self)
      /\ \A j \in 1 .. Size(Self) : stack[j] = Word(Self, j)
  BY OnTop DEF HandlersInv
<1>2. /\ active' \in Seq(Handling) /\ Len(active') = Len(active)
      /\ \A i \in 2 .. Len(active) : active'[i] = active[i]
      /\ active'[1].v = Self.v /\ active'[1].k = Self.k /\ active'[1].pc = Self.pc + 1
      /\ \A i \in 1 .. Len(active') : active'[i].pc \in 1 .. Len(Handler(active'[i].v))
  BY Advances DEF HandlersInv
<1>3. Self.pc \in Nat
  BY <1>1 DEF Handling
<1>4. Skip(active'[1]) = Skip(Self)
  BY <1>2, <1>3 DEF Skip
<1>5. Size(active'[1]) = Size(Self) /\ \A j : Word(active'[1], j) = Word(Self, j)
  BY <1>2, <1>3, <1>4, SameWords
<1>6. Typed'
  BY <1>2 DEF HandlersInv, Typed
<1>7. Nested'
  BY NestedAdvances DEF HandlersInv
<1>8. PICK pos : Laid(pos)
  BY DEF HandlersInv
<1>9. /\ Len(stack') = Len(stack) - 0 /\ Size(active'[1]) = Size(Self) - 0
      /\ \A m \in 1 .. Len(stack') : m > Size(active'[1]) => stack'[m] = stack[m + 0]
  BY <1>1, <1>5
<1>10. \A j \in 1 .. Size(active'[1]) : stack'[j] = Word(active'[1], j)
  BY <1>1, <1>5
<1>11. \E q : Laid(q)'
  BY <1>2, <1>8, <1>9, <1>10, Relaid DEF HandlersInv
<1> QED BY <1>6, <1>7, <1>11

\* The quad word at the i-th double word.
LEMMA QuadAt ==
  ASSUME stack \in Seq(DWord)
  PROVE  \A i \in Nat : i > 0 /\ i + 1 <= Len(stack) => SubSeq(stack, i, i + 1) = <<stack[i], stack[i + 1]>>
<1> TAKE i \in Nat
<1> HAVE i > 0 /\ i + 1 <= Len(stack)
<1> DEFINE s == SubSeq(stack, i, i + 1)
<1>1. s \in Seq(DWord) /\ Len(s) = 2 /\ s[1] = stack[i] /\ s[2] = stack[i + 1]
  OBVIOUS
<1> HIDE DEF s
<1>2. s = <<s[1], s[2]>>
  BY <1>1
<1> QED BY <1>1, <1>2 DEF s

\* The line that ShowWord adds.
LEMMA ShownWord ==
  ASSUME HandlersInv, ShowWord
  PROVE  HandlersInv' /\ Len(active') = Len(active)
<1>1. /\ Running /\ Instr.op = "show" /\ Advance /\ UNCHANGED <<stack, taken, cr2, L0>>
      /\ lines' = lines \union {Line(Instr.label, At(Instr.offset))}
  BY DEF ShowWord
<1>2. /\ Self \in Handling /\ Self.pc \in 1 .. Len(Handler(Self.v)) /\ Len(stack) \in Nat
      /\ Size(Self) \in {10, 12} /\ Len(stack) >= Size(Self) /\ stack \in Seq(DWord)
      /\ \A j \in 1 .. Size(Self) : stack[j] = Word(Self, j)
  BY <1>1, OnTop DEF HandlersInv, Typed
<1>3. Self.v \in Vectors /\ Self.k \in Nat /\ Self.pc \in Nat /\ Instr = Handler(Self.v)[Self.pc]
  BY <1>2 DEF Handling, Instr
<1>4. Self.v # "DB" /\ (Self.v = "PF" => Self.pc = 2)
  BY <1>1, <1>2, <1>3, InstrIs
<1>5. Typed' /\ (\E q : Laid(q)') /\ Nested'
  BY <1>1, <1>4, StackLeft
<1>6. ASSUME Self.v \in WithErrorCode \ {"DF"} PROVE At(Instr.offset) = QWord(Instr.label, Self.k)
  <2>1. \A j \in 1 .. Size(Self) : stack[j] = Frame(Self.v, Self.k)[j + Skip(Self)]
    BY <1>2, <1>4 DEF Word
  <2>2. /\ Frame(Self.v, Self.k)[1] = Half("err", Self.k, "lo") /\ Frame(Self.v, Self.k)[2] = Half("err", Self.k, "hi")
        /\ Frame(Self.v, Self.k)[3] = Half("rip", Self.k, "lo") /\ Frame(Self.v, Self.k)[4] = Half("rip", Self.k, "hi")
        /\ Frame(Self.v, Self.k)[9] = Half("rsp", Self.k, "lo") /\ Frame(Self.v, Self.k)[10] = Half("rsp", Self.k, "hi")
    BY <1>3, <1>6, FrameIs
  <2>3. \/ Self.v # "PF" /\ Instr.label = "rip" /\ Instr.offset = 8
        \/ Self.v # "PF" /\ Instr.label = "err" /\ Instr.offset = 0
        \/ Self.v # "PF" /\ Instr.label = "rsp" /\ Instr.offset = 32
        \/ Self.v = "PF" /\ Self.pc = 2 /\ Instr.label = "rip" /\ Instr.offset = 0
    BY <1>1, <1>2, <1>3, <1>6, InstrIs
  <2>4. CASE Self.v # "PF"
    <3>1. Skip(Self) = 0 /\ Size(Self) = 12
      BY <1>6, <2>4 DEF Skip, Size
    <3>2. \A j \in 1 .. 12 : stack[j] = Frame(Self.v, Self.k)[j] /\ Len(stack) >= 12
      <4> TAKE j \in 1 .. 12
      <4>1. j + 0 = j
        OBVIOUS
      <4> QED BY <1>2, <2>1, <3>1, <4>1
    <3>3. /\ stack[1] = Half("err", Self.k, "lo") /\ stack[2] = Half("err", Self.k, "hi")
          /\ stack[3] = Half("rip", Self.k, "lo") /\ stack[4] = Half("rip", Self.k, "hi")
          /\ stack[9] = Half("rsp", Self.k, "lo") /\ stack[10] = Half("rsp", Self.k, "hi")
      BY <2>2, <3>2
    <3>4. /\ SubSeq(stack, 1, 2) = QWord("err", Self.k) /\ SubSeq(stack, 3, 4) = QWord("rip", Self.k)
          /\ SubSeq(stack, 9, 10) = QWord("rsp", Self.k)
      <4>1. Len(stack) >= 12
        BY <1>2, <3>1
      <4>2. /\ SubSeq(stack, 1, 1 + 1) = <<stack[1], stack[1 + 1]>>
            /\ SubSeq(stack, 3, 3 + 1) = <<stack[3], stack[3 + 1]>>
            /\ SubSeq(stack, 9, 9 + 1) = <<stack[9], stack[9 + 1]>>
        BY <1>2, <4>1, QuadAt
      <4>3. 1 + 1 = 2 /\ 3 + 1 = 4 /\ 9 + 1 = 10
        OBVIOUS
      <4> QED BY <3>3, <4>2, <4>3 DEF QWord
    <3>5. /\ 0 \div 4 + 1 = 1 /\ 0 \div 4 + 2 = 2 /\ 8 \div 4 + 1 = 3 /\ 8 \div 4 + 2 = 4
          /\ 32 \div 4 + 1 = 9 /\ 32 \div 4 + 2 = 10
      OBVIOUS
    <3> QED BY <2>3, <2>4, <3>4, <3>5 DEF At
  <2>5. CASE Self.v = "PF"
    <3>1. Skip(Self) = 2 /\ Size(Self) = 10
      BY <1>4, <2>5 DEF Skip, Size, WithErrorCode
    <3>2. stack[1] = Frame(Self.v, Self.k)[1 + 2] /\ stack[2] = Frame(Self.v, Self.k)[2 + 2]
      BY <2>1, <3>1
    <3>3. stack[1] = Half("rip", Self.k, "lo") /\ stack[2] = Half("rip", Self.k, "hi")
      BY <2>2, <3>2
    <3>4. SubSeq(stack, 1, 2) = QWord("rip", Self.k)
      <4>1. Len(stack) >= 10
        BY <1>2, <3>1
      <4>2. SubSeq(stack, 1, 1 + 1) = <<stack[1], stack[1 + 1]>> /\ 1 + 1 = 2
        BY <1>2, <4>1, QuadAt
      <4> QED BY <3>3, <4>2 DEF QWord
    <3>5. 0 \div 4 + 1 = 1 /\ 0 \div 4 + 2 = 2
      OBVIOUS
    <3> QED BY <2>3, <2>5, <3>4, <3>5 DEF At
  <2> QED BY <2>4, <2>5
<1>7. CodedReports'
  BY <1>1, <1>6 DEF HandlersInv, CodedReports, Truthful, Line
<1>8. Len(active') = Len(active)
  BY <1>1, Advances DEF HandlersInv
<1> QED BY <1>5, <1>7, <1>8 DEF HandlersInv

LEMMA ShownCr2 ==
  ASSUME HandlersInv, ShowCr2
  PROVE  HandlersInv' /\ Len(active') = Len(active)
<1>1. /\ Running /\ Instr.op = "show_cr2" /\ Advance /\ UNCHANGED <<stack, taken, cr2, L0>>
      /\ lines' = lines \union {Line("address", QWord("address", cr2))}
  BY DEF ShowCr2
<1>2. /\ Self = active[1] /\ Self \in Handling /\ Self.pc \in 1 .. Len(Handler(Self.v)) /\ 1 \in 1 .. Len(active)
  BY <1>1, OnTop DEF HandlersInv
<1>3. Self.v = "PF" /\ Self.pc = 3
  BY <1>1, <1>2, InstrIs DEF Handling, Instr
<1>4. Typed' /\ (\E q : Laid(q)') /\ Nested'
  BY <1>1, <1>3, StackLeft
<1>5. \A j \in 1 .. 1 - 1 : FALSE
  OBVIOUS
<1>6. cr2 = Self.k
  BY <1>2, <1>3, <1>5 DEF HandlersInv, Nested
<1>7. CodedReports'
  BY <1>1, <1>6 DEF HandlersInv, CodedReports, Truthful, Line
<1>8. Len(active') = Len(active)
  BY <1>1, Advances DEF HandlersInv
<1> QED BY <1>4, <1>7, <1>8 DEF HandlersInv

LEMMA ClearedL0 ==
  ASSUME HandlersInv, ClearL0
  PROVE  HandlersInv' /\ Len(active') = Len(active)
<1>1. /\ Running /\ Instr.op = "clear_l0" /\ Advance /\ UNCHANGED <<stack, taken, cr2, lines>> /\ L0' = FALSE
  BY DEF ClearL0
<1>2. /\ Self \in Handling /\ Self.pc \in 1 .. Len(Handler(Self.v))
  BY <1>1, OnTop DEF HandlersInv
<1>3. Self.v = "DB" /\ Self.pc = 1
  BY <1>1, <1>2, InstrIs DEF Handling, Instr
<1>4. Typed' /\ (\E q : Laid(q)') /\ Nested'
  BY <1>1, <1>3, StackLeft
<1>5. CodedReports'
  BY <1>1 DEF HandlersInv, CodedReports
<1>6. Len(active') = Len(active)
  BY <1>1, Advances DEF HandlersInv
<1> QED BY <1>4, <1>5, <1>6 DEF HandlersInv

LEMMA DroppedCode ==
  ASSUME HandlersInv, DropErrorCode
  PROVE  HandlersInv' /\ Len(active') = Len(active)
<1>1. /\ Running /\ Instr.op = "add8" /\ Advance /\ UNCHANGED <<taken, cr2, L0, lines>>
      /\ stack' = SubSeq(stack, 3, Len(stack))
  BY DEF DropErrorCode
<1>2. /\ Self \in Handling /\ Self.pc \in 1 .. Len(Handler(Self.v)) /\ Len(stack) \in Nat /\ stack \in Seq(DWord)
      /\ Len(stack) >= Size(Self) /\ \A j \in 1 .. Size(Self) : stack[j] = Word(Self, j)
  BY <1>1, OnTop DEF HandlersInv, Typed
<1>3. Self.v = "PF" /\ Self.pc = 1
  BY <1>1, <1>2, InstrIs DEF Handling, Instr
<1>4. /\ active' \in Seq(Handling) /\ Len(active') = Len(active)
      /\ \A i \in 2 .. Len(active) : active'[i] = active[i]
      /\ active'[1].v = Self.v /\ active'[1].k = Self.k /\ active'[1].pc = Self.pc + 1
      /\ \A i \in 1 .. Len(active') : active'[i].pc \in 1 .. Len(Handler(active'[i].v))
  BY <1>1, Advances DEF HandlersInv
<1>5. Size(Self) = 12 /\ Size(active'[1]) = 10 /\ Skip(Self) = 0 /\ Skip(active'[1]) = 2
  BY <1>3, <1>4 DEF Size, Skip, WithErrorCode
<1>6. /\ stack' \in Seq(DWord) /\ Len(stack') = Len(stack) - 2
      /\ \A m \in 1 .. Len(stack') : stack'[m] = stack[m + 2]
  <2> DEFINE len == Len(stack)
  <2>1. len \in Nat /\ len >= 12 /\ len = Len(stack)
    BY <1>2, <1>5
  <2> HIDE DEF len
  <2>2. SubSeq(stack, 3, len) \in Seq(DWord) /\ Len(SubSeq(stack, 3, len)) = len - 2
    BY <1>2, <2>1
  <2>3. \A m \in 1 .. len - 2 : SubSeq(stack, 3, len)[m] = stack[m + 2]
    BY <1>2, <2>1
  <2> QED BY <1>1, <2>1, <2>2, <2>3
<1>7. ASSUME NEW j \in 1 .. Size(active'[1]) PROVE stack'[j] = Word(active'[1], j)
  <2>1. j \in 1 .. Len(stack') /\ j + 2 \in 1 .. 12 /\ (j + 2) + 0 = j + 2
    BY <1>2, <1>5, <1>6
  <2>2. stack'[j] = Word(Self, j + 2)
    BY <1>2, <1>5, <1>6, <2>1
  <2>3. Word(Self, j + 2) = Frame(Self.v, Self.k)[(j + 2) + 0]
    BY <1>3, <1>5 DEF Word
  <2>4. Word(active'[1], j) = Frame(Self.v, Self.k)[j + 2]
    BY <1>3, <1>4, <1>5 DEF Word
  <2> QED BY <2>1, <2>2, <2>3, <2>4
<1>8. Typed'
  BY <1>1, <1>4, <1>6 DEF HandlersInv, Typed
<1>9. Nested'
  BY <1>1, <1>3, NestedAdvances DEF HandlersInv
<1>10. PICK pos : Laid(pos)
  BY DEF HandlersInv
<1>11. Size(active'[1]) = Size(Self) - 2 /\ 2 \in {0, 2}
  BY <1>5
<1>12. \E q : Laid(q)'
  BY <1>1, <1>4, <1>6, <1>7, <1>10, <1>11, Relaid DEF HandlersInv
<1>13. CodedReports'
  BY <1>1 DEF HandlersInv, CodedReports
<1> QED BY <1>4, <1>8, <1>9, <1>12, <1>13 DEF HandlersInv

LEMMA FlaggedRF ==
  ASSUME HandlersInv, SetRF
  PROVE  HandlersInv' /\ Len(active') = Len(active)
<1>1. /\ Running /\ Instr.op = "set_rf" /\ Advance /\ UNCHANGED <<taken, cr2, L0, lines>>
      /\ stack' = [stack EXCEPT ![Instr.offset \div 4 + 1].rf = TRUE]
  BY DEF SetRF
<1>2. /\ Self \in Handling /\ Self.pc \in 1 .. Len(Handler(Self.v)) /\ Len(stack) \in Nat /\ stack \in Seq(DWord)
      /\ Len(stack) >= Size(Self) /\ \A j \in 1 .. Size(Self) : stack[j] = Word(Self, j)
  BY <1>1, OnTop DEF HandlersInv, Typed
<1>3. Self.v = "DB" /\ Self.pc = 2 /\ Instr.offset = 16
  BY <1>1, <1>2, InstrIs DEF Handling, Instr
<1>4. /\ active' \in Seq(Handling) /\ Len(active') = Len(active)
      /\ \A i \in 2 .. Len(active) : active'[i] = active[i]
      /\ active'[1].v = Self.v /\ active'[1].k = Self.k /\ active'[1].pc = Self.pc + 1
      /\ \A i \in 1 .. Len(active') : active'[i].pc \in 1 .. Len(Handler(active'[i].v))
  BY <1>1, Advances DEF HandlersInv
<1>5. Size(Self) = 10 /\ Size(active'[1]) = 10 /\ Skip(Self) = 0 /\ Skip(active'[1]) = 0
  BY <1>3, <1>4 DEF Size, Skip, WithErrorCode
<1>6. 16 \div 4 + 1 = 5
  OBVIOUS
<1>7. stack' = [stack EXCEPT ![5].rf = TRUE]
  BY <1>1, <1>3, <1>6
<1> DEFINE g == [stack[5] EXCEPT !.rf = TRUE]
<1>8. 5 \in 1 .. Len(stack) /\ g \in DWord
  <2>1. 5 \in 1 .. Len(stack)
    BY <1>2, <1>5
  <2>2. stack[5] \in DWord
    BY <1>2, <2>1
  <2> QED BY <2>1, <2>2 DEF DWord
<1>a. stack' = [stack EXCEPT ![5] = g]
  BY <1>7, Zenon
<1> HIDE DEF g
<1>9. /\ stack' \in Seq(DWord) /\ Len(stack') = Len(stack) /\ stack'[5] = g
      /\ \A m \in 1 .. Len(stack) : m # 5 => stack'[m] = stack[m]
  BY <1>2, <1>8, <1>a
<1>10. ASSUME NEW j \in 1 .. Size(active'[1]) PROVE stack'[j] = Word(active'[1], j)
  <2>1. j \in 1 .. 10 /\ j \in 1 .. Len(stack) /\ j + 0 = j
    BY <1>2, <1>5
  <2>2. stack[j] = Frame(Self.v, Self.k)[j]
    BY <1>2, <1>3, <1>5, <2>1 DEF Word
  <2>3. CASE j = 5
    <3>1. g = [Frame(Self.v, Self.k)[5] EXCEPT !.rf = TRUE]
      BY <2>2, <2>3 DEF g
    <3>2. Word(active'[1], 5) = [Frame(Self.v, Self.k)[5] EXCEPT !.rf = TRUE]
      BY <1>3, <1>4 DEF Word
    <3> QED BY <1>9, <2>3, <3>1, <3>2, Zenon
  <2>4. CASE j # 5
    BY <1>4, <1>5, <1>9, <2>1, <2>2, <2>4 DEF Word
  <2> QED BY <2>3, <2>4
<1>11. Typed'
  BY <1>1, <1>4, <1>9 DEF HandlersInv, Typed
<1>12. Nested'
  BY <1>1, <1>3, NestedAdvances DEF HandlersInv
<1>13. PICK pos : Laid(pos)
  BY DEF HandlersInv
<1>14. /\ Size(active'[1]) = Size(Self) - 0 /\ Len(stack') = Len(stack) - 0
       /\ \A m \in 1 .. Len(stack') : m > Size(active'[1]) => stack'[m] = stack[m + 0]
  BY <1>2, <1>5, <1>9
<1>15. \E q : Laid(q)'
  BY <1>1, <1>4, <1>10, <1>13, <1>14, Relaid DEF HandlersInv
<1>16. CodedReports'
  BY <1>1 DEF HandlersInv, CodedReports
<1> QED BY <1>4, <1>11, <1>12, <1>15, <1>16 DEF HandlersInv

\* What iretq returns with.
LEMMA Resumed ==
  ASSUME HandlersInv, Iretq
  PROVE  /\ HandlersInv'
         /\ SubSeq(stack, 1, 10) = [Frame("DB", Self.k) EXCEPT ![5].rf = TRUE]
         /\ L0' = FALSE
<1>1. /\ Running /\ UNCHANGED <<taken, cr2, L0, lines>>
  BY DEF Iretq
<1>2. /\ Self = active[1] /\ Self \in Handling /\ 1 \in 1 .. Len(active) /\ Len(stack) \in Nat
      /\ stack \in Seq(DWord) /\ Len(stack) >= Size(Self) /\ \A j \in 1 .. Size(Self) : stack[j] = Word(Self, j)
  BY <1>1, OnTop DEF HandlersInv, Typed
<1>3. Self.v = "DB" /\ Self.pc = 3 /\ Size(Self) = 10 /\ Typed' /\ (\E q : Laid(q)') /\ Nested'
  BY Popped
<1>4. L0' = FALSE
  BY <1>1, <1>2, <1>3 DEF HandlersInv, Nested
<1>5. HandlersInv'
  BY <1>1, <1>3 DEF HandlersInv, CodedReports
<1> DEFINE f == Frame("DB", Self.k)
<1>6. f \in Seq(DWord) /\ Len(f) = 10
  BY <1>2, FrameIs DEF Handling, WithErrorCode
<1>7. \A j \in 1 .. 10 : stack[j] = IF j = 5 THEN [f[5] EXCEPT !.rf = TRUE] ELSE f[j]
  <2> TAKE j \in 1 .. 10
  <2>1. Skip(Self) = 0 /\ j + 0 = j
    BY <1>3 DEF Skip
  <2> QED BY <1>2, <1>3, <2>1 DEF Word
<1> HIDE DEF f
<1>8. SubSeq(stack, 1, 10) = [j \in 1 .. 10 |-> stack[j]]
  BY <1>2, <1>3
<1> DEFINE g == [f[5] EXCEPT !.rf = TRUE]
<1>a. [f EXCEPT ![5].rf = TRUE] = [f EXCEPT ![5] = g]
  BY Zenon
<1>b. [f EXCEPT ![5] = g] = [j \in 1 .. 10 |-> IF j = 5 THEN g ELSE f[j]]
  <2>1. f = [j \in 1 .. 10 |-> f[j]]
    BY <1>6
  <2> HIDE DEF g
  <2> QED BY <2>1
<1>9. [f EXCEPT ![5].rf = TRUE] = [j \in 1 .. 10 |-> IF j = 5 THEN [f[5] EXCEPT !.rf = TRUE] ELSE f[j]]
  BY <1>a, <1>b, Zenon
<1>10. SubSeq(stack, 1, 10) = [f EXCEPT ![5].rf = TRUE]
  BY <1>7, <1>8, <1>9
<1> QED BY <1>4, <1>5, <1>10 DEF f

LEMMA InitHandlers == Init => HandlersInv
<1> SUFFICES ASSUME Init PROVE HandlersInv
  OBVIOUS
<1>1. Len(active) = 0 /\ Len(stack) = 0 /\ 0 + 1 = 1
  BY DEF Init
<1>2. LaidIn([i \in 1 .. 1 |-> 0], active, stack)
  BY <1>1 DEF LaidIn
<1>3. Typed /\ Nested /\ CodedReports
  BY <1>1 DEF Init, Typed, Nested, CodedReports
<1> QED BY <1>2, <1>3 DEF HandlersInv, Laid

LEMMA HandlersStep ==
  ASSUME HandlersInv, [Next]_vars
  PROVE  /\ HandlersInv'
         /\ Len(active') < Len(active) =>
              /\ SubSeq(stack, 1, 10) = [Frame("DB", Self.k) EXCEPT ![5].rf = TRUE]
              /\ L0' = FALSE
<1>0. Len(active) \in Nat
  BY DEF HandlersInv, Typed
<1>1. ASSUME NEW v \in Raised, Raise(v) PROVE HandlersInv' /\ ~ (Len(active') < Len(active))
  <2>1. Typed' /\ (\E q : Laid(q)') /\ Nested'
    BY <1>1, Pushed
  <2>2. CodedReports'
    BY <1>1 DEF Raise, HandlersInv, CodedReports
  <2>3. Len(active') = 1 + Len(active)
    BY <1>1 DEF Raise, HandlersInv, Typed
  <2> QED BY <1>0, <2>1, <2>2, <2>3 DEF HandlersInv
<1>2. CASE ShowWord \/ ShowCr2 \/ DropErrorCode \/ ClearL0 \/ SetRF
  BY <1>0, <1>2, ShownWord, ShownCr2, DroppedCode, ClearedL0, FlaggedRF
<1>3. CASE Iretq
  BY <1>3, Resumed
<1>4. CASE UNCHANGED vars
  <2>1. Len(active') = Len(active) /\ HandlersInv'
    BY <1>4 DEF vars, HandlersInv, Typed, Laid, Nested, CodedReports
  <2> QED BY <1>0, <2>1
<1> QED BY <1>1, <1>2, <1>3, <1>4 DEF Next

\* The handlers of #TS, #NP, #GP and #PF report the words of their own frame, and #PF its own
\* address, however deep exceptions nest and in whatever order.
THEOREM CodedHandlersTruthful == Spec => []CodedReports
<1>1. HandlersInv /\ [Next]_vars => HandlersInv'
  BY HandlersStep
<1>2. HandlersInv => CodedReports
  BY DEF HandlersInv
<1> QED BY <1>1, <1>2, InitHandlers, PTL DEF Spec

\* Whenever a handler returns it is #DB's, with the interrupted context's frame, RF set and
\* the breakpoint off.
THEOREM BreakpointReturns == Spec => BreakpointResumes
<1>1. HandlersInv /\ [Next]_vars =>
        /\ HandlersInv'
        /\ [Len(active') < Len(active) =>
              /\ SubSeq(stack, 1, 10) = [Frame("DB", Self.k) EXCEPT ![5].rf = TRUE]
              /\ ~L0']_vars
  BY HandlersStep
<1> QED BY <1>1, InitHandlers, PTL DEF Spec, BreakpointResumes
================================================================================
