---------------------------- MODULE GuestRun_proofs ----------------------------
(***************************************************************************)
(* Proofs about the launcher and its guest, for any options, texts and     *)
(* screen: that a memory size is read as it is meant, which failures a     *)
(* running guest can have behind it, that the gates are complete when an   *)
(* interrupt can come, that it comes once and in time, and that the        *)
(* terminal shows what the handler puts.                                   *)
(***************************************************************************)
EXTENDS GuestRun, WellFoundedInduction, SequenceTheorems, TLAPS

(* Recursive definitions over positions *)

\* Every set of numbers has a least one: induction, with a set in the place of a predicate.
LEMMA Least == ASSUME NEW S, S \subseteq Nat, S # {} PROVE \E m \in S : \A k \in S : m <= k
<1>1. PICK m \in S : \A k \in S : ~ (<<k, m>> \in OpToRel(<, Nat))
  BY WFMin, NatLessThanWellFounded, Zenon
<1>2. \A k \in S : ~ (<<k, m>> \in {ss \in Nat \X Nat : ss[1] < ss[2]})
  BY <1>1 DEF OpToRel
<1>3. \A k \in S : k \in Nat /\ m \in Nat /\ ~ (k < m)
  BY <1>2
<1>4. \A k \in S : m <= k
  BY <1>3
<1> QED BY <1>4

\* A set of positions that holds the first and with each one the next holds all.
LEMMA AllPositions ==
  ASSUME NEW N \in Nat, NEW S, 0 \in S, \A m \in 0 .. N - 1 : m \in S => m + 1 \in S
  PROVE  0 .. N \subseteq S
<1> DEFINE Bad == {m \in 0 .. N : m \notin S}
<1> SUFFICES ASSUME Bad # {} PROVE FALSE
  OBVIOUS
<1>1. Bad \subseteq Nat
  OBVIOUS
<1>2. PICK m \in Bad : \A k \in Bad : m <= k
  BY <1>1, Least
<1>3. m \in 1 .. N /\ m - 1 \in 0 .. N - 1
  BY <1>2
<1>4. m - 1 \in S
  BY <1>2, <1>3
<1>5. (m - 1) + 1 \in S /\ (m - 1) + 1 = m
  BY <1>3, <1>4
<1> QED BY <1>2, <1>5

\* A value at position 0 and a step from each position to the next define a function.
Iteration(f, N, V, b, next) ==
  f \in [0 .. N -> V] /\ f[0] = b /\ \A m \in 1 .. N : f[m] = next[m][f[m - 1]]
Steps(N, V) == [1 .. N -> [V -> V]]

LEMMA Iterates ==
  ASSUME NEW N \in Nat, NEW V, NEW b \in V, NEW next \in Steps(N, V)
  PROVE  \E f : Iteration(f, N, V, b, next)
<1>0. next \in [1 .. N -> [V -> V]]
  BY DEF Steps
<1> DEFINE Upto(m) == \E f \in [0 .. m -> V] : f[0] = b /\ \A k \in 1 .. m : f[k] = next[k][f[k - 1]]
           S == {m \in 0 .. N : Upto(m)}
<1>1. Upto(0)
  <2>1. [k \in 0 .. 0 |-> b] \in [0 .. 0 -> V]
    OBVIOUS
  <2>2. [k \in 0 .. 0 |-> b][0] = b /\ 1 .. 0 = {}
    OBVIOUS
  <2> QED BY <2>1, <2>2
<1>2. ASSUME NEW m \in 0 .. N - 1, Upto(m) PROVE Upto(m + 1)
  <2>1. PICK f \in [0 .. m -> V] : f[0] = b /\ \A k \in 1 .. m : f[k] = next[k][f[k - 1]]
    BY <1>2
  <2> DEFINE g == [k \in 0 .. m + 1 |-> IF k = m + 1 THEN next[m + 1][f[m]] ELSE f[k]]
  <2>2. g \in [0 .. m + 1 -> V]
    <3>1. m + 1 \in 1 .. N /\ f[m] \in V
      BY <1>0
    <3>2. next[m + 1][f[m]] \in V
      BY <1>0, <3>1
    <3>3. ASSUME NEW k \in 0 .. m + 1 PROVE (IF k = m + 1 THEN next[m + 1][f[m]] ELSE f[k]) \in V
      BY <3>2
    <3> QED BY <3>3
  <2>3. g[0] = b
    BY <2>1
  <2>4. ASSUME NEW k \in 1 .. m + 1 PROVE g[k] = next[k][g[k - 1]]
    <3>1. CASE k = m + 1
      <4>1. g[k] = next[m + 1][f[m]] /\ g[k - 1] = f[m]
        BY <3>1
      <4> QED BY <3>1, <4>1
    <3>2. CASE k # m + 1
      <4>1. k \in 1 .. m
        BY <3>2
      <4>2. g[k] = f[k] /\ g[k - 1] = f[k - 1]
        BY <4>1
      <4> QED BY <2>1, <4>1, <4>2
    <3> QED BY <3>1, <3>2
  <2> HIDE DEF g
  <2> QED BY <2>2, <2>3, <2>4
<1> HIDE DEF Upto
<1>3. 0 \in S /\ \A m \in 0 .. N - 1 : m \in S => m + 1 \in S
  BY <1>1, <1>2
<1>4. 0 .. N \subseteq S
  <2> HIDE DEF S
  <2> QED BY <1>3, AllPositions, Zenon
<1> QED BY <1>4 DEF Upto, Iteration

LEMMA ReadingIs ==
  ASSUME NEW ds \in Seq(Nat), NEW radix \in Nat, NEW high \in Nat
  PROVE  LET v == Reading(ds, radix, high)
         IN  /\ v \in [0 .. Len(ds) -> Nat] /\ v[0] = high
             /\ \A m \in 1 .. Len(ds) : v[m] = v[m - 1] * radix + ds[m]
<1> DEFINE N == Len(ds)
           next == [m \in 1 .. N |-> [x \in Nat |-> x * radix + ds[m]]]
           Body(f) == [m \in 0 .. N |-> IF m = 0 THEN high ELSE f[m - 1] * radix + ds[m]]
<1>1. N \in Nat /\ \A m \in 1 .. N : ds[m] \in Nat
  OBVIOUS
<1>2. next \in [1 .. N -> [Nat -> Nat]] /\ \A m \in 1 .. N : \A x \in Nat : next[m][x] = x * radix + ds[m]
  <2> HIDE DEF N
  <2>1. \A m \in 1 .. N : [x \in Nat |-> x * radix + ds[m]] \in [Nat -> Nat]
    BY <1>1
  <2> QED BY <2>1
<1>3. PICK f : Iteration(f, N, Nat, high, next)
  <2> HIDE DEF next, N
  <2>1. next \in Steps(N, Nat)
    BY <1>2 DEF Steps
  <2> QED BY <1>1, <2>1, Iterates, Zenon
<1> HIDE DEF next
<1>4. \A m \in 1 .. N : f[m] = f[m - 1] * radix + ds[m]
  <2> HIDE DEF N
  <2>1. \A m \in 1 .. N : f[m - 1] \in Nat
    BY <1>1, <1>3 DEF Iteration
  <2> QED BY <1>2, <1>3, <2>1 DEF Iteration
<1>5. f = Body(f)
  BY <1>1, <1>3, <1>4 DEF Iteration
<1>6. Reading(ds, radix, high) = CHOOSE g : g = Body(g)
  BY DEF Reading
<1>7. Reading(ds, radix, high) = Body(Reading(ds, radix, high))
  <2> HIDE DEF Body
  <2> QED BY <1>5, <1>6
<1> DEFINE v == Reading(ds, radix, high)
<1>8. v[0] = high /\ (\A m \in 1 .. N : v[m] = v[m - 1] * radix + ds[m]) /\ v = [m \in 0 .. N |-> v[m]]
  <2> SUFFICES ASSUME NEW g, g = Body(g)
               PROVE  g[0] = high /\ (\A m \in 1 .. N : g[m] = g[m - 1] * radix + ds[m]) /\ g = [m \in 0 .. N |-> g[m]]
    <3> HIDE DEF Body
    <3> QED BY <1>7
  <2> HIDE DEF N
  <2>1. g[0] = high
    BY <1>1
  <2>2. \A m \in 1 .. N : g[m] = g[m - 1] * radix + ds[m]
    BY <1>1
  <2>3. g = [m \in 0 .. N |-> g[m]]
    BY <1>1
  <2> QED BY <2>1, <2>2, <2>3
<1>9. v \in [0 .. N -> Nat]
  <2> DEFINE S == {m \in 0 .. N : v[m] \in Nat}
  <2> HIDE DEF N, v
  <2>1. 0 \in S /\ \A m \in 0 .. N - 1 : m \in S => m + 1 \in S
    <3>1. ASSUME NEW m \in 0 .. N - 1, v[m] \in Nat PROVE v[m + 1] \in Nat
      <4>1. m + 1 \in 1 .. N /\ (m + 1) - 1 = m
        BY <1>1
      <4>2. v[m + 1] = v[m] * radix + ds[m + 1] /\ ds[m + 1] \in Nat
        BY <1>1, <1>8, <4>1
      <4>3. \A x, y, z \in Nat : x * y + z \in Nat
        OBVIOUS
      <4> QED BY <3>1, <4>2, <4>3
    <3>2. v[0] \in Nat /\ 0 \in 0 .. N /\ \A m \in 0 .. N - 1 : m + 1 \in 0 .. N
      BY <1>1, <1>8
    <3> QED BY <3>1, <3>2
  <2>2. 0 .. N \subseteq S
    <3> HIDE DEF S
    <3> QED BY <1>1, <2>1, AllPositions, Zenon
  <2> QED BY <1>8, <2>2
<1> QED BY <1>8, <1>9

\* Quotient and remainder are the only ones.
LEMMA Division == ASSUME NEW W \in Nat \ {0}, NEW x \in Int
  PROVE  x % W \in 0 .. W - 1 /\ \E q \in Int : x = W * q + (x % W)
<1>1. x \div W \in Int /\ x % W = x - W * (x \div W) /\ x % W \in 0 .. W - 1
  OBVIOUS
<1> DEFINE d == x \div W
           m == x % W
<1>2. d \in Int /\ m = x - W * d /\ m \in 0 .. W - 1
  BY <1>1, Zenon
<1>3. x = W * d + m
  <2> HIDE DEF d, m
  <2> QED BY <1>2
<1> QED BY <1>2, <1>3, Zenon

LEMMA Remainder == ASSUME NEW W \in Nat \ {0}, NEW q \in Int, NEW r \in 0 .. W - 1
  PROVE  (W * q + r) % W = r
<1> DEFINE y == W * q + r
<1>1. y \in Int
  OBVIOUS
<1>2. PICK p \in Int : y = W * p + (y % W)
  <2> HIDE DEF y
  <2> QED BY <1>1, Division
<1>3. y % W \in 0 .. W - 1
  <2> HIDE DEF y
  <2> QED BY <1>1, Division
<1>4. \A c, d \in Int : c > d => W * c >= W * d + W
  OBVIOUS
<1> DEFINE t == y % W
<1>5. t \in 0 .. W - 1 /\ W * q + r = W * p + t
  BY <1>2, <1>3, Zenon
<1>6. p = q
  <2> HIDE DEF t, y
  <2>1. W * q \in Int /\ W * p \in Int
    OBVIOUS
  <2>2. ~ (p > q)
    BY <1>4, <1>5, <2>1
  <2>3. ~ (q > p)
    BY <1>4, <1>5, <2>1
  <2> QED BY <2>2, <2>3
<1>7. t = r
  <2> HIDE DEF t, y
  <2>1. W * q \in Int
    OBVIOUS
  <2> QED BY <1>5, <1>6, <2>1
<1> QED BY <1>7

LEMMA ModSame == ASSUME NEW W \in Nat \ {0}, NEW q \in Int, NEW r \in Int
  PROVE  (W * q + r) % W = r % W
<1>1. PICK p \in Int : r = W * p + (r % W)
  BY Division
<1> DEFINE t == r % W
<1>2. t \in 0 .. W - 1 /\ r = W * p + t
  BY Division, <1>1, Zenon
<1> HIDE DEF t
<1>3. W * q + r = W * (q + p) + t /\ q + p \in Int
  BY <1>2
<1>4. (W * (q + p) + t) % W = t
  BY <1>2, <1>3, Remainder
<1> QED BY <1>3, <1>4 DEF t
LEMMA ModStep ==
  ASSUME NEW W \in Nat \ {0}, NEW x \in Nat, NEW y \in Nat, NEW z \in Nat
  PROVE  ((x % W) * y + z) % W = (x * y + z) % W
<1>0. x \in Int
  OBVIOUS
<1>1. PICK a \in Int : x = W * a + (x % W)
  BY <1>0, Division, Zenon
<1> DEFINE b == x % W
<1>2. x = W * a + b /\ b \in Int
  BY <1>1, Division
<1> HIDE DEF b
<1>3. a * y \in Int /\ b * y + z \in Int
  BY <1>2
<1>4. (W * a + b) * y + z = W * (a * y) + (b * y + z)
  BY <1>2
<1>5. (W * (a * y) + (b * y + z)) % W = (b * y + z) % W
  BY <1>3, ModSame
<1> QED BY <1>2, <1>4, <1>5 DEF b

------------------------------------------------------------------------------
(* The memory size *)

LEMMA CharacterFacts ==
  /\ \A ch : isxdigit(ch) /\ ch \notin {"f", "F"} => DigitValue(ch) \in Nat
  /\ \A ch \in ToSet(Decimal) : isxdigit(ch) /\ ch \notin {"f", "F"}
  /\ \A ch : Unit(ch) # 0 => ~ isxdigit(ch) /\ ch \in Letters /\ Unit(ch) \in Nat
  /\ "nul" \notin Letters /\ ~ isxdigit("nul")
<1>1. /\ ToSet(Decimal) = {"0", "1", "2", "3", "4", "5", "6", "7", "8", "9"}
      /\ ToSet(Upper) = {"A", "B", "C", "D", "E"} /\ ToSet(Lower) = {"a", "b", "c", "d", "e"}
  BY DEF ToSet, Decimal, Upper, Lower
<1>2. ASSUME NEW range, NEW ch \in ToSet(range)
      PROVE  Place(range, ch) \in DOMAIN range
  BY <1>2 DEF Place, ToSet
<1>3. /\ \A ch \in ToSet(Decimal) : Place(Decimal, ch) \in 1 .. 10
      /\ \A ch \in ToSet(Upper) : Place(Upper, ch) \in 1 .. 5
      /\ \A ch \in ToSet(Lower) : Place(Lower, ch) \in 1 .. 5
  <2>1. DOMAIN Decimal = 1 .. 10
    BY DEF Decimal
  <2>2. DOMAIN Upper = 1 .. 5
    BY DEF Upper
  <2>3. DOMAIN Lower = 1 .. 5
    BY DEF Lower
  <2> QED BY <1>2, <2>1, <2>2, <2>3, Zenon
<1>4. ASSUME NEW ch, isxdigit(ch), ch \notin {"f", "F"} PROVE DigitValue(ch) \in Nat
  <2>1. ch \in ToSet(Decimal) \/ ch \in ToSet(Upper) \/ ch \in ToSet(Lower)
    BY <1>1, <1>4 DEF isxdigit
  <2> QED BY <1>3, <2>1 DEF DigitValue
<1>5. ASSUME NEW ch, Unit(ch) # 0 PROVE ~ isxdigit(ch) /\ ch \in Letters /\ Unit(ch) \in Nat
  <2>1. ch \in {"K", "k", "M", "m", "G", "g"}
    BY <1>5 DEF Unit
  <2>2. KILO * KILO \in Nat /\ KILO * KILO * KILO \in Nat /\ KILO \in Nat
    BY OptionsAssumption
  <2>3. Unit(ch) \in Nat
    BY <2>1, <2>2 DEF Unit
  <2> QED BY <1>1, <2>1, <2>3 DEF isxdigit, Letters
<1>6. "nul" \notin Letters /\ ~ isxdigit("nul") /\ \A ch \in ToSet(Decimal) : isxdigit(ch) /\ ch \notin {"f", "F"}
  BY <1>1 DEF Letters, isxdigit
<1> QED BY <1>4, <1>5, <1>6

Start(arg) == IF Hex(arg) THEN 2 ELSE 0
Radix(arg) == IF Hex(arg) THEN 16 ELSE 10
Size(arg) == Len(Number(arg))

\* The characters of an argument.
ArgChar == STRING \union {"e", "m", "p"}

\* What a well-formed argument looks like to the loop that reads it.
LEMMA WellFormedFacts ==
  ASSUME NEW arg \in Seq(ArgChar), WellFormed(arg)
  PROVE  /\ Size(arg) \in Nat \ {0} /\ Len(arg) = Start(arg) + Size(arg) + 1 /\ Start(arg) \in Nat
         /\ \A k \in 1 .. Size(arg) :
              LET ch == arg[Start(arg) + k]
              IN  isxdigit(ch) /\ ch \notin {"f", "F"} /\ Number(arg)[k] = ch
         /\ DOMAIN Number(arg) = 1 .. Size(arg)
         /\ Unit(arg[Len(arg)]) # 0 /\ Last(arg) = arg[Len(arg)]
<1> DEFINE m == IF Hex(arg) THEN 3 ELSE 1
           e == Len(arg) - 1
<1>1. Len(arg) \in Nat /\ Len(arg) > m /\ m = Start(arg) + 1 /\ Start(arg) \in Nat /\ m \in Int /\ e \in Int
  BY DEF WellFormed, Start
<1>2. Number(arg) = SubSeq(arg, m, e)
  BY DEF Number
<1>3. \A k \in m .. e : arg[k] \in ArgChar
  BY <1>1
<1>4. /\ Len(Number(arg)) = IF m <= e THEN e - m + 1 ELSE 0
      /\ \A k \in 1 .. e - m + 1 : Number(arg)[k] = arg[m + k - 1]
      /\ Number(arg) \in Seq(ArgChar)
  <2> HIDE DEF m, e
  <2>1. /\ SubSeq(arg, m, e) \in Seq(ArgChar)
        /\ Len(SubSeq(arg, m, e)) = IF m <= e THEN e - m + 1 ELSE 0
        /\ \A k \in 1 .. e - m + 1 : SubSeq(arg, m, e)[k] = arg[m + k - 1]
    BY <1>1, <1>3, SubSeqProperties
  <2> QED BY <1>2, <2>1
<1> HIDE DEF m
<1>5. Size(arg) = e - m + 1 /\ Size(arg) \in Nat \ {0} /\ Len(arg) = Start(arg) + Size(arg) + 1
  BY <1>1, <1>4 DEF Size
<1>6. ASSUME NEW k \in 1 .. Size(arg)
      PROVE  /\ isxdigit(Number(arg)[k]) /\ Number(arg)[k] \notin {"f", "F"}
             /\ Number(arg)[k] = arg[Start(arg) + k]
  <2>1. k \in DOMAIN Number(arg) /\ m + k - 1 = Start(arg) + k /\ k \in 1 .. e - m + 1
    BY <1>1, <1>4, <1>5 DEF Size
  <2>2. Number(arg)[k] = arg[Start(arg) + k]
    BY <1>4, <2>1
  <2>3. IF Hex(arg) THEN isxdigit(Number(arg)[k]) /\ Number(arg)[k] \notin {"f", "F"}
        ELSE Number(arg)[k] \in ToSet(Decimal)
    BY <2>1 DEF WellFormed
  <2> QED BY <2>2, <2>3, CharacterFacts
<1>8. DOMAIN Number(arg) = 1 .. Size(arg)
  BY <1>4 DEF Size
<1>7. Unit(arg[Len(arg)]) # 0 /\ Last(arg) = arg[Len(arg)]
  BY DEF WellFormed, Last
<1> QED BY <1>1, <1>5, <1>6, <1>7, <1>8

\* What its digits mean, digit by digit.
LEMMA MeantIs ==
  ASSUME NEW arg \in Seq(ArgChar), WellFormed(arg)
  PROVE  /\ Meant(arg) \in [0 .. Size(arg) -> Nat] /\ Meant(arg)[0] = 0
         /\ \A k \in 1 .. Size(arg) :
              Meant(arg)[k] = Meant(arg)[k - 1] * Radix(arg) + DigitValue(arg[Start(arg) + k])
<1> DEFINE ds == [k \in DOMAIN Number(arg) |-> DigitValue(Number(arg)[k])]
<1>1. DOMAIN Number(arg) = 1 .. Size(arg) /\ Size(arg) \in Nat
  BY WellFormedFacts DEF Size
<1>2. \A k \in 1 .. Size(arg) : ds[k] = DigitValue(arg[Start(arg) + k]) /\ ds[k] \in Nat
  BY <1>1, WellFormedFacts, CharacterFacts
<1>3. ds \in Seq(Nat) /\ Len(ds) = Size(arg)
  <2>1. ds = [k \in 1 .. Size(arg) |-> ds[k]]
    BY <1>1
  <2> HIDE DEF ds
  <2>2. ds \in [1 .. Size(arg) -> Nat]
    BY <1>2, <2>1
  <2> QED BY <1>1, <2>2
<1>4. Radix(arg) \in Nat /\ Meant(arg) = Reading(ds, Radix(arg), 0)
  BY DEF Radix, Meant
<1> HIDE DEF ds
<1>5. /\ Reading(ds, Radix(arg), 0) \in [0 .. Len(ds) -> Nat] /\ Reading(ds, Radix(arg), 0)[0] = 0
      /\ \A k \in 1 .. Len(ds) :
           Reading(ds, Radix(arg), 0)[k] = Reading(ds, Radix(arg), 0)[k - 1] * Radix(arg) + ds[k]
  <2>1. 0 \in Nat
    OBVIOUS
  <2> QED BY <1>3, <1>4, <2>1, ReadingIs, Zenon
<1> QED BY <1>2, <1>3, <1>4, <1>5

\* While a well-formed argument is read, vm_memory_size is what its digits so far mean,
\* reduced to the word; then it is scaled and stays until the next option.
OptionsInv ==
  /\ optarg \in Seq(ArgChar)
  /\ WellFormed(optarg) =>
       \/ /\ optpc = "digits" /\ base = Radix(optarg)
          /\ i \in Start(optarg) .. Start(optarg) + Size(optarg)
          /\ vm_memory_size = Meant(optarg)[i - Start(optarg)] % WORD
       \/ /\ optpc = "getopt"
          /\ vm_memory_size = (Meant(optarg)[Size(optarg)] * Unit(Last(optarg))) % WORD

\* The arguments that -mem and -smp come to.
FormInv ==
  /\ form = "-mem" =>
       /\ optarg = <<"e", "m">>
       /\ \/ optpc = "digits" /\ base = 10 /\ i = 0 /\ vm_memory_size = 0
          \/ optpc = "digits" /\ base = 10 /\ i = 1 /\ vm_memory_size = 14 % WORD
          \/ optpc = "getopt" /\ vm_memory_size = (14 * Unit("m")) % WORD
  /\ form = "-smp" =>
       /\ optarg = <<"p">>
       /\ \/ optpc = "digits" /\ i = 0
          \/ optpc = "invalid"

LEMMA FormDigits ==
  /\ isxdigit("e") /\ ~ isxdigit("m") /\ ~ isxdigit("p") /\ DigitValue("e") = 14
  /\ Unit("m") = KILO * KILO /\ Unit("p") = 0 /\ {"e", "m"} \subseteq Letters
<1>1. ToSet(Decimal) = {"0", "1", "2", "3", "4", "5", "6", "7", "8", "9"} /\ ToSet(Upper) = {"A", "B", "C", "D", "E"}
  BY DEF ToSet, Decimal, Upper
<1>2. Place(Lower, "e") = 5
  <2>1. DOMAIN Lower = 1 .. 5 /\ Lower[5] = "e"
    BY DEF Lower
  <2>2. \A k \in 1 .. 5 : Lower[k] = "e" => k = 5
    BY DEF Lower
  <2>3. \E k \in DOMAIN Lower : Lower[k] = "e"
    BY <2>1
  <2> QED BY <2>1, <2>2, <2>3 DEF Place
<1>3. DigitValue("e") = 14
  BY <1>1, <1>2 DEF DigitValue
<1>4. isxdigit("e") /\ ~ isxdigit("m") /\ ~ isxdigit("p")
  BY <1>1 DEF isxdigit
<1>5. Unit("m") = KILO * KILO /\ Unit("p") = 0 /\ {"e", "m"} \subseteq Letters
  BY DEF Unit, Letters
<1> QED BY <1>3, <1>4, <1>5

LEMMA MemOptionForm == MemOption => FormInv'
<1> SUFFICES ASSUME MemOption PROVE FormInv'
  OBVIOUS
<1>1. CASE form' = "-mem"
  <2>1. optarg' = <<"e", "m">>
    BY <1>1 DEF MemOption, getopt_long
  <2>2. ~ Hex(optarg')
    BY <2>1 DEF Hex
  <2> QED BY <1>1, <2>1, <2>2 DEF MemOption, FormInv
<1>2. CASE form' = "-smp"
  <2>1. optarg' = <<"p">>
    BY <1>2 DEF MemOption, getopt_long
  <2>2. ~ Hex(optarg')
    BY <2>1 DEF Hex
  <2> QED BY <1>2, <2>1, <2>2 DEF MemOption, FormInv
<1> QED BY <1>1, <1>2 DEF FormInv

LEMMA TakeDigitForm == FormInv /\ TakeDigit => FormInv'
<1> SUFFICES ASSUME FormInv, TakeDigit PROVE FormInv'
  OBVIOUS
<1>1. UNCHANGED <<form, optpc, optarg, base>> /\ optpc = "digits" /\ isxdigit(At(i)) /\ i' = i + 1
  BY DEF TakeDigit
<1>2. CASE form = "-mem"
  <2>1. optarg = <<"e", "m">> /\ base = 10 /\ ((i = 0 /\ vm_memory_size = 0) \/ i = 1)
    BY <1>1, <1>2 DEF FormInv
  <2>2. i # 1
    BY <1>1, <2>1, FormDigits DEF At
  <2>3. At(i) = "e" /\ i = 0 /\ vm_memory_size = 0
    BY <2>1, <2>2 DEF At
  <2>4. val' = 14
    BY <2>3, FormDigits DEF TakeDigit, Digit
  <2>5. vm_memory_size' = (0 * 10 + 14) % WORD
    BY <2>1, <2>3, <2>4 DEF TakeDigit
  <2>6. vm_memory_size' = 14 % WORD
    BY <2>5
  <2> QED BY <1>1, <1>2, <2>1, <2>3, <2>6 DEF FormInv
<1>3. CASE form = "-smp"
  <2>1. At(i) = "p"
    BY <1>1, <1>3 DEF FormInv, At
  <2> QED BY <1>1, <2>1, FormDigits
<1> QED BY <1>1, <1>2, <1>3 DEF FormInv

LEMMA CheckUnitForm == FormInv /\ CheckUnit => FormInv'
<1> SUFFICES ASSUME FormInv, CheckUnit PROVE FormInv'
  OBVIOUS
<1>1. UNCHANGED <<form, optarg, i>> /\ optpc = "digits" /\ ~ isxdigit(At(i))
  BY DEF CheckUnit
<1>2. CASE form = "-mem"
  <2>0. optarg = <<"e", "m">>
    BY <1>2, Zenon DEF FormInv
  <2>1. i = 0 \/ (i = 1 /\ vm_memory_size = 14 % WORD)
    BY <1>1, <1>2, Zenon DEF FormInv
  <2>2. i # 0
    BY <1>1, <2>0, FormDigits DEF At
  <2>3. i = 1 /\ At(i) = "m" /\ At(i + 1) = "nul" /\ vm_memory_size = 14 % WORD
    BY <2>0, <2>1, <2>2 DEF At
  <2> DEFINE u == Unit("m")
  <2>4. u \in Nat /\ WORD \in Nat \ {0} /\ u # 0
    <3>1. \A k \in Nat \ {0} : k * k \in Nat /\ k * k # 0
      OBVIOUS
    <3> QED BY <3>1, FormDigits, OptionsAssumption
  <2>5. optpc' = "getopt" /\ vm_memory_size' = (vm_memory_size * u) % WORD
    BY <2>3, <2>4, FormDigits, CharacterFacts DEF CheckUnit
  <2>6. vm_memory_size' = (14 * u) % WORD
    <3> HIDE DEF u
    <3>1. ((14 % WORD) * u + 0) % WORD = (14 * u + 0) % WORD
      <4>1. 0 \in Nat /\ 14 \in Nat
        OBVIOUS
      <4> QED BY <2>4, <4>1, ModStep, Zenon
    <3>2. (14 % WORD) * u + 0 = (14 % WORD) * u /\ 14 * u + 0 = 14 * u
      BY <2>4
    <3> QED BY <2>3, <2>5, <3>1, <3>2
  <2> QED BY <1>1, <1>2, <2>0, <2>5, <2>6 DEF FormInv
<1>3. CASE form = "-smp"
  <2>1. At(i) = "p" /\ optarg = <<"p">>
    BY <1>1, <1>3 DEF FormInv, At
  <2>2. optpc' = "invalid"
    BY <2>1, FormDigits DEF CheckUnit
  <2> QED BY <1>1, <1>3, <2>1, <2>2 DEF FormInv
<1> QED BY <1>1, <1>2, <1>3 DEF FormInv

LEMMA EmptyNotWellFormed == << >> \in Seq(ArgChar) /\ ~ WellFormed(<< >>)
BY DEF WellFormed

LEMMA OptionsInitInv == OptionsInit => OptionsInv /\ FormInv
BY EmptyNotWellFormed DEF OptionsInit, OptionsInv, FormInv

LEMMA MemOptionInv == OptionsInv /\ MemOption => OptionsInv'
<1> SUFFICES ASSUME OptionsInv, MemOption PROVE OptionsInv'
  OBVIOUS
<1>1. optarg' \in Seq(ArgChar)
  <2>1. <<"e", "m">> \in Seq(ArgChar) /\ <<"p">> \in Seq(ArgChar)
    BY DEF ArgChar
  <2>2. ASSUME NEW arg \in MemArgs PROVE arg \in Seq(ArgChar)
    <3>1. arg \in Seq(STRING)
      BY OptionsAssumption
    <3>2. \A k \in 1 .. Len(arg) : arg[k] \in ArgChar
      BY <3>1 DEF ArgChar
    <3> QED BY <3>1, <3>2
  <2> QED BY <2>1, <2>2 DEF MemOption, getopt_long
<1>2. ASSUME WellFormed(optarg')
      PROVE  /\ optpc' = "digits" /\ base' = Radix(optarg')
             /\ i' \in Start(optarg') .. Start(optarg') + Size(optarg')
             /\ vm_memory_size' = Meant(optarg')[i' - Start(optarg')] % WORD
  <2>1. optpc' = "digits" /\ base' = Radix(optarg') /\ i' = Start(optarg') /\ vm_memory_size' = 0
    BY DEF MemOption, Radix, Start
  <2>2. Size(optarg') \in Nat /\ Start(optarg') \in Nat /\ Meant(optarg')[0] = 0
    BY <1>1, <1>2, WellFormedFacts, MeantIs
  <2>3. 0 % WORD = 0
    BY OptionsAssumption
  <2>4. i' - Start(optarg') = 0 /\ i' \in Start(optarg') .. Start(optarg') + Size(optarg')
    BY <2>1, <2>2
  <2> QED BY <2>1, <2>2, <2>3, <2>4
<1> QED BY <1>1, <1>2 DEF OptionsInv

LEMMA TakeDigitInv == OptionsInv /\ TakeDigit => OptionsInv'
<1> SUFFICES ASSUME OptionsInv, TakeDigit, WellFormed(optarg) PROVE OptionsInv'
  BY DEF TakeDigit, OptionsInv
<1>1. optarg \in Seq(ArgChar) /\ optpc = "digits" /\ base = Radix(optarg)
  BY DEF TakeDigit, OptionsInv
<1> DEFINE m == i - Start(optarg)
           x == Meant(optarg)[m]
<1>2. i \in Start(optarg) .. Start(optarg) + Size(optarg) /\ vm_memory_size = x % WORD
  BY <1>1 DEF OptionsInv
<1>3. /\ Size(optarg) \in Nat /\ Start(optarg) \in Nat /\ Len(optarg) = Start(optarg) + Size(optarg) + 1
      /\ Unit(optarg[Len(optarg)]) # 0
      /\ \A k \in 1 .. Size(optarg) : optarg[Start(optarg) + k] \notin {"f", "F"}
      /\ \A k \in 1 .. Size(optarg) : isxdigit(optarg[Start(optarg) + k])
  BY <1>1, WellFormedFacts
<1>4. At(i) = optarg[i + 1] /\ i + 1 \in 1 .. Len(optarg)
  BY <1>2, <1>3 DEF At
<1>5. i # Start(optarg) + Size(optarg)
  BY <1>3, <1>4, CharacterFacts DEF TakeDigit
<1>6. m \in Nat /\ m + 1 \in 1 .. Size(optarg) /\ i + 1 = Start(optarg) + (m + 1)
  BY <1>2, <1>3, <1>5
<1> DEFINE dv == DigitValue(optarg[Start(optarg) + (m + 1)])
<1>7. val' = dv /\ dv \in Nat
  <2>1. optarg[Start(optarg) + (m + 1)] \notin {"f", "F"} /\ isxdigit(optarg[Start(optarg) + (m + 1)])
    BY <1>3, <1>6
  <2>2. dv \in Nat
    BY <2>1, CharacterFacts
  <2> QED BY <1>4, <1>6, <2>1, <2>2 DEF TakeDigit, Digit
<1>8. x \in Nat /\ Meant(optarg)[m + 1] = x * Radix(optarg) + dv
  <2> HIDE DEF m
  <2>1. m \in 0 .. Size(optarg) /\ (m + 1) - 1 = m
    BY <1>3, <1>6
  <2> QED BY <1>1, <1>6, <2>1, MeantIs
<1>9. vm_memory_size' = (x * Radix(optarg) + dv) % WORD
  <2>1. vm_memory_size' = ((x % WORD) * Radix(optarg) + dv) % WORD
    BY <1>1, <1>2, <1>7 DEF TakeDigit
  <2>2. Radix(optarg) \in Nat /\ WORD \in Nat \ {0}
    BY OptionsAssumption DEF Radix
  <2> HIDE DEF x, dv
  <2> QED BY <1>7, <1>8, <2>1, <2>2, ModStep
<1>10. /\ optpc' = "digits" /\ base' = base /\ optarg' = optarg /\ i' = i + 1
  BY <1>1 DEF TakeDigit
<1>11. i' \in Start(optarg) .. Start(optarg) + Size(optarg) /\ i' - Start(optarg) = m + 1
  BY <1>2, <1>3, <1>5, <1>10
<1> HIDE DEF m, x, dv
<1>12. vm_memory_size' = Meant(optarg)[i' - Start(optarg)] % WORD
  BY <1>8, <1>9, <1>11
<1> QED BY <1>1, <1>10, <1>11, <1>12 DEF OptionsInv

LEMMA CheckUnitInv == OptionsInv /\ CheckUnit => OptionsInv'
<1> SUFFICES ASSUME OptionsInv, CheckUnit, WellFormed(optarg) PROVE OptionsInv'
  BY DEF CheckUnit, OptionsInv
<1>1. optarg \in Seq(ArgChar) /\ optpc = "digits" /\ base = Radix(optarg)
  BY DEF CheckUnit, OptionsInv
<1> DEFINE x == Meant(optarg)[Size(optarg)]
<1>2. /\ i \in Start(optarg) .. Start(optarg) + Size(optarg)
      /\ vm_memory_size = Meant(optarg)[i - Start(optarg)] % WORD
  BY <1>1 DEF OptionsInv
<1>3. /\ Size(optarg) \in Nat /\ Start(optarg) \in Nat /\ Len(optarg) = Start(optarg) + Size(optarg) + 1
      /\ Unit(optarg[Len(optarg)]) # 0 /\ Last(optarg) = optarg[Len(optarg)]
      /\ \A k \in 1 .. Size(optarg) : isxdigit(optarg[Start(optarg) + k])
  BY <1>1, WellFormedFacts
<1>4. At(i) = optarg[i + 1]
  BY <1>2, <1>3 DEF At
<1>5. i = Start(optarg) + Size(optarg)
  <2> SUFFICES ASSUME i # Start(optarg) + Size(optarg) PROVE FALSE
    OBVIOUS
  <2> DEFINE k == i - Start(optarg) + 1
  <2>1. k \in 1 .. Size(optarg) /\ Start(optarg) + k = i + 1
    BY <1>2, <1>3
  <2> QED BY <1>3, <1>4, <2>1 DEF CheckUnit
<1>6. At(i) = Last(optarg) /\ At(i + 1) = "nul" /\ i - Start(optarg) = Size(optarg)
  BY <1>3, <1>4, <1>5 DEF At
<1>7. At(i) \in Letters /\ At(i + 1) \notin Letters /\ Unit(At(i)) # 0 /\ Unit(At(i)) \in Nat
  BY <1>3, <1>6, CharacterFacts
<1>8. optpc' = "getopt" /\ vm_memory_size' = (vm_memory_size * Unit(Last(optarg))) % WORD
  BY <1>6, <1>7 DEF CheckUnit
<1>9. vm_memory_size' = (x * Unit(Last(optarg))) % WORD
  <2> DEFINE u == Unit(Last(optarg))
  <2>1. vm_memory_size' = ((x % WORD) * u) % WORD
    BY <1>2, <1>6, <1>8
  <2>2. u \in Nat /\ WORD \in Nat \ {0}
    BY <1>6, <1>7, OptionsAssumption
  <2>3. x \in Nat
    BY <1>1, <1>3, MeantIs
  <2> HIDE DEF x, u
  <2>4. ((x % WORD) * u + 0) % WORD = (x * u + 0) % WORD
    <3>1. 0 \in Nat
      OBVIOUS
    <3> QED BY <2>2, <2>3, <3>1, ModStep, Zenon
  <2>5. x % WORD \in Nat
    BY <2>2, <2>3
  <2>6. (x % WORD) * u + 0 = (x % WORD) * u /\ x * u + 0 = x * u
    BY <2>2, <2>3, <2>5
  <2> QED BY <2>1, <2>4, <2>6 DEF u
<1>10. optarg' = optarg
  BY DEF CheckUnit
<1> QED BY <1>1, <1>8, <1>9, <1>10 DEF OptionsInv

LEMMA OptionsNextInv == OptionsInv /\ FormInv /\ [Next]_vars => OptionsInv' /\ FormInv'
<1> SUFFICES ASSUME OptionsInv, FormInv, [Next]_vars PROVE OptionsInv' /\ FormInv'
  OBVIOUS
<1>1. CASE UNCHANGED optionVars
  BY <1>1 DEF optionVars, OptionsInv, FormInv
<1>2. CASE Setup
  <2>1. CASE Parse
    <3>1. CASE EndOptions
      BY <3>1, EmptyNotWellFormed DEF EndOptions, OptionsInv, FormInv
    <3> QED BY <2>1, <3>1, MemOptionInv, TakeDigitInv, CheckUnitInv, MemOptionForm, TakeDigitForm,
            CheckUnitForm DEF Parse, parse_argv
  <2>2. CASE ParseFailed \/ Succeeds \/ Fails \/ EnterLoop
    BY <1>1, <2>2 DEF ParseFailed, Succeeds, Fails, EnterLoop
  <2> QED BY <1>2, <2>1, <2>2 DEF Setup, Launch
<1>3. CASE Guest
  BY <1>1, <1>3 DEF Guest, Boot, BootFaults, Shutdown, Astray, Tables, SetGate, enable_apic, UserStore,
     Deliver, HandlerPut, HandlerEnd, launchVars
<1>4. CASE HostExit \/ Inject \/ Loop \/ UNCHANGED vars
  BY <1>1, <1>4 DEF HostExit, Inject, Loop, Show, Resume, HandleDevice, Stop, vars, launchVars
<1> QED BY <1>2, <1>3, <1>4 DEF Next

------------------------------------------------------------------------------
(* Setup *)

\* How far the launcher gets with a failure it has passed over: to the call that needs
\* what is missing.
CaughtInTime ==
  /\ step \in 1 .. 23
  /\ failed \subseteq Untested \union {"rest_of_image", "write"}
  /\ "mmap1" \in failed => step <= 9
  /\ "mmap2" \in failed => step <= 12
  /\ "split_irqchip" \in failed => step <= 18
  /\ "mmap_size" \in failed => step <= 19 \/ "map_run" \in failed

LaunchInv == CaughtInTime /\ (out = "run" => step = 23 /\ "map_run" \notin failed)

LEMMA LaunchInitInv == LaunchInit => LaunchInv
BY DEF LaunchInit, LaunchInv, CaughtInTime

LEMMA LaunchStepInv == LaunchInv /\ Launch => LaunchInv'
<1> SUFFICES ASSUME LaunchInv, Launch PROVE LaunchInv'
  OBVIOUS
<1>1. CASE Parse \/ ParseFailed
  BY <1>1 DEF Parse, ParseFailed, LaunchInv, CaughtInTime
<1>2. CASE Succeeds
  <2>1. PICK c \in ToSet(Calls) :
          /\ Due(c) /\ Needs(c) \intersect failed = {} /\ step' = step + 1
          /\ failed' = failed \/ (c = "read_image" /\ failed' = failed \union {"rest_of_image"})
          /\ out' = out
    BY <1>2 DEF Succeeds
  <2>2. step \in 1 .. 22 /\ out = "setup" /\ c = Calls[step]
    BY <2>1 DEF Due, Calls, LaunchInv, CaughtInTime
  <2>3. step = 9 => "mmap1" \notin failed
    BY <2>1, <2>2 DEF Needs, Calls
  <2>4. step = 12 => "mmap2" \notin failed
    BY <2>1, <2>2 DEF Needs, Calls
  <2>5. step = 18 => "split_irqchip" \notin failed
    BY <2>1, <2>2 DEF Needs, Calls
  <2>6. step = 19 => "mmap_size" \notin failed
    BY <2>1, <2>2 DEF Needs, Calls
  <2>7. failed' \subseteq failed \union {"rest_of_image"} /\ failed \subseteq failed'
    BY <2>1
  <2> QED BY <2>1, <2>2, <2>3, <2>4, <2>5, <2>6, <2>7 DEF LaunchInv, CaughtInTime
<1>3. CASE Fails
  <2>1. PICK c \in ToSet(Calls) :
          /\ Due(c)
          /\ IF c \in Untested
             THEN step' = step + 1 /\ failed' = failed \union {c} /\ UNCHANGED out
             ELSE out' = "exit" /\ UNCHANGED <<step, failed>>
    BY <1>3 DEF Fails
  <2>2. step \in 1 .. 22 /\ out = "setup" /\ c = Calls[step]
    BY <2>1 DEF Due, Calls, LaunchInv, CaughtInTime
  <2>3. CASE c \notin Untested
    BY <2>1, <2>3 DEF LaunchInv, CaughtInTime
  <2>4. CASE c \in Untested
    <3>1. step \notin {9, 12, 18}
      BY <2>2, <2>4 DEF Calls, Untested
    <3>2. /\ c = "mmap1" => step = 8
          /\ c = "mmap2" => step = 11
          /\ c = "split_irqchip" => step = 13
          /\ c = "mmap_size" => step = 17
          /\ step = 19 => c = "map_run"
      BY <2>2 DEF Calls
    <3> QED BY <2>1, <2>2, <2>4, <3>1, <3>2 DEF LaunchInv, CaughtInTime
  <2> QED BY <2>3, <2>4
<1>4. CASE EnterLoop
  BY <1>4 DEF EnterLoop, LaunchInv, CaughtInTime, Calls
<1> QED BY <1>1, <1>2, <1>3, <1>4 DEF Launch

LEMMA LaunchInvSafe == LaunchInv => SurvivingFailures
BY DEF LaunchInv, CaughtInTime, Untested, SurvivingFailures

------------------------------------------------------------------------------
(* The interrupt *)

\* The guest stores to the device once, when everything it needs is ready; from then on
\* there is one signal, which is at irqefd, pending or in service, or has been lost or
\* served.
InterruptInv ==
  /\ guest \in {"boot", "fault", "tables", "gates", "apic", "user", "spin", "handler"}
  /\ iflag \in BOOLEAN /\ isr \in BOOLEAN
  /\ iflag <=> guest \in {"tables", "apic", "user", "spin"}
  /\ guest \in {"user", "spin", "handler"} => apic
  /\ guest \notin {"spin", "handler"} => ~sig /\ ~irr
  /\ exit = "device" => guest = "spin" /\ ~sig /\ ~irr
  /\ ~(sig /\ irr)
  /\ isr <=> guest = "handler"
  /\ guest = "handler" => ~sig /\ ~irr

LEMMA InterruptInitInv == Init => InterruptInv
BY DEF Init, InterruptInv

LEMMA InterruptStepInv == InterruptInv /\ [Next]_vars => InterruptInv'
<1> SUFFICES ASSUME InterruptInv, [Next]_vars PROVE InterruptInv'
  OBVIOUS
<1> USE DEF InterruptInv, Running, guestVars
<1>1. CASE Setup \/ UNCHANGED vars
  BY <1>1 DEF Setup, vars
<1>2. CASE Guest
  <2>1. CASE Boot
    BY <2>1 DEF Boot
  <2>10. CASE BootFaults
    BY <2>10 DEF BootFaults
  <2>6. CASE Shutdown
    BY <2>6 DEF Shutdown
  <2>7. CASE Astray
    BY <2>7 DEF Astray
  <2>8. CASE Tables
    BY <2>8 DEF Tables
  <2>2. CASE SetGate
    BY <2>2 DEF SetGate
  <2>3. CASE enable_apic \/ UserStore
    BY <2>3 DEF enable_apic, UserStore
  <2>4. CASE Deliver
    BY <2>4 DEF Deliver
  <2>5. CASE HandlerEnd
    BY <2>5 DEF HandlerEnd
  <2>9. CASE HandlerPut
    <3>1. exit' = exit \/ exit' = "video"
      BY <2>9 DEF HandlerPut
    <3>2. UNCHANGED <<guest, iflag, apic, sig, irr, isr>>
      BY <2>9 DEF HandlerPut
    <3> QED BY <3>1, <3>2
  <2> QED BY <1>2, <2>1, <2>2, <2>3, <2>4, <2>5, <2>6, <2>7, <2>8, <2>9, <2>10 DEF Guest
<1>3. CASE HostExit \/ Inject
  BY <1>3 DEF HostExit, Inject
<1>4. CASE Loop
  BY <1>4 DEF Loop, Show, Resume, HandleDevice, Stop
<1> QED BY <1>1, <1>2, <1>3, <1>4 DEF Next

------------------------------------------------------------------------------
(* The gates *)

\* Byte b of the gate for v after k stores of set_interrupt_handler.
Built(v, k, b) ==
  CASE k = 0 -> Byte(0)
    [] k = 1 -> IF b < 8 THEN Off(v, b) ELSE Byte(0)
    [] k > 1 /\ b \in {2, 3} -> IF k = 2 THEN Off(v, b) ELSE SelByte(b - 2)
    [] k > 1 /\ b \in {0, 1} -> Off(v, b)
    [] k > 1 /\ b \in {4, 5} -> IF k < 4 THEN Off(v, b - 4)
                             ELSE IF k = 5 /\ b = 5 THEN INTERRUPT_GATE ELSE Byte(0)
    [] k > 1 /\ b \in 6 .. 11 -> Off(v, b - 4)
    [] k > 1 /\ b > 11 -> Byte(0)

IsBuilt(g, v, k) == \A b \in 0 .. 15 : g[b] = Built(v, k, b)

VectorSet == {Vectors[m] : m \in DOMAIN Vectors}

\* Gates below n are complete, the n-th has s - 1 stores, the others none.
GatesInv ==
  /\ n \in 1 .. 13 /\ s \in 1 .. 5
  /\ idt = [v \in VectorSet |-> idt[v]]
  /\ guest \in {"boot", "fault", "tables", "gates"} =>
       \A m \in 1 .. 13 : IsBuilt(idt[Vectors[m]], Vectors[m],
                                 IF m < n THEN 5 ELSE IF m = n THEN s - 1 ELSE 0)
  /\ guest \in {"apic", "user", "spin", "handler"} =>
       \A m \in 1 .. 13 : IsBuilt(idt[Vectors[m]], Vectors[m], 5)

LEMMA VectorsDiffer ==
  /\ DOMAIN Vectors = 1 .. 13 /\ Len(Vectors) = 13
  /\ \A l, m \in 1 .. 13 : Vectors[l] = Vectors[m] => l = m
BY DEF Vectors, TIMER

\* Each of the five stores takes the gate one stage further.
LEMMA OneStore ==
  ASSUME NEW v, NEW k \in 1 .. 5, NEW g, IsBuilt(g, v, k - 1), NEW h,
         \A b \in 0 .. 15 : h[b] = IF b \in DOMAIN GateStores(v)[k] THEN GateStores(v)[k][b] ELSE g[b]
  PROVE  IsBuilt(h, v, k)
<1>1. CASE k = 1
  BY <1>1 DEF IsBuilt, Built, GateStores
<1>2. CASE k = 2
  BY <1>2 DEF IsBuilt, Built, GateStores
<1>3. CASE k = 3
  BY <1>3 DEF IsBuilt, Built, GateStores
<1>4. CASE k = 4
  BY <1>4 DEF IsBuilt, Built, GateStores
<1>5. CASE k = 5
  BY <1>5 DEF IsBuilt, Built, GateStores
<1> QED BY <1>1, <1>2, <1>3, <1>4, <1>5

LEMMA BuiltLeads == ASSUME NEW v, NEW g, IsBuilt(g, v, 5) PROVE LeadsTo(g, v)
BY DEF IsBuilt, Built, LeadsTo, Offset, SelByte, Off

LEMMA GatesInitInv == Init => GatesInv
<1> SUFFICES ASSUME Init PROVE GatesInv
  OBVIOUS
<1>1. n = 1 /\ s = 1 /\ guest = "boot" /\ idt = [v \in VectorSet |-> EmptyGate]
  BY DEF Init, VectorSet
<1>2. \A m \in 1 .. 13 : idt[Vectors[m]] = EmptyGate
  BY <1>1, VectorsDiffer DEF VectorSet
<1>3. \A v : IsBuilt(EmptyGate, v, 0)
  BY DEF IsBuilt, Built, EmptyGate
<1> QED BY <1>1, <1>2, <1>3 DEF GatesInv

LEMMA SetGateInv == GatesInv /\ SetGate => GatesInv'
<1> SUFFICES ASSUME GatesInv, SetGate PROVE GatesInv'
  OBVIOUS
<1> DEFINE v == Vectors[n]
           w == GateStores(v)[s]
<1>1. Len(GateStores(v)) = 5
  BY DEF GateStores
<1>2. /\ guest = "gates"
      /\ idt' = [idt EXCEPT ![v] = [b \in 0 .. 15 |-> IF b \in DOMAIN w THEN w[b] ELSE @[b]]]
      /\ s' = (IF s = 5 THEN 1 ELSE s + 1)
      /\ n' = (IF s = 5 /\ n # 13 THEN n + 1 ELSE n)
      /\ guest' = (IF s = 5 /\ n = 13 THEN "apic" ELSE "gates")
  BY <1>1, VectorsDiffer DEF SetGate
<1>3. n \in 1 .. 13 /\ s \in 1 .. 5 /\ v \in VectorSet /\ idt = [u \in VectorSet |-> idt[u]]
  BY VectorsDiffer DEF GatesInv, VectorSet
<1>4. \A b \in 0 .. 15 : idt'[v][b] = IF b \in DOMAIN w THEN w[b] ELSE idt[v][b]
  BY <1>2, <1>3
<1>5. \A m \in 1 .. 13 : m # n => idt'[Vectors[m]] = idt[Vectors[m]]
  BY <1>2, <1>3, VectorsDiffer DEF VectorSet
<1>6. idt' = [u \in VectorSet |-> idt'[u]]
  BY <1>2, <1>3
<1>7. IsBuilt(idt[v], v, s - 1)
  BY <1>2, <1>3 DEF GatesInv
<1>8. IsBuilt(idt'[v], v, s)
  BY <1>3, <1>4, <1>7, OneStore
<1>9. \A m \in 1 .. 13 : /\ m < n => IsBuilt(idt'[Vectors[m]], Vectors[m], 5)
                         /\ m > n => IsBuilt(idt'[Vectors[m]], Vectors[m], 0)
  <2> TAKE m \in 1 .. 13
  <2>1. IsBuilt(idt[Vectors[m]], Vectors[m], IF m < n THEN 5 ELSE IF m = n THEN s - 1 ELSE 0)
    BY <1>2 DEF GatesInv
  <2>2. CASE m = n
    BY <1>3, <2>2
  <2>3. CASE m # n
    <3>1. idt'[Vectors[m]] = idt[Vectors[m]]
      BY <1>5, <2>3
    <3>2. m \in Int /\ n \in Int
      BY <1>3
    <3> HIDE DEF v, w
    <3> QED BY <2>1, <2>3, <3>1, <3>2
  <2> QED BY <2>2, <2>3
<1>10. n' \in 1 .. 13 /\ s' \in 1 .. 5
  BY <1>2, <1>3
<1> HIDE DEF w
<1>11. CASE s # 5
  <2>1. n' = n /\ s' - 1 = s /\ guest' = "gates"
    BY <1>2, <1>3, <1>11
  <2>2. ASSUME NEW m \in 1 .. 13
        PROVE  IsBuilt(idt'[Vectors[m]], Vectors[m],
                       IF m < n' THEN 5 ELSE IF m = n' THEN s' - 1 ELSE 0)
    <3>1. CASE m = n
      BY <1>3, <1>8, <2>1, <3>1
    <3>2. CASE m < n
      <4>1. m < n'
        BY <1>3, <2>1, <3>2
      <4>2. IsBuilt(idt'[Vectors[m]], Vectors[m], 5)
        BY <1>9, <3>2
      <4> QED BY <4>1, <4>2
    <3>3. CASE m > n
      BY <1>3, <1>9, <2>1, <3>3
    <3> QED BY <1>3, <3>1, <3>2, <3>3
  <2> QED BY <1>6, <1>10, <2>1, <2>2 DEF GatesInv
<1>12. CASE s = 5 /\ n # 13
  <2>1. n' = n + 1 /\ s' - 1 = 0 /\ guest' = "gates"
    BY <1>2, <1>3, <1>12
  <2>2. ASSUME NEW m \in 1 .. 13
        PROVE  IsBuilt(idt'[Vectors[m]], Vectors[m],
                       IF m < n' THEN 5 ELSE IF m = n' THEN s' - 1 ELSE 0)
    <3>1. CASE m = n
      BY <1>3, <1>8, <1>12, <2>1, <3>1
    <3>2. CASE m < n
      <4>1. m < n'
        BY <1>3, <2>1, <3>2
      <4>2. IsBuilt(idt'[Vectors[m]], Vectors[m], 5)
        BY <1>9, <3>2
      <4> QED BY <4>1, <4>2
    <3>3. CASE m > n
      BY <1>3, <1>9, <2>1, <3>3
    <3> QED BY <1>3, <3>1, <3>2, <3>3
  <2> QED BY <1>6, <1>10, <2>1, <2>2 DEF GatesInv
<1>13. CASE s = 5 /\ n = 13
  <2>1. guest' = "apic"
    BY <1>2, <1>13
  <2>2. ASSUME NEW m \in 1 .. 13 PROVE IsBuilt(idt'[Vectors[m]], Vectors[m], 5)
    <3>1. CASE m = 13
      BY <1>8, <1>13, <3>1
    <3>2. CASE m < 13
      BY <1>9, <1>13, <3>2
    <3> QED BY <3>1, <3>2
  <2> QED BY <1>6, <1>10, <2>1, <2>2 DEF GatesInv
<1> QED BY <1>11, <1>12, <1>13

LEMMA GatesStepInv == InterruptInv /\ GatesInv /\ [Next]_vars => GatesInv'
<1> SUFFICES ASSUME InterruptInv, GatesInv, [Next]_vars PROVE GatesInv'
  OBVIOUS
<1>1. CASE UNCHANGED <<guest, n, s, idt>>
  BY <1>1 DEF GatesInv
<1>2. CASE Setup \/ UNCHANGED vars \/ HostExit \/ Inject \/ Loop
  BY <1>1, <1>2 DEF Setup, vars, HostExit, Inject, Loop, Show, Resume, HandleDevice, Stop, guestVars
<1>3. CASE SetGate
  BY <1>3, SetGateInv
<1>4. CASE Guest /\ ~SetGate
  <2>1. CASE Boot \/ BootFaults \/ Tables
    BY <2>1 DEF Boot, BootFaults, Tables, GatesInv
  <2>2. CASE Shutdown \/ Astray \/ HandlerPut
    BY <1>1, <2>2 DEF Shutdown, Astray, HandlerPut, guestVars
  <2>3. CASE enable_apic \/ UserStore
    BY <2>3 DEF enable_apic, UserStore, GatesInv
  <2>4. CASE Deliver
    BY <2>4 DEF Deliver, GatesInv, InterruptInv
  <2>5. CASE HandlerEnd
    BY <2>5 DEF HandlerEnd, GatesInv
  <2> QED BY <1>4, <2>1, <2>2, <2>3, <2>4, <2>5 DEF Guest
<1> QED BY <1>2, <1>3, <1>4 DEF Next

------------------------------------------------------------------------------
(* The number that is printed *)

\* The number shifted right by each count of digits, as print_hex_by_byte has it.
Shr(x, count) ==
  LET shr[rdx \in 0 .. count] == IF rdx = 0 THEN x ELSE shr[rdx - 1] \div 16 IN shr

LEMMA ShrIs ==
  ASSUME NEW x \in Nat, NEW count \in Nat
  PROVE  /\ Shr(x, count) \in [0 .. count -> 0 .. x] /\ Shr(x, count)[0] = x
         /\ \A m \in 1 .. count : Shr(x, count)[m] = Shr(x, count)[m - 1] \div 16
<1> DEFINE next == [m \in 1 .. count |-> [y \in 0 .. x |-> y \div 16]]
           Body(f) == [m \in 0 .. count |-> IF m = 0 THEN x ELSE f[m - 1] \div 16]
<1>1. next \in Steps(count, 0 .. x) /\ \A m \in 1 .. count : \A y \in 0 .. x : next[m][y] = y \div 16
  <2>1. \A y \in 0 .. x : y \div 16 \in 0 .. x
    OBVIOUS
  <2>2. [y \in 0 .. x |-> y \div 16] \in [0 .. x -> 0 .. x]
    BY <2>1
  <2> QED BY <2>2 DEF Steps
<1>2. PICK f : Iteration(f, count, 0 .. x, x, next)
  <2>1. x \in 0 .. x
    OBVIOUS
  <2> HIDE DEF next
  <2> QED BY <1>1, <2>1, Iterates, Zenon
<1> HIDE DEF next
<1>3. \A m \in 1 .. count : f[m] = f[m - 1] \div 16
  <2>1. \A m \in 1 .. count : f[m - 1] \in 0 .. x
    BY <1>2 DEF Iteration
  <2> QED BY <1>1, <1>2, <2>1 DEF Iteration
<1>4. f = Body(f)
  BY <1>2, <1>3 DEF Iteration
<1>5. Shr(x, count) = CHOOSE g : g = Body(g)
  BY DEF Shr
<1>6. Shr(x, count) = Body(Shr(x, count))
  <2> HIDE DEF Body
  <2> QED BY <1>4, <1>5
<1> DEFINE v == Shr(x, count)
<1>7. v[0] = x /\ (\A m \in 1 .. count : v[m] = v[m - 1] \div 16) /\ v = [m \in 0 .. count |-> v[m]]
  <2> SUFFICES ASSUME NEW g, g = Body(g)
               PROVE  g[0] = x /\ (\A m \in 1 .. count : g[m] = g[m - 1] \div 16) /\ g = [m \in 0 .. count |-> g[m]]
    <3> HIDE DEF Body
    <3> QED BY <1>6
  <2>1. g[0] = x
    OBVIOUS
  <2>2. \A m \in 1 .. count : g[m] = g[m - 1] \div 16
    OBVIOUS
  <2>3. g = [m \in 0 .. count |-> g[m]]
    OBVIOUS
  <2> QED BY <2>1, <2>2, <2>3
<1>8. v \in [0 .. count -> 0 .. x]
  <2> DEFINE S == {m \in 0 .. count : v[m] \in 0 .. x}
  <2> HIDE DEF v
  <2>1. 0 \in S /\ \A m \in 0 .. count - 1 : m \in S => m + 1 \in S
    <3>1. ASSUME NEW m \in 0 .. count - 1, v[m] \in 0 .. x PROVE v[m + 1] \in 0 .. x
      <4>1. m + 1 \in 1 .. count /\ (m + 1) - 1 = m
        OBVIOUS
      <4>2. v[m + 1] = v[m] \div 16
        BY <1>7, <4>1
      <4> QED BY <3>1, <4>2
    <3>2. v[0] \in 0 .. x /\ 0 \in 0 .. count /\ \A m \in 0 .. count - 1 : m + 1 \in 0 .. count
      BY <1>7
    <3> QED BY <3>1, <3>2
  <2>2. 0 .. count \subseteq S
    <3> HIDE DEF S
    <3> QED BY <2>1, AllPositions, Zenon
  <2> QED BY <1>7, <2>2
<1> QED BY <1>7, <1>8

\* The characters there are.
\* What is put out, by a guest gone astray and by one that is not.
Output == {"serial", "io", "mmio", "hlt", NL}
Char == STRING \union {NL, "page_fault"} \union ToSet(number_character)

LEMMA HexToChar == \A x \in 0 .. 15 : number_character[x + 1] \in Char
<1> SUFFICES ASSUME NEW x \in 0 .. 15 PROVE number_character[x + 1] \in Char
  OBVIOUS
<1>1. x + 1 \in DOMAIN number_character
  BY DEF number_character
<1>2. number_character[x + 1] \in ToSet(number_character)
  BY <1>1 DEF ToSet
<1> QED BY <1>2 DEF Char

\* The digits that are printed, and the part of the number that is not.
Nibbles(x) == [d \in 1 .. Digits |-> Shr(x, Digits)[Digits - d] % 16]

LEMMA NibblesRead ==
  ASSUME NEW x \in Nat
  PROVE  /\ Nibbles(x) \in [1 .. Digits -> 0 .. 15]
         /\ print_hex_by_byte(x, Digits) = [d \in 1 .. Digits |-> number_character[Nibbles(x)[d] + 1]]
         /\ Reading(Nibbles(x), 16, Shr(x, Digits)[Digits])[Digits] = x
<1>0. Digits \in Nat
  BY ConsoleAssumption
<1> DEFINE f == Shr(x, Digits)
           high == f[Digits]
           v == Reading(Nibbles(x), 16, high)
<1>1. /\ f \in [0 .. Digits -> 0 .. x] /\ f[0] = x
      /\ \A m \in 1 .. Digits : f[m] = f[m - 1] \div 16
  BY <1>0, ShrIs
<1>2. \A d \in 1 .. Digits : f[Digits - d] \in Nat /\ Nibbles(x)[d] = f[Digits - d] % 16
  BY <1>0, <1>1 DEF Nibbles
<1>3. Nibbles(x) \in [1 .. Digits -> 0 .. 15]
  <2> HIDE DEF f
  <2>1. \A d \in 1 .. Digits : f[Digits - d] % 16 \in 0 .. 15
    BY <1>2
  <2> QED BY <2>1 DEF Nibbles, f
<1>4. print_hex_by_byte(x, Digits) = [d \in 1 .. Digits |-> number_character[Nibbles(x)[d] + 1]]
  <2>1. print_hex_by_byte(x, Digits) = [d \in 1 .. Digits |-> number_character[(f[Digits - d] % 16) + 1]]
    BY DEF print_hex_by_byte, Shr, hex_to_char
  <2> HIDE DEF f
  <2> QED BY <1>2, <2>1
<1>5. Nibbles(x) \in Seq(Nat) /\ Len(Nibbles(x)) = Digits /\ high \in Nat /\ 16 \in Nat
  <2>1. Nibbles(x) \in [1 .. Digits -> Nat]
    BY <1>3
  <2> QED BY <1>0, <1>1, <2>1
<1>6. /\ v \in [0 .. Digits -> Nat] /\ v[0] = high
      /\ \A m \in 1 .. Digits : v[m] = v[m - 1] * 16 + Nibbles(x)[m]
  <2> HIDE DEF high
  <2>1. LET w == Reading(Nibbles(x), 16, high)
        IN  /\ w \in [0 .. Len(Nibbles(x)) -> Nat] /\ w[0] = high
            /\ \A m \in 1 .. Len(Nibbles(x)) : w[m] = w[m - 1] * 16 + Nibbles(x)[m]
    BY <1>5, ReadingIs, Zenon
  <2> QED BY <1>5, <2>1
<1> DEFINE S == {m \in 0 .. Digits : v[m] = f[Digits - m]}
<1>7. 0 \in S /\ \A m \in 0 .. Digits - 1 : m \in S => m + 1 \in S
  <2> HIDE DEF f, v
  <2>1. 0 \in S
    BY <1>0, <1>6
  <2>2. ASSUME NEW m \in 0 .. Digits - 1, v[m] = f[Digits - m] PROVE v[m + 1] = f[Digits - (m + 1)]
    <3> DEFINE y == f[Digits - (m + 1)]
    <3>1. m + 1 \in 1 .. Digits /\ (m + 1) - 1 = m /\ Digits - m \in 1 .. Digits
          /\ (Digits - m) - 1 = Digits - (m + 1)
      BY <1>0
    <3>2. f[Digits - m] = y \div 16 /\ Nibbles(x)[m + 1] = y % 16 /\ y \in Nat
      BY <1>1, <1>2, <3>1
    <3>3. v[m + 1] = v[m] * 16 + Nibbles(x)[m + 1]
      BY <1>6, <3>1
    <3> HIDE DEF y
    <3>4. v[m + 1] = (y \div 16) * 16 + (y % 16)
      BY <2>2, <3>2, <3>3
    <3>5. v[m + 1] = y
      BY <3>2, <3>4
    <3> QED BY <3>5 DEF y
  <2> QED BY <1>0, <2>1, <2>2
<1>8. 0 .. Digits \subseteq S
  <2> HIDE DEF S
  <2> QED BY <1>0, <1>7, AllPositions, Zenon
<1>9. v[Digits] = x
  <2> HIDE DEF f, v
  <2> QED BY <1>0, <1>1, <1>8
<1> QED BY <1>3, <1>4, <1>9

Jobs == [before : Texts, number : Numbers, after : Texts]

LEMMA SaysIt ==
  ASSUME NEW j \in Jobs
  PROVE  Says(Characters(j), j) /\ Characters(j) \in Seq(Char)
<1>1. /\ j.before \in Seq(Char) /\ j.after \in Seq(Char) /\ j.number \in Nat
  <2>1. Texts \subseteq Seq(STRING) /\ j.before \in Texts /\ j.after \in Texts /\ j.number \in Nat
    BY ConsoleAssumption DEF Jobs
  <2>2. STRING \subseteq Char
    BY DEF Char
  <2>3. ASSUME NEW a \in Seq(STRING) PROVE a \in Seq(Char)
    <3>1. Len(a) \in Nat /\ a \in [1 .. Len(a) -> STRING]
      OBVIOUS
    <3>2. a \in [1 .. Len(a) -> Char]
      BY <2>2, <3>1
    <3> QED BY <3>1, <3>2
  <2> QED BY <2>1, <2>3
<1> DEFINE x == j.number
           ds == Nibbles(x)
           hex == print_hex_by_byte(x, Digits)
<1>2. /\ ds \in [1 .. Digits -> 0 .. 15]
      /\ hex = [d \in 1 .. Digits |-> number_character[ds[d] + 1]]
      /\ Reading(ds, 16, Shr(x, Digits)[Digits])[Digits] = x
  BY <1>1, NibblesRead
<1>3. Shr(x, Digits)[Digits] \in 0 .. x
  <2>1. x \in Nat /\ Digits \in Nat
    BY <1>1, ConsoleAssumption
  <2> HIDE DEF x
  <2>2. Shr(x, Digits) \in [0 .. Digits -> 0 .. x] /\ Digits \in 0 .. Digits
    BY <2>1, ShrIs
  <2> QED BY <2>2
<1>4. Characters(j) = j.before \o <<NL>> \o hex \o <<NL>> \o j.after \o <<NL>>
  BY DEF Characters
<1> HIDE DEF ds, hex, x
<1>5. Says(Characters(j), j)
  BY <1>2, <1>3, <1>4 DEF Says, x
<1>6. hex \in Seq(Char)
  <2>1. \A d \in 1 .. Digits : number_character[ds[d] + 1] \in Char
    BY <1>2, HexToChar
  <2>2. hex \in [1 .. Digits -> Char] /\ Digits \in Nat
    BY <1>2, <2>1, ConsoleAssumption
  <2> QED BY <2>2
<1>7. Characters(j) \in Seq(Char)
  <2>1. <<NL>> \in Seq(Char)
    <3>1. NL \in Char
      BY DEF Char
    <3> QED BY <3>1
  <2>2. \A a, b \in Seq(Char) : a \o b \in Seq(Char)
    OBVIOUS
  <2>3. j.before \o <<NL>> \in Seq(Char)
    BY <1>1, <2>1, <2>2, Zenon
  <2>4. j.before \o <<NL>> \o hex \in Seq(Char)
    BY <1>6, <2>2, <2>3, Zenon
  <2>5. j.before \o <<NL>> \o hex \o <<NL>> \in Seq(Char)
    BY <2>1, <2>2, <2>4, Zenon
  <2>6. j.before \o <<NL>> \o hex \o <<NL>> \o j.after \in Seq(Char)
    BY <1>1, <2>2, <2>5, Zenon
  <2>7. j.before \o <<NL>> \o hex \o <<NL>> \o j.after \o <<NL>> \in Seq(Char)
    BY <2>1, <2>2, <2>6, Zenon
  <2> QED BY <1>4, <2>7
<1> QED BY <1>5, <1>7

------------------------------------------------------------------------------
(* The terminal as it should look *)

LEMMA MaxIs ==
  ASSUME NEW S, S \subseteq Int, NEW e \in S, \A y \in S : e >= y
  PROVE  Max(S) = e
<1>1. \E x \in S : \A y \in S : x >= y
  OBVIOUS
<1>2. Max(S) \in S /\ \A y \in S : Max(S) >= y
  BY <1>1 DEF Max
<1>3. Max(S) \in Int /\ e \in Int /\ Max(S) >= e /\ e >= Max(S)
  BY <1>2
<1> QED BY <1>3

Breaks(text, p) == {0} \union {q \in 1 .. p - 1 : text[q] = NL}

LEMMA InLineIs ==
  ASSUME NEW text, Len(text) \in Nat
  PROVE  /\ InLine(text, 1) = 0
         /\ \A p \in 1 .. Len(text) :
              /\ InLine(text, p) \in Nat
              /\ InLine(text, p + 1) = IF text[p] = NL THEN 0 ELSE InLine(text, p) + 1
<1> DEFINE N == Len(text)
           M(p) == Max(Breaks(text, p))
<1>1. M(1) = 0
  <2>1. Breaks(text, 1) = {0}
    BY DEF Breaks
  <2> QED BY <2>1, MaxIs
<1>2. ASSUME NEW p \in 1 .. N, text[p] = NL PROVE M(p + 1) = p
  <2>1. p \in Breaks(text, p + 1) /\ Breaks(text, p + 1) \subseteq 0 .. p
    BY <1>2 DEF Breaks
  <2>2. Breaks(text, p + 1) \subseteq Int /\ \A y \in Breaks(text, p + 1) : p >= y
    BY <2>1
  <2> QED BY <2>1, <2>2, MaxIs
<1>3. ASSUME NEW p \in 1 .. N, text[p] # NL PROVE M(p + 1) = M(p)
  <2>1. Breaks(text, p + 1) = Breaks(text, p)
    BY <1>3 DEF Breaks
  <2> QED BY <2>1
<1> HIDE DEF M
<1>4. \A p \in 0 .. N : M(p + 1) \in 0 .. p
  <2> DEFINE S == {p \in 0 .. N : M(p + 1) \in 0 .. p}
  <2>1. 0 \in S
    BY <1>1
  <2>2. ASSUME NEW p \in 0 .. N - 1, M(p + 1) \in 0 .. p PROVE M((p + 1) + 1) \in 0 .. p + 1
    <3>1. p + 1 \in 1 .. N
      OBVIOUS
    <3>2. M((p + 1) + 1) = p + 1 \/ M((p + 1) + 1) = M(p + 1)
      BY <1>2, <1>3, <3>1
    <3> QED BY <2>2, <3>2
  <2>3. \A p \in 0 .. N - 1 : p \in S => p + 1 \in S
    BY <2>2
  <2>4. 0 .. N \subseteq S
    <3> HIDE DEF S
    <3> QED BY <2>1, <2>3, AllPositions
  <2> QED BY <2>4
<1>5. \A p : InLine(text, p) = p - 1 - M(p)
  BY DEF InLine, M, Breaks
<1>6. ASSUME NEW p \in 1 .. N PROVE M(p) \in 0 .. p - 1
  <2>1. p - 1 \in 0 .. N /\ (p - 1) + 1 = p
    OBVIOUS
  <2> QED BY <1>4, <2>1
<1>7. ASSUME NEW p \in 1 .. N
      PROVE  InLine(text, p) \in Nat /\ InLine(text, p + 1) = IF text[p] = NL THEN 0 ELSE InLine(text, p) + 1
  <2>1. InLine(text, p) = p - 1 - M(p) /\ InLine(text, p + 1) = (p + 1) - 1 - M(p + 1) /\ M(p) \in 0 .. p - 1
    BY <1>5, <1>6, Zenon
  <2>2. InLine(text, p) \in Nat
    BY <2>1
  <2>3. CASE text[p] = NL
    BY <1>2, <2>1, <2>2, <2>3
  <2>4. CASE text[p] # NL
    BY <1>3, <2>1, <2>2, <2>4
  <2> QED BY <2>2, <2>3, <2>4
<1>8. InLine(text, 1) = 0
  BY <1>1, <1>5
<1> QED BY <1>7, <1>8

LEMMA TerminalIs ==
  ASSUME NEW text \in Seq(Char)
  PROVE  /\ Terminal(text) \in [0 .. Len(text) -> Seq(Char)] /\ Terminal(text)[0] = << >>
         /\ \A p \in 1 .. Len(text) : Terminal(text)[p] = Terminal(text)[p - 1] \o Cell(text, p)
         /\ \A p \in 1 .. Len(text) : Cell(text, p) \in Seq(Char)
<1> DEFINE N == Len(text)
           next == [m \in 1 .. N |-> [y \in Seq(Char) |-> y \o Cell(text, m)]]
           More(y, m) == y \o Cell(text, m)
           Body(f) == [m \in 0 .. N |-> IF m = 0 THEN << >> ELSE More(f[m - 1], m)]
<1>0. N \in Nat
  OBVIOUS
<1>1. \A m \in 1 .. N : Cell(text, m) \in Seq(Char)
  <2> SUFFICES ASSUME NEW m \in 1 .. N PROVE Cell(text, m) \in Seq(Char)
    OBVIOUS
  <2>1. text[m] \in Char /\ NL \in Char
    BY DEF Char
  <2>2. << >> \in Seq(Char) /\ <<NL, text[m]>> \in Seq(Char) /\ <<text[m]>> \in Seq(Char)
    BY <2>1
  <2> QED BY <2>2 DEF Cell
<1>2. next \in Steps(N, Seq(Char)) /\ \A m \in 1 .. N : \A y \in Seq(Char) : next[m][y] = y \o Cell(text, m)
  <2> HIDE DEF N
  <2>1. \A m \in 1 .. N : \A y \in Seq(Char) : y \o Cell(text, m) \in Seq(Char)
    BY <1>1
  <2>2. \A m \in 1 .. N : [y \in Seq(Char) |-> y \o Cell(text, m)] \in [Seq(Char) -> Seq(Char)]
    BY <2>1
  <2> QED BY <2>2 DEF Steps
<1>3. PICK f : Iteration(f, N, Seq(Char), << >>, next)
  <2>1. << >> \in Seq(Char)
    OBVIOUS
  <2> HIDE DEF next, N
  <2> QED BY <1>0, <1>2, <2>1, Iterates, Zenon
<1> HIDE DEF next, N
<1>4. \A m \in 1 .. N : f[m] = f[m - 1] \o Cell(text, m)
  <2>1. \A m \in 1 .. N : f[m - 1] \in Seq(Char)
    BY <1>0, <1>3 DEF Iteration
  <2> QED BY <1>2, <1>3, <2>1 DEF Iteration
<1>5. f = Body(f)
  <2> HIDE DEF More
  <2>1. f[0] = << >> /\ f = [m \in 0 .. N |-> f[m]]
    BY <1>3 DEF Iteration
  <2>2. \A m \in 1 .. N : f[m] = More(f[m - 1], m)
    BY <1>4, Zenon DEF More
  <2>3. \A m \in 0 .. N : m # 0 => m \in 1 .. N
    BY <1>0
  <2>4. \A m \in 0 .. N : f[m] = IF m = 0 THEN << >> ELSE More(f[m - 1], m)
    BY <2>1, <2>2, <2>3
  <2> QED BY <2>1, <2>4, Zenon
<1>6. Terminal(text) = CHOOSE g : g = Body(g)
  BY DEF Terminal, N
<1>7. Terminal(text) = Body(Terminal(text))
  <2> HIDE DEF Body
  <2> QED BY <1>5, <1>6
<1> DEFINE v == Terminal(text)
<1>8. v[0] = << >> /\ (\A m \in 1 .. N : v[m] = v[m - 1] \o Cell(text, m)) /\ v = [m \in 0 .. N |-> v[m]]
  <2> SUFFICES ASSUME NEW g, g = Body(g)
               PROVE  g[0] = << >> /\ (\A m \in 1 .. N : g[m] = g[m - 1] \o Cell(text, m)) /\ g = [m \in 0 .. N |-> g[m]]
    <3> HIDE DEF Body
    <3> QED BY <1>7
  <2> HIDE DEF More
  <2>1. g[0] = << >>
    BY <1>0
  <2>2. \A m \in 1 .. N : g[m] = g[m - 1] \o Cell(text, m)
    <3>1. \A m \in 1 .. N : g[m] = More(g[m - 1], m)
      BY <1>0
    <3> QED BY <3>1, Zenon DEF More
  <2>3. g = [m \in 0 .. N |-> g[m]]
    BY <1>0
  <2> QED BY <2>1, <2>2, <2>3
<1>9. v \in [0 .. N -> Seq(Char)]
  <2> DEFINE S == {m \in 0 .. N : v[m] \in Seq(Char)}
  <2> HIDE DEF v
  <2>1. 0 \in S /\ \A m \in 0 .. N - 1 : m \in S => m + 1 \in S
    <3>1. ASSUME NEW m \in 0 .. N - 1, v[m] \in Seq(Char) PROVE v[m + 1] \in Seq(Char)
      <4>1. m + 1 \in 1 .. N /\ (m + 1) - 1 = m
        BY <1>0
      <4>2. v[m + 1] = v[m] \o Cell(text, m + 1) /\ Cell(text, m + 1) \in Seq(Char)
        BY <1>1, <1>8, <4>1
      <4> QED BY <3>1, <4>2
    <3>2. v[0] \in Seq(Char) /\ 0 \in 0 .. N /\ \A m \in 0 .. N - 1 : m + 1 \in 0 .. N
      BY <1>0, <1>8
    <3> QED BY <3>1, <3>2
  <2>2. 0 .. N \subseteq S
    <3> HIDE DEF S
    <3> QED BY <1>0, <2>1, AllPositions, Zenon
  <2> QED BY <1>8, <2>2
<1> QED BY <1>1, <1>8, <1>9 DEF N

\* What is on the terminal stays there.
LEMMA PrefixOfMore ==
  ASSUME NEW a \in Seq(Char), NEW b \in Seq(Char), NEW c \in Seq(Char), IsPrefix(a, b)
  PROVE  IsPrefix(a, b \o c)
<1>1. Len(a) \in Nat /\ Len(b) \in Nat /\ Len(c) \in Nat /\ Len(a) <= Len(b) /\ Len(b \o c) = Len(b) + Len(c)
  BY DEF IsPrefix
<1>2. \A k \in 1 .. Len(a) : SubSeq(a, 1, Len(a))[k] = a[k] /\ SubSeq(b, 1, Len(a))[k] = b[k]
  BY <1>1
<1>3. \A k \in 1 .. Len(a) : (b \o c)[k] = b[k]
  BY <1>1
<1>4. b \o c \in Seq(Char)
  OBVIOUS
<1> DEFINE d == b \o c
<1>5. SubSeq(d, 1, Len(a)) = SubSeq(b, 1, Len(a))
  <2> HIDE DEF d
  <2>1. SubSeq(d, 1, Len(a)) = [k \in 1 .. Len(a) |-> d[k]] /\ SubSeq(b, 1, Len(a)) = [k \in 1 .. Len(a) |-> b[k]]
    BY <1>1, <1>4 DEF d
  <2>2. \A k \in 1 .. Len(a) : d[k] = b[k]
    BY <1>3 DEF d
  <2> QED BY <2>1, <2>2
<1> QED BY <1>1, <1>5 DEF IsPrefix

LEMMA TerminalGrows ==
  ASSUME NEW text \in Seq(Char), NEW p \in 0 .. Len(text), NEW m \in 0 .. p
  PROVE  IsPrefix(Terminal(text)[m], Terminal(text)[p])
<1> DEFINE v == Terminal(text)
           S == {k \in 0 .. p - m : IsPrefix(v[m], v[m + k])}
<1>0. p - m \in Nat /\ Len(text) \in Nat
  OBVIOUS
<1>1. /\ v \in [0 .. Len(text) -> Seq(Char)]
      /\ \A k \in 1 .. Len(text) : v[k] = v[k - 1] \o Cell(text, k) /\ Cell(text, k) \in Seq(Char)
  BY TerminalIs
<1> HIDE DEF v
<1>2. 0 \in S
  <2>1. v[m] \in Seq(Char) /\ m + 0 = m
    BY <1>0, <1>1
  <2>2. \A a \in Seq(Char) : IsPrefix(a, a)
    BY DEF IsPrefix
  <2> QED BY <1>0, <2>1, <2>2
<1>3. ASSUME NEW k \in 0 .. (p - m) - 1, IsPrefix(v[m], v[m + k]) PROVE IsPrefix(v[m], v[m + (k + 1)])
  <2>1. /\ m + (k + 1) \in 1 .. Len(text) /\ (m + (k + 1)) - 1 = m + k
        /\ m \in 0 .. Len(text) /\ m + k \in 0 .. Len(text)
    BY <1>0
  <2>2. v[m + (k + 1)] = v[m + k] \o Cell(text, m + (k + 1)) /\ Cell(text, m + (k + 1)) \in Seq(Char)
    BY <1>1, <2>1
  <2>3. v[m] \in Seq(Char) /\ v[m + k] \in Seq(Char)
    BY <1>1, <2>1
  <2> QED BY <1>3, <2>2, <2>3, PrefixOfMore
<1>4. \A k \in 0 .. (p - m) - 1 : k \in S => k + 1 \in S
  BY <1>0, <1>3
<1>5. 0 .. (p - m) \subseteq S
  <2> HIDE DEF S
  <2> QED BY <1>0, <1>2, <1>4, AllPositions
<1>6. p - m \in S /\ m + (p - m) = p
  BY <1>0, <1>5
<1> QED BY <1>6 DEF v

------------------------------------------------------------------------------
(* The console *)

LEMMA NextColumn ==
  ASSUME NEW C \in Nat \ {0}, NEW a \in Nat, NEW b \in Nat, a % C = b % C
  PROVE  (a + 1) % C = (b + 1) % C
<1>1. \A x \in Nat : ((x % C) * 1 + 1) % C = (x * 1 + 1) % C
  <2>1. 1 \in Nat
    OBVIOUS
  <2> QED BY <2>1, ModStep, Zenon
<1>2. ((a % C) * 1 + 1) % C = (a * 1 + 1) % C /\ ((a % C) * 1 + 1) % C = (b * 1 + 1) % C
  BY <1>1, Zenon
<1>3. a * 1 + 1 = a + 1 /\ b * 1 + 1 = b + 1
  OBVIOUS
<1> QED BY <1>2, <1>3, Zenon

LEMMA NextRow ==
  ASSUME NEW C \in Nat \ {0}, NEW a \in Nat
  PROVE  LET b == a + C - (a % C) IN b \in Nat /\ b > a /\ b % C = 0
<1>0. a \in Int
  OBVIOUS
<1> DEFINE r == a % C
           b == a + C - r
<1>1. PICK q \in Int : a = C * q + (a % C)
  BY <1>0, Division, Zenon
<1>2. r \in 0 .. C - 1 /\ a = C * q + r
  BY <1>0, <1>1, Division, Zenon
<1> HIDE DEF r
<1>3. b \in Nat /\ b > a
  BY <1>2
<1>4. b = C * (q + 1) + 0 /\ q + 1 \in Int /\ 0 \in 0 .. C - 1
  BY <1>2
<1>5. (C * (q + 1) + 0) % C = 0
  BY <1>4, Remainder, Zenon
<1> HIDE DEF b
<1>6. b \in Nat /\ b > a /\ b % C = 0
  BY <1>3, <1>4, <1>5
<1> QED BY <1>6 DEF b, r

\* r is what is left of a text after p characters.
Left(text, r, p) ==
  /\ p \in 0 .. Len(text) /\ r \in Seq(Char) /\ Len(r) = Len(text) - p
  /\ \A k \in 1 .. Len(r) : r[k] = text[p + k]

\* The terminal shows what it should after p characters, or as much as fitted the screen.
Shows(text, p) ==
  \E m \in 0 .. p :
    /\ shown = PageFault \o Terminal(text)[m]
    /\ video_current <= LAST => m = p /\ video_current % COLS = InLine(text, p + 1) % COLS

\* The p-th character is stored and not yet shown.
Pending(text, p) ==
  /\ p \in 1 .. Len(text) /\ text[p] # NL
  /\ video_current # 0 /\ store = <<video_current - 1, text[p]>>
  /\ shown = PageFault \o Terminal(text)[p - 1] /\ (video_current - 1) % COLS = InLine(text, p) % COLS

Putting ==
  /\ job \in Jobs /\ video_current \in Nat
  /\ \E p : /\ Left(Characters(job), rest, p)
            /\ IF exit = "video" THEN Pending(Characters(job), p) ELSE Shows(Characters(job), p)

\* Nothing is put yet: the launcher's report of the device store is all there is to see, and
\* before that what a guest gone astray has caused.
Untouched ==
  /\ exit # "video" /\ job.before = << >> /\ rest = << >> /\ video_current = 0
  /\ IF guest \in {"boot", "fault"}
     THEN shown \in Seq(Output) /\ (shown # << >> => "rest_of_image" \in failed)
     ELSE shown = Opening

\* The handler runs once, and not if the signal was not written: until then nothing is put.
ConsoleInv ==
  /\ exit = "device" \/ guest \notin {"spin", "handler"} => "write" \notin failed
  /\ "write" \in failed => ~sig /\ ~irr
  /\ exit \in {"serial", "io", "mmio", "hlt"} => guest = "boot" /\ "rest_of_image" \in failed
  /\ guest \notin {"spin", "handler"} \/ exit = "device" \/ sig \/ irr \/ "write" \in failed => Untouched
  /\ Untouched \/ Putting

LEMMA ConsoleInitInv == Init => ConsoleInv
BY DEF Init, LaunchInit, ConsoleInit, ConsoleInv, Untouched

LEMMA PageFaultIs == PageFault \in Seq(Char) /\ Len(PageFault) = 3 /\ PageFault \o << >> = PageFault
<1>1. NL \in Char /\ "page_fault" \in Char
  BY DEF Char
<1>2. PageFault \in Seq(Char) /\ Len(PageFault) = 3
  BY <1>1 DEF PageFault
<1> QED BY <1>2, ConcatEmptySeq

LEMMA PrefixKept ==
  ASSUME NEW a \in Seq(Char), NEW b \in Seq(Char), NEW c \in Seq(Char), IsPrefix(b, c)
  PROVE  IsPrefix(a \o b, a \o c)
<1>1. /\ Len(a) \in Nat /\ Len(b) \in Nat /\ Len(c) \in Nat /\ Len(b) <= Len(c)
      /\ Len(a \o b) = Len(a) + Len(b) /\ Len(a \o c) = Len(a) + Len(c)
  BY DEF IsPrefix
<1>2. \A k \in 1 .. Len(b) : b[k] = c[k]
  <2>1. SubSeq(b, 1, Len(b)) = SubSeq(c, 1, Len(b))
    BY DEF IsPrefix
  <2>2. \A k \in 1 .. Len(b) : SubSeq(b, 1, Len(b))[k] = b[k] /\ SubSeq(c, 1, Len(b))[k] = c[k]
    BY <1>1
  <2> QED BY <2>1, <2>2
<1> DEFINE d == a \o b
           e == a \o c
<1>3. d \in Seq(Char) /\ e \in Seq(Char)
  OBVIOUS
<1>4. \A k \in 1 .. Len(d) : d[k] = e[k]
  <2> SUFFICES ASSUME NEW k \in 1 .. Len(d) PROVE d[k] = e[k]
    OBVIOUS
  <2>1. CASE k <= Len(a)
    BY <1>1, <2>1
  <2>2. CASE k > Len(a)
    <3>1. k - Len(a) \in 1 .. Len(b)
      BY <1>1, <2>2
    <3>2. d[k] = b[k - Len(a)] /\ e[k] = c[k - Len(a)]
      BY <1>1, <2>2, <3>1
    <3> QED BY <1>2, <3>1, <3>2
  <2> QED BY <1>1, <2>1, <2>2
<1>5. SubSeq(d, 1, Len(d)) = SubSeq(e, 1, Len(d))
  <2>1. Len(d) \in Nat /\ Len(d) <= Len(e)
    BY <1>1
  <2> HIDE DEF d, e
  <2>2. SubSeq(d, 1, Len(d)) = [k \in 1 .. Len(d) |-> d[k]] /\ SubSeq(e, 1, Len(d)) = [k \in 1 .. Len(d) |-> e[k]]
    BY <1>3, <2>1
  <2> QED BY <1>4, <2>2
<1>6. Len(d) <= Len(e)
  BY <1>1
<1> QED BY <1>5, <1>6 DEF IsPrefix

LEMMA LeftNext ==
  ASSUME NEW text \in Seq(Char), NEW r, NEW p, Left(text, r, p), r # << >>
  PROVE  p \in Nat /\ p + 1 \in 1 .. Len(text) /\ Head(r) = text[p + 1] /\ Left(text, Tail(r), p + 1)
<1>1. /\ Len(text) \in Nat /\ p \in 0 .. Len(text) /\ r \in Seq(Char) /\ Len(r) = Len(text) - p
      /\ \A k \in 1 .. Len(r) : r[k] = text[p + k]
  BY DEF Left
<1>2. /\ Tail(r) \in Seq(Char) /\ Len(Tail(r)) = Len(r) - 1 /\ Head(r) = r[1] /\ Len(r) \in Nat \ {0}
      /\ \A k \in 1 .. Len(Tail(r)) : Tail(r)[k] = r[k + 1]
  BY <1>1, HeadTailProperties
<1>3. p + 1 \in 1 .. Len(text) /\ Head(r) = text[p + 1] /\ Len(Tail(r)) = Len(text) - (p + 1)
  BY <1>1, <1>2
<1>4. ASSUME NEW k \in 1 .. Len(Tail(r)) PROVE Tail(r)[k] = text[(p + 1) + k]
  <2>1. k + 1 \in 1 .. Len(r) /\ p + (k + 1) = (p + 1) + k
    BY <1>1, <1>2
  <2> QED BY <1>1, <1>2, <2>1
<1> QED BY <1>1, <1>2, <1>3, <1>4 DEF Left

\* A character that is not stored does not show.
LEMMA MoveOnShows ==
  ASSUME NEW text \in Seq(Char), NEW p, Left(text, rest, p), Shows(text, p), MoveOn,
         video_current \in Nat
  PROVE  Left(text, rest', p + 1) /\ Shows(text, p + 1)' /\ video_current' \in Nat
<1>1. /\ p \in Nat /\ p + 1 \in 1 .. Len(text) /\ Head(rest) = text[p + 1] /\ Left(text, rest', p + 1)
  BY LeftNext DEF MoveOn
<1>2. COLS \in Nat \ {0} /\ LAST \in Nat /\ Len(text) \in Nat
  BY ConsoleAssumption
<1>3. PICK m \in 0 .. p :
        /\ shown = PageFault \o Terminal(text)[m]
        /\ video_current <= LAST => m = p /\ video_current % COLS = InLine(text, p + 1) % COLS
  BY DEF Shows
<1>4. shown' = shown /\ m \in 0 .. p + 1
  BY <1>1 DEF MoveOn
<1>5. CASE text[p + 1] = NL
  <2>1. video_current' = video_current + COLS - (video_current % COLS)
    BY <1>1, <1>5 DEF MoveOn, NewLine, get_current_column
  <2>2. video_current' \in Nat /\ video_current' > video_current /\ video_current' % COLS = 0
    BY <1>2, <2>1, NextRow
  <2>3. CASE video_current' > LAST
    <3>1. ~ (video_current' <= LAST)
      BY <1>2, <2>2, <2>3
    <3>2. shown' = PageFault \o Terminal(text)[m] /\ m \in 0 .. p + 1
      BY <1>3, <1>4
    <3>3. \E j \in 0 .. p + 1 :
            /\ shown' = PageFault \o Terminal(text)[j]
            /\ video_current' <= LAST => j = p + 1 /\ video_current' % COLS = InLine(text, (p + 1) + 1) % COLS
      BY <3>1, <3>2, Zenon
    <3> QED BY <1>1, <2>2, <3>3, Zenon DEF Shows
  <2>4. CASE video_current' <= LAST
    <3>1. m = p
      BY <1>2, <1>3, <2>2, <2>4
    <3>2. InLine(text, (p + 1) + 1) = 0 /\ 0 % COLS = 0
      BY <1>1, <1>2, <1>5, InLineIs
    <3>3. Terminal(text)[p + 1] = Terminal(text)[p] \o << >> /\ Terminal(text)[p] \in Seq(Char)
      <4>1. (p + 1) - 1 = p /\ Cell(text, p + 1) = << >> /\ p \in 0 .. Len(text)
        BY <1>1, <1>2, <1>5 DEF Cell
      <4> QED BY <1>1, <4>1, TerminalIs
    <3>4. shown' = PageFault \o Terminal(text)[p + 1] /\ p + 1 \in 0 .. p + 1
      <4>1. Terminal(text)[p] \o << >> = Terminal(text)[p]
        BY <3>3
      <4> QED BY <1>1, <1>3, <1>4, <3>1, <3>3, <4>1
    <3> QED BY <1>1, <2>2, <3>2, <3>4 DEF Shows
  <2> QED BY <1>1, <1>2, <2>2, <2>3, <2>4
<1>6. CASE text[p + 1] # NL
  <2>1. video_current > LAST /\ video_current' = video_current
    BY <1>1, <1>6 DEF MoveOn
  <2>2. ~ (video_current' <= LAST)
    BY <1>2, <2>1
  <2> QED BY <1>1, <1>3, <1>4, <2>1, <2>2 DEF Shows
<1> QED BY <1>5, <1>6

LEMMA StoreCharPends ==
  ASSUME NEW text \in Seq(Char), NEW p, Left(text, rest, p), Shows(text, p), StoreChar,
         video_current \in Nat
  PROVE  Left(text, rest', p + 1) /\ Pending(text, p + 1)' /\ video_current' \in Nat
<1>1. /\ p \in Nat /\ p + 1 \in 1 .. Len(text) /\ Head(rest) = text[p + 1] /\ Left(text, rest', p + 1)
  BY LeftNext DEF StoreChar
<1>2. /\ text[p + 1] # NL /\ video_current <= LAST /\ store' = <<video_current, text[p + 1]>>
      /\ video_current' = video_current + 1 /\ shown' = shown
  BY <1>1 DEF StoreChar
<1>3. shown = PageFault \o Terminal(text)[p] /\ video_current % COLS = InLine(text, p + 1) % COLS
  BY <1>2 DEF Shows
<1>4. video_current' \in Nat /\ video_current' # 0 /\ video_current' - 1 = video_current /\ (p + 1) - 1 = p
  BY <1>1, <1>2
<1> QED BY <1>1, <1>2, <1>3, <1>4 DEF Pending

LEMMA MmioVideoShows ==
  ASSUME NEW text \in Seq(Char), NEW p, Pending(text, p), MmioVideo, video_current \in Nat
  PROVE  Shows(text, p)'
<1> DEFINE c == video_current - 1
<1>1. /\ p \in 1 .. Len(text) /\ text[p] # NL /\ c \in Nat /\ store = <<c, text[p]>>
      /\ shown = PageFault \o Terminal(text)[p - 1] /\ c % COLS = InLine(text, p) % COLS
  BY DEF Pending
<1>2. store[1] = c /\ store[2] = text[p]
  BY <1>1
<1> HIDE DEF c
<1>3. shown' = shown \o Cell(text, p) /\ video_current' = video_current
  BY <1>1, <1>2 DEF MmioVideo, Cell
<1>4. shown' = PageFault \o Terminal(text)[p]
  <2>1. PageFault \in Seq(Char) /\ p - 1 \in 0 .. Len(text)
    BY <1>1, PageFaultIs
  <2>2. Terminal(text)[p - 1] \in Seq(Char) /\ Cell(text, p) \in Seq(Char)
    BY <1>1, <2>1, TerminalIs
  <2>3. (PageFault \o Terminal(text)[p - 1]) \o Cell(text, p) = PageFault \o (Terminal(text)[p - 1] \o Cell(text, p))
    <3> DEFINE a == Terminal(text)[p - 1]
               b == Cell(text, p)
    <3>1. PageFault \in Seq(Char) /\ a \in Seq(Char) /\ b \in Seq(Char)
      BY <2>1, <2>2
    <3> HIDE DEF a, b
    <3>2. (PageFault \o a) \o b = PageFault \o (a \o b)
      BY <3>1, ConcatAssociative
    <3> QED BY <3>2 DEF a, b
  <2> QED BY <1>1, <1>3, <2>3, TerminalIs
<1>5. video_current % COLS = InLine(text, p + 1) % COLS
  <2>1. COLS \in Nat \ {0} /\ Len(text) \in Nat
    BY ConsoleAssumption
  <2>2. InLine(text, p) \in Nat /\ InLine(text, p + 1) = InLine(text, p) + 1
    BY <1>1, <2>1, InLineIs
  <2>3. (c + 1) % COLS = (InLine(text, p) + 1) % COLS
    BY <1>1, <2>1, <2>2, NextColumn
  <2>4. c + 1 = video_current
    BY DEF c
  <2> QED BY <2>2, <2>3, <2>4
<1>6. p \in 0 .. p
  BY <1>1
<1> QED BY <1>3, <1>4, <1>5, <1>6 DEF Shows

LEMMA DeliverPuts == InterruptInv /\ ConsoleInv /\ Deliver => Putting'
<1> SUFFICES ASSUME InterruptInv, ConsoleInv, Deliver PROVE Putting'
  OBVIOUS
<1>1. /\ Untouched /\ exit = "none" /\ exit' = "none" /\ job' \in Jobs /\ rest' = Characters(job')
      /\ "write" \notin failed /\ guest \in {"spin", "handler"}
      /\ UNCHANGED <<video_current, shown>>
  BY DEF InterruptInv, ConsoleInv, Deliver, Running, StartPutting, Jobs
<1>2. PICK text \in Seq(Char) : text = Characters(job')
  BY <1>1, SaysIt
<1>3. Len(text) \in Nat /\ video_current' = 0 /\ shown' = PageFault
  BY <1>1, <1>2 DEF Untouched, Opening
<1>4. Left(text, text, 0)
  BY <1>2, <1>3 DEF Left
<1>5. Terminal(text)[0] = << >> /\ InLine(text, 0 + 1) = 0
  BY <1>2, <1>3, TerminalIs, InLineIs
<1>6. Shows(text, 0)'
  <2>1. shown' = PageFault \o Terminal(text)[0] /\ 0 \in 0 .. 0
    BY <1>3, <1>5, PageFaultIs
  <2> QED BY <1>3, <1>5, <2>1 DEF Shows
<1>7. Left(Characters(job'), rest', 0) /\ Shows(Characters(job), 0)'
  BY <1>1, <1>2, <1>4, <1>6 DEF Shows
<1> QED BY <1>1, <1>3, <1>7 DEF Putting

LEMMA HandlerPutPuts == ConsoleInv /\ HandlerPut => Putting'
<1> SUFFICES ASSUME ConsoleInv, HandlerPut PROVE Putting'
  OBVIOUS
<1>1. rest # << >> /\ exit = "none" /\ job' = job
  BY DEF HandlerPut, MoveOn, StoreChar, Running
<1>2. Putting
  BY <1>1 DEF ConsoleInv, Untouched
<1>3. job \in Jobs /\ video_current \in Nat
  BY <1>2 DEF Putting
<1>4. PICK text \in Seq(Char) : text = Characters(job) /\ text = Characters(job')
  BY <1>1, <1>3, SaysIt
<1>5. PICK p : Left(text, rest, p) /\ Shows(text, p)
  BY <1>1, <1>2, <1>4 DEF Putting
<1>6. CASE MoveOn /\ UNCHANGED exit
  <2>1. Left(text, rest', p + 1) /\ Shows(text, p + 1)' /\ video_current' \in Nat
    BY <1>3, <1>5, <1>6, MoveOnShows
  <2>2. Left(Characters(job'), rest', p + 1) /\ Shows(Characters(job), p + 1)'
    BY <1>4, <2>1 DEF Shows
  <2> QED BY <1>1, <1>3, <1>6, <2>1, <2>2 DEF Putting
<1>7. CASE StoreChar /\ exit' = "video"
  <2>1. Left(text, rest', p + 1) /\ Pending(text, p + 1)' /\ video_current' \in Nat
    BY <1>3, <1>5, <1>7, StoreCharPends
  <2>2. Left(Characters(job'), rest', p + 1) /\ Pending(Characters(job), p + 1)'
    BY <1>4, <2>1 DEF Pending
  <2> QED BY <1>1, <1>3, <1>7, <2>1, <2>2 DEF Putting
<1> QED BY <1>6, <1>7 DEF HandlerPut

LEMMA ShowPuts == ConsoleInv /\ Show => Putting'
<1> SUFFICES ASSUME ConsoleInv, Show PROVE Putting'
  OBVIOUS
<1>1. exit = "video" /\ exit' = "none" /\ MmioVideo /\ UNCHANGED <<job, rest, video_current>>
  BY DEF Show, MmioVideo
<1>2. Putting
  BY <1>1 DEF ConsoleInv, Untouched
<1>3. job \in Jobs /\ video_current \in Nat
  BY <1>2 DEF Putting
<1>4. PICK text \in Seq(Char) : text = Characters(job) /\ text = Characters(job')
  BY <1>1, <1>3, SaysIt
<1>5. PICK p : Left(text, rest, p) /\ Pending(text, p)
  BY <1>1, <1>2, <1>4 DEF Putting
<1>6. Shows(text, p)'
  BY <1>1, <1>3, <1>5, MmioVideoShows
<1>7. Left(Characters(job'), rest', p) /\ Shows(Characters(job), p)'
  BY <1>1, <1>4, <1>5, <1>6 DEF Shows
<1> QED BY <1>1, <1>3, <1>7 DEF Putting

\* All other steps leave what is put alone, and do not begin or end an exit for a store.
LEMMA PuttingKept ==
  ASSUME Putting, UNCHANGED consoleVars, exit # "video", exit' # "video" PROVE Putting'
<1>1. UNCHANGED <<job, rest, video_current, store, shown>>
  BY DEF consoleVars
<1> QED BY <1>1 DEF Putting, Shows

\* So they do with what is shown before, unless the launcher adds to it.
Kept ==
  IF guest \in {"boot", "fault"} THEN guest' \in {"boot", "fault"} /\ failed \subseteq failed'
  ELSE guest' \notin {"boot", "fault"} /\ Opening' = Opening

LEMMA UntouchedKept ==
  ASSUME Untouched, UNCHANGED consoleVars, exit' # "video", Kept PROVE Untouched'
<1>1. UNCHANGED <<job, rest, video_current, store, shown>>
  BY DEF consoleVars
<1> QED BY <1>1 DEF Untouched, Kept

LEMMA ConsoleKept ==
  ASSUME ConsoleInv, UNCHANGED consoleVars, exit # "video", exit' # "video", Kept
  PROVE  (Untouched \/ Putting)' /\ (Untouched => Untouched')
BY PuttingKept, UntouchedKept DEF ConsoleInv

LEMMA SetupKeeps == Setup => failed \subseteq failed' /\ ("write" \in failed' => "write" \in failed)
<1> SUFFICES ASSUME Setup PROVE failed \subseteq failed' /\ ("write" \in failed' => "write" \in failed)
  OBVIOUS
<1>1. CASE Parse \/ ParseFailed \/ EnterLoop
  BY <1>1 DEF Parse, ParseFailed, EnterLoop
<1>2. CASE Succeeds
  BY <1>2 DEF Succeeds
<1>3. CASE Fails
  BY <1>3 DEF Fails, Untested
<1> QED BY <1>1, <1>2, <1>3 DEF Setup, Launch

\* Bytes and reports of a guest gone astray.
LEMMA OutputFacts ==
  ASSUME NEW a \in Seq(Output)
  PROVE  /\ \A e \in {"io", "mmio", "hlt"} : a \o <<e, NL>> \in Seq(Output)
         /\ Append(a, "serial") \in Seq(Output)
<1>1. Append(a, "serial") \in Seq(Output)
  BY DEF Output
<1>2. ASSUME NEW e \in {"io", "mmio", "hlt"} PROVE a \o <<e, NL>> \in Seq(Output)
  <2>1. <<e, NL>> \in Seq(Output)
    BY DEF Output
  <2> QED BY <2>1, ConcatProperties, Zenon
<1> QED BY <1>1, <1>2

LEMMA StrayInv ==
  ASSUME ConsoleInv, Resume \/ Stop, exit \in {"serial", "io", "mmio", "hlt"} PROVE ConsoleInv'
<1>1. /\ guest = "boot" /\ "rest_of_image" \in failed /\ "write" \notin failed /\ Untouched
      /\ UNCHANGED <<guest, failed, sig, irr, job, rest, video_current>>
      /\ exit' \in {exit, "none"}
  BY DEF ConsoleInv, Resume, Stop, launchVars, guestVars
<1>2. shown \in Seq(Output)
  BY <1>1 DEF Untouched
<1>3. shown' \in Seq(Output)
  <2>1. CASE Resume
    BY <1>2, <2>1, OutputFacts DEF Resume
  <2>2. CASE Stop
    BY <1>2, <2>2, OutputFacts DEF Stop
  <2> QED BY <2>1, <2>2
<1>4. Untouched'
  BY <1>1, <1>3 DEF Untouched
<1> QED BY <1>1, <1>4 DEF ConsoleInv

LEMMA HandleDeviceInv ==
  ASSUME InterruptInv, ConsoleInv, HandleDevice PROVE ConsoleInv'
<1>1. /\ exit = "device" /\ exit' = "none" /\ guest = "spin" /\ ~sig /\ ~irr
      /\ UNCHANGED <<guest, irr, job, rest, video_current>>
      /\ Untouched /\ "write" \notin failed /\ shown = << >>
  BY DEF InterruptInv, ConsoleInv, HandleDevice, Untouched, Opening, guestVars
<1>2. << >> \o PageFault = PageFault
  BY PageFaultIs, ConcatEmptySeq
<1>3. CASE sig' = TRUE /\ shown' = shown \o PageFault /\ UNCHANGED failed
  <2>1. shown' = Opening'
    BY <1>1, <1>2, <1>3 DEF Opening
  <2>2. Untouched'
    BY <1>1, <2>1 DEF Untouched
  <2> QED BY <1>1, <1>3, <2>2 DEF ConsoleInv
<1>4. CASE /\ failed' = failed \union {"write"} /\ shown' = shown \o PageFault \o WriteFailed
           /\ UNCHANGED sig
  <2>1. shown' = Opening' /\ "write" \in failed'
    BY <1>1, <1>2, <1>4 DEF Opening
  <2>2. Untouched'
    BY <1>1, <2>1 DEF Untouched
  <2> QED BY <1>1, <1>4, <2>2 DEF ConsoleInv
<1> QED BY <1>3, <1>4 DEF HandleDevice

LEMMA BootInv == ASSUME ConsoleInv, Boot PROVE ConsoleInv'
<1>1. /\ guest = "boot" /\ guest' = "tables" /\ exit = "none" /\ exit' = "none"
      /\ "rest_of_image" \notin failed /\ UNCHANGED <<failed, sig, irr, job, rest, video_current, shown>>
  BY DEF Boot, Running, launchVars, consoleVars
<1>2. Untouched /\ "write" \notin failed
  BY <1>1 DEF ConsoleInv
<1>3. shown = << >>
  BY <1>1, <1>2 DEF Untouched
<1>4. Untouched'
  BY <1>1, <1>2, <1>3 DEF Untouched, Opening
<1> QED BY <1>1, <1>2, <1>4 DEF ConsoleInv

LEMMA ConsoleStepInv == InterruptInv /\ ConsoleInv /\ [Next]_vars => ConsoleInv'
<1> SUFFICES ASSUME InterruptInv, ConsoleInv, [Next]_vars PROVE ConsoleInv'
  OBVIOUS
<1>1. CASE UNCHANGED vars
  <2>1. UNCHANGED <<job, rest, video_current, store, shown, exit, guest, sig, irr, failed>>
    BY <1>1 DEF vars, consoleVars, guestVars, launchVars
  <2> QED BY <2>1 DEF ConsoleInv, Untouched, Putting, Shows, Pending, Opening
<1>2. CASE Setup
  <2>1. UNCHANGED <<job, rest, video_current, store, shown, exit, guest, sig, irr>>
    BY <1>2 DEF Setup, guestVars, consoleVars
  <2>2. failed \subseteq failed' /\ ("write" \in failed' <=> "write" \in failed)
    BY <1>2, SetupKeeps
  <2>3. Untouched => Untouched'
    BY <2>1, <2>2 DEF Untouched, Opening
  <2>4. Putting => Putting'
    BY <2>1 DEF Putting, Shows, Pending
  <2> QED BY <2>1, <2>2, <2>3, <2>4 DEF ConsoleInv
<1>3. CASE Guest
  <2>1. CASE Boot
    BY <2>1, BootInv
  <2>7. CASE BootFaults \/ Shutdown \/ Astray
    <3>1. /\ UNCHANGED <<consoleVars, failed, sig, irr>> /\ exit = "none" /\ guest \in {"boot", "fault"}
          /\ guest' \in {"boot", "fault"} /\ exit' \notin {"video", "device"}
          /\ exit' \in {"serial", "io", "mmio", "hlt"} => guest' = "boot" /\ "rest_of_image" \in failed
      BY <2>7 DEF BootFaults, Shutdown, Astray, Running, launchVars, guestVars
    <3> QED BY <3>1, ConsoleKept DEF ConsoleInv, Kept
  <2>2. CASE Tables \/ SetGate \/ enable_apic
    <3>1. /\ UNCHANGED <<consoleVars, failed, exit, sig, irr>> /\ exit = "none"
          /\ guest \in {"tables", "gates", "apic"} /\ guest' \in {"gates", "apic", "user"}
      BY <2>2 DEF Tables, SetGate, enable_apic, Running, launchVars
    <3> QED BY <3>1, ConsoleKept DEF ConsoleInv, Kept, Opening
  <2>3. CASE UserStore
    <3>1. UNCHANGED <<consoleVars, failed, sig, irr>> /\ exit = "none" /\ exit' = "device" /\ guest = "user" /\ guest' = "spin"
      BY <2>3 DEF UserStore, Running, launchVars
    <3> QED BY <3>1, ConsoleKept DEF ConsoleInv, Kept, Opening
  <2>4. CASE Deliver
    <3>1. guest' = "handler" /\ exit' = "none" /\ irr' = FALSE /\ sig' = sig /\ irr /\ failed' = failed
      BY <2>4 DEF Deliver, Running, launchVars
    <3>2. ~ sig' /\ "write" \notin failed
      BY <3>1 DEF InterruptInv, ConsoleInv
    <3> QED BY <2>4, <3>1, <3>2, DeliverPuts DEF ConsoleInv
  <2>5. CASE HandlerPut
    <3>1. /\ guest' = "handler" /\ guest = "handler" /\ exit' \in {"none", "video"} /\ rest # << >>
          /\ UNCHANGED <<failed, sig, irr>>
      BY <2>5 DEF HandlerPut, Running, guestVars, launchVars, MoveOn, StoreChar
    <3>2. ~ sig' /\ ~ irr' /\ "write" \notin failed'
      BY <3>1 DEF InterruptInv, ConsoleInv, Untouched
    <3> QED BY <2>5, <3>1, <3>2, HandlerPutPuts DEF ConsoleInv
  <2>6. CASE HandlerEnd
    <3>1. UNCHANGED <<consoleVars, failed, exit, sig, irr>> /\ exit = "none" /\ guest' = "spin" /\ guest = "handler"
      BY <2>6 DEF HandlerEnd, Running, launchVars
    <3> QED BY <3>1, ConsoleKept DEF ConsoleInv, Kept, Opening
  <2> QED BY <1>3, <2>1, <2>2, <2>3, <2>4, <2>5, <2>6, <2>7 DEF Guest
<1>4. CASE HostExit \/ Inject
  <2>1. /\ UNCHANGED <<consoleVars, failed, guest, irr>> \/ (UNCHANGED <<consoleVars, failed, guest, exit>> /\ sig)
        /\ "write" \in failed => ~sig' /\ ~irr'
        /\ UNCHANGED <<sig, irr>> \/ sig
        /\ UNCHANGED <<consoleVars, failed, guest>>
        /\ exit' = exit \/ (exit = "none" /\ exit' \notin {"video", "device", "serial", "io", "mmio", "hlt"})
    BY <1>4 DEF HostExit, Inject, Running, guestVars, launchVars, ConsoleInv
  <2>2. exit # "video" => Kept
    BY <2>1 DEF Kept, Opening
  <2>3. sig => Untouched /\ exit # "video"
    BY DEF ConsoleInv, Untouched
  <2>4. UNCHANGED <<job, rest, video_current, store, shown, guest, failed>>
    BY <2>1 DEF consoleVars
  <2>5. CASE exit' = exit
    <3>1. (Untouched => Untouched') /\ (Putting => Putting')
      BY <2>4, <2>5 DEF Untouched, Opening, Putting, Shows, Pending
    <3> QED BY <2>1, <2>3, <2>5, <3>1 DEF ConsoleInv
  <2>6. CASE exit' # exit
    <3>1. exit = "none" /\ exit' \notin {"video", "device", "serial", "io", "mmio", "hlt"}
      BY <2>1, <2>6
    <3>2. (Untouched \/ Putting)' /\ (Untouched => Untouched')
      BY <2>1, <2>2, <3>1, ConsoleKept
    <3> QED BY <2>1, <2>3, <3>1, <3>2 DEF ConsoleInv
  <2> QED BY <2>5, <2>6
<1>5. CASE HandleDevice
  BY <1>5, HandleDeviceInv
<1>6. CASE Resume \/ Stop
  <2>1. CASE exit \in {"serial", "io", "mmio", "hlt"}
    BY <1>6, <2>1, StrayInv
  <2>2. CASE exit \notin {"serial", "io", "mmio", "hlt"}
    <3>1. /\ UNCHANGED <<consoleVars, failed, guest, sig, irr>> /\ exit \notin {"video", "device"}
          /\ exit' \in {exit, "none"}
      BY <1>6, <2>2 DEF Resume, Stop, launchVars, guestVars, consoleVars
    <3>2. Kept
      BY <3>1 DEF Kept, Opening
    <3> QED BY <2>2, <3>1, <3>2, ConsoleKept DEF ConsoleInv
  <2> QED BY <2>1, <2>2
<1>7. CASE Show
  <2>1. UNCHANGED <<guest, failed, sig, irr>> /\ exit = "video" /\ exit' = "none"
    BY <1>7 DEF Show, guestVars, launchVars
  <2>2. guest \in {"spin", "handler"} /\ ~ sig /\ ~ irr /\ "write" \notin failed
    BY <2>1 DEF ConsoleInv, Untouched
  <2> QED BY <1>7, <2>1, <2>2, ShowPuts DEF ConsoleInv
<1> QED BY <1>1, <1>2, <1>3, <1>4, <1>5, <1>6, <1>7 DEF Next, Loop

LEMMA ConsoleInvSafe == InterruptInv /\ ConsoleInv => TerminalFaithful
<1> SUFFICES ASSUME InterruptInv, ConsoleInv, exit # "video" PROVE TerminalFaithful
  BY DEF TerminalFaithful
<1>1. CASE Untouched
  <2>1. CASE guest \in {"boot", "fault"}
    <3>1. shown \in Seq(Output) /\ (shown # << >> => "rest_of_image" \in failed)
      BY <1>1, <2>1 DEF Untouched
    <3>2. ToSet(shown) \subseteq Output
      BY <3>1 DEF ToSet
    <3> QED BY <2>1, <3>1, <3>2 DEF TerminalFaithful, Output
  <2>2. CASE guest \notin {"boot", "fault"}
    BY <1>1, <2>2 DEF Untouched, TerminalFaithful
  <2> QED BY <2>1, <2>2
<1>2. CASE Putting /\ ~ Untouched
  <2>0. guest \in {"spin", "handler"} /\ exit # "device" /\ Opening = PageFault
    BY <1>2 DEF ConsoleInv, Opening
  <2>1. job \in Jobs /\ job.before # << >>
    BY <1>2, ConsoleAssumption DEF Putting, Jobs
  <2>2. PICK text \in Seq(Char) : text = Characters(job) /\ Says(text, job)
    BY <2>1, SaysIt
  <2>3. PICK p : Left(text, rest, p) /\ Shows(text, p)
    BY <1>2, <2>2 DEF Putting
  <2>4. p \in 0 .. Len(text) /\ Len(text) - Len(rest) = p
    BY <2>3 DEF Left
  <2>5. PICK m \in 0 .. p : shown = PageFault \o Terminal(text)[m] /\ (video_current <= LAST => m = p)
    BY <2>3 DEF Shows
  <2> DEFINE due == PageFault \o Terminal(text)[p]
  <2>6. IsPrefix(shown, due) /\ (video_current <= LAST => shown = due)
    <3>1. m \in 0 .. Len(text) /\ Len(text) \in Nat
      BY <2>4
    <3>2. Terminal(text)[m] \in Seq(Char) /\ Terminal(text)[p] \in Seq(Char)
      BY <2>4, <3>1, TerminalIs
    <3>3. IsPrefix(Terminal(text)[m], Terminal(text)[p])
      BY <2>4, TerminalGrows
    <3>4. IsPrefix(PageFault \o Terminal(text)[m], due)
      BY <3>2, <3>3, PrefixKept, PageFaultIs
    <3> QED BY <2>5, <3>4
  <2>7. due = Opening \o Terminal(text)[Len(text) - Len(rest)]
    BY <2>0, <2>4
  <2> HIDE DEF due
  <2> QED BY <2>0, <2>1, <2>2, <2>6, <2>7 DEF TerminalFaithful
<1> QED BY <1>1, <1>2 DEF ConsoleInv

------------------------------------------------------------------------------
(* The run as a whole *)

RunInv == OptionsInv /\ FormInv /\ LaunchInv /\ InterruptInv /\ GatesInv /\ ConsoleInv

LEMMA LaunchNextInv == LaunchInv /\ [Next]_vars => LaunchInv'
<1> SUFFICES ASSUME LaunchInv, [Next]_vars PROVE LaunchInv'
  OBVIOUS
<1>1. CASE UNCHANGED launchVars
  BY <1>1 DEF launchVars, LaunchInv, CaughtInTime
<1>2. CASE Setup
  BY <1>2, LaunchStepInv DEF Setup
<1>3. CASE Guest
  BY <1>1, <1>3 DEF Guest, Boot, BootFaults, Shutdown, Astray, Tables, SetGate, enable_apic, UserStore,
     Deliver, HandlerPut, HandlerEnd
<1>4. CASE HostExit \/ Inject \/ Show \/ Resume \/ UNCHANGED vars
  BY <1>1, <1>4 DEF HostExit, Inject, Show, Resume, vars
<1>5. CASE HandleDevice
  BY <1>5 DEF HandleDevice, LaunchInv, CaughtInTime
<1>6. CASE Stop
  BY <1>6 DEF Stop, LaunchInv, CaughtInTime
<1> QED BY <1>2, <1>3, <1>4, <1>5, <1>6 DEF Next, Loop

LEMMA RunInvHolds == Spec => []RunInv
<1>1. Init => RunInv
  BY OptionsInitInv, LaunchInitInv, InterruptInitInv, GatesInitInv, ConsoleInitInv
     DEF Init, LaunchInit, RunInv
<1>2. RunInv /\ [Next]_vars => RunInv'
  BY OptionsNextInv, LaunchNextInv, InterruptStepInv, GatesStepInv, ConsoleStepInv DEF RunInv
<1> QED BY <1>1, <1>2, PTL DEF Spec

\* Of the failures main does not test for, only those of ioefd, the GSI route, CPUID, the
\* rest of the image and the write to irqefd can lie behind a running guest.
THEOREM FailuresCaught == Spec => []SurvivingFailures
<1>1. RunInv => SurvivingFailures
  BY LaunchInvSafe DEF RunInv
<1> QED BY RunInvHolds, <1>1, PTL

\* The five overlapping stores leave every gate complete before entry64 executes sti.
THEOREM GatesAreComplete == Spec => []GatesComplete
<1>1. RunInv => GatesComplete
  <2> SUFFICES ASSUME RunInv, iflag, guest # "tables", NEW v \in DOMAIN idt PROVE LeadsTo(idt[v], v)
    BY DEF GatesComplete
  <2>1. guest \in {"apic", "user", "spin", "handler"}
    BY DEF RunInv, InterruptInv
  <2>2. v \in VectorSet
    BY DEF RunInv, GatesInv
  <2>3. PICK m \in 1 .. 13 : v = Vectors[m]
    BY <2>2, VectorsDiffer DEF VectorSet
  <2>4. IsBuilt(idt[v], v, 5)
    BY <2>1, <2>3 DEF RunInv, GatesInv
  <2> QED BY <2>4, BuiltLeads
<1> QED BY RunInvHolds, <1>1, PTL

\* The signal of irqefd finds the guest spinning in user mode, and is taken once.
THEOREM InterruptTimely == Spec => []InterruptInTime
<1>1. RunInv => InterruptInTime
  BY DEF RunInv, InterruptInv, InterruptInTime
<1> QED BY RunInvHolds, <1>1, PTL

\* parse_argv accepts a well-formed memory size after -m or --mem and computes what its
\* digits and its unit mean, whatever val held at first and however often the option is
\* given; after -mem, the documented spelling, it computes 14M, and -smp is refused.
THEOREM SizeIsAsMeant == Spec => []SizeAsMeant
<1>1. RunInv => SizeAsMeant
  BY DEF RunInv, OptionsInv, FormInv, SizeAsMeant, Size
<1> QED BY RunInvHolds, <1>1, PTL

\* What the loop of vm.c puts out is its report of the device store and then what the
\* handler puts with putc and print_hex_by_byte, stored by the guest character by character:
\* its messages and its number, for every screen width and length.
THEOREM TerminalIsFaithful == Spec => []TerminalFaithful
<1>1. RunInv => TerminalFaithful
  BY ConsoleInvSafe DEF RunInv
<1> QED BY RunInvHolds, <1>1, PTL
===============================================================================
