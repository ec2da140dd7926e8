--------------------------- MODULE CpuidTable_proofs ---------------------------
(***************************************************************************)
(* vm_init_cpuid never leaves its table, and what it submits is in strict  *)
(* order and complete, for every host and every table size.                *)
(***************************************************************************)
EXTENDS CpuidTable, TLAPS

\* Where the loops are: the leaf stays below its limit, and a sub-leaf loop has
\* claimed the slot it writes.
Progress ==
  /\ pc \in {"leaf", "sub", "times"} => limit \in Limits /\ i <= limit + 1
  /\ pc \in {"sub", "times"} => i <= limit
  /\ pc = "sub" => i \in Indexed /\ cpuid_i >= 1
  /\ pc = "sub" /\ i = 13 => j <= SubLeaves

\* A slot that is handed out is either fresh or was given back with index 0.
FreeSlots == \A a \in 0 .. MAX - 1 : a >= cpuid_i => entries[a].idx = 0

\* The end of leaf 0xd finds its last slot filled.
LastFilled == pc = "sub" /\ i = 13 /\ j = SubLeaves =>
                /\ entries[Cur] = Entry(13, SubLeaves - 1, SIGNIFICANT_INDEX)
                /\ \A a \in 0 .. MAX - 1 : a < Cur /\ entries[a].fn = 13 =>
                     entries[a].idx < SubLeaves - 1

\* Everything final belongs to an earlier leaf or sub-leaf than the one under way.
Earlier == \A a \in 0 .. MAX - 1 : a < Settled =>
             /\ pc \in {"leaf", "ext"} => entries[a].fn < i
             /\ pc \in {"sub", "times"} => \/ entries[a].fn < i
                                           \/ entries[a].fn = i /\ entries[a].idx < j

Covered == pc # "full" =>
             \A k \in found : \E a \in 0 .. MAX - 1 : a < Settled /\ Key(entries[a]) = k

Inv == TypeOK /\ InTable /\ Progress /\ FreeSlots /\ LastFilled /\ Earlier
       /\ Ascending /\ Covered

LEMMA InitInv == Init => Inv
BY TableAssumption
   DEF Init, Inv, TypeOK, InTable, Progress, FreeSlots, LastFilled, Earlier, Ascending,
       Covered, Settled, Cur, Entry, Indexed

LEMMA GivesUpInv == ASSUME Inv, GivesUp PROVE Inv'
BY TableAssumption
   DEF GivesUp, Inv, TypeOK, InTable, Progress, FreeSlots, LastFilled, Earlier, Ascending,
       Covered, Settled, Cur, Entry, Indexed

\* Order and coverage survive when at most one entry becomes final, and it comes
\* after all that were.
LEMMA Grow ==
  ASSUME Inv, NEW f \in Nat, NEW x \in Nat, Settled \in Nat,
         \/ Settled' = Settled
         \/ /\ Settled' = Settled + 1 /\ Settled \in 0 .. MAX - 1
            /\ entries'[Settled].fn = f /\ entries'[Settled].idx = x,
         \A a \in 0 .. MAX - 1 : a < Settled =>
           /\ entries'[a] = entries[a]
           /\ entries[a].fn < f \/ (entries[a].fn = f /\ entries[a].idx < x),
         \/ pc' = "full"
         \/ pc # "full" /\ found' = found
         \/ pc # "full" /\ found' = found \union {<<f, x>>} /\ Settled' = Settled + 1
  PROVE  Ascending' /\ Covered'
<1>1. ASSUME NEW a \in 0 .. MAX - 1, a < Settled'
      PROVE  a < Settled \/ (a = Settled /\ Settled' = Settled + 1)
  BY <1>1
<1>2. Ascending'
  <2> SUFFICES ASSUME NEW a \in 0 .. MAX - 1, NEW b \in 0 .. MAX - 1, a < b, b < Settled'
               PROVE  Before(entries'[a], entries'[b])
    BY DEF Ascending
  <2>1. CASE b < Settled
    <3>1. a < Settled
      BY <2>1
    <3> QED BY <2>1, <3>1 DEF Inv, Ascending
  <2>2. CASE b = Settled /\ Settled' = Settled + 1
    <3>1. entries'[b].fn = f /\ entries'[b].idx = x
      BY <2>2
    <3> QED BY <2>2, <3>1 DEF Before
  <2> QED BY <1>1, <2>1, <2>2
<1>3. Covered'
  <2> SUFFICES ASSUME pc' # "full", NEW k \in found'
               PROVE  \E a \in 0 .. MAX - 1 : a < Settled' /\ Key(entries'[a]) = k
    BY DEF Covered
  <2>1. CASE k \in found
    <3>1. PICK a \in 0 .. MAX - 1 : a < Settled /\ Key(entries[a]) = k
      BY <2>1 DEF Inv, Covered
    <3>2. a < Settled' /\ entries'[a] = entries[a]
      BY <3>1
    <3> QED BY <3>1, <3>2
  <2>2. CASE Settled' = Settled + 1 /\ k = <<f, x>>
    BY <2>2 DEF Key
  <2> QED BY <2>1, <2>2
<1> QED BY <1>2, <1>3

\* What the invariant says of the numbers involved.
LEMMA Numbers ==
  ASSUME Inv
  PROVE  /\ MAX \in Nat \ {0} /\ SubLeaves \in Nat \ {0} /\ ExtBase \in Nat
         /\ i \in Nat /\ j \in Nat /\ times \in Nat /\ limit \in Nat /\ cpuid_i \in 0 .. MAX
         /\ \A a \in 0 .. MAX - 1 : entries[a].fn \in Nat /\ entries[a].idx \in Nat
BY TableAssumption DEF Inv, TypeOK, InTable

\* A slot s of the table gets the entry (f, x).
LEMMA StoreType ==
  ASSUME Inv, NEW s \in 0 .. MAX - 1, NEW f \in Nat, NEW x \in Nat, NEW g \in 0 .. 1,
         entries' = [entries EXCEPT ![s] = Entry(f, x, g)]
  PROVE  /\ entries' \in [0 .. MAX - 1 -> [fn : Nat, idx : Nat, flags : 0 .. 1]]
         /\ entries'[s] = Entry(f, x, g) /\ entries'[s].fn = f /\ entries'[s].idx = x
         /\ \A a \in 0 .. MAX - 1 : a # s => entries'[a] = entries[a]
BY DEF Inv, TypeOK, Entry

LEMMA PlainLeafInv ==
  ASSUME Inv, PlainLeaf, cpuid_i # MAX, i <= limit,
         pc = "ext" \/ (pc = "leaf" /\ i \notin Indexed \union Counted)
  PROVE  Inv'
<1>1. cpuid_i \in 0 .. MAX - 1 /\ entries[cpuid_i].idx = 0 /\ cpuid_i \in Nat
  BY Numbers DEF Inv, FreeSlots
<1>2. /\ entries' = [entries EXCEPT ![cpuid_i] = Entry(i, 0, 0)]
      /\ i' = i + 1 /\ pc' = pc /\ j' = j /\ times' = times /\ limit' = limit
      /\ \/ cpuid_i' = cpuid_i + 1 /\ found' = found \union {<<i, 0>>}
         \/ cpuid_i' = cpuid_i /\ found' = found
  BY <1>1 DEF PlainLeaf
<1>3. /\ entries' \in [0 .. MAX - 1 -> [fn : Nat, idx : Nat, flags : 0 .. 1]]
      /\ entries'[cpuid_i].fn = i /\ entries'[cpuid_i].idx = 0
      /\ \A a \in 0 .. MAX - 1 : a # cpuid_i => entries'[a] = entries[a]
  <2>1. i \in Nat /\ 0 \in Nat /\ 0 \in 0 .. 1
    BY Numbers
  <2> QED BY <1>1, <1>2, <2>1 DEF Inv, TypeOK, Entry
<1>4. Settled = cpuid_i /\ Settled' = cpuid_i'
  BY <1>2 DEF Settled
<1>5. \A a \in 0 .. MAX - 1 : a < cpuid_i => entries'[a] = entries[a] /\ entries[a].fn < i
  BY <1>1, <1>3, <1>4 DEF Inv, Earlier
<1>6. TypeOK'
  <2>1. found' \subseteq Nat \X Nat
    BY <1>2, Numbers DEF Inv, TypeOK
  <2>2. i' \in Nat /\ cpuid_i' \in Nat
    BY <1>1, <1>2, Numbers
  <2> QED BY <1>2, <1>3, <2>1, <2>2, Numbers DEF Inv, TypeOK
<1>7. InTable' /\ Progress' /\ FreeSlots' /\ LastFilled'
  BY <1>1, <1>2, <1>3, Numbers DEF Inv, InTable, Progress, FreeSlots, LastFilled
<1>8. Earlier'
  <2> SUFFICES ASSUME NEW a \in 0 .. MAX - 1, a < cpuid_i' PROVE entries'[a].fn < i'
    BY <1>2, <1>4 DEF Earlier
  <2>1. a < cpuid_i \/ a = cpuid_i
    BY <1>1, <1>2
  <2> QED BY <1>1, <1>2, <1>3, <1>5, <2>1, Numbers
<1>9. Ascending' /\ Covered'
  <2>1. \A a \in 0 .. MAX - 1 : a < Settled =>
          /\ entries'[a] = entries[a]
          /\ entries[a].fn < i \/ (entries[a].fn = i /\ entries[a].idx < 0)
    BY <1>4, <1>5
  <2>2. \/ pc # "full" /\ found' = found
        \/ pc # "full" /\ found' = found \union {<<i, 0>>} /\ Settled' = Settled + 1
    BY <1>2, <1>4
  <2>3. \/ Settled' = Settled
        \/ /\ Settled' = Settled + 1 /\ Settled \in 0 .. MAX - 1
           /\ entries'[Settled].fn = i /\ entries'[Settled].idx = 0
    BY <1>1, <1>2, <1>3, <1>4
  <2>4. i \in Nat /\ 0 \in Nat /\ Settled \in Nat
    BY <1>1, <1>4, Numbers
  <2> HIDE DEF Settled
  <2> QED BY <2>1, <2>2, <2>3, <2>4, Grow
<1> QED BY <1>6, <1>7, <1>8, <1>9 DEF Inv

LEMMA BasicLeafInv == ASSUME Inv, BasicLeaf PROVE Inv'
<1>1. CASE cpuid_i = MAX /\ GivesUp
  BY <1>1, GivesUpInv
<1>2. CASE /\ cpuid_i # MAX /\ i \in Indexed
           /\ cpuid_i' = cpuid_i + 1 /\ j' = 0 /\ pc' = "sub"
           /\ UNCHANGED <<i, times, limit, entries, found>>
  <2>1. Settled = cpuid_i /\ Settled' = cpuid_i /\ pc = "leaf" /\ i <= limit
    BY <1>2, Numbers DEF BasicLeaf, Settled, Cur
  <2>2. TypeOK' /\ InTable' /\ Progress' /\ FreeSlots'
    BY <1>2, <2>1, Numbers DEF Inv, TypeOK, InTable, Progress, FreeSlots
  <2>3. LastFilled'
    BY <1>2, Numbers DEF LastFilled
  <2>4. Earlier'
    <3> SUFFICES ASSUME NEW a \in 0 .. MAX - 1, a < cpuid_i PROVE entries[a].fn < i
      BY <1>2, <2>1 DEF Earlier
    <3> QED BY <2>1 DEF Inv, Earlier
  <2>5. Ascending' /\ Covered'
    BY <1>2, <2>1 DEF Inv, Ascending, Covered
  <2> QED BY <2>2, <2>3, <2>4, <2>5 DEF Inv
<1>3. CASE /\ cpuid_i # MAX /\ i \in Counted
           /\ entries' = [entries EXCEPT ![cpuid_i] = Entry(i, 0, SIGNIFICANT_INDEX)]
           /\ cpuid_i' = cpuid_i + 1 /\ j' = 1 /\ pc' = "times"
           /\ times' \in 0 .. MaxTimes
           /\ found' = found \union {<<i, 0>>}
           /\ UNCHANGED <<i, limit>>
  <2>1. Settled = cpuid_i /\ Settled' = cpuid_i' /\ pc = "leaf" /\ i <= limit
    BY <1>3 DEF BasicLeaf, Settled
  <2>2. /\ cpuid_i \in 0 .. MAX - 1 /\ cpuid_i \in Nat /\ SIGNIFICANT_INDEX \in 0 .. 1
        /\ times' \in Nat
    BY <1>3, Numbers, TableAssumption DEF SIGNIFICANT_INDEX
  <2>3. /\ entries' \in [0 .. MAX - 1 -> [fn : Nat, idx : Nat, flags : 0 .. 1]]
        /\ entries'[cpuid_i].fn = i /\ entries'[cpuid_i].idx = 0
        /\ \A a \in 0 .. MAX - 1 : a # cpuid_i => entries'[a] = entries[a]
    BY <1>3, <2>2, Numbers, StoreType
  <2>4. \A a \in 0 .. MAX - 1 : a < cpuid_i => entries'[a] = entries[a] /\ entries[a].fn < i
    BY <2>1, <2>2, <2>3 DEF Inv, Earlier
  <2>5. TypeOK'
    <3>1. found' \subseteq Nat \X Nat
      BY <1>3, Numbers DEF Inv, TypeOK
    <3>2. cpuid_i' \in Nat /\ i' \in Nat /\ limit' \in Nat /\ j' \in Nat
      BY <1>3, <2>2, Numbers
    <3> QED BY <1>3, <2>2, <2>3, <3>1, <3>2 DEF TypeOK
  <2>6. InTable' /\ Progress' /\ FreeSlots' /\ LastFilled'
    BY <1>3, <2>1, <2>2, <2>3, Numbers DEF Inv, InTable, Progress, FreeSlots, LastFilled
  <2>7. Earlier'
    <3> SUFFICES ASSUME NEW a \in 0 .. MAX - 1, a < cpuid_i'
                 PROVE  entries'[a].fn < i' \/ (entries'[a].fn = i' /\ entries'[a].idx < j')
      <4>1. pc' = "times" /\ Settled' = cpuid_i'
        BY <1>3, <2>1
      <4> QED BY <4>1, SMT DEF Earlier
    <3>1. a < cpuid_i \/ a = cpuid_i
      BY <1>3, <2>2
    <3> QED BY <1>3, <2>2, <2>3, <2>4, <3>1, Numbers
  <2>8. Ascending' /\ Covered'
    <3>1. \A a \in 0 .. MAX - 1 : a < Settled =>
            /\ entries'[a] = entries[a]
            /\ entries[a].fn < i \/ (entries[a].fn = i /\ entries[a].idx < 0)
      BY <2>1, <2>4
    <3> QED BY <1>3, <2>1, <2>2, <2>3, <3>1, Numbers, Grow
  <2> QED BY <2>5, <2>6, <2>7, <2>8 DEF Inv
<1>4. CASE cpuid_i # MAX /\ i \notin Indexed \union Counted /\ PlainLeaf
  BY <1>4, PlainLeafInv DEF BasicLeaf
<1> QED BY <1>1, <1>2, <1>3, <1>4 DEF BasicLeaf

\* What holds at every turn of a sub-leaf loop.
LEMMA SubLeafFacts ==
  ASSUME Inv, pc = "sub"
  PROVE  /\ Settled = Cur /\ Cur \in 0 .. MAX - 1 /\ Cur \in Nat /\ cpuid_i = Cur + 1
         /\ i \in Indexed /\ i <= limit /\ limit \in Limits /\ (i = 13 => j <= SubLeaves)
         /\ \A a \in 0 .. MAX - 1 : a < Cur =>
              entries[a].fn < i \/ (entries[a].fn = i /\ entries[a].idx < j)
<1>1. Settled = Cur
  BY DEF Settled
<1>2. cpuid_i \in 0 .. MAX /\ cpuid_i >= 1
  BY Numbers DEF Inv, Progress
<1>3. Cur \in 0 .. MAX - 1 /\ Cur \in Nat /\ cpuid_i = Cur + 1
  BY <1>2, TableAssumption DEF Cur
<1>4. \A a \in 0 .. MAX - 1 : a < Cur =>
        entries[a].fn < i \/ (entries[a].fn = i /\ entries[a].idx < j)
  BY <1>1 DEF Inv, Earlier
<1> QED BY <1>1, <1>3, <1>4 DEF Inv, Progress

LEMMA SubLeafInv == ASSUME Inv, SubLeaf PROVE Inv'
<1>1. pc = "sub"
  BY DEF SubLeaf
<1>2. /\ Settled = Cur /\ Cur \in 0 .. MAX - 1 /\ Cur \in Nat /\ cpuid_i = Cur + 1
      /\ i \in Indexed /\ i <= limit /\ limit \in Limits /\ (i = 13 => j <= SubLeaves)
      /\ \A a \in 0 .. MAX - 1 : a < Cur =>
           entries[a].fn < i \/ (entries[a].fn = i /\ entries[a].idx < j)
  BY <1>1, SubLeafFacts
<1>3. CASE /\ i = 13 /\ j = SubLeaves
           /\ NextLeaf /\ UNCHANGED <<j, times, limit, cpuid_i, entries, found>>
  <2>1. /\ pc' = "leaf" /\ i' = 14 /\ j' = j /\ times' = times /\ limit' = limit
        /\ cpuid_i' = cpuid_i /\ entries' = entries /\ found' = found /\ i = 13
    BY <1>3 DEF NextLeaf
  <2>2. Settled' = Settled + 1 /\ Settled' = cpuid_i
    BY <1>2, <2>1 DEF Settled
  <2>3. TypeOK' /\ InTable' /\ Progress' /\ FreeSlots' /\ LastFilled'
    BY <1>2, <2>1, Numbers DEF Inv, TypeOK, InTable, Progress, FreeSlots, LastFilled
  <2>4. /\ entries[Cur].fn = 13 /\ entries[Cur].idx = SubLeaves - 1
        /\ \A a \in 0 .. MAX - 1 : a < Cur /\ entries[a].fn = 13 =>
             entries[a].idx < SubLeaves - 1
    BY <1>1, <1>3, Numbers DEF Inv, LastFilled, Entry
  <2>5. Earlier'
    <3> SUFFICES ASSUME NEW a \in 0 .. MAX - 1, a < cpuid_i PROVE entries[a].fn < 14
      BY <2>1, <2>2 DEF Earlier
    <3>1. a < Cur \/ a = Cur
      BY <1>2
    <3> QED BY <1>2, <2>1, <2>4, <3>1, Numbers
  <2>6. Ascending' /\ Covered'
    <3>1. \A a \in 0 .. MAX - 1 : a < Settled =>
            /\ entries'[a] = entries[a]
            /\ \/ entries[a].fn < 13
               \/ entries[a].fn = 13 /\ entries[a].idx < SubLeaves - 1
      BY <1>2, <2>1, <2>4
    <3>2. pc # "full" /\ found' = found
      BY <1>1, <2>1
    <3>3. /\ Settled' = Settled + 1 /\ Settled \in 0 .. MAX - 1
          /\ entries'[Settled].fn = 13 /\ entries'[Settled].idx = SubLeaves - 1
      BY <1>2, <2>1, <2>2, <2>4
    <3>4. 13 \in Nat /\ SubLeaves - 1 \in Nat /\ Settled \in Nat
      BY <1>2, TableAssumption
    <3> QED BY <3>1, <3>2, <3>3, <3>4, Grow
  <2> QED BY <2>3, <2>5, <2>6 DEF Inv
<1>4. CASE ~ (i = 13 /\ j = SubLeaves)
  <2>1. /\ entries' = [entries EXCEPT ![Cur] = Entry(i, j, SIGNIFICANT_INDEX)]
        /\ times' = times /\ limit' = limit
    BY <1>4 DEF SubLeaf
  <2>2. SIGNIFICANT_INDEX \in 0 .. 1 /\ i \in Nat /\ j \in Nat
    BY Numbers DEF SIGNIFICANT_INDEX
  <2>3. /\ entries' \in [0 .. MAX - 1 -> [fn : Nat, idx : Nat, flags : 0 .. 1]]
        /\ entries'[Cur] = Entry(i, j, SIGNIFICANT_INDEX)
        /\ entries'[Cur].fn = i /\ entries'[Cur].idx = j
        /\ \A a \in 0 .. MAX - 1 : a # Cur => entries'[a] = entries[a]
    BY <1>2, <2>1, <2>2, StoreType
  <2>4. \A a \in 0 .. MAX - 1 : a < Settled =>
          /\ entries'[a] = entries[a]
          /\ entries[a].fn < i \/ (entries[a].fn = i /\ entries[a].idx < j)
    BY <1>2, <2>3
  <2>5. CASE i # 13 /\ NextLeaf /\ UNCHANGED <<j, cpuid_i, found>>
    <3>1. /\ pc' = "leaf" /\ i' = i + 1 /\ j' = j /\ cpuid_i' = cpuid_i /\ found' = found
      BY <2>5 DEF NextLeaf
    <3>2. Settled' = Settled + 1 /\ Settled' = cpuid_i
      BY <1>2, <3>1 DEF Settled
    <3>3. TypeOK' /\ InTable' /\ Progress' /\ LastFilled'
      BY <1>2, <2>1, <2>3, <3>1, Numbers DEF Inv, TypeOK, InTable, Progress, LastFilled
    <3>4. FreeSlots'
      BY <1>2, <2>3, <3>1 DEF Inv, FreeSlots
    <3>5. Earlier'
      <4> SUFFICES ASSUME NEW a \in 0 .. MAX - 1, a < cpuid_i PROVE entries'[a].fn < i + 1
        BY <3>1, <3>2 DEF Earlier
      <4>1. CASE a < Cur
        BY <1>2, <2>4, <4>1, Numbers
      <4>2. CASE a = Cur
        BY <2>2, <2>3, <4>2
      <4> QED BY <1>2, <4>1, <4>2
    <3>6. Ascending' /\ Covered'
      <4>1. pc # "full" /\ found' = found
        BY <1>1, <3>1
      <4>2. /\ Settled' = Settled + 1 /\ Settled \in 0 .. MAX - 1 /\ Settled \in Nat
            /\ entries'[Settled].fn = i /\ entries'[Settled].idx = j
        BY <1>2, <2>3, <3>2
      <4> QED BY <2>2, <2>4, <4>1, <4>2, Grow
    <3> QED BY <3>3, <3>4, <3>5, <3>6 DEF Inv
  <2>6. CASE i = 13 /\ j' = j + 1 /\ UNCHANGED <<pc, i, cpuid_i, found>>
    <3>1. Settled' = Settled /\ Cur' = Cur
      BY <1>1, <2>6 DEF Settled, Cur
    <3>2. TypeOK' /\ InTable' /\ Progress'
      BY <1>1, <1>2, <1>4, <2>1, <2>3, <2>6, Numbers DEF Inv, TypeOK, InTable, Progress
    <3>3. FreeSlots'
      BY <1>2, <2>3, <2>6 DEF Inv, FreeSlots
    <3>4. LastFilled'
      <4> SUFFICES ASSUME j + 1 = SubLeaves
                   PROVE  /\ entries'[Cur] = Entry(13, SubLeaves - 1, SIGNIFICANT_INDEX)
                          /\ \A a \in 0 .. MAX - 1 : a < Cur /\ entries'[a].fn = 13 =>
                               entries'[a].idx < SubLeaves - 1
        BY <2>6, <3>1 DEF LastFilled
      <4>1. j = SubLeaves - 1 /\ i = 13
        BY <2>6, Numbers
      <4>2. entries'[Cur] = Entry(13, SubLeaves - 1, SIGNIFICANT_INDEX)
        BY <2>3, <4>1
      <4>3. ASSUME NEW a \in 0 .. MAX - 1, a < Cur, entries'[a].fn = 13
            PROVE  entries'[a].idx < SubLeaves - 1
        BY <1>2, <2>4, <4>1, <4>3, Numbers
      <4> QED BY <4>2, <4>3
    <3>5. Earlier'
      <4> SUFFICES ASSUME NEW a \in 0 .. MAX - 1, a < Cur
                   PROVE  entries'[a].fn < i \/ (entries'[a].fn = i /\ entries'[a].idx < j + 1)
        BY <1>1, <1>2, <2>6, <3>1 DEF Earlier
      <4> QED BY <1>2, <2>4, Numbers
    <3>6. Ascending' /\ Covered'
      <4>1. pc # "full" /\ found' = found /\ Settled \in Nat
        BY <1>1, <1>2, <2>6
      <4> QED BY <2>2, <2>4, <3>1, <4>1, Grow
    <3> QED BY <3>2, <3>3, <3>4, <3>5, <3>6 DEF Inv
  <2>7. CASE /\ ~ (i = 13 /\ j = SubLeaves - 1)
             /\ found' = found \union {<<i, j>>}
             /\ cpuid_i = MAX /\ pc' = "full" /\ UNCHANGED <<i, j, cpuid_i>>
    <3>1. Settled' = Settled /\ Settled \in Nat
      BY <1>1, <1>2, <2>7 DEF Settled, Cur
    <3>2. found' \subseteq Nat \X Nat
      BY <2>2, <2>7 DEF Inv, TypeOK
    <3>3. TypeOK' /\ InTable' /\ Progress' /\ LastFilled' /\ Earlier'
      BY <2>1, <2>3, <2>7, <3>2, Numbers
         DEF Inv, TypeOK, InTable, Progress, LastFilled, Earlier
    <3>4. FreeSlots'
      BY <1>2, <2>3, <2>7 DEF Inv, FreeSlots
    <3>5. Ascending' /\ Covered'
      BY <2>2, <2>4, <2>7, <3>1, Grow
    <3> QED BY <3>3, <3>4, <3>5 DEF Inv
  <2>8. CASE /\ ~ (i = 13 /\ j = SubLeaves - 1)
             /\ found' = found \union {<<i, j>>}
             /\ cpuid_i # MAX /\ cpuid_i' = cpuid_i + 1 /\ j' = j + 1 /\ UNCHANGED <<pc, i>>
    <3>1. Settled' = Settled + 1 /\ Settled' = cpuid_i
      BY <1>1, <1>2, <2>8 DEF Settled, Cur
    <3>2. found' \subseteq Nat \X Nat
      BY <2>2, <2>8 DEF Inv, TypeOK
    <3>3. TypeOK' /\ InTable' /\ Progress'
      BY <1>1, <1>2, <1>4, <2>1, <2>3, <2>8, <3>2, Numbers
         DEF Inv, TypeOK, InTable, Progress
    <3>4. FreeSlots'
      BY <1>2, <2>3, <2>8 DEF Inv, FreeSlots
    <3>5. LastFilled'
      BY <2>8, Numbers DEF LastFilled
    <3>6. Earlier'
      <4> SUFFICES ASSUME NEW a \in 0 .. MAX - 1, a < cpuid_i
                   PROVE  entries'[a].fn < i \/ (entries'[a].fn = i /\ entries'[a].idx < j + 1)
        BY <1>1, <2>8, <3>1 DEF Earlier
      <4>1. a < Cur \/ a = Cur
        BY <1>2
      <4> QED BY <1>2, <2>3, <2>4, <4>1, Numbers
    <3>7. Ascending' /\ Covered'
      <4>1. pc # "full" /\ found' = found \union {<<i, j>>} /\ Settled' = Settled + 1
        BY <1>1, <2>8, <3>1
      <4>2. /\ Settled \in 0 .. MAX - 1 /\ Settled \in Nat
            /\ entries'[Settled].fn = i /\ entries'[Settled].idx = j
        BY <1>2, <2>3
      <4> QED BY <2>2, <2>4, <4>1, <4>2, Grow
    <3> QED BY <3>3, <3>4, <3>5, <3>6, <3>7 DEF Inv
  <2> QED BY <1>4, <2>5, <2>6, <2>7, <2>8 DEF SubLeaf
<1> QED BY <1>3, <1>4 DEF SubLeaf

LEMMA TimesLeafInv == ASSUME Inv, TimesLeaf PROVE Inv'
<1>1. pc = "times" /\ Settled = cpuid_i
  BY DEF TimesLeaf, Settled
<1>2. CASE j > times /\ NextLeaf /\ UNCHANGED <<j, times, limit, cpuid_i, entries, found>>
  <2>1. Settled' = cpuid_i /\ pc' = "leaf" /\ i' = i + 1
    BY <1>2 DEF Settled, NextLeaf
  <2>2. TypeOK' /\ InTable' /\ Progress' /\ FreeSlots' /\ LastFilled'
    BY <1>1, <1>2, <2>1, Numbers DEF Inv, TypeOK, InTable, Progress, FreeSlots, LastFilled
  <2>3. Earlier'
    <3> SUFFICES ASSUME NEW a \in 0 .. MAX - 1, a < cpuid_i PROVE entries[a].fn < i + 1
      BY <1>2, <2>1 DEF Earlier
    <3>1. entries[a].fn < i \/ entries[a].fn = i
      BY <1>1 DEF Inv, Earlier
    <3> QED BY <3>1, Numbers
  <2>4. Ascending' /\ Covered'
    BY <1>1, <1>2, <2>1 DEF Inv, Ascending, Covered
  <2> QED BY <2>2, <2>3, <2>4 DEF Inv
<1>3. CASE j <= times /\ cpuid_i = MAX /\ GivesUp
  BY <1>3, GivesUpInv
<1>4. CASE /\ j <= times /\ cpuid_i # MAX
           /\ entries' = [entries EXCEPT ![cpuid_i] = Entry(i, j, SIGNIFICANT_INDEX)]
           /\ cpuid_i' = cpuid_i + 1 /\ j' = j + 1
           /\ found' = found \union {<<i, j>>}
           /\ UNCHANGED <<pc, i, times, limit>>
  <2>1. /\ cpuid_i \in 0 .. MAX - 1 /\ cpuid_i \in Nat /\ SIGNIFICANT_INDEX \in 0 .. 1
        /\ i \in Nat /\ j \in Nat
    BY <1>4, Numbers DEF SIGNIFICANT_INDEX
  <2>2. /\ entries' \in [0 .. MAX - 1 -> [fn : Nat, idx : Nat, flags : 0 .. 1]]
        /\ entries'[cpuid_i].fn = i /\ entries'[cpuid_i].idx = j
        /\ \A a \in 0 .. MAX - 1 : a # cpuid_i => entries'[a] = entries[a]
    BY <1>4, <2>1, StoreType
  <2>3. \A a \in 0 .. MAX - 1 : a < cpuid_i =>
          /\ entries'[a] = entries[a]
          /\ entries[a].fn < i \/ (entries[a].fn = i /\ entries[a].idx < j)
    BY <1>1, <2>1, <2>2 DEF Inv, Earlier
  <2>4. Settled' = cpuid_i'
    BY <1>1, <1>4 DEF Settled
  <2>5. found' \subseteq Nat \X Nat
    BY <1>4, <2>1 DEF Inv, TypeOK
  <2>6. TypeOK' /\ InTable' /\ Progress' /\ LastFilled'
    BY <1>1, <1>4, <2>1, <2>2, <2>5, Numbers DEF Inv, TypeOK, InTable, Progress, LastFilled
  <2>7. FreeSlots'
    BY <1>4, <2>1, <2>2 DEF Inv, FreeSlots
  <2>8. Earlier'
    <3> SUFFICES ASSUME NEW a \in 0 .. MAX - 1, a < cpuid_i + 1
                 PROVE  entries'[a].fn < i \/ (entries'[a].fn = i /\ entries'[a].idx < j + 1)
      BY <1>1, <1>4, <2>4 DEF Earlier
    <3>1. CASE a < cpuid_i
      BY <2>3, <3>1, Numbers
    <3>2. CASE a = cpuid_i
      BY <2>1, <2>2, <3>2
    <3> QED BY <2>1, <3>1, <3>2
  <2>9. Ascending' /\ Covered'
    <3>1. pc # "full" /\ found' = found \union {<<i, j>>} /\ Settled' = Settled + 1
      BY <1>1, <1>4, <2>4
    <3>2. /\ Settled \in 0 .. MAX - 1 /\ Settled \in Nat
          /\ entries'[Settled].fn = i /\ entries'[Settled].idx = j
      BY <1>1, <2>1, <2>2
    <3>3. \A a \in 0 .. MAX - 1 : a < Settled =>
            /\ entries'[a] = entries[a]
            /\ entries[a].fn < i \/ (entries[a].fn = i /\ entries[a].idx < j)
      BY <1>1, <2>3
    <3> QED BY <2>1, <3>1, <3>2, <3>3, Grow
  <2> QED BY <2>6, <2>7, <2>8, <2>9 DEF Inv
<1> QED BY <1>2, <1>3, <1>4 DEF TimesLeaf

\* The extended leaves come after every basic one.
LEMMA BasicDoneInv == ASSUME Inv, BasicDone PROVE Inv'
<1>1. /\ pc = "leaf" /\ pc' = "ext" /\ i' = ExtBase /\ limit' \in ExtLimits
      /\ j' = j /\ times' = times /\ cpuid_i' = cpuid_i /\ entries' = entries /\ found' = found
  BY DEF BasicDone
<1>2. Settled = cpuid_i /\ Settled' = cpuid_i
  BY <1>1 DEF Settled
<1>3. i <= ExtBase
  <2>1. limit \in Limits /\ i <= limit + 1
    BY <1>1 DEF Inv, Progress
  <2>2. limit < ExtBase
    BY <2>1, TableAssumption
  <2> QED BY <2>1, <2>2, Numbers
<1>4. TypeOK' /\ InTable' /\ Progress' /\ FreeSlots' /\ LastFilled'
  BY <1>1, TableAssumption, Numbers
     DEF Inv, TypeOK, InTable, Progress, FreeSlots, LastFilled
<1>5. Earlier'
  <2> SUFFICES ASSUME NEW a \in 0 .. MAX - 1, a < cpuid_i PROVE entries[a].fn < ExtBase
    BY <1>1, <1>2 DEF Earlier
  <2>1. entries[a].fn < i
    BY <1>1, <1>2 DEF Inv, Earlier
  <2> QED BY <1>3, <2>1, Numbers
<1>6. Ascending' /\ Covered'
  BY <1>1, <1>2 DEF Inv, Ascending, Covered
<1> QED BY <1>4, <1>5, <1>6 DEF Inv

LEMMA ExtLeafInv == ASSUME Inv, ExtLeaf PROVE Inv'
<1>1. CASE GivesUp
  BY <1>1, GivesUpInv
<1>2. CASE cpuid_i # MAX /\ PlainLeaf
  BY <1>2, PlainLeafInv DEF ExtLeaf
<1> QED BY <1>1, <1>2 DEF ExtLeaf

LEMMA SubmitInv == ASSUME Inv, Submit PROVE Inv'
<1>1. /\ pc = "ext" /\ pc' = "done" /\ i' = i /\ j' = j /\ times' = times /\ limit' = limit
      /\ cpuid_i' = cpuid_i /\ entries' = entries /\ found' = found
  BY DEF Submit
<1>2. Settled = cpuid_i /\ Settled' = cpuid_i
  BY <1>1 DEF Settled
<1>3. TypeOK' /\ InTable' /\ Progress' /\ FreeSlots' /\ LastFilled' /\ Earlier'
  BY <1>1, Numbers DEF Inv, TypeOK, InTable, Progress, FreeSlots, LastFilled, Earlier
<1>4. Ascending' /\ Covered'
  BY <1>1, <1>2 DEF Inv, Ascending, Covered
<1> QED BY <1>3, <1>4 DEF Inv

LEMMA InvHolds == Spec => []Inv
<1>1. Inv /\ UNCHANGED vars => Inv'
  <2> SUFFICES ASSUME Inv, UNCHANGED vars PROVE Inv'
    OBVIOUS
  <2>1. Settled' = Settled /\ Cur' = Cur
    BY DEF vars, Settled, Cur
  <2>2. TypeOK' /\ InTable' /\ Progress' /\ FreeSlots' /\ LastFilled'
    BY <2>1 DEF vars, Inv, TypeOK, InTable, Progress, FreeSlots, LastFilled
  <2>3. Earlier' /\ Ascending' /\ Covered'
    BY <2>1 DEF vars, Inv, Earlier, Ascending, Covered
  <2> QED BY <2>2, <2>3 DEF Inv
<1>2. Inv /\ Next => Inv'
  BY BasicLeafInv, SubLeafInv, TimesLeafInv, BasicDoneInv, ExtLeafInv, SubmitInv DEF Next
<1> QED BY InitInv, <1>1, <1>2, PTL DEF Spec

\* vm_init_cpuid never claims a slot beyond the table, for every table size and host.
THEOREM TableBounded == Spec => []InTable
<1>1. Inv => InTable
  BY DEF Inv
<1> QED BY InvHolds, <1>1, PTL

\* The final slots are always in strict order of (function, index): no query has two
\* answers, and no slot that was given back or never filled is among them.
THEOREM TableOrdered == Spec => []Ascending
<1>1. Inv => Ascending
  BY DEF Inv
<1> QED BY InvHolds, <1>1, PTL

\* When KVM_SET_CPUID2 gets the table, every non-empty answer of the host is in it.
THEOREM TableComplete == Spec => []Complete
<1>1. Inv => Complete
  <2> SUFFICES ASSUME Inv, pc = "done", NEW k \in found
               PROVE  \E a \in 0 .. cpuid_i - 1 : Key(entries[a]) = k
    BY DEF Complete
  <2>1. Settled = cpuid_i
    BY DEF Settled
  <2>2. PICK a \in 0 .. MAX - 1 : a < Settled /\ Key(entries[a]) = k
    BY DEF Inv, Covered
  <2>3. a \in 0 .. cpuid_i - 1
    BY <2>1, <2>2, Numbers
  <2> QED BY <2>2, <2>3
<1> QED BY InvHolds, <1>1, PTL
===============================================================================
