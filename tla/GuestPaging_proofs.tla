-------------------------- MODULE GuestPaging_proofs --------------------------
(***************************************************************************)
(* The tables that page64.S builds: every walk reads cleared tables, user  *)
(* mode reaches nothing of the system, and every mapping, those announced  *)
(* in the comments among them, leads to memory or a device.  The invariant *)
(* says which stores of the listing are done; what each of them means for  *)
(* a walk is established once, level by level.                             *)
(***************************************************************************)
EXTENDS GuestPaging, Integers, TLAPS

------------------------------------------------------------------------------
(* The listing, store by store *)

\* Store m, by the part of the listing it is in.
Row(m) ==
  IF m <= 19 THEN TableStores[m]
  ELSE IF m <= 36 THEN <<\h205, m - 11, m - 11, U>>
  ELSE IF m = 37 THEN <<\h205, \h20, \h20, U>>
  ELSE PageStores[m - 37]

LEMMA SeqOf == ASSUME NEW S, NEW N \in Nat, NEW f \in [1 .. N -> S] PROVE f \in Seq(S)
OBVIOUS

LEMMA ConcatThree ==
  ASSUME NEW S, NEW a \in Seq(S), NEW b \in Seq(S), NEW c \in Seq(S), NEW m \in Nat \ {0},
         m <= Len(a) + Len(b) + Len(c)
  PROVE  (a \o b \o c)[m] = IF m <= Len(a) THEN a[m] ELSE IF m <= Len(a) + Len(b) THEN b[m - Len(a)]
                            ELSE c[m - (Len(a) + Len(b))]
<1> DEFINE d == a \o b
<1>1. d \in Seq(S) /\ Len(d) = Len(a) + Len(b)
  OBVIOUS
<1>2. \A j \in 1 .. Len(a) + Len(b) : d[j] = IF j <= Len(a) THEN a[j] ELSE b[j - Len(a)]
  OBVIOUS
<1> HIDE DEF d
<1>3. (d \o c)[m] = IF m <= Len(d) THEN d[m] ELSE c[m - Len(d)]
  BY <1>1
<1> QED BY <1>1, <1>2, <1>3 DEF d

LEMMA StoresAre == Len(Stores) = 47 /\ \A m \in 1 .. 47 : Stores[m] = Row(m)
<1>1. CodeStores = [j \in 1 .. 18 |-> IF j <= 17 THEN <<\h205, j + 8, j + 8, U>> ELSE <<\h205, \h20, \h20, U>>]
  BY SMT DEF CodeStores
<1>2. Len(TableStores) = 19 /\ Len(CodeStores) = 18 /\ Len(PageStores) = 10
  BY SMT DEF TableStores, CodeStores, PageStores
<1>3. Len(Stores) = 47
  BY SMT, <1>2 DEF Stores, TableStores, CodeStores, PageStores
<1> DEFINE S == Nat \X Nat \X Nat \X {U, K, BigU, BigK, U \ {"P"}, BigU \ {"P"}}
<1>4. TableStores \in Seq(S)
  <2>1. \A j \in 1 .. 19 : TableStores[j] \in S
    BY SMT DEF TableStores
  <2>2. TableStores = [j \in 1 .. 19 |-> TableStores[j]]
    BY SMT DEF TableStores
  <2> HIDE DEF S
  <2>3. TableStores \in [1 .. 19 -> S]
    BY SMT, <2>1, <2>2
  <2>4. 19 \in Nat
    OBVIOUS
  <2> QED BY Zenon, <2>3, <2>4, SeqOf
<1>6. PageStores \in Seq(S)
  <2>1. \A j \in 1 .. 10 : PageStores[j] \in S
    BY SMT DEF PageStores
  <2>2. PageStores = [j \in 1 .. 10 |-> PageStores[j]]
    BY SMT DEF PageStores
  <2> HIDE DEF S
  <2>3. PageStores \in [1 .. 10 -> S]
    BY SMT, <2>1, <2>2
  <2>4. 10 \in Nat
    OBVIOUS
  <2> QED BY Zenon, <2>3, <2>4, SeqOf
<1>7. CodeStores \in Seq(S)
  <2>1. \A j \in 1 .. 18 : CodeStores[j] \in S
    BY SMT, <1>1
  <2> HIDE DEF S
  <2>3. CodeStores \in [1 .. 18 -> S]
    BY SMT, <1>1, <2>1
  <2>4. 18 \in Nat
    OBVIOUS
  <2> QED BY Zenon, <2>3, <2>4, SeqOf
<1>8. ASSUME NEW m \in 1 .. 47
      PROVE Stores[m] = IF m <= 19 THEN TableStores[m] ELSE IF m <= 37 THEN CodeStores[m - 19] ELSE PageStores[m - 37]
  <2> HIDE DEF S
  <2>1. m \in Nat \ {0} /\ m <= Len(TableStores) + Len(CodeStores) + Len(PageStores)
    BY SMT, <1>2
  <2>2. (TableStores \o CodeStores \o PageStores)[m] =
          IF m <= Len(TableStores) THEN TableStores[m]
          ELSE IF m <= Len(TableStores) + Len(CodeStores) THEN CodeStores[m - Len(TableStores)]
          ELSE PageStores[m - (Len(TableStores) + Len(CodeStores))]
    BY Zenon, <1>4, <1>6, <1>7, <2>1, ConcatThree
  <2> QED BY SMT, <1>2, <2>2 DEF Stores
<1>5. ASSUME NEW m \in 20 .. 37 PROVE CodeStores[m - 19] = Row(m)
  BY SMT, <1>1 DEF Row
<1> QED BY SMT, <1>3, <1>8, <1>5 DEF Row

\* The flags of a store, and the tables of each level as the listing lays them out.
US(s) == "US" \in s[4]
PS(s) == "PS" \in s[4]
Below4 == {\h201, \h202, \h300}
Below3 == {\h203, \h204, \h209, \h301, \h302}
Below2 == {\h205, \h206, \h207, \h208, \h303}
Code == 9 .. \h19 \union {\h20, \hB8, \hB9}

\* What a present entry of each table says.
Means(s) ==
  /\ s[1] \in {\h200} \union Below4 \union Below3 \union Below2
  /\ s[1] = \h200 => s[3] \in Below4 /\ (US(s) <=> s[3] # \h202) /\ ~PS(s)
  /\ s[1] \in Below4 => s[3] \in Below3 /\ ~PS(s) /\ (s[1] # \h202 => s[3] \notin {\h204, \h209})
  /\ s[1] \in Below3 =>
       IF PS(s) THEN s[3] \in {\h200, \h8000, \hFEE00, \hA00} /\ (US(s) => s[3] = \h8000)
       ELSE s[3] \in Below2 /\ (US(s) /\ s[1] # \h204 => s[3] \in {\h205, \h303})
  /\ s[1] \in Below2 =>
       /\ ~PS(s)
       /\ s[1] = \h205 => s[3] \in Code
       /\ s[1] \in {\h206, \h208} => s[3] \in SystemData
       /\ s[1] = \h303 => s[3] \in \h414 .. \h417
       /\ s[1] # \h207

LEMMA FlagsAre == /\ U = {"RW", "US", "P"} /\ K = {"RW", "P"}
                  /\ BigU = {"RW", "US", "P", "PS"} /\ BigK = {"RW", "P", "PS"}
BY SMT DEF U, K, BigU, BigK

LEMMA RowsMean == \A m \in 1 .. 47 : "P" \in Row(m)[4] => Means(Row(m))
<1> USE DEF Means, US, PS, Below4, Below3, Below2, Code, SystemData
<1>1. ASSUME NEW m \in 1 .. 19, "P" \in TableStores[m][4] PROVE Means(TableStores[m])
  BY SMTT(60), <1>1, FlagsAre DEF TableStores
<1>2. ASSUME NEW m \in 1 .. 10, "P" \in PageStores[m][4] PROVE Means(PageStores[m])
  BY SMTT(60), <1>2, FlagsAre DEF PageStores
<1>3. ASSUME NEW m \in 9 .. 25 \union {32} PROVE Means(<<\h205, m, m, U>>)
  BY SMTT(60), FlagsAre
<1> QED BY SMT, <1>1, <1>2, <1>3 DEF Row

\* No entry is stored twice.
LEMMA RowsDiffer == \A l, m \in 1 .. 47 : Row(l)[1] = Row(m)[1] /\ Row(l)[2] = Row(m)[2] => l = m
<1>1. \A l, m \in 1 .. 19 : TableStores[l][1] = TableStores[m][1] /\ TableStores[l][2] = TableStores[m][2] => l = m
  BY SMTT(100) DEF TableStores
<1>2. \A l, m \in 1 .. 10 : PageStores[l][1] = PageStores[m][1] /\ PageStores[l][2] = PageStores[m][2] => l = m
  BY SMTT(100) DEF PageStores
<1>3. \A m \in 1 .. 19 : TableStores[m][1] = \h205 => TableStores[m][2] = 1
  BY SMTT(60) DEF TableStores
<1>4. \A m \in 1 .. 19 : TableStores[m][1] \notin {\h206, \h208, \h303}
  BY SMTT(60) DEF TableStores
<1>5. \A m \in 1 .. 10 : /\ PageStores[m][1] \in {\h205, \h206, \h208, \h303}
                         /\ PageStores[m][1] = \h205 => PageStores[m][2] \in {\hB8, \hB9}
  BY SMTT(60) DEF PageStores
<1>6. ASSUME NEW l \in 1 .. 47, NEW m \in 1 .. 47, l < m, Row(l)[1] = Row(m)[1], Row(l)[2] = Row(m)[2]
      PROVE  FALSE
  <2>0. l \in Int /\ m \in Int
    OBVIOUS
  <2>1. /\ \A j \in 1 .. 19 : Row(j) = TableStores[j]
        /\ \A j \in 20 .. 37 : Row(j)[1] = \h205 /\ Row(j)[2] = IF j = 37 THEN \h20 ELSE j - 11
        /\ \A j \in 38 .. 47 : Row(j) = PageStores[j - 37]
    BY SMT DEF Row
  <2>2. CASE l \in 1 .. 19 /\ m \in 1 .. 19
    <3>1. Row(l) = TableStores[l] /\ Row(m) = TableStores[m]
      BY SMT, <2>1, <2>2
    <3>2. l = m
      BY Zenon, <1>1, <1>6, <2>2, <3>1
    <3> QED BY SMT, <1>6, <2>0, <3>2
  <2>3. CASE l \in 1 .. 19 /\ m \in 20 .. 37
    <3>1. Row(l) = TableStores[l] /\ Row(m)[1] = \h205 /\ Row(m)[2] \in 9 .. 32
      BY SMT, <2>1, <2>3
    <3>2. Row(l)[1] = \h205 => Row(l)[2] = 1
      BY SMT, <1>3, <2>3, <3>1
    <3> QED BY SMT, <1>6, <3>1, <3>2
  <2>4. CASE l \in 1 .. 19 /\ m \in 38 .. 47
    <3>1. m - 37 \in 1 .. 10
      BY SMT, <2>4
    <3>2. /\ Row(m)[1] \in {\h205, \h206, \h208, \h303} /\ (Row(m)[1] = \h205 => Row(m)[2] \in {\hB8, \hB9})
          /\ Row(l)[1] \notin {\h206, \h208, \h303} /\ (Row(l)[1] = \h205 => Row(l)[2] = 1)
      BY SMT, <1>3, <1>4, <1>5, <2>1, <2>4, <3>1
    <3> QED BY SMT, <1>6, <3>2
  <2>5. CASE l \in 20 .. 37 /\ m \in 20 .. 37
    BY SMT, <1>6, <2>1, <2>5
  <2>6. CASE l \in 20 .. 37 /\ m \in 38 .. 47
    <3>1. m - 37 \in 1 .. 10
      BY SMT, <2>6
    <3>2. Row(m)[1] = \h205 => Row(m)[2] \in {\hB8, \hB9}
      BY SMT, <1>5, <2>1, <2>6, <3>1
    <3>3. Row(l)[1] = \h205 /\ Row(l)[2] \in 9 .. 32
      BY SMT, <2>1, <2>6
    <3> QED BY SMT, <1>6, <3>2, <3>3
  <2>7. CASE l \in 38 .. 47 /\ m \in 38 .. 47
    <3>1. l - 37 \in 1 .. 10 /\ m - 37 \in 1 .. 10
      BY SMT, <2>7
    <3>2. l - 37 = m - 37
      BY SMT, <1>2, <1>6, <2>1, <2>7, <3>1
    <3> QED BY SMT, <1>6, <2>0, <3>2
  <2> QED BY SMT, <1>6, <2>2, <2>3, <2>4, <2>5, <2>6, <2>7
<1>7. \A l, m \in 1 .. 47 : l < m \/ m < l \/ l = m
  BY SMT
<1> QED BY Zenon, <1>6, <1>7

------------------------------------------------------------------------------
(* Which stores are done *)

\* The place store m fills; after j stores exactly the first j places are filled.
Key(m) == <<Row(m)[1], Row(m)[2]>>
Filled(j) ==
  /\ DOMAIN entry = {Key(m) : m \in 1 .. j}
  /\ \A m \in 1 .. j : entry[Key(m)] = [frame |-> Row(m)[3], flags |-> Row(m)[4]]

\* Nothing is stored before all is cleared, and then the stores are those of the listing.
PagingInv ==
  /\ pc \in {"cr4", "pae", "init", "clear", "store", "switch", "long", "fault"}
  /\ pc \in {"cr4", "pae", "init", "clear"} => DOMAIN entry = {}
  /\ pc \in {"cr4", "pae", "init"} => k = 1
  /\ pc = "clear" => k \in 1 .. 23 /\ \A m \in 1 .. k - 1 : Clears[m] \in cleared
  /\ pc = "store" => k \in 1 .. 47 /\ TableFrames \subseteq cleared /\ Filled(k - 1)
  /\ pc \in {"switch", "long", "fault"} => DOMAIN entry = {} \/ (TableFrames \subseteq cleared /\ Filled(47))
  /\ pc = "long" => DOMAIN entry # {}

LEMMA ClearsAre ==
  /\ Len(Clears) = 23
  /\ \A m \in 1 .. 15 : Clears[m] = \h200 + m - 1
  /\ \A m \in 19 .. 23 : Clears[m] = \h300 + m - 19
<1>1. Len(Clears) = 23
  BY SMT DEF Clears
<1>2. \A m \in 1 .. 15 : Clears[m] = \h200 + m - 1
  BY SMT DEF Clears
<1>3. \A m \in 19 .. 23 : Clears[m] = \h300 + m - 19
  BY SMT DEF Clears
<1> QED BY Zenon, <1>1, <1>2, <1>3

\* The clearing loops together cover every frame used as a table.
LEMMA AllCleared ==
  ASSUME NEW S, \A m \in 1 .. 23 : Clears[m] \in S
  PROVE  TableFrames \subseteq S
<1> SUFFICES ASSUME NEW f \in TableFrames PROVE f \in S
  BY SMT
<1>1. CASE f \in \h200 .. \h209
  <2>1. f - \h1FF \in 1 .. 15 /\ f - \h1FF \in 1 .. 23 /\ \h200 + (f - \h1FF) - 1 = f
    BY SMT, <1>1
  <2> QED BY SMT, <2>1, ClearsAre
<1>2. CASE f \in \h300 .. \h303
  <2>1. f - \h2ED \in 19 .. 23 /\ f - \h2ED \in 1 .. 23 /\ \h300 + (f - \h2ED) - 19 = f
    BY SMT, <1>2
  <2> QED BY SMT, <2>1, ClearsAre
<1> QED BY SMT, <1>1, <1>2 DEF TableFrames

LEMMA EmptyMapsNothing == DOMAIN entry = {} => Mappings = {} /\ Level4 = {} /\ Level3 = {} /\ Level2 = {}
<1> SUFFICES ASSUME DOMAIN entry = {} PROVE Mappings = {} /\ Level4 = {} /\ Level3 = {} /\ Level2 = {}
  BY SMT
<1>1. \A t : Present(t) = {}
  BY SMT DEF Present
<1>2. \A L : Below(L) = {}
  BY SMT, <1>1 DEF Below
<1>3. Level4 = {}
  BY SMT, <1>1 DEF Level4
<1> QED BY SMT, <1>2, <1>3 DEF Level3, Level2, Level1, Mappings

LEMMA PagingInit == Init => PagingInv
BY SMT DEF Init, PagingInv

LEMMA ClearStep == PagingInv /\ clear_4K_page => PagingInv'
<1> SUFFICES ASSUME PagingInv, clear_4K_page PROVE PagingInv'
  BY SMT
<1>1. pc = "clear" /\ DOMAIN entry = {} /\ k \in 1 .. 23 /\ \A m \in 1 .. k - 1 : Clears[m] \in cleared
  BY SMT DEF PagingInv, clear_4K_page
<1>2. cleared' = cleared \union {Clears[k]} /\ DOMAIN entry' = {}
  BY SMT, <1>1 DEF clear_4K_page
<1>3. \A m \in 1 .. k : Clears[m] \in cleared'
  BY SMT, <1>1, <1>2
<1>4. CASE k # 23
  <2>1. pc' = "clear" /\ k' = k + 1
    BY SMT, <1>1, <1>4, ClearsAre DEF clear_4K_page
  <2>2. k' \in 1 .. 23 /\ k' - 1 = k
    BY SMT, <1>1, <1>4, <2>1
  <2> QED BY SMT, <1>2, <1>3, <2>1, <2>2 DEF PagingInv
<1>5. CASE k = 23
  <2>1. pc' = "store" /\ k' = 1
    BY SMT, <1>1, <1>5, ClearsAre DEF clear_4K_page
  <2>2. TableFrames \subseteq cleared'
    BY SMT, <1>3, <1>5, AllCleared
  <2>3. Filled(k - 1)'
    <3>1. k' - 1 = 0 /\ 1 .. 0 = {}
      BY SMT, <2>1
    <3> QED BY SMT, <1>2, <3>1 DEF Filled
  <2> QED BY SMT, <2>1, <2>2, <2>3 DEF PagingInv
<1> QED BY SMT, <1>4, <1>5

LEMMA StoreStep == PagingInv /\ Store => PagingInv'
<1> SUFFICES ASSUME PagingInv, Store PROVE PagingInv'
  BY SMT
<1>1. pc = "store" /\ k \in 1 .. 47 /\ TableFrames \subseteq cleared /\ Filled(k - 1) /\ cleared' = cleared
  BY SMT DEF PagingInv, Store
<1> DEFINE e == [frame |-> Row(k)[3], flags |-> Row(k)[4]]
<1>2. entry' = [p \in DOMAIN entry \union {Key(k)} |-> IF p = Key(k) THEN e ELSE entry[p]]
  <2>1. Stores[k] = Row(k)
    BY SMT, <1>1, StoresAre
  <2> QED BY Zenon, <2>1 DEF Store, Key
<1>3. \A m \in 1 .. k - 1 : Key(m) # Key(k)
  <2> SUFFICES ASSUME NEW m \in 1 .. k - 1, Key(m) = Key(k) PROVE FALSE
    BY SMT
  <2>1. m \in 1 .. 47 /\ m # k
    BY SMT, <1>1
  <2>2. Row(m)[1] = Row(k)[1] /\ Row(m)[2] = Row(k)[2]
    BY SMT DEF Key
  <2> QED BY Zenon, <1>1, <2>1, <2>2, RowsDiffer
<1>4. DOMAIN entry = {Key(m) : m \in 1 .. k - 1} /\ \A m \in 1 .. k - 1 : entry[Key(m)] = [frame |-> Row(m)[3], flags |-> Row(m)[4]]
  BY Zenon, <1>1 DEF Filled
<1>5. DOMAIN entry' = {Key(m) : m \in 1 .. k}
  <2>1. DOMAIN entry' = DOMAIN entry \union {Key(k)}
    BY SMT, <1>2
  <2>2. \A m : m \in 1 .. k <=> m \in 1 .. k - 1 \/ m = k
    BY SMT, <1>1
  <2> QED BY SMT, <1>4, <2>1, <2>2
<1>6. ASSUME NEW m \in 1 .. k PROVE entry'[Key(m)] = [frame |-> Row(m)[3], flags |-> Row(m)[4]]
  <2>1. CASE m = k
    <3>1. entry'[Key(k)] = e
      BY SMT, <1>2
    <3> QED BY SMT, <2>1, <3>1
  <2>2. CASE m # k
    <3>1. m \in 1 .. k - 1
      BY SMT, <1>1, <2>2
    <3>2. Key(m) \in DOMAIN entry /\ Key(m) # Key(k)
      BY SMT, <1>3, <1>4, <3>1
    <3> HIDE DEF e
    <3>3. entry'[Key(m)] = entry[Key(m)]
      BY SMT, <1>2, <3>2
    <3> QED BY Zenon, <1>4, <3>1, <3>3
  <2> QED BY SMT, <2>1, <2>2
<1>7. CASE k # 47
  <2>1. pc' = "store" /\ k' = k + 1
    BY SMT, <1>1, <1>7, StoresAre DEF Store
  <2>2. k' \in 1 .. 47 /\ k' - 1 = k
    BY SMT, <1>1, <1>7, <2>1
  <2>3. Filled(k - 1)'
    BY Zenon, <1>5, <1>6, <2>2 DEF Filled
  <2> QED BY SMT, <1>1, <2>1, <2>2, <2>3 DEF PagingInv
<1>8. CASE k = 47
  <2>1. pc' = "switch"
    BY SMT, <1>1, <1>8, StoresAre DEF Store
  <2>2. Filled(47)'
    BY Zenon, <1>5, <1>6, <1>8 DEF Filled
  <2> QED BY SMT, <1>1, <2>1, <2>2 DEF PagingInv
<1> QED BY SMT, <1>7, <1>8

LEMMA PagingStep == PagingInv /\ [Next]_vars => PagingInv'
<1> SUFFICES ASSUME PagingInv, [Next]_vars PROVE PagingInv'
  BY SMT
<1>1. CASE SetCr4 \/ pae_enable \/ init_paging
  <2>1. UNCHANGED <<k, cleared, entry>> /\ pc \in {"cr4", "pae", "init"} /\ pc' \in {"pae", "fault", "init", "clear", "switch"}
    BY SMT, <1>1 DEF SetCr4, pae_enable, init_paging
  <2>2. DOMAIN entry = {} /\ k = 1
    BY SMT, <2>1 DEF PagingInv
  <2> QED BY SMT, <2>1, <2>2 DEF PagingInv
<1>2. CASE EnterLongMode
  <2>1. UNCHANGED <<k, cleared, entry>> /\ pc = "switch" /\ pc' \in {"long", "fault"}
    BY SMT, <1>2 DEF EnterLongMode
  <2>2. pc' = "long" => Mappings # {}
    BY SMT, <1>2 DEF EnterLongMode
  <2>3. pc' = "long" => DOMAIN entry # {}
    BY SMT, <2>2, EmptyMapsNothing
  <2>4. DOMAIN entry = {} \/ (TableFrames \subseteq cleared /\ Filled(47))
    BY SMT, <2>1 DEF PagingInv
  <2>5. Filled(47) => Filled(47)'
    BY SMT, <2>1 DEF Filled
  <2> QED BY SMT, <2>1, <2>3, <2>4, <2>5 DEF PagingInv
<1>3. CASE UNCHANGED vars
  <2>1. UNCHANGED <<pc, k, cleared, entry>>
    BY SMT, <1>3 DEF vars
  <2>2. (Filled(47) => Filled(47)') /\ (Filled(k - 1) => Filled(k - 1)')
    BY Zenon, <2>1 DEF Filled
  <2> QED BY SMT, <2>1, <2>2 DEF PagingInv
<1> QED BY SMT, <1>1, <1>2, <1>3, ClearStep, StoreStep DEF Next

------------------------------------------------------------------------------
(* What a walk meets *)

\* Every present entry is one of the listing, with what that says.
LEMMA EntriesMean ==
  ASSUME PagingInv, NEW t, NEW p \in Present(t)
  PROVE  \E m \in 1 .. 47 :
           /\ Means(Row(m)) /\ Row(m)[1] = t /\ p[2] = Row(m)[2]
           /\ entry[p].frame = Row(m)[3] /\ entry[p].flags = Row(m)[4]
<1>1. p \in DOMAIN entry /\ p[1] = t /\ "P" \in entry[p].flags
  BY SMT DEF Present
<1>2. PICK j \in 0 .. 47 : Filled(j)
  <2>1. CASE pc = "store"
    <3>1. Filled(k - 1) /\ k - 1 \in 0 .. 47
      BY SMT, <2>1 DEF PagingInv
    <3> QED BY Zenon, <3>1
  <2>2. CASE pc # "store"
    <3>1. Filled(47) /\ 47 \in 0 .. 47
      BY SMT, <1>1, <2>2 DEF PagingInv
    <3> QED BY Zenon, <3>1
  <2> QED BY SMT, <2>1, <2>2
<1>3. PICK m \in 1 .. j : p = Key(m)
  BY SMT, <1>1, <1>2 DEF Filled
<1>4. entry[p] = [frame |-> Row(m)[3], flags |-> Row(m)[4]]
  BY Zenon, <1>2, <1>3 DEF Filled
<1>5. entry[p].frame = Row(m)[3] /\ entry[p].flags = Row(m)[4]
  BY SMT, <1>4
<1>6. p[1] = Row(m)[1] /\ p[2] = Row(m)[2] /\ m \in 1 .. 47
  BY SMT, <1>2, <1>3 DEF Key
<1>7. Means(Row(m))
  BY SMT, <1>1, <1>5, <1>6, RowsMean
<1> QED BY Zenon, <1>1, <1>5, <1>6, <1>7

LEMMA Level4Means ==
  ASSUME PagingInv, NEW e \in Level4
  PROVE  e.frame \in Below4 /\ ~e.big /\ (e.user => e.frame # \h202)
<1>1. PICK p \in Present(PML4T_BASE) :
        e = [path |-> <<p[2]>>, frame |-> entry[p].frame, user |-> "US" \in entry[p].flags, big |-> FALSE]
  BY SMT DEF Level4
<1>2. e.frame = entry[p].frame /\ ~e.big /\ (e.user <=> "US" \in entry[p].flags)
  BY Zenon, <1>1
<1>3. PICK m \in 1 .. 47 : Means(Row(m)) /\ Row(m)[1] = PML4T_BASE /\ entry[p].frame = Row(m)[3] /\ entry[p].flags = Row(m)[4]
  BY SMT, EntriesMean
<1> QED BY SMT, <1>2, <1>3 DEF Means, US, PML4T_BASE

LEMMA BelowMeans ==
  ASSUME PagingInv, NEW L, NEW e \in Below(L)
  PROVE  \E f \in L : \E m \in 1 .. 47 :
           /\ ~f.big /\ Means(Row(m)) /\ Row(m)[1] = f.frame /\ e.frame = Row(m)[3]
           /\ e.user <=> f.user /\ US(Row(m))
           /\ e.big <=> PS(Row(m))
<1>1. PICK f \in L : ~f.big /\ \E p \in Present(f.frame) :
        e = [path |-> Append(f.path, p[2]), frame |-> entry[p].frame,
             user |-> f.user /\ "US" \in entry[p].flags, big |-> "PS" \in entry[p].flags]
  BY SMT DEF Below
<1>2. PICK p \in Present(f.frame) :
        e = [path |-> Append(f.path, p[2]), frame |-> entry[p].frame,
             user |-> f.user /\ "US" \in entry[p].flags, big |-> "PS" \in entry[p].flags]
  BY Zenon, <1>1
<1>3. /\ e.frame = entry[p].frame /\ (e.user <=> f.user /\ "US" \in entry[p].flags)
      /\ e.big <=> "PS" \in entry[p].flags
  BY Zenon, <1>2
<1>4. PICK m \in 1 .. 47 : Means(Row(m)) /\ Row(m)[1] = f.frame /\ entry[p].frame = Row(m)[3] /\ entry[p].flags = Row(m)[4]
  BY SMT, EntriesMean
<1>5. (e.user <=> f.user /\ US(Row(m))) /\ (e.big <=> PS(Row(m))) /\ e.frame = Row(m)[3]
  BY Zenon, <1>3, <1>4 DEF US, PS
<1> QED BY Zenon, <1>1, <1>4, <1>5

LEMMA Level3Means ==
  ASSUME PagingInv, NEW e \in Level3
  PROVE  e.frame \in Below3 /\ ~e.big /\ (e.user => e.frame \notin {\h204, \h209})
<1>1. PICK f \in Level4, m \in 1 .. 47 :
           /\ ~f.big /\ Means(Row(m)) /\ Row(m)[1] = f.frame /\ e.frame = Row(m)[3]
           /\ e.user <=> f.user /\ US(Row(m))
           /\ e.big <=> PS(Row(m))
  BY SMT, BelowMeans DEF Level3
<1>2. f.frame \in Below4 /\ (f.user => f.frame # \h202)
  BY SMT, Level4Means
<1> QED BY SMT, <1>1, <1>2 DEF Means, Below4

LEMMA Level2Means ==
  ASSUME PagingInv, NEW e \in Level2
  PROVE  IF e.big THEN e.frame \in {\h200, \h8000, \hFEE00, \hA00} /\ (e.user => e.frame = \h8000)
         ELSE e.frame \in Below2 /\ (e.user => e.frame \in {\h205, \h303})
<1>1. PICK f \in Level3, m \in 1 .. 47 :
           /\ ~f.big /\ Means(Row(m)) /\ Row(m)[1] = f.frame /\ e.frame = Row(m)[3]
           /\ e.user <=> f.user /\ US(Row(m))
           /\ e.big <=> PS(Row(m))
  BY SMT, BelowMeans DEF Level2
<1>2. f.frame \in Below3 /\ (f.user => f.frame \notin {\h204, \h209})
  BY SMT, Level3Means
<1> QED BY SMT, <1>1, <1>2 DEF Means, Below3

LEMMA Level1Means ==
  ASSUME PagingInv, NEW e \in Level1
  PROVE  /\ ~e.big /\ e.frame \in Code \union SystemData \union \h414 .. \h417
         /\ e.user => e.frame \in Code \union \h414 .. \h417
<1>1. PICK f \in Level2, m \in 1 .. 47 :
           /\ ~f.big /\ Means(Row(m)) /\ Row(m)[1] = f.frame /\ e.frame = Row(m)[3]
           /\ e.user <=> f.user /\ US(Row(m))
           /\ e.big <=> PS(Row(m))
  BY SMT, BelowMeans DEF Level1
<1>2. f.frame \in Below2 /\ (f.user => f.frame \in {\h205, \h303})
  BY SMT, <1>1, Level2Means
<1> QED BY SMT, <1>1, <1>2 DEF Means, Below2

\* A walk stays within the tables.
LEMMA WalkStays == PagingInv => TablesWalked \subseteq TableFrames
<1> SUFFICES ASSUME PagingInv, NEW f \in TablesWalked PROVE f \in TableFrames
  BY SMT
<1>1. f \in {\h200} \union Below4 \union Below3 \union Below2
  BY SMT, Level4Means, Level3Means, Level2Means DEF TablesWalked, PML4T_BASE
<1> QED BY SMT, <1>1 DEF Below4, Below3, Below2, TableFrames

\* At every moment of the way to long mode a page walk reads only tables that
\* clear_4k_pages has zeroed, however far init_paging has got.
THEOREM WalksAreDefined == Spec => []WalksDefined
<1>1. PagingInv => WalksDefined
  <2>1. PagingInv /\ DOMAIN entry # {} => TableFrames \subseteq cleared
    BY SMT DEF PagingInv
  <2> QED BY SMT, <2>1, WalkStays DEF WalksDefined
<1> QED BY PagingInit, PagingStep, <1>1, PTL DEF Spec

LEMMA MappingMeans ==
  ASSUME PagingInv, NEW m \in Mappings
  PROVE  IF m.big THEN m.frame \in {\h200, \h8000, \hFEE00, \hA00} /\ (m.user => m.frame = \h8000)
         ELSE /\ m.frame \in Code \union SystemData \union \h414 .. \h417
              /\ m.user => m.frame \in Code \union \h414 .. \h417
<1>1. CASE m \in Level1
  BY SMT, <1>1, Level1Means
<1>2. CASE m \in Level2 /\ m.big
  BY SMT, <1>2, Level2Means
<1> QED BY SMT, <1>1, <1>2 DEF Mappings

LEMMA ForbiddenFrames ==
  ASSUME NEW f \in TableFrames \union SystemData \union KernelStacks \union ApicFrames
  PROVE  f \in Int /\ f >= \h200 /\ ~ (f \in \h414 .. \h417) /\ ~ (f \in \h8000 .. \h81FF)
<1>1. CASE f \in TableFrames
  BY SMT, <1>1 DEF TableFrames
<1>2. CASE f \in SystemData
  BY SMT, <1>2 DEF SystemData
<1>3. CASE f \in KernelStacks
  BY SMT, <1>3 DEF KernelStacks
<1>4. CASE f \in ApicFrames
  BY SMT, <1>4 DEF ApicFrames
<1> QED BY SMT, <1>1, <1>2, <1>3, <1>4

\* What init_paging stores lets user mode reach no table, descriptor table, kernel stack or
\* APIC register, at any moment.
THEOREM UserIsIsolated == Spec => []UserIsolated
<1>1. PagingInv => UserIsolated
  <2> SUFFICES ASSUME PagingInv, NEW m \in Mappings, m.user, NEW f \in Frames(m),
                      f \in TableFrames \union SystemData \union KernelStacks \union ApicFrames
               PROVE  FALSE
    BY SMT DEF UserIsolated
  <2>1. f \in \h8000 .. \h81FF \union Code \union \h414 .. \h417
    <3>1. CASE m.big
      <4>1. m.frame = \h8000
        BY SMT, <3>1, MappingMeans
      <4> QED BY SMT, <3>1, <4>1 DEF Frames
    <3>2. CASE ~m.big
      <4>1. m.frame \in Code \union \h414 .. \h417
        BY SMT, <3>2, MappingMeans
      <4> QED BY SMT, <3>2, <4>1 DEF Frames
    <3> QED BY SMT, <3>1, <3>2
  <2>2. f \in Int /\ f >= \h200 /\ ~ (f \in \h414 .. \h417) /\ ~ (f \in \h8000 .. \h81FF)
    BY SMT, ForbiddenFrames
  <2>3. f \in Code => f < \h200
    BY SMT DEF Code
  <2> QED BY SMT, <2>1, <2>2, <2>3
<1> QED BY PagingInit, PagingStep, <1>1, PTL DEF Spec

LEMMA RamEnds == \A f \in Nat : f \in GuestRam => f < \h8000
BY SMT DEF GuestRam

LEMMA MappingBacked ==
  ASSUME PagingInv, NEW m \in Mappings
  PROVE  IF m.big
         THEN \/ Frames(m) \subseteq GuestRam
              \/ m.frame \in DeviceFrames \union ApicFrames /\ Frames(m) \intersect GuestRam = {}
         ELSE Frames(m) \subseteq GuestRam \union DeviceFrames
<1>1. CASE m.big
  <2>1. m.frame \in {\h200, \h8000, \hFEE00, \hA00} /\ Frames(m) = m.frame .. m.frame + 511
    BY SMT, <1>1, MappingMeans DEF Frames
  <2>2. CASE m.frame \in {\h200, \hA00}
    <3>1. Frames(m) \subseteq GuestRam
      <4> SUFFICES ASSUME NEW f \in Frames(m) PROVE f \in GuestRam
        BY Zenon
      <4>0. f \in m.frame .. m.frame + 511
        BY SMT, <2>1
      <4>1. CASE m.frame = \h200
        BY SMT, <4>0, <4>1 DEF GuestRam
      <4>2. CASE m.frame = \hA00
        BY SMT, <4>0, <4>2 DEF GuestRam
      <4> QED BY SMT, <2>2, <4>1, <4>2
    <3> QED BY Zenon, <1>1, <3>1
  <2>3. CASE m.frame \in {\h8000, \hFEE00}
    <3>1. m.frame \in DeviceFrames \union ApicFrames
      BY SMT, <2>3 DEF DeviceFrames, ApicFrames
    <3>2. Frames(m) \intersect GuestRam = {}
      <4> SUFFICES ASSUME NEW f \in Frames(m) PROVE f \notin GuestRam
        BY SMT
      <4>0. f \in m.frame .. m.frame + 511
        BY SMT, <2>1
      <4>1. CASE m.frame = \h8000
        BY SMT, <4>0, <4>1, RamEnds
      <4>2. CASE m.frame = \hFEE00
        BY SMT, <4>0, <4>2, RamEnds
      <4> QED BY SMT, <2>3, <4>1, <4>2
    <3> QED BY Zenon, <1>1, <3>1, <3>2
  <2> QED BY SMT, <2>1, <2>2, <2>3
<1>2. CASE ~m.big
  <2>1. Frames(m) \subseteq Code \union SystemData \union \h414 .. \h417
    BY SMT, <1>2, MappingMeans DEF Frames
  <2>2. Frames(m) \subseteq GuestRam \union DeviceFrames
    BY SMT, <2>1 DEF Code, SystemData, GuestRam, DeviceFrames
  <2> QED BY Zenon, <1>2, <2>2
<1> QED BY SMT, <1>1, <1>2

------------------------------------------------------------------------------
(* The announced mappings *)

\* A filled table holds this entry, and it is present.
Has(t, index, frame, flags) ==
  /\ <<t, index>> \in Present(t)
  /\ entry[<<t, index>>].frame = frame /\ entry[<<t, index>>].flags = flags

LEMMA RowHeld ==
  ASSUME Filled(47), NEW m \in 1 .. 47, "P" \in Row(m)[4]
  PROVE  Has(Row(m)[1], Row(m)[2], Row(m)[3], Row(m)[4])
<1>1. Key(m) \in DOMAIN entry /\ entry[Key(m)] = [frame |-> Row(m)[3], flags |-> Row(m)[4]]
  BY Zenon DEF Filled
<1>2. entry[Key(m)].frame = Row(m)[3] /\ entry[Key(m)].flags = Row(m)[4]
  BY SMT, <1>1
<1>3. Key(m)[1] = Row(m)[1]
  BY SMT DEF Key
<1> QED BY SMT, <1>1, <1>2, <1>3 DEF Has, Present, Key

\* A walk: the entry at the end of a path.
Node(path, frame, user, big) == [path |-> path, frame |-> frame, user |-> user, big |-> big]

LEMMA WalkBelow ==
  ASSUME NEW L, NEW path, NEW t, NEW user \in BOOLEAN, Node(path, t, user, FALSE) \in L,
         NEW index, NEW frame, NEW flags, Has(t, index, frame, flags)
  PROVE  Node(Append(path, index), frame, user /\ "US" \in flags, "PS" \in flags) \in Below(L)
<1> DEFINE e == Node(path, t, user, FALSE)
           p == <<t, index>>
<1>1. e.path = path /\ e.frame = t /\ e.user = user /\ e.big = FALSE
  BY Zenon DEF Node
<1>2. p \in Present(t) /\ entry[p].frame = frame /\ entry[p].flags = flags /\ p[2] = index
  BY SMT DEF Has
<1>3. e \in {f \in L : ~f.big}
  BY Zenon, <1>1
<1> HIDE DEF e, p
<1>4. [path |-> Append(e.path, p[2]), frame |-> entry[p].frame,
       user |-> e.user /\ "US" \in entry[p].flags, big |-> "PS" \in entry[p].flags] \in Below(L)
  <2>1. p \in Present(e.frame)
    BY Zenon, <1>1, <1>2
  <2> DEFINE N(f, q) == [path |-> Append(f.path, q[2]), frame |-> entry[q].frame,
                         user |-> f.user /\ "US" \in entry[q].flags, big |-> "PS" \in entry[q].flags]
             X(f) == {N(f, q) : q \in Present(f.frame)}
             XX == {X(f) : f \in {g \in L : ~g.big}}
  <2>2. Below(L) = UNION XX
    BY Zenon DEF Below
  <2> HIDE DEF N
  <2>3. N(e, p) \in X(e)
    BY Zenon, <2>1
  <2> HIDE DEF X
  <2>4. X(e) \in XX
    BY Zenon, <1>3
  <2> HIDE DEF XX
  <2>5. N(e, p) \in Below(L)
    BY SMT, <2>2, <2>3, <2>4
  <2> QED BY Zenon, <2>5 DEF N
<1> QED BY Zenon, <1>1, <1>2, <1>4 DEF Node

\* The entry of that place leads one level down; u and b say whether user mode may pass
\* and whether it is a large page.
LEMMA WalkOn ==
  ASSUME NEW L, NEW path, NEW t, NEW user \in BOOLEAN, Node(path, t, user, FALSE) \in L,
         NEW index, NEW frame, NEW flags, Has(t, index, frame, flags),
         NEW u \in BOOLEAN, NEW b \in BOOLEAN, u <=> user /\ "US" \in flags, b <=> "PS" \in flags
  PROVE  Node(Append(path, index), frame, u, b) \in Below(L)
<1>1. Node(Append(path, index), frame, user /\ "US" \in flags, "PS" \in flags) \in Below(L)
  BY Zenon, WalkBelow
<1>2. u = (user /\ "US" \in flags) /\ b = ("PS" \in flags)
  BY Zenon
<1> QED BY Zenon, <1>1, <1>2

LEMMA WalkTop ==
  ASSUME NEW index, NEW frame, NEW flags, Has(PML4T_BASE, index, frame, flags),
         NEW u \in BOOLEAN, u <=> "US" \in flags
  PROVE  Node(<<index>>, frame, u, FALSE) \in Level4
<1> DEFINE p == <<PML4T_BASE, index>>
<1>1. p \in Present(PML4T_BASE) /\ entry[p].frame = frame /\ entry[p].flags = flags /\ p[2] = index
  BY SMT DEF Has
<1>2. u = ("US" \in flags)
  BY Zenon
<1> HIDE DEF p
<1>3. [path |-> <<p[2]>>, frame |-> entry[p].frame, user |-> "US" \in entry[p].flags, big |-> FALSE] \in Level4
  BY Zenon, <1>1 DEF Level4
<1> QED BY Zenon, <1>1, <1>2, <1>3 DEF Node

LEMMA NodeMaps ==
  ASSUME NEW path, NEW frame, NEW user \in BOOLEAN,
         Node(path, frame, user, FALSE) \in Level1 \/ Node(path, frame, user, TRUE) \in Level2
  PROVE  Maps(path, frame, user)
<1>1. CASE Node(path, frame, user, FALSE) \in Level1
  <2> DEFINE e == Node(path, frame, user, FALSE)
  <2>1. e.path = path /\ e.frame = frame /\ e.user = user
    BY Zenon DEF Node
  <2> QED BY Zenon, <1>1, <2>1 DEF Maps, Mappings
<1>2. CASE Node(path, frame, user, TRUE) \in Level2
  <2> DEFINE e == Node(path, frame, user, TRUE)
  <2>1. e.path = path /\ e.frame = frame /\ e.user = user /\ e.big
    BY Zenon DEF Node
  <2> QED BY Zenon, <1>2, <2>1 DEF Maps, Mappings
<1> QED BY Zenon, <1>1, <1>2

\* The entries on the announced paths.
LEMMA EntriesHeld ==
  ASSUME Filled(47)
  PROVE  /\ Has(\h200, 0, \h201, U) /\ Has(\h200, \h1FF, \h202, K) /\ Has(\h200, \hFF, \h300, U)
         /\ Has(\h201, 0, \h203, U) /\ Has(\h202, \h1E0, \h204, U) /\ Has(\h202, \h1FF, \h209, K)
         /\ Has(\h300, \h1FF, \h302, U)
         /\ Has(\h203, 0, \h205, U) /\ Has(\h203, 4, \hFEE00, BigK) /\ Has(\h204, 0, \h206, K)
         /\ Has(\h204, \h80, \h208, K) /\ Has(\h209, \h1FF, \hA00, BigK) /\ Has(\h302, \h1FF, \h303, U)
         /\ \A f \in Code : Has(\h205, f, f, U)
         /\ \A n \in 0 .. 1 : Has(\h206, n, \h410 + n, K) /\ Has(\h208, n, \h412 + n, K)
         /\ \A n \in 0 .. 3 : Has(\h303, n, \h414 + n, U)
<1>0. "P" \in U /\ "P" \in K /\ "P" \in BigK
  BY SMT, FlagsAre
<1>1. /\ Row(1) = <<\h200, 0, \h201, U>> /\ Row(2) = <<\h200, \h1FF, \h202, K>>
      /\ Row(3) = <<\h200, \hFF, \h300, U>> /\ Row(4) = <<\h201, 0, \h203, U>>
      /\ Row(10) = <<\h202, \h1E0, \h204, U>> /\ Row(13) = <<\h202, \h1FF, \h209, K>>
      /\ Row(15) = <<\h300, \h1FF, \h302, U>>
  BY SMT DEF Row, TableStores
<1>2. /\ Row(5) = <<\h203, 0, \h205, U>> /\ Row(9) = <<\h203, 4, \hFEE00, BigK>>
      /\ Row(11) = <<\h204, 0, \h206, K>> /\ Row(12) = <<\h204, \h80, \h208, K>>
      /\ Row(18) = <<\h209, \h1FF, \hA00, BigK>> /\ Row(17) = <<\h302, \h1FF, \h303, U>>
  BY SMT DEF Row, TableStores
<1>3. \A f \in 9 .. \h19 : f + 11 \in 1 .. 47 /\ Row(f + 11) = <<\h205, f, f, U>>
  BY SMT DEF Row
<1>4. /\ Row(37) = <<\h205, \h20, \h20, U>> /\ Row(38) = <<\h205, \hB8, \hB8, U>>
      /\ Row(39) = <<\h205, \hB9, \hB9, U>>
  BY SMT DEF Row, PageStores
<1>5. /\ Row(40) = <<\h206, 0, \h410, K>> /\ Row(41) = <<\h206, 1, \h411, K>>
      /\ Row(42) = <<\h208, 0, \h412, K>> /\ Row(43) = <<\h208, 1, \h413, K>>
      /\ Row(44) = <<\h303, 0, \h414, U>> /\ Row(45) = <<\h303, 1, \h415, U>>
      /\ Row(46) = <<\h303, 2, \h416, U>> /\ Row(47) = <<\h303, 3, \h417, U>>
  BY SMT DEF Row, PageStores
<1> DEFINE H(m) == Has(Row(m)[1], Row(m)[2], Row(m)[3], Row(m)[4])
<1>6. ASSUME NEW m \in 1 .. 47, Row(m)[4] \in {U, K, BigK} PROVE H(m)
  <2>1. "P" \in Row(m)[4]
    BY SMT, <1>0, <1>6
  <2> QED BY Zenon, <2>1, RowHeld
<1>7. \A f \in 9 .. \h19 : Has(\h205, f, f, U)
  <2> SUFFICES ASSUME NEW f \in 9 .. \h19 PROVE Has(\h205, f, f, U)
    BY SMT
  <2>1. H(f + 11)
    BY SMT, <1>3, <1>6
  <2> QED BY SMT, <1>3, <2>1
<1>8. Has(\h205, \h20, \h20, U) /\ Has(\h205, \hB8, \hB8, U) /\ Has(\h205, \hB9, \hB9, U)
  <2>1. H(37) /\ H(38) /\ H(39)
    BY SMT, <1>4, <1>6
  <2> QED BY SMT, <1>4, <2>1
<1>9. /\ Has(\h206, 0, \h410, K) /\ Has(\h206, 1, \h411, K) /\ Has(\h208, 0, \h412, K)
      /\ Has(\h208, 1, \h413, K)
  <2>1. H(40) /\ H(41) /\ H(42) /\ H(43)
    BY SMT, <1>5, <1>6
  <2> QED BY SMT, <1>5, <2>1
<1>10. /\ Has(\h303, 0, \h414, U) /\ Has(\h303, 1, \h415, U) /\ Has(\h303, 2, \h416, U)
       /\ Has(\h303, 3, \h417, U)
  <2>1. H(44) /\ H(45) /\ H(46) /\ H(47)
    BY SMT, <1>5, <1>6
  <2> QED BY SMT, <1>5, <2>1
<1>11. \A n \in 0 .. 1 : Has(\h206, n, \h410 + n, K) /\ Has(\h208, n, \h412 + n, K)
  BY SMT, <1>9
<1>12. \A n \in 0 .. 3 : Has(\h303, n, \h414 + n, U)
  BY SMT, <1>10
<1>13. \A f \in Code : Has(\h205, f, f, U)
  BY SMT, <1>7, <1>8 DEF Code
<1>14. /\ Has(\h200, 0, \h201, U) /\ Has(\h200, \h1FF, \h202, K) /\ Has(\h200, \hFF, \h300, U)
       /\ Has(\h201, 0, \h203, U) /\ Has(\h202, \h1E0, \h204, U) /\ Has(\h202, \h1FF, \h209, K)
       /\ Has(\h300, \h1FF, \h302, U)
  <2>1. H(1) /\ H(2) /\ H(3) /\ H(4) /\ H(10) /\ H(13) /\ H(15)
    BY SMT, <1>1, <1>6
  <2> QED BY SMT, <1>1, <2>1
<1>15. /\ Has(\h203, 0, \h205, U) /\ Has(\h203, 4, \hFEE00, BigK) /\ Has(\h204, 0, \h206, K)
       /\ Has(\h204, \h80, \h208, K) /\ Has(\h209, \h1FF, \hA00, BigK) /\ Has(\h302, \h1FF, \h303, U)
  <2>1. H(5) /\ H(9) /\ H(11) /\ H(12) /\ H(17) /\ H(18)
    BY SMT, <1>2, <1>6
  <2> QED BY SMT, <1>2, <2>1
<1> QED BY SMT, <1>11, <1>12, <1>13, <1>14, <1>15

LEMMA SameSequence ==
  ASSUME NEW s \in Seq(Nat), NEW t \in Seq(Nat), Len(s) = Len(t), \A i \in 1 .. Len(s) : s[i] = t[i]
  PROVE  s = t
BY SMT

LEMMA PathOfTwo == \A a, b \in Nat : Append(<<a>>, b) = <<a, b>>
<1> TAKE a, b \in Nat
<1> DEFINE s == Append(<<a>>, b)
           t == <<a, b>>
<1>1. s \in Seq(Nat) /\ t \in Seq(Nat) /\ Len(s) = 2 /\ Len(t) = 2
  BY SMT
<1>2. \A i \in 1 .. 2 : s[i] = t[i]
  BY SMT
<1> HIDE DEF s, t
<1>3. \A i \in 1 .. Len(s) : s[i] = t[i]
  BY SMT, <1>1, <1>2
<1>4. s = t
  BY Zenon, <1>1, <1>3, SameSequence
<1> QED BY Zenon, <1>4 DEF s, t

LEMMA PathOfThree == \A a, b, c \in Nat : Append(<<a, b>>, c) = <<a, b, c>>
<1> TAKE a, b, c \in Nat
<1> DEFINE s == Append(<<a, b>>, c)
           t == <<a, b, c>>
<1>1. s \in Seq(Nat) /\ t \in Seq(Nat) /\ Len(s) = 3 /\ Len(t) = 3
  BY SMT
<1>2. \A i \in 1 .. 3 : s[i] = t[i]
  BY SMT
<1> HIDE DEF s, t
<1>3. \A i \in 1 .. Len(s) : s[i] = t[i]
  BY SMT, <1>1, <1>2
<1>4. s = t
  BY Zenon, <1>1, <1>3, SameSequence
<1> QED BY Zenon, <1>4 DEF s, t

LEMMA PathOfFour == \A a, b, c, d \in Nat : Append(<<a, b, c>>, d) = <<a, b, c, d>>
<1> TAKE a, b, c, d \in Nat
<1> DEFINE s == Append(<<a, b, c>>, d)
           t == <<a, b, c, d>>
<1>1. s \in Seq(Nat) /\ t \in Seq(Nat) /\ Len(s) = 4 /\ Len(t) = 4
  BY SMT
<1>2. \A i \in 1 .. 4 : s[i] = t[i]
  BY SMT
<1> HIDE DEF s, t
<1>3. \A i \in 1 .. Len(s) : s[i] = t[i]
  BY SMT, <1>1, <1>2
<1>4. s = t
  BY Zenon, <1>1, <1>3, SameSequence
<1> QED BY Zenon, <1>4 DEF s, t

\* The tables and pages that a path leads to, for user mode and for the kernel only.
UserTable3(a, t) == Node(<<a>>, t, TRUE, FALSE) \in Level4
KernelTable3(a, t) == Node(<<a>>, t, FALSE, FALSE) \in Level4
UserTable2(a, b, t) == Node(<<a, b>>, t, TRUE, FALSE) \in Level3
KernelTable2(a, b, t) == Node(<<a, b>>, t, FALSE, FALSE) \in Level3
UserTable1(a, b, c, t) == Node(<<a, b, c>>, t, TRUE, FALSE) \in Level2
KernelTable1(a, b, c, t) == Node(<<a, b, c>>, t, FALSE, FALSE) \in Level2
UserPage(a, b, c, d, f) == Maps(<<a, b, c, d>>, f, TRUE)
KernelPage(a, b, c, d, f) == Maps(<<a, b, c, d>>, f, FALSE)
LargePage(a, b, c, f) == Maps(<<a, b, c>>, f, FALSE)

\* Each present entry leads one level down.
LEMMA EntryLeads ==
  ASSUME NEW L, NEW path, NEW t, NEW i, NEW f
  PROVE  /\ Node(path, t, TRUE, FALSE) \in L /\ Has(t, i, f, U) =>
              Node(Append(path, i), f, TRUE, FALSE) \in Below(L)
         /\ Node(path, t, FALSE, FALSE) \in L /\ (Has(t, i, f, U) \/ Has(t, i, f, K)) =>
              Node(Append(path, i), f, FALSE, FALSE) \in Below(L)
         /\ Node(path, t, TRUE, FALSE) \in L /\ Has(t, i, f, BigK) =>
              Node(Append(path, i), f, FALSE, TRUE) \in Below(L)
         /\ Node(path, t, FALSE, FALSE) \in L /\ Has(t, i, f, BigK) =>
              Node(Append(path, i), f, FALSE, TRUE) \in Below(L)
<1>0. /\ "US" \in U /\ "US" \notin K /\ "US" \notin BigK
      /\ "PS" \notin U /\ "PS" \notin K /\ "PS" \in BigK
      /\ TRUE \in BOOLEAN /\ FALSE \in BOOLEAN
  BY SMT, FlagsAre
<1>1. ASSUME Node(path, t, TRUE, FALSE) \in L, Has(t, i, f, U)
      PROVE  Node(Append(path, i), f, TRUE, FALSE) \in Below(L)
  <2>1. (TRUE <=> TRUE /\ "US" \in U) /\ (FALSE <=> "PS" \in U)
    BY Zenon, <1>0
  <2> QED BY Zenon, <1>0, <1>1, <2>1, WalkOn
<1>2. ASSUME Node(path, t, FALSE, FALSE) \in L, NEW F \in {U, K}, Has(t, i, f, F)
      PROVE  Node(Append(path, i), f, FALSE, FALSE) \in Below(L)
  <2>1. (FALSE <=> FALSE /\ "US" \in F) /\ (FALSE <=> "PS" \in F)
    BY Zenon, <1>0
  <2> QED BY Zenon, <1>0, <1>2, <2>1, WalkOn
<1>3. ASSUME Node(path, t, TRUE, FALSE) \in L, Has(t, i, f, BigK)
      PROVE  Node(Append(path, i), f, FALSE, TRUE) \in Below(L)
  <2>1. (FALSE <=> TRUE /\ "US" \in BigK) /\ (TRUE <=> "PS" \in BigK)
    BY Zenon, <1>0
  <2> QED BY Zenon, <1>0, <1>3, <2>1, WalkOn
<1>4. ASSUME Node(path, t, FALSE, FALSE) \in L, Has(t, i, f, BigK)
      PROVE  Node(Append(path, i), f, FALSE, TRUE) \in Below(L)
  <2>1. (FALSE <=> FALSE /\ "US" \in BigK) /\ (TRUE <=> "PS" \in BigK)
    BY Zenon, <1>0
  <2> QED BY Zenon, <1>0, <1>4, <2>1, WalkOn
<1> QED BY Zenon, <1>1, <1>2, <1>3, <1>4

LEMMA TopLeads ==
  ASSUME NEW a, NEW t
  PROVE  /\ Has(PML4T_BASE, a, t, U) => UserTable3(a, t)
         /\ Has(PML4T_BASE, a, t, K) => KernelTable3(a, t)
<1>1. (TRUE <=> "US" \in U) /\ (FALSE <=> "US" \in K)
  BY SMT, FlagsAre
<1>2. TRUE \in BOOLEAN /\ FALSE \in BOOLEAN
  BY Zenon
<1> QED BY Zenon, <1>1, <1>2, WalkTop DEF UserTable3, KernelTable3

LEMMA SecondLeads ==
  ASSUME NEW a \in Nat, NEW b \in Nat, NEW s, NEW t
  PROVE  /\ UserTable3(a, s) /\ Has(s, b, t, U) => UserTable2(a, b, t)
         /\ KernelTable3(a, s) /\ (Has(s, b, t, U) \/ Has(s, b, t, K)) => KernelTable2(a, b, t)
<1>1. Append(<<a>>, b) = <<a, b>>
  BY Zenon, PathOfTwo
<1> QED BY Zenon, <1>1, EntryLeads DEF UserTable3, KernelTable3, UserTable2, KernelTable2, Level3

LEMMA ThirdLeads ==
  ASSUME NEW a \in Nat, NEW b \in Nat, NEW c \in Nat, NEW s, NEW t
  PROVE  /\ UserTable2(a, b, s) /\ Has(s, c, t, U) => UserTable1(a, b, c, t)
         /\ KernelTable2(a, b, s) /\ (Has(s, c, t, U) \/ Has(s, c, t, K)) => KernelTable1(a, b, c, t)
         /\ (UserTable2(a, b, s) \/ KernelTable2(a, b, s)) /\ Has(s, c, t, BigK) => LargePage(a, b, c, t)
<1>1. Append(<<a, b>>, c) = <<a, b, c>>
  BY Zenon, PathOfThree
<1>2. /\ UserTable2(a, b, s) /\ Has(s, c, t, U) => UserTable1(a, b, c, t)
      /\ KernelTable2(a, b, s) /\ (Has(s, c, t, U) \/ Has(s, c, t, K)) => KernelTable1(a, b, c, t)
  BY Zenon, <1>1, EntryLeads DEF UserTable2, KernelTable2, UserTable1, KernelTable1, Level2
<1>3. (UserTable2(a, b, s) \/ KernelTable2(a, b, s)) /\ Has(s, c, t, BigK) =>
        Node(<<a, b, c>>, t, FALSE, TRUE) \in Level2
  BY Zenon, <1>1, EntryLeads DEF UserTable2, KernelTable2, Level2
<1> QED BY Zenon, <1>2, <1>3, NodeMaps DEF LargePage

LEMMA FourthLeads ==
  ASSUME NEW a \in Nat, NEW b \in Nat, NEW c \in Nat, NEW d \in Nat, NEW s, NEW f
  PROVE  /\ UserTable1(a, b, c, s) /\ Has(s, d, f, U) => UserPage(a, b, c, d, f)
         /\ KernelTable1(a, b, c, s) /\ (Has(s, d, f, U) \/ Has(s, d, f, K)) => KernelPage(a, b, c, d, f)
<1>1. Append(<<a, b, c>>, d) = <<a, b, c, d>>
  BY Zenon, PathOfFour
<1>2. /\ UserTable1(a, b, c, s) /\ Has(s, d, f, U) => Node(<<a, b, c, d>>, f, TRUE, FALSE) \in Level1
      /\ KernelTable1(a, b, c, s) /\ (Has(s, d, f, U) \/ Has(s, d, f, K)) =>
           Node(<<a, b, c, d>>, f, FALSE, FALSE) \in Level1
  BY Zenon, <1>1, EntryLeads DEF UserTable1, KernelTable1, Level1
<1> QED BY Zenon, <1>2, NodeMaps DEF UserPage, KernelPage

\* The announced paths, from the top table down.
LEMMA AllAnnounced == Filled(47) => Announced
<1> SUFFICES ASSUME Filled(47) PROVE Announced
  BY SMT
<1>1. UserTable3(0, \h201) /\ KernelTable3(\h1FF, \h202) /\ UserTable3(\hFF, \h300)
  BY SMT, EntriesHeld, TopLeads DEF PML4T_BASE
<1>2. /\ UserTable2(0, 0, \h203) /\ KernelTable2(\h1FF, \h1E0, \h204)
      /\ KernelTable2(\h1FF, \h1FF, \h209) /\ UserTable2(\hFF, \h1FF, \h302)
  BY SMT, <1>1, EntriesHeld, SecondLeads
<1>3. UserTable1(0, 0, 0, \h205)
  BY SMT, <1>2, EntriesHeld, ThirdLeads
<1>4. LargePage(0, 0, 4, \hFEE00)
  BY SMT, <1>2, EntriesHeld, ThirdLeads
<1>5. KernelTable1(\h1FF, \h1E0, 0, \h206)
  BY SMT, <1>2, EntriesHeld, ThirdLeads
<1>6. KernelTable1(\h1FF, \h1E0, \h80, \h208)
  BY SMT, <1>2, EntriesHeld, ThirdLeads
<1>7. UserTable1(\hFF, \h1FF, \h1FF, \h303)
  BY SMT, <1>2, EntriesHeld, ThirdLeads
<1>8. LargePage(\h1FF, \h1FF, \h1FF, \hA00)
  BY SMT, <1>2, EntriesHeld, ThirdLeads
<1>9. \A f \in 9 .. \h19 \union {\h20, \hB8, \hB9} : UserPage(0, 0, 0, f, f)
  <2> SUFFICES ASSUME NEW f \in Code PROVE UserPage(0, 0, 0, f, f)
    BY SMT DEF Code
  <2>1. f \in Nat /\ Has(\h205, f, f, U)
    BY SMT, EntriesHeld DEF Code
  <2> QED BY SMT, <1>3, <2>1, FourthLeads
<1>10. \A n \in 0 .. 1 : KernelPage(\h1FF, \h1E0, 0, n, \h410 + n)
  <2> SUFFICES ASSUME NEW n \in 0 .. 1 PROVE KernelPage(\h1FF, \h1E0, 0, n, \h410 + n)
    BY SMT
  <2>1. n \in Nat /\ Has(\h206, n, \h410 + n, K)
    BY SMT, EntriesHeld
  <2> QED BY SMT, <1>5, <2>1, FourthLeads
<1>11. \A n \in 0 .. 1 : KernelPage(\h1FF, \h1E0, \h80, n, \h412 + n)
  <2> SUFFICES ASSUME NEW n \in 0 .. 1 PROVE KernelPage(\h1FF, \h1E0, \h80, n, \h412 + n)
    BY SMT
  <2>1. n \in Nat /\ Has(\h208, n, \h412 + n, K)
    BY SMT, EntriesHeld
  <2> QED BY SMT, <1>6, <2>1, FourthLeads
<1>12. \A n \in 0 .. 3 : UserPage(\hFF, \h1FF, \h1FF, n, \h414 + n)
  <2> SUFFICES ASSUME NEW n \in 0 .. 3 PROVE UserPage(\hFF, \h1FF, \h1FF, n, \h414 + n)
    BY SMT
  <2>1. n \in Nat /\ Has(\h303, n, \h414 + n, U)
    BY SMT, EntriesHeld
  <2> QED BY SMT, <1>7, <2>1, FourthLeads
<1> QED BY <1>9, <1>4, <1>10, <1>11, <1>8, <1>12, PTL DEF Announced, UserPage, KernelPage, LargePage

\* Every 4K mapping that init_paging makes leads to memory the launcher set up or to a
\* device, every large page lies in that memory or starts with a device, and in long mode the mappings the comments of page64.S announce are in force.
THEOREM MappingsAreBacked == Spec => []Backed
<1>1. PagingInv => Backed
  <2>1. PagingInv /\ pc = "long" => Filled(47)
    BY SMT DEF PagingInv
  <2>2. PagingInv /\ (pc = "long" => Announced) => Backed
    BY Zenon, MappingBacked DEF Backed
  <2> QED BY Zenon, <2>1, <2>2, AllAnnounced
<1> QED BY PagingInit, PagingStep, <1>1, PTL DEF Spec
===============================================================================
