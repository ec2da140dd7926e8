------------------------------ MODULE CpuidTable ------------------------------
(***************************************************************************)
(* vm_init_cpuid of vm.c: the host's CPUID leaves are copied into a table  *)
(* of KVM_MAX_CPUID_ENTRIES slots that KVM_SET_CPUID2 gives to the vCPU.   *)
(* What the host answers is arbitrary: every query is a free choice of the *)
(* outcomes the code tells apart.  For leaves 7 and 0x14 that is also what *)
(* the code does: __get_cpuid leaves the sub-leaf register unset.          *)
(***************************************************************************)
EXTENDS Naturals

CONSTANTS
  MAX,        \* KVM_MAX_CPUID_ENTRIES
  Limits,     \* highest basic leaves a host may report
  ExtBase,    \* stands for leaf 0x80000000
  ExtLimits,  \* highest extended leaves; below ExtBase when there are none
  SubLeaves,  \* 64, the sub-leaves of leaf 0xd that are asked for
  MaxTimes    \* bound on the sub-leaf count that leaves 7 and 0x14 report

ASSUME TableAssumption ==
  /\ MAX \in Nat \ {0} /\ SubLeaves \in Nat \ {0} /\ MaxTimes \in Nat
  /\ Limits \subseteq Nat /\ ExtBase \in Nat /\ ExtLimits \subseteq Nat
  /\ \A l \in Limits : l < ExtBase

VARIABLES
  pc,        \* "leaf", "sub" and "times" in the basic loop, "ext", then "done";
             \* "full" once the function gave up
  i, j,      \* the loop counters
  times,     \* sub-leaf count of leaf 7 or 0x14
  limit,     \* highest leaf of the loop under way
  cpuid_i,   \* slots claimed
  entries,   \* the table, zeroed by memset
  found      \* history: keys of the answers that were not empty

vars == <<pc, i, j, times, limit, cpuid_i, entries, found>>

Indexed == {4, 11, 13}   \* leaves 4, 0xb and 0xd
Counted == {7, 20}       \* leaves 7 and 0x14

SIGNIFICANT_INDEX == 1  \* KVM_CPUID_FLAG_SIGNIFCANT_INDEX

Entry(fn, idx, flags) == [fn |-> fn, idx |-> idx, flags |-> flags]
Key(e) == <<e.fn, e.idx>>

\* c points to the slot that was claimed last.
Cur == cpuid_i - 1

NextLeaf == pc' = "leaf" /\ i' = i + 1

GivesUp == pc' = "full" /\ UNCHANGED <<i, j, times, limit, cpuid_i, entries, found>>

\* Variants of the plain leaf below: an empty slot is kept, ...
PlainLeafKeepsSlot ==
  /\ entries' = [entries EXCEPT ![cpuid_i] = Entry(0, 0, 0)]
  /\ cpuid_i' = cpuid_i + 1
  /\ i' = i + 1
  /\ UNCHANGED <<pc, j, times, limit, found>>

\* ... or the slot is always given back.
PlainLeafDropsSlot ==
  /\ entries' = [entries EXCEPT ![cpuid_i] = Entry(i, 0, 0)]
  /\ found' = found \union {<<i, 0>>}
  /\ i' = i + 1
  /\ UNCHANGED <<pc, j, times, limit, cpuid_i>>

\* A leaf without sub-leaves goes to the next slot; an empty answer gives it back.
\* index is not set.
PlainLeaf ==
  /\ entries' = [entries EXCEPT ![cpuid_i] = Entry(i, entries[cpuid_i].idx, 0)]
  /\ \/ cpuid_i' = cpuid_i + 1 /\ found' = found \union {<<i, 0>>}
     \/ UNCHANGED <<cpuid_i, found>>
  /\ i' = i + 1
  /\ UNCHANGED <<pc, j, times, limit>>

\* Two more variants: no test for a full table, ...
TimesUnchecked ==
  /\ pc = "times" /\ j <= times
  /\ cpuid_i' = cpuid_i + 1 /\ j' = j + 1
  /\ UNCHANGED <<pc, i, times, limit, entries, found>>

\* ... and a loop over sub-leaves without an end test.
SubLeafEndless ==
  /\ pc = "sub"
  /\ j' = (j + 1) % SubLeaves
  /\ UNCHANGED <<pc, i, times, limit, cpuid_i, entries, found>>

------------------------------------------------------------------------------
Init ==
  /\ pc = "leaf" /\ i = 0 /\ j = 0 /\ times = 0
  /\ limit \in Limits
  /\ cpuid_i = 0 /\ entries = [s \in 0 .. MAX - 1 |-> Entry(0, 0, 0)]
  /\ found = {}

\* One turn of the loop over the basic leaves.
BasicLeaf ==
  /\ pc = "leaf" /\ i <= limit
  /\ \/ cpuid_i = MAX /\ GivesUp
     \/ /\ cpuid_i # MAX /\ i \in Indexed
        /\ cpuid_i' = cpuid_i + 1 /\ j' = 0 /\ pc' = "sub"
        /\ UNCHANGED <<i, times, limit, entries, found>>
     \/ /\ cpuid_i # MAX /\ i \in Counted
        /\ entries' = [entries EXCEPT ![cpuid_i] = Entry(i, 0, SIGNIFICANT_INDEX)]
        /\ cpuid_i' = cpuid_i + 1 /\ j' = 1 /\ pc' = "times"
        /\ times' \in 0 .. MaxTimes
        /\ found' = found \union {<<i, 0>>}
        /\ UNCHANGED <<i, limit>>
     \/ cpuid_i # MAX /\ i \notin Indexed \union Counted /\ PlainLeaf

\* One sub-leaf of leaf 4, 0xb or 0xd.  The answer counts as empty by the test of
\* the leaf (eax, ecx[15:8], eax): it ends leaf 4 and 0xb and is overwritten in
\* 0xd.  Sub-leaf 63 of 0xd is empty on every host: XCR0[63] is reserved.
SubLeaf ==
  /\ pc = "sub"
  /\ \/ /\ i = 13 /\ j = SubLeaves
        /\ NextLeaf /\ UNCHANGED <<j, times, limit, cpuid_i, entries, found>>
     \/ /\ ~ (i = 13 /\ j = SubLeaves)
        /\ entries' = [entries EXCEPT ![Cur] = Entry(i, j, SIGNIFICANT_INDEX)]
        /\ \/ i # 13 /\ NextLeaf /\ UNCHANGED <<j, cpuid_i, found>>
           \/ i = 13 /\ j' = j + 1 /\ UNCHANGED <<pc, i, cpuid_i, found>>
           \/ /\ ~ (i = 13 /\ j = SubLeaves - 1)
              /\ found' = found \union {<<i, j>>}
              /\ \/ cpuid_i = MAX /\ pc' = "full" /\ UNCHANGED <<i, j, cpuid_i>>
                 \/ cpuid_i # MAX /\ cpuid_i' = cpuid_i + 1 /\ j' = j + 1
                    /\ UNCHANGED <<pc, i>>
        /\ UNCHANGED <<times, limit>>

\* One sub-leaf of leaf 7 or 0x14.
TimesLeaf ==
  /\ pc = "times"
  /\ \/ j > times /\ NextLeaf /\ UNCHANGED <<j, times, limit, cpuid_i, entries, found>>
     \/ j <= times /\ cpuid_i = MAX /\ GivesUp
     \/ /\ j <= times /\ cpuid_i # MAX
        /\ entries' = [entries EXCEPT ![cpuid_i] = Entry(i, j, SIGNIFICANT_INDEX)]
        /\ cpuid_i' = cpuid_i + 1 /\ j' = j + 1
        /\ found' = found \union {<<i, j>>}
        /\ UNCHANGED <<pc, i, times, limit>>

BasicDone ==
  /\ pc = "leaf" /\ i > limit
  /\ pc' = "ext" /\ i' = ExtBase /\ limit' \in ExtLimits
  /\ UNCHANGED <<j, times, cpuid_i, entries, found>>

ExtLeaf ==
  /\ pc = "ext" /\ i <= limit
  /\ \/ cpuid_i = MAX /\ GivesUp
     \/ cpuid_i # MAX /\ PlainLeaf

\* nent = cpuid_i; KVM_SET_CPUID2, whose result main ignores.
Submit ==
  /\ pc = "ext" /\ i > limit
  /\ pc' = "done"
  /\ UNCHANGED <<i, j, times, limit, cpuid_i, entries, found>>

Next == BasicLeaf \/ SubLeaf \/ TimesLeaf \/ BasicDone \/ ExtLeaf \/ Submit

Spec == Init /\ [][Next]_vars
FairSpec == Spec /\ WF_vars(Next)

------------------------------------------------------------------------------
TypeOK ==
  /\ pc \in {"leaf", "sub", "times", "ext", "full", "done"}
  /\ i \in Nat /\ j \in Nat /\ times \in Nat /\ limit \in Nat
  /\ cpuid_i \in Nat
  /\ entries \in [0 .. MAX - 1 -> [fn : Nat, idx : Nat, flags : 0 .. 1]]
  /\ found \subseteq Nat \X Nat

\* Slots whose entry is final; the slot of a sub-leaf loop is still being written.
Settled == IF pc = "sub" \/ (pc = "full" /\ i \in Indexed) THEN Cur ELSE cpuid_i

Before(e, f) == e.fn < f.fn \/ (e.fn = f.fn /\ e.idx < f.idx)

\* No more slots are claimed than the table has, although three nested loops claim
\* them and one path gives a slot back.
InTable == cpuid_i <= MAX

\* The table is in strictly ascending order of (function, index): KVM finds one
\* entry for a query, and no slot that was claimed and given back, or claimed and
\* not filled, is among those submitted.
Ascending == \A a, b \in 0 .. MAX - 1 :
               a < b /\ b < Settled => Before(entries[a], entries[b])

\* No answer of the host gets lost on the way into the submitted table.
Complete == pc = "done" => \A k \in found : \E a \in 0 .. cpuid_i - 1 : Key(entries[a]) = k

\* The function returns, whatever the host answers.
Terminates == <>(pc \in {"done", "full"})
===============================================================================
