--------------------------- MODULE VmxModule_proofs ---------------------------
(***************************************************************************)
(* Proofs about the VMX module: guests keep their registers and the entry  *)
(* code finds its stack unless HOST_RSP got lost, for any registers,       *)
(* values and depths of the stack; an MSR's permission bits are its own,   *)
(* for any ranges; where the fields of the VMCB come from, for any number  *)
(* of processors.                                                          *)
(***************************************************************************)
EXTENDS VmxModule, TLAPS

(* Entering and leaving a guest *)

Places == {"idle", "run", "sync", "load", "enter", "guest", "save_rax", "save", "return", "put",
           "astray", "oops"}

\* The words on the stack from the three pushes to the first pop.
Pushed == [a \in Stack |-> IF a = base - 1 THEN "vmx" ELSE IF a \in {base - 2, base - 3} THEN "regs"
                          ELSE "other"]

\* The copy is that of the entry under way, and true of the VMCS if vmwrite reached it.
RspCopied ==
  /\ ~lost => vmcs.host_rsp = host_rsp
  /\ pc \in {"load", "enter", "guest"} => host_rsp = rsp
  /\ pc = "guest" => ~failed

\* Where the three words lie: above the stack pointer, less and less of them.  After an
\* exit the stack pointer is right if HOST_RSP was written.
StackHolds ==
  /\ pc \in Places \ {"idle", "run"} => base \in Depths
  /\ pc \in {"sync", "load", "enter", "guest", "save_rax"} => mem = Pushed
  /\ pc \in {"sync", "load", "enter", "guest"} => rsp = base - 3
  /\ pc = "save_rax" /\ (~lost \/ failed) => rsp = base - 3
  /\ pc = "save" => mem[rsp] = kept["rax"]
  /\ pc = "save" /\ (~lost \/ failed) => rsp = base - 2 /\ mem[base - 1] = "vmx"
  /\ pc = "return" /\ (~lost \/ failed) => rsp = base - 1 /\ mem[base - 1] = "vmx"
  /\ ~lost \/ failed => pc # "oops"

\* Where the guest's registers are.
RegsHeld ==
  /\ pc \in {"idle", "run", "sync", "load", "enter", "return", "put"} => regs = kept
  /\ pc \in {"enter", "guest", "save_rax"} => gpr = kept
  /\ pc = "save" => gpr = [kept EXCEPT !["rax"] = "regs"]

VcpuType ==
  /\ pc \in Places /\ kept \in [GPRs -> Values] /\ DOMAIN mem = Stack
  /\ lost \in BOOLEAN /\ failed \in BOOLEAN
  /\ vmcs = [host_rsp |-> vmcs.host_rsp, launched |-> vmcs.launched, to_label |-> vmcs.to_label]

VcpuInv == VcpuType /\ RspCopied /\ StackHolds /\ RegsHeld

LEMMA StackWords == ASSUME NEW d \in Depths PROVE d - 3 \in Stack /\ d - 2 \in Stack /\ d - 1 \in Stack /\ d \in Nat
<1>1. d \in Nat /\ d >= 3
  BY VcpuAssumption
<1>2. d - 3 \in 0 .. d /\ d - 2 \in 0 .. d /\ d - 1 \in 0 .. d
  BY <1>1
<1> QED BY <1>1, <1>2 DEF Stack

LEMMA VcpuInitInv == VcpuInit => VcpuInv
BY DEF VcpuInit, VcpuInv, VcpuType, RspCopied, StackHolds, RegsHeld, Places

LEMMA RunVcpuInv == VcpuInv /\ RunVcpu => VcpuInv'
<1> SUFFICES ASSUME VcpuInv, RunVcpu PROVE VcpuInv'
  OBVIOUS
<1> USE DEF VcpuInv, VcpuType, RspCopied, StackHolds, RegsHeld, Places, Go
<1>0. CASE Preempted
  BY <1>0 DEF Preempted, Pushed
<1>1. CASE svm_load_vcpu
  BY <1>1 DEF svm_load_vcpu
<1>2. CASE Push
  BY <1>2, StackWords DEF Push, Pushed
<1>3. CASE SyncHostRsp
  <2>1. CASE host_rsp = rsp
    BY <1>3, <2>1 DEF SyncHostRsp, Pushed
  <2>2. CASE host_rsp # rsp /\ current = "here"
    <3>1. vmcs'.host_rsp = rsp /\ host_rsp' = rsp /\ lost' = FALSE
      BY <1>3, <2>2 DEF SyncHostRsp, WriteHostRsp
    <3> QED BY <1>3, <2>2, <3>1 DEF SyncHostRsp, WriteHostRsp, Pushed
  <2>3. CASE host_rsp # rsp /\ current # "here"
    <3>1. host_rsp' = rsp /\ lost' = TRUE
      BY <1>3, <2>3 DEF SyncHostRsp, WriteHostRsp
    <3> QED BY <1>3, <2>3, <3>1 DEF SyncHostRsp, WriteHostRsp, Pushed
  <2> QED BY <2>1, <2>2, <2>3
<1>4. CASE LoadRegs
  BY <1>4 DEF LoadRegs, Pushed
<1>5. CASE Enter
  <2>1. CASE pc' = "guest"
    <3>1. vmcs'.host_rsp = vmcs.host_rsp /\ failed' = FALSE
      BY <1>5, <2>1 DEF Enter
    <3>2. vmcs' = [host_rsp |-> vmcs'.host_rsp, launched |-> vmcs'.launched, to_label |-> vmcs'.to_label]
      BY <1>5, <2>1 DEF Enter
    <3>3. UNCHANGED <<regs, host_rsp, gpr, rsp, mem, base, kept, lost>> /\ pc = "enter"
      BY <1>5, <2>1 DEF Enter
    <3>4. VcpuType' /\ RspCopied'
      BY <2>1, <3>1, <3>2, <3>3
    <3>5. StackHolds'
      BY <2>1, <3>1, <3>3 DEF Pushed
    <3>6. RegsHeld'
      BY <2>1, <3>3
    <3> QED BY <3>4, <3>5, <3>6
  <2>2. CASE pc' = "save_rax"
    BY <1>5, <2>2 DEF Enter, Pushed
  <2> QED BY <1>5, <2>1, <2>2 DEF Enter
<1>6. CASE GuestRuns
  <2>1. CASE pc' = "save_rax"
    BY <1>6, <2>1 DEF GuestRuns, Pushed
  <2>2. CASE pc' = "astray"
    BY <1>6, <2>2 DEF GuestRuns, Pushed
  <2> QED BY <1>6, <2>1, <2>2 DEF GuestRuns
<1>7. CASE SaveRax
  BY <1>7, StackWords DEF SaveRax, Pushed
<1>8. CASE SaveRegs
  BY <1>8, StackWords, VcpuAssumption DEF SaveRegs
<1>9. CASE Return
  BY <1>9, StackWords DEF Return
<1>10. CASE svm_put_vcpu
  BY <1>10 DEF svm_put_vcpu
<1> QED BY <1>0, <1>1, <1>2, <1>3, <1>4, <1>5, <1>6, <1>7, <1>8, <1>9, <1>10 DEF RunVcpu

------------------------------------------------------------------------------
(* The MSR permission map *)

\* Quotient and remainder of a number in words of 32 bits, and of one in MSRs, 16 to a word.
LEMMA DivMod32 ==
  ASSUME NEW t \in Nat, NEW k \in Nat, NEW a \in {0, 1}
  PROVE  /\ (32 * t + 2 * k + a) \div 32 = t + (k \div 16)
         /\ (32 * t + 2 * k + a) % 32 = 2 * (k % 16) + a
         /\ ((k \div 4) + 4 * t) \div 4 = t + (k \div 16)
OBVIOUS

LEMMA Remainder16 ==
  ASSUME NEW r \in Nat, NEW m \in Nat, r % 16 = 0, m >= r
  PROVE  m % 16 = (m - r) % 16
OBVIOUS

\* The map's bytes for the ranges before the n-th, in words.
LEMMA WordsBefore ==
  ASSUME NEW n \in Nat
  PROVE  /\ MSRS_RANGE_SIZE \div 4 \in Nat \ {0} /\ MSRS_RANGE_SIZE = 4 * (MSRS_RANGE_SIZE \div 4)
         /\ n * (MSRS_RANGE_SIZE \div 4) \in Nat
         /\ n * MSRS_RANGE_SIZE = 4 * (n * (MSRS_RANGE_SIZE \div 4))
<1>1. MSRS_RANGE_SIZE \div 4 \in Nat \ {0} /\ MSRS_RANGE_SIZE = 4 * (MSRS_RANGE_SIZE \div 4)
  BY RangesAssumption
<1>2. \A q \in Nat : n * q \in Nat /\ n * (4 * q) = 4 * (n * q)
  OBVIOUS
<1> QED BY <1>1, <1>2

\* A range of 16 q MSRs takes q words; those of an earlier range lie below those of a later.
LEMMA RangesApart ==
  ASSUME NEW q \in Nat \ {0}, NEW i \in Nat, NEW j \in Nat, i < j,
         NEW k \in Nat, k < 16 * q, NEW l \in Nat
  PROVE  i * q + (k \div 16) < j * q + (l \div 16)
<1>1. k \div 16 < q /\ l \div 16 >= 0 /\ k \div 16 \in Nat /\ l \div 16 \in Nat
  OBVIOUS
<1>2. PICK d \in Nat : j = i + 1 + d
  <2>1. j - i - 1 \in Nat /\ j = i + 1 + (j - i - 1)
    OBVIOUS
  <2> QED BY <2>1
<1>3. j * q = i * q + q + d * q /\ d * q \in Nat /\ i * q \in Nat
  BY <1>2
<1> QED BY <1>1, <1>3

LEMMA OneRange ==
  ASSUME NEW msr \in Nat, NEW i \in DOMAIN msrpm_ranges, NEW j \in DOMAIN msrpm_ranges,
         In(msr, i), In(msr, j)
  PROVE  i = j
<1>1. DOMAIN msrpm_ranges \subseteq Nat /\ msrpm_ranges[i] \in Nat /\ msrpm_ranges[j] \in Nat
  BY RangesAssumption
<1>2. MSRS_IN_RANGE \in Nat
  BY RangesAssumption DEF MSRS_IN_RANGE
<1>3. \A a, b \in DOMAIN msrpm_ranges : a < b => msrpm_ranges[a] + MSRS_IN_RANGE <= msrpm_ranges[b]
  BY RangesAssumption
<1>4. ~(i < j) /\ ~(j < i)
  BY <1>1, <1>2, <1>3 DEF In
<1> QED BY <1>1, <1>4

\* Word and bits of an MSR, as set_msr_interception and as the processor computes them.
LEMMA Located ==
  ASSUME NEW msr \in Msrs, NEW i \in DOMAIN msrpm_ranges, In(msr, i), NEW a \in {0, 1}
  PROVE  LET q == MSRS_RANGE_SIZE \div 4
             k == msr - msrpm_ranges[i]
         IN  /\ k \in Nat /\ k < 16 * q /\ i - 1 \in Nat /\ i <= Len(msrpm_ranges)
             /\ svm_msrpm_offset(msr) = (i - 1) * q + (k \div 16)
             /\ Tested(msr, a) \div 32 = (i - 1) * q + (k \div 16)
             /\ Tested(msr, a) % 32 = 2 * (msr % 16) + a
             /\ msr % 16 = k % 16
<1> DEFINE q == MSRS_RANGE_SIZE \div 4
           r == msrpm_ranges[i]
           k == msr - r
           t == (i - 1) * q
<1>1. msr \in Nat /\ r \in Nat /\ r % 16 = 0 /\ i \in Nat /\ i - 1 \in Nat /\ i <= Len(msrpm_ranges)
  BY RangesAssumption
<1>2. q \in Nat \ {0} /\ t \in Nat /\ (i - 1) * MSRS_RANGE_SIZE = 4 * t /\ MSRS_RANGE_SIZE = 4 * q
  BY <1>1, WordsBefore
<1>3. k \in Nat /\ k < 16 * q /\ msr >= r
  <2>1. msr >= r /\ msr < r + MSRS_RANGE_SIZE * 4
    BY DEF In, MSRS_IN_RANGE
  <2> HIDE DEF q, r
  <2> QED BY <2>1, <1>1, <1>2
<1>4. msr % 16 = k % 16
  BY <1>1, <1>3, Remainder16
<1>5. \A j \in DOMAIN msrpm_ranges : In(msr, j) => j = i
  BY <1>1, OneRange
<1>6. svm_msrpm_offset(msr) = t + (k \div 16)
  <2>1. (CHOOSE j \in DOMAIN msrpm_ranges : In(msr, j) /\ \A n \in 1 .. j - 1 : ~In(msr, n)) = i
    <3>1. \A n \in 1 .. i - 1 : n \in DOMAIN msrpm_ranges /\ n # i
      BY <1>1, RangesAssumption
    <3>2. \A n \in 1 .. i - 1 : ~In(msr, n)
      BY <3>1, <1>5
    <3> QED BY <3>2, <1>5
  <2>2. svm_msrpm_offset(msr) = ((k \div 4) + (i - 1) * MSRS_RANGE_SIZE) \div 4
    BY <2>1 DEF svm_msrpm_offset
  <2>3. svm_msrpm_offset(msr) = ((k \div 4) + 4 * t) \div 4
    BY <2>2, <1>2
  <2> HIDE DEF t, k
  <2> QED BY <2>3, <1>2, <1>3, DivMod32
<1>7. Tested(msr, a) = 32 * t + 2 * k + a
  <2>1. (CHOOSE j \in DOMAIN msrpm_ranges : In(msr, j)) = i
    BY <1>5
  <2>2. Tested(msr, a) = (i - 1) * MSRS_RANGE_SIZE * 8 + 2 * k + a
    BY <2>1 DEF Tested
  <2> HIDE DEF t, k
  <2> QED BY <2>2, <1>2
<1>8. Tested(msr, a) \div 32 = t + (k \div 16) /\ Tested(msr, a) % 32 = 2 * (k % 16) + a
  <2> HIDE DEF t, k
  <2> QED BY <1>7, <1>2, <1>3, DivMod32
<1> QED BY <1>1, <1>3, <1>4, <1>6, <1>8

\* No two MSRs share a bit of a word.
LEMMA BitsDiffer ==
  ASSUME NEW m1 \in Msrs, NEW m2 \in Msrs, NEW i \in DOMAIN msrpm_ranges, NEW j \in DOMAIN msrpm_ranges,
         In(m1, i), In(m2, j), m1 # m2, svm_msrpm_offset(m1) = svm_msrpm_offset(m2)
  PROVE  m1 % 16 # m2 % 16
<1> DEFINE q == MSRS_RANGE_SIZE \div 4
           k == m1 - msrpm_ranges[i]
           l == m2 - msrpm_ranges[j]
<1>1. /\ k \in Nat /\ k < 16 * q /\ i - 1 \in Nat /\ m1 % 16 = k % 16
      /\ svm_msrpm_offset(m1) = (i - 1) * q + (k \div 16)
  BY Located, 0 \in {0, 1}
<1>2. /\ l \in Nat /\ l < 16 * q /\ j - 1 \in Nat /\ m2 % 16 = l % 16
      /\ svm_msrpm_offset(m2) = (j - 1) * q + (l \div 16)
  BY Located, 0 \in {0, 1}
<1>3. q \in Nat \ {0}
  BY WordsBefore, 0 \in Nat
<1>4. m1 \in Nat /\ m2 \in Nat /\ msrpm_ranges[i] \in Nat /\ i \in Nat /\ j \in Nat
  BY RangesAssumption
<1>5. i = j
  <2> DEFINE u == (i - 1) * q + (k \div 16)
             v == (j - 1) * q + (l \div 16)
  <2> HIDE DEF q, k, l
  <2>0. u \in Nat /\ v \in Nat /\ u = v
    <3>1. (i - 1) * q \in Nat /\ (j - 1) * q \in Nat
      BY <1>1, <1>2, <1>3
    <3>2. k \div 16 \in Nat /\ l \div 16 \in Nat
      BY <1>1, <1>2
    <3>3. u = v
      BY <1>1, <1>2
    <3> QED BY <3>1, <3>2, <3>3
  <2>1. ~(i - 1 < j - 1) /\ ~(j - 1 < i - 1)
    <3>1. CASE i - 1 < j - 1
      <4>1. u < v
        BY <3>1, <1>1, <1>2, <1>3, RangesApart
      <4> HIDE DEF u, v
      <4> QED BY <4>1, <2>0
    <3>2. CASE j - 1 < i - 1
      <4>1. v < u
        BY <3>2, <1>1, <1>2, <1>3, RangesApart
      <4> HIDE DEF u, v
      <4> QED BY <4>1, <2>0
    <3> QED BY <3>1, <3>2
  <2> QED BY <2>1, <1>1, <1>2, <1>4
<1>6. k # l
  BY <1>4, <1>5
<1>7. k \div 16 = l \div 16
  <2> DEFINE t == (i - 1) * q
  <2>1. t \in Nat
    BY <1>1, <1>3
  <2>2. t + (k \div 16) = t + (l \div 16)
    BY <1>1, <1>2, <1>5
  <2> HIDE DEF t, k, l, q
  <2> QED BY <2>1, <2>2, <1>1, <1>2
<1> HIDE DEF q, k, l
<1> QED BY <1>1, <1>2, <1>6, <1>7

MapInv ==
  /\ DOMAIN msrpm = Words /\ msrpm = [w \in Words |-> msrpm[w]]
  /\ asked \in [Covered \X {0, 1} -> BOOLEAN]
  /\ \A w \in Words : msrpm[w] \subseteq AllBits
  /\ Permissions

\* An MSR of a range has a word of the map.
LEMMA OffsetInMap ==
  ASSUME NEW msr \in Msrs, NEW i \in DOMAIN msrpm_ranges, In(msr, i)
  PROVE  svm_msrpm_offset(msr) \in Words /\ svm_msrpm_offset(msr) # MSR_INVALID
<1> DEFINE q == MSRS_RANGE_SIZE \div 4
           k == msr - msrpm_ranges[i]
           n == Len(msrpm_ranges)
<1>0. i \in Nat
  BY RangesAssumption
<1>1. /\ k \in Nat /\ k < 16 * q /\ i - 1 \in Nat /\ i <= n
      /\ svm_msrpm_offset(msr) = (i - 1) * q + (k \div 16)
  BY Located, 0 \in {0, 1}
<1>2. q \in Nat \ {0} /\ n \in Nat
  BY WordsBefore, RangesAssumption, 0 \in Nat
<1>3. (i - 1) * q + (k \div 16) < n * q + (0 \div 16)
  <2>1. i - 1 < n
    BY <1>0, <1>1, <1>2
  <2> HIDE DEF q, k, n
  <2> QED BY <2>1, <1>1, <1>2, RangesApart
<1>4. (i - 1) * q \in Nat /\ k \div 16 \in Nat /\ n * q \in Nat
  <2> HIDE DEF q, k, n
  <2> QED BY <1>1, <1>2
<1>5. svm_msrpm_offset(msr) \in 0 .. n * q - 1
  <2> DEFINE w == (i - 1) * q
             x == k \div 16
             y == n * q
  <2>1. w + x < y /\ w \in Nat /\ x \in Nat /\ y \in Nat
    BY <1>3, <1>4
  <2> HIDE DEF w, x, y
  <2>2. w + x \in 0 .. y - 1
    BY <2>1
  <2> QED BY <2>2, <1>1 DEF w, x, y
<1> QED BY <1>5 DEF Words, MSR_INVALID

LEMMA MsrInitInv == MsrInit => MapInv
<1> SUFFICES ASSUME NEW full \in BOOLEAN, msrpm = [w \in Words |-> IF full THEN AllBits ELSE {}],
                    asked = [b \in Covered \X {0, 1} |-> full]
             PROVE  MapInv
  BY DEF MsrInit
<1>1. ASSUME NEW msr \in Covered, NEW a \in {0, 1}
      PROVE  (Tested(msr, a) \div 32) \in Words /\ (Tested(msr, a) % 32) \in AllBits
  <2>1. PICK i \in DOMAIN msrpm_ranges : In(msr, i)
    BY DEF Covered
  <2>2. msr \in Msrs /\ msr \in Nat
    BY RangesAssumption DEF Covered
  <2>3. Tested(msr, a) \div 32 = svm_msrpm_offset(msr) /\ Tested(msr, a) % 32 = 2 * (msr % 16) + a
    BY <2>1, <2>2, Located
  <2>4. 2 * (msr % 16) + a \in 0 .. 31
    BY <2>2
  <2> QED BY <2>1, <2>2, <2>3, <2>4, OffsetInMap DEF AllBits
<1>2. Permissions
  BY <1>1 DEF Permissions
<1> QED BY <1>2 DEF MapInv

LEMMA InterceptInv ==
  ASSUME MapInv, NEW msr \in Msrs, NEW read \in BOOLEAN, NEW write \in BOOLEAN,
         set_msr_interception(msr, read, write)
  PROVE  MapInv'
<1> DEFINE offset == svm_msrpm_offset(msr)
           bit == 2 * (msr % 16)
<1>1. CASE offset = MSR_INVALID
  BY <1>1 DEF set_msr_interception, MapInv, Permissions
<1>2. CASE offset # MSR_INVALID
  <2>1. PICK i \in DOMAIN msrpm_ranges : In(msr, i)
    BY <1>2 DEF svm_msrpm_offset
  <2>2. msr \in Covered /\ msr \in Nat /\ offset \in Words /\ bit \in 0 .. 30
    BY <2>1, OffsetInMap, RangesAssumption DEF Covered
  <2>3. msrpm' = [msrpm EXCEPT ![offset] = Put(Put(@, bit, read), bit + 1, write)]
    BY <1>2 DEF set_msr_interception
  <2>4. asked' = [asked EXCEPT ![<<msr, 0>>] = ~read, ![<<msr, 1>>] = ~write]
    BY <1>2 DEF set_msr_interception
  <2>5. asked' \in [Covered \X {0, 1} -> BOOLEAN]
    BY <2>4 DEF MapInv
  <2>6. DOMAIN msrpm' = Words /\ msrpm' = [w \in Words |-> msrpm'[w]]
    BY <2>3 DEF MapInv
  <2>7. msrpm'[offset] = Put(Put(msrpm[offset], bit, read), bit + 1, write)
    BY <2>2, <2>3 DEF MapInv
  <2>8. \A w \in Words : w # offset => msrpm'[w] = msrpm[w]
    BY <2>3 DEF MapInv
  <2>9. \A w \in Words : msrpm'[w] \subseteq AllBits
    BY <2>2, <2>7, <2>8 DEF MapInv, Put, AllBits
  <2>10. ASSUME NEW m2 \in Covered, NEW a \in {0, 1}
         PROVE  asked'[<<m2, a>>] = ((Tested(m2, a) % 32) \in msrpm'[Tested(m2, a) \div 32])
    <3>1. PICK j \in DOMAIN msrpm_ranges : In(m2, j)
      BY DEF Covered
    <3>2. m2 \in Msrs /\ m2 \in Nat
      BY RangesAssumption DEF Covered
    <3>3. Tested(m2, a) \div 32 = svm_msrpm_offset(m2) /\ Tested(m2, a) % 32 = 2 * (m2 % 16) + a
      BY <3>1, <3>2, Located
    <3>4. svm_msrpm_offset(m2) \in Words
      BY <3>1, <3>2, OffsetInMap
    <3>5. asked[<<m2, a>>] = ((2 * (m2 % 16) + a) \in msrpm[svm_msrpm_offset(m2)])
      BY <3>3 DEF MapInv, Permissions
    <3>6. CASE m2 = msr
      <4>1. asked'[<<m2, a>>] = IF a = 0 THEN ~read ELSE ~write
        BY <2>2, <2>4, <3>6 DEF MapInv
      <4>2. bit # bit + 1
        BY <2>2
      <4>3. (bit \in msrpm'[offset]) = ~read /\ ((bit + 1) \in msrpm'[offset]) = ~write
        BY <2>7, <4>2 DEF Put
      <4>4. Tested(m2, a) % 32 = IF a = 0 THEN bit ELSE bit + 1
        BY <3>3, <3>6, <2>2
      <4> QED BY <4>1, <4>3, <4>4, <3>3, <3>6
    <3>7. CASE m2 # msr
      <4>1. asked'[<<m2, a>>] = asked[<<m2, a>>]
        BY <2>4, <3>7 DEF MapInv
      <4>2. CASE svm_msrpm_offset(m2) = offset
        <5>1. m2 % 16 # msr % 16
          BY <4>2, <3>1, <3>2, <3>7, <2>1, BitsDiffer
        <5>2. 2 * (m2 % 16) + a # bit /\ 2 * (m2 % 16) + a # bit + 1
          <6>1. m2 % 16 \in Nat /\ msr % 16 \in Nat
            BY <2>2, <3>2
          <6> QED BY <5>1, <6>1
        <5> QED BY <5>2, <4>1, <4>2, <3>3, <3>5, <2>7 DEF Put
      <4>3. CASE svm_msrpm_offset(m2) # offset
        BY <4>1, <4>3, <3>3, <3>4, <3>5, <2>8
      <4> QED BY <4>2, <4>3
    <3> QED BY <3>6, <3>7
  <2>11. Permissions'
    <3>1. DOMAIN asked' = Covered \X {0, 1}
      BY <2>5
    <3>2. ASSUME NEW b \in Covered \X {0, 1}
          PROVE  asked'[b] = ((Tested(b[1], b[2]) % 32) \in msrpm'[Tested(b[1], b[2]) \div 32])
      <4>1. PICK m2 \in Covered, a \in {0, 1} : b = <<m2, a>>
        OBVIOUS
      <4>2. b[1] = m2 /\ b[2] = a
        BY <4>1
      <4>3. asked'[<<m2, a>>] = ((Tested(m2, a) % 32) \in msrpm'[Tested(m2, a) \div 32])
        BY <2>10
      <4> QED BY <4>1, <4>2, <4>3, Zenon
    <3> QED BY <3>1, <3>2 DEF Permissions
  <2> QED BY <2>5, <2>6, <2>9, <2>11 DEF MapInv
<1> QED BY <1>1, <1>2

------------------------------------------------------------------------------
(* Setting up the VMCB *)

\* What svm_config_init leaves alone, of what setup_guest_regs copies ...
FromCaller == {<<"rip">>, <<"rsp">>, <<"rflags">>} \union (Segments \X {"attrib"})
LeftUnset == {<<"gs", "base">>} \union ({"gdtr", "idtr"} \X {"base", "limit"})

\* ... what it does not copy, and what is written later.
NotCopied == {<<"tr", "selector">>, <<"ldtr">>}
Written == {<<"gs", "base">>, <<"gs", "selector">>, <<"fs", "base">>, <<"fs", "selector">>,
            <<"kernel_gs_base">>, <<"syscall_msrs">>}

\* A value that is neither missing nor zero.
Given(v) == v # Unset /\ v # Zero

SaveAfterCopy ==
  \A f \in Fields :
    IF f \in NotCopied THEN save[f] = Zero
    ELSE IF f \in FromCaller THEN save[f] = Unset
    ELSE f \notin LeftUnset \union Written => Given(save[f])

\* GS comes from the processor the thread was on then, which is still its own if it stayed.
SaveAfterMsrs ==
  /\ SaveAfterCopy
  /\ \A f \in Written : Given(save[f])
  /\ ~moved => save[<<"gs", "base">>] = Live(cpu)

ConfGiven ==
  \A f \in Fields : /\ conf[f] # Zero
                    /\ f \in FromCaller => conf[f] = Unset
                    /\ f \in Copied \ (LeftUnset \union FromCaller) => Given(conf[f])

SetupInv ==
  /\ phase \in {"config", "copy", "msrs", "tables", "ready"} /\ moved \in BOOLEAN
  /\ save = [f \in Fields |-> save[f]]
  /\ phase \in {"config", "copy"} => \A f \in Fields : save[f] = Zero
  /\ phase = "copy" => ConfGiven
  /\ phase = "msrs" => SaveAfterCopy
  /\ phase = "tables" => SaveAfterMsrs
  /\ phase = "ready" => VmcbWhole

LEMMA Sources ==
  /\ Given(Const) /\ Given(Thread) /\ Unset # Zero
  /\ \A c : Given(Live(c)) /\ \A d : Live(c) = Live(d) <=> c = d
BY DEF Given, Const, Thread, Unset, Zero, Live

LEMMA SetupInitInv == SetupInit => SetupInv
BY DEF SetupInit, SetupInv

LEMMA SetupStepInv == SetupInv /\ (Setup \/ Migrate) => SetupInv'
<1> SUFFICES ASSUME SetupInv, Setup \/ Migrate PROVE SetupInv'
  OBVIOUS
<1>1. CASE svm_config_init
  <2>1. ConfGiven'
    BY <1>1, Sources DEF svm_config_init, ConfGiven, NotConfigured, FromCaller, Copied, LeftUnset, Given
  <2> QED BY <1>1, <2>1 DEF svm_config_init, SetupInv
<1>2. CASE CopyConfig
  <2>1. save' = [f \in Fields |-> IF f \in Copied THEN conf[f] ELSE save[f]]
    BY <1>2 DEF CopyConfig
  <2>2. SaveAfterCopy'
    <3>1. FromCaller \subseteq Copied /\ FromCaller \cap NotCopied = {} /\ NotCopied \cap Copied = {}
      BY DEF FromCaller, Copied, NotCopied, Fields, Segments, Parts
    <3>2. \A f \in Fields : f \notin Copied => f \in NotCopied \union Written
      BY DEF Copied, NotCopied, Written
    <3>3. \A f \in NotCopied : f \in Fields => save'[f] = Zero
      BY <1>2, <2>1, <3>1 DEF CopyConfig, SetupInv
    <3>4. \A f \in Fields : f \in Copied => save'[f] = conf[f]
      BY <2>1
    <3>5. ConfGiven
      BY <1>2 DEF CopyConfig, SetupInv
    <3>6. \A f \in Fields : /\ f \in FromCaller => save'[f] = Unset
                            /\ f \notin LeftUnset \union Written \union FromCaller \union NotCopied => Given(save'[f])
      BY <3>1, <3>2, <3>4, <3>5 DEF ConfGiven
    <3> QED BY <3>3, <3>6 DEF SaveAfterCopy
  <2> QED BY <1>2, <2>1, <2>2 DEF CopyConfig, SetupInv
<1>3. CASE vmsave_load_state
  <2>1. /\ save' = [f \in Fields |-> save'[f]]
        /\ save'[<<"gs", "base">>] = Live(cpu)
        /\ \A f \in Written \ {<<"gs", "base">>} : save'[f] = Thread
        /\ \A f \in Fields \ Written : save'[f] = save[f]
    BY <1>3 DEF vmsave_load_state, Written, Fields, Segments, Parts
  <2>2. SaveAfterCopy'
    BY <1>3, <2>1 DEF vmsave_load_state, SetupInv, SaveAfterCopy, NotCopied, Written, FromCaller
  <2>3. \A f \in Written : Given(save'[f])
    BY <2>1, Sources DEF Written
  <2> QED BY <1>3, <2>1, <2>2, <2>3 DEF vmsave_load_state, SetupInv, SaveAfterMsrs
<1>4. CASE svm_dt_set
  <2>1. PICK limit \in {Live(cpu), Unset}, idt \in {Live(cpu), Unset} :
          save' = [save EXCEPT ![<<"gdtr", "base">>] = Live(cpu), ![<<"gdtr", "limit">>] = limit,
                               ![<<"idtr", "base">>] = idt, ![<<"idtr", "limit">>] = idt]
    BY <1>4 DEF svm_dt_set
  <2> DEFINE tables == {"gdtr", "idtr"} \X {"base", "limit"}
  <2>2. /\ save'[<<"gdtr", "base">>] = Live(cpu)
        /\ save'[<<"gs", "base">>] = save[<<"gs", "base">>]
        /\ \A f \in tables : save'[f] # Zero
        /\ \A f \in Fields \ tables : save'[f] = save[f]
        /\ save' = [f \in Fields |-> save'[f]]
    <3>1. save = [f \in Fields |-> save[f]] /\ DOMAIN save = Fields
      BY DEF SetupInv
    <3>2. tables \subseteq Fields /\ <<"gs", "base">> \in Fields \ tables
      BY DEF Fields, Segments, Parts
    <3>3. tables = {<<"gdtr", "base">>, <<"gdtr", "limit">>, <<"idtr", "base">>, <<"idtr", "limit">>}
      OBVIOUS
    <3>4. DOMAIN save' = Fields /\ save' = [f \in Fields |-> save'[f]]
      BY <2>1, <3>1
    <3>5. \A f \in Fields \ tables : save'[f] = save[f]
      BY <2>1, <3>1, <3>3
    <3>6. /\ save'[<<"gdtr", "base">>] = Live(cpu) /\ save'[<<"gdtr", "limit">>] = limit
          /\ save'[<<"idtr", "base">>] = idt /\ save'[<<"idtr", "limit">>] = idt
      BY <2>1, <3>1, <3>2, <3>3
    <3>7. Live(cpu) # Zero /\ limit # Zero /\ idt # Zero
      BY Sources DEF Given
    <3>8. \A f \in tables : save'[f] # Zero
      BY <3>3, <3>6, <3>7
    <3> QED BY <3>2, <3>4, <3>5, <3>6, <3>8
  <2>3. SaveAfterMsrs /\ moved' = moved /\ phase' = "ready"
    BY <1>4 DEF svm_dt_set, SetupInv
  <2>4. \A f \in Fields \ (tables \union NotCopied \union FromCaller) : Given(save'[f])
    BY <2>2, <2>3 DEF SaveAfterMsrs, SaveAfterCopy, LeftUnset, Written
  <2>5. (\A f \in NotCopied : save'[f] = Zero) /\ \A f \in FromCaller : save'[f] = Unset
    BY <2>2, <2>3 DEF SaveAfterMsrs, SaveAfterCopy, NotCopied, FromCaller, Fields, Segments, Parts
  <2>6. {f \in Fields : save'[f] = Unset} \
          {<<"gdtr", "limit">>, <<"idtr", "base">>, <<"idtr", "limit">>} = FromCaller
    <3>1. FromCaller \subseteq Fields /\ FromCaller \cap tables = {}
      BY DEF FromCaller, Fields, Segments, Parts
    <3>2. save'[<<"gdtr", "base">>] # Unset
      BY <2>2, Sources DEF Given
    <3> QED BY <2>4, <2>5, <3>1, <3>2, Sources DEF Given
  <2>7. {f \in Fields : save'[f] = Zero} = NotCopied
    BY <2>2, <2>4, <2>5, Sources DEF Given, NotCopied, Fields, Segments, Parts
  <2>8. save'[<<"gs", "base">>] # save'[<<"gdtr", "base">>] => moved
    BY <2>2, <2>3 DEF SaveAfterMsrs
  <2>9. VmcbWhole'
    BY <2>3, <2>6, <2>7, <2>8 DEF VmcbWhole, NotCopied, FromCaller
  <2> QED BY <2>2, <2>3, <2>9 DEF SetupInv
<1>5. CASE Migrate
  BY <1>5 DEF Migrate, SetupInv, ConfGiven, SaveAfterCopy, SaveAfterMsrs
<1> QED BY <1>1, <1>2, <1>3, <1>4, <1>5 DEF Setup

------------------------------------------------------------------------------
(* The module as a whole *)

ModuleInv == VcpuInv /\ MapInv /\ SetupInv

LEMMA ModuleInvHolds == Spec => []ModuleInv
<1>1. Init => ModuleInv
  BY VcpuInitInv, MsrInitInv, SetupInitInv DEF Init, ModuleInv
<1>2. ModuleInv /\ [Next]_vars => ModuleInv'
  <2> SUFFICES ASSUME ModuleInv, [Next]_vars PROVE ModuleInv'
    OBVIOUS
  <2>1. UNCHANGED setupVars => SetupInv'
    BY DEF ModuleInv, SetupInv, setupVars, ConfGiven, SaveAfterCopy, SaveAfterMsrs, VmcbWhole
  <2>2. UNCHANGED msrVars => MapInv'
    BY DEF ModuleInv, MapInv, msrVars, Permissions
  <2>3. UNCHANGED vcpuVars => VcpuInv'
    BY DEF ModuleInv, VcpuInv, VcpuType, RspCopied, StackHolds, RegsHeld, Pushed, vcpuVars
  <2>4. CASE Configure
    BY <2>4, <2>2, <2>3, SetupStepInv DEF Configure, ModuleInv
  <2>5. CASE Moved
    BY <2>5, <2>2, <2>3, SetupStepInv DEF Moved, ModuleInv
  <2>6. CASE Intercept
    BY <2>6, <2>1, <2>3, InterceptInv DEF Intercept, ModuleInv
  <2>7. CASE svm_launch
    BY <2>7, <2>1, <2>2, RunVcpuInv DEF svm_launch, ModuleInv
  <2>8. CASE UNCHANGED vars
    BY <2>8, <2>1, <2>2, <2>3 DEF vars, ModuleInv
  <2> QED BY <2>4, <2>5, <2>6, <2>7, <2>8 DEF Next
<1> QED BY <1>1, <1>2, PTL DEF Spec

\* The guest's registers survive the way out, through the stack and vmx->regs, and in
\* again, whatever entries are refused in between.
THEOREM RegistersSurvive == Spec => []RegsSurvive
<1>1. ModuleInv => RegsSurvive
  BY DEF ModuleInv, VcpuInv, RegsHeld, RegsSurvive
<1> QED BY ModuleInvHolds, <1>1, PTL

\* __vmx_run_vcpu pops what it pushed after every refused entry and after every exit,
\* although an exit takes the stack pointer from the VMCS and the code writes it there only
\* when its copy differs; but for exits after a vmwrite that reached no VMCS.
THEOREM StackBalanced == Spec => []ReturnsToCaller
<1>1. ModuleInv => ReturnsToCaller
  BY StackWords DEF ModuleInv, VcpuInv, VcpuType, StackHolds, Places, ReturnsToCaller
<1> QED BY ModuleInvHolds, <1>1, PTL

\* set_msr_interception sets the bits the processor tests and no others, for any number
\* and position of ranges.
THEOREM MsrBitsRight == Spec => []Permissions
<1>1. ModuleInv => Permissions
  BY DEF ModuleInv, MapInv
<1> QED BY ModuleInvHolds, <1>1, PTL

\* setup_guest_regs hands rip, rsp, rflags and the attributes to the guest as the caller's
\* memory held them, and nothing else but what the asm of svm_dt_set may lose; and data of
\* two processors only if the thread was moved after vmsave_load_state.
THEOREM VmcbIsWhole == Spec => []VmcbWhole
<1>1. ModuleInv => VmcbWhole
  BY DEF ModuleInv, SetupInv, VmcbWhole
<1> QED BY ModuleInvHolds, <1>1, PTL
===============================================================================
