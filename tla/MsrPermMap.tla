------------------------------ MODULE MsrPermMap ------------------------------
(***************************************************************************)
(* The MSR permission map of vmx.c: set_msr_interception packs two bits    *)
(* per MSR, sixteen MSRs to a word, for three separate ranges of numbers.  *)
(* The processor finds its bits by byte and bit; code and processor must   *)
(* agree, and a call must leave all other MSRs alone.                      *)
(***************************************************************************)
EXTENDS Integers, Sequences, FiniteSets

CONSTANTS
  msrpm_ranges,     \* first MSR of each range: 0, 0xc0000000, 0xc0010000
  MSRS_RANGE_SIZE,  \* bytes of the map for a range, 2048
  Msrs,             \* MSRs that are asked for
  MaxCalls          \* bound on the calls

MSRS_IN_RANGE == MSRS_RANGE_SIZE * 4
Words == 0 .. Len(msrpm_ranges) * (MSRS_RANGE_SIZE \div 4) - 1

ASSUME RangesAssumption ==
  /\ MSRS_RANGE_SIZE \in Nat \ {0} /\ MSRS_RANGE_SIZE % 4 = 0 /\ MaxCalls \in Nat
  /\ msrpm_ranges \in Seq(Nat) /\ Msrs \subseteq Nat
  /\ \A i \in DOMAIN msrpm_ranges :
       /\ msrpm_ranges[i] % 16 = 0
       /\ \A j \in 1 .. i - 1 : msrpm_ranges[j] + MSRS_IN_RANGE <= msrpm_ranges[i]

VARIABLES
  msrpm,    \* the bits that are 1, by word
  asked,    \* history: <<msr, 0 for read, 1 for write>> |-> intercepted
  calls,
  dead      \* BUG_ON, or the read of msrpm[MSR_INVALID] before it

msrVars == <<msrpm, asked, calls, dead>>

In(msr, i) == msr >= msrpm_ranges[i] /\ msr < msrpm_ranges[i] + MSRS_IN_RANGE
Covered == {msr \in Msrs : \E i \in DOMAIN msrpm_ranges : In(msr, i)}
AllBits == 0 .. 31

\* The map is allocated elsewhere, all ones or all zeros.
MsrInit ==
  \E full \in BOOLEAN :
    /\ msrpm = [w \in Words |-> IF full THEN AllBits ELSE {}]
    /\ asked = [b \in Covered \X {0, 1} |-> full]
    /\ calls = 0 /\ dead = FALSE

MSR_INVALID == -1

\* A variant without the start of the range.
OffsetUnranged(msr) ==
  IF \E i \in DOMAIN msrpm_ranges : In(msr, i)
  THEN LET i == CHOOSE j \in DOMAIN msrpm_ranges : In(msr, j)
       IN  (((msr - msrpm_ranges[i]) \div 4) + (i - 1)) \div 4
  ELSE MSR_INVALID

\* The word: four MSRs to a byte, the ranges one after the other, four bytes to a word.
svm_msrpm_offset(msr) ==
  IF \E i \in DOMAIN msrpm_ranges : In(msr, i)
  THEN LET i == CHOOSE j \in DOMAIN msrpm_ranges : In(msr, j) /\ \A k \in 1 .. j - 1 : ~In(msr, k)
       IN  (((msr - msrpm_ranges[i]) \div 4) + (i - 1) * MSRS_RANGE_SIZE) \div 4
  ELSE MSR_INVALID

\* Set or clear one bit of a word: "read" and "write" allow the access.
Put(word, bit, allowed) == IF allowed THEN word \ {bit} ELSE word \union {bit}

set_msr_interception(msr, read, write) ==
  LET offset == svm_msrpm_offset(msr)
      bit_read == 2 * (msr % 16)
  IN  /\ calls < MaxCalls /\ ~dead
      /\ calls' = calls + 1
      /\ IF offset = MSR_INVALID
         THEN dead' = TRUE /\ UNCHANGED <<msrpm, asked>>
         ELSE /\ msrpm' = [msrpm EXCEPT ![offset] = Put(Put(@, bit_read, read), bit_read + 1, write)]
              /\ asked' = [asked EXCEPT ![<<msr, 0>>] = ~read, ![<<msr, 1>>] = ~write]
              /\ UNCHANGED dead

------------------------------------------------------------------------------
\* The bit the processor tests, counted from the start of the map.
Tested(msr, access) ==
  LET i == CHOOSE j \in DOMAIN msrpm_ranges : In(msr, j)
  IN  (i - 1) * MSRS_RANGE_SIZE * 8 + 2 * (msr - msrpm_ranges[i]) + access

\* For every MSR the processor intercepts just what the last call for it, or else the
\* initial map, asks for: no call changes the bits of another MSR, in its word, in the
\* next one or in another range.
Permissions ==
  \A b \in DOMAIN asked :
    LET p == Tested(b[1], b[2]) IN asked[b] = ((p % 32) \in msrpm[p \div 32])
===============================================================================
