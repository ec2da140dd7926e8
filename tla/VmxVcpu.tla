-------------------------------- MODULE VmxVcpu --------------------------------
(***************************************************************************)
(* Entering and leaving a guest: svm_launch, vmx_run and the asm statement *)
(* __vmx_run_vcpu of vmx.c.  The guest's registers go through a stack that *)
(* the processor finds again by HOST_RSP in the VMCS, of which             *)
(* vmx->host_rsp is meant to be a copy (struct vmx_vcpu has no such member *)
(* yet).  svm_load_vcpu and svm_put_vcpu are named and defined nowhere.    *)
(* Addresses are counted in words.                                         *)
(***************************************************************************)
EXTENDS Naturals, FiniteSets

CONSTANTS
  GPRs,    \* the registers saved and loaded: rax and the other fourteen
  Values,  \* what a guest may leave in one
  Depths   \* stack pointers vmx_run may be called with

ASSUME VcpuAssumption == "rax" \in GPRs /\ Depths \subseteq Nat \ (0 .. 3)

VARIABLES
  pc,
  regs,      \* vmx->regs
  host_rsp,  \* vmx->host_rsp
  vmcs,      \* HOST_RSP, launch state, and whether HOST_RIP is the label after vmlaunch
  current,   \* the processor the VMCS is current on: "here", "elsewhere" or "nowhere"
  gpr,       \* registers of the processor
  rsp, mem,  \* stack pointer and stack
  base,      \* history: the stack pointer at the call
  kept,      \* history: what the guest left in its registers
  lost,      \* history: the last vmwrite of HOST_RSP reached no VMCS
  failed,    \* CF or ZF after the entry
  resumes    \* the build enters with vmresume

vcpuVars == <<pc, regs, host_rsp, vmcs, current, gpr, rsp, mem, base, kept, lost, failed, resumes>>

Stack == UNION {0 .. d : d \in Depths}

\* vmx->launched is never set, which means vmlaunch.  But the statement names no clobbered
\* register: a compiler may keep launched in rax, which holds the address of regs when it
\* is compared, and then it is vmresume.  The module writes no HOST_RIP.
VcpuInit ==
  /\ resumes \in BOOLEAN
  /\ pc = "idle" /\ regs \in [GPRs -> Values] /\ kept = regs
  /\ host_rsp = 0 /\ current = "nowhere" /\ lost = FALSE /\ failed = FALSE
  /\ vmcs \in [host_rsp : {0}, launched : {FALSE}, to_label : BOOLEAN]
  /\ gpr = [r \in GPRs |-> "host"] /\ rsp = 0 /\ base = 0 /\ mem = [a \in Stack |-> "other"]

Go(from, to) == pc = from /\ pc' = to

\* svm_load_vcpu is to make the VMCS current; svm_launch does not learn whether it did.
svm_load_vcpu ==
  /\ Go("idle", "run") /\ current' \in {"here", "nowhere"}
  /\ UNCHANGED <<regs, host_rsp, vmcs, gpr, rsp, mem, base, kept, lost, failed>>

\* The scheduler moves the thread away from its VMCS, or back to it.
Preempted ==
  /\ pc \in {"run", "sync", "load", "enter"} /\ current # "nowhere"
  /\ current' = IF current = "here" THEN "elsewhere" ELSE "here"
  /\ UNCHANGED <<pc, regs, host_rsp, vmcs, gpr, rsp, mem, base, kept, lost, failed>>

\* The three pushes.  What lies below the stack pointer is what earlier calls have left.
Push ==
  /\ Go("run", "sync")
  /\ \E d \in Depths :
       /\ base' = d /\ rsp' = d - 3
       /\ mem' = [a \in Stack |-> IF a = d - 1 THEN "vmx" ELSE IF a \in {d - 2, d - 3} THEN "regs"
                                  ELSE "other"]
  /\ gpr' = [r \in GPRs |-> "host"]
  /\ UNCHANGED <<regs, host_rsp, vmcs, current, kept, lost, failed>>

\* The copy is written, then HOST_RSP: vmwrite does nothing without a current VMCS, and
\* nobody looks at its flags.
WriteHostRsp ==
  /\ host_rsp' = rsp
  /\ vmcs' = [vmcs EXCEPT !.host_rsp = IF current = "here" THEN rsp ELSE @]
  /\ lost' = (current # "here")

\* A variant that writes HOST_RSP the first time only.
SyncOnce ==
  /\ Go("sync", "load")
  /\ IF host_rsp # 0 THEN UNCHANGED <<host_rsp, vmcs, lost>> ELSE WriteHostRsp
  /\ UNCHANGED <<regs, current, gpr, rsp, mem, base, kept, failed>>

\* HOST_RSP is written when the stack pointer differs from the copy.
SyncHostRsp ==
  /\ Go("sync", "load")
  /\ IF host_rsp = rsp THEN UNCHANGED <<host_rsp, vmcs, lost>> ELSE WriteHostRsp
  /\ UNCHANGED <<regs, current, gpr, rsp, mem, base, kept, failed>>

\* rax holds the address of regs until all others are loaded.
LoadRegs ==
  /\ Go("load", "enter") /\ gpr' = regs
  /\ UNCHANGED <<regs, host_rsp, vmcs, current, rsp, mem, base, kept, lost, failed>>

\* vmlaunch needs a current VMCS in the clear state, vmresume a launched one; both may
\* still refuse its content.
Enter ==
  /\ \/ /\ current = "here" /\ vmcs.launched = resumes /\ Go("enter", "guest")
        /\ vmcs' = [vmcs EXCEPT !.launched = TRUE] /\ failed' = FALSE
     \/ Go("enter", "save_rax") /\ failed' = TRUE /\ UNCHANGED vmcs
  /\ UNCHANGED <<regs, host_rsp, current, gpr, rsp, mem, base, kept, lost>>

\* The guest runs and exits; the processor loads the stack pointer from HOST_RSP and goes
\* on where HOST_RIP says.
GuestRuns ==
  /\ Go("guest", IF vmcs.to_label THEN "save_rax" ELSE "astray")
  /\ gpr' \in [GPRs -> Values] /\ kept' = gpr' /\ rsp' = vmcs.host_rsp
  /\ UNCHANGED <<regs, host_rsp, vmcs, current, mem, base, lost, failed>>

\* mov rax to the slot above, pop the address of regs into rax.  What else lies there is
\* no address of regs.
SaveRax ==
  /\ pc = "save_rax"
  /\ IF rsp + 1 \in Stack /\ mem[rsp] = "regs"
     THEN pc' = "save" /\ mem' = [mem EXCEPT ![rsp + 1] = gpr["rax"]] /\ rsp' = rsp + 1
     ELSE pc' = "oops" /\ UNCHANGED <<mem, rsp>>
  /\ gpr' = [gpr EXCEPT !["rax"] = "regs"]
  /\ UNCHANGED <<regs, host_rsp, vmcs, current, base, kept, lost, failed>>

\* A variant that stores all registers as they are, when rax has already been reused.
SaveAllAlike ==
  /\ Go("save", "return")
  /\ regs' = gpr /\ rsp' = rsp + 1
  /\ UNCHANGED <<host_rsp, vmcs, current, gpr, mem, base, kept, lost, failed>>

\* pop the guest's rax into regs, then store the other registers there.
SaveRegs ==
  /\ Go("save", "return")
  /\ regs' = [gpr EXCEPT !["rax"] = mem[rsp]] /\ rsp' = rsp + 1
  /\ UNCHANGED <<host_rsp, vmcs, current, gpr, mem, base, kept, lost, failed>>

\* setbe and the last pop.  The address of fail counts from an rsp that is one word off, or
\* from an rbp that is the guest's: setbe misses fail, which stays 0, and hits the pushed
\* vmx or anything else; nor are the caller's registers its own again.  Only a build and a
\* guest for which this does no harm go on, and only to a caller whose stack is found.
Return ==
  /\ pc = "return" /\ rsp' = rsp + 1 /\ failed' = FALSE
  /\ pc' \in {"astray"} \union (IF mem[rsp] = "vmx" /\ rsp' = base THEN {"put"} ELSE {})
  /\ UNCHANGED <<regs, host_rsp, vmcs, current, gpr, mem, base, kept, lost>>

\* vmx_run returns no value, so svm_launch may take any branch; all leave the loop.
\* svm_put_vcpu gives the VMCS back, cleared or not.
svm_put_vcpu ==
  /\ Go("put", "idle") /\ current' = "nowhere"
  /\ vmcs' \in {vmcs, [vmcs EXCEPT !.launched = FALSE]}
  /\ UNCHANGED <<regs, host_rsp, gpr, rsp, mem, base, kept, lost, failed>>

RunVcpu ==
  /\ \/ svm_load_vcpu \/ Preempted \/ Push \/ SyncHostRsp \/ LoadRegs \/ Enter \/ GuestRuns
     \/ SaveRax \/ SaveRegs \/ Return \/ svm_put_vcpu
  /\ UNCHANGED resumes

------------------------------------------------------------------------------
\* Whatever happens between two entries (a refused entry, a call from another depth of the
\* stack, a thread that is moved, the VMCS given back), the guest goes on with the
\* registers it left, and between them regs holds them: __vmx_run_vcpu never comes back
\* without having stored them.
RegsSurvive ==
  /\ pc = "guest" => gpr = kept
  /\ pc = "idle" => regs = kept

\* The stack of one's own entry is found again, with the two words popped from it, after
\* every refused entry; and after every exit, although the code trusts its copy of
\* HOST_RSP, unless the last vmwrite has been lost (svm_load_vcpu failed, or the thread
\* had been moved).  Then the copy is believed in later calls too, up to the next depth.
ReturnsToCaller ==
  \/ lost /\ ~failed
  \/ /\ pc # "oops"
     /\ pc = "save" => rsp + 2 = base
     /\ pc = "return" => mem[rsp] = "vmx" /\ rsp + 1 = base
===============================================================================
