------------------------------- MODULE VmxModule -------------------------------
(***************************************************************************)
(* A vCPU of the VMX kernel module, from its configuration to any number   *)
(* of entries: the VMCB is set up, MSRs are opened or closed to the guest  *)
(* as long as it does not run, and svm_launch is called again and again.   *)
(* The callers are not part of the repository; this is the order the       *)
(* functions allow.                                                        *)
(***************************************************************************)
EXTENDS VmcbSetup, MsrPermMap, VmxVcpu

vars == <<setupVars, msrVars, vcpuVars>>

Init == SetupInit /\ MsrInit /\ VcpuInit

Configure == Setup /\ UNCHANGED <<msrVars, vcpuVars>>

Moved == Migrate /\ UNCHANGED <<msrVars, vcpuVars>>

Intercept ==
  /\ phase = "ready" /\ pc = "idle"
  /\ \E msr \in Msrs, read, write \in BOOLEAN : set_msr_interception(msr, read, write)
  /\ UNCHANGED <<setupVars, vcpuVars>>

svm_launch ==
  /\ phase = "ready" /\ ~dead
  /\ RunVcpu
  /\ UNCHANGED <<setupVars, msrVars>>

Next == Configure \/ Moved \/ Intercept \/ svm_launch

Spec == Init /\ [][Next]_vars
===============================================================================
