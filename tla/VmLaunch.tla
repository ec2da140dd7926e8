------------------------------- MODULE VmLaunch -------------------------------
(***************************************************************************)
(* The launcher vm.c from parse_argv to the loop around KVM_RUN: after the *)
(* options a row of calls, each of which may fail.  Some results are       *)
(* tested, some are not, and a failed mmap (MAP_FAILED, not NULL) passes   *)
(* its test: what matters is which failures reach a running guest.         *)
(***************************************************************************)
EXTENDS LaunchOptions

VARIABLES
  step,    \* position in Calls
  failed,  \* calls that failed and were passed over
  out      \* "setup", "run", "exit" (reported) or "crash"

launchVars == <<optionVars, step, failed, out>>

\* kvm_init: up to "irqefd"; set_ioeventfd_mmio: "irqfd".
Calls == << "open_kvm", "api_version", "ioefd", "irqefd", "open_image", "fstat",
            "create_vm", "mmap1", "read_image", "slot0", "mmap2", "slot2", "split_irqchip",
            "gsi_routing", "create_vcpu", "set_cpuid", "mmap_size", "irqfd", "map_run",
            "get_sregs", "set_sregs", "set_regs" >>

\* A variant that passes over the result of read, too.
UntestedRead == {"ioefd", "mmap1", "read_image", "mmap2", "split_irqchip", "gsi_routing",
                 "set_cpuid", "mmap_size", "map_run"}

\* Calls whose failure does not stop the launcher: the result is overwritten (ioefd),
\* printed only, ignored (set_cpuid), compared with NULL (mmap) or as an unsigned number
\* with 0 (mmap_size).
Untested == {"ioefd", "mmap1", "mmap2", "split_irqchip", "gsi_routing", "set_cpuid",
             "mmap_size", "map_run"}

\* What the kernel needs for a call to succeed: a buffer for read, an aligned address for
\* a memory slot, an in-kernel irqchip for a route and for an irqfd, a sane length for
\* mmap.
Needs(c) ==
  CASE c \in {"read_image", "slot0"} -> {"mmap1"}
    [] c = "slot2" -> {"mmap2"}
    [] c \in {"gsi_routing", "irqfd"} -> {"split_irqchip"}
    [] c = "map_run" -> {"mmap_size"}
    [] OTHER -> {}

LaunchInit == OptionsInit /\ step = 1 /\ failed = {} /\ out = "setup"

Parse == out = "setup" /\ parse_argv /\ UNCHANGED <<step, failed, out>>

ParseFailed ==
  /\ out = "setup" /\ optpc = "invalid"
  /\ out' = "exit"
  /\ UNCHANGED <<optionVars, step, failed>>

\* The call that is due.
Due(c) == out = "setup" /\ optpc = "parsed" /\ step <= Len(Calls) /\ c = Calls[step]

\* The call succeeds; a short read counts as one.
Succeeds ==
  \E c \in ToSet(Calls) :
    /\ Due(c) /\ Needs(c) \intersect failed = {}
    /\ step' = step + 1
    /\ \/ UNCHANGED failed
       \/ c = "read_image" /\ failed' = failed \union {"rest_of_image"}
    /\ UNCHANGED <<optionVars, out>>

Fails ==
  \E c \in ToSet(Calls) :
    /\ Due(c)
    /\ IF c \in Untested
       THEN step' = step + 1 /\ failed' = failed \union {c} /\ UNCHANGED out
       ELSE out' = "exit" /\ UNCHANGED <<step, failed>>
    /\ UNCHANGED optionVars

\* The first KVM_RUN, after which run->exit_reason is read through the mapping.
EnterLoop ==
  /\ out = "setup" /\ step > Len(Calls)
  /\ out' = IF "map_run" \in failed THEN "crash" ELSE "run"
  /\ UNCHANGED <<optionVars, step, failed>>

Launch == Parse \/ ParseFailed \/ Succeeds \/ Fails \/ EnterLoop

------------------------------------------------------------------------------
\* A guest runs only with its memory, its vCPU, its interrupt and its start state in
\* place.  Of the failures the launcher does not test for, the later calls catch those of
\* mmap and of the irqchip; an unrouted interrupt, an empty CPUID and a truncated image
\* remain, and ioefd, which nothing uses; later, in the loop, a signal that is not written.
SurvivingFailures ==
  out = "run" => failed \subseteq {"ioefd", "gsi_routing", "set_cpuid", "rest_of_image", "write"}
===============================================================================
