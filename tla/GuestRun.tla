------------------------------- MODULE GuestRun -------------------------------
(***************************************************************************)
(* A run of the demo guest under the launcher.  The guest (learn.S from    *)
(* entry64 on, set_interrupt_handler of libs64.S, apic_timer_handler of    *)
(* handler64.S) sets up its tables, goes to user mode and stores to        *)
(* 0x8000000.  The launcher (the loop in main of vm.c) sees that as an     *)
(* MMIO exit, waits for a key and signals irqefd; KVM turns the signal     *)
(* into vector 0x30.  One thread runs both, inside or outside of KVM_RUN,  *)
(* but the injection happens behind its back.                              *)
(***************************************************************************)
EXTENDS VmLaunch, Console

CONSTANT MaxSerial  \* bound on the bytes a guest gone astray puts to the serial port

ASSUME SerialAssumption == MaxSerial \in Nat

VARIABLES
  exit,    \* why KVM_RUN has returned: "none" while the guest runs
  guest,   \* where the guest is
  n, s,    \* gate being built and store within set_interrupt_handler
  idt,     \* bytes of the gates, by vector
  iflag,   \* RFLAGS.IF
  apic,    \* APIC software-enabled
  sig,     \* irqefd signalled, not yet injected
  irr, isr \* vector 0x30 pending, in service

guestVars == <<guest, n, s, idt, iflag, apic>>
vars == <<launchVars, exit, guestVars, consoleVars, sig, irr, isr>>

TIMER == 48  \* APIC_TIMER_VECTOR, 0x30

\* The vectors in the order of learn.S: DE, NMI, OF, UD, NM, DF, TS, NP, GP, MC, PF, DB
\* and the timer.
Vectors == <<0, 2, 4, 6, 7, 8, 10, 11, 13, 18, 14, 1, TIMER>>

------------------------------------------------------------------------------
\* Byte b (0 lowest) of the address of vector v's handler, and a byte of known value.
Off(v, b) == <<v, b>>
Byte(x) == <<x>>
SelByte(b) == Byte(IF b = 0 THEN 40 ELSE 0)  \* kernel_code64_sel
INTERRUPT_GATE == Byte(128 + 14)             \* 0x80 | INTERRUPT_GATE64

EmptyGate == [b \in 0 .. 15 |-> Byte(0)]

\* A variant with the selector stored before the address.
StoresSelectorFirst(v) ==
  << [b \in 2 .. 3 |-> SelByte(b - 2)], [b \in 0 .. 7 |-> Off(v, b)],
     [b \in 4 .. 11 |-> Off(v, b - 4)], [b \in 4 .. 5 |-> Byte(0)], [b \in {5} |-> INTERRUPT_GATE] >>

\* The five overlapping stores of set_interrupt_handler.
GateStores(v) ==
  << [b \in 0 .. 7 |-> Off(v, b)], [b \in 4 .. 11 |-> Off(v, b - 4)],
     [b \in 2 .. 3 |-> SelByte(b - 2)], [b \in 4 .. 5 |-> Byte(0)], [b \in {5} |-> INTERRUPT_GATE] >>

\* What the processor reads from a gate: handler address, selector, IST and type.
Offset(g) == <<g[0], g[1], g[6], g[7], g[8], g[9], g[10], g[11]>>
LeadsTo(g, v) ==
  /\ Offset(g) = [b \in 1 .. 8 |-> Off(v, b - 1)]
  /\ g[2] = SelByte(0) /\ g[3] = SelByte(1) /\ g[4] = Byte(0) /\ g[5] = INTERRUPT_GATE
  /\ \A b \in 12 .. 15 : g[b] = Byte(0)

------------------------------------------------------------------------------
Init ==
  /\ LaunchInit /\ ConsoleInit
  /\ exit = "none" /\ guest = "boot" /\ n = 1 /\ s = 1
  /\ idt = [v \in {Vectors[m] : m \in DOMAIN Vectors} |-> EmptyGate]
  /\ iflag = FALSE /\ apic = FALSE
  /\ sig = FALSE /\ irr = FALSE /\ isr = FALSE

Setup == Launch /\ UNCHANGED <<exit, guestVars, consoleVars, sig, irr, isr>>

\* Guest code runs inside KVM_RUN.
Running == out = "run" /\ exit = "none"

\* _start with sti, then entry32, which gets to long mode or faults for want of a handler
\* (GuestPaging); a truncated image and an empty CPUID are taken to end in a fault.
Boot ==
  /\ Running /\ guest = "boot"
  /\ guest' = "tables" /\ iflag' = TRUE
  /\ {"set_cpuid", "rest_of_image"} \intersect failed = {}
  /\ UNCHANGED <<launchVars, exit, n, s, idt, apic, consoleVars, sig, irr, isr>>

BootFaults ==
  /\ Running /\ guest = "boot"
  /\ guest' = "fault"
  /\ UNCHANGED <<launchVars, exit, n, s, idt, iflag, apic, consoleVars, sig, irr, isr>>

\* Triple fault: KVM_EXIT_SHUTDOWN.
Shutdown ==
  /\ Running /\ guest = "fault"
  /\ exit' = "shutdown"
  /\ UNCHANGED <<launchVars, guestVars, consoleVars, sig, irr, isr>>

\* System data copied, cli, GDT, IDT and TSS loaded.
Tables ==
  /\ Running /\ guest = "tables"
  /\ guest' = "gates" /\ iflag' = FALSE
  /\ UNCHANGED <<launchVars, exit, n, s, idt, apic, consoleVars, sig, irr, isr>>

\* One store of set_interrupt_handler; after the last gate come sti and enable_apic.
SetGate ==
  LET v == Vectors[n]
      w == GateStores(v)[s]
      lastStore == s = Len(GateStores(v))
      lastGate == lastStore /\ n = Len(Vectors)
  IN  /\ Running /\ guest = "gates"
      /\ idt' = [idt EXCEPT ![v] = [b \in 0 .. 15 |-> IF b \in DOMAIN w THEN w[b] ELSE @[b]]]
      /\ s' = IF lastStore THEN 1 ELSE s + 1
      /\ n' = IF lastStore /\ ~lastGate THEN n + 1 ELSE n
      /\ guest' = IF lastGate THEN "apic" ELSE "gates"
      /\ iflag' = lastGate
      /\ UNCHANGED <<launchVars, exit, apic, consoleVars, sig, irr, isr>>

enable_apic ==
  /\ Running /\ guest = "apic"
  /\ guest' = "user" /\ apic' = TRUE
  /\ UNCHANGED <<launchVars, exit, n, s, idt, iflag, consoleVars, sig, irr, isr>>

\* user_entry: the store leaves to the launcher, then jmp .
UserStore ==
  /\ Running /\ guest = "user"
  /\ guest' = "spin" /\ exit' = "device"
  /\ UNCHANGED <<launchVars, n, s, idt, iflag, apic, consoleVars, sig, irr, isr>>

\* A truncated image: the guest runs into whatever follows.
Astray ==
  /\ Running /\ guest = "boot" /\ "rest_of_image" \in failed
  /\ exit' \in {"serial", "io", "mmio", "hlt", "other"}
  /\ exit' = "serial" => Len(shown) < MaxSerial
  /\ UNCHANGED <<launchVars, guestVars, consoleVars, sig, irr, isr>>

\* The interrupt is taken through its gate, which clears IF.
Deliver ==
  /\ Running /\ irr /\ iflag /\ ~isr
  /\ guest' = "handler" /\ iflag' = FALSE
  /\ StartPutting
  /\ irr' = FALSE /\ isr' = TRUE
  /\ UNCHANGED <<launchVars, exit, n, s, idt, apic, sig>>

\* apic_timer_handler says that it is entered, dumps the registers of the local APIC and
\* says that it is left, character by character; each one stored leaves KVM_RUN.
HandlerPut ==
  /\ Running /\ guest = "handler"
  /\ \/ MoveOn /\ UNCHANGED exit
     \/ StoreChar /\ exit' = "video"
  /\ UNCHANGED <<launchVars, guestVars, sig, irr, isr>>

\* A variant that returns without EOI.
HandlerNoEoi ==
  /\ Running /\ guest = "handler" /\ rest = << >>
  /\ guest' = "spin" /\ iflag' = TRUE
  /\ UNCHANGED <<launchVars, exit, n, s, idt, apic, consoleVars, sig, irr, isr>>

\* Then it writes EOI and returns with the interrupted flags.
HandlerEnd ==
  /\ Running /\ guest = "handler" /\ rest = << >>
  /\ isr' = FALSE /\ guest' = "spin" /\ iflag' = TRUE
  /\ UNCHANGED <<launchVars, exit, n, s, idt, apic, consoleVars, sig, irr>>

Guest == \/ Boot \/ BootFaults \/ Shutdown \/ Astray \/ Tables \/ SetGate \/ enable_apic
         \/ UserStore \/ Deliver \/ HandlerPut \/ HandlerEnd

------------------------------------------------------------------------------
\* KVM_RUN returns for a reason of the host's, or with -1 (a signal).
HostExit ==
  /\ Running
  /\ exit' \in {"unknown", "system_event", "fail_entry", "internal_error", "error"}
  /\ UNCHANGED <<launchVars, guestVars, consoleVars, sig, irr, isr>>

\* A store to video memory.
Show ==
  /\ out = "run" /\ exit = "video"
  /\ MmioVideo /\ exit' = "none"
  /\ UNCHANGED <<launchVars, guestVars, sig, irr, isr>>

\* Exits the loop passes over: a shutdown is no reason to stop, and a byte for the serial
\* port is put out as it is.
Resume ==
  /\ out = "run" /\ exit \in {"serial", "shutdown", "unknown", "system_event"}
  /\ exit' = "none"
  /\ shown' = IF exit = "serial" THEN Append(shown, exit) ELSE shown
  /\ UNCHANGED <<launchVars, guestVars, job, rest, video_current, store, sig, irr, isr>>

\* The lines that report the store to the device and a failed write.
PageFault == <<NL, "page_fault", NL>>
WriteFailed == <<"write_failed", NL>>

\* A variant that goes on without signalling.
HandleDeviceSilent ==
  /\ out = "run" /\ exit = "device"
  /\ exit' = "none" /\ shown' = shown \o PageFault
  /\ UNCHANGED <<launchVars, guestVars, job, rest, video_current, store, sig, irr, isr>>

\* The store to 0x8000000: getchar, write to irqefd; a failed write is only reported.
HandleDevice ==
  /\ out = "run" /\ exit = "device"
  /\ \/ sig' = TRUE /\ shown' = shown \o PageFault /\ UNCHANGED failed
     \/ failed' = failed \union {"write"} /\ shown' = shown \o PageFault \o WriteFailed /\ UNCHANGED sig
  /\ exit' = "none"
  /\ UNCHANGED <<optionVars, step, out, guestVars, job, rest, video_current, store, irr, isr>>

\* Other ports, other MMIO addresses, HLT and everything else end the program; the first
\* three are reported on standard output, the others on standard error.
Stop ==
  /\ out = "run"
  /\ exit \in {"fail_entry", "internal_error", "error", "io", "mmio", "hlt", "other"}
  /\ out' = "exit"
  /\ shown' = IF exit \in {"io", "mmio", "hlt"} THEN shown \o <<exit, NL>> ELSE shown
  /\ UNCHANGED <<optionVars, step, failed, exit, guestVars, job, rest, video_current, store, sig, irr, isr>>

Loop == Show \/ Resume \/ HandleDevice \/ Stop

\* KVM: the route of irqefd is an MSI with vector 0x30 to an enabled local APIC; without
\* a route the signal is lost.
Inject ==
  /\ out = "run" /\ sig
  /\ sig' = FALSE /\ irr' = (irr \/ ("gsi_routing" \notin failed /\ apic))
  /\ UNCHANGED <<launchVars, exit, guestVars, consoleVars, isr>>

Next == Setup \/ Guest \/ HostExit \/ Loop \/ Inject

Spec == Init /\ [][Next]_vars

\* The thread that runs launcher and guest is scheduled, KVM handles the signal, and a
\* key is pressed; the host need not send the guest back for ever.
FairSpec == Spec /\ WF_vars(Setup) /\ SF_vars(Guest) /\ WF_vars(Loop) /\ WF_vars(Inject)

------------------------------------------------------------------------------
\* Whenever the guest can take an interrupt after the boot, the overlapping stores have
\* made every gate lead to its handler.
GatesComplete ==
  iflag /\ guest # "tables" => \A v \in DOMAIN idt : LeadsTo(idt[v], v)

\* The interrupt finds the guest spinning in user mode with interrupts on, never half
\* way through its setup, and is never taken twice.
InterruptInTime ==
  /\ sig \/ irr \/ isr => apic /\ guest \in {"spin", "handler"}
  /\ isr = (guest = "handler")
  /\ guest = "handler" => ~irr /\ ~sig

\* The store to the device, and the key the launcher then waits for, lead to a run of the
\* handler that puts all it has to, writes EOI and lets the guest spin on, unless the
\* launcher stops, has no route or could not write to irqefd.
KeyServed ==
  exit = "device" /\ "gsi_routing" \notin failed
    ~> \/ guest = "spin" /\ job.before # << >> /\ rest = << >> /\ ~isr
       \/ out = "exit" \/ "write" \in failed

\* What the launcher itself puts out before the handler runs.
Opening ==
  IF guest \notin {"spin", "handler"} \/ exit = "device" THEN << >>
  ELSE IF "write" \in failed THEN PageFault \o WriteFailed ELSE PageFault

\* Standard output shows the launcher's report of the device store, once, and then the
\* handler's messages and the number, wrapped at the width of the screen, each character
\* once however often the host has interrupted KVM_RUN, until the screen is full; from
\* then on nothing more.  Bytes for the serial port and reports of other exits come only
\* from a guest that has gone astray while it boots.
TerminalFaithful ==
  exit # "video" =>
    IF guest \in {"boot", "fault"} THEN
      /\ ToSet(shown) \subseteq {"serial", "io", "mmio", "hlt", NL}
      /\ shown # << >> => "rest_of_image" \in failed
    ELSE IF job.before = << >> THEN shown = Opening
    ELSE LET text == Characters(job)
             due == Opening \o Terminal(text)[Len(text) - Len(rest)]
         IN  Says(text, job) /\ IsPrefix(shown, due) /\ (video_current <= LAST => shown = due)
===============================================================================
