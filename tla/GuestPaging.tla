------------------------------ MODULE GuestPaging ------------------------------
(***************************************************************************)
(* The way of the demo guest from protected to long mode: entry32 of       *)
(* learn.S with pae_enable, clear_4k_pages and init_paging of page64.S.    *)
(* Memory is counted in 4K frames; a virtual page is the sequence of its   *)
(* table indexes.  entry holds the table entries that were stored; a       *)
(* cleared frame is zero elsewhere.  Other frames are zero too in a new    *)
(* guest, but the code does not rely on it.                                *)
(***************************************************************************)
EXTENDS Naturals, Sequences

VARIABLES
  pc,       \* "cr4", "pae", "init", "clear", "store", "switch", then "long" or "fault"
  k,        \* position in Clears or Stores
  pae,      \* what CPUID says; cr4.PAE after pae_enable
  vmx,      \* the guest may set cr4.VMXE: nested VMX on an Intel host
  bsp,      \* bit 8 of IA32_APIC_BASE
  cleared,  \* frames clear_4K_page has zeroed
  entry     \* <<table, index>> -> [frame, flags]

vars == <<pc, k, pae, vmx, bsp, cleared, entry>>

\* The combinations of RW, US, P and PS in the listing.
K == {"RW", "P"}
U == {"RW", "US", "P"}
BigK == K \union {"PS"}
BigU == U \union {"PS"}

PML4T_BASE == \h200

\* A variant that clears fewer pages than are used.
ClearsTooFew == [n \in 1 .. 9 |-> \h200 + n - 1] \o [n \in 1 .. 5 |-> \h300 + n - 1]

\* The frames in the order they are cleared: 15, 3 and 5 pages.
Clears == [n \in 1 .. 15 |-> \h200 + n - 1] \o [n \in 1 .. 3 |-> \h201 + n - 1]
          \o [n \in 1 .. 5 |-> \h300 + n - 1]

\* The stores into the tables: table, index, frame, flags.  The two entries without P
\* (of 0x301000 and of page 1) are not present.
TableStores == <<
  <<\h200, 0, \h201, U>>, <<\h200, \h1FF, \h202, K>>, <<\h200, \hFF, \h300, U>>,
  <<\h201, 0, \h203, U>>, <<\h203, 0, \h205, U>>, <<\h203, 1, \h200, BigK>>,
  <<\h203, 2, \h207, K>>, <<\h203, \h40, \h8000, BigU>>, <<\h203, 4, \hFEE00, BigK>>,
  <<\h202, \h1E0, \h204, U>>, <<\h204, 0, \h206, K>>, <<\h204, \h80, \h208, K>>,
  <<\h202, \h1FF, \h209, K>>, <<\h300, \h1FC, \h301, U>>, <<\h300, \h1FF, \h302, U>>,
  <<\h301, 0, \h800, BigU \ {"P"}>>, <<\h302, \h1FF, \h303, U>>,
  <<\h209, \h1FF, \hA00, BigK>>, <<\h205, 1, 0, U \ {"P"}>> >>

\* Variants: the first code page is missed, and a page beyond the guest's memory is mapped.
CodeStoresLate == [n \in 1 .. 17 |-> <<\h205, n + 9, n + 9, U>>]
CodeStoresFar == [n \in 1 .. 17 |-> <<\h205, n + 8, n + 8, U>>] \o << <<\h205, \h90, \h90, U>> >>

CodeStores == [n \in 1 .. 17 |-> <<\h205, n + 8, n + 8, U>>] \o << <<\h205, \h20, \h20, U>> >>

\* A variant that also puts the system data into the user half.
PageStoresUser == << <<\h205, \hB8, \hB8, U>>, <<\h205, \h30, \h410, U>> >>

PageStores == <<
  <<\h205, \hB8, \hB8, U>>, <<\h205, \hB9, \hB9, U>>,
  <<\h206, 0, \h410, K>>, <<\h206, 1, \h411, K>>, <<\h208, 0, \h412, K>>,
  <<\h208, 1, \h413, K>>, <<\h303, 0, \h414, U>>, <<\h303, 1, \h415, U>>,
  <<\h303, 2, \h416, U>>, <<\h303, 3, \h417, U>> >>

Stores == TableStores \o CodeStores \o PageStores

Init ==
  /\ pc = "cr4" /\ k = 1 /\ pae \in BOOLEAN /\ vmx \in BOOLEAN /\ bsp \in BOOLEAN
  /\ cleared = {} /\ entry = << >>

\* entry32 sets OSFXSR and, as bit 13, VMXE: a #GP where that is not allowed, and there
\* is no handler yet.
SetCr4 ==
  /\ pc = "cr4"
  /\ pc' = IF vmx THEN "pae" ELSE "fault"
  /\ UNCHANGED <<k, pae, vmx, bsp, cleared, entry>>

pae_enable == pc = "pae" /\ pc' = "init" /\ UNCHANGED <<k, pae, vmx, bsp, cleared, entry>>

init_paging ==
  /\ pc = "init"
  /\ pc' = IF bsp THEN "clear" ELSE "switch"
  /\ UNCHANGED <<k, pae, vmx, bsp, cleared, entry>>

\* One round of clear_4k_pages.
clear_4K_page ==
  /\ pc = "clear"
  /\ cleared' = cleared \union {Clears[k]}
  /\ entry' = [p \in {q \in DOMAIN entry : q[1] # Clears[k]} |-> entry[p]]
  /\ IF k = Len(Clears) THEN pc' = "store" /\ k' = 1 ELSE k' = k + 1 /\ UNCHANGED pc
  /\ UNCHANGED <<pae, vmx, bsp>>

\* One entry: the low half, then zero to the high half.
Store ==
  /\ pc = "store"
  /\ LET s == Stores[k]
     IN  entry' = [p \in DOMAIN entry \union {<<s[1], s[2]>>} |->
                     IF p = <<s[1], s[2]>> THEN [frame |-> s[3], flags |-> s[4]] ELSE entry[p]]
  /\ IF k = Len(Stores) THEN pc' = "switch" /\ UNCHANGED k ELSE k' = k + 1 /\ UNCHANGED pc
  /\ UNCHANGED <<pae, vmx, bsp, cleared>>

------------------------------------------------------------------------------
\* What the processor finds.  Entries of table t that are present:
Present(t) == {p \in DOMAIN entry : p[1] = t /\ "P" \in entry[p].flags}

\* The present entries below PML4T_BASE, each with its path of indexes, the frame it names,
\* and whether user mode may pass.
Level4 == {[path |-> <<p[2]>>, frame |-> entry[p].frame,
            user |-> "US" \in entry[p].flags, big |-> FALSE] : p \in Present(PML4T_BASE)}
Below(level) ==
  UNION {{[path |-> Append(e.path, p[2]), frame |-> entry[p].frame,
           user |-> e.user /\ "US" \in entry[p].flags, big |-> "PS" \in entry[p].flags]
          : p \in Present(e.frame)} : e \in {f \in level : ~f.big}}
Level3 == Below(Level4)
Level2 == Below(Level3)
Level1 == Below(Level2)

\* Frames a walk reads, and the mappings: 4K pages and, with PS, runs of 512.
TablesWalked == {PML4T_BASE} \union {e.frame : e \in Level4 \union Level3}
                \union {e.frame : e \in {f \in Level2 : ~f.big}}
Mappings == Level1 \union {e \in Level2 : e.big}
Frames(m) == IF m.big THEN m.frame .. m.frame + 511 ELSE {m.frame}

CodePage == <<0, 0, 0, 9>>  \* 0x9000, where entry32 runs

\* cr3, EFER.LME and cr0.PG.  Without PAE that is #GP, without tables the next fetch
\* faults, and there is no handler yet.
EnterLongMode ==
  /\ pc = "switch"
  /\ pc' = IF pae /\ \E m \in Mappings : m.path = CodePage THEN "long" ELSE "fault"
  /\ UNCHANGED <<k, pae, vmx, bsp, cleared, entry>>

Next == SetCr4 \/ pae_enable \/ init_paging \/ clear_4K_page \/ Store \/ EnterLongMode

Spec == Init /\ [][Next]_vars
FairSpec == Spec /\ WF_vars(Next)

------------------------------------------------------------------------------
TableFrames == \h200 .. \h209 \union \h300 .. \h303
SystemData == \h410 .. \h413     \* GDT, IDT and TSS, and the IST1 page
KernelStacks == \hA00 .. \hBFF
ApicFrames == {\hFEE00}
DeviceFrames == {\hB8, \hB9, \h8000}  \* MMIO the launcher handles: video and 0x8000000

\* Memory the launcher gives the guest (vm.c): 0x80000 bytes at 0x7000 and 0x4000000
\* bytes at 0x100000.
GuestRam == 7 .. 7 + \h80 - 1 \union \h100 .. \h100 + \h4000 - 1

\* At every moment a page walk reads cleared tables only, never what happened to be in
\* memory.
WalksDefined == DOMAIN entry # {} => TablesWalked \subseteq cleared

\* User mode reaches no page table, descriptor table, kernel stack or APIC register,
\* although the tables for both halves share entries with US.  (The kernel's code pages
\* are open to it, for writing too.)
UserIsolated ==
  \A m \in Mappings : m.user =>
    Frames(m) \intersect (TableFrames \union SystemData \union KernelStacks \union ApicFrames) = {}

Maps(path, frame, user) ==
  \E m \in Mappings : m.path = path /\ m.frame = frame /\ m.user = user

\* The mappings announced in the comments of page64.S: code and video memory one to one,
\* the APIC at 0x800000, system data at 0xfffffff800000000 and 0xfffffff810000000, the
\* kernel stack, and one user stack for each processor.
Announced ==
  /\ \A f \in 9 .. \h19 \union {\h20, \hB8, \hB9} : Maps(<<0, 0, 0, f>>, f, TRUE)
  /\ Maps(<<0, 0, 4>>, \hFEE00, FALSE)
  /\ \A n \in 0 .. 1 : Maps(<<\h1FF, \h1E0, 0, n>>, \h410 + n, FALSE)
  /\ \A n \in 0 .. 1 : Maps(<<\h1FF, \h1E0, \h80, n>>, \h412 + n, FALSE)
  /\ Maps(<<\h1FF, \h1FF, \h1FF>>, \hA00, FALSE)
  /\ \A n \in 0 .. 3 : Maps(<<\hFF, \h1FF, \h1FF, n>>, \h414 + n, TRUE)

\* Every 4K mapping leads to memory that the launcher set up or to one of its devices, and
\* in long mode the announced ones are in force.  A large page lies in that memory or
\* starts with a device and holds no memory: behind the device nothing answers, and a
\* store there ends the launcher.
Backed ==
  /\ \A m \in Mappings :
       IF m.big
       THEN \/ Frames(m) \subseteq GuestRam
            \/ m.frame \in DeviceFrames \union ApicFrames /\ Frames(m) \intersect GuestRam = {}
       ELSE Frames(m) \subseteq GuestRam \union DeviceFrames
  /\ pc = "long" => Announced

\* A guest with VMX and PAE on the boot processor gets to long mode; a launcher whose
\* KVM_SET_CPUID2 failed unnoticed hides PAE and the guest faults.
Reaches == <>(IF vmx /\ pae /\ bsp THEN pc = "long" ELSE pc = "fault")
===============================================================================
