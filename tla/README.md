# Specifications of virt_learn_program

TLA+ models of the programs in this repository, checked with TLC on small
instances, and theorems about all of them, proved with TLAPS.
`PROJECT.json` lists components, runs, mutants, hazards, theorems and the source
lines every definition models.

## Inventory

The repository holds independent programs that each exercise one part of
virtualization.

| Part | Source | State | Operations | Hard behaviour | Correct when |
|---|---|---|---|---|---|
| custom virtio device, front end | virtio/virtio_custdev.c | struct virtio_custom_device (count, lengths, read_data, completion), two virtqueues, kernel heap | read, write, two callbacks | unlocked sharing between calls and interrupts, ignored results, waiting | count stays in its array, buffers have one owner, calls on a queue do not overlap, a read returns the youngest message |
| its module life cycle | virtio/virtio_custdev.c | registration, proc entry, instance | init, probe, remove, exit | calls under way while the module goes | no call on a freed or half set-up instance, unloading ends |
| custom virtio device, back end | virtio/virtio-custdev.c | rcv_bufs, rcv_count | two queue handlers, unrealize | lost and merged notifications, unchecked pops | stored messages are those the guest counts, each freed once |
| KVM launcher | vm.c | fds, memory slots, vCPU, CPUID table | options, KVM setup, CPUID table, run loop | one failing step of many, array limits, an interrupt behind its back | table bounded and complete, known failures get through only, a key is served |
| guest image | asm/ | page tables, IDT, local APIC, text screen | mode switches, paging, handlers, printing | tables and offsets written by hand, interrupt entry and exit, nesting | user mode reaches no tables, kernel stack or APIC, gates complete, output and reports right |
| VFIO probe | vfio.c | container, group and device fds | open, attach, query, cleanup | a ladder of labels, one of which closes a number never set | everything opened is closed |
| VMX kernel module | vmx_mod/ | VMCB save area, MSR permission map, vmx->regs, host_rsp, VMCS | configuring, MSR interception, entering and leaving a guest | reads from a processor the thread may leave, bit positions, registers passed through a stack found again by a cached pointer | it is known which fields reach the guest unset, one MSR's bits are its own, registers survive, the stack is balanced |

How they interact: front end and back end talk through two virtqueues, kicks and
interrupts only; processes reach the front end through a proc file. The
launcher loads the guest image, gives it CPUID and memory, and sees its stores to
video memory and to the device address 0x8000000 as MMIO exits; it answers
through an eventfd that KVM turns into interrupt vector 0x30.

## Modules

| Module | Models |
|---|---|
| Virtqueue | the ring between front and back end (Linux and QEMU code, from the calls made) |
| CustdevState, CustdevDriver, CustdevDevice, Custdev | state, front-end operations, back-end handlers, their composition and properties |
| MessageStack | abstract specification: what the device promises a client |
| CustdevLifecycle | init, probe, remove, exit against processes that use the file |
| CpuidTable | vm_init_cpuid |
| LaunchOptions, VmLaunch, GuestRun | parse_argv; main of vm.c up to the loop; the loop with the guest from boot to its interrupt handler. Each extends the one before |
| GuestPaging | entry32 and page64.S: every store into the page tables, and the processor's walk |
| Console | puts, putc, hex printing in the guest, and the terminal the launcher writes; a part of GuestRun |
| ExceptionHandlers | the handlers of handler64.S and the frames they read |
| VfioSession | init_pci_data and main of vfio.c |
| VmcbSetup, MsrPermMap, VmxVcpu, VmxModule | svm_config_init and setup_guest_regs; the MSR permission map; svm_launch and the asm statement that enters a guest; the three together |
| MCCustdev, MCGuestRun, MCVmxModule | instances for TLC |
| Numerals | what a sequence of digits stands for: the reference for LaunchOptions and Console |
| *_proofs | theorems; GuestRun_proofs also those about LaunchOptions, VmLaunch and Console |

### The custom virtio device

A client is a process; `pc[c]` and `loc[c]` are its place in read or write and its local
variables. A call is cut wherever it touches state that others touch: `buffers++` of
write is a load and a store (`WriteLoad`, `WriteStore`), the `buf_lens` it then sets is
a third step, copy_to_user (`ReadCopy`) may sleep before the correction of a short copy
loads `buffers` again (`ReadShort`, `ReadFix`), and `buffers--` in the receive callback
is a load (`virtio_custdev_inbuf_cb`) and a store with `complete` (`InbufComplete`).
`buffers` and `rcv_count` are unsigned and wrap at UMAX; `buf_lens` has the elements 0
to BUFFERS - 1 (`Slots`). A read uses `buf_lens[buffers]` after the callback took its
message off the count, and when a writer has filled the last slot by then that is
`buf_lens[BUFFERS]`, one past the end: the model gives this cell a place, since in this
build it is padding in front of `read_data` (`Cells`), and LensWithin says that nothing
else leaves the array. An index beyond that cell makes `kern = "fault"`, one that leaves
`rcv_bufs` or a NULL element makes `dev` "oob" or "nullpop". After such an access the
model stops.

A call returns what the code returns: a full device ENOSPC and a failed kmalloc of write 1,
both positive, so that the caller takes them for 28 bytes and one byte accepted. `ret`
keeps that number, and `MessageStack` promises no more: a write that returns 28 or 1 may
or may not have stored something.

The operators of `Virtqueue` are whole calls. Linux leaves it to the driver that no two
calls on one queue overlap, and the driver takes no lock. So whenever a client is inside
virtqueue_add while another one is inside add or kick of the same queue, or while the
callback has a buffer to take, `Race` may corrupt the queue (`kern` "tx_raced" or
"rx_raced"), after which the device may find nothing where it is told to look and the model
follows the queue no further. Otherwise the calls took effect one after the other.

Kicks either trap (the caller resumes when the handler has run) or, with
IoEventFd, are posted and merge. A kick may be suppressed while an older buffer
is unread, an interrupt while an older used buffer is there. With PromptIrq a
pending interrupt runs before any client step: one vCPU. MayStop, MayUnplug and
MayFault let the VM stop, the device go and user copies stop short. Notifies is
FALSE for the transport as committed, whose `custdev_notify` does nothing (the
`writel` is commented out). custdev_pair takes both transports, the other runs one that
notifies.

Assumed of what is not in the repository: `virtio_queue_ready` is true, requests
have at least one byte, and notifications come from the driver only.

### Life cycle, launcher and guest

`CustdevLifecycle` has one action per step of init, probe, remove and exit, each
failing where the code can fail. `proc_remove` hides the entry and waits for the
calls under way, as Linux does. `frees` counts the `kfree` calls for the
instance: a full load and unload ends with two, because remove frees `vdev->priv`,
which is `vcdev`, and exit frees `vcdev` again. The device may answer a waiting read or not.
A queue whose creation failed is NULL, which probe does not notice: it counts as set up, and
a call on it crashes.

`CpuidTable` leaves every answer of the host open. `VmLaunch` is the row of setup calls:
each succeeds or fails, a failure stops the launcher or, for the calls in `Untested`, is
passed over; `Needs` says which later call then fails in the kernel. `GuestRun` puts the
loop and the guest on top: guest steps happen inside KVM_RUN only, the injection of the
interrupt at any time, and the handler puts its text one character per step, each stored
one being an exit of KVM_RUN. What the handler puts is a message, a number and a
message; the number is the first register of the APIC dump, and the rest of the dump is
more of the same. `shown` is all that the loop of vm.c puts out: the video characters
with their line breaks, a byte for the serial port (line 584), the lines for the device
store and a failed write (603, 607), and the reports of other exits. Exits for which the
demo guest has no code (HLT, ports, other MMIO addresses) come from an image of which
only the first part was read. `LaunchOptions` starts from what getopt_long makes of an
option with "f:m:hH": `-m X` and `--mem X` give the argument X, `-mem X`, as the usage
text has it, gives the argument "em", which is 14M, and drops X, and `-smp X` gives an
unknown option and the size "p", which ends the launcher. The argument is read by
character; `val` is any number at first, as the C local is, and keeps its value between
options. The size is printed and used by nothing else.

`GuestPaging` counts memory in 4K frames and stores one table entry per step.
Of the two large pages that lead to devices the launcher handles the first address
(0x8000000) and KVM the first page (the APIC); a store anywhere behind them ends the
launcher. The kernel's code pages are open to user mode, for writing too.
`ExceptionHandlers` keeps the stack in double words, so that an offset of 4 reads
two halves of different words, and tags each word with the exception that pushed it.
`Console` counts character cells from 0xb8000 on.

### VFIO probe and VMX module

`VfioSession` has one action per call, each with its failures, and one per label.
`dev_fd` is whatever descriptor the uninitialised number happens to denote: when
VFIO_SET_IOMMU fails, `err1` closes it, and it may be one of the standard ones. A readlink
that fails makes group_path[-1] zero, which may hit a local in use ("crashed") or not, and
leaves the path of any group. The session reaches `return` with the container open after a
failed version or extension check, as the code does.

The VMX module is a half-done port from AMD SVM and does not compile; its functions
are modelled as written. `VmcbSetup` records for every field of the save area where its
value comes from: a constant, the thread, a processor, or nothing. svm_config_init sets
neither rip, rsp and rflags nor the flag `unusable`, from which svm_segment_access_rights
makes the attributes: those reach the guest as they lay in memory. The asm statement of
`svm_dt_set` declares its results as inputs, so what it stores may be lost.
`MsrPermMap` keeps the map as sets of bits per word, and a history of what was asked.
`VmxVcpu` cuts `__vmx_run_vcpu` where stack, VMCS or `vmx->regs` change. svm_load_vcpu and
svm_put_vcpu are named and defined nowhere; they are taken to make the VMCS current or fail,
each time anew, and to give it back cleared or not. The thread may be moved off the VMCS's
processor and back at any step up to the entry (`Preempted`). So a vmwrite of HOST_RSP may be
lost while `host_rsp` says it was done, and a later entry, after the thread is back, exits on
an old stack: `oops`. The module never writes HOST_RIP; whether it is the label behind
vmlaunch is open (`to_label`), and where it is not an exit ends "astray". `setbe` writes
`fail` through an rsp one word off or the guest's rbp: `fail` stays 0 and something else is
hit, so a return may end "astray" too. `launched` may share a register with the address of
`regs`, so a build may use vmresume. struct vmx_vcpu (vmcs.h:99) lacks the members the
statement names, host_rsp among them; they are taken to be added.

## Runs

| Run | Shows | Bounds |
|---|---|---|
| custdev_serial | one process, one vCPU, user copies that fail or stop short: the whole implements MessageStack, counters and lengths agree between calls, reads return and transmit buffers come back unless an empty buffer has made the device give up | 2 slots, ring of 1, 2 messages of 1 or 2 bytes, 2 kernel buffers |
| custdev_pair | a reader and a writer racing, kicks merging, either transport: count in range, indexes within buf_lens but for the one element named, a reader copies its own buffer, calls on the receive queue never overlap, and with the committed transport a waiting read waits for ever | 2 slots, ring of 2, 1 message of 1 byte, 2 kernel buffers |
| custdev_sg_length | violated: see findings | 2 slots, ring of 2, lengths 1 and 2, 3 kernel buffers |
| custdev_shared | two writers and a reader, stops and unplug: buffer ownership, receive buffers not freed early, NULL pops only after a dropped add, an empty buffer or an overlap inside a queue, stored copies exactly those below rcv_count | 1 slot, ring of 2, 3 kernel buffers |
| lifecycle | calls only on a live and complete instance, a failed load leaves no registration and frees the instance once, an unload twice, the completion remove signals comes too late to wake anybody, and unloading ends unless a call crashed or waits for ever | 3 processes |
| cpuid_table | the table is bounded, ordered, complete, and the function ends | 6 slots, 3 sub-leaves, counts up to 2 |
| guest_paging | walks meet cleared tables only, user mode reaches no page table, descriptor table, kernel stack or APIC, mappings are backed by memory and as announced in the comments, long mode is reached exactly with VMX, PAE and bootstrap flag | none: the real tables |
| guest_run | the launcher from its command line to the served key: a size given with -m or --mem is what it says and one given with -mem is 14M, failures that reach a running guest, gates complete whenever an interrupt can come, the interrupt comes in time and once, the terminal shows the launcher's own lines and the handler's text, a key is served to the last step of the handler | 2 options in 3 forms, 9 arguments, 2 serial bytes (MaxSerial), KILO 4, WORD 256, 3 columns, 11 cells, 3 texts, 2 numbers of 2 digits |
| exceptions | handlers with an error code, except that of #DF, report the right words, #DB resumes properly, also when nested | 3 exceptions of 12 vectors |
| exceptions_occur_at | violated: see findings | 1 exception |
| vfio | the labels leave nothing open but the standard descriptors, and close in order except what a number left in dev_fd names | none |
| vmx | the fields a guest starts with unset are those named, and two processors' data meet only through a move between the two functions that read them; MSR bits; registers survive entries, refused or not; the entry code finds its stack unless the last vmwrite was lost | 2 processors, 3 ranges of 32 MSRs, 6 MSRs, 1 call, 2 registers, 2 values, 2 stack depths |

Why these bounds: the races of the virtio device need a full and an empty count, a full
ring and buffers being used again, all of which occur with one or two slots, a ring of
one or two and two or three buffers: the ring of custdev_serial fills with its one
client, that of custdev_shared with two writers, and a freed buffer comes back in each;
the counters wrap at 7, far enough from 2 that a wrap is never mistaken for a legal
count. A table of six slots is filled by each of the three loops. A screen whose last
cell is 10 in rows of three ends in the middle of a row, as 0xb9ff0 does, and the texts
overrun it. With KILO 4 and WORD 256 a size in G overflows, as one in the real program
can. Ranges of 32 MSRs have two words each; the MSRs asked for are both ends of a word
and of a range, and one outside; one call from either initial map shows every effect a
call has on other MSRs, because a call's effect does not depend on earlier ones. rax and
one other register are all the entry code tells apart. Every property has a mutant in
`PROJECT.json`, a slip in the code it is about that breaks it. Runs with several clients
use the symmetry of kernel buffers, which nothing orders, and the vmx run that of
processors and register values; the former also a view without the results of calls,
which no guard and no invariant there reads.

Deadlock is not checked where the system really stops: a reader waits for ever
(virtio), the module is gone, the function returned, the guest spins, the launcher
exits, the probe ends, a BUG_ON has stopped the VMX module.

### Fairness

`custdev_serial`: weak fairness of each client's steps (the scheduler), of the
callbacks (interrupts are taken) and of the handlers (QEMU's threads run); nobody
has to call. `lifecycle`: the steps of remove and exit go on, a call that can leave the
driver leaves. Nothing makes the device answer a waiting read, as the committed transport never
tells it anything: Unloads therefore has waiting for ever as one of its ends. `cpuid_table` and
`guest_paging` are one thread that goes on. `guest_run`: setup, loop and
injection are weakly fair; the guest strongly, because the host may interrupt
KVM_RUN again and again but the guest gets on between two exits; a key is
pressed at last.

## Findings

`exceptions_occur_at`: nine handlers print `8(%rsp)` after "occur at: 0x". That is
the saved rip only if the processor pushed an error code; for #DE, NMI, #OF, #UD,
#NM and #MC it is CS. (#DF reads `4(%rsp)`, two halves of different words.)

`custdev_sg_length`: read evaluates `buf_lens[buffers - 1]` for kzalloc (line 55) and again
for sg_init_one (line 60). A write in between makes another, longer message the last one,
and the device is told that the buffer is longer than it is.

Things the models show that no document contradicts, most of them in the hazard list with
a note: two readers share one completion and one `read_data`; several writers
pass the limit together; calls on a virtqueue overlap without a lock, on the transmit queue
even with one writer (its callback); a read after a writer has filled the last slot again
uses `buf_lens[1024]`, one past the end; a refused write returns 28 or 1 like a number of
bytes; every unload frees the instance twice; -mem, as the usage text has it, always
gives 14M, and -smp ends the launcher; after a triple fault
the loop of vm.c calls KVM_RUN again; a thread that is moved during setup_guest_regs
gives its guest the GS base of one processor and the GDT of another; one that is moved for
the vmwrite of HOST_RSP only leaves its guest on an old stack; rip, rsp, rflags and the
segment attributes reach the guest unset; nothing writes HOST_RIP; err1 of vfio.c may
close a standard descriptor, and a failed readlink stores to group_path[-1].

Seen while modelling, outside of what the properties say:

* `svm_segment_access_rights` takes the DPL from `s` instead of `dpl`.
* `set_msr_interception` reads `msrpm[MSR_INVALID]` before it tests for it.
* `vmx->launched` is never set, and `vmx_run` returns no value, so `svm_launch` switches
  on an undefined reason (every branch leaves the loop).
* `__vmx_run_vcpu` names no clobbered register: the guest's values are in the host's
  registers when it returns.
* `vmcs_write32`, `vmcs_write64` and `vmcs_writel` take a 16-bit value.
* vfio.c returns with the container open when the version or the extension is wrong.

## Proofs

Each theorem is of the form `Spec => []Inv`, `Spec => [][A]_vars` or, for the
refinement, `Spec => Stack!Spec`, and holds for every value of the constants. None of the
invariants is inductive by itself; what follows names the strengthening and why it
is needed.

### The custom virtio device

`Custdev_proofs`, for any number of readers and writers, any sizes, any transport:

* TypeOK. TxOwnership, up to the first overlap of two calls inside the transmit queue: a
  call owns what it allocated until the buffer is on the queue, no two calls own the
  same one, and the queue holds each buffer once in avail or used, allocated. Each
  action moves one buffer from owner to owner.
* StoredBelowCount, with `rcv_count <= BUFFERS`: without that bound a step from a
  count above the array, which no execution reaches, would break it.
* NullPopExplained. `KicksCovered` says that, as long as no add was dropped, no buffer
  was empty and no calls overlapped inside a queue, a queue's pending notifications and
  the calls about to kick are together no more than the buffers in avail. Merging is why
  it is a bound and no equation. The proof is by cardinality of the set of kicking
  clients.
* WaitsForEver, if the transport does not notify: `Silent` says that nothing is pending
  anywhere between device and reader.

And with few clients:

* RxNoUseAfterFree and ReadsOwnBuffer with one reader and any number of writers. The
  invariant `OneReader`: at most one buffer is on its way, it is the reader's, and it is
  at one place only (avail, used, callback, completion). With two readers both fail. RxSerialized
  follows from it: while the reader is inside add, used is empty and nobody else adds or kicks.
* CountInRange and LensWithin with one reader and one writer. `PairInvariant`: a read
  accounts for at most one buffer in queue, callback or completion, the callback finds a
  count above zero, and the index a writer has loaded is below the limit whatever the
  callback stored since.

Last, for one client on one vCPU with kicks that trap, a transport that
notifies and no unplugging (`Serial`); any sizes, partial copies, failed allocations,
a VM that stops:

* `SerialInv` gives the place of the message of the call under way: `Before` (not yet
  posted), `Sending` (counted by the driver, not yet stored), `Sent`, `Asking` (a buffer is
  posted), `Answered` (delivered, not yet counted out). Each phase fixes the difference of
  `buffers` and `rcv_count` and the contents of both queues, and in all of them the lengths
  of the driver are those of the device (`Agree`). The hypotheses
  make a call exclusive: with a posted kick, a late interrupt or a second client two
  phases may overlap.
* From it follow CountsAgree and the refinement ImplementsStack. The stack
  is that of the device, the client's state follows from its place in the call. The handler
  of the device is the step that pushes or pops; calling and returning are the client's
  steps; everything else stutters.

`CustdevLifecycle_proofs`, for any number of processes: no call on a freed instance,
none before setup, the late completion wakes nobody, and failed loads are clean, in the
sense of one free for a failed load and two for an unload. The invariant ties the number
of frees, the queues and the visible entry to the step that init or exit is at;
`FreeCount` adds the exact number of frees at each step after a failed load, in a loaded
module and in exit, and that the device is off the bus at its end.

### Launcher and guest

* `CpuidTable_proofs`: InTable, Ascending, Complete for any table size and any answers.
  The invariant says where the slot being filled stands relative to the loop counters and
  that everything found lies below it.
* `GuestPaging_proofs`: WalksDefined, UserIsolated and Backed. The module has no
  constants, so TLC's run is exhaustive as well; what the proof adds is the reason.
  `PagingInv` says that nothing is stored before every table frame is cleared and that
  after j stores the entries are exactly the first j of the listing (`Filled`), no place
  being stored twice. What a present entry of each table may name (`Means`) is shown for
  the 47 stores once; from it follows, level by level, where a walk can get with and
  without US. For the announced mappings the walk goes the other way, from the top table
  down each path.
* `GuestRun_proofs`, for any options, texts, numbers and screen. SurvivingFailures:
  `CaughtInTime` says for each failure passed over how far setup gets with it (a later
  call needs what is missing). InterruptInTime: `InterruptInv` ties the interrupt flag
  to the guest's place and says that one signal is at one place: irqefd, IRR or ISR.
  GatesComplete: `GatesInv` says how many of the five overlapping stores of each gate
  are done, since no single store leaves a gate complete. SizeAsMeant: `OptionsInv` says
  that the size read so far is, modulo WORD, the value of the digits passed, whatever
  `val` and the size were before the option, and `FormInv` what the two documented
  spellings lead to. TerminalFaithful: `ConsoleInv` says that what is shown after the
  launcher's own lines is what the terminal shows of the characters put so far, and
  where in the row it stands relative to the column computed from `video_current`: the
  line feed of NewLine is right only because the two agree, also after a full row.
* Both last ones rest on what recursive functions (`Reading`, `shr`, `Terminal`) return
  for arguments of every length. The induction is made explicit: the positions at which
  the claim fails form a set of naturals, and a least one (`WFMin` with the order of
  Nat) would contradict the step (`AllPositions`). With it `ReadingIs`, `ShrIs` and
  `TerminalIs` give the values of the functions from their recursive definitions, and
  `Division` and `Remainder` the quotients and remainders that hex digits and columns
  need.
* `ExceptionHandlers_proofs`: CodedReports and BreakpointResumes for any depth of nesting.
  `HandlersInv` says that the stack is what is left of the frames of the handlers under
  way, one behind the other from the top (`Laid`): what a handler has popped, or marked with
  RF, is a function of its position. That cr2 belongs to the page fault entered last holds
  because the #PF handler never returns.

### VFIO probe

`VfioSession_proofs`: ClosesAll. `LadderInv` says for each call and label what is open,
whether the group is attached and what dev_fd may denote; err1 is reached with and without
a device, and err0 after a close of any descriptor, a standard one included.

### VMX module

`VmxModule_proofs`: RegsSurvive and ReturnsToCaller for any registers, values and stack
depths; Permissions for any number and size of ranges; VmcbWhole for any number of
processors. `VcpuInv` says for each place in the entry code which of the three stack
words holds what, where the guest's registers are, and that HOST_RSP equals the cached
`host_rsp` unless the last vmwrite was lost (`lost`), which is what a skipped vmwrite
relies on. For the map, the arithmetic lemmas show that the word and bit computed are
those the processor tests and that different MSRs have different bits; this uses that
ranges do not overlap and start at a multiple of 16. `SetupInv` says for each phase
where every field has its value from, and on which processor the thread is unless it was
moved.

### Assumptions

Those named in the modules that declare the constants: SizeAssumption, LensAssumption,
NullAssumption, FlagAssumption, TableAssumption, RangesAssumption, RaisedAssumption,
MaxTakenAssumption, VcpuAssumption, ConsoleAssumption, OptionsAssumption, SerialAssumption.
RangesAssumption
(ordered, disjoint ranges aligned to 16) holds of the three of the code: 0,
0xc0000000 and 0xc0010000, 8192 MSRs each. Hypotheses of single theorems are
those stated above.

### Only model-checked

Liveness: ReadReturns, WriteReclaimed, Unloads, Terminates, Reaches and KeyServed. Fairness
and ENABLED are beyond the prover. Every invariant and every action property of the
passing runs, and the refinement, is stated by a theorem.

## Not modelled

* Of the VMX module: `vmx_init`, `vmx_hardware_enable` and `vmx_hardware_disable` ("enable
  hardware support vmx" in vmx.c:774 stands for reading one flag of CR4; VMXON is never
  executed), `svm_init_vmcb` (constants), `reload_tss`, the VPID and EPT helpers, which
  nothing calls, and the dump of the VMCS, which only prints. What the entry code does
  to the host's registers beyond making its return uncertain. What a corrupt virtqueue does
  later.
* Of the options: --smp (which no case handles), -h, -f and the usage text, which change
  nothing that the properties speak of.
* `pre_run.S` and the eventfd thread of vm.c: their uses are commented out.
* The header CPU.h, which holds constants, and system_data.h and table_desc.S beyond the
  gates: descriptor tables written once.
* Registers the guest's handlers change, and the TSS descriptor built with `shrd $17`,
  whose result is undefined. What KVM does with a vCPU that has shut down.
* In the device: get_features, set_status and type registration; in the front end's
  transport: the status byte and del_vqs.

## Plan

Done, in this order: the virtio data path and its abstract specification; its
ownership and pair proofs; CPUID table; life cycle; paging; launch and run; console;
exception handlers; options and console joined with the run of the guest; VFIO probe;
VMX module.

Proved, in this order: ownership and the pair; CPUID table; life cycle; entry code, MSR map
and VMCB; setup, gates and interrupt; stored copies and notifications; one reader; the
refinement for one client; exception handlers; options and console; VFIO probe; paging.

Left: a statement on how many writers a given UMAX and array tolerate would extend
CountInRange beyond the pair, and `Race` could be followed into what a corrupt ring
holds. The liveness properties would need a prover for fairness.
