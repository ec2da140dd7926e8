----------------------------- MODULE CustdevState -----------------------------
(***************************************************************************)
(* State of the custom virtio device: the driver instance shared by all    *)
(* open files (struct virtio_custom_device), the two virtqueues, the       *)
(* kernel buffers travelling through them, the back end (VirtIOCustdev),   *)
(* and the progress of every client's read or write system call.           *)
(***************************************************************************)
EXTENDS Virtqueue, Integers, FiniteSets, SequencesExt

CONSTANTS
  Readers,    \* processes that read /proc/virtio_custdev-N
  Writers,    \* processes that write it; may overlap Readers
  Msgs,       \* contents a client may write
  Lens,       \* byte counts a client may ask to write
  BUFFERS,    \* VIRTIO_CUSTDEV_BUFFERS
  RingSize,   \* VIRTIO_CUSTDEV_VRING_NUM
  UMAX,       \* largest unsigned int
  Bufs,       \* kernel heap: the buffers kmalloc/kzalloc can hand out
  NoBuf,      \* a NULL or foreign pointer
  NoMsg,      \* bytes nobody wrote
  Notifies,   \* whether the transport's notify reaches the device: see notifies
  IoEventFd,  \* kicks are posted to an eventfd and merge there; otherwise a
              \* kick traps and the client resumes after the handler
  PromptIrq,  \* one vCPU: a pending interrupt runs before any client step
  MayStop,    \* the VM may be stopped and resumed
  MayUnplug,  \* the device may be unplugged (unrealize)
  MayFault    \* copy_from_user and copy_to_user may stop short

Clients == Readers \union Writers

ASSUME SizeAssumption ==
  /\ BUFFERS \in Nat \ {0} /\ RingSize \in Nat \ {0}
  /\ UMAX \in Nat /\ UMAX > BUFFERS
ASSUME LensAssumption == Lens \subseteq 1 .. UMAX
ASSUME NullAssumption == NoBuf \notin Bufs /\ NoMsg \notin Msgs
ASSUME FlagAssumption ==
  /\ {IoEventFd, PromptIrq, MayStop, MayUnplug, MayFault} \subseteq BOOLEAN
  /\ Notifies \subseteq BOOLEAN

VARIABLES
  buffers,     \* vcust->buffers, unsigned
  buf_lens,    \* vcust->buf_lens, and at BUFFERS the four bytes behind the array
  read_data,   \* vcust->read_data
  data_ready,  \* vcust->data_ready.done
  kern,        \* "ok"; "fault" once an index left even those bytes; "tx_raced",
               \* "rx_raced" once two calls on that virtqueue corrupted it
  heap,        \* the allocated buffers
  mem,         \* what each kernel buffer holds: [size, msg, n]
  inbuf_cb,    \* inbuf callback: [pc, b], b the loaded vcust->buffers
  tx, rx,      \* the virtqueues vq_tx and vq_rx
  pc, loc,     \* each client's place in its call, and its locals
  ret,         \* what each client's last call returned
  rcv_bufs,    \* back end: vcust->rcv_bufs, payloads by slot
  rcv_count,   \* back end: vcust->rcv_count, unsigned
  dev,         \* back end: "up", "nullpop" or "oob" after a fatal access, "gone"
  running,     \* runstate_check(RUN_STATE_RUNNING)
  notifies,    \* custdev_notify reaches the device; as committed it does not
  anomaly      \* history: "dropped" adds, "empty" (zero-length) buffers

drvVars  == <<buffers, buf_lens, read_data, data_ready, kern>>
heapVars == <<heap, mem>>
callVars == <<pc, loc, ret>>
devVars  == <<rcv_bufs, rcv_count, dev, running, notifies>>
vars == <<drvVars, heapVars, inbuf_cb, tx, rx, callVars, devVars, anomaly>>

\* QEMU still runs the guest.  After an access that is undefined behaviour in
\* either half the model stops: nothing that follows is worth predicting.
Alive == kern = "ok" /\ dev \in {"up", "gone"} /\ running

\* unsigned int arithmetic
Inc(x) == IF x = UMAX THEN 0 ELSE x + 1
Dec(x) == IF x = 0 THEN UMAX ELSE x - 1
Minus(x, y) == IF y <= x THEN x - y ELSE (UMAX + 1) - (y - x)

\* What a length in buf_lens, and all that is taken from one, can be.
Counts == 0 .. UMAX
Payload == [msg : Msgs \union {NoMsg}, n : Counts]
Freed == [msg |-> NoMsg, n |-> -1]
Contents == [size : Counts, msg : Msgs \union {NoMsg}, n : Counts]
Element == [buf : Bufs, len : Counts]
Queue == [avail : Seq(Element), used : Seq(Element), kick : SUBSET Clients,
          irq : 0 .. 1, added : 0 .. 1]
Locals == [msg : Msgs \union {NoMsg}, n : Counts, buf : Bufs \union {NoBuf},
           idx : 0 .. UMAX]
LocalsOf(msg, n, buf, idx) == [msg |-> msg, n |-> n, buf |-> buf, idx |-> idx]
NoLocals == LocalsOf(NoMsg, 0, NoBuf, 0)

ReadPcs  == {"r_alloc", "r_add", "r_kick", "r_trap", "r_wait", "r_copy",
             "r_short", "r_fix", "r_free"}
WritePcs == {"w_alloc", "w_load", "w_store", "w_len", "w_add", "w_kick", "w_trap"}
WithBuf == (ReadPcs \union WritePcs) \ {"r_alloc", "w_alloc"}

\* What the caller sees of a finished call: the number returned, and for the history
\* the message that was stored or copied out.
ENOSPC == 28
ENOMEM == 12
Results == [call : {"read", "write", "none"}, n : Counts \union {1, ENOSPC, - ENOMEM},
            msg : Msgs \union {NoMsg}]

DrvTypeOK ==
  /\ buffers \in 0 .. UMAX
  /\ buf_lens \in [0 .. BUFFERS -> Counts]
  /\ read_data \in Bufs \union {NoBuf}
  /\ data_ready \in Nat
  /\ kern \in {"ok", "fault", "tx_raced", "rx_raced"}

CallTypeOK ==
  /\ pc \in [Clients -> {"idle"} \union ReadPcs \union WritePcs]
  /\ loc \in [Clients -> Locals]
  /\ ret \in [Clients -> Results]
  /\ \A c \in Clients : pc[c] \in WithBuf => loc[c].buf \in Bufs

DevTypeOK ==
  /\ rcv_bufs \in [0 .. BUFFERS - 1 -> Payload \union {Freed}]
  /\ rcv_count \in 0 .. UMAX
  /\ dev \in {"up", "nullpop", "oob", "gone"}
  /\ running \in BOOLEAN /\ notifies \in Notifies

TypeOK ==
  /\ DrvTypeOK /\ CallTypeOK /\ DevTypeOK
  /\ heap \subseteq Bufs /\ mem \in [Bufs -> Contents]
  /\ inbuf_cb \in [pc : {"idle", "dec"}, b : 0 .. UMAX]
  /\ tx \in Queue /\ rx \in Queue
  /\ anomaly \subseteq {"dropped", "empty"}
================================================================================
