------------------------------ MODULE Virtqueue ------------------------------
(***************************************************************************)
(* The virtqueue through which the front-end driver (virtio_custdev.c) and *)
(* the back-end device (virtio-custdev.c) of the custom device talk.  The  *)
(* ring itself is code of the Linux and QEMU virtio cores, not of this     *)
(* repository: it is modelled here from the calls the two sources make.    *)
(*                                                                         *)
(* The operators below are whole calls.  Linux leaves it to the driver to  *)
(* let no two calls on one queue overlap: virtqueue_add changes free_head, *)
(* num_free, the avail index and num_added without a lock, get_buf the     *)
(* first two.  virtio_custdev.c takes no lock, so the calls really are     *)
(* whole only while nobody else is inside the same queue; what happens     *)
(* otherwise is the action Race of CustdevDriver.                          *)
(*                                                                         *)
(* A queue q is a record                                                   *)
(*   avail : buffers added by the driver and not yet popped by the device  *)
(*   used  : buffers pushed back by the device, not yet taken by get_buf   *)
(*   kick  : the clients whose notification the device has not handled     *)
(*   irq   : the interrupt pending bit, 0 or 1                             *)
(*   added : 1 when a buffer was added since the last kick (num_added)     *)
(* A ring element is [buf |-> the buffer, len |-> its sg length].          *)
(***************************************************************************)
EXTENDS Naturals, Sequences

QueueOf(avail, used, kick, irq, added) ==
  [avail |-> avail, used |-> used, kick |-> kick, irq |-> irq, added |-> added]

EmptyQueue == QueueOf(<< >>, << >>, {}, 0, 0)

\* Descriptors stay taken until get_buf returns them.
FreeDescs(q, ringSize) == ringSize - Len(q.avail) - Len(q.used)

\* virtqueue_add_outbuf / virtqueue_add_inbuf: -ENOSPC without a descriptor.
QueueAdd(q, e) == QueueOf(Append(q.avail, e), q.used, q.kick, q.irq, 1)

\* virtqueue_kick: whether the device hears of it.  It must when it has popped
\* everything older; otherwise avail_event may suppress the notification, as it
\* may when another client's kick already covered this buffer.
Heard(q) == IF q.added = 1 /\ Len(q.avail) = 1 THEN {TRUE} ELSE BOOLEAN

\* virtqueue_pop: NULL on an empty ring and for a zero-sized buffer.
PopsNull(q) == q.avail # << >> => Head(q.avail).len = 0

\* virtqueue_pop, virtqueue_push and virtio_notify by one device handler.  The
\* interrupt may be suppressed (used_event) while an older used buffer is still
\* there for the driver to take.
PopPush(q) ==
  {QueueOf(Tail(q.avail), Append(q.used, Head(q.avail)), q.kick, i, q.added) :
      i \in IF q.used = << >> THEN {1} ELSE {q.irq, 1}}

\* The queue interrupt, and virtqueue_get_buf by its callback.
GetBuf(q) == QueueOf(q.avail, Tail(q.used), q.kick, 0, q.added)
==============================================================================
