------------------------------- MODULE Custdev -------------------------------
(***************************************************************************)
(* The custom virtio device as a whole: clients, front-end driver,         *)
(* virtqueues and back end, after probe and realize.                       *)
(***************************************************************************)
EXTENDS CustdevDriver, CustdevDevice

\* virtio_custom_init allocates the instance zeroed, virtio_custdev_probe and
\* virtio_custdev_device_realize reset the two counters.
Init ==
  /\ buffers = 0 /\ buf_lens = [i \in 0 .. BUFFERS |-> 0]
  /\ read_data = NoBuf /\ data_ready = 0 /\ kern = "ok"
  /\ heap = {} /\ mem = [b \in Bufs |-> [size |-> 0, msg |-> NoMsg, n |-> 0]]
  /\ inbuf_cb = [pc |-> "idle", b |-> 0]
  /\ tx = EmptyQueue /\ rx = EmptyQueue
  /\ pc = [c \in Clients |-> "idle"] /\ loc = [c \in Clients |-> NoLocals]
  /\ ret = [c \in Clients |-> [call |-> "none", n |-> 0, msg |-> NoMsg]]
  /\ rcv_bufs = [i \in 0 .. BUFFERS - 1 |-> Freed] /\ rcv_count = 0
  /\ dev = "up" /\ running = TRUE /\ notifies \in Notifies /\ anomaly = {}

\* The steps of a call under way.
ReadStep(c) == ReadAlloc(c) \/ ReadAdd(c) \/ ReadKick(c) \/ ReadResume(c)
               \/ ReadWait(c) \/ ReadCopy(c) \/ ReadShort(c) \/ ReadFix(c) \/ ReadFree(c)
WriteStep(c) == WriteAlloc(c) \/ WriteLoad(c) \/ WriteStore(c) \/ WriteLen(c)
                \/ WriteAdd(c) \/ WriteKick(c) \/ WriteResume(c)

Interrupt == virtio_custdev_outbuf_cb \/ virtio_custdev_inbuf_cb \/ InbufComplete
Handler == virtio_custdev_handle_outbuf \/ virtio_custdev_handle_inbuf

Next ==
  \/ \E c \in Clients : virtio_custdev_read(c) \/ virtio_custdev_write(c)
                        \/ ReadStep(c) \/ WriteStep(c)
  \/ Interrupt \/ Handler \/ Race
  \/ NotSynced \/ virtio_custdev_device_unrealize \/ VmStop \/ VmResume

Spec == Init /\ [][Next]_vars

\* The kernel schedules a runnable client, the CPU takes a pending interrupt, and
\* QEMU's main loop or vCPU thread serves a notification.  Nobody has to call.
Fairness ==
  /\ \A c \in Clients : WF_vars(ReadStep(c)) /\ WF_vars(WriteStep(c))
  /\ WF_vars(virtio_custdev_outbuf_cb)
  /\ WF_vars(virtio_custdev_inbuf_cb) /\ WF_vars(InbufComplete)
  /\ WF_vars(virtio_custdev_handle_outbuf) /\ WF_vars(virtio_custdev_handle_inbuf)

FairSpec == Spec /\ Fairness

------------------------------------------------------------------------------
(* Ownership of the kernel buffers *)

BufsOf(seq) == {seq[i].buf : i \in DOMAIN seq}
Held(q) == BufsOf(q.avail) \union BufsOf(q.used)

\* Every buffer has one owner.  A call owns the one it allocated, until write has put it
\* on the queue; the queue holds each of its buffers once, all of them allocated, and
\* virtio_custdev_outbuf_cb alone frees them, after the device gave them back.  The
\* unlocked count and the ignored results of virtqueue_add never break this, for any
\* number of readers and writers; only an overlap of two calls inside the queue can.
OwnPcs == WithBuf \ {"w_kick", "w_trap"}
EachOnce(seq) == \A i, j \in DOMAIN seq : i # j => seq[i].buf # seq[j].buf
OneOwner ==
  /\ \A c \in Clients : pc[c] \in OwnPcs => loc[c].buf \in heap \ Held(tx)
  /\ \A c, d \in Clients :
       c # d /\ pc[c] \in OwnPcs /\ pc[d] \in OwnPcs => loc[c].buf # loc[d].buf
  /\ EachOnce(tx.avail) /\ EachOnce(tx.used)
  /\ BufsOf(tx.avail) \intersect BufsOf(tx.used) = {}
  /\ Held(tx) \subseteq heap
TxOwnership == kern # "tx_raced" => OneOwner

\* With one reading process no two calls on the receive queue overlap, whatever the
\* writers do: a read is inside virtqueue_add_inbuf only when nothing of an earlier
\* read is left on the queue or on its way through the callback.
RxSerialized == kern # "rx_raced"

\* A buffer on the receive queue is allocated: read frees rcv_buf only after the
\* completion, which one reader gets only for its own buffer.
RxNoUseAfterFree == Held(rx) \subseteq heap

\* What read copies out is the buffer it posted, not one it or somebody else freed.
ReadsOwnBuffer == \A c \in Readers : pc[c] = "r_copy" => read_data = loc[c].buf

\* The device pops a NULL element (and QEMU dies of it) only after the driver ignored
\* a full queue, queued a zero-length buffer, or let two calls on a queue overlap:
\* merged, suppressed and lost notifications alone never make it pop an empty queue.
NullPopExplained == dev = "nullpop" => anomaly # {} \/ kern \in {"tx_raced", "rx_raced"}

------------------------------------------------------------------------------
(* The two counters *)

\* With one reader and one writer vcust->buffers stays within the array although
\* buffers++ and buffers-- race: no wrap below zero, no write past the limit.
CountInRange == buffers \in 0 .. BUFFERS

\* Every index taken from it is an element of buf_lens, except in the second half of
\* read.  There, after the callback took its message off the count, a writer may have
\* filled the last slot again: copy_to_user's length, the correction after a short copy
\* and the return value are then read from buf_lens[BUFFERS], one past the end.
NoFault == kern # "fault"
LensWithin ==
  /\ NoFault
  /\ \A c \in Clients :
       /\ pc[c] \in {"r_alloc", "r_add"} => Dec(buffers) \in Slots
       /\ pc[c] = "w_len" => loc[c].idx \in Slots
       /\ pc[c] = "r_fix" => loc[c].idx \in Slots \union {BUFFERS}
       /\ pc[c] \in {"r_copy", "r_short", "r_free"} => buffers \in Slots \union {BUFFERS}

\* Why: a read under way accounts for one buffer, in the queue, in the callback or
\* in the completion, and the callback finds a count above zero to decrement; the
\* index a writer loaded stays below the limit, whatever was stored since.
InCallback == IF inbuf_cb.pc = "dec" THEN 1 ELSE 0
Outstanding == Len(rx.avail) + Len(rx.used) + data_ready + InCallback
PairInvariant ==
  /\ CountInRange /\ NoFault
  /\ \A c \in Clients : /\ pc[c] \in ReadPcs => c \in Readers
                        /\ pc[c] \in WritePcs => c \in Writers
  /\ \A c \in Readers :
       /\ Outstanding <= IF pc[c] \in {"r_kick", "r_trap", "r_wait"} THEN 1 ELSE 0
       /\ pc[c] \in {"r_alloc", "r_add"} => buffers >= 1
       /\ pc[c] = "r_fix" => loc[c].idx \in 0 .. BUFFERS
  /\ Len(rx.avail) + Len(rx.used) > 0 => buffers >= 1
  /\ inbuf_cb.pc = "dec" => inbuf_cb.b \in 1 .. BUFFERS
  /\ \A c \in Writers : /\ pc[c] \in {"w_alloc", "w_load"} => buffers < BUFFERS
                        /\ pc[c] \in {"w_store", "w_len"} => loc[c].idx < BUFFERS

\* Between calls the driver's count and lengths are those of the messages the
\* device stores.
CountsAgree ==
  (dev = "up" /\ \A c \in Clients : pc[c] = "idle") =>
    /\ buffers = rcv_count
    /\ \A i \in 0 .. rcv_count - 1 : buf_lens[i] = rcv_bufs[i].n

\* read gives the device a buffer as large as the length it announces for it.  A write
\* between lines 55 and 60 makes this false: kzalloc and sg_init_one then take different
\* elements of buf_lens, and the device writes past the end of the buffer.
SgWithinAlloc ==
  \A i \in DOMAIN rx.avail : rx.avail[i].len <= mem[rx.avail[i].buf].size

\* The stored copies are exactly the slots below rcv_count, so handle_inbuf and
\* unrealize together free each one once.
StoredBelowCount ==
  \A i \in DOMAIN rcv_bufs : rcv_bufs[i] # Freed <=> (i < rcv_count /\ dev # "gone")

------------------------------------------------------------------------------
(* Progress *)

\* A read that found a message returns, whatever failed before it, unless an empty buffer
\* has made the device give up.
ReadReturns == \A c \in Readers : (pc[c] \in ReadPcs) ~> (pc[c] = "idle" \/ ~Alive)

\* An accepted write returns and its buffer comes back to the heap, with the same
\* exception.
WriteReclaimed == \A b \in Bufs : (b \in Held(tx)) ~> (b \notin Held(tx) \/ ~Alive)

\* The transport of the commit notifies nobody, so a reader that waits waits for ever.
WaitsForEver ==
  [][~ notifies => \A c \in Readers : pc[c] = "r_wait" => pc'[c] = "r_wait"]_vars

------------------------------------------------------------------------------
(* One client at a time, on one vCPU with trapping kicks: the device is the  *)
(* stack of MessageStack.                                                    *)

StackOf == [i \in 1 .. rcv_count |-> rcv_bufs[i - 1]]

CallOf(c) ==
  LET is(op, msg, n) == [op |-> op, msg |-> msg, n |-> n] IN
  CASE pc[c] = "idle" -> is("idle", NoMsg, 0)
    [] pc[c] \in WritePcs ->
         is(IF pc[c] = "w_trap" /\ c \notin tx.kick THEN "written" ELSE "write",
            loc[c].msg, loc[c].n)
    [] pc[c] \in {"r_alloc", "r_add", "r_kick"} \/ (pc[c] = "r_trap" /\ c \in rx.kick) ->
         is("read", NoMsg, 0)
    [] pc[c] = "r_short" -> is("got", loc[c].msg, Minus(buf_lens[buffers], loc[c].n))
    [] pc[c] = "r_fix" -> is("got", loc[c].msg, loc[c].n)
    [] pc[c] = "r_free" -> is("got", loc[c].msg, buf_lens[buffers])
    [] OTHER -> is("got", mem[loc[c].buf].msg, mem[loc[c].buf].n)

Stack == INSTANCE MessageStack
           WITH Capacity <- BUFFERS, stack <- StackOf, call <- [c \in Clients |-> CallOf(c)]

\* Every behaviour of driver, queues and device is one of the message stack: a read
\* returns the youngest message, whole, and 0 of an empty stack; a write stores its
\* message or returns ENOSPC, 28, or 1, and is then not told from one that stored that
\* many bytes.
ImplementsStack == Stack!Spec
==============================================================================
