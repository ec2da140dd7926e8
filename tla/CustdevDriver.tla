---------------------------- MODULE CustdevDriver ----------------------------
(***************************************************************************)
(* The front end, virtio_custdev.c: read and write of the proc file, run   *)
(* by any number of processes without a lock, and the two virtqueue        *)
(* callbacks, run by the interrupt.  An operation is cut where another CPU *)
(* or an interrupt can change what it read: before every load or store of  *)
(* the shared struct and before every call that can block or trap.         *)
(***************************************************************************)
EXTENDS CustdevState

\* The elements of buf_lens.  An index one higher reaches the padding in front of
\* read_data: outside the array, and harmless in this build.  Any other is a fault.
Slots == 0 .. BUFFERS - 1
Cells == Slots \union {BUFFERS}

\* Client c may take a step.
Runs(c) == Alive /\ (PromptIrq => tx.irq = 0 /\ rx.irq = 0 /\ inbuf_cb.pc = "idle")

At(c, label) == Runs(c) /\ pc[c] = label

Goto(c, label) == pc' = [pc EXCEPT ![c] = label]

SetLocals(c, msg, n, buf, idx) == loc' = [loc EXCEPT ![c] = LocalsOf(msg, n, buf, idx)]

\* The system call returns.
Return(c, call, n, msg) ==
  /\ Goto(c, "idle")
  /\ loc' = [loc EXCEPT ![c] = NoLocals]
  /\ ret' = [ret EXCEPT ![c] = [call |-> call, n |-> n, msg |-> msg]]

\* An index left buf_lens and the bytes behind it.
Fault ==
  /\ kern' = "fault"
  /\ UNCHANGED <<buffers, buf_lens, read_data, data_ready, heapVars, inbuf_cb,
                 tx, rx, callVars, devVars, anomaly>>

\* kmalloc / kzalloc of size bytes for c, holding m afterwards.
Alloc(b, size, msg, n) ==
  /\ b \in Bufs \ heap
  /\ heap' = heap \union {b}
  /\ mem' = [mem EXCEPT ![b] = [size |-> size, msg |-> msg, n |-> n]]

------------------------------------------------------------------------------
(* The kick of queue q by c, then the wait until a trapped kick is handled. *)

\* Variant: the writel is not commented out.
NotifyRestored == TRUE

\* custdev_notify of the commit notifies nobody: the writel is commented out.
custdev_notify == notifies

Notified(c, q) ==
  {QueueOf(q.avail, q.used, IF h /\ custdev_notify THEN q.kick \union {c} ELSE q.kick,
           q.irq, 0) : h \in Heard(q)}

------------------------------------------------------------------------------
(* Variants with one mistake each: they show that the properties can fail. *)

\* No check for buffers < 1.
ReadUnchecked(c) ==
  /\ c \in Readers /\ At(c, "idle")
  /\ Goto(c, "r_alloc")
  /\ UNCHANGED <<loc, ret, drvVars, heapVars, inbuf_cb, tx, rx, devVars, anomaly>>

\* The kick goes to the other queue.
ReadKickWrongQueue(c) ==
  /\ At(c, "r_kick")
  /\ tx' \in Notified(c, tx)
  /\ Goto(c, "r_wait")
  /\ UNCHANGED <<loc, ret, drvVars, heapVars, inbuf_cb, rx, devVars, anomaly>>

\* A signal ends the wait and the read goes on.
ReadWaitInterrupted(c) ==
  /\ At(c, "r_wait")
  /\ Goto(c, "r_copy")
  /\ UNCHANGED <<loc, ret, drvVars, heapVars, inbuf_cb, tx, rx, devVars, anomaly>>

\* buffers > VIRTIO_CUSTDEV_BUFFERS instead of >=.
WriteOneMore(c) ==
  /\ c \in Writers /\ At(c, "idle") /\ buffers <= BUFFERS
  /\ \E m \in Msgs, count \in Lens : SetLocals(c, m, count, NoBuf, 0)
  /\ Goto(c, "w_alloc")
  /\ UNCHANGED <<ret, drvVars, heapVars, inbuf_cb, tx, rx, devVars, anomaly>>

\* The result of kmalloc is not tested.
WriteAllocUnchecked(c) ==
  /\ At(c, "w_alloc")
  /\ SetLocals(c, loc[c].msg, loc[c].n, NoBuf, 0)
  /\ Goto(c, "w_load")
  /\ UNCHANGED <<ret, drvVars, heapVars, inbuf_cb, tx, rx, devVars, anomaly>>

\* What copy_from_user left uncopied is not taken off count.
WriteAllocWhole(c) ==
  /\ At(c, "w_alloc")
  /\ \E b \in Bufs, k \in 0 .. loc[c].n : Alloc(b, loc[c].n, loc[c].msg, k)
                                         /\ SetLocals(c, loc[c].msg, loc[c].n, b, 0)
  /\ Goto(c, "w_load")
  /\ UNCHANGED <<ret, drvVars, inbuf_cb, tx, rx, devVars, anomaly>>

\* write frees to_send itself.
WriteKickFrees(c) ==
  /\ At(c, "w_kick")
  /\ tx' \in Notified(c, tx)
  /\ heap' = heap \ {loc[c].buf}
  /\ Return(c, "write", loc[c].n, loc[c].msg)
  /\ UNCHANGED <<mem, drvVars, inbuf_cb, rx, devVars, anomaly>>

\* The callback does not take the buffer off the queue.
OutbufNotTaken ==
  /\ Alive /\ tx.irq = 1 /\ tx.used # << >>
  /\ tx' = QueueOf(tx.avail, tx.used, tx.kick, 0, tx.added)
  /\ UNCHANGED <<drvVars, heapVars, inbuf_cb, rx, callVars, devVars, anomaly>>

\* buffers-- is missing.
InbufKeepsCount ==
  /\ Alive /\ inbuf_cb.pc = "dec"
  /\ data_ready' = data_ready + 1
  /\ inbuf_cb' = [pc |-> "idle", b |-> 0]
  /\ UNCHANGED <<buffers, buf_lens, read_data, kern, heapVars, tx, rx, callVars, devVars, anomaly>>

\* complete(&data_ready) is missing.
InbufSilent ==
  /\ Alive /\ inbuf_cb.pc = "dec"
  /\ buffers' = Dec(inbuf_cb.b)
  /\ inbuf_cb' = [pc |-> "idle", b |-> 0]
  /\ UNCHANGED <<buf_lens, read_data, data_ready, kern, heapVars, tx, rx, callVars, devVars, anomaly>>

------------------------------------------------------------------------------
(* virtio_custdev_read *)

\* if(buffers < 1) return 0
virtio_custdev_read(c) ==
  /\ c \in Readers /\ At(c, "idle")
  /\ \/ buffers < 1 /\ Return(c, "read", 0, NoMsg)
     \/ buffers >= 1 /\ Goto(c, "r_alloc") /\ UNCHANGED <<loc, ret>>
  /\ UNCHANGED <<drvVars, heapVars, inbuf_cb, tx, rx, devVars, anomaly>>

\* rcv_buf = kzalloc(buf_lens[buffers - 1])
ReadAlloc(c) ==
  /\ At(c, "r_alloc")
  /\ LET i == Dec(buffers) IN
     \/ i \notin Cells /\ Fault
     \/ /\ i \in Cells
        /\ Return(c, "read", - ENOMEM, NoMsg)
        /\ UNCHANGED <<drvVars, heapVars, inbuf_cb, tx, rx, devVars, anomaly>>
     \/ /\ i \in Cells
        /\ \E b \in Bufs :
             /\ Alloc(b, buf_lens[i], NoMsg, 0)
             /\ SetLocals(c, NoMsg, 0, b, 0)
        /\ Goto(c, "r_add")
        /\ UNCHANGED <<ret, drvVars, inbuf_cb, tx, rx, devVars, anomaly>>

\* sg_init_one(.., buf_lens[buffers - 1]); virtqueue_add_inbuf, result ignored
ReadAdd(c) ==
  /\ At(c, "r_add")
  /\ LET i == Dec(buffers) IN
     \/ i \notin Cells /\ Fault
     \/ /\ i \in Cells
        /\ Goto(c, "r_kick")
        /\ \/ /\ FreeDescs(rx, RingSize) > 0
              /\ rx' = QueueAdd(rx, [buf |-> loc[c].buf, len |-> buf_lens[i]])
              /\ anomaly' = IF buf_lens[i] = 0 THEN anomaly \union {"empty"} ELSE anomaly
           \/ /\ FreeDescs(rx, RingSize) <= 0
              /\ anomaly' = anomaly \union {"dropped"}
              /\ UNCHANGED rx
        /\ UNCHANGED <<loc, ret, drvVars, heapVars, inbuf_cb, tx, devVars>>

\* virtqueue_kick(vq_rx)
ReadKick(c) ==
  /\ At(c, "r_kick")
  /\ rx' \in Notified(c, rx)
  /\ Goto(c, IF IoEventFd THEN "r_wait" ELSE "r_trap")
  /\ UNCHANGED <<loc, ret, drvVars, heapVars, inbuf_cb, tx, devVars, anomaly>>

ReadResume(c) ==
  /\ At(c, "r_trap") /\ c \notin rx.kick
  /\ Goto(c, "r_wait")
  /\ UNCHANGED <<loc, ret, drvVars, heapVars, inbuf_cb, tx, rx, devVars, anomaly>>

\* wait_for_completion(&data_ready)
ReadWait(c) ==
  /\ At(c, "r_wait") /\ data_ready > 0
  /\ data_ready' = data_ready - 1
  /\ Goto(c, "r_copy")
  /\ UNCHANGED <<loc, ret, buffers, buf_lens, read_data, kern, heapVars, inbuf_cb,
                 tx, rx, devVars, anomaly>>

\* res = copy_to_user(buffer, read_data, buf_lens[buffers]); if(res != 0)
ReadCopy(c) ==
  /\ At(c, "r_copy")
  /\ \/ buffers \notin Cells /\ Fault
     \/ /\ buffers \in Cells
        /\ LET n == buf_lens[buffers]
               msg == IF read_data \in Bufs /\ n <= mem[read_data].n
                      THEN mem[read_data].msg ELSE NoMsg
           IN  \E res \in IF MayFault THEN 0 .. n ELSE {0} :
                 /\ SetLocals(c, msg, res, loc[c].buf, 0)
                 /\ Goto(c, IF res # 0 THEN "r_short" ELSE "r_free")
        /\ UNCHANGED <<ret, drvVars, heapVars, inbuf_cb, tx, rx, devVars, anomaly>>

\* buf_lens[buffers] = buf_lens[buffers] - res: its loads, after the copy, and its store
ReadShort(c) ==
  /\ At(c, "r_short")
  /\ \/ buffers \notin Cells /\ Fault
     \/ /\ buffers \in Cells
        /\ SetLocals(c, loc[c].msg, Minus(buf_lens[buffers], loc[c].n), loc[c].buf, buffers)
        /\ Goto(c, "r_fix")
        /\ UNCHANGED <<ret, drvVars, heapVars, inbuf_cb, tx, rx, devVars, anomaly>>

ReadFix(c) ==
  /\ At(c, "r_fix")
  /\ buf_lens' = [buf_lens EXCEPT ![loc[c].idx] = loc[c].n]
  /\ Goto(c, "r_free")
  /\ UNCHANGED <<loc, ret, buffers, read_data, data_ready, kern, heapVars, inbuf_cb,
                 tx, rx, devVars, anomaly>>

\* kfree(rcv_buf); return buf_lens[buffers]
ReadFree(c) ==
  /\ At(c, "r_free")
  /\ \/ buffers \notin Cells /\ Fault
     \/ /\ buffers \in Cells
        /\ heap' = heap \ {loc[c].buf}
        /\ Return(c, "read", buf_lens[buffers], loc[c].msg)
        /\ UNCHANGED <<mem, drvVars, inbuf_cb, tx, rx, devVars, anomaly>>

------------------------------------------------------------------------------
(* virtio_custdev_write *)

\* if(buffers >= VIRTIO_CUSTDEV_BUFFERS) return ENOSPC: to the caller, 28 bytes written
virtio_custdev_write(c) ==
  /\ c \in Writers /\ At(c, "idle")
  /\ \/ buffers >= BUFFERS /\ Return(c, "write", ENOSPC, NoMsg)
     \/ /\ buffers < BUFFERS /\ Goto(c, "w_alloc")
        /\ \E m \in Msgs, count \in Lens :
             SetLocals(c, m, count, NoBuf, 0)
        /\ UNCHANGED ret
  /\ UNCHANGED <<drvVars, heapVars, inbuf_cb, tx, rx, devVars, anomaly>>

\* to_send = kmalloc(count), or return 1: to the caller, one byte written;
\* copy_from_user, a fault shortens count
WriteAlloc(c) ==
  /\ At(c, "w_alloc")
  /\ \/ Return(c, "write", 1, NoMsg) /\ UNCHANGED heapVars
     \/ \E b \in Bufs, k \in IF MayFault THEN 0 .. loc[c].n ELSE {loc[c].n} :
          /\ Alloc(b, loc[c].n, loc[c].msg, k)
          /\ SetLocals(c, loc[c].msg, k, b, 0)
          /\ Goto(c, "w_load")
          /\ UNCHANGED ret
  /\ UNCHANGED <<drvVars, inbuf_cb, tx, rx, devVars, anomaly>>

\* buf_lens[buffers++] = count: the load of buffers, its store, the store of count
WriteLoad(c) ==
  /\ At(c, "w_load")
  /\ SetLocals(c, loc[c].msg, loc[c].n, loc[c].buf, buffers)
  /\ Goto(c, "w_store")
  /\ UNCHANGED <<ret, drvVars, heapVars, inbuf_cb, tx, rx, devVars, anomaly>>

WriteStore(c) ==
  /\ At(c, "w_store")
  /\ buffers' = Inc(loc[c].idx)
  /\ Goto(c, "w_len")
  /\ UNCHANGED <<loc, ret, buf_lens, read_data, data_ready, kern, heapVars, inbuf_cb,
                 tx, rx, devVars, anomaly>>

WriteLen(c) ==
  /\ At(c, "w_len")
  /\ \/ loc[c].idx \notin Cells /\ Fault
     \/ /\ loc[c].idx \in Cells
        /\ buf_lens' = [buf_lens EXCEPT ![loc[c].idx] = loc[c].n]
        /\ Goto(c, "w_add")
        /\ UNCHANGED <<loc, ret, buffers, read_data, data_ready, kern, heapVars,
                       inbuf_cb, tx, rx, devVars, anomaly>>

\* virtqueue_add_outbuf, result ignored
WriteAdd(c) ==
  /\ At(c, "w_add")
  /\ Goto(c, "w_kick")
  /\ \/ /\ FreeDescs(tx, RingSize) > 0
        /\ tx' = QueueAdd(tx, [buf |-> loc[c].buf, len |-> loc[c].n])
        /\ anomaly' = IF loc[c].n = 0 THEN anomaly \union {"empty"} ELSE anomaly
     \/ /\ FreeDescs(tx, RingSize) <= 0
        /\ anomaly' = anomaly \union {"dropped"}
        /\ UNCHANGED tx
  /\ UNCHANGED <<loc, ret, drvVars, heapVars, inbuf_cb, rx, devVars>>

\* virtqueue_kick(vq_tx)
WriteKick(c) ==
  /\ At(c, "w_kick")
  /\ tx' \in Notified(c, tx)
  /\ IF IoEventFd THEN Return(c, "write", loc[c].n, loc[c].msg)
                  ELSE Goto(c, "w_trap") /\ UNCHANGED <<loc, ret>>
  /\ UNCHANGED <<drvVars, heapVars, inbuf_cb, rx, devVars, anomaly>>

\* return count
WriteResume(c) ==
  /\ At(c, "w_trap") /\ c \notin tx.kick
  /\ Return(c, "write", loc[c].n, loc[c].msg)
  /\ UNCHANGED <<drvVars, heapVars, inbuf_cb, tx, rx, devVars, anomaly>>

------------------------------------------------------------------------------
(* Calls on one virtqueue that overlap.  The driver holds no lock around them, *)
(* so while a client is inside virtqueue_add another may be inside add or kick *)
(* of the same queue, and the interrupt may come with a buffer for get_buf to  *)
(* take.  Either they happen to take effect one after the other, as the        *)
(* actions of the calls say, or the queue is corrupt: a buffer lost, listed    *)
(* twice or never announced.  The device may then find nothing where it was    *)
(* told to look; the model does not follow a corrupt queue any further.        *)

Overlap(q, add, kick) ==
  \E c \in Clients :
     /\ Alive /\ pc[c] = add
     /\ \/ \E d \in Clients \ {c} : pc[d] \in {add, kick}
        \/ q.irq = 1 /\ q.used # << >>

Race ==
  /\ \/ Overlap(tx, "w_add", "w_kick") /\ kern' = "tx_raced"
     \/ Overlap(rx, "r_add", "r_kick") /\ kern' = "rx_raced"
  /\ \/ UNCHANGED dev
     \/ dev = "up" /\ dev' = "nullpop"
  /\ UNCHANGED <<buffers, buf_lens, read_data, data_ready, heapVars, inbuf_cb, tx, rx,
                 callVars, rcv_bufs, rcv_count, running, notifies, anomaly>>

------------------------------------------------------------------------------
(* The queue interrupts: vring_interrupt runs the callback when used is not *)
(* empty, and each callback takes one buffer.                               *)

\* virtqueue_get_buf; if(buf) kfree(buf)
virtio_custdev_outbuf_cb ==
  /\ Alive /\ tx.irq = 1 /\ tx.used # << >>
  /\ tx' = GetBuf(tx)
  /\ heap' = heap \ {Head(tx.used).buf}
  /\ UNCHANGED <<mem, drvVars, inbuf_cb, rx, callVars, devVars, anomaly>>

\* read_data = virtqueue_get_buf(vq); the load half of buffers--
virtio_custdev_inbuf_cb ==
  /\ Alive /\ rx.irq = 1 /\ rx.used # << >> /\ inbuf_cb.pc = "idle"
  /\ rx' = GetBuf(rx)
  /\ read_data' = Head(rx.used).buf
  /\ inbuf_cb' = [pc |-> "dec", b |-> buffers]
  /\ UNCHANGED <<buffers, buf_lens, data_ready, kern, heapVars, tx, callVars, devVars, anomaly>>

\* the store half of buffers--; complete(&data_ready)
InbufComplete ==
  /\ Alive /\ inbuf_cb.pc = "dec"
  /\ buffers' = Dec(inbuf_cb.b)
  /\ data_ready' = data_ready + 1
  /\ inbuf_cb' = [pc |-> "idle", b |-> 0]
  /\ UNCHANGED <<buf_lens, read_data, kern, heapVars, tx, rx, callVars, devVars, anomaly>>
==============================================================================
