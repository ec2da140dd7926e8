---------------------------- MODULE CustdevDevice ----------------------------
(***************************************************************************)
(* The back end, virtio-custdev.c: the two queue handlers, which QEMU runs *)
(* one at a time under its big lock (so each is one step), and unrealize.  *)
(* Queue 0 (the driver's vq_tx) is served by handle_outbuf and queue 1     *)
(* (the driver's vq_rx) by handle_inbuf.                                   *)
(***************************************************************************)
EXTENDS CustdevState

\* The notification a handler consumes: one trapped client's, or all that were
\* merged in the eventfd.
Taken(q) == IF IoEventFd THEN {[q EXCEPT !.kick = {}]}
                         ELSE {[q EXCEPT !.kick = @ \ {c}] : c \in q.kick}

\* runstate_check fails: "not synced", return.  The notification is gone.
NotSynced ==
  /\ dev = "up" /\ ~ running
  /\ \/ tx.kick # {} /\ tx' \in Taken(tx) /\ UNCHANGED rx
     \/ rx.kick # {} /\ rx' \in Taken(rx) /\ UNCHANGED tx
  /\ UNCHANGED <<drvVars, heapVars, inbuf_cb, callVars, devVars, anomaly>>

\* The handler dereferences a NULL element or leaves rcv_bufs.
Dies(how) ==
  /\ dev' = how
  /\ UNCHANGED <<drvVars, heapVars, inbuf_cb, tx, rx, callVars, rcv_bufs, rcv_count,
                 running, notifies, anomaly>>

\* What the device reads from the guest buffer of e: e.len bytes of it.
Fetch(e) == [msg |-> IF e.len <= mem[e.buf].n THEN mem[e.buf].msg ELSE NoMsg,
             n |-> e.len]

\* rcv_bufs[rcv_count] = copy of the popped buffer; rcv_count++; push; notify
virtio_custdev_handle_outbuf ==
  /\ kern = "ok" /\ dev = "up" /\ running /\ tx.kick # {}
  /\ \E q \in Taken(tx) :
       \/ PopsNull(q) /\ Dies("nullpop")
       \/ ~ PopsNull(q) /\ rcv_count \notin DOMAIN rcv_bufs /\ Dies("oob")
       \/ /\ ~ PopsNull(q) /\ rcv_count \in DOMAIN rcv_bufs
          /\ rcv_bufs' = [rcv_bufs EXCEPT ![rcv_count] = Fetch(Head(q.avail))]
          /\ rcv_count' = Inc(rcv_count)
          /\ tx' \in PopPush(q)
          /\ UNCHANGED <<drvVars, heapVars, inbuf_cb, rx, callVars, dev, running, notifies, anomaly>>

\* Variant: the last byte is not copied.
DeliverShort(d, len) == [msg |-> d.msg, n |-> len - 1]

\* Variant of handle_inbuf: rcv_count is not decremented.
InbufKeepsStored ==
  /\ kern = "ok" /\ dev = "up" /\ running /\ rx.kick # {}
  /\ \E q \in Taken(rx) :
       /\ ~ PopsNull(q) /\ Dec(rcv_count) \in DOMAIN rcv_bufs
       /\ rcv_bufs' = [rcv_bufs EXCEPT ![Dec(rcv_count)] = Freed]
       /\ rx' \in PopPush(q)
  /\ UNCHANGED <<drvVars, heapVars, inbuf_cb, tx, callVars, rcv_count, dev, running, notifies, anomaly>>

\* What the device leaves in the guest buffer: len bytes from the stored copy d,
\* and whatever lies behind that copy when it is shorter.
Deliver(d, len) == [msg |-> IF len <= d.n THEN d.msg ELSE NoMsg, n |-> len]

\* last_buf = rcv_count - 1; copy rcv_bufs[last_buf] out, in_sg length; rcv_count--;
\* push; notify; g_free(rcv_bufs[last_buf])
virtio_custdev_handle_inbuf ==
  /\ kern = "ok" /\ dev = "up" /\ running /\ rx.kick # {}
  /\ \E q \in Taken(rx) : LET last_buf == Dec(rcv_count) IN
       \/ PopsNull(q) /\ Dies("nullpop")
       \/ ~ PopsNull(q) /\ last_buf \notin DOMAIN rcv_bufs /\ Dies("oob")
       \/ /\ ~ PopsNull(q) /\ last_buf \in DOMAIN rcv_bufs
          /\ LET e == Head(q.avail)
                 d == Deliver(rcv_bufs[last_buf], e.len)
             IN  mem' = [mem EXCEPT ![e.buf] = [size |-> @.size, msg |-> d.msg, n |-> d.n]]
          /\ rcv_bufs' = [rcv_bufs EXCEPT ![last_buf] = Freed]
          /\ rcv_count' = Dec(rcv_count)
          /\ rx' \in PopPush(q)
          /\ UNCHANGED <<drvVars, heap, inbuf_cb, tx, callVars, dev, running, notifies, anomaly>>

\* g_free every rcv_bufs[i], i < rcv_count; virtio_cleanup
virtio_custdev_device_unrealize ==
  /\ MayUnplug /\ kern = "ok" /\ dev = "up"
  /\ dev' = "gone"
  /\ rcv_bufs' = [i \in DOMAIN rcv_bufs |-> IF i < rcv_count THEN Freed ELSE rcv_bufs[i]]
  /\ tx' = [tx EXCEPT !.kick = {}] /\ rx' = [rx EXCEPT !.kick = {}]
  /\ UNCHANGED <<drvVars, heapVars, inbuf_cb, callVars, rcv_count, running, notifies, anomaly>>

\* The administrator stops or resumes the VM; no vCPU runs in between.  A vCPU
\* finishes the handler it trapped into before it stops.
VmStop == MayStop /\ Alive /\ (IoEventFd \/ tx.kick \union rx.kick = {})
          /\ running' = FALSE
          /\ UNCHANGED <<drvVars, heapVars, inbuf_cb, tx, rx, callVars, rcv_bufs, rcv_count,
                         dev, notifies, anomaly>>

VmResume == ~ running /\ running' = TRUE
            /\ UNCHANGED <<drvVars, heapVars, inbuf_cb, tx, rx, callVars, rcv_bufs, rcv_count,
                           dev, notifies, anomaly>>
==============================================================================
