---------------------------- MODULE Custdev_proofs ----------------------------
(***************************************************************************)
(* Theorems about Custdev.  First, for every set of clients, every         *)
(* BUFFERS, ring size and heap, and every transport.  Then with few        *)
(* clients.  One reading process, and any number of writers: its read gets *)
(* its own buffer back, allocated.  One reading and one writing process    *)
(* (possibly the same one): although buffers++ in write and buffers-- in   *)
(* the interrupt are unlocked and lose each other's updates, the count     *)
(* stays within buf_lens.  One client, on one vCPU, with kicks that trap:  *)
(* the driver, the queues and the device together implement MessageStack,  *)
(* with user copies that stop short, allocations that fail and a VM that   *)
(* is stopped and resumed.  All this for every BUFFERS, ring size and heap.*)
(***************************************************************************)
EXTENDS Custdev, FiniteSetTheorems, TLAPS

------------------------------------------------------------------------------
(* Type correctness *)

LEMMA CountsFacts ==
  /\ Counts \subseteq Nat /\ 0 \in Counts /\ Lens \subseteq Counts
  /\ \A n \in Counts : 0 .. n \subseteq Counts
BY LensAssumption, SizeAssumption DEF Counts

\* What the queue operations return are queues.
LEMMA QueueTypes ==
  ASSUME NEW q \in Queue
  PROVE  /\ \A e \in Element : QueueAdd(q, e) \in Queue
         /\ \A c \in Clients : Notified(c, q) \subseteq Queue
         /\ Taken(q) \subseteq Queue
         /\ q.avail # << >> => PopPush(q) \subseteq Queue /\ Head(q.avail) \in Element
         /\ q.used # << >> => GetBuf(q) \in Queue
                              /\ Head(q.used).buf \in Bufs
<1>0. /\ q.avail \in Seq(Element) /\ q.used \in Seq(Element) /\ q.kick \subseteq Clients
      /\ q.irq \in 0 .. 1 /\ q.added \in 0 .. 1
  BY DEF Queue
<1>1. \A e \in Element : QueueAdd(q, e) \in Queue
  BY <1>0 DEF QueueAdd, QueueOf, Queue
<1>2. ASSUME NEW c \in Clients PROVE Notified(c, q) \subseteq Queue
  <2>1. ASSUME NEW k \in SUBSET Clients
        PROVE  QueueOf(q.avail, q.used, k, q.irq, 0) \in Queue
    BY <1>0 DEF QueueOf, Queue
  <2>2. q.kick \union {c} \in SUBSET Clients /\ q.kick \in SUBSET Clients
    BY <1>0
  <2> QED BY <2>1, <2>2, Zenon DEF Notified
<1>3. Taken(q) \subseteq Queue
  BY DEF Taken, Queue
<1>4. ASSUME q.avail # << >> PROVE PopPush(q) \subseteq Queue /\ Head(q.avail) \in Element
  <2>1. Head(q.avail) \in Element /\ Tail(q.avail) \in Seq(Element)
    BY <1>0, <1>4
  <2>2. Append(q.used, Head(q.avail)) \in Seq(Element)
    BY <1>0, <2>1
  <2>3. ASSUME NEW i \in 0 .. 1
        PROVE  QueueOf(Tail(q.avail), Append(q.used, Head(q.avail)), q.kick, i, q.added) \in Queue
    BY <1>0, <2>1, <2>2 DEF QueueOf, Queue
  <2>4. q.irq \in 0 .. 1 /\ 1 \in 0 .. 1
    BY <1>0
  <2> QED BY <2>1, <2>3, <2>4, Zenon DEF PopPush
<1>5. ASSUME q.used # << >> PROVE GetBuf(q) \in Queue /\ Head(q.used).buf \in Bufs
  <2>1. Head(q.used) \in Element /\ Tail(q.used) \in Seq(Element)
    BY <1>0, <1>5
  <2>2. Head(q.used).buf \in Bufs
    BY <2>1 DEF Element
  <2>3. GetBuf(q) \in Queue
    BY <1>0, <2>1 DEF GetBuf, QueueOf, Queue
  <2> QED BY <2>2, <2>3
<1> QED BY <1>1, <1>2, <1>3, <1>4, <1>5

\* Inc and Dec stay within unsigned int.
LEMMA UnsignedFacts == \A x \in 0 .. UMAX : Inc(x) \in 0 .. UMAX /\ Dec(x) \in 0 .. UMAX
BY SizeAssumption DEF Inc, Dec

Pcs == {"idle"} \union ReadPcs \union WritePcs

LEMMA PcFacts ==
  /\ ReadPcs \subseteq Pcs /\ WritePcs \subseteq Pcs /\ "idle" \in Pcs /\ WithBuf \subseteq Pcs
  /\ WithBuf = {"r_add", "r_kick", "r_trap", "r_wait", "r_copy", "r_short", "r_fix", "r_free",
                "w_load", "w_store", "w_len", "w_add", "w_kick", "w_trap"}
  /\ "r_alloc" \in Pcs /\ "w_alloc" \in Pcs
BY DEF Pcs, ReadPcs, WritePcs, WithBuf

\* What the locals of a client are.
LEMMA LocalsFacts ==
  ASSUME CallTypeOK, NEW c \in Clients
  PROVE  /\ loc[c].msg \in Msgs \union {NoMsg} /\ loc[c].n \in Counts
         /\ loc[c].buf \in Bufs \union {NoBuf} /\ loc[c].idx \in 0 .. UMAX
BY DEF CallTypeOK, Locals

\* A client moves on, with the locals it has or with new ones, or returns.
LEMMA GotoType ==
  ASSUME CallTypeOK, NEW c \in Clients, NEW label \in Pcs, Goto(c, label),
         UNCHANGED <<loc, ret>>, label \in WithBuf => pc[c] \in WithBuf
  PROVE  CallTypeOK'
BY DEF CallTypeOK, Goto, Pcs

LEMMA LocalsType ==
  ASSUME CallTypeOK, NEW c \in Clients, NEW label \in Pcs, Goto(c, label), ret' = ret,
         NEW msg \in Msgs \union {NoMsg}, NEW n \in Counts,
         NEW buf \in Bufs \union {NoBuf}, NEW idx \in 0 .. UMAX,
         SetLocals(c, msg, n, buf, idx), label \in WithBuf => buf \in Bufs
  PROVE  CallTypeOK'
<1>1. LocalsOf(msg, n, buf, idx) \in Locals /\ LocalsOf(msg, n, buf, idx).buf = buf
  BY DEF LocalsOf, Locals
<1> QED BY <1>1 DEF CallTypeOK, SetLocals, Goto, Pcs

LEMMA ReturnType ==
  ASSUME CallTypeOK, NEW c \in Clients, NEW call \in {"read", "write"},
         NEW n \in Counts \union {1, ENOSPC, - ENOMEM}, NEW msg \in Msgs \union {NoMsg},
         Return(c, call, n, msg)
  PROVE  CallTypeOK'
<1>1. NoLocals \in Locals
  BY CountsFacts, SizeAssumption DEF NoLocals, LocalsOf, Locals
<1>2. [call |-> call, n |-> n, msg |-> msg] \in Results
  BY DEF Results
<1>3. "idle" \notin WithBuf
  BY PcFacts
<1> HIDE DEF NoLocals
<1> QED BY <1>1, <1>2, <1>3 DEF CallTypeOK, Return, Goto

LEMMA AllocType ==
  ASSUME TypeOK, NEW b \in Bufs, NEW size \in Counts, NEW msg \in Msgs \union {NoMsg},
         NEW n \in Counts, Alloc(b, size, msg, n)
  PROVE  heap' \subseteq Bufs /\ mem' \in [Bufs -> Contents]
<1>1. [size |-> size, msg |-> msg, n |-> n] \in Contents
  BY DEF Contents
<1> QED BY <1>1 DEF TypeOK, Alloc

LEMMA FaultType == ASSUME TypeOK, Fault PROVE TypeOK'
BY DEF TypeOK, DrvTypeOK, CallTypeOK, DevTypeOK, Fault, heapVars, callVars, devVars

LEMMA RaceType == ASSUME TypeOK, Race PROVE TypeOK'
BY DEF TypeOK, DrvTypeOK, CallTypeOK, DevTypeOK, Race, heapVars, callVars

\* Each step of a read keeps the types.
LEMMA ReadTypes ==
  ASSUME TypeOK, NEW c \in Clients, virtio_custdev_read(c) \/ ReadStep(c)
  PROVE  TypeOK'
<1> USE CountsFacts, PcFacts DEF drvVars, heapVars, callVars, devVars
<1>0. /\ DrvTypeOK /\ CallTypeOK /\ DevTypeOK
  BY DEF TypeOK
<1>l. /\ loc[c].msg \in Msgs \union {NoMsg} /\ loc[c].n \in Counts
      /\ loc[c].buf \in Bufs \union {NoBuf} /\ loc[c].idx \in 0 .. UMAX
      /\ pc[c] \in WithBuf => loc[c].buf \in Bufs
  BY <1>0, LocalsFacts DEF CallTypeOK
<1>s. \A i \in Cells : buf_lens[i] \in Counts
  BY <1>0, SizeAssumption DEF DrvTypeOK, Cells, Slots
<1>1. CASE virtio_custdev_read(c)
  <2>1. CallTypeOK'
    <3>1. CASE Return(c, "read", 0, NoMsg)
      BY <1>0, <3>1, ReturnType
    <3>2. CASE Goto(c, "r_alloc") /\ UNCHANGED <<loc, ret>>
      BY <1>0, <3>2, GotoType
    <3> QED BY <1>1, <3>1, <3>2 DEF virtio_custdev_read
  <2> QED BY <1>1, <2>1 DEF virtio_custdev_read, TypeOK, DrvTypeOK, DevTypeOK
<1>2. CASE ReadAlloc(c)
  <2>1. CASE Fault
    BY <2>1, FaultType
  <2>2. CASE Return(c, "read", - ENOMEM, NoMsg)
             /\ UNCHANGED <<drvVars, heapVars, inbuf_cb, tx, rx, devVars, anomaly>>
    <3>1. CallTypeOK'
      BY <1>0, <2>2, ReturnType
    <3> QED BY <2>2, <3>1 DEF TypeOK, DrvTypeOK, DevTypeOK
  <2>3. ASSUME NEW b \in Bufs, Dec(buffers) \in Cells, Alloc(b, buf_lens[Dec(buffers)], NoMsg, 0),
               SetLocals(c, NoMsg, 0, b, 0), Goto(c, "r_add"),
               UNCHANGED <<ret, drvVars, inbuf_cb, tx, rx, devVars, anomaly>>
        PROVE  TypeOK'
    <3>1. heap' \subseteq Bufs /\ mem' \in [Bufs -> Contents]
      BY <1>s, <2>3, AllocType
    <3>2. CallTypeOK'
      BY <1>0, <2>3, LocalsType, SizeAssumption
    <3> QED BY <2>3, <3>1, <3>2 DEF TypeOK, DrvTypeOK, DevTypeOK
  <2> QED BY <1>2, <2>1, <2>2, <2>3 DEF ReadAlloc
<1>3. CASE ReadAdd(c)
  <2>1. CASE Fault
    BY <2>1, FaultType
  <2>2. CASE ~ Fault
    <3> DEFINE e == [buf |-> loc[c].buf, len |-> buf_lens[Dec(buffers)]]
    <3>1. Dec(buffers) \in Cells /\ pc[c] = "r_add"
      BY <1>3, <2>2 DEF ReadAdd, At
    <3>2. e \in Element
      BY <1>l, <1>s, <3>1 DEF Element
    <3>3. QueueAdd(rx, e) \in Queue
      BY <3>2, QueueTypes DEF TypeOK
    <3>4. CallTypeOK'
      BY <1>0, <1>3, <2>2, <3>1, GotoType DEF ReadAdd
    <3>5. rx' \in Queue
      BY <1>3, <2>2, <3>3 DEF ReadAdd, TypeOK
    <3>6. anomaly' \subseteq {"dropped", "empty"}
      BY <1>3, <2>2 DEF ReadAdd, TypeOK
    <3> QED BY <1>3, <2>2, <3>4, <3>5, <3>6 DEF ReadAdd, TypeOK, DrvTypeOK, DevTypeOK
  <2> QED BY <2>1, <2>2
<1>4. CASE ReadKick(c)
  <2>1. CallTypeOK'
    BY <1>0, <1>4, GotoType DEF ReadKick, At
  <2>2. rx' \in Queue
    BY <1>4, QueueTypes DEF ReadKick, TypeOK
  <2> QED BY <1>4, <2>1, <2>2 DEF ReadKick, TypeOK, DrvTypeOK, DevTypeOK
<1>5. CASE ReadResume(c)
  <2>1. CallTypeOK'
    BY <1>0, <1>5, GotoType DEF ReadResume, At
  <2> QED BY <1>5, <2>1 DEF ReadResume, TypeOK, DrvTypeOK, DevTypeOK
<1>6. CASE ReadWait(c)
  <2>1. CallTypeOK'
    BY <1>0, <1>6, GotoType DEF ReadWait, At
  <2>2. data_ready' \in Nat
    BY <1>0, <1>6 DEF ReadWait, DrvTypeOK
  <2> QED BY <1>6, <2>1, <2>2 DEF ReadWait, TypeOK, DrvTypeOK, DevTypeOK
<1>7. CASE ReadCopy(c)
  <2>1. CASE Fault
    BY <2>1, FaultType
  <2>2. CASE ~ Fault
    <3> DEFINE n == buf_lens[buffers]
               msg == IF read_data \in Bufs /\ n <= mem[read_data].n
                      THEN mem[read_data].msg ELSE NoMsg
    <3>1. buffers \in Cells /\ pc[c] = "r_copy"
      BY <1>7, <2>2 DEF ReadCopy, At
    <3>2. n \in Counts
      BY <1>s, <3>1
    <3>3. msg \in Msgs \union {NoMsg}
      BY DEF TypeOK, Contents
    <3> HIDE DEF msg
    <3>4. PICK res \in (IF MayFault THEN 0 .. n ELSE {0}) :
                 /\ SetLocals(c, msg, res, loc[c].buf, 0)
                 /\ Goto(c, IF res # 0 THEN "r_short" ELSE "r_free")
      BY <1>7, <2>2 DEF ReadCopy, msg
    <3>5. res \in Counts
      BY <3>2, <3>4
    <3>a. ret' = ret /\ loc[c].buf \in Bufs /\ 0 \in 0 .. UMAX
      BY <1>l, <1>7, <2>2, <3>1, SizeAssumption DEF ReadCopy
    <3>6. CallTypeOK'
      BY <1>0, <3>a, <3>1, <3>3, <3>4, <3>5, LocalsType
    <3> QED BY <1>7, <2>2, <3>6 DEF ReadCopy, TypeOK, DrvTypeOK, DevTypeOK
  <2> QED BY <2>1, <2>2
<1>9. CASE ReadShort(c)
  <2>1. CASE Fault
    BY <2>1, FaultType
  <2>2. CASE ~ Fault
    <3>1. /\ buffers \in Cells /\ pc[c] = "r_short" /\ Goto(c, "r_fix") /\ ret' = ret
          /\ SetLocals(c, loc[c].msg, Minus(buf_lens[buffers], loc[c].n), loc[c].buf, buffers)
      BY <1>9, <2>2 DEF ReadShort, At
    <3>2. Minus(buf_lens[buffers], loc[c].n) \in Counts
      BY <1>l, <1>s, <3>1, SizeAssumption DEF Counts, Minus
    <3>3. buffers \in 0 .. UMAX /\ loc[c].buf \in Bufs
      BY <1>0, <1>l, <3>1 DEF DrvTypeOK
    <3>4. CallTypeOK'
      BY <1>0, <1>l, <3>1, <3>2, <3>3, LocalsType
    <3> QED BY <1>9, <2>2, <3>4 DEF ReadShort, TypeOK, DrvTypeOK, DevTypeOK
  <2> QED BY <2>1, <2>2
<1>10. CASE ReadFix(c)
  <2>1. CallTypeOK'
    BY <1>0, <1>10, GotoType DEF ReadFix, At
  <2>2. buf_lens' \in [0 .. BUFFERS -> Counts]
    BY <1>0, <1>l, <1>10 DEF ReadFix, DrvTypeOK
  <2> QED BY <1>10, <2>1, <2>2 DEF ReadFix, TypeOK, DrvTypeOK, DevTypeOK
<1>8. CASE ReadFree(c)
  <2>1. CASE Fault
    BY <2>1, FaultType
  <2>2. CASE ~ Fault
    <3>1. CallTypeOK'
      BY <1>0, <1>l, <1>s, <1>8, <2>2, ReturnType DEF ReadFree
    <3> QED BY <1>8, <2>2, <3>1 DEF ReadFree, TypeOK, DrvTypeOK, DevTypeOK
  <2> QED BY <2>1, <2>2
<1> QED BY <1>1, <1>2, <1>3, <1>4, <1>5, <1>6, <1>7, <1>8, <1>9, <1>10 DEF ReadStep

\* Each step of a write keeps the types.
LEMMA WriteTypes ==
  ASSUME TypeOK, NEW c \in Clients, virtio_custdev_write(c) \/ WriteStep(c)
  PROVE  TypeOK'
<1> USE CountsFacts, PcFacts DEF drvVars, heapVars, callVars, devVars
<1>0. /\ DrvTypeOK /\ CallTypeOK /\ DevTypeOK /\ 0 \in 0 .. UMAX
  BY SizeAssumption DEF TypeOK
<1>l. /\ loc[c].msg \in Msgs \union {NoMsg} /\ loc[c].n \in Counts
      /\ loc[c].buf \in Bufs \union {NoBuf} /\ loc[c].idx \in 0 .. UMAX
      /\ pc[c] \in WithBuf => loc[c].buf \in Bufs
  BY <1>0, LocalsFacts DEF CallTypeOK
<1>1. CASE virtio_custdev_write(c)
  <2>1. CallTypeOK'
    <3>1. CASE Return(c, "write", ENOSPC, NoMsg)
      BY <1>0, <3>1, ReturnType
    <3>2. ASSUME NEW m \in Msgs, NEW count \in Lens, SetLocals(c, m, count, NoBuf, 0),
                 Goto(c, "w_alloc"), ret' = ret
          PROVE  CallTypeOK'
      BY <1>0, <3>2, LocalsType
    <3> QED BY <1>1, <3>1, <3>2 DEF virtio_custdev_write
  <2> QED BY <1>1, <2>1 DEF virtio_custdev_write, TypeOK, DrvTypeOK, DevTypeOK
<1>2. CASE WriteAlloc(c)
  <2>1. CASE Return(c, "write", 1, NoMsg) /\ UNCHANGED heapVars
    <3>1. CallTypeOK'
      BY <1>0, <2>1, ReturnType
    <3> QED BY <1>2, <2>1, <3>1 DEF WriteAlloc, TypeOK, DrvTypeOK, DevTypeOK
  <2>2. ASSUME NEW b \in Bufs, NEW k \in (IF MayFault THEN 0 .. loc[c].n ELSE {loc[c].n}),
               Alloc(b, loc[c].n, loc[c].msg, k), SetLocals(c, loc[c].msg, k, b, 0),
               Goto(c, "w_load"), ret' = ret
        PROVE  TypeOK'
    <3>1. k \in Counts
      BY <1>l
    <3>2. heap' \subseteq Bufs /\ mem' \in [Bufs -> Contents]
      BY <1>l, <2>2, <3>1, AllocType
    <3>3. CallTypeOK'
      BY <1>0, <1>l, <2>2, <3>1, LocalsType
    <3> QED BY <1>2, <3>2, <3>3 DEF WriteAlloc, TypeOK, DrvTypeOK, DevTypeOK
  <2> QED BY <1>2, <2>1, <2>2 DEF WriteAlloc
<1>3. CASE WriteLoad(c)
  <2>1. buffers \in 0 .. UMAX
    BY <1>0 DEF DrvTypeOK
  <2>2. CallTypeOK'
    BY <1>0, <1>l, <1>3, <2>1, LocalsType DEF WriteLoad, At
  <2> QED BY <1>3, <2>2 DEF WriteLoad, TypeOK, DrvTypeOK, DevTypeOK
<1>4. CASE WriteStore(c)
  <2>1. CallTypeOK'
    BY <1>0, <1>4, GotoType DEF WriteStore, At
  <2>2. buffers' \in 0 .. UMAX
    BY <1>l, <1>4, UnsignedFacts DEF WriteStore
  <2> QED BY <1>4, <2>1, <2>2 DEF WriteStore, TypeOK, DrvTypeOK, DevTypeOK
<1>5. CASE WriteLen(c)
  <2>1. CASE Fault
    BY <2>1, FaultType
  <2>2. CASE ~ Fault
    <3>1. CallTypeOK'
      BY <1>0, <1>5, <2>2, GotoType DEF WriteLen, At
    <3>2. buf_lens' \in [0 .. BUFFERS -> Counts]
      BY <1>0, <1>l, <1>5, <2>2 DEF WriteLen, DrvTypeOK
    <3> QED BY <1>5, <2>2, <3>1, <3>2 DEF WriteLen, TypeOK, DrvTypeOK, DevTypeOK
  <2> QED BY <2>1, <2>2
<1>6. CASE WriteAdd(c)
  <2> DEFINE e == [buf |-> loc[c].buf, len |-> loc[c].n]
  <2>1. e \in Element
    BY <1>l, <1>6 DEF Element, WriteAdd, At
  <2>2. QueueAdd(tx, e) \in Queue
    BY <2>1, QueueTypes DEF TypeOK
  <2>3. CallTypeOK'
    BY <1>0, <1>6, GotoType DEF WriteAdd, At
  <2>4. tx' \in Queue
    BY <1>6, <2>2 DEF WriteAdd, TypeOK
  <2>5. anomaly' \subseteq {"dropped", "empty"}
    BY <1>6 DEF WriteAdd, TypeOK
  <2> QED BY <1>6, <2>3, <2>4, <2>5 DEF WriteAdd, TypeOK, DrvTypeOK, DevTypeOK
<1>7. CASE WriteKick(c)
  <2>1. CallTypeOK'
    <3>1. CASE Return(c, "write", loc[c].n, loc[c].msg)
      BY <1>0, <1>l, <3>1, ReturnType
    <3>2. CASE Goto(c, "w_trap") /\ UNCHANGED <<loc, ret>>
      BY <1>0, <1>7, <3>2, GotoType DEF WriteKick, At
    <3> QED BY <1>7, <3>1, <3>2 DEF WriteKick
  <2>2. tx' \in Queue
    BY <1>7, QueueTypes DEF WriteKick, TypeOK
  <2> QED BY <1>7, <2>1, <2>2 DEF WriteKick, TypeOK, DrvTypeOK, DevTypeOK
<1>8. CASE WriteResume(c)
  <2>1. CallTypeOK'
    BY <1>0, <1>l, <1>8, ReturnType DEF WriteResume
  <2> QED BY <1>8, <2>1 DEF WriteResume, TypeOK, DrvTypeOK, DevTypeOK
<1> QED BY <1>1, <1>2, <1>3, <1>4, <1>5, <1>6, <1>7, <1>8 DEF WriteStep

\* Each callback keeps the types.
LEMMA InterruptTypes == ASSUME TypeOK, Interrupt PROVE TypeOK'
<1> USE DEF drvVars, heapVars, callVars, devVars
<1>1. CASE virtio_custdev_outbuf_cb
  <2>1. tx' \in Queue
    BY <1>1, QueueTypes DEF virtio_custdev_outbuf_cb, TypeOK
  <2> QED BY <1>1, <2>1 DEF virtio_custdev_outbuf_cb, TypeOK, DrvTypeOK, CallTypeOK, DevTypeOK
<1>2. CASE virtio_custdev_inbuf_cb
  <2>1. rx' \in Queue /\ read_data' \in Bufs
    BY <1>2, QueueTypes DEF virtio_custdev_inbuf_cb, TypeOK
  <2>2. inbuf_cb' \in [pc : {"idle", "dec"}, b : 0 .. UMAX]
    BY <1>2 DEF virtio_custdev_inbuf_cb, TypeOK, DrvTypeOK
  <2> QED BY <1>2, <2>1, <2>2
          DEF virtio_custdev_inbuf_cb, TypeOK, DrvTypeOK, CallTypeOK, DevTypeOK
<1>3. CASE InbufComplete
  <2>1. inbuf_cb' \in [pc : {"idle", "dec"}, b : 0 .. UMAX]
    BY <1>3, SizeAssumption DEF InbufComplete
  <2>2. buffers' \in 0 .. UMAX /\ data_ready' \in Nat
    BY <1>3, UnsignedFacts DEF InbufComplete, TypeOK, DrvTypeOK
  <2> QED BY <1>3, <2>1, <2>2 DEF InbufComplete, TypeOK, DrvTypeOK, CallTypeOK, DevTypeOK
<1> QED BY <1>1, <1>2, <1>3 DEF Interrupt

\* Each handler of the device keeps the types: what it stores and what it delivers
\* are payloads, and it indexes rcv_bufs inside its bounds or dies.
LEMMA DeviceTypes ==
  ASSUME TypeOK, Handler \/ NotSynced \/ virtio_custdev_device_unrealize \/ VmStop \/ VmResume
  PROVE  TypeOK'
<1> USE DEF drvVars, heapVars, callVars, devVars
<1>0. tx \in Queue /\ rx \in Queue /\ DevTypeOK /\ mem \in [Bufs -> Contents]
  BY DEF TypeOK
<1>d. ASSUME NEW how \in {"nullpop", "oob"}, Dies(how) PROVE TypeOK'
  BY <1>d DEF Dies, TypeOK, DrvTypeOK, CallTypeOK, DevTypeOK
<1>1. CASE virtio_custdev_handle_outbuf
  <2>1. PICK q \in Taken(tx) :
       \/ PopsNull(q) /\ Dies("nullpop")
       \/ ~ PopsNull(q) /\ rcv_count \notin DOMAIN rcv_bufs /\ Dies("oob")
       \/ /\ ~ PopsNull(q) /\ rcv_count \in DOMAIN rcv_bufs
          /\ rcv_bufs' = [rcv_bufs EXCEPT ![rcv_count] = Fetch(Head(q.avail))]
          /\ rcv_count' = Inc(rcv_count)
          /\ tx' \in PopPush(q)
          /\ UNCHANGED <<drvVars, heapVars, inbuf_cb, rx, callVars, dev, running, notifies, anomaly>>
    BY <1>1 DEF virtio_custdev_handle_outbuf
  <2>2. CASE Dies("nullpop") \/ Dies("oob")
    BY <1>d, <2>2
  <2>3. CASE /\ ~ PopsNull(q) /\ rcv_count \in DOMAIN rcv_bufs
             /\ rcv_bufs' = [rcv_bufs EXCEPT ![rcv_count] = Fetch(Head(q.avail))]
             /\ rcv_count' = Inc(rcv_count)
             /\ tx' \in PopPush(q)
             /\ UNCHANGED <<drvVars, heapVars, inbuf_cb, rx, callVars, dev, running, notifies, anomaly>>
    <3>1. q \in Queue
      BY <1>0, QueueTypes
    <3>2. q.avail # << >>
      BY <2>3 DEF PopsNull
    <3>3. Head(q.avail) \in Element /\ tx' \in Queue
      BY <2>3, <3>1, <3>2, QueueTypes
    <3>4. Fetch(Head(q.avail)) \in Payload
      BY <1>0, <3>3 DEF Fetch, Payload, Element, Contents
    <3>5. DevTypeOK'
      BY <1>0, <2>3, <3>4, UnsignedFacts DEF DevTypeOK
    <3> QED BY <2>3, <3>3, <3>5 DEF TypeOK, DrvTypeOK, CallTypeOK
  <2> QED BY <2>1, <2>2, <2>3
<1>2. CASE virtio_custdev_handle_inbuf
  <2> DEFINE last_buf == Dec(rcv_count)
             d(e) == Deliver(rcv_bufs[last_buf], e.len)
  <2>1. PICK q \in Taken(rx) :
       \/ PopsNull(q) /\ Dies("nullpop")
       \/ ~ PopsNull(q) /\ last_buf \notin DOMAIN rcv_bufs /\ Dies("oob")
       \/ /\ ~ PopsNull(q) /\ last_buf \in DOMAIN rcv_bufs
          /\ LET e == Head(q.avail) IN
               mem' = [mem EXCEPT ![e.buf] = [size |-> mem[e.buf].size, msg |-> d(e).msg, n |-> d(e).n]]
          /\ rcv_bufs' = [rcv_bufs EXCEPT ![last_buf] = Freed]
          /\ rcv_count' = Dec(rcv_count)
          /\ rx' \in PopPush(q)
          /\ UNCHANGED <<drvVars, heap, inbuf_cb, tx, callVars, dev, running, notifies, anomaly>>
    BY <1>2 DEF virtio_custdev_handle_inbuf
  <2>2. CASE Dies("nullpop") \/ Dies("oob")
    BY <1>d, <2>2
  <2>3. CASE ~ (Dies("nullpop") \/ Dies("oob"))
    <3>0. ~ PopsNull(q) /\ last_buf \in DOMAIN rcv_bufs
      BY <2>1, <2>3
    <3>1. q \in Queue
      BY <1>0, QueueTypes
    <3>2. q.avail # << >>
      BY <3>0 DEF PopsNull
    <3> DEFINE e == Head(q.avail)
    <3>3. e \in Element /\ rx' \in Queue
      BY <2>1, <2>3, <3>1, <3>2, QueueTypes
    <3>4. rcv_bufs[last_buf] \in Payload \union {Freed}
      BY <1>0, <3>0 DEF DevTypeOK
    <3>5. [size |-> mem[e.buf].size, msg |-> d(e).msg, n |-> d(e).n] \in Contents
      <4>1. mem[e.buf].size \in Counts /\ e.len \in Counts
        BY <1>0, <3>3 DEF Element, Contents
      <4>2. rcv_bufs[last_buf].msg \in Msgs \union {NoMsg}
        BY <3>4 DEF Payload, Freed
      <4> QED BY <4>1, <4>2 DEF Deliver, Contents
    <3>6. mem' \in [Bufs -> Contents]
      BY <1>0, <2>1, <2>3, <3>5
    <3>7. DevTypeOK'
      BY <1>0, <2>1, <2>3, UnsignedFacts DEF DevTypeOK
    <3> QED BY <2>1, <2>3, <3>3, <3>6, <3>7 DEF TypeOK, DrvTypeOK, CallTypeOK
  <2> QED BY <2>2, <2>3
<1>3. CASE NotSynced
  <2>1. tx' \in Queue /\ rx' \in Queue
    BY <1>0, <1>3, QueueTypes DEF NotSynced
  <2> QED BY <1>3, <2>1 DEF NotSynced, TypeOK, DrvTypeOK, CallTypeOK, DevTypeOK
<1>4. CASE virtio_custdev_device_unrealize
  <2>1. tx' \in Queue /\ rx' \in Queue
    BY <1>0, <1>4 DEF virtio_custdev_device_unrealize, Queue
  <2>2. rcv_bufs' \in [0 .. BUFFERS - 1 -> Payload \union {Freed}]
    BY <1>0, <1>4 DEF virtio_custdev_device_unrealize, DevTypeOK
  <2> QED BY <1>4, <2>1, <2>2
          DEF virtio_custdev_device_unrealize, TypeOK, DrvTypeOK, CallTypeOK, DevTypeOK
<1>5. CASE VmStop \/ VmResume
  BY <1>5 DEF VmStop, VmResume, TypeOK, DrvTypeOK, CallTypeOK, DevTypeOK
<1> QED BY <1>1, <1>2, <1>3, <1>4, <1>5 DEF Handler

LEMMA InitTypes == Init => TypeOK
<1> SUFFICES ASSUME Init PROVE TypeOK
  OBVIOUS
<1>1. DrvTypeOK
  BY SizeAssumption, CountsFacts DEF Init, DrvTypeOK
<1>2. NoLocals \in Locals
  BY CountsFacts, SizeAssumption DEF NoLocals, LocalsOf, Locals
<1>3. [call |-> "none", n |-> 0, msg |-> NoMsg] \in Results
  BY CountsFacts DEF Results
<1>4. CallTypeOK
  BY <1>2, <1>3, PcFacts DEF Init, CallTypeOK
<1>5. DevTypeOK
  BY SizeAssumption DEF Init, DevTypeOK
<1>6. mem \in [Bufs -> Contents]
  BY CountsFacts DEF Init, Contents
<1>7. tx \in Queue /\ rx \in Queue
  BY DEF Init, EmptyQueue, QueueOf, Queue
<1> QED BY <1>1, <1>4, <1>5, <1>6, <1>7, SizeAssumption DEF Init, TypeOK

LEMMA NextTypes == ASSUME TypeOK, [Next]_vars PROVE TypeOK'
<1>1. CASE UNCHANGED vars
  BY <1>1 DEF vars, TypeOK, DrvTypeOK, CallTypeOK, DevTypeOK, drvVars, heapVars, callVars, devVars
<1> QED BY <1>1, ReadTypes, WriteTypes, InterruptTypes, DeviceTypes, RaceType DEF Next

\* Every variable of the driver, the queues and the device keeps its type: the
\* counters stay unsigned, whatever enters a queue is an allocated-once buffer with
\* its length, and every payload stored or delivered is one of the known contents.
THEOREM TypeCorrect == Spec => []TypeOK
BY InitTypes, NextTypes, PTL DEF Spec

------------------------------------------------------------------------------
(* No use after free on the transmit queue *)

HeldOnce(q) == EachOnce(q.avail) /\ EachOnce(q.used) /\ BufsOf(q.avail) \intersect BufsOf(q.used) = {}

LEMMA TailOnce ==
  ASSUME NEW s \in Seq(Element), s # << >>, EachOnce(s)
  PROVE  /\ EachOnce(Tail(s))
         /\ Head(s).buf \in BufsOf(s)
         /\ BufsOf(Tail(s)) \subseteq BufsOf(s) \ {Head(s).buf}
<1>1. Len(s) \in Nat \ {0} /\ DOMAIN s = 1 .. Len(s) /\ Head(s) = s[1]
  OBVIOUS
<1>2. DOMAIN Tail(s) = 1 .. Len(s) - 1
  OBVIOUS
<1>3. ASSUME NEW i \in DOMAIN Tail(s) PROVE i + 1 \in DOMAIN s /\ Tail(s)[i] = s[i + 1]
  BY <1>1, <1>2
<1>4. ASSUME NEW i \in DOMAIN Tail(s), NEW j \in DOMAIN Tail(s), i # j
      PROVE  Tail(s)[i].buf # Tail(s)[j].buf
  <2>1. i \in Nat /\ j \in Nat /\ i + 1 # j + 1
    BY <1>2, <1>4, <1>1
  <2> QED BY <1>3, <2>1, Zenon DEF EachOnce
<1>5. ASSUME NEW i \in DOMAIN Tail(s)
      PROVE  Tail(s)[i].buf \in BufsOf(s) /\ Tail(s)[i].buf # Head(s).buf
  <2>1. 1 \in DOMAIN s /\ i + 1 # 1
    BY <1>1, <1>2
  <2>2. i + 1 \in DOMAIN s /\ Tail(s)[i] = s[i + 1]
    BY <1>3
  <2>3. s[i + 1].buf # s[1].buf
    BY <2>1, <2>2, Zenon DEF EachOnce
  <2> QED BY <1>1, <2>2, <2>3, Zenon DEF BufsOf
<1>6. Head(s).buf \in BufsOf(s)
  BY <1>1 DEF BufsOf
<1> QED BY <1>4, <1>5, <1>6, Zenon DEF EachOnce, BufsOf

LEMMA AppendOnce ==
  ASSUME NEW s \in Seq(Element), EachOnce(s), NEW e \in Element, e.buf \notin BufsOf(s)
  PROVE  EachOnce(Append(s, e)) /\ BufsOf(Append(s, e)) \subseteq BufsOf(s) \union {e.buf}
<1> DEFINE t == Append(s, e)
<1>1. Len(s) \in Nat /\ DOMAIN s = 1 .. Len(s) /\ DOMAIN t = 1 .. Len(s) + 1
  OBVIOUS
<1>2. t[Len(s) + 1] = e /\ \A i \in DOMAIN s : t[i] = s[i]
  BY <1>1
<1>3. \A i \in DOMAIN t : i \in DOMAIN s \/ i = Len(s) + 1
  BY <1>1
<1>4. \A i \in DOMAIN s : s[i].buf # e.buf
  BY DEF BufsOf
<1> HIDE DEF t
<1>5. EachOnce(t)
  BY <1>2, <1>3, <1>4, Zenon DEF EachOnce
<1>6. BufsOf(t) \subseteq BufsOf(s) \union {e.buf}
  BY <1>2, <1>3, Zenon DEF BufsOf
<1> QED BY <1>5, <1>6 DEF t

\* Adding a buffer that is not there, moving one from avail to used, and taking one.
LEMMA AddHeld ==
  ASSUME NEW q \in Queue, NEW e \in Element, HeldOnce(q), e.buf \notin Held(q)
  PROVE  HeldOnce(QueueAdd(q, e)) /\ Held(QueueAdd(q, e)) \subseteq Held(q) \union {e.buf}
<1>1. QueueAdd(q, e).avail = Append(q.avail, e) /\ QueueAdd(q, e).used = q.used
  BY DEF QueueAdd, QueueOf
<1>2. q.avail \in Seq(Element)
  BY DEF Queue
<1>3. EachOnce(Append(q.avail, e)) /\ BufsOf(Append(q.avail, e)) \subseteq BufsOf(q.avail) \union {e.buf}
  BY <1>2, AppendOnce DEF HeldOnce, Held
<1> QED BY <1>1, <1>3 DEF HeldOnce, Held

LEMMA PopPushHeld ==
  ASSUME NEW q \in Queue, HeldOnce(q), q.avail # << >>, NEW r \in PopPush(q)
  PROVE  HeldOnce(r) /\ Held(r) \subseteq Held(q)
<1> DEFINE e == Head(q.avail)
<1>1. q.avail \in Seq(Element) /\ q.used \in Seq(Element) /\ e \in Element
  BY DEF Queue
<1>2. PICK i : r = QueueOf(Tail(q.avail), Append(q.used, e), q.kick, i, q.added)
  BY DEF PopPush
<1>3. r.avail = Tail(q.avail) /\ r.used = Append(q.used, e)
  BY <1>2 DEF QueueOf
<1>4. /\ EachOnce(Tail(q.avail)) /\ e.buf \in BufsOf(q.avail)
      /\ BufsOf(Tail(q.avail)) \subseteq BufsOf(q.avail) \ {e.buf}
  BY <1>1, TailOnce DEF HeldOnce
<1>5. e.buf \notin BufsOf(q.used)
  BY <1>4 DEF HeldOnce
<1>6. EachOnce(Append(q.used, e)) /\ BufsOf(Append(q.used, e)) \subseteq BufsOf(q.used) \union {e.buf}
  BY <1>1, <1>5, AppendOnce DEF HeldOnce
<1> HIDE DEF e
<1> QED BY <1>3, <1>4, <1>6 DEF HeldOnce, Held

LEMMA GetBufHeld ==
  ASSUME NEW q \in Queue, HeldOnce(q), q.used # << >>
  PROVE  /\ HeldOnce(GetBuf(q)) /\ Head(q.used).buf \in Held(q)
         /\ Held(GetBuf(q)) \subseteq Held(q) \ {Head(q.used).buf}
<1>1. q.used \in Seq(Element)
  BY DEF Queue
<1>2. GetBuf(q).avail = q.avail /\ GetBuf(q).used = Tail(q.used)
  BY DEF GetBuf, QueueOf
<1>3. /\ EachOnce(Tail(q.used)) /\ Head(q.used).buf \in BufsOf(q.used)
      /\ BufsOf(Tail(q.used)) \subseteq BufsOf(q.used) \ {Head(q.used).buf}
  BY <1>1, TailOnce DEF HeldOnce
<1> QED BY <1>2, <1>3 DEF HeldOnce, Held

Owns(c) == pc[c] \in OwnPcs

LEMMA OwnPcsFacts ==
  OwnPcs = {"r_add", "r_kick", "r_trap", "r_wait", "r_copy", "r_short", "r_fix", "r_free",
            "w_load", "w_store", "w_len", "w_add"}
BY PcFacts DEF OwnPcs

\* A step after which nobody owns a buffer he did not own before.
LEMMA NoNewOwner ==
  ASSUME OneOwner, HeldOnce(tx)', Held(tx)' \subseteq heap',
         \A d \in Clients : Owns(d)' =>
            Owns(d) /\ loc'[d].buf = loc[d].buf /\ loc[d].buf \in heap' /\ loc[d].buf \notin Held(tx)'
  PROVE  OneOwner'
BY DEF OneOwner, HeldOnce, Owns

\* Steps that leave heap and the buffers on the queue alone.
LEMMA KeepsOwners ==
  ASSUME OneOwner, heap' = heap, tx'.avail = tx.avail, tx'.used = tx.used,
         \A d \in Clients : Owns(d)' => Owns(d) /\ loc'[d].buf = loc[d].buf
  PROVE  OneOwner'
<1>1. HeldOnce(tx)' /\ Held(tx)' = Held(tx)
  BY DEF OneOwner, HeldOnce, Held
<1>2. \A d \in Clients : Owns(d)' =>
        Owns(d) /\ loc'[d].buf = loc[d].buf /\ loc[d].buf \in heap' /\ loc[d].buf \notin Held(tx)'
  BY <1>1 DEF OneOwner, Owns
<1> QED BY <1>1, <1>2, NoNewOwner DEF OneOwner

\* A client that moves on keeps the buffer it had; one that returns owns none.
LEMMA MovesOn ==
  ASSUME TypeOK, OneOwner, NEW c \in Clients, NEW label, Goto(c, label),
         label \in OwnPcs => pc[c] \in OwnPcs /\ loc'[c].buf = loc[c].buf,
         \A d \in Clients \ {c} : loc'[d] = loc[d],
         heap' = heap, tx'.avail = tx.avail, tx'.used = tx.used
  PROVE  OneOwner'
<1>1. \A d \in Clients : Owns(d)' => Owns(d) /\ loc'[d].buf = loc[d].buf
  BY DEF TypeOK, CallTypeOK, Goto, Owns
<1> QED BY <1>1, KeepsOwners

LEMMA Returns ==
  ASSUME TypeOK, OneOwner, NEW c \in Clients, NEW call, NEW res, NEW msg, NEW n,
         Return(c, call, n, msg), heap' = heap, tx'.avail = tx.avail, tx'.used = tx.used
  PROVE  OneOwner'
<1>1. \A d \in Clients \ {c} : loc'[d] = loc[d]
  BY DEF TypeOK, CallTypeOK, Return
<1> QED BY <1>1, MovesOn, OwnPcsFacts DEF Return

\* kmalloc gives a buffer nobody owns.
LEMMA Allocates ==
  ASSUME TypeOK, OneOwner, NEW c \in Clients, NEW label, Goto(c, label),
         NEW b \in Bufs, b \notin heap, heap' = heap \union {b}, loc'[c].buf = b,
         \A d \in Clients \ {c} : loc'[d] = loc[d], tx' = tx
  PROVE  OneOwner'
<1>1. HeldOnce(tx)' /\ Held(tx)' = Held(tx) /\ Held(tx) \subseteq heap
  BY DEF OneOwner, HeldOnce, Held
<1>2. \A d \in Clients \ {c} : pc'[d] = pc[d]
  BY DEF TypeOK, CallTypeOK, Goto
<1>3. ASSUME NEW d \in Clients, pc'[d] \in OwnPcs
      PROVE  loc'[d].buf \in heap' /\ loc'[d].buf \notin Held(tx)' /\ (d # c => loc'[d].buf # b)
  BY <1>1, <1>2, <1>3 DEF OneOwner
<1>4. ASSUME NEW d1 \in Clients, NEW d2 \in Clients, d1 # d2, pc'[d1] \in OwnPcs, pc'[d2] \in OwnPcs
      PROVE  loc'[d1].buf # loc'[d2].buf
  <2>1. CASE d1 = c
    BY <1>3, <1>4, <2>1
  <2>2. CASE d2 = c
    BY <1>3, <1>4, <2>2
  <2>3. CASE d1 # c /\ d2 # c
    BY <1>2, <1>4, <2>3 DEF OneOwner
  <2> QED BY <2>1, <2>2, <2>3
<1> QED BY <1>1, <1>3, <1>4 DEF OneOwner, HeldOnce

LEMMA ReadOwnership ==
  ASSUME TypeOK, OneOwner, NEW c \in Clients, virtio_custdev_read(c) \/ ReadStep(c)
  PROVE  OneOwner'
<1> USE OwnPcsFacts DEF drvVars, heapVars, callVars, devVars
<1>f. ASSUME Fault PROVE OneOwner'
  BY <1>f, KeepsOwners DEF Fault, Owns
<1>1. CASE virtio_custdev_read(c)
  <2>1. CASE Return(c, "read", 0, NoMsg)
    BY <1>1, <2>1, Returns DEF virtio_custdev_read
  <2>2. CASE Goto(c, "r_alloc") /\ UNCHANGED <<loc, ret>>
    BY <1>1, <2>2, MovesOn DEF virtio_custdev_read
  <2> QED BY <1>1, <2>1, <2>2 DEF virtio_custdev_read
<1>2. CASE ReadAlloc(c)
  <2>1. CASE Return(c, "read", - ENOMEM, NoMsg)
             /\ UNCHANGED <<drvVars, heapVars, inbuf_cb, tx, rx, devVars, anomaly>>
    BY <2>1, Returns
  <2>2. ASSUME NEW b \in Bufs, Alloc(b, buf_lens[Dec(buffers)], NoMsg, 0),
               SetLocals(c, NoMsg, 0, b, 0), Goto(c, "r_add"), tx' = tx
        PROVE  OneOwner'
    <3>1. loc'[c].buf = b /\ \A d \in Clients \ {c} : loc'[d] = loc[d]
      BY <2>2 DEF SetLocals, LocalsOf, TypeOK, CallTypeOK
    <3> QED BY <2>2, <3>1, Allocates DEF Alloc
  <2> QED BY <1>f, <1>2, <2>1, <2>2 DEF ReadAlloc
<1>3. CASE ReadAdd(c)
  <2>1. CASE ~ Fault
    BY <1>3, <2>1, MovesOn DEF ReadAdd, At
  <2> QED BY <1>f, <2>1
<1>4. CASE ReadKick(c)
  BY <1>4, MovesOn DEF ReadKick, At
<1>5. CASE ReadResume(c)
  BY <1>5, MovesOn DEF ReadResume, At
<1>6. CASE ReadWait(c)
  BY <1>6, MovesOn DEF ReadWait, At
<1>7. CASE ReadCopy(c)
  <2>1. CASE ~ Fault
    <3>1. PICK msg, res : SetLocals(c, msg, res, loc[c].buf, 0)
      BY <1>7, <2>1, Zenon DEF ReadCopy
    <3>g. Goto(c, "r_short") \/ Goto(c, "r_free")
      BY <1>7, <2>1 DEF ReadCopy
    <3>2. loc'[c].buf = loc[c].buf /\ \A d \in Clients \ {c} : loc'[d] = loc[d]
      BY <3>1 DEF SetLocals, LocalsOf, TypeOK, CallTypeOK
    <3> QED BY <1>7, <2>1, <3>g, <3>2, MovesOn DEF ReadCopy, At
  <2> QED BY <1>f, <2>1
<1>9. CASE ReadShort(c)
  <2>1. CASE ~ Fault
    <3>1. PICK n, i : SetLocals(c, loc[c].msg, n, loc[c].buf, i)
      BY <1>9, <2>1, Zenon DEF ReadShort
    <3>2. loc'[c].buf = loc[c].buf /\ \A d \in Clients \ {c} : loc'[d] = loc[d]
      BY <3>1 DEF SetLocals, LocalsOf, TypeOK, CallTypeOK
    <3> QED BY <1>9, <2>1, <3>2, MovesOn DEF ReadShort, At
  <2> QED BY <1>f, <2>1
<1>10. CASE ReadFix(c)
  BY <1>10, MovesOn DEF ReadFix, At
<1>8. CASE ReadFree(c)
  <2>1. CASE ~ Fault
    <3>1. /\ pc[c] = "r_free" /\ heap' = heap \ {loc[c].buf} /\ tx' = tx
          /\ Return(c, "read", buf_lens[buffers], loc[c].msg)
      BY <1>8, <2>1 DEF ReadFree, At
    <3>2. \A d \in Clients \ {c} : pc'[d] = pc[d] /\ loc'[d] = loc[d]
      BY <3>1 DEF Return, Goto, TypeOK, CallTypeOK
    <3>3. pc'[c] = "idle"
      BY <3>1 DEF Return, Goto, TypeOK, CallTypeOK
    <3>4. HeldOnce(tx)' /\ Held(tx)' = Held(tx)
      BY <3>1 DEF OneOwner, HeldOnce, Held
    <3>5. Held(tx)' \subseteq heap'
      BY <3>1, <3>4 DEF OneOwner
    <3>6. ASSUME NEW d \in Clients, Owns(d)'
          PROVE  Owns(d) /\ loc'[d].buf = loc[d].buf /\ loc[d].buf \in heap' /\ loc[d].buf \notin Held(tx)'
      <4>1. d # c /\ pc[d] \in OwnPcs /\ loc'[d] = loc[d]
        BY <3>2, <3>3, <3>6 DEF Owns
      <4> QED BY <3>1, <3>4, <4>1 DEF OneOwner, Owns
    <3> QED BY <3>4, <3>5, <3>6, NoNewOwner
  <2> QED BY <1>f, <2>1
<1> QED BY <1>1, <1>2, <1>3, <1>4, <1>5, <1>6, <1>7, <1>8, <1>9, <1>10 DEF ReadStep

\* The queue after a kick holds what it held.
LEMMA KickHeld ==
  ASSUME NEW q, NEW c, NEW r
  PROVE  /\ r \in Notified(c, q) => r.avail = q.avail /\ r.used = q.used
         /\ q \in Queue /\ r \in Taken(q) => r.avail = q.avail /\ r.used = q.used
<1>1. ASSUME r \in Notified(c, q) PROVE r.avail = q.avail /\ r.used = q.used
  <2>1. PICK k : r = QueueOf(q.avail, q.used, k, q.irq, 0)
    BY <1>1, Zenon DEF Notified
  <2> QED BY <2>1 DEF QueueOf
<1>2. ASSUME q \in Queue, r \in Taken(q) PROVE r.avail = q.avail /\ r.used = q.used
  BY <1>2 DEF Taken, Queue
<1> QED BY <1>1, <1>2

LEMMA WriteOwnership ==
  ASSUME TypeOK, OneOwner, NEW c \in Clients, virtio_custdev_write(c) \/ WriteStep(c)
  PROVE  OneOwner'
<1> USE OwnPcsFacts DEF drvVars, heapVars, callVars, devVars
<1>f. ASSUME Fault PROVE OneOwner'
  BY <1>f, KeepsOwners DEF Fault, Owns
<1>1. CASE virtio_custdev_write(c)
  <2>1. CASE Return(c, "write", ENOSPC, NoMsg)
    BY <1>1, <2>1, Returns DEF virtio_custdev_write
  <2>2. ASSUME NEW m \in Msgs, NEW count \in Lens, SetLocals(c, m, count, NoBuf, 0), Goto(c, "w_alloc")
        PROVE  OneOwner'
    <3>1. \A d \in Clients \ {c} : loc'[d] = loc[d]
      BY <2>2 DEF SetLocals, TypeOK, CallTypeOK
    <3> QED BY <1>1, <2>2, <3>1, MovesOn DEF virtio_custdev_write
  <2> QED BY <1>1, <2>1, <2>2 DEF virtio_custdev_write
<1>2. CASE WriteAlloc(c)
  <2>1. CASE Return(c, "write", 1, NoMsg) /\ UNCHANGED heapVars
    BY <1>2, <2>1, Returns DEF WriteAlloc
  <2>2. ASSUME NEW b \in Bufs, NEW k, Alloc(b, loc[c].n, loc[c].msg, k),
               SetLocals(c, loc[c].msg, k, b, 0), Goto(c, "w_load")
        PROVE  OneOwner'
    <3>1. loc'[c].buf = b /\ \A d \in Clients \ {c} : loc'[d] = loc[d]
      BY <2>2 DEF SetLocals, LocalsOf, TypeOK, CallTypeOK
    <3> QED BY <1>2, <2>2, <3>1, Allocates DEF Alloc, WriteAlloc
  <2> QED BY <1>2, <2>1, <2>2 DEF WriteAlloc
<1>3. CASE WriteLoad(c)
  <2>1. loc'[c].buf = loc[c].buf /\ \A d \in Clients \ {c} : loc'[d] = loc[d]
    BY <1>3 DEF WriteLoad, SetLocals, LocalsOf, TypeOK, CallTypeOK
  <2> QED BY <1>3, <2>1, MovesOn DEF WriteLoad, At
<1>4. CASE WriteStore(c)
  BY <1>4, MovesOn DEF WriteStore, At
<1>5. CASE WriteLen(c)
  <2>1. CASE ~ Fault
    BY <1>5, <2>1, MovesOn DEF WriteLen, At
  <2> QED BY <1>f, <2>1
<1>6. CASE WriteAdd(c)
  <2> DEFINE e == [buf |-> loc[c].buf, len |-> loc[c].n]
  <2>0. pc[c] = "w_add" /\ Goto(c, "w_kick") /\ UNCHANGED <<loc, heap>>
    BY <1>6 DEF WriteAdd, At
  <2>1. CASE tx' = tx
    BY <2>0, <2>1, MovesOn
  <2>2. CASE tx' = QueueAdd(tx, e)
    <3>1. e \in Element /\ e.buf = loc[c].buf /\ tx \in Queue
      BY <2>0, LocalsFacts, PcFacts DEF Element, TypeOK, CallTypeOK
    <3>2. loc[c].buf \in heap /\ loc[c].buf \notin Held(tx) /\ HeldOnce(tx) /\ Held(tx) \subseteq heap
      BY <2>0 DEF OneOwner, HeldOnce
    <3>3. HeldOnce(tx)' /\ Held(tx)' \subseteq Held(tx) \union {loc[c].buf}
      <4> HIDE DEF e
      <4>1. HeldOnce(QueueAdd(tx, e)) /\ Held(QueueAdd(tx, e)) \subseteq Held(tx) \union {e.buf}
        BY <3>1, <3>2, AddHeld
      <4> QED BY <2>2, <3>1, <4>1 DEF HeldOnce, Held
    <3>4. Held(tx)' \subseteq heap'
      BY <2>0, <3>2, <3>3
    <3>5. ASSUME NEW d \in Clients, Owns(d)'
          PROVE  Owns(d) /\ loc'[d].buf = loc[d].buf /\ loc[d].buf \in heap' /\ loc[d].buf \notin Held(tx)'
      <4>1. d # c /\ pc[d] \in OwnPcs
        BY <2>0, <3>5 DEF Owns, Goto, TypeOK, CallTypeOK
      <4>2. loc[d].buf # loc[c].buf /\ loc[d].buf \in heap /\ loc[d].buf \notin Held(tx)
        BY <2>0, <4>1 DEF OneOwner
      <4> QED BY <2>0, <3>3, <4>1, <4>2 DEF Owns
    <3> QED BY <3>3, <3>4, <3>5, NoNewOwner
  <2> QED BY <1>6, <2>1, <2>2 DEF WriteAdd
<1>7. CASE WriteKick(c)
  <2>1. tx'.avail = tx.avail /\ tx'.used = tx.used
    BY <1>7, KickHeld DEF WriteKick
  <2>2. CASE Return(c, "write", loc[c].n, loc[c].msg)
    BY <1>7, <2>1, <2>2, Returns DEF WriteKick
  <2>3. CASE Goto(c, "w_trap") /\ UNCHANGED <<loc, ret>>
    BY <1>7, <2>1, <2>3, MovesOn DEF WriteKick
  <2> QED BY <1>7, <2>2, <2>3 DEF WriteKick
<1>8. CASE WriteResume(c)
  BY <1>8, Returns DEF WriteResume
<1> QED BY <1>1, <1>2, <1>3, <1>4, <1>5, <1>6, <1>7, <1>8 DEF WriteStep

\* Callbacks and handlers: outbuf_cb frees the buffer it takes off the queue, and the
\* device moves buffers within it.
LEMMA OtherOwnership ==
  ASSUME TypeOK, OneOwner,
         \/ Interrupt \/ Handler \/ NotSynced \/ virtio_custdev_device_unrealize
         \/ VmStop \/ VmResume \/ Race \/ UNCHANGED vars
  PROVE  OneOwner'
<1> USE DEF drvVars, heapVars, callVars, devVars
<1>q. tx \in Queue /\ HeldOnce(tx) /\ Held(tx) \subseteq heap
  BY DEF TypeOK, OneOwner, HeldOnce
<1>k. ASSUME UNCHANGED <<pc, loc, heap>>, tx'.avail = tx.avail, tx'.used = tx.used
      PROVE  OneOwner'
  BY <1>k, KeepsOwners DEF Owns
<1>1. CASE virtio_custdev_outbuf_cb
  <2> DEFINE b == Head(tx.used).buf
  <2>1. tx.used # << >> /\ tx' = GetBuf(tx) /\ heap' = heap \ {b} /\ UNCHANGED <<pc, loc>>
    BY <1>1 DEF virtio_custdev_outbuf_cb
  <2>2. HeldOnce(tx)' /\ b \in Held(tx) /\ Held(tx)' \subseteq Held(tx) \ {b}
    <3>1. HeldOnce(GetBuf(tx)) /\ b \in Held(tx) /\ Held(GetBuf(tx)) \subseteq Held(tx) \ {b}
      BY <1>q, <2>1, GetBufHeld
    <3> QED BY <2>1, <3>1 DEF HeldOnce, Held
  <2> HIDE DEF b
  <2>3. ASSUME NEW d \in Clients, Owns(d)'
        PROVE  Owns(d) /\ loc'[d].buf = loc[d].buf /\ loc[d].buf \in heap' /\ loc[d].buf \notin Held(tx)'
    BY <2>1, <2>2, <2>3 DEF OneOwner, Owns
  <2> QED BY <1>q, <2>1, <2>2, <2>3, NoNewOwner
<1>2. CASE virtio_custdev_handle_outbuf
  <2>1. PICK q \in Taken(tx) :
          Dies("nullpop") \/ Dies("oob") \/ (/\ ~ PopsNull(q) /\ tx' \in PopPush(q)
                                              /\ UNCHANGED <<heapVars, callVars>>)
    BY <1>2 DEF virtio_custdev_handle_outbuf
  <2>2. CASE Dies("nullpop") \/ Dies("oob")
    BY <1>k, <2>2 DEF Dies
  <2>3. CASE ~ PopsNull(q) /\ tx' \in PopPush(q) /\ UNCHANGED <<heapVars, callVars>>
    <3>1. q \in Queue /\ q.avail = tx.avail /\ q.used = tx.used
      BY <1>q, QueueTypes, KickHeld
    <3>2. q.avail # << >> /\ HeldOnce(q) /\ Held(q) = Held(tx)
      BY <1>q, <2>3, <3>1 DEF PopsNull, HeldOnce, Held
    <3>3. HeldOnce(tx') /\ Held(tx') \subseteq Held(q)
      BY <2>3, <3>1, <3>2, PopPushHeld
    <3>4. HeldOnce(tx)' /\ Held(tx)' \subseteq Held(tx)
      BY <3>2, <3>3 DEF HeldOnce, Held
    <3>5. \A d \in Clients : Owns(d)' =>
            Owns(d) /\ loc'[d].buf = loc[d].buf /\ loc[d].buf \in heap' /\ loc[d].buf \notin Held(tx)'
      BY <2>3, <3>4 DEF OneOwner, Owns
    <3> QED BY <1>q, <2>3, <3>4, <3>5, NoNewOwner
  <2> QED BY <2>1, <2>2, <2>3
<1>3. CASE virtio_custdev_inbuf_cb \/ InbufComplete
  BY <1>3, <1>k DEF virtio_custdev_inbuf_cb, InbufComplete
<1>4. CASE virtio_custdev_handle_inbuf
  BY <1>4, <1>k DEF virtio_custdev_handle_inbuf, Dies
<1>5. CASE NotSynced
  <2>1. tx'.avail = tx.avail /\ tx'.used = tx.used
    BY <1>q, <1>5, KickHeld DEF NotSynced
  <2> QED BY <1>5, <1>k, <2>1 DEF NotSynced
<1>6. CASE virtio_custdev_device_unrealize
  <2>1. tx'.avail = tx.avail /\ tx'.used = tx.used
    BY <1>q, <1>6 DEF virtio_custdev_device_unrealize, Queue
  <2> QED BY <1>6, <1>k, <2>1 DEF virtio_custdev_device_unrealize
<1>7. CASE VmStop \/ VmResume \/ Race \/ UNCHANGED vars
  BY <1>7, <1>k DEF VmStop, VmResume, Race, vars
<1> QED BY <1>1, <1>2, <1>3, <1>4, <1>5, <1>6, <1>7 DEF Interrupt, Handler

LEMMA InitOwnership == Init => OneOwner
<1> SUFFICES ASSUME Init PROVE OneOwner
  OBVIOUS
<1>1. tx.avail = << >> /\ tx.used = << >> /\ heap = {}
  BY DEF Init, EmptyQueue, QueueOf
<1>2. BufsOf(tx.avail) = {} /\ BufsOf(tx.used) = {} /\ EachOnce(tx.avail) /\ EachOnce(tx.used)
  BY <1>1 DEF BufsOf, EachOnce
<1>3. \A c \in Clients : pc[c] \notin OwnPcs
  BY OwnPcsFacts DEF Init
<1> QED BY <1>1, <1>2, <1>3 DEF OneOwner, Held

LEMMA OwnersHold == Spec => []OneOwner
<1>1. TypeOK /\ OneOwner /\ [Next]_vars => OneOwner'
  BY ReadOwnership, WriteOwnership, OtherOwnership DEF Next
<1> QED BY <1>1, InitOwnership, TypeCorrect, PTL DEF Spec

\* Every kernel buffer on or headed for the transmit queue has one owner, however many
\* clients write and read at once, whichever kicks and interrupts are merged and whatever
\* becomes of the unlocked count, until two calls on the queue itself overlap.
THEOREM OwnershipHolds == Spec => []TxOwnership
<1>1. OneOwner => TxOwnership
  BY DEF TxOwnership
<1> QED BY <1>1, OwnersHold, PTL

------------------------------------------------------------------------------
(* The messages the device stores *)

StoredInv == rcv_count <= BUFFERS /\ StoredBelowCount

LEMMA StoredStep == ASSUME TypeOK, StoredInv, [Next]_vars PROVE StoredInv'
<1> USE DEF drvVars, heapVars, callVars, devVars
<1>0. /\ rcv_bufs \in [0 .. BUFFERS - 1 -> Payload \union {Freed}]
      /\ rcv_count \in 0 .. UMAX /\ BUFFERS \in Nat /\ UMAX \in Nat /\ UMAX > BUFFERS
      /\ tx \in Queue
  BY SizeAssumption DEF TypeOK, DevTypeOK
<1>1. \A p \in Payload : p # Freed
  <2>1. \A p \in Payload : p.n \in Nat
    BY CountsFacts DEF Payload
  <2> QED BY <2>1 DEF Freed
<1>k. ASSUME UNCHANGED <<rcv_bufs, rcv_count>>, dev' = "gone" <=> dev = "gone" PROVE StoredInv'
  BY <1>k DEF StoredInv, StoredBelowCount
<1>d. ASSUME NEW how \in {"nullpop", "oob"}, Dies(how), dev = "up" PROVE StoredInv'
  BY <1>d, <1>k DEF Dies
<1>2. CASE virtio_custdev_handle_outbuf
  <2>1. PICK q \in Taken(tx) :
          \/ Dies("nullpop") \/ Dies("oob")
          \/ /\ ~ PopsNull(q) /\ rcv_count \in DOMAIN rcv_bufs
             /\ rcv_bufs' = [rcv_bufs EXCEPT ![rcv_count] = Fetch(Head(q.avail))]
             /\ rcv_count' = Inc(rcv_count) /\ UNCHANGED dev
    BY <1>2 DEF virtio_custdev_handle_outbuf
  <2>2. dev = "up"
    BY <1>2 DEF virtio_custdev_handle_outbuf
  <2>3. CASE ~ (Dies("nullpop") \/ Dies("oob"))
    <3>1. q \in Queue /\ q.avail # << >>
      BY <1>0, <2>1, <2>3, QueueTypes DEF PopsNull
    <3>2. Head(q.avail) \in Element
      BY <3>1, QueueTypes
    <3>3. Fetch(Head(q.avail)) # Freed
      BY <3>2, CountsFacts DEF Fetch, Freed, Element
    <3>4. rcv_count \in 0 .. BUFFERS - 1 /\ rcv_count' = rcv_count + 1
      BY <1>0, <2>1, <2>3 DEF Inc
    <3> HIDE DEF Fetch
    <3> QED BY <1>0, <2>1, <2>2, <2>3, <3>3, <3>4 DEF StoredInv, StoredBelowCount
  <2> QED BY <1>d, <2>1, <2>2, <2>3
<1>3. CASE virtio_custdev_handle_inbuf
  <2>1. \/ Dies("nullpop") \/ Dies("oob")
        \/ /\ Dec(rcv_count) \in DOMAIN rcv_bufs
           /\ rcv_bufs' = [rcv_bufs EXCEPT ![Dec(rcv_count)] = Freed]
           /\ rcv_count' = Dec(rcv_count) /\ UNCHANGED dev
    BY <1>3 DEF virtio_custdev_handle_inbuf
  <2>2. dev = "up"
    BY <1>3 DEF virtio_custdev_handle_inbuf
  <2>3. CASE ~ (Dies("nullpop") \/ Dies("oob"))
    <3>1. rcv_count \in 1 .. BUFFERS /\ Dec(rcv_count) = rcv_count - 1
      BY <1>0, <2>1, <2>3 DEF Dec, StoredInv
    <3> HIDE DEF Freed
    <3> QED BY <1>0, <2>1, <2>2, <2>3, <3>1 DEF StoredInv, StoredBelowCount
  <2> QED BY <1>d, <2>1, <2>2, <2>3
<1>4. CASE virtio_custdev_device_unrealize
  BY <1>0, <1>4 DEF virtio_custdev_device_unrealize, StoredInv, StoredBelowCount
<1>5. CASE VmStop \/ VmResume \/ NotSynced \/ Race \/ UNCHANGED vars
  BY <1>k, <1>5 DEF VmStop, VmResume, NotSynced, Race, vars
<1>6. CASE Interrupt
  BY <1>k, <1>6 DEF Interrupt, virtio_custdev_outbuf_cb, virtio_custdev_inbuf_cb, InbufComplete
<1>7. ASSUME NEW c \in Clients, virtio_custdev_read(c) \/ ReadStep(c) PROVE StoredInv'
  BY <1>k, <1>7 DEF virtio_custdev_read, ReadStep, ReadAlloc, ReadAdd, ReadKick, ReadResume, ReadWait,
     ReadCopy, ReadShort, ReadFix, ReadFree, Fault
<1>8. ASSUME NEW c \in Clients, virtio_custdev_write(c) \/ WriteStep(c) PROVE StoredInv'
  BY <1>k, <1>8 DEF virtio_custdev_write, WriteStep, WriteAlloc, WriteLoad, WriteStore, WriteLen,
     WriteAdd, WriteKick, WriteResume, Fault
<1> QED BY <1>2, <1>3, <1>4, <1>5, <1>6, <1>7, <1>8 DEF Next, Handler

\* However many clients race, handle_inbuf and unrealize free every stored copy once: the
\* copies are those below rcv_count.
THEOREM StoredCopiesFreedOnce == Spec => []StoredBelowCount
<1>1. Init => StoredInv
  BY SizeAssumption DEF Init, StoredInv, StoredBelowCount
<1>2. StoredInv => StoredBelowCount
  BY DEF StoredInv
<1> QED BY <1>1, <1>2, StoredStep, TypeCorrect, PTL DEF Spec

------------------------------------------------------------------------------
(* What a notification finds *)

AtLabel(label) == {c \in Clients : pc[c] = label}

\* How many times the handler of q will run for the notifications it has not yet handled.
Pending(q) == IF IoEventFd THEN IF q.kick = {} THEN 0 ELSE 1 ELSE Cardinality(q.kick)

\* q has a buffer for each client about to kick it and for each notification under way,
\* and none of them is empty.
Covered(q, kicking, trapped) ==
  /\ \A i \in DOMAIN q.avail : q.avail[i].len # 0
  /\ ~ IoEventFd => q.kick \subseteq trapped
  /\ IsFiniteSet(q.kick) /\ IsFiniteSet(kicking)
  /\ Cardinality(kicking) + Pending(q) <= Len(q.avail)

KicksCovered ==
  anomaly = {} =>
    /\ dev # "nullpop"
    /\ Covered(tx, AtLabel("w_kick"), AtLabel("w_trap"))
    /\ Covered(rx, AtLabel("r_kick"), AtLabel("r_trap"))

LEMMA PendingFacts ==
  ASSUME NEW q \in Queue, IsFiniteSet(q.kick)
  PROVE  /\ Pending(q) \in Nat
         /\ q.kick # {} => Pending(q) >= 1
<1>1. Cardinality(q.kick) \in Nat /\ (q.kick # {} => Cardinality(q.kick) # 0)
  BY FS_CardinalityType, FS_EmptySet
<1> QED BY <1>1 DEF Pending

\* A buffer is added by a client that then kicks.
LEMMA AddCovered ==
  ASSUME NEW q \in Queue, NEW K, NEW T, Covered(q, K, T), NEW c, c \notin K, NEW e \in Element,
         e.len # 0
  PROVE  Covered(QueueAdd(q, e), K \union {c}, T)
<1>1. q.avail \in Seq(Element) /\ Len(q.avail) \in Nat
  BY DEF Queue
<1>2. /\ QueueAdd(q, e).avail = Append(q.avail, e) /\ QueueAdd(q, e).kick = q.kick
  BY DEF QueueAdd, QueueOf
<1>3. \A i \in DOMAIN Append(q.avail, e) : Append(q.avail, e)[i].len # 0
  BY <1>1 DEF Covered
<1>4. IsFiniteSet(K \union {c}) /\ Cardinality(K \union {c}) = Cardinality(K) + 1
  BY FS_AddElement DEF Covered
<1>5. Pending(QueueAdd(q, e)) = Pending(q)
  BY <1>2 DEF Pending
<1>6. Cardinality(K) \in Nat /\ Pending(q) \in Nat
  BY PendingFacts, FS_CardinalityType DEF Covered
<1>7. Len(Append(q.avail, e)) = Len(q.avail) + 1
  BY <1>1
<1>8. Cardinality(K) + Pending(q) <= Len(q.avail)
  BY DEF Covered
<1>9. Cardinality(K \union {c}) + Pending(QueueAdd(q, e)) <= Len(QueueAdd(q, e).avail)
  <2>1. \A i, j, k \in Nat : i + j <= k => (i + 1) + j <= k + 1
    OBVIOUS
  <2> QED BY <1>1, <1>2, <1>4, <1>5, <1>6, <1>7, <1>8, <2>1, Zenon
<1> QED BY <1>2, <1>3, <1>4, <1>9 DEF Covered

\* The kick turns its claim into a notification, or merges with one, or is suppressed.
LEMMA KickCovered ==
  ASSUME NEW q \in Queue, NEW K, NEW T, Covered(q, K, T), NEW c \in K, c \notin T,
         NEW U, IF IoEventFd THEN TRUE ELSE U = T \union {c}, NEW r \in Notified(c, q)
  PROVE  Covered(r, K \ {c}, U)
<1>1. PICK k \in {q.kick, q.kick \union {c}} : r = QueueOf(q.avail, q.used, k, q.irq, 0)
  BY Zenon DEF Notified
<1>2. r.avail = q.avail /\ r.kick = k
  BY <1>1 DEF QueueOf
<1>3. IsFiniteSet(K \ {c}) /\ Cardinality(K \ {c}) = Cardinality(K) - 1
  BY FS_RemoveElement DEF Covered
<1>4. Cardinality(K) \in Nat /\ Pending(q) \in Nat /\ Len(q.avail) \in Nat
  BY PendingFacts, FS_CardinalityType DEF Covered, Queue
<1>5. /\ IsFiniteSet(q.kick \union {c})
      /\ Cardinality(q.kick \union {c}) \in {Cardinality(q.kick), Cardinality(q.kick) + 1}
  BY FS_AddElement DEF Covered
<1>6. IsFiniteSet(k) /\ Pending(r) \in {Pending(q), Pending(q) + 1}
  <2>1. CASE IoEventFd
    <3>1. IsFiniteSet(k)
      BY <1>5 DEF Covered
    <3>2. CASE k = q.kick
      BY <1>2, <2>1, <3>1, <3>2 DEF Pending
    <3>3. CASE k = q.kick \union {c}
      <4>1. k # {}
        BY <3>3
      <4>2. Pending(r) = 1 /\ Pending(q) \in {0, 1}
        BY <1>2, <2>1, <4>1 DEF Pending
      <4> QED BY <3>1, <4>2
    <3> QED BY <3>2, <3>3
  <2>2. CASE ~ IoEventFd
    BY <1>2, <1>5, <2>2 DEF Pending, Covered
  <2> QED BY <2>1, <2>2
<1>7. Cardinality(K) + Pending(q) <= Len(q.avail)
  BY DEF Covered
<1>8. Cardinality(K \ {c}) + Pending(r) <= Len(q.avail)
  <2>1. \A i, j, l \in Nat : i + j <= l => (i - 1) + j <= l /\ (i - 1) + (j + 1) <= l
    OBVIOUS
  <2> QED BY <1>3, <1>4, <1>6, <1>7, <2>1, Zenon
<1>9. ~ IoEventFd => r.kick \subseteq U
  BY <1>2 DEF Covered
<1>10. \A i \in DOMAIN r.avail : r.avail[i].len # 0
  BY <1>2 DEF Covered
<1> QED BY <1>2, <1>3, <1>6, <1>8, <1>9, <1>10 DEF Covered

\* A handler that takes a notification finds a buffer, which is not empty.
LEMMA TakenCovered ==
  ASSUME NEW q \in Queue, NEW K, NEW T, Covered(q, K, T), q.kick # {}, NEW p \in Taken(q)
  PROVE  /\ Covered(p, K, T) /\ ~ PopsNull(p)
         /\ \A r \in PopPush(p) : Covered(r, K, T)
<1>1. p \in Queue /\ p.avail = q.avail /\ p.used = q.used
  BY QueueTypes, KickHeld
<1>2. /\ p.kick \subseteq q.kick /\ IsFiniteSet(p.kick)
      /\ Pending(p) = Pending(q) - 1
  <2>1. CASE IoEventFd
    <3>1. p.kick = {}
      BY <2>1 DEF Taken, Queue
    <3> QED BY <2>1, <3>1, FS_EmptySet DEF Pending
  <2>2. CASE ~ IoEventFd
    <3>1. PICK c \in q.kick : p = [q EXCEPT !.kick = @ \ {c}]
      BY <2>2 DEF Taken
    <3>2. p.kick = q.kick \ {c}
      BY <3>1 DEF Queue
    <3>3. IsFiniteSet(q.kick)
      BY DEF Covered
    <3> QED BY <2>2, <3>2, <3>3, FS_RemoveElement DEF Pending
  <2> QED BY <2>1, <2>2
<1>3. /\ Cardinality(K) \in Nat /\ Pending(q) \in Nat /\ Pending(q) >= 1
      /\ Len(q.avail) \in Nat /\ q.avail \in Seq(Element)
      /\ Cardinality(K) + Pending(q) <= Len(q.avail)
  BY PendingFacts, FS_CardinalityType DEF Covered, Queue
<1>4. Len(q.avail) >= 1 /\ Cardinality(K) + Pending(p) <= Len(q.avail) - 1
  <2>1. \A i, j, l \in Nat : i + j <= l /\ j >= 1 => l >= 1 /\ i + (j - 1) <= l - 1
    OBVIOUS
  <2> QED BY <1>2, <1>3, <2>1, Zenon
<1>5. q.avail # << >> /\ Head(q.avail) = q.avail[1] /\ 1 \in DOMAIN q.avail
  BY <1>3, <1>4
<1>6. ~ PopsNull(p)
  BY <1>1, <1>5 DEF PopsNull, Covered
<1>7. Covered(p, K, T)
  <2>1. Pending(p) \in Nat
    BY <1>1, <1>2, PendingFacts
  <2>2. Cardinality(K) + Pending(p) <= Len(q.avail)
    <3>1. \A i, j, l \in Nat : i + j <= l - 1 => i + j <= l
      OBVIOUS
    <3> QED BY <1>3, <1>4, <2>1, <3>1, Zenon
  <2> QED BY <1>1, <1>2, <2>2 DEF Covered
<1>8. ASSUME NEW r \in PopPush(p) PROVE Covered(r, K, T)
  <2>1. PICK i : r = QueueOf(Tail(p.avail), Append(p.used, Head(p.avail)), p.kick, i, p.added)
    BY DEF PopPush
  <2>2. r.avail = Tail(q.avail) /\ r.kick = p.kick
    BY <1>1, <2>1 DEF QueueOf
  <2>3. Len(Tail(q.avail)) = Len(q.avail) - 1
    BY <1>3, <1>5
  <2>4. \A j \in DOMAIN Tail(q.avail) : Tail(q.avail)[j].len # 0
    BY <1>3, <1>5 DEF Covered
  <2>5. Pending(r) = Pending(p)
    BY <2>2 DEF Pending
  <2>6. /\ IsFiniteSet(K) /\ (~ IoEventFd => r.kick \subseteq T)
    BY <1>2, <2>2 DEF Covered
  <2>7. Cardinality(K) + Pending(r) <= Len(r.avail)
    BY <1>4, <2>2, <2>3, <2>5, Zenon
  <2> QED BY <1>2, <2>2, <2>4, <2>6, <2>7 DEF Covered
<1> QED BY <1>6, <1>7, <1>8

\* Steps that do not concern q.
LEMMA SameCovered ==
  ASSUME NEW q, NEW r, NEW K, NEW T, NEW U, Covered(q, K, T), r.avail = q.avail,
         r.kick = q.kick \/ r.kick = {}, IF IoEventFd THEN TRUE ELSE T \intersect q.kick \subseteq U
  PROVE  Covered(r, K, U)
<1>1. IsFiniteSet(r.kick) /\ IsFiniteSet(q.kick)
  BY FS_EmptySet DEF Covered
<1>2. r.kick = q.kick => Pending(r) = Pending(q)
  BY DEF Pending
<1>3. r.kick = {} => Pending(r) = 0
  BY FS_EmptySet DEF Pending
<1>4. Cardinality(q.kick) \in Nat /\ Pending(q) \in Nat /\ Cardinality(K) \in Nat
  BY <1>1, FS_CardinalityType DEF Pending, Covered
<1>5. Cardinality(K) + Pending(r) <= Len(q.avail)
  BY <1>2, <1>3, <1>4 DEF Covered
<1> QED BY <1>1, <1>5 DEF Covered

\* How a step of client c changes who is where.
LEMMA MovesLabels ==
  ASSUME TypeOK, NEW c \in Clients, NEW label, Goto(c, label)
  PROVE  /\ \A k : k # label => AtLabel(k)' = AtLabel(k) \ {c}
         /\ AtLabel(label)' = AtLabel(label) \union {c}
         /\ \A k : pc[c] # k => c \notin AtLabel(k)
<1>1. pc' = [pc EXCEPT ![c] = label] /\ pc \in [Clients -> Pcs]
  BY DEF Goto, TypeOK, CallTypeOK, Pcs
<1>2. pc'[c] = label /\ \A d \in Clients \ {c} : pc'[d] = pc[d]
  BY <1>1
<1> QED BY <1>2 DEF AtLabel

\* A client's step between other places than the two at which it concerns a queue.
LEMMA PassesBy ==
  ASSUME TypeOK, NEW c \in Clients, NEW label, Goto(c, label), NEW k, NEW t,
         pc[c] # k, label # k, NEW q, NEW r, r.avail = q.avail, r.kick = q.kick,
         pc[c] = t => c \notin q.kick, Covered(q, AtLabel(k), AtLabel(t))
  PROVE  Covered(r, AtLabel(k)', AtLabel(t)')
<1>1. AtLabel(k)' = AtLabel(k)
  BY MovesLabels
<1>2. AtLabel(t) \intersect q.kick \subseteq AtLabel(t)'
  BY MovesLabels
<1>3. Covered(r, AtLabel(k), AtLabel(t)')
  BY <1>2, SameCovered
<1> QED BY <1>1, <1>3

LEMMA ClientPasses ==
  ASSUME TypeOK, KicksCovered, NEW c \in Clients, NEW label, Goto(c, label),
         pc[c] \notin {"w_kick", "r_kick"}, label \notin {"w_kick", "r_kick"},
         pc[c] = "w_trap" => c \notin tx.kick, pc[c] = "r_trap" => c \notin rx.kick,
         UNCHANGED <<tx, rx, dev, anomaly>>
  PROVE  KicksCovered'
<1> SUFFICES ASSUME anomaly = {} PROVE KicksCovered'
  BY DEF KicksCovered
<1>1. /\ Covered(tx, AtLabel("w_kick"), AtLabel("w_trap"))
      /\ Covered(rx, AtLabel("r_kick"), AtLabel("r_trap"))
  BY DEF KicksCovered
<1>2. Covered(tx', AtLabel("w_kick")', AtLabel("w_trap")')
  BY <1>1, PassesBy
<1>3. Covered(rx', AtLabel("r_kick")', AtLabel("r_trap")')
  BY <1>1, PassesBy
<1> QED BY <1>2, <1>3, Zenon DEF KicksCovered, Covered, AtLabel, Pending

LEMMA ReadCovered ==
  ASSUME TypeOK, KicksCovered, NEW c \in Clients, virtio_custdev_read(c) \/ ReadStep(c)
  PROVE  KicksCovered'
<1> USE DEF drvVars, heapVars, callVars, devVars
<1>f. ASSUME Fault PROVE KicksCovered'
  BY <1>f DEF Fault, KicksCovered, Covered, AtLabel, Pending
<1>r. \A call, n, msg : Return(c, call, n, msg) => Goto(c, "idle")
  BY DEF Return
<1>1. CASE virtio_custdev_read(c) \/ ReadAlloc(c) \/ ReadWait(c) \/ ReadCopy(c) \/ ReadShort(c)
          \/ ReadFix(c) \/ ReadFree(c)
  <2>1. CASE ~ Fault
    <3>1. PICK label \in {"idle", "r_alloc", "r_add", "r_copy", "r_short", "r_fix", "r_free"} : Goto(c, label)
      BY <1>1, <1>r, <2>1 DEF virtio_custdev_read, ReadAlloc, ReadWait, ReadCopy, ReadShort, ReadFix, ReadFree
    <3>2. /\ pc[c] \in {"idle", "r_alloc", "r_wait", "r_copy", "r_short", "r_fix", "r_free"}
          /\ UNCHANGED <<tx, rx, dev, anomaly>>
      BY <1>1, <2>1 DEF virtio_custdev_read, ReadAlloc, ReadWait, ReadCopy, ReadShort, ReadFix, ReadFree, At
    <3> QED BY <3>1, <3>2, ClientPasses
  <2> QED BY <1>f, <2>1
<1>2. CASE ReadResume(c)
  BY <1>2, ClientPasses DEF ReadResume, At
<1> SUFFICES ASSUME ReadAdd(c) \/ ReadKick(c), ~ Fault, anomaly' = {} PROVE KicksCovered'
  BY <1>f, <1>1, <1>2 DEF ReadStep, KicksCovered
<1>3. anomaly = {} /\ dev' = dev /\ tx' = tx
  BY DEF ReadAdd, ReadKick
<1>4. /\ Covered(tx, AtLabel("w_kick"), AtLabel("w_trap"))
      /\ Covered(rx, AtLabel("r_kick"), AtLabel("r_trap"))
      /\ rx \in Queue /\ dev # "nullpop"
  BY <1>3 DEF KicksCovered, TypeOK
<1>5. pc[c] \in {"r_add", "r_kick"} /\ \E label \in {"r_kick", "r_trap", "r_wait"} : Goto(c, label)
  BY DEF ReadAdd, ReadKick, At
<1>6. Covered(tx', AtLabel("w_kick")', AtLabel("w_trap")')
  BY <1>3, <1>4, <1>5, PassesBy
<1>7. Covered(rx', AtLabel("r_kick")', AtLabel("r_trap")')
  <2>1. CASE ReadAdd(c)
    <3> DEFINE e == [buf |-> loc[c].buf, len |-> buf_lens[Dec(buffers)]]
    <3>1. pc[c] = "r_add" /\ Goto(c, "r_kick") /\ Dec(buffers) \in Cells
      BY <2>1 DEF ReadAdd, At
    <3>2. rx' = QueueAdd(rx, e) /\ e.len # 0
      BY <2>1 DEF ReadAdd
    <3>3. e \in Element
      BY <3>1, PcFacts, SizeAssumption DEF Element, TypeOK, CallTypeOK, DrvTypeOK, Cells, Slots
    <3>a. /\ AtLabel("r_kick")' = AtLabel("r_kick") \union {c} /\ c \notin AtLabel("r_kick")
          /\ AtLabel("r_trap")' = AtLabel("r_trap") \ {c} /\ c \notin AtLabel("r_trap")
      BY <3>1, MovesLabels
    <3>4. /\ AtLabel("r_kick")' = AtLabel("r_kick") \union {c} /\ c \notin AtLabel("r_kick")
          /\ AtLabel("r_trap")' = AtLabel("r_trap")
      BY <3>a
    <3> HIDE DEF e
    <3>5. Covered(QueueAdd(rx, e), AtLabel("r_kick") \union {c}, AtLabel("r_trap"))
      BY <1>4, <3>2, <3>3, <3>4, AddCovered
    <3> QED BY <3>2, <3>4, <3>5
  <2>2. CASE ReadKick(c)
    <3>1. /\ pc[c] = "r_kick" /\ rx' \in Notified(c, rx)
          /\ Goto(c, IF IoEventFd THEN "r_wait" ELSE "r_trap")
      BY <2>2 DEF ReadKick, At
    <3>2. /\ AtLabel("r_kick")' = AtLabel("r_kick") \ {c} /\ c \in AtLabel("r_kick")
          /\ c \notin AtLabel("r_trap")
      BY <3>1, MovesLabels DEF AtLabel
    <3>3. IF IoEventFd THEN TRUE ELSE AtLabel("r_trap")' = AtLabel("r_trap") \union {c}
      BY <3>1, MovesLabels
    <3> QED BY <1>4, <3>1, <3>2, <3>3, KickCovered
  <2> QED BY <2>1, <2>2
<1> QED BY <1>3, <1>4, <1>6, <1>7, Zenon DEF KicksCovered, Covered, AtLabel, Pending

LEMMA WriteCovered ==
  ASSUME TypeOK, KicksCovered, NEW c \in Clients, virtio_custdev_write(c) \/ WriteStep(c)
  PROVE  KicksCovered'
<1> USE DEF drvVars, heapVars, callVars, devVars
<1>f. ASSUME Fault PROVE KicksCovered'
  BY <1>f DEF Fault, KicksCovered, Covered, AtLabel, Pending
<1>r. \A call, n, msg : Return(c, call, n, msg) => Goto(c, "idle")
  BY DEF Return
<1>1. CASE virtio_custdev_write(c) \/ WriteAlloc(c) \/ WriteLoad(c) \/ WriteStore(c) \/ WriteLen(c)
  <2>1. CASE ~ Fault
    <3>1. PICK label \in {"idle", "w_alloc", "w_load", "w_store", "w_len", "w_add"} : Goto(c, label)
      BY <1>1, <1>r, <2>1 DEF virtio_custdev_write, WriteAlloc, WriteLoad, WriteStore, WriteLen
    <3>2. /\ pc[c] \in {"idle", "w_alloc", "w_load", "w_store", "w_len"}
          /\ UNCHANGED <<tx, rx, dev, anomaly>>
      BY <1>1, <2>1 DEF virtio_custdev_write, WriteAlloc, WriteLoad, WriteStore, WriteLen, At
    <3> QED BY <3>1, <3>2, ClientPasses
  <2> QED BY <1>f, <2>1
<1>2. CASE WriteResume(c)
  BY <1>2, <1>r, ClientPasses DEF WriteResume, At
<1> SUFFICES ASSUME WriteAdd(c) \/ WriteKick(c), anomaly' = {} PROVE KicksCovered'
  BY <1>1, <1>2 DEF WriteStep, KicksCovered
<1>3. anomaly = {} /\ dev' = dev /\ rx' = rx
  BY DEF WriteAdd, WriteKick
<1>4. /\ Covered(tx, AtLabel("w_kick"), AtLabel("w_trap"))
      /\ Covered(rx, AtLabel("r_kick"), AtLabel("r_trap"))
      /\ tx \in Queue /\ dev # "nullpop"
  BY <1>3 DEF KicksCovered, TypeOK
<1>5. pc[c] \in {"w_add", "w_kick"} /\ \E label \in {"w_kick", "w_trap", "idle"} : Goto(c, label)
  BY <1>r DEF WriteAdd, WriteKick, At
<1>6. Covered(rx', AtLabel("r_kick")', AtLabel("r_trap")')
  BY <1>3, <1>4, <1>5, PassesBy
<1>7. Covered(tx', AtLabel("w_kick")', AtLabel("w_trap")')
  <2>1. CASE WriteAdd(c)
    <3> DEFINE e == [buf |-> loc[c].buf, len |-> loc[c].n]
    <3>1. pc[c] = "w_add" /\ Goto(c, "w_kick")
      BY <2>1 DEF WriteAdd, At
    <3>2. tx' = QueueAdd(tx, e) /\ e.len # 0
      BY <2>1 DEF WriteAdd
    <3>3. e \in Element
      BY <3>1, PcFacts, LocalsFacts DEF Element, TypeOK, CallTypeOK
    <3>a. /\ AtLabel("w_kick")' = AtLabel("w_kick") \union {c} /\ c \notin AtLabel("w_kick")
          /\ AtLabel("w_trap")' = AtLabel("w_trap") \ {c} /\ c \notin AtLabel("w_trap")
      BY <3>1, MovesLabels
    <3>4. /\ AtLabel("w_kick")' = AtLabel("w_kick") \union {c} /\ c \notin AtLabel("w_kick")
          /\ AtLabel("w_trap")' = AtLabel("w_trap")
      BY <3>a
    <3> HIDE DEF e
    <3>5. Covered(QueueAdd(tx, e), AtLabel("w_kick") \union {c}, AtLabel("w_trap"))
      BY <1>4, <3>2, <3>3, <3>4, AddCovered
    <3> QED BY <3>2, <3>4, <3>5
  <2>2. CASE WriteKick(c)
    <3>1. /\ pc[c] = "w_kick" /\ tx' \in Notified(c, tx)
          /\ Goto(c, IF IoEventFd THEN "idle" ELSE "w_trap")
      BY <1>r, <2>2 DEF WriteKick, At
    <3>2. /\ AtLabel("w_kick")' = AtLabel("w_kick") \ {c} /\ c \in AtLabel("w_kick")
          /\ c \notin AtLabel("w_trap")
      BY <3>1, MovesLabels DEF AtLabel
    <3>3. IF IoEventFd THEN TRUE ELSE AtLabel("w_trap")' = AtLabel("w_trap") \union {c}
      BY <3>1, MovesLabels
    <3> QED BY <1>4, <3>1, <3>2, <3>3, KickCovered
  <2> QED BY <2>1, <2>2
<1> QED BY <1>3, <1>4, <1>6, <1>7, Zenon DEF KicksCovered, Covered, AtLabel, Pending

\* Handlers, callbacks and the administrator.
LEMMA OtherCovered ==
  ASSUME TypeOK, KicksCovered,
         \/ Interrupt \/ Handler \/ NotSynced \/ virtio_custdev_device_unrealize
         \/ VmStop \/ VmResume \/ UNCHANGED vars
  PROVE  KicksCovered'
<1> USE DEF drvVars, heapVars, callVars, devVars
<1>0. anomaly' = anomaly /\ pc' = pc
  BY DEF Interrupt, virtio_custdev_outbuf_cb, virtio_custdev_inbuf_cb, InbufComplete, Handler,
     virtio_custdev_handle_outbuf, virtio_custdev_handle_inbuf, Dies, NotSynced,
     virtio_custdev_device_unrealize, VmStop, VmResume, vars
<1> SUFFICES ASSUME anomaly = {}
             PROVE  /\ dev' # "nullpop"
                    /\ Covered(tx', AtLabel("w_kick"), AtLabel("w_trap"))
                    /\ Covered(rx', AtLabel("r_kick"), AtLabel("r_trap"))
  BY <1>0, Zenon DEF KicksCovered, Covered, AtLabel, Pending
<1>1. /\ Covered(tx, AtLabel("w_kick"), AtLabel("w_trap"))
      /\ Covered(rx, AtLabel("r_kick"), AtLabel("r_trap"))
      /\ rx \in Queue /\ tx \in Queue /\ dev # "nullpop"
  BY DEF KicksCovered, TypeOK
<1> HIDE DEF Covered, AtLabel
<1>2. CASE virtio_custdev_handle_outbuf
  <2>1. PICK q \in Taken(tx) : \/ PopsNull(q) /\ Dies("nullpop")
                               \/ Dies("oob")
                               \/ tx' \in PopPush(q) /\ UNCHANGED <<rx, dev>>
    BY <1>2 DEF virtio_custdev_handle_outbuf
  <2>2. tx.kick # {}
    BY <1>2 DEF virtio_custdev_handle_outbuf
  <2>3. ~ PopsNull(q) /\ \A r \in PopPush(q) : Covered(r, AtLabel("w_kick"), AtLabel("w_trap"))
    BY <1>1, <2>2, TakenCovered
  <2> QED BY <1>1, <2>1, <2>3 DEF Dies
<1>3. CASE virtio_custdev_handle_inbuf
  <2>1. PICK q \in Taken(rx) : \/ PopsNull(q) /\ Dies("nullpop")
                               \/ Dies("oob")
                               \/ rx' \in PopPush(q) /\ UNCHANGED <<tx, dev>>
    BY <1>3 DEF virtio_custdev_handle_inbuf
  <2>2. rx.kick # {}
    BY <1>3 DEF virtio_custdev_handle_inbuf
  <2>3. ~ PopsNull(q) /\ \A r \in PopPush(q) : Covered(r, AtLabel("r_kick"), AtLabel("r_trap"))
    BY <1>1, <2>2, TakenCovered
  <2> QED BY <1>1, <2>1, <2>3 DEF Dies
<1>4. CASE NotSynced
  BY <1>1, <1>4, TakenCovered DEF NotSynced
<1>5. CASE Interrupt
  <2>1. \A q : GetBuf(q).avail = q.avail /\ GetBuf(q).kick = q.kick
    BY DEF GetBuf, QueueOf
  <2>2. /\ tx' \in {tx, GetBuf(tx)} /\ rx' \in {rx, GetBuf(rx)} /\ dev' = dev
    BY <1>5 DEF Interrupt, virtio_custdev_outbuf_cb, virtio_custdev_inbuf_cb, InbufComplete
  <2>3. tx'.avail = tx.avail /\ tx'.kick = tx.kick /\ rx'.avail = rx.avail /\ rx'.kick = rx.kick
    BY <2>1, <2>2
  <2> QED BY <1>1, <2>2, <2>3, SameCovered
<1>6. CASE virtio_custdev_device_unrealize
  <2>1. tx'.avail = tx.avail /\ tx'.kick = {} /\ rx'.avail = rx.avail /\ rx'.kick = {} /\ dev' = "gone"
    BY <1>1, <1>6 DEF virtio_custdev_device_unrealize, Queue
  <2> QED BY <1>1, <2>1, SameCovered
<1>7. CASE VmStop \/ VmResume \/ UNCHANGED vars
  BY <1>1, <1>7 DEF VmStop, VmResume, vars
<1> QED BY <1>2, <1>3, <1>4, <1>5, <1>6, <1>7 DEF Handler

LEMMA InitCovered == Init => KicksCovered
<1> SUFFICES ASSUME Init PROVE KicksCovered
  OBVIOUS
<1>1. AtLabel("w_kick") = {} /\ AtLabel("r_kick") = {}
  BY DEF Init, AtLabel
<1>2. \A q : q = EmptyQueue => q.avail = << >> /\ q.kick = {}
  BY DEF EmptyQueue, QueueOf
<1>3. ASSUME NEW T PROVE Covered(EmptyQueue, {}, T)
  <2>1. EmptyQueue.avail = << >> /\ EmptyQueue.kick = {}
    BY <1>2
  <2>2. Pending(EmptyQueue) = 0 /\ IsFiniteSet({}) /\ Cardinality({}) = 0
    BY <2>1, FS_EmptySet DEF Pending
  <2> QED BY <2>1, <2>2 DEF Covered
<1> QED BY <1>1, <1>3 DEF Init, KicksCovered

\* The model stops at undefined behaviour in the driver.
LEMMA StaysStopped == ASSUME kern # "ok", [Next]_vars PROVE kern' = kern
BY DEF Next, virtio_custdev_read, virtio_custdev_write, ReadStep, ReadAlloc, ReadAdd, ReadKick,
   ReadResume, ReadWait, ReadCopy, ReadShort, ReadFix, ReadFree, WriteStep, WriteAlloc, WriteLoad,
   WriteStore, WriteLen, WriteAdd, WriteKick, WriteResume, At, Runs, Alive, Interrupt,
   virtio_custdev_outbuf_cb, virtio_custdev_inbuf_cb, InbufComplete, Handler,
   virtio_custdev_handle_outbuf, virtio_custdev_handle_inbuf, NotSynced,
   virtio_custdev_device_unrealize, VmStop, VmResume, Race, Overlap, vars, drvVars

\* The device pops a NULL element only after the driver ignored a full queue, queued an
\* empty buffer or let two calls on a queue overlap: however many clients there are and
\* however kicks merge, are suppressed or are lost while the VM is stopped, each
\* notification served finds a buffer.
THEOREM NullPopHasCause == Spec => []NullPopExplained
<1> DEFINE Raced == kern \in {"tx_raced", "rx_raced"}
           Inv == Raced \/ KicksCovered
<1>1. ASSUME TypeOK, Inv, [Next]_vars PROVE Inv'
  <2>1. CASE Raced
    BY <1>1, <2>1, StaysStopped
  <2>2. CASE Race
    BY <2>2 DEF Race
  <2>3. CASE KicksCovered /\ ~ Race
    BY <1>1, <2>3, ReadCovered, WriteCovered, OtherCovered DEF Next
  <2> QED BY <1>1, <2>1, <2>2, <2>3
<1>2. Inv => NullPopExplained
  BY DEF KicksCovered, NullPopExplained
<1>3. Init => Inv
  BY InitCovered
<1> QED BY <1>1, <1>2, <1>3, TypeCorrect, PTL DEF Spec

------------------------------------------------------------------------------
(* The transport of the commit, which notifies nobody *)

\* No notification is pending, so nothing comes back to a reader.
Silent == /\ tx.kick = {} /\ rx.kick = {} /\ rx.used = << >>
          /\ inbuf_cb.pc = "idle" /\ data_ready = 0

\* A client's step that changes nothing of that, from another place than the wait.
LEMMA SilentGoto ==
  ASSUME TypeOK, NEW c \in Clients, NEW label, Goto(c, label), pc[c] # "r_wait"
  PROVE  \A d \in Readers : pc[d] = "r_wait" => pc'[d] = "r_wait"
BY DEF Goto, TypeOK, CallTypeOK, Clients

LEMMA SilentQueues ==
  ASSUME ~ notifies, NEW c, NEW q
  PROVE  /\ \A e : QueueAdd(q, e).kick = q.kick /\ QueueAdd(q, e).used = q.used
         /\ \A r \in Notified(c, q) : r.kick = q.kick /\ r.used = q.used
         /\ GetBuf(q).kick = q.kick
BY DEF QueueAdd, Notified, custdev_notify, GetBuf, QueueOf

LEMMA SilentStep ==
  ASSUME ~ notifies, TypeOK, Silent, [Next]_vars
  PROVE  Silent' /\ \A d \in Readers : pc[d] = "r_wait" => pc'[d] = "r_wait"
<1> USE DEF drvVars, heapVars, callVars, devVars
<1>f. ASSUME Fault PROVE Silent' /\ \A d \in Readers : pc[d] = "r_wait" => pc'[d] = "r_wait"
  BY <1>f DEF Fault, Silent
<1>g. ASSUME NEW c \in Clients, NEW label, Goto(c, label), pc[c] # "r_wait",
             tx'.kick = tx.kick, rx'.kick = rx.kick, rx'.used = rx.used, UNCHANGED <<inbuf_cb, data_ready>>
      PROVE  Silent' /\ \A d \in Readers : pc[d] = "r_wait" => pc'[d] = "r_wait"
  BY <1>g, SilentGoto DEF Silent
<1>1. ASSUME NEW c \in Clients, virtio_custdev_read(c) \/ ReadStep(c)
      PROVE  Silent' /\ \A d \in Readers : pc[d] = "r_wait" => pc'[d] = "r_wait"
  <2>1. CASE virtio_custdev_read(c)
    BY <1>g, <2>1 DEF virtio_custdev_read, At, Return
  <2>2. CASE ReadAlloc(c)
    BY <1>f, <1>g, <2>2 DEF ReadAlloc, At, Return
  <2>3. CASE ReadAdd(c)
    BY <1>f, <1>g, <2>3, SilentQueues DEF ReadAdd, At
  <2>4. CASE ReadKick(c)
    BY <1>g, <2>4, SilentQueues DEF ReadKick, At
  <2>5. CASE ReadResume(c)
    BY <1>g, <2>5 DEF ReadResume, At
  <2>6. ~ ReadWait(c)
    BY DEF ReadWait, Silent
  <2>7. CASE ReadCopy(c)
    BY <1>f, <1>g, <2>7 DEF ReadCopy, At
  <2>8. CASE ReadFree(c)
    BY <1>f, <1>g, <2>8 DEF ReadFree, At, Return
  <2>9. CASE ReadShort(c) \/ ReadFix(c)
    BY <1>f, <1>g, <2>9 DEF ReadShort, ReadFix, At
  <2> QED BY <1>1, <2>1, <2>2, <2>3, <2>4, <2>5, <2>6, <2>7, <2>8, <2>9 DEF ReadStep
<1>2. ASSUME NEW c \in Clients, virtio_custdev_write(c) \/ WriteStep(c)
      PROVE  Silent' /\ \A d \in Readers : pc[d] = "r_wait" => pc'[d] = "r_wait"
  <2>1. CASE virtio_custdev_write(c)
    BY <1>g, <2>1 DEF virtio_custdev_write, At, Return
  <2>2. CASE WriteAlloc(c)
    BY <1>g, <2>2 DEF WriteAlloc, At, Return
  <2>3. CASE WriteLoad(c)
    BY <1>g, <2>3 DEF WriteLoad, At
  <2>4. CASE WriteStore(c)
    BY <1>g, <2>4 DEF WriteStore, At
  <2>5. CASE WriteLen(c)
    BY <1>f, <1>g, <2>5 DEF WriteLen, At
  <2>6. CASE WriteAdd(c)
    BY <1>g, <2>6, SilentQueues DEF WriteAdd, At
  <2>7. CASE WriteKick(c)
    BY <1>g, <2>7, SilentQueues DEF WriteKick, At, Return
  <2>8. CASE WriteResume(c)
    BY <1>g, <2>8 DEF WriteResume, At, Return
  <2> QED BY <1>2, <2>1, <2>2, <2>3, <2>4, <2>5, <2>6, <2>7, <2>8 DEF WriteStep
<1>3. CASE Interrupt \/ Handler
  <2>1. ~ Handler /\ ~ virtio_custdev_inbuf_cb /\ ~ InbufComplete
    BY DEF Handler, virtio_custdev_handle_outbuf, virtio_custdev_handle_inbuf, virtio_custdev_inbuf_cb,
           InbufComplete, Silent
  <2>2. virtio_custdev_outbuf_cb
    BY <1>3, <2>1 DEF Interrupt
  <2> QED BY <2>2, SilentQueues DEF virtio_custdev_outbuf_cb, Silent
<1>4. CASE NotSynced \/ virtio_custdev_device_unrealize \/ VmStop \/ VmResume \/ Race \/ UNCHANGED vars
  <2>1. ~ NotSynced
    BY DEF NotSynced, Silent
  <2>2. CASE virtio_custdev_device_unrealize
    <3>1. tx'.kick = {} /\ rx'.kick = {} /\ rx'.used = rx.used /\ UNCHANGED <<inbuf_cb, data_ready, pc>>
      BY <2>2 DEF virtio_custdev_device_unrealize, TypeOK, Queue
    <3> QED BY <3>1 DEF Silent
  <2> QED BY <1>4, <2>1, <2>2 DEF VmStop, VmResume, Race, vars, Silent
<1> QED BY <1>1, <1>2, <1>3, <1>4 DEF Next

LEMMA SameTransport == ASSUME [Next]_vars PROVE notifies' = notifies
BY DEF Next, virtio_custdev_read, virtio_custdev_write, ReadStep, ReadAlloc, ReadAdd, ReadKick,
   ReadResume, ReadWait, ReadCopy, ReadShort, ReadFix, ReadFree, WriteStep, WriteAlloc, WriteLoad,
   WriteStore, WriteLen, WriteAdd, WriteKick, WriteResume, Fault, Interrupt,
   virtio_custdev_outbuf_cb, virtio_custdev_inbuf_cb, InbufComplete, Handler, Dies,
   virtio_custdev_handle_outbuf, virtio_custdev_handle_inbuf, NotSynced,
   virtio_custdev_device_unrealize, VmStop, VmResume, Race, vars, devVars

\* As committed custdev_notify writes nothing to the device, so a read that waits for its
\* completion is never woken, whatever else runs, for any number of clients.
THEOREM CommittedReadHangs == Spec => WaitsForEver
<1> DEFINE Stays == \A c \in Readers : pc[c] = "r_wait" => pc'[c] = "r_wait"
           Inv == notifies \/ Silent
<1>1. Init => Inv
  BY DEF Init, Silent, EmptyQueue, QueueOf
<1>2. TypeOK /\ Inv /\ [Next]_vars => Inv' /\ [~ notifies => Stays]_vars
  BY SilentStep, SameTransport
<1> QED BY <1>1, <1>2, TypeCorrect, PTL DEF Spec, WaitsForEver

------------------------------------------------------------------------------
(* One reader, any number of writers: where its buffer is *)

Waiting == {"r_kick", "r_trap", "r_wait"}
Busy(avail, used, cb, ready) ==
  rx.avail = avail /\ rx.used = used /\ inbuf_cb.pc = cb /\ data_ready = ready

\* No buffer is on its way; or buffer b is, and nothing else: in the queue, in the
\* callback, or announced by the completion.
Nowhere == Busy(<< >>, << >>, "idle", 0)
Travels(b) ==
  \/ \E e \in Element : e.buf = b /\ (Busy(<<e>>, << >>, "idle", 0) \/ Busy(<< >>, <<e>>, "idle", 0))
  \/ read_data = b /\ (Busy(<< >>, << >>, "dec", 0) \/ Busy(<< >>, << >>, "idle", 1))

OneReader ==
  /\ \A c \in Clients : pc[c] \in ReadPcs => c \in Readers
  /\ \A c \in Readers : /\ Nowhere \/ (pc[c] \in Waiting /\ Travels(loc[c].buf))
                        /\ pc[c] = "r_copy" => read_data = loc[c].buf

\* A client's step that leaves the queue, the callback and the completion alone.
LEMMA ReaderMoves ==
  ASSUME TypeOK, OneReader, NEW r, Readers = {r}, NEW c \in Clients, NEW label, Goto(c, label),
         rx'.avail = rx.avail, rx'.used = rx.used, UNCHANGED <<inbuf_cb, data_ready, read_data>>,
         \A d \in Clients \ {c} : loc'[d] = loc[d],
         label \in ReadPcs => c = r, label # "r_copy",
         pc[c] \in Waiting => label \in Waiting /\ loc'[c].buf = loc[c].buf
  PROVE  OneReader'
<1>1. pc'[c] = label /\ \A d \in Clients \ {c} : pc'[d] = pc[d]
  BY DEF Goto, TypeOK, CallTypeOK
<1>2. r \in Clients
  BY DEF Clients
<1>3. \A d \in Clients : pc'[d] \in ReadPcs => d \in Readers
  BY <1>1 DEF OneReader
<1>4. pc'[r] = "r_copy" => read_data' = loc'[r].buf
  BY <1>1, <1>2 DEF OneReader
<1>5. CASE Nowhere
  <2>1. Nowhere'
    BY <1>5 DEF Nowhere, Busy
  <2> QED BY <1>3, <1>4, <2>1 DEF OneReader
<1>6. CASE pc[r] \in Waiting /\ Travels(loc[r].buf)
  <2>1. pc'[r] \in Waiting /\ loc'[r].buf = loc[r].buf
    BY <1>1, <1>2, <1>6
  <2>2. Travels(loc[r].buf)'
    BY <1>6, <2>1 DEF Travels, Busy
  <2> QED BY <1>3, <1>4, <2>1, <2>2 DEF OneReader
<1> QED BY <1>5, <1>6 DEF OneReader

\* A step of nobody's call, after which the reader's buffer is somewhere on its way.
LEMMA ReaderStays ==
  ASSUME OneReader, NEW r, Readers = {r}, UNCHANGED <<pc, loc>>,
         Nowhere' \/ (pc[r] \in Waiting /\ Travels(loc[r].buf)'), pc[r] = "r_copy" => read_data' = read_data
  PROVE  OneReader'
BY DEF OneReader

\* Moving on, or returning, with the other clients' locals as they were.
LEMMA OthersLocals ==
  ASSUME TypeOK, NEW c \in Clients
  PROVE  /\ \A call, res, msg, n : Return(c, call, n, msg) =>
              Goto(c, "idle") /\ \A d \in Clients \ {c} : loc'[d] = loc[d]
         /\ \A msg, n, b, i : SetLocals(c, msg, n, b, i) =>
              loc'[c] = LocalsOf(msg, n, b, i) /\ \A d \in Clients \ {c} : loc'[d] = loc[d]
BY DEF Return, SetLocals, TypeOK, CallTypeOK

LEMMA ReadOneReader ==
  ASSUME TypeOK, OneReader, NEW r, Readers = {r}, NEW c \in Clients,
         virtio_custdev_read(c) \/ ReadStep(c)
  PROVE  OneReader'
<1> USE DEF drvVars, heapVars, callVars, devVars
<1>p. /\ Waiting = {"r_kick", "r_trap", "r_wait"}
      /\ ReadPcs = {"r_alloc", "r_add", "r_kick", "r_trap", "r_wait", "r_copy", "r_short", "r_fix", "r_free"}
  BY DEF Waiting, ReadPcs
<1>f. ASSUME Fault PROVE OneReader'
  BY <1>f DEF Fault, OneReader, Nowhere, Travels, Busy
<1>c. c = r
  BY <1>p DEF virtio_custdev_read, ReadStep, ReadAlloc, ReadAdd, ReadKick, ReadResume, ReadWait,
     ReadCopy, ReadShort, ReadFix, ReadFree, At, OneReader
<1>1. CASE virtio_custdev_read(c)
  <2>1. UNCHANGED <<rx, inbuf_cb, data_ready, read_data>> /\ pc[c] = "idle"
    BY <1>1 DEF virtio_custdev_read, At
  <2>2. PICK label \in {"idle", "r_alloc"} : Goto(c, label) /\ \A d \in Clients \ {c} : loc'[d] = loc[d]
    BY <1>1, OthersLocals DEF virtio_custdev_read
  <2> QED BY <1>p, <1>c, <2>1, <2>2, ReaderMoves
<1>2. CASE ReadAlloc(c) /\ ~ Fault
  <2>1. UNCHANGED <<rx, inbuf_cb, data_ready, read_data>> /\ pc[c] = "r_alloc"
    BY <1>2 DEF ReadAlloc, At
  <2>2. PICK label \in {"idle", "r_add"} : Goto(c, label) /\ \A d \in Clients \ {c} : loc'[d] = loc[d]
    BY <1>2, OthersLocals DEF ReadAlloc
  <2> QED BY <1>p, <1>c, <2>1, <2>2, ReaderMoves
<1>3. CASE ReadAdd(c) /\ ~ Fault
  <2> DEFINE e == [buf |-> loc[c].buf, len |-> buf_lens[Dec(buffers)]]
  <2>1. /\ pc[c] = "r_add" /\ Dec(buffers) \in Cells /\ Goto(c, "r_kick")
        /\ rx' = rx \/ rx' = QueueAdd(rx, e)
        /\ UNCHANGED <<loc, inbuf_cb, data_ready, read_data>>
    BY <1>3 DEF ReadAdd, At
  <2>2. CASE rx' = rx
    BY <1>p, <1>c, <2>1, <2>2, ReaderMoves
  <2>3. CASE rx' = QueueAdd(rx, e)
    <3>1. e \in Element /\ e.buf = loc[c].buf
      BY <2>1, PcFacts, SizeAssumption DEF Element, TypeOK, CallTypeOK, DrvTypeOK, Cells, Slots
    <3>2. Nowhere
      BY <1>p, <1>c, <2>1 DEF OneReader
    <3> HIDE DEF e
    <3>3. rx'.avail = <<e>> /\ rx'.used = << >> /\ inbuf_cb'.pc = "idle" /\ data_ready' = 0
      BY <2>1, <2>3, <3>2 DEF QueueAdd, QueueOf, Nowhere, Busy
    <3>4. Travels(loc[c].buf)'
      BY <2>1, <3>1, <3>3 DEF Travels, Busy
    <3>5. pc'[c] = "r_kick" /\ \A d \in Clients \ {c} : pc'[d] = pc[d]
      BY <2>1 DEF Goto, TypeOK, CallTypeOK
    <3> QED BY <1>p, <1>c, <2>1, <3>4, <3>5 DEF OneReader
  <2> QED BY <2>1, <2>2, <2>3
<1>4. CASE ReadKick(c)
  <2>1. rx'.avail = rx.avail /\ rx'.used = rx.used
    BY <1>4, KickHeld DEF ReadKick
  <2> QED BY <1>4, <1>p, <1>c, <2>1, ReaderMoves DEF ReadKick
<1>5. CASE ReadResume(c)
  BY <1>5, <1>p, <1>c, ReaderMoves DEF ReadResume
<1>6. CASE ReadWait(c)
  <2>1. /\ pc[c] = "r_wait" /\ data_ready > 0 /\ data_ready' = data_ready - 1 /\ Goto(c, "r_copy")
        /\ UNCHANGED <<loc, rx, inbuf_cb, read_data>>
    BY <1>6 DEF ReadWait, At
  <2>2. read_data = loc[r].buf /\ Busy(<< >>, << >>, "idle", 1)
    BY <1>c, <2>1 DEF OneReader, Nowhere, Travels, Busy
  <2>3. Nowhere'
    BY <2>1, <2>2 DEF Nowhere, Busy
  <2>4. pc'[c] = "r_copy" /\ \A d \in Clients \ {c} : pc'[d] = pc[d]
    BY <2>1 DEF Goto, TypeOK, CallTypeOK
  <2> QED BY <1>p, <1>c, <2>1, <2>2, <2>3, <2>4 DEF OneReader
<1>7. CASE ReadCopy(c) /\ ~ Fault
  <2>1. PICK msg, res : SetLocals(c, msg, res, loc[c].buf, 0)
    BY <1>7, Zenon DEF ReadCopy
  <2>g. Goto(c, "r_short") \/ Goto(c, "r_free")
    BY <1>7 DEF ReadCopy
  <2>2. \A d \in Clients \ {c} : loc'[d] = loc[d]
    BY <2>1, OthersLocals
  <2> QED BY <1>7, <1>p, <1>c, <2>g, <2>2, ReaderMoves DEF ReadCopy, At
<1>9. CASE ReadShort(c) /\ ~ Fault
  <2>1. PICK n, i : SetLocals(c, loc[c].msg, n, loc[c].buf, i)
    BY <1>9, Zenon DEF ReadShort
  <2>2. \A d \in Clients \ {c} : loc'[d] = loc[d]
    BY <2>1, OthersLocals
  <2> QED BY <1>9, <1>p, <1>c, <2>2, ReaderMoves DEF ReadShort, At
<1>10. CASE ReadFix(c)
  BY <1>10, <1>p, <1>c, ReaderMoves DEF ReadFix, At
<1>8. CASE ReadFree(c) /\ ~ Fault
  BY <1>8, <1>p, <1>c, OthersLocals, ReaderMoves DEF ReadFree, At
<1> QED BY <1>f, <1>1, <1>2, <1>3, <1>4, <1>5, <1>6, <1>7, <1>8, <1>9, <1>10 DEF ReadStep

LEMMA WriteOneReader ==
  ASSUME TypeOK, OneReader, NEW r, Readers = {r}, NEW c \in Clients,
         virtio_custdev_write(c) \/ WriteStep(c)
  PROVE  OneReader'
<1> USE DEF drvVars, heapVars, callVars, devVars
<1>p. /\ Waiting = {"r_kick", "r_trap", "r_wait"}
      /\ ReadPcs = {"r_alloc", "r_add", "r_kick", "r_trap", "r_wait", "r_copy", "r_short", "r_fix", "r_free"}
      /\ WritePcs = {"w_alloc", "w_load", "w_store", "w_len", "w_add", "w_kick", "w_trap"}
  BY DEF Waiting, ReadPcs, WritePcs
<1>f. ASSUME Fault PROVE OneReader'
  BY <1>f DEF Fault, OneReader, Nowhere, Travels, Busy
<1>1. CASE ~ Fault
  <2>1. /\ UNCHANGED <<rx, inbuf_cb, data_ready, read_data>>
        /\ pc[c] \in {"idle"} \union WritePcs
    BY <1>1, <1>p DEF virtio_custdev_write, WriteStep, WriteAlloc, WriteLoad, WriteStore, WriteLen,
       WriteAdd, WriteKick, WriteResume, At
  <2>2. PICK label \in {"idle"} \union WritePcs :
          Goto(c, label) /\ \A d \in Clients \ {c} : loc'[d] = loc[d]
    <3>1. CASE virtio_custdev_write(c) \/ WriteAlloc(c) \/ WriteLoad(c)
      BY <1>p, <3>1, OthersLocals DEF virtio_custdev_write, WriteAlloc, WriteLoad
    <3>2. CASE WriteStore(c) \/ WriteLen(c) \/ WriteAdd(c)
      BY <1>1, <1>p, <3>2 DEF WriteStore, WriteLen, WriteAdd
    <3>3. CASE WriteKick(c) \/ WriteResume(c)
      BY <1>p, <3>3, OthersLocals DEF WriteKick, WriteResume
    <3> QED BY <3>1, <3>2, <3>3 DEF WriteStep
  <2> QED BY <1>p, <2>1, <2>2, ReaderMoves
<1> QED BY <1>f, <1>1

LEMMA OtherOneReader ==
  ASSUME TypeOK, OneReader, NEW r, Readers = {r},
         \/ Interrupt \/ Handler \/ NotSynced \/ virtio_custdev_device_unrealize
         \/ VmStop \/ VmResume \/ Race \/ UNCHANGED vars
  PROVE  OneReader'
<1> USE DEF drvVars, heapVars, callVars, devVars
<1>0. /\ rx \in Queue /\ UNCHANGED <<pc, loc>>
      /\ Nowhere \/ (pc[r] \in Waiting /\ Travels(loc[r].buf))
  BY DEF TypeOK, OneReader, Interrupt, virtio_custdev_outbuf_cb, virtio_custdev_inbuf_cb, InbufComplete,
     Handler, virtio_custdev_handle_outbuf, virtio_custdev_handle_inbuf, Dies, NotSynced,
     virtio_custdev_device_unrealize, VmStop, VmResume, Race, vars
<1>w. "r_copy" \notin Waiting
  BY DEF Waiting
<1>k. ASSUME UNCHANGED <<inbuf_cb, data_ready, read_data>>, rx'.avail = rx.avail, rx'.used = rx.used
      PROVE  OneReader'
  <2>1. Nowhere => Nowhere'
    BY <1>k DEF Nowhere, Busy
  <2>2. Travels(loc[r].buf) => Travels(loc[r].buf)'
    BY <1>0, <1>k DEF Travels, Busy
  <2> QED BY <1>0, <1>k, <2>1, <2>2, ReaderStays
<1>1. CASE virtio_custdev_inbuf_cb
  <2>1. /\ rx.used # << >> /\ inbuf_cb'.pc = "dec" /\ read_data' = Head(rx.used).buf
        /\ rx' = GetBuf(rx) /\ data_ready' = data_ready
    BY <1>1 DEF virtio_custdev_inbuf_cb
  <2>2. PICK e \in Element : e.buf = loc[r].buf /\ Busy(<< >>, <<e>>, "idle", 0)
    BY <1>0, <2>1 DEF Nowhere, Travels, Busy
  <2>3. rx'.avail = << >> /\ rx'.used = << >> /\ read_data' = e.buf /\ data_ready' = 0
    BY <2>1, <2>2 DEF Busy, GetBuf, QueueOf
  <2>4. Travels(loc[r].buf)' /\ pc[r] \in Waiting
    BY <1>0, <2>1, <2>2, <2>3 DEF Nowhere, Travels, Busy
  <2> QED BY <1>0, <1>w, <2>4, ReaderStays
<1>2. CASE InbufComplete
  <2>1. /\ inbuf_cb.pc = "dec" /\ inbuf_cb'.pc = "idle" /\ data_ready' = data_ready + 1
        /\ UNCHANGED <<rx, read_data>>
    BY <1>2 DEF InbufComplete
  <2>2. pc[r] \in Waiting /\ read_data = loc[r].buf /\ Busy(<< >>, << >>, "dec", 0)
    BY <1>0, <2>1 DEF Nowhere, Travels, Busy
  <2>3. Travels(loc[r].buf)'
    BY <1>0, <2>1, <2>2 DEF Travels, Busy
  <2> QED BY <1>0, <1>w, <2>2, <2>3, ReaderStays
<1>3. CASE virtio_custdev_handle_inbuf
  <2>1. PICK q \in Taken(rx) :
          Dies("nullpop") \/ Dies("oob") \/ (/\ ~ PopsNull(q) /\ rx' \in PopPush(q)
                                              /\ UNCHANGED <<drvVars, inbuf_cb>>)
    BY <1>3 DEF virtio_custdev_handle_inbuf
  <2>2. CASE Dies("nullpop") \/ Dies("oob")
    BY <1>k, <2>2 DEF Dies
  <2>3. CASE ~ PopsNull(q) /\ rx' \in PopPush(q) /\ UNCHANGED <<drvVars, inbuf_cb>>
    <3>1. q.avail = rx.avail /\ q.used = rx.used /\ rx.avail # << >>
      BY <1>0, <2>3, KickHeld DEF PopsNull
    <3>2. PICK e \in Element : e.buf = loc[r].buf /\ Busy(<<e>>, << >>, "idle", 0)
      BY <1>0, <3>1 DEF Nowhere, Travels, Busy
    <3>3. PICK i : rx' = QueueOf(Tail(q.avail), Append(q.used, Head(q.avail)), q.kick, i, q.added)
      BY <2>3 DEF PopPush
    <3>a. q.avail = <<e>> /\ q.used = << >>
      BY <3>1, <3>2 DEF Busy
    <3>b. Tail(<<e>>) = << >> /\ Head(<<e>>) = e /\ Append(<< >>, e) = <<e>>
      OBVIOUS
    <3>c. rx'.avail = Tail(q.avail) /\ rx'.used = Append(q.used, Head(q.avail))
      BY <3>3 DEF QueueOf
    <3>4. rx'.avail = << >> /\ rx'.used = <<e>>
      BY <3>a, <3>b, <3>c, Zenon
    <3>5. Travels(loc[r].buf)' /\ pc[r] \in Waiting
      BY <1>0, <2>3, <3>2, <3>4 DEF Nowhere, Travels, Busy
    <3> QED BY <1>0, <1>w, <3>5, ReaderStays
  <2> QED BY <2>1, <2>2, <2>3
<1>4. CASE virtio_custdev_outbuf_cb \/ virtio_custdev_handle_outbuf
  BY <1>4, <1>k DEF virtio_custdev_outbuf_cb, virtio_custdev_handle_outbuf, Dies
<1>5. CASE NotSynced
  <2>1. rx'.avail = rx.avail /\ rx'.used = rx.used
    BY <1>0, <1>5, KickHeld DEF NotSynced
  <2> QED BY <1>5, <1>k, <2>1 DEF NotSynced
<1>6. CASE virtio_custdev_device_unrealize
  <2>1. rx'.avail = rx.avail /\ rx'.used = rx.used
    BY <1>0, <1>6 DEF virtio_custdev_device_unrealize, Queue
  <2> QED BY <1>6, <1>k, <2>1 DEF virtio_custdev_device_unrealize
<1>7. CASE VmStop \/ VmResume \/ Race \/ UNCHANGED vars
  BY <1>7, <1>k DEF VmStop, VmResume, Race, vars
<1> QED BY <1>1, <1>2, <1>3, <1>4, <1>5, <1>6, <1>7 DEF Interrupt, Handler

LEMMA InitOneReader == ASSUME Init PROVE OneReader
BY DEF Init, OneReader, Nowhere, Busy, EmptyQueue, QueueOf, ReadPcs, Clients

LEMMA NextOneReader ==
  ASSUME TypeOK, OneReader, NEW r, Readers = {r}, [Next]_vars PROVE OneReader'
BY ReadOneReader, WriteOneReader, OtherOneReader DEF Next

\* With one reader, and any number of writers, the device writes into and read frees only
\* an allocated receive buffer: the completion it waits for is the one of its own buffer.
THEOREM ReceiveSafe == ASSUME NEW r, Readers = {r} PROVE Spec => []RxNoUseAfterFree
<1>1. OneReader /\ OneOwner => RxNoUseAfterFree
  <2> SUFFICES ASSUME OneReader, OneOwner PROVE Held(rx) \subseteq heap
    BY DEF RxNoUseAfterFree
  <2>1. CASE Nowhere
    BY <2>1 DEF Nowhere, Busy, Held, BufsOf
  <2>2. CASE pc[r] \in Waiting /\ Travels(loc[r].buf)
    <3>1. Held(rx) \subseteq {loc[r].buf}
      BY <2>2 DEF Travels, Busy, Held, BufsOf
    <3>2. r \in Clients /\ pc[r] \in OwnPcs
      BY <2>2, OwnPcsFacts DEF Waiting, Clients
    <3> QED BY <3>1, <3>2 DEF OneOwner
  <2> QED BY <2>1, <2>2 DEF OneReader
<1>2. TypeOK /\ OneReader /\ [Next]_vars => OneReader'
  BY NextOneReader
<1> QED BY <1>1, <1>2, InitOneReader, TypeCorrect, OwnersHold, PTL DEF Spec

\* What that reader copies to user space is the buffer it posted, not one somebody freed.
THEOREM CopiesOwnBuffer == ASSUME NEW r, Readers = {r} PROVE Spec => []ReadsOwnBuffer
<1>1. OneReader => ReadsOwnBuffer
  BY DEF OneReader, ReadsOwnBuffer
<1>2. TypeOK /\ OneReader /\ [Next]_vars => OneReader'
  BY NextOneReader
<1> QED BY <1>1, <1>2, InitOneReader, TypeCorrect, PTL DEF Spec

\* No two calls on the receive queue overlap: the one reader is inside add or kick alone,
\* and at its add nothing of an earlier read is left for the interrupt to take.
THEOREM ReceiveQueueSerialized == ASSUME NEW r, Readers = {r} PROVE Spec => []RxSerialized
<1>1. ASSUME OneReader PROVE ~ Overlap(rx, "r_add", "r_kick")
  <2>1. \A c \in Clients : pc[c] \in {"r_add", "r_kick"} => c = r
    BY <1>1 DEF OneReader, ReadPcs
  <2>2. \A c \in Readers : pc[c] = "r_add" => rx.used = << >>
    BY <1>1 DEF OneReader, Waiting, Nowhere, Busy
  <2> QED BY <2>1, <2>2 DEF Overlap
<1>2. ASSUME OneReader, RxSerialized, [Next]_vars PROVE RxSerialized'
  <2>1. CASE Race
    BY <1>1, <1>2, <2>1 DEF Race, RxSerialized
  <2>2. CASE ~ Race
    BY <1>2, <2>2 DEF RxSerialized, Next, virtio_custdev_read, virtio_custdev_write, ReadStep,
       ReadAlloc, ReadAdd, ReadKick, ReadResume, ReadWait, ReadCopy, ReadShort, ReadFix, ReadFree,
       WriteStep, WriteAlloc, WriteLoad, WriteStore, WriteLen, WriteAdd, WriteKick, WriteResume,
       Fault, Interrupt, virtio_custdev_outbuf_cb, virtio_custdev_inbuf_cb, InbufComplete, Handler,
       Dies, virtio_custdev_handle_outbuf, virtio_custdev_handle_inbuf, NotSynced,
       virtio_custdev_device_unrealize, VmStop, VmResume, vars, drvVars
  <2> QED BY <2>1, <2>2
<1>3. Init => RxSerialized
  BY DEF Init, RxSerialized
<1>4. TypeOK /\ OneReader /\ [Next]_vars => OneReader'
  BY NextOneReader
<1> QED BY <1>2, <1>3, <1>4, InitOneReader, TypeCorrect, PTL DEF Spec

------------------------------------------------------------------------------
(* One reader and one writer: the count *)

\* How the queue operations change the number of buffers in avail and used.
LEMMA QueueLengths ==
  ASSUME NEW q \in Queue
  PROVE  /\ Len(q.avail) \in Nat /\ Len(q.used) \in Nat
         /\ \A e \in Element : /\ Len(QueueAdd(q, e).avail) = Len(q.avail) + 1
                               /\ QueueAdd(q, e).used = q.used
         /\ \A r \in PopPush(q) : q.avail # << >> =>
              Len(r.avail) = Len(q.avail) - 1 /\ Len(r.used) = Len(q.used) + 1
         /\ q.used # << >> => /\ GetBuf(q).avail = q.avail
                              /\ Len(GetBuf(q).used) = Len(q.used) - 1
                              /\ Len(q.used) > 0
<1>1. q.avail \in Seq(Element) /\ q.used \in Seq(Element)
  BY DEF Queue
<1>2. ASSUME NEW e \in Element
      PROVE  Len(QueueAdd(q, e).avail) = Len(q.avail) + 1 /\ QueueAdd(q, e).used = q.used
  BY <1>1 DEF QueueAdd, QueueOf
<1>3. ASSUME NEW r \in PopPush(q), q.avail # << >>
      PROVE  Len(r.avail) = Len(q.avail) - 1 /\ Len(r.used) = Len(q.used) + 1
  <2>1. PICK i : r = QueueOf(Tail(q.avail), Append(q.used, Head(q.avail)), q.kick, i, q.added)
    BY DEF PopPush
  <2>2. r.avail = Tail(q.avail) /\ r.used = Append(q.used, Head(q.avail))
    BY <2>1 DEF QueueOf
  <2>3. Head(q.avail) \in Element
    BY <1>1, <1>3
  <2> QED BY <1>1, <1>3, <2>2, <2>3
<1>4. ASSUME q.used # << >>
      PROVE  GetBuf(q).avail = q.avail /\ Len(GetBuf(q).used) = Len(q.used) - 1 /\ Len(q.used) > 0
  BY <1>1, <1>4 DEF GetBuf, QueueOf
<1> QED BY <1>1, <1>2, <1>3, <1>4

LEMMA OutstandingFacts ==
  ASSUME TypeOK
  PROVE  /\ Outstanding \in Nat /\ InCallback \in 0 .. 1 /\ data_ready \in Nat
         /\ Len(rx.avail) \in Nat /\ Len(rx.used) \in Nat
<1>1. Len(rx.avail) \in Nat /\ Len(rx.used) \in Nat /\ data_ready \in Nat
  BY QueueLengths DEF TypeOK, DrvTypeOK
<1>2. InCallback \in 0 .. 1
  BY DEF InCallback
<1>3. \A i, j, k \in Nat, l \in 0 .. 1 : i + j + k + l \in Nat
  OBVIOUS
<1>4. Len(rx.avail) + Len(rx.used) + data_ready + InCallback \in Nat
  BY <1>1, <1>2, <1>3, Zenon
<1> QED BY <1>1, <1>2, <1>4 DEF Outstanding

\* A step of client c that changes neither the count nor a read's outstanding buffer.
LEMMA PairMove ==
  ASSUME TypeOK, PairInvariant, NEW r, NEW w, Readers = {r}, Writers = {w},
         NEW c \in Clients, NEW label, Goto(c, label),
         UNCHANGED <<buffers, kern, data_ready, inbuf_cb>>,
         rx'.avail = rx.avail, rx'.used = rx.used,
         label \in ReadPcs => c \in Readers, label \in WritePcs => c \in Writers,
         pc[c] \in {"r_kick", "r_trap", "r_wait"} =>
            label \in {"r_kick", "r_trap", "r_wait"} \/ Outstanding = 0,
         label \in {"r_alloc", "r_add"} => buffers >= 1,
         label \in {"w_alloc", "w_load"} => buffers < BUFFERS,
         label \in {"w_store", "w_len"} => loc'[c].idx < BUFFERS,
         label = "r_fix" => loc'[c].idx \in 0 .. BUFFERS,
         \A d \in Clients \ {c} : loc'[d] = loc[d]
  PROVE  PairInvariant'
<1>1. pc' \in [Clients -> Pcs \union {label}] /\ pc'[c] = label /\ Clients = {r, w}
      /\ \A d \in Clients \ {c} : pc'[d] = pc[d]
  BY DEF TypeOK, CallTypeOK, Goto, Pcs, Clients
<1>2. Outstanding' = Outstanding
  BY DEF Outstanding, InCallback
<1>3. Len(rx.avail) \in Nat /\ Len(rx.used) \in Nat /\ data_ready \in Nat
  BY QueueLengths DEF TypeOK, DrvTypeOK
<1>4. Outstanding \in Nat
  BY OutstandingFacts
<1>5. ASSUME NEW d \in Readers
      PROVE  Outstanding' <= IF pc'[d] \in {"r_kick", "r_trap", "r_wait"} THEN 1 ELSE 0
  <2>0. Outstanding <= IF pc[d] \in {"r_kick", "r_trap", "r_wait"} THEN 1 ELSE 0
    BY DEF PairInvariant
  <2>1. CASE d = c
    BY <1>1, <1>2, <1>4, <2>0, <2>1
  <2>2. CASE d # c
    BY <1>1, <1>2, <2>0, <2>2
  <2> QED BY <2>1, <2>2
<1>6. ASSUME NEW d \in Writers
      PROVE  /\ pc'[d] \in {"w_alloc", "w_load"} => buffers' < BUFFERS
             /\ pc'[d] \in {"w_store", "w_len"} => loc'[d].idx < BUFFERS
  BY <1>1 DEF PairInvariant, Clients
<1>7. ASSUME NEW d \in Clients
      PROVE  /\ pc'[d] \in ReadPcs => d \in Readers
             /\ pc'[d] \in WritePcs => d \in Writers
  BY <1>1 DEF PairInvariant
<1>8. ASSUME NEW d \in Readers
      PROVE  /\ pc'[d] \in {"r_alloc", "r_add"} => buffers' >= 1
             /\ pc'[d] = "r_fix" => loc'[d].idx \in 0 .. BUFFERS
  BY <1>1 DEF PairInvariant, Clients
<1>9. Len(rx'.avail) + Len(rx'.used) > 0 => buffers' >= 1
  BY DEF PairInvariant
<1> QED BY <1>5, <1>6, <1>7, <1>8, <1>9 DEF PairInvariant, CountInRange, NoFault

\* Who takes a step of a read or of a write.
LEMMA PairActors ==
  ASSUME TypeOK, PairInvariant, NEW r, NEW w, Readers = {r}, Writers = {w}, NEW c \in Clients
  PROVE  /\ pc[c] \in ReadPcs => c \in Readers /\ c = r
         /\ pc[c] \in WritePcs => c \in Writers /\ c = w
         /\ \A label : Goto(c, label) =>
              pc'[c] = label /\ \A d \in Clients \ {c} : pc'[d] = pc[d]
BY DEF PairInvariant, TypeOK, CallTypeOK, Goto

\* The sum that counts a read's buffer, step by step.
LEMMA SumAdd == \A i, j, k \in Nat, l \in 0 .. 1 : i + j + k + l <= 0 => (i + 1) + j + k + l <= 1
OBVIOUS
LEMMA SumWait == \A i, j, k \in Nat, l \in 0 .. 1 :
                   i + j + k + l <= 1 /\ k > 0 => i + j + (k - 1) + l <= 0
OBVIOUS
LEMMA SumTake == \A i, j, k \in Nat, l \in 0 .. 1 :
                   i + j + k + l <= 1 /\ l = 0 /\ j > 0 => i + (j - 1) + k + 1 <= 1
OBVIOUS
LEMMA SumDone == \A i, j, k \in Nat, l \in 0 .. 1 :
                   i + j + k + l <= 1 /\ l = 1 => i + j = 0 /\ i + j + (k + 1) + 0 <= 1
OBVIOUS
LEMMA SumMove == \A i, j, k \in Nat, l \in 0 .. 1 :
                   i > 0 => (i - 1) + (j + 1) + k + l = i + j + k + l
OBVIOUS

\* Outside the wait the reader has nothing outstanding, inside at most one buffer.
LEMMA PairOutstanding ==
  ASSUME TypeOK, PairInvariant, NEW r, Readers = {r}
  PROVE  /\ Len(rx.avail) + Len(rx.used) + data_ready + InCallback <= 1
         /\ pc[r] \notin {"r_kick", "r_trap", "r_wait"} =>
              Len(rx.avail) + Len(rx.used) + data_ready + InCallback <= 0
<1>1. Outstanding <= IF pc[r] \in {"r_kick", "r_trap", "r_wait"} THEN 1 ELSE 0
  BY DEF PairInvariant
<1>2. Outstanding \in Nat
  BY OutstandingFacts
<1>3. Outstanding <= 1 /\ (pc[r] \notin {"r_kick", "r_trap", "r_wait"} => Outstanding <= 0)
  BY <1>1, <1>2
<1> QED BY <1>3, Zenon DEF Outstanding

\* The steps of a read.
LEMMA ReadPair ==
  ASSUME TypeOK, PairInvariant, NEW r, NEW w, Readers = {r}, Writers = {w},
         NEW c \in Clients, virtio_custdev_read(c) \/ ReadStep(c)
  PROVE  PairInvariant'
<1> USE DEF drvVars, heapVars, callVars, devVars
<1>0. buffers \in 0 .. BUFFERS /\ BUFFERS \in Nat \ {0} /\ buffers \in Cells
  BY SizeAssumption DEF PairInvariant, CountInRange, Cells, Slots
<1>p. /\ ReadPcs = {"r_alloc", "r_add", "r_kick", "r_trap", "r_wait", "r_copy", "r_short", "r_fix", "r_free"}
      /\ WritePcs = {"w_alloc", "w_load", "w_store", "w_len", "w_add", "w_kick", "w_trap"}
  BY DEF ReadPcs, WritePcs
<1>r. \A call, n, msg : Return(c, call, n, msg) =>
        Goto(c, "idle") /\ \A d \in Clients \ {c} : loc'[d] = loc[d]
  BY DEF Return, TypeOK, CallTypeOK
<1>z. ASSUME pc[r] \notin {"r_kick", "r_trap", "r_wait"} PROVE Outstanding = 0
  BY <1>z, OutstandingFacts DEF PairInvariant
<1>1. CASE virtio_custdev_read(c)
  <2>1. CASE Return(c, "read", 0, NoMsg)
    BY <1>1, <1>p, <1>r, <2>1, PairMove DEF virtio_custdev_read, At
  <2>2. CASE buffers >= 1 /\ Goto(c, "r_alloc") /\ UNCHANGED <<loc, ret>>
    BY <1>1, <1>p, <2>2, PairMove DEF virtio_custdev_read, At
  <2> QED BY <1>1, <2>1, <2>2 DEF virtio_custdev_read
<1>2. CASE ReadAlloc(c)
  <2>0. pc[c] = "r_alloc" /\ c = r /\ c \in Readers
    BY <1>2, <1>p, PairActors DEF ReadAlloc, At
  <2>1. buffers >= 1 /\ Dec(buffers) \in Cells
    BY <1>0, <2>0 DEF PairInvariant, Dec, Cells, Slots
  <2>2. CASE Return(c, "read", - ENOMEM, NoMsg)
    BY <1>2, <1>p, <1>r, <2>0, <2>1, <2>2, PairMove DEF ReadAlloc, Goto
  <2>3. ASSUME NEW b \in Bufs, SetLocals(c, NoMsg, 0, b, 0), Goto(c, "r_add")
        PROVE  PairInvariant'
    <3>1. \A d \in Clients \ {c} : loc'[d] = loc[d]
      BY <2>3 DEF SetLocals, TypeOK, CallTypeOK
    <3>2. UNCHANGED <<buffers, kern, data_ready, inbuf_cb, rx>>
      BY <1>2, <2>0, <2>1 DEF ReadAlloc, Fault
    <3> QED BY <1>p, <2>0, <2>1, <2>3, <3>1, <3>2, PairMove
  <2> QED BY <1>2, <2>1, <2>2, <2>3 DEF ReadAlloc
<1>3. CASE ReadAdd(c)
  <2>0. pc[c] = "r_add" /\ c = r /\ c \in Readers
    BY <1>3, <1>p, PairActors DEF ReadAdd, At
  <2>1. buffers >= 1 /\ Dec(buffers) \in Cells
    BY <1>0, <2>0 DEF PairInvariant, Dec, Cells, Slots
  <2>2. Goto(c, "r_kick") /\ UNCHANGED <<loc, buffers, kern, data_ready, inbuf_cb>>
    BY <1>3, <2>1 DEF ReadAdd
  <2>3. CASE rx' = rx
    BY <1>p, <2>0, <2>2, <2>3, PairMove
  <2>4. CASE rx' = QueueAdd(rx, [buf |-> loc[c].buf, len |-> buf_lens[Dec(buffers)]])
    <3> DEFINE e == [buf |-> loc[c].buf, len |-> buf_lens[Dec(buffers)]]
    <3>1. e \in Element
      BY <1>0, <2>0, <2>1, PcFacts DEF Element, TypeOK, CallTypeOK, DrvTypeOK, Cells, Slots
    <3> HIDE DEF e
    <3>2. Len(rx'.avail) = Len(rx.avail) + 1 /\ rx'.used = rx.used
      BY <2>4, <3>1, QueueLengths DEF TypeOK, e
    <3>3. Outstanding' <= 1
      <4>1. Len(rx.avail) + Len(rx.used) + data_ready + InCallback <= 0
        BY <2>0, PairOutstanding
      <4>2. (Len(rx.avail) + 1) + Len(rx.used) + data_ready + InCallback <= 1
        BY <4>1, OutstandingFacts, SumAdd, Zenon
      <4>3. InCallback' = InCallback /\ data_ready' = data_ready
        BY <2>2 DEF InCallback
      <4> QED BY <3>2, <4>2, <4>3, Zenon DEF Outstanding
    <3>4. pc'[c] = "r_kick" /\ \A d \in Clients \ {c} : pc'[d] = pc[d]
      BY <2>2, PairActors
    <3>5. \A d \in Readers : /\ Outstanding' <= IF pc'[d] \in {"r_kick", "r_trap", "r_wait"} THEN 1 ELSE 0
                             /\ pc'[d] \in {"r_alloc", "r_add"} => buffers' >= 1
                             /\ pc'[d] # "r_fix"
      BY <2>0, <2>2, <3>3, <3>4
    <3> QED BY <1>p, <2>0, <2>1, <2>2, <3>4, <3>5
            DEF PairInvariant, CountInRange, NoFault, Clients
  <2> QED BY <1>3, <2>1, <2>3, <2>4 DEF ReadAdd
<1>4. CASE ReadKick(c)
  <2>0. pc[c] = "r_kick" /\ c = r /\ c \in Readers
    BY <1>4, <1>p, PairActors DEF ReadKick, At
  <2>1. rx'.avail = rx.avail /\ rx'.used = rx.used
    BY <1>4, KickHeld DEF ReadKick
  <2> QED BY <1>4, <1>p, <2>0, <2>1, PairMove DEF ReadKick
<1>5. CASE ReadResume(c)
  <2>0. pc[c] = "r_trap" /\ c = r /\ c \in Readers
    BY <1>5, <1>p, PairActors DEF ReadResume, At
  <2> QED BY <1>5, <1>p, <2>0, PairMove DEF ReadResume
<1>6. CASE ReadWait(c)
  <2>0. /\ pc[c] = "r_wait" /\ c = r /\ c \in Readers /\ data_ready > 0
        /\ data_ready' = data_ready - 1 /\ Goto(c, "r_copy")
        /\ UNCHANGED <<loc, buffers, kern, rx, inbuf_cb>>
    BY <1>6, <1>p, PairActors DEF ReadWait, At
  <2>1. Outstanding' <= 0
    <3>1. Len(rx.avail) + Len(rx.used) + (data_ready - 1) + InCallback <= 0
      BY <2>0, OutstandingFacts, PairOutstanding, SumWait, Zenon
    <3>2. InCallback' = InCallback
      BY <2>0 DEF InCallback
    <3> QED BY <2>0, <3>1, <3>2, Zenon DEF Outstanding
  <2>2. pc'[c] = "r_copy" /\ \A d \in Clients \ {c} : pc'[d] = pc[d]
    BY <2>0, PairActors
  <2>3. \A d \in Readers : /\ Outstanding' <= IF pc'[d] \in {"r_kick", "r_trap", "r_wait"} THEN 1 ELSE 0
                           /\ pc'[d] \in {"r_alloc", "r_add"} => buffers' >= 1
                           /\ pc'[d] # "r_fix"
    BY <2>0, <2>1, <2>2
  <2> QED BY <1>p, <2>0, <2>2, <2>3 DEF PairInvariant, CountInRange, NoFault, Clients
<1>7. CASE ReadCopy(c)
  <2>0. pc[c] = "r_copy" /\ c = r /\ c \in Readers
    BY <1>7, <1>p, PairActors DEF ReadCopy, At
  <2>1. PICK msg, res : SetLocals(c, msg, res, loc[c].buf, 0)
    BY <1>0, <1>7, Zenon DEF ReadCopy
  <2>g. Goto(c, "r_short") \/ Goto(c, "r_free")
    BY <1>0, <1>7 DEF ReadCopy
  <2>2. \A d \in Clients \ {c} : loc'[d] = loc[d]
    BY <2>1 DEF SetLocals, TypeOK, CallTypeOK
  <2>3. UNCHANGED <<buffers, kern, data_ready, inbuf_cb, rx>>
    BY <1>0, <1>7 DEF ReadCopy
  <2>4. CASE Goto(c, "r_short")
    BY <1>p, <2>0, <2>2, <2>3, <2>4, PairMove
  <2>5. CASE Goto(c, "r_free")
    BY <1>p, <2>0, <2>2, <2>3, <2>5, PairMove
  <2> QED BY <2>g, <2>4, <2>5
<1>8. CASE ReadShort(c)
  <2>0. pc[c] = "r_short" /\ c = r /\ c \in Readers
    BY <1>8, <1>p, PairActors DEF ReadShort, At
  <2>1. /\ SetLocals(c, loc[c].msg, Minus(buf_lens[buffers], loc[c].n), loc[c].buf, buffers)
        /\ Goto(c, "r_fix") /\ UNCHANGED <<buffers, kern, data_ready, inbuf_cb, rx>>
    BY <1>0, <1>8 DEF ReadShort
  <2>2. loc'[c].idx = buffers /\ \A d \in Clients \ {c} : loc'[d] = loc[d]
    BY <2>1 DEF SetLocals, LocalsOf, TypeOK, CallTypeOK
  <2> QED BY <1>0, <1>p, <2>0, <2>1, <2>2, PairMove
<1>9. CASE ReadFix(c)
  <2>0. pc[c] = "r_fix" /\ c = r /\ c \in Readers
    BY <1>9, <1>p, PairActors DEF ReadFix, At
  <2> QED BY <1>9, <1>p, <2>0, PairMove DEF ReadFix
<1>10. CASE ReadFree(c)
  <2>0. pc[c] = "r_free" /\ c = r /\ c \in Readers
    BY <1>10, <1>p, PairActors DEF ReadFree, At
  <2>1. Return(c, "read", buf_lens[buffers], loc[c].msg)
    BY <1>0, <1>10 DEF ReadFree
  <2> QED BY <1>0, <1>10, <1>p, <1>r, <2>0, <2>1, PairMove DEF ReadFree
<1> QED BY <1>1, <1>2, <1>3, <1>4, <1>5, <1>6, <1>7, <1>8, <1>9, <1>10 DEF ReadStep

\* The steps of a write.
LEMMA WritePair ==
  ASSUME TypeOK, PairInvariant, NEW r, NEW w, Readers = {r}, Writers = {w},
         NEW c \in Clients, virtio_custdev_write(c) \/ WriteStep(c)
  PROVE  PairInvariant'
<1> USE DEF drvVars, heapVars, callVars, devVars
<1>0. buffers \in 0 .. BUFFERS /\ BUFFERS \in Nat \ {0} /\ UMAX \in Nat /\ UMAX > BUFFERS
  BY SizeAssumption DEF PairInvariant, CountInRange
<1>p. /\ ReadPcs = {"r_alloc", "r_add", "r_kick", "r_trap", "r_wait", "r_copy", "r_short", "r_fix", "r_free"}
      /\ WritePcs = {"w_alloc", "w_load", "w_store", "w_len", "w_add", "w_kick", "w_trap"}
  BY DEF ReadPcs, WritePcs
<1>r. \A call, n, msg : Return(c, call, n, msg) =>
        Goto(c, "idle") /\ \A d \in Clients \ {c} : loc'[d] = loc[d]
  BY DEF Return, TypeOK, CallTypeOK
<1>l. \A msg, n, buf, idx : SetLocals(c, msg, n, buf, idx) =>
        loc'[c].idx = idx /\ \A d \in Clients \ {c} : loc'[d] = loc[d]
  BY DEF SetLocals, LocalsOf, TypeOK, CallTypeOK
<1>1. CASE virtio_custdev_write(c)
  <2>1. CASE Return(c, "write", ENOSPC, NoMsg)
    BY <1>1, <1>p, <1>r, <2>1, PairMove DEF virtio_custdev_write, At
  <2>2. ASSUME NEW m \in Msgs, NEW count \in Lens, SetLocals(c, m, count, NoBuf, 0),
               Goto(c, "w_alloc"), buffers < BUFFERS
        PROVE  PairInvariant'
    <3>1. \A d \in Clients \ {c} : loc'[d] = loc[d]
      BY <1>l, <2>2
    <3> QED BY <1>1, <1>p, <2>2, <3>1, PairMove DEF virtio_custdev_write, At
  <2> QED BY <1>1, <2>1, <2>2 DEF virtio_custdev_write
<1>2. CASE WriteAlloc(c)
  <2>0. pc[c] = "w_alloc" /\ c = w /\ c \in Writers
    BY <1>2, <1>p, PairActors DEF WriteAlloc, At
  <2>1. CASE Return(c, "write", 1, NoMsg)
    BY <1>2, <1>p, <1>r, <2>0, <2>1, PairMove DEF WriteAlloc
  <2>2. ASSUME NEW b \in Bufs, NEW k, SetLocals(c, loc[c].msg, k, b, 0), Goto(c, "w_load")
        PROVE  PairInvariant'
    <3>1. \A d \in Clients \ {c} : loc'[d] = loc[d]
      BY <1>l, <2>2
    <3>2. buffers < BUFFERS
      BY <2>0 DEF PairInvariant
    <3> QED BY <1>2, <1>p, <2>0, <2>2, <3>1, <3>2, PairMove DEF WriteAlloc
  <2> QED BY <1>2, <2>1, <2>2 DEF WriteAlloc
<1>3. CASE WriteLoad(c)
  <2>0. pc[c] = "w_load" /\ c = w /\ c \in Writers
    BY <1>3, <1>p, PairActors DEF WriteLoad, At
  <2>1. loc'[c].idx = buffers /\ \A d \in Clients \ {c} : loc'[d] = loc[d]
    BY <1>3, <1>l DEF WriteLoad
  <2>2. buffers < BUFFERS
    BY <2>0 DEF PairInvariant
  <2> QED BY <1>3, <1>p, <2>0, <2>1, <2>2, PairMove DEF WriteLoad
<1>4. CASE WriteStore(c)
  <2>0. /\ pc[c] = "w_store" /\ c = w /\ c \in Writers /\ Goto(c, "w_len")
        /\ buffers' = Inc(loc[c].idx) /\ UNCHANGED <<loc, kern, data_ready, inbuf_cb, rx>>
    BY <1>4, <1>p, PairActors DEF WriteStore, At
  <2>1. loc[c].idx \in 0 .. BUFFERS - 1
    BY <1>0, <2>0, LocalsFacts DEF PairInvariant, TypeOK
  <2>2. buffers' \in 1 .. BUFFERS
    BY <1>0, <2>0, <2>1 DEF Inc
  <2>3. pc'[c] = "w_len" /\ \A d \in Clients \ {c} : pc'[d] = pc[d]
    BY <2>0, PairActors
  <2>4. ASSUME NEW d \in Readers
        PROVE  /\ Outstanding' <= IF pc'[d] \in {"r_kick", "r_trap", "r_wait"} THEN 1 ELSE 0
               /\ pc'[d] \in {"r_alloc", "r_add"} => buffers' >= 1
               /\ pc'[d] = "r_fix" => loc'[d].idx \in 0 .. BUFFERS
    <3>1. Outstanding' = Outstanding
      BY <2>0 DEF Outstanding, InCallback
    <3>2. Outstanding <= IF pc[d] \in {"r_kick", "r_trap", "r_wait"} THEN 1 ELSE 0
      BY DEF PairInvariant
    <3>3. d \in Clients
      BY DEF Clients
    <3>4. pc'[d] \in {"r_kick", "r_trap", "r_wait"} <=> pc[d] \in {"r_kick", "r_trap", "r_wait"}
      BY <2>0, <2>3, <3>3
    <3>5. pc'[d] = "r_fix" => pc[d] = "r_fix"
      BY <2>0, <2>3, <3>3
    <3> QED BY <2>0, <2>2, <3>1, <3>2, <3>4, <3>5 DEF PairInvariant
  <2>5. ASSUME NEW d \in Clients
        PROVE  (pc'[d] \in ReadPcs => d \in Readers) /\ (pc'[d] \in WritePcs => d \in Writers)
    BY <1>p, <2>0, <2>3 DEF PairInvariant
  <2>6. ASSUME NEW d \in Writers
        PROVE  /\ pc'[d] \in {"w_alloc", "w_load"} => buffers' < BUFFERS
               /\ pc'[d] \in {"w_store", "w_len"} => loc'[d].idx < BUFFERS
    BY <1>0, <2>0, <2>1, <2>3
  <2>7. CountInRange' /\ NoFault'
    BY <1>0, <2>0, <2>2 DEF PairInvariant, CountInRange, NoFault
  <2>8. inbuf_cb'.pc = "dec" => inbuf_cb'.b \in 1 .. BUFFERS
    BY <2>0 DEF PairInvariant
  <2>9. Len(rx'.avail) + Len(rx'.used) > 0 => buffers' >= 1
    BY <1>0, <2>2
  <2> QED BY <2>4, <2>5, <2>6, <2>7, <2>8, <2>9, Zenon DEF PairInvariant
<1>5. CASE WriteLen(c)
  <2>0. pc[c] = "w_len" /\ c = w /\ c \in Writers
    BY <1>5, <1>p, PairActors DEF WriteLen, At
  <2>1. loc[c].idx \in Cells
    BY <1>0, <2>0, LocalsFacts DEF PairInvariant, TypeOK, Cells, Slots
  <2> QED BY <1>5, <1>p, <2>0, <2>1, PairMove DEF WriteLen
<1>6. CASE WriteAdd(c)
  <2>0. pc[c] = "w_add" /\ c = w /\ c \in Writers
    BY <1>6, <1>p, PairActors DEF WriteAdd, At
  <2> QED BY <1>6, <1>p, <2>0, PairMove DEF WriteAdd
<1>7. CASE WriteKick(c)
  <2>0. pc[c] = "w_kick" /\ c = w /\ c \in Writers
    BY <1>7, <1>p, PairActors DEF WriteKick, At
  <2>1. CASE Return(c, "write", loc[c].n, loc[c].msg)
    BY <1>7, <1>p, <1>r, <2>0, <2>1, PairMove DEF WriteKick
  <2>2. CASE Goto(c, "w_trap") /\ UNCHANGED <<loc, ret>>
    BY <1>7, <1>p, <2>0, <2>2, PairMove DEF WriteKick
  <2> QED BY <1>7, <2>1, <2>2 DEF WriteKick
<1>8. CASE WriteResume(c)
  <2>0. pc[c] = "w_trap" /\ c = w /\ c \in Writers
    BY <1>8, <1>p, PairActors DEF WriteResume, At
  <2> QED BY <1>8, <1>p, <1>r, <2>0, PairMove DEF WriteResume
<1> QED BY <1>1, <1>2, <1>3, <1>4, <1>5, <1>6, <1>7, <1>8 DEF WriteStep

\* A step of nobody's call, after which the reader's buffer is still the one counted.
LEMMA PairOther ==
  ASSUME TypeOK, PairInvariant, NEW r, Readers = {r}, UNCHANGED <<pc, loc, kern>>,
         buffers' \in 0 .. BUFFERS,
         Outstanding' <= IF pc[r] \in {"r_kick", "r_trap", "r_wait"} THEN 1 ELSE 0,
         pc[r] \in {"r_alloc", "r_add"} => buffers' >= 1,
         Len(rx'.avail) + Len(rx'.used) > 0 => buffers' >= 1,
         inbuf_cb'.pc = "dec" => inbuf_cb'.b \in 1 .. BUFFERS,
         buffers' = buffers \/ buffers' < BUFFERS
  PROVE  PairInvariant'
BY DEF PairInvariant, CountInRange, NoFault

\* Callbacks and handlers.
LEMMA OtherPair ==
  ASSUME TypeOK, PairInvariant, NEW r, Readers = {r},
         \/ Interrupt \/ Handler \/ NotSynced \/ virtio_custdev_device_unrealize
         \/ VmStop \/ VmResume \/ Race \/ UNCHANGED vars
  PROVE  PairInvariant'
<1> USE DEF drvVars, heapVars, callVars, devVars
<1>0. /\ buffers \in 0 .. BUFFERS /\ BUFFERS \in Nat \ {0} /\ UMAX > BUFFERS /\ rx \in Queue
      /\ Outstanding <= IF pc[r] \in {"r_kick", "r_trap", "r_wait"} THEN 1 ELSE 0
      /\ pc[r] \in {"r_alloc", "r_add"} => buffers >= 1
      /\ Len(rx.avail) + Len(rx.used) > 0 => buffers >= 1
      /\ inbuf_cb.pc = "dec" => inbuf_cb.b \in 1 .. BUFFERS
  BY SizeAssumption DEF PairInvariant, CountInRange, TypeOK
<1>k. ASSUME UNCHANGED <<pc, loc, kern, buffers, data_ready, inbuf_cb>>,
             rx'.avail = rx.avail, rx'.used = rx.used
      PROVE  PairInvariant'
  <2>1. Outstanding' = Outstanding
    BY <1>k DEF Outstanding, InCallback
  <2> QED BY <1>0, <1>k, <2>1, PairOther
<1>w. ASSUME Outstanding > 0 PROVE pc[r] \in {"r_kick", "r_trap", "r_wait"}
  BY <1>0, <1>w, OutstandingFacts
<1>1. CASE virtio_custdev_outbuf_cb
  BY <1>1, <1>k DEF virtio_custdev_outbuf_cb
<1>2. CASE virtio_custdev_inbuf_cb
  <2>1. /\ rx.used # << >> /\ inbuf_cb.pc = "idle" /\ rx' = GetBuf(rx)
        /\ inbuf_cb' = [pc |-> "dec", b |-> buffers]
        /\ UNCHANGED <<pc, loc, kern, buffers, data_ready>>
    BY <1>2 DEF virtio_custdev_inbuf_cb
  <2>2. rx'.avail = rx.avail /\ Len(rx'.used) = Len(rx.used) - 1 /\ Len(rx.used) > 0
    BY <1>0, <2>1, QueueLengths
  <2>3. InCallback = 0 /\ InCallback' = 1
    BY <2>1 DEF InCallback
  <2>4. Outstanding' <= 1
    <3>1. Len(rx.avail) + Len(rx.used) + data_ready + InCallback <= 1
      BY PairOutstanding
    <3>2. Len(rx.avail) + (Len(rx.used) - 1) + data_ready + 1 <= 1
      BY <2>2, <2>3, <3>1, OutstandingFacts, SumTake, Zenon
    <3>3. Outstanding' = Len(rx'.avail) + Len(rx'.used) + data_ready' + InCallback'
      BY DEF Outstanding
    <3> QED BY <2>1, <2>2, <2>3, <3>2, <3>3, Zenon
  <2>5. \A i, j, k \in Nat, l \in 0 .. 1 : j > 0 => i + j + k + l > 0 /\ i + j > 0
    OBVIOUS
  <2>6. Len(rx.avail) + Len(rx.used) > 0 /\ Outstanding > 0
    BY <2>2, <2>5, OutstandingFacts, Zenon DEF Outstanding
  <2>7. buffers \in 1 .. BUFFERS /\ pc[r] \in {"r_kick", "r_trap", "r_wait"}
    BY <1>0, <1>w, <2>6
  <2>8. /\ Outstanding' <= IF pc[r] \in {"r_kick", "r_trap", "r_wait"} THEN 1 ELSE 0
        /\ pc[r] \notin {"r_alloc", "r_add"}
    BY <2>4, <2>7
  <2>9. inbuf_cb'.b \in 1 .. BUFFERS /\ buffers' >= 1 /\ buffers' \in 0 .. BUFFERS
    BY <1>0, <2>1, <2>7
  <2> QED BY <2>1, <2>8, <2>9, PairOther
<1>3. CASE InbufComplete
  <2>1. /\ inbuf_cb.pc = "dec" /\ buffers' = Dec(inbuf_cb.b) /\ data_ready' = data_ready + 1
        /\ inbuf_cb' = [pc |-> "idle", b |-> 0] /\ UNCHANGED <<pc, loc, kern, rx>>
    BY <1>3 DEF InbufComplete
  <2>2. buffers' \in 0 .. BUFFERS /\ buffers' < BUFFERS
    BY <1>0, <2>1 DEF Dec
  <2>3. InCallback = 1 /\ InCallback' = 0
    BY <2>1 DEF InCallback
  <2>4. Outstanding' <= 1 /\ Len(rx'.avail) + Len(rx'.used) = 0
    <3>1. Len(rx.avail) + Len(rx.used) + data_ready + InCallback <= 1
      BY PairOutstanding
    <3>2. Len(rx.avail) + Len(rx.used) = 0 /\ Len(rx.avail) + Len(rx.used) + (data_ready + 1) + 0 <= 1
      BY <2>3, <3>1, OutstandingFacts, SumDone, Zenon
    <3>3. Outstanding' = Len(rx'.avail) + Len(rx'.used) + data_ready' + InCallback'
      BY DEF Outstanding
    <3> QED BY <2>1, <2>3, <3>2, <3>3, Zenon
  <2>5. \A i, j, k \in Nat : i + j + k + 1 > 0
    OBVIOUS
  <2>6. Outstanding > 0
    BY <2>3, <2>5, OutstandingFacts, Zenon DEF Outstanding
  <2>7. pc[r] \in {"r_kick", "r_trap", "r_wait"}
    BY <1>w, <2>6
  <2>8. /\ Outstanding' <= IF pc[r] \in {"r_kick", "r_trap", "r_wait"} THEN 1 ELSE 0
        /\ pc[r] \notin {"r_alloc", "r_add"}
    BY <2>4, <2>7
  <2>9. inbuf_cb'.pc # "dec"
    BY <2>1
  <2>10. ~ (Len(rx'.avail) + Len(rx'.used) > 0)
    <3>1. ~ (0 > 0)
      OBVIOUS
    <3> QED BY <2>4, <3>1, Zenon
  <2> QED BY <2>1, <2>2, <2>8, <2>9, <2>10, PairOther
<1>4. CASE virtio_custdev_handle_outbuf
  BY <1>4, <1>k DEF virtio_custdev_handle_outbuf, Dies
<1>5. CASE virtio_custdev_handle_inbuf
  <2>1. PICK q \in Taken(rx) :
          Dies("nullpop") \/ Dies("oob") \/ (/\ ~ PopsNull(q) /\ rx' \in PopPush(q)
                                              /\ UNCHANGED <<drvVars, inbuf_cb, callVars>>)
    BY <1>5 DEF virtio_custdev_handle_inbuf
  <2>2. CASE Dies("nullpop") \/ Dies("oob")
    BY <1>k, <2>2 DEF Dies
  <2>3. CASE ~ PopsNull(q) /\ rx' \in PopPush(q) /\ UNCHANGED <<drvVars, inbuf_cb, callVars>>
    <3>1. q \in Queue /\ q.avail = rx.avail /\ q.used = rx.used
      BY <1>0, QueueTypes, KickHeld
    <3>2. q.avail # << >>
      BY <2>3 DEF PopsNull
    <3>3. /\ Len(rx'.avail) = Len(rx.avail) - 1 /\ Len(rx'.used) = Len(rx.used) + 1
          /\ Len(rx.avail) > 0
      <4>1. Len(q.avail) > 0
        BY <3>1, <3>2 DEF Queue
      <4> QED BY <2>3, <3>1, <3>2, <4>1, QueueLengths
    <3>4. Outstanding' = Outstanding
      <4>1. (Len(rx.avail) - 1) + (Len(rx.used) + 1) + data_ready + InCallback
              = Len(rx.avail) + Len(rx.used) + data_ready + InCallback
        BY <3>3, OutstandingFacts, SumMove, Zenon
      <4>2. InCallback' = InCallback /\ data_ready' = data_ready
        BY <2>3 DEF InCallback
      <4>3. Outstanding' = Len(rx'.avail) + Len(rx'.used) + data_ready' + InCallback'
        BY DEF Outstanding
      <4> QED BY <3>3, <4>1, <4>2, <4>3, Zenon DEF Outstanding
    <3>5. \A i, j \in Nat : i > 0 => i + j > 0
      OBVIOUS
    <3>6. Len(rx.avail) + Len(rx.used) > 0
      BY <3>3, <3>5, OutstandingFacts, Zenon
    <3> QED BY <1>0, <2>3, <3>4, <3>6, PairOther
  <2> QED BY <2>1, <2>2, <2>3
<1>6. CASE NotSynced
  <2>1. rx'.avail = rx.avail /\ rx'.used = rx.used
    BY <1>0, <1>6, KickHeld DEF NotSynced
  <2> QED BY <1>6, <1>k, <2>1 DEF NotSynced
<1>7. CASE virtio_custdev_device_unrealize
  <2>1. rx'.avail = rx.avail /\ rx'.used = rx.used
    BY <1>0, <1>7 DEF virtio_custdev_device_unrealize, Queue
  <2> QED BY <1>7, <1>k, <2>1 DEF virtio_custdev_device_unrealize
<1>8. CASE VmStop \/ VmResume \/ UNCHANGED vars
  BY <1>8, <1>k DEF VmStop, VmResume, vars
<1>9. CASE Race
  <2>1. UNCHANGED <<pc, loc, buffers, data_ready, inbuf_cb, rx>> /\ NoFault'
    BY <1>9 DEF Race, NoFault
  <2>2. Outstanding' = Outstanding
    BY <2>1 DEF Outstanding, InCallback
  <2> HIDE DEF Outstanding
  <2> QED BY <2>1, <2>2 DEF PairInvariant, CountInRange
<1> QED BY <1>1, <1>2, <1>3, <1>4, <1>5, <1>6, <1>7, <1>8, <1>9 DEF Interrupt, Handler

LEMMA InitPair == Init => PairInvariant
<1> SUFFICES ASSUME Init PROVE PairInvariant
  OBVIOUS
<1>1. rx.avail = << >> /\ rx.used = << >> /\ data_ready = 0 /\ inbuf_cb.pc = "idle"
  BY DEF Init, EmptyQueue, QueueOf
<1>2. Len(rx.avail) = 0 /\ Len(rx.used) = 0 /\ InCallback = 0
  BY <1>1 DEF InCallback
<1>3. Outstanding = 0 /\ Len(rx.avail) + Len(rx.used) = 0
  BY <1>1, <1>2 DEF Outstanding
<1> HIDE DEF Outstanding
<1> QED BY <1>1, <1>3, SizeAssumption
        DEF Init, PairInvariant, CountInRange, NoFault, ReadPcs, WritePcs, Clients

\* With one reading and one writing process the unlocked count never leaves buf_lens:
\* it neither wraps below zero nor passes VIRTIO_CUSTDEV_BUFFERS.
THEOREM PairCountInRange ==
  ASSUME NEW r, NEW w, Readers = {r}, Writers = {w}
  PROVE  Spec => []CountInRange
<1>1. TypeOK /\ PairInvariant /\ [Next]_vars => PairInvariant'
  BY ReadPair, WritePair, OtherPair DEF Next
<1>2. PairInvariant => CountInRange
  BY DEF PairInvariant
<1> QED BY <1>1, <1>2, InitPair, TypeCorrect, PTL DEF Spec

\* And no index taken from it leaves buf_lens, but for the one element behind the array
\* that the second half of a read may touch.
THEOREM PairLensWithin ==
  ASSUME NEW r, NEW w, Readers = {r}, Writers = {w}
  PROVE  Spec => []LensWithin
<1>1. TypeOK /\ PairInvariant /\ [Next]_vars => PairInvariant'
  BY ReadPair, WritePair, OtherPair DEF Next
<1>2. TypeOK /\ PairInvariant => LensWithin
  <2> SUFFICES ASSUME TypeOK, PairInvariant, NEW c \in Clients
               PROVE  /\ pc[c] \in {"r_alloc", "r_add"} => Dec(buffers) \in Slots
                      /\ pc[c] = "w_len" => loc[c].idx \in Slots
                      /\ pc[c] = "r_fix" => loc[c].idx \in Slots \union {BUFFERS}
                      /\ pc[c] \in {"r_copy", "r_short", "r_free"} => buffers \in Slots \union {BUFFERS}
    BY DEF LensWithin, PairInvariant
  <2>1. BUFFERS \in Nat \ {0} /\ buffers \in 0 .. BUFFERS /\ loc[c].idx \in Nat
    BY SizeAssumption, LocalsFacts DEF PairInvariant, CountInRange, TypeOK
  <2>2. pc[c] \in {"r_alloc", "r_add"} => buffers >= 1
    BY DEF PairInvariant, ReadPcs
  <2>3. pc[c] = "w_len" => loc[c].idx < BUFFERS
    BY DEF PairInvariant, WritePcs
  <2>4. pc[c] = "r_fix" => loc[c].idx \in 0 .. BUFFERS
    BY DEF PairInvariant, ReadPcs
  <2> QED BY <2>1, <2>2, <2>3, <2>4 DEF Slots, Dec
<1> QED BY <1>1, <1>2, InitPair, TypeCorrect, PTL DEF Spec

------------------------------------------------------------------------------
(* One client on one vCPU *)

\* The queue q holds these buffers and notifications.
Holds(q, avail, used, kick, irq) ==
  q.avail = avail /\ q.used = used /\ q.kick = kick /\ q.irq = irq
Empty(q) == Holds(q, << >>, << >>, {}, 0)
Finished(q) == \E e \in Element : Holds(q, << >>, <<e>>, {}, 1)

\* The callback and the completion of the receive queue.
Receives(cb, ready) == inbuf_cb.pc = cb /\ data_ready = ready
Calm == Empty(tx) /\ Empty(rx) /\ Receives("idle", 0)

\* The buffer of the call holds the call's message.
MessageIn(c) == mem[loc[c].buf].msg = loc[c].msg /\ mem[loc[c].buf].n = loc[c].n
Posted(c, n) == [buf |-> loc[c].buf, len |-> n]
KickOf(c) == IF pc[c] \in {"w_trap", "r_trap"} THEN {c} ELSE {}

\* Nothing of the call has reached a queue.
Before(c) ==
  /\ pc[c] \in {"idle", "r_alloc", "r_add", "w_alloc", "w_load", "w_store"}
  /\ Calm /\ buffers = rcv_count
  /\ pc[c] \in {"r_alloc", "r_add"} => rcv_count >= 1
  /\ pc[c] = "r_add" => mem[loc[c].buf].size = buf_lens[rcv_count - 1]
  /\ pc[c] \in {"w_alloc", "w_load", "w_store"} => rcv_count < BUFFERS
  /\ pc[c] \in {"w_load", "w_store"} => MessageIn(c)
  /\ pc[c] = "w_store" => loc[c].idx = rcv_count

\* The driver has counted a message the device does not have yet, and posts it.
Sending(c) ==
  /\ pc[c] \in {"w_len", "w_add", "w_kick", "w_trap"}
  /\ rcv_count < BUFFERS /\ buffers = rcv_count + 1 /\ MessageIn(c)
  /\ IF pc[c] = "w_len" THEN loc[c].idx = rcv_count ELSE buf_lens[rcv_count] = loc[c].n
  /\ IF pc[c] \in {"w_len", "w_add"} THEN Empty(tx)
     ELSE Holds(tx, <<Posted(c, loc[c].n)>>, << >>, KickOf(c), 0)
  /\ pc[c] = "w_kick" => tx.added = 1
  /\ Empty(rx) /\ Receives("idle", 0)

\* The device has stored it.
Sent(c) ==
  /\ pc[c] = "w_trap" /\ buffers = rcv_count
  /\ Empty(tx) \/ Finished(tx)
  /\ Empty(rx) /\ Receives("idle", 0)

\* A buffer of the right length is posted for the youngest message.
Asking(c) ==
  /\ pc[c] \in {"r_kick", "r_trap"}
  /\ rcv_count >= 1 /\ buffers = rcv_count
  /\ mem[loc[c].buf].size = buf_lens[rcv_count - 1]
  /\ Holds(rx, <<Posted(c, buf_lens[rcv_count - 1])>>, << >>, KickOf(c), 0)
  /\ pc[c] = "r_kick" => rx.added = 1
  /\ Empty(tx) /\ Receives("idle", 0)

\* The device has delivered that message; the driver counts it out.
Answered(c) ==
  /\ pc[c] \in {"r_trap", "r_wait", "r_copy", "r_short", "r_fix", "r_free"}
  /\ rcv_count < BUFFERS /\ Empty(tx)
  /\ pc[c] \notin {"r_fix", "r_free"} => buf_lens[rcv_count] = mem[loc[c].buf].n
  /\ pc[c] = "r_fix" => loc[c].idx = rcv_count
  /\ \/ /\ pc[c] = "r_trap" /\ buffers = rcv_count + 1 /\ Receives("idle", 0)
        /\ \E e \in Element : e.buf = loc[c].buf /\ Holds(rx, << >>, <<e>>, {}, 1)
     \/ /\ pc[c] = "r_trap" /\ inbuf_cb.b = rcv_count + 1 /\ Receives("dec", 0)
        /\ read_data = loc[c].buf /\ Empty(rx)
     \/ /\ pc[c] \in {"r_trap", "r_wait"} /\ buffers = rcv_count /\ Receives("idle", 1)
        /\ read_data = loc[c].buf /\ Empty(rx)
     \/ /\ pc[c] \in {"r_copy", "r_short", "r_fix", "r_free"} /\ buffers = rcv_count /\ Receives("idle", 0)
        /\ read_data = loc[c].buf /\ Empty(rx)

Agree == \A i \in 0 .. rcv_count - 1 : buf_lens[i] = rcv_bufs[i].n

SerialInv(c) ==
  /\ kern = "ok" /\ dev \in {"up", "nullpop"} /\ rcv_count <= BUFFERS /\ Agree
  /\ running \/ (tx.kick = {} /\ rx.kick = {})
  /\ Before(c) \/ Sending(c) \/ Sent(c) \/ Asking(c) \/ Answered(c)

\* The instance: one client, one vCPU, kicks that trap and reach the device, no unplug.
Serial(c) ==
  Readers = {c} /\ Writers = {c} /\ ~ IoEventFd /\ PromptIrq /\ Notifies = {TRUE} /\ ~ MayUnplug

------------------------------------------------------------------------------
(* The queues of one client *)

LEMMA SerialAdd ==
  ASSUME NEW q, Empty(q), NEW e
  PROVE  /\ Holds(QueueAdd(q, e), <<e>>, << >>, {}, 0) /\ QueueAdd(q, e).added = 1
         /\ FreeDescs(q, RingSize) > 0
<1>1. Append(<< >>, e) = <<e>>
  OBVIOUS
<1> QED BY <1>1, SizeAssumption DEF Empty, Holds, QueueAdd, QueueOf, FreeDescs

LEMMA SerialKick ==
  ASSUME TypeOK, NEW c, Serial(c), NEW q, NEW e, Holds(q, <<e>>, << >>, {}, 0), q.added = 1,
         NEW r \in Notified(c, q)
  PROVE  Holds(r, <<e>>, << >>, {c}, 0)
<1>1. Len(q.avail) = 1
  BY DEF Holds
<1>2. Heard(q) = {TRUE}
  BY <1>1 DEF Heard
<1>3. r = QueueOf(q.avail, q.used, q.kick \union {c}, q.irq, 0)
  BY <1>2 DEF Notified, custdev_notify, Serial, TypeOK, DevTypeOK
<1> QED BY <1>3 DEF QueueOf, Holds

LEMMA SerialServe ==
  ASSUME NEW c, Serial(c), NEW q \in Queue, NEW e, Holds(q, <<e>>, << >>, {c}, 0), NEW p \in Taken(q)
  PROVE  /\ p.avail # << >> /\ Head(p.avail) = e
         /\ \A r \in PopPush(p) : Holds(r, << >>, <<e>>, {}, 1)
<1>1. PICK d \in q.kick : p = [q EXCEPT !.kick = @ \ {d}]
  BY DEF Taken, Serial
<1>2. p.avail = <<e>> /\ p.used = << >> /\ p.kick = {}
  BY <1>1 DEF Holds, Queue
<1>3. Tail(<<e>>) = << >> /\ Head(<<e>>) = e /\ Append(<< >>, e) = <<e>> /\ <<e>> # << >>
  OBVIOUS
<1>4. ASSUME NEW r \in PopPush(p) PROVE Holds(r, << >>, <<e>>, {}, 1)
  <2>1. r = QueueOf(Tail(p.avail), Append(p.used, Head(p.avail)), p.kick, 1, p.added)
    BY <1>2 DEF PopPush
  <2> QED BY <1>2, <1>3, <2>1 DEF QueueOf, Holds
<1> QED BY <1>2, <1>3, <1>4

LEMMA SerialTake ==
  ASSUME NEW q, NEW e, Holds(q, << >>, <<e>>, {}, 1)
  PROVE  Empty(GetBuf(q)) /\ Head(q.used) = e
<1>1. Tail(<<e>>) = << >> /\ Head(<<e>>) = e
  OBVIOUS
<1> QED BY <1>1 DEF Empty, Holds, GetBuf, QueueOf

------------------------------------------------------------------------------
(* The refinement mapping *)

calls == [d \in Clients |-> CallOf(d)]
CallIs(op, msg, n) == [op |-> op, msg |-> msg, n |-> n]

\* What call the mapping shows for each place.
CallPlace(c) ==
  /\ pc[c] = "idle" => CallOf(c) = CallIs("idle", NoMsg, 0)
  /\ pc[c] \in WritePcs \ {"w_trap"} => CallOf(c) = CallIs("write", loc[c].msg, loc[c].n)
  /\ pc[c] = "w_trap" /\ c \in tx.kick => CallOf(c) = CallIs("write", loc[c].msg, loc[c].n)
  /\ pc[c] = "w_trap" /\ c \notin tx.kick => CallOf(c) = CallIs("written", loc[c].msg, loc[c].n)
  /\ pc[c] \in {"r_alloc", "r_add", "r_kick"} => CallOf(c) = CallIs("read", NoMsg, 0)
  /\ pc[c] = "r_trap" /\ c \in rx.kick => CallOf(c) = CallIs("read", NoMsg, 0)
  /\ pc[c] = "r_short" => CallOf(c) = CallIs("got", loc[c].msg, Minus(buf_lens[buffers], loc[c].n))
  /\ pc[c] = "r_fix" => CallOf(c) = CallIs("got", loc[c].msg, loc[c].n)
  /\ pc[c] = "r_free" => CallOf(c) = CallIs("got", loc[c].msg, buf_lens[buffers])
  /\ pc[c] \in {"r_wait", "r_copy"} \/ (pc[c] = "r_trap" /\ c \notin rx.kick) =>
       CallOf(c) = CallIs("got", mem[loc[c].buf].msg, mem[loc[c].buf].n)

LEMMA CallPlaces == ASSUME NEW c PROVE CallPlace(c)
<1>1. pc[c] = "idle" => CallPlace(c)
  BY DEF CallOf, CallIs, WritePcs, CallPlace
<1>2. pc[c] \in WritePcs => CallPlace(c)
  BY DEF CallOf, CallIs, WritePcs, CallPlace
<1>3. pc[c] \in ReadPcs => CallPlace(c)
  BY DEF CallOf, CallIs, WritePcs, ReadPcs, CallPlace
<1>4. pc[c] \notin {"idle"} \union WritePcs \union ReadPcs => CallPlace(c)
  BY DEF WritePcs, ReadPcs, CallPlace
<1> QED BY <1>1, <1>2, <1>3, <1>4

LEMMA CallPlacesNext == ASSUME NEW c PROVE CallPlace(c)'
BY CallPlaces, PTL

\* The stack as a sequence.
LEMMA StackSeq ==
  ASSUME TypeOK, rcv_count <= BUFFERS
  PROVE  /\ StackOf \in Seq(Payload \union {Freed}) /\ Len(StackOf) = rcv_count
         /\ StackOf = << >> <=> rcv_count = 0
         /\ \A i \in 1 .. rcv_count : StackOf[i] = rcv_bufs[i - 1]
<1>1. /\ rcv_bufs \in [0 .. BUFFERS - 1 -> Payload \union {Freed}] /\ rcv_count \in Nat /\ BUFFERS \in Nat
  BY SizeAssumption DEF TypeOK, DevTypeOK
<1> DEFINE S == Payload \union {Freed}
<1> HIDE DEF S
<1>2. \A i \in 1 .. rcv_count : rcv_bufs[i - 1] \in S
  BY <1>1 DEF S
<1>3. StackOf \in Seq(S) /\ Len(StackOf) = rcv_count
  BY <1>1, <1>2 DEF StackOf
<1>4. \A i \in 1 .. rcv_count : StackOf[i] = rcv_bufs[i - 1]
  BY DEF StackOf
<1>5. StackOf = << >> <=> rcv_count = 0
  BY <1>1, <1>3
<1> QED BY <1>3, <1>4, <1>5 DEF S

LEMMA StackPush ==
  ASSUME TypeOK, rcv_count < BUFFERS, NEW d \in Payload,
         rcv_bufs' = [rcv_bufs EXCEPT ![rcv_count] = d], rcv_count' = rcv_count + 1
  PROVE  StackOf' = Append(StackOf, d)
<1>1. /\ rcv_bufs \in [0 .. BUFFERS - 1 -> Payload \union {Freed}] /\ rcv_count \in Nat /\ BUFFERS \in Nat
      /\ rcv_count <= BUFFERS
  BY SizeAssumption DEF TypeOK, DevTypeOK
<1>2. StackOf \in Seq(Payload \union {Freed}) /\ Len(StackOf) = rcv_count
  BY <1>1, StackSeq
<1> DEFINE s == StackOf
           a == Append(s, d)
           t == [i \in 1 .. rcv_count + 1 |-> rcv_bufs'[i - 1]]
<1>3. StackOf' = t
  BY DEF StackOf
<1>4. \A i \in 1 .. rcv_count : rcv_bufs'[i - 1] = StackOf[i]
  BY <1>1, StackSeq
<1>5. rcv_bufs'[rcv_count] = d
  BY <1>1
<1> HIDE DEF s
<1>6. DOMAIN a = 1 .. rcv_count + 1 /\ a[rcv_count + 1] = d /\ \A i \in 1 .. rcv_count : a[i] = s[i]
  BY <1>1, <1>2 DEF s
<1>7. \A i \in 1 .. rcv_count + 1 : a[i] = t[i]
  BY <1>1, <1>4, <1>5, <1>6 DEF s
<1>8. a = [i \in DOMAIN a |-> a[i]]
  BY <1>1, <1>2 DEF s
<1> HIDE DEF a
<1>9. a = t
  BY <1>6, <1>7, <1>8
<1> QED BY <1>3, <1>9 DEF a, s

LEMMA StackPop ==
  ASSUME TypeOK, rcv_count <= BUFFERS, rcv_count >= 1, NEW x,
         rcv_bufs' = [rcv_bufs EXCEPT ![rcv_count - 1] = x], rcv_count' = rcv_count - 1
  PROVE  /\ StackOf' = SubSeq(StackOf, 1, Len(StackOf) - 1)
         /\ StackOf[Len(StackOf)] = rcv_bufs[rcv_count - 1]
<1>1. /\ rcv_bufs \in [0 .. BUFFERS - 1 -> Payload \union {Freed}] /\ rcv_count \in Nat /\ BUFFERS \in Nat
  BY SizeAssumption DEF TypeOK, DevTypeOK
<1>2. StackOf \in Seq(Payload \union {Freed}) /\ Len(StackOf) = rcv_count
  BY <1>1, StackSeq
<1>3. StackOf' = [i \in 1 .. rcv_count - 1 |-> rcv_bufs'[i - 1]]
  BY DEF StackOf
<1>4. \A i \in 1 .. rcv_count - 1 : rcv_bufs'[i - 1] = StackOf[i]
  BY <1>1, StackSeq
<1>5. SubSeq(StackOf, 1, rcv_count - 1) = [i \in 1 .. rcv_count - 1 |-> StackOf[i]]
  <2> DEFINE s == StackOf
  <2> HIDE DEF s
  <2>1. SubSeq(s, 1, rcv_count - 1) = [i \in 1 .. rcv_count - 1 |-> s[i]]
    BY <1>1, <1>2 DEF s
  <2> QED BY <2>1 DEF s
<1>6. StackOf' = SubSeq(StackOf, 1, rcv_count - 1)
  BY <1>3, <1>4, <1>5
<1>7. StackOf[rcv_count] = rcv_bufs[rcv_count - 1]
  BY <1>1, StackSeq
<1> QED BY <1>2, <1>6, <1>7

\* The one client's call, as the whole function.
LEMMA CallsOf ==
  ASSUME NEW c, Clients = {c}
  PROVE  /\ calls[c] = CallOf(c) /\ c \in Clients
         /\ \A k : CallOf(c)' = k => calls' = [calls EXCEPT ![c] = k]
         /\ CallOf(c)' = CallOf(c) => calls' = calls
BY DEF calls

LEMMA CallFields ==
  ASSUME NEW k, NEW op, NEW m, NEW n, k = CallIs(op, m, n)
  PROVE  /\ \A x : CallIs(x, m, n) = [k EXCEPT !.op = x]
         /\ \A x : CallIs(op, m, x) = [k EXCEPT !.n = x]
         /\ k.op = op /\ k.msg = m /\ k.n = n
BY DEF CallIs

StackStep == [Stack!Next]_<<StackOf, calls, ret>>

LEMMA Unseen ==
  ASSUME NEW c, Clients = {c}, UNCHANGED <<rcv_bufs, rcv_count, ret>>, CallOf(c)' = CallOf(c)
  PROVE  StackStep
<1>1. StackOf' = StackOf
  BY DEF StackOf
<1>2. calls' = calls
  BY CallsOf
<1> QED BY <1>1, <1>2 DEF StackStep

LEMMA SeenReadEmpty ==
  ASSUME NEW c, Clients = {c}, c \in Readers, CallOf(c) = CallIs("idle", NoMsg, 0),
         StackOf = << >>, StackOf' = StackOf, CallOf(c)' = CallOf(c),
         ret' = [ret EXCEPT ![c] = [call |-> "read", n |-> 0, msg |-> NoMsg]]
  PROVE  StackStep
<1>1. calls' = calls /\ calls[c] = CallIs("idle", NoMsg, 0) /\ c \in Clients
  BY CallsOf
<1>2. Stack!ReadEmpty(c)
  BY <1>1 DEF Stack!ReadEmpty, Stack!Result, Stack!Idle, CallIs, calls
<1> QED BY <1>1, <1>2 DEF StackStep, Stack!Next, Stack!Clients, Clients

LEMMA SeenWriteFull ==
  ASSUME NEW c, Clients = {c}, c \in Writers, CallOf(c) = CallIs("idle", NoMsg, 0),
         Len(StackOf) = BUFFERS, StackOf' = StackOf, CallOf(c)' = CallOf(c),
         ret' = [ret EXCEPT ![c] = [call |-> "write", n |-> ENOSPC, msg |-> NoMsg]]
  PROVE  StackStep
<1>1. calls' = calls /\ calls[c] = CallIs("idle", NoMsg, 0) /\ c \in Clients
  BY CallsOf
<1>2. Stack!WriteFull(c)
  BY <1>1 DEF Stack!WriteFull, Stack!Result, Stack!Idle, Stack!Full, ENOSPC, CallIs, calls
<1> QED BY <1>1, <1>2 DEF StackStep, Stack!Next, Stack!Clients, Clients

LEMMA SeenReadCall ==
  ASSUME NEW c, Clients = {c}, c \in Readers, CallOf(c) = CallIs("idle", NoMsg, 0),
         StackOf # << >>, StackOf' = StackOf, CallOf(c)' = CallIs("read", NoMsg, 0), ret' = ret
  PROVE  StackStep
<1>1. /\ calls[c] = CallIs("idle", NoMsg, 0) /\ c \in Clients
      /\ calls' = [calls EXCEPT ![c] = CallIs("read", NoMsg, 0)]
  BY CallsOf
<1>b. CallIs("read", NoMsg, 0) = [calls[c] EXCEPT !.op = "read"]
  BY <1>1, CallFields
<1>2. calls' = [calls EXCEPT ![c].op = "read"]
  BY <1>1, <1>b, Zenon
<1>3. Stack!ReadCall(c)
  BY <1>1, <1>2 DEF Stack!ReadCall, Stack!Idle, CallIs, calls
<1> QED BY <1>1, <1>3 DEF StackStep, Stack!Next, Stack!Clients, Clients

LEMMA SeenWriteCall ==
  ASSUME NEW c, Clients = {c}, c \in Writers, CallOf(c) = CallIs("idle", NoMsg, 0),
         Len(StackOf) < BUFFERS, NEW m \in Msgs, NEW n \in Lens,
         StackOf' = StackOf, CallOf(c)' = CallIs("write", m, n), ret' = ret
  PROVE  StackStep
<1>1. /\ calls[c] = CallIs("idle", NoMsg, 0) /\ c \in Clients
      /\ calls' = [calls EXCEPT ![c] = CallIs("write", m, n)]
  BY CallsOf
<1>2. Stack!WriteCall(c)
  BY <1>1 DEF Stack!WriteCall, Stack!Idle, CallIs, calls
<1> QED BY <1>1, <1>2 DEF StackStep, Stack!Next, Stack!Clients, Clients

LEMMA SeenNoMemory ==
  ASSUME NEW c, Clients = {c}, NEW op \in {"read", "write"}, NEW m, NEW n,
         CallOf(c) = CallIs(op, m, n), StackOf' = StackOf, CallOf(c)' = CallIs("idle", NoMsg, 0),
         ret' = [ret EXCEPT ![c] = [call |-> op, n |-> Stack!NoMemoryOf[op], msg |-> NoMsg]]
  PROVE  StackStep
<1>1. /\ calls[c] = CallIs(op, m, n) /\ c \in Clients
      /\ calls' = [calls EXCEPT ![c] = CallIs("idle", NoMsg, 0)]
  BY CallsOf
<1>2. calls[c].op = op
  BY <1>1 DEF CallIs
<1>3. Stack!NoMemory(c)
  BY <1>1, <1>2 DEF Stack!NoMemory, Stack!Result, Stack!Idle, CallIs, calls
<1> QED BY <1>1, <1>3 DEF StackStep, Stack!Next, Stack!Clients, Clients

LEMMA SeenShorten ==
  ASSUME NEW c, Clients = {c}, NEW op \in {"got", "write"}, NEW m, NEW n, NEW k \in 0 .. n,
         CallOf(c) = CallIs(op, m, n), StackOf' = StackOf, CallOf(c)' = CallIs(op, m, k), ret' = ret
  PROVE  StackStep
<1>1. /\ calls[c] = CallIs(op, m, n) /\ c \in Clients
      /\ calls' = [calls EXCEPT ![c] = CallIs(op, m, k)]
  BY CallsOf
<1>a. calls[c].op = op /\ calls[c].n = n
  BY <1>1, CallFields
<1>b. CallIs(op, m, k) = [calls[c] EXCEPT !.n = k]
  BY <1>1, CallFields
<1>2. calls' = [calls EXCEPT ![c].n = k]
  BY <1>1, <1>b, Zenon
<1>3. Stack!Shorten(c)
  BY <1>1, <1>a, <1>2 DEF Stack!Shorten, calls
<1> QED BY <1>1, <1>3 DEF StackStep, Stack!Next, Stack!Clients, Clients

LEMMA SeenPush ==
  ASSUME NEW c, Clients = {c}, NEW m, NEW n, CallOf(c) = CallIs("write", m, n), Len(StackOf) < BUFFERS,
         StackOf' = Append(StackOf, [msg |-> m, n |-> n]), CallOf(c)' = CallIs("written", m, n), ret' = ret
  PROVE  StackStep
<1>1. /\ calls[c] = CallIs("write", m, n) /\ c \in Clients
      /\ calls' = [calls EXCEPT ![c] = CallIs("written", m, n)]
  BY CallsOf
<1>a. calls[c].op = "write" /\ calls[c].msg = m /\ calls[c].n = n
  BY <1>1, CallFields
<1>b. CallIs("written", m, n) = [calls[c] EXCEPT !.op = "written"]
  BY <1>1, CallFields
<1>2. calls' = [calls EXCEPT ![c].op = "written"]
  BY <1>1, <1>b, Zenon
<1>3. Stack!Push(c)
  BY <1>1, <1>a, <1>2 DEF Stack!Push, calls
<1> QED BY <1>1, <1>3 DEF StackStep, Stack!Next, Stack!Clients, Clients

LEMMA SeenPop ==
  ASSUME NEW c, Clients = {c}, NEW m, NEW n, CallOf(c) = CallIs("read", m, n), StackOf # << >>,
         StackOf' = SubSeq(StackOf, 1, Len(StackOf) - 1), ret' = ret,
         CallOf(c)' = CallIs("got", StackOf[Len(StackOf)].msg, StackOf[Len(StackOf)].n)
  PROVE  StackStep
<1>1. /\ calls[c] = CallIs("read", m, n) /\ c \in Clients
      /\ calls' = [calls EXCEPT ![c] = CallIs("got", StackOf[Len(StackOf)].msg, StackOf[Len(StackOf)].n)]
  BY CallsOf
<1>2. calls[c].op = "read"
  BY <1>1 DEF CallIs
<1>3. Stack!Pop(c)
  BY <1>1, <1>2 DEF Stack!Pop, CallIs, calls
<1> QED BY <1>1, <1>3 DEF StackStep, Stack!Next, Stack!Clients, Clients

LEMMA SeenReturn ==
  ASSUME NEW c, Clients = {c}, NEW op \in {"got", "written"}, NEW m, NEW n,
         CallOf(c) = CallIs(op, m, n), StackOf' = StackOf, CallOf(c)' = CallIs("idle", NoMsg, 0),
         ret' = [ret EXCEPT ![c] = [call |-> IF op = "got" THEN "read" ELSE "write", n |-> n, msg |-> m]]
  PROVE  StackStep
<1>1. /\ calls[c] = CallIs(op, m, n) /\ c \in Clients
      /\ calls' = [calls EXCEPT ![c] = CallIs("idle", NoMsg, 0)]
  BY CallsOf
<1>2. calls[c].op = op /\ calls[c].msg = m /\ calls[c].n = n
  BY <1>1 DEF CallIs
<1>3. Stack!Return(c)
  BY <1>1, <1>2 DEF Stack!Return, Stack!Result, Stack!Idle, CallIs, calls
<1> QED BY <1>1, <1>3 DEF StackStep, Stack!Next, Stack!Clients, Clients

------------------------------------------------------------------------------
(* Each step keeps the invariant and is a step of the stack *)

\* What the provers need to know of the types.
LEMMA SerialTypes ==
  ASSUME TypeOK, NEW c, Serial(c)
  PROVE  /\ Clients = {c} /\ c \in Clients /\ c \in Readers /\ c \in Writers
         /\ BUFFERS \in Nat \ {0} /\ UMAX \in Nat /\ UMAX > BUFFERS
         /\ rcv_count \in Nat /\ buffers \in Nat /\ data_ready \in Nat
         /\ buf_lens \in [0 .. BUFFERS -> Counts] /\ Counts \subseteq Nat
         /\ mem \in [Bufs -> Contents] /\ tx \in Queue /\ rx \in Queue
         /\ rcv_bufs \in [0 .. BUFFERS - 1 -> Payload \union {Freed}]
         /\ pc[c] \in WithBuf => loc[c].buf \in Bufs
         /\ loc[c].n \in Counts /\ loc[c].msg \in Msgs \union {NoMsg}
         /\ \A label : Goto(c, label) => pc'[c] = label
         /\ \A msg, n, b, i : SetLocals(c, msg, n, b, i) => loc'[c] = LocalsOf(msg, n, b, i)
<1>1. Clients = {c} /\ c \in Clients /\ c \in Readers /\ c \in Writers
  BY DEF Clients, Serial
<1>2. /\ loc[c].n \in Counts /\ loc[c].msg \in Msgs \union {NoMsg}
  BY <1>1, LocalsFacts DEF TypeOK
<1>3. \A label : Goto(c, label) => pc'[c] = label
  BY <1>1 DEF Goto, TypeOK, CallTypeOK
<1>4. \A msg, n, b, i : SetLocals(c, msg, n, b, i) => loc'[c] = LocalsOf(msg, n, b, i)
  BY <1>1 DEF SetLocals, TypeOK, CallTypeOK
<1>5. rcv_count \in Nat /\ buffers \in Nat
  BY SizeAssumption DEF TypeOK, DrvTypeOK, DevTypeOK
<1> QED BY <1>1, <1>2, <1>3, <1>4, <1>5, SizeAssumption, CountsFacts
        DEF TypeOK, DrvTypeOK, DevTypeOK, CallTypeOK

\* Which phase the client's place tells.
LEMMA PhaseAt ==
  ASSUME NEW c, SerialInv(c)
  PROVE  /\ pc[c] \in {"idle", "r_alloc", "r_add", "w_alloc", "w_load", "w_store"} => Before(c)
         /\ pc[c] \in {"w_len", "w_add", "w_kick"} => Sending(c)
         /\ pc[c] = "r_kick" => Asking(c)
         /\ pc[c] \in {"r_wait", "r_copy", "r_short", "r_fix", "r_free"} => Answered(c)
         /\ pc[c] = "w_trap" => Sending(c) \/ Sent(c)
         /\ pc[c] = "r_trap" => Asking(c) \/ Answered(c)
BY DEF SerialInv, Before, Sending, Sent, Asking, Answered

\* The call returns, and the next one finds everything at rest.
LEMMA AtRest ==
  ASSUME NEW c, SerialInv(c), pc'[c] = "idle", Calm, buffers = rcv_count,
         UNCHANGED <<buffers, buf_lens, kern, inbuf_cb, data_ready, tx, rx, rcv_bufs, rcv_count, dev, running>>
  PROVE  SerialInv(c)'
<1>1. Before(c)'
  BY DEF Before, Calm, Empty, Holds, Receives
<1> QED BY <1>1 DEF SerialInv, Agree

LEMMA ReadSerial ==
  ASSUME TypeOK, NEW c, Serial(c), SerialInv(c), virtio_custdev_read(c) \/ ReadStep(c)
  PROVE  SerialInv(c)' /\ StackStep
<1> USE SerialTypes, PhaseAt DEF drvVars, heapVars, callVars, devVars
<1>n. rcv_count <= BUFFERS /\ Agree /\ kern = "ok" /\ dev \in {"up", "nullpop"}
  BY DEF SerialInv
<1>r. \A call, n, msg : Return(c, call, n, msg) =>
        pc'[c] = "idle" /\ ret' = [ret EXCEPT ![c] = [call |-> call, n |-> n, msg |-> msg]]
  BY DEF Return
<1>a. Runs(c)
  BY DEF virtio_custdev_read, ReadStep, ReadAlloc, ReadAdd, ReadKick, ReadResume, ReadWait, ReadCopy,
     ReadShort, ReadFix, ReadFree, At
<1>b. running /\ tx.irq = 0 /\ rx.irq = 0 /\ inbuf_cb.pc = "idle"
  BY <1>a DEF Runs, Alive, Serial
<1>c. CallPlace(c) /\ CallPlace(c)'
  BY CallPlaces, CallPlacesNext
<1>1. CASE virtio_custdev_read(c)
  <2>1. /\ pc[c] = "idle" /\ Before(c)
        /\ UNCHANGED <<drvVars, heapVars, inbuf_cb, tx, rx, devVars, anomaly>>
    BY <1>1 DEF virtio_custdev_read, At
  <2>2. Calm /\ buffers = rcv_count
    BY <2>1 DEF Before
  <2>3. StackOf' = StackOf
    BY <2>1 DEF StackOf
  <2>4. CASE buffers < 1 /\ Return(c, "read", 0, NoMsg)
    <3>1. SerialInv(c)'
      BY <1>r, <2>1, <2>2, <2>4, AtRest
    <3>2. StackOf = << >>
      BY <1>n, <2>2, <2>4, StackSeq
    <3>3. CallOf(c) = CallIs("idle", NoMsg, 0) /\ CallOf(c)' = CallIs("idle", NoMsg, 0)
      BY <1>c, <1>r, <2>1, <2>4 DEF CallPlace
    <3> QED BY <1>r, <2>3, <2>4, <3>1, <3>2, <3>3, SeenReadEmpty
  <2>5. CASE buffers >= 1 /\ Goto(c, "r_alloc") /\ UNCHANGED <<loc, ret>>
    <3>1. pc'[c] = "r_alloc"
      BY <2>5
    <3>2. Before(c)'
      BY <2>1, <2>2, <2>5, <3>1 DEF Before, Calm, Empty, Holds, Receives
    <3>3. SerialInv(c)'
      BY <2>1, <3>2 DEF SerialInv, Agree
    <3>4. StackOf # << >>
      BY <1>n, <2>2, <2>5, StackSeq
    <3>5. CallOf(c) = CallIs("idle", NoMsg, 0) /\ CallOf(c)' = CallIs("read", NoMsg, 0)
      BY <1>c, <2>1, <3>1 DEF CallPlace
    <3> QED BY <2>3, <2>5, <3>3, <3>4, <3>5, SeenReadCall
  <2> QED BY <1>1, <2>4, <2>5 DEF virtio_custdev_read
<1>2. CASE ReadAlloc(c)
  <2>1. pc[c] = "r_alloc" /\ Before(c)
    BY <1>2 DEF ReadAlloc, At
  <2>2. Calm /\ buffers = rcv_count /\ rcv_count >= 1 /\ Dec(buffers) = rcv_count - 1
    BY <2>1 DEF Before, Dec
  <2>3. Dec(buffers) \in Cells
    BY <1>n, <2>2 DEF Cells, Slots
  <2>4. CallOf(c) = CallIs("read", NoMsg, 0)
    BY <1>c, <2>1 DEF CallPlace
  <2>5. CASE /\ Return(c, "read", - ENOMEM, NoMsg)
             /\ UNCHANGED <<drvVars, heapVars, inbuf_cb, tx, rx, devVars, anomaly>>
    <3>1. SerialInv(c)'
      BY <1>r, <2>2, <2>5, AtRest
    <3>2. CallOf(c)' = CallIs("idle", NoMsg, 0)
      BY <1>c, <1>r, <2>5 DEF CallPlace
    <3>3. StackOf' = StackOf
      BY <2>5 DEF StackOf
    <3>4. ret' = [ret EXCEPT ![c] = [call |-> "read", n |-> Stack!NoMemoryOf["read"], msg |-> NoMsg]]
      BY <1>r, <2>5 DEF ENOMEM, Stack!NoMemoryOf
    <3> QED BY <2>4, <3>1, <3>2, <3>3, <3>4, SeenNoMemory
  <2>6. ASSUME NEW b \in Bufs, Alloc(b, buf_lens[Dec(buffers)], NoMsg, 0), SetLocals(c, NoMsg, 0, b, 0),
               Goto(c, "r_add"), UNCHANGED <<ret, drvVars, inbuf_cb, tx, rx, devVars, anomaly>>
        PROVE  SerialInv(c)' /\ StackStep
    <3>a. pc'[c] = "r_add" /\ loc'[c] = LocalsOf(NoMsg, 0, b, 0)
      BY <2>6
    <3>1. pc'[c] = "r_add" /\ loc'[c].buf = b
      BY <3>a DEF LocalsOf
    <3>2. mem'[b].size = buf_lens[rcv_count - 1]
      BY <2>2, <2>6 DEF Alloc
    <3>3. Before(c)'
      BY <2>2, <2>6, <3>1, <3>2 DEF Before, Calm, Empty, Holds, Receives
    <3>4. SerialInv(c)'
      BY <1>b, <2>6, <3>3 DEF SerialInv, Agree
    <3>5. CallOf(c)' = CallIs("read", NoMsg, 0)
      BY <1>c, <3>1 DEF CallPlace
    <3> QED BY <2>4, <2>6, <3>4, <3>5, Unseen
  <2> QED BY <1>2, <2>3, <2>5, <2>6 DEF ReadAlloc
<1>3. CASE ReadAdd(c)
  <2>1. pc[c] = "r_add" /\ Before(c)
    BY <1>3 DEF ReadAdd, At
  <2>2. /\ Calm /\ buffers = rcv_count /\ rcv_count >= 1 /\ Dec(buffers) = rcv_count - 1
        /\ mem[loc[c].buf].size = buf_lens[rcv_count - 1]
    BY <2>1 DEF Before, Dec
  <2>3. Dec(buffers) \in Cells
    BY <1>n, <2>2 DEF Cells, Slots
  <2> DEFINE e == Posted(c, buf_lens[rcv_count - 1])
  <2>4. Holds(QueueAdd(rx, e), <<e>>, << >>, {}, 0) /\ QueueAdd(rx, e).added = 1 /\ FreeDescs(rx, RingSize) > 0
    BY <2>2, SerialAdd DEF Calm
  <2>5. FreeDescs(rx, RingSize) \in Int
    BY SizeAssumption DEF FreeDescs, Queue
  <2>6. /\ Goto(c, "r_kick") /\ rx' = QueueAdd(rx, e)
        /\ UNCHANGED <<loc, ret, drvVars, heapVars, inbuf_cb, tx, devVars>>
    BY <1>3, <2>2, <2>3, <2>4, <2>5 DEF ReadAdd, Posted
  <2>7. pc'[c] = "r_kick" /\ KickOf(c)' = {} /\ Posted(c, buf_lens[rcv_count - 1])' = e
    BY <2>6 DEF KickOf, Posted
  <2>8. Holds(rx', <<e>>, << >>, {}, 0) /\ rx'.added = 1
    BY <2>4, <2>6
  <2> HIDE DEF e
  <2>9. Asking(c)'
    BY <2>2, <2>6, <2>7, <2>8 DEF Asking, Calm, Empty, Holds, Receives
  <2>10. SerialInv(c)'
    BY <1>b, <2>6, <2>9 DEF SerialInv, Agree
  <2>11. CallOf(c) = CallIs("read", NoMsg, 0) /\ CallOf(c)' = CallIs("read", NoMsg, 0)
    BY <1>c, <2>1, <2>7 DEF CallPlace
  <2> QED BY <2>6, <2>10, <2>11, Unseen
<1>4. CASE ReadKick(c)
  <2> DEFINE e == Posted(c, buf_lens[rcv_count - 1])
  <2>1. pc[c] = "r_kick" /\ Asking(c)
    BY <1>4 DEF ReadKick, At
  <2>2. Holds(rx, <<e>>, << >>, {}, 0) /\ rx.added = 1
    BY <2>1 DEF Asking, KickOf
  <2>3. /\ Goto(c, "r_trap") /\ rx' \in Notified(c, rx)
        /\ UNCHANGED <<loc, ret, drvVars, heapVars, inbuf_cb, tx, devVars>>
    BY <1>4 DEF ReadKick, Serial
  <2>4. pc'[c] = "r_trap" /\ KickOf(c)' = {c} /\ Posted(c, buf_lens[rcv_count - 1])' = e
    BY <2>3 DEF KickOf, Posted
  <2> HIDE DEF e
  <2>5. Holds(rx', <<e>>, << >>, {c}, 0)
    BY <2>2, <2>3, SerialKick
  <2>6. Asking(c)'
    BY <2>1, <2>3, <2>4, <2>5 DEF Asking, Empty, Holds, Receives
  <2>7. SerialInv(c)'
    BY <1>b, <2>3, <2>6 DEF SerialInv, Agree
  <2>8. CallOf(c) = CallIs("read", NoMsg, 0) /\ CallOf(c)' = CallIs("read", NoMsg, 0)
    BY <1>c, <2>1, <2>4, <2>5 DEF CallPlace, Holds
  <2> QED BY <2>3, <2>7, <2>8, Unseen
<1>5. CASE ReadResume(c) \/ ReadWait(c)
  <2>1. /\ pc[c] \in {"r_trap", "r_wait"} /\ (pc[c] = "r_trap" => c \notin rx.kick)
        /\ (pc[c] = "r_trap" /\ Goto(c, "r_wait") /\ UNCHANGED data_ready)
             \/ (pc[c] = "r_wait" /\ Goto(c, "r_copy") /\ data_ready' = data_ready - 1)
        /\ UNCHANGED <<loc, ret, buffers, buf_lens, read_data, kern, heapVars, inbuf_cb, tx, rx, devVars>>
    BY <1>5 DEF ReadResume, ReadWait, At
  <2>2. ~ Asking(c)
    BY <2>1 DEF Asking, Holds, KickOf
  <2>3. Answered(c)
    BY <2>1, <2>2
  <2>4. /\ rcv_count < BUFFERS /\ Empty(tx) /\ buf_lens[rcv_count] = mem[loc[c].buf].n
        /\ buffers = rcv_count /\ Receives("idle", 1) /\ read_data = loc[c].buf /\ Empty(rx)
    BY <1>b, <2>1, <2>3 DEF Answered, Holds, Receives
  <2>5. (pc[c] = "r_trap" /\ pc'[c] = "r_wait" /\ data_ready' = 1)
        \/ (pc[c] = "r_wait" /\ pc'[c] = "r_copy" /\ data_ready' = 0)
    BY <2>1, <2>4 DEF Receives
  <2>6. Answered(c)'
    BY <2>1, <2>4, <2>5 DEF Answered, Empty, Holds, Receives
  <2>7. SerialInv(c)'
    BY <1>b, <2>1, <2>6 DEF SerialInv, Agree
  <2>8. CallOf(c) = CallIs("got", mem[loc[c].buf].msg, mem[loc[c].buf].n)
    BY <1>c, <2>1 DEF CallPlace
  <2>9. CallOf(c)' = CallIs("got", mem[loc[c].buf].msg, mem[loc[c].buf].n)
    BY <1>c, <2>1, <2>5 DEF CallPlace
  <2> QED BY <2>1, <2>7, <2>8, <2>9, Unseen
<1>6. CASE ReadCopy(c)
  <2>1. pc[c] = "r_copy" /\ Answered(c)
    BY <1>6 DEF ReadCopy, At
  <2>2. /\ rcv_count < BUFFERS /\ Empty(tx) /\ buf_lens[rcv_count] = mem[loc[c].buf].n
        /\ buffers = rcv_count /\ Receives("idle", 0) /\ read_data = loc[c].buf /\ Empty(rx)
    BY <2>1 DEF Answered
  <2>3. buffers \in Cells /\ loc[c].buf \in Bufs /\ mem[loc[c].buf].n \in Nat
    BY <2>1, <2>2, PcFacts DEF Cells, Slots, Contents
  <2>4. PICK res \in 0 .. mem[loc[c].buf].n :
          /\ SetLocals(c, mem[loc[c].buf].msg, res, loc[c].buf, 0)
          /\ Goto(c, IF res # 0 THEN "r_short" ELSE "r_free")
    BY <1>6, <2>2, <2>3 DEF ReadCopy
  <2>5. UNCHANGED <<ret, drvVars, heapVars, inbuf_cb, tx, rx, devVars>>
    BY <1>6, <2>3 DEF ReadCopy
  <2>a. /\ pc'[c] = IF res # 0 THEN "r_short" ELSE "r_free"
        /\ loc'[c] = LocalsOf(mem[loc[c].buf].msg, res, loc[c].buf, 0)
    BY <2>4
  <2>6. /\ pc'[c] \in {"r_short", "r_free"} /\ loc'[c].buf = loc[c].buf /\ loc'[c].n = res
        /\ loc'[c].msg = mem[loc[c].buf].msg
    BY <2>a DEF LocalsOf
  <2>8. Answered(c)'
    BY <2>2, <2>5, <2>6 DEF Answered, Empty, Holds, Receives
  <2>9. SerialInv(c)'
    BY <1>b, <1>n, <2>5, <2>8 DEF SerialInv, Agree
  <2>10. CallOf(c) = CallIs("got", mem[loc[c].buf].msg, mem[loc[c].buf].n)
    BY <1>c, <2>1 DEF CallPlace
  <2>11. StackOf' = StackOf
    BY <2>5 DEF StackOf
  <2>12. CASE res = 0
    <3>1. CallOf(c)' = CallIs("got", mem[loc[c].buf].msg, mem[loc[c].buf].n)
      BY <1>c, <2>2, <2>5, <2>6, <2>a, <2>12 DEF CallPlace
    <3> QED BY <2>5, <2>9, <2>10, <3>1, Unseen
  <2>13. CASE res # 0
    <3>1. Minus(mem[loc[c].buf].n, res) \in 0 .. mem[loc[c].buf].n
      BY <2>3 DEF Minus
    <3>2. CallOf(c)' = CallIs("got", mem[loc[c].buf].msg, Minus(mem[loc[c].buf].n, res))
      BY <1>c, <2>2, <2>5, <2>6, <2>a, <2>13 DEF CallPlace
    <3> QED BY <2>5, <2>9, <2>10, <2>11, <3>1, <3>2, SeenShorten
  <2> QED BY <2>12, <2>13
<1>7. CASE ReadShort(c)
  <2>1. pc[c] = "r_short" /\ Answered(c)
    BY <1>7 DEF ReadShort, At
  <2>2. /\ rcv_count < BUFFERS /\ Empty(tx) /\ buf_lens[rcv_count] = mem[loc[c].buf].n
        /\ buffers = rcv_count /\ Receives("idle", 0) /\ read_data = loc[c].buf /\ Empty(rx)
    BY <2>1 DEF Answered
  <2>3. buffers \in Cells
    BY <2>2 DEF Cells, Slots
  <2> DEFINE left == Minus(buf_lens[buffers], loc[c].n)
  <2>4. /\ SetLocals(c, loc[c].msg, left, loc[c].buf, buffers) /\ Goto(c, "r_fix")
        /\ UNCHANGED <<ret, drvVars, heapVars, inbuf_cb, tx, rx, devVars>>
    BY <1>7, <2>3 DEF ReadShort
  <2>a. pc'[c] = "r_fix" /\ loc'[c] = LocalsOf(loc[c].msg, left, loc[c].buf, buffers)
    BY <2>4
  <2> HIDE DEF left
  <2>5. /\ pc'[c] = "r_fix" /\ loc'[c].buf = loc[c].buf /\ loc'[c].n = left
        /\ loc'[c].msg = loc[c].msg /\ loc'[c].idx = rcv_count
    BY <2>2, <2>a DEF LocalsOf
  <2>6. Answered(c)'
    BY <2>2, <2>4, <2>5 DEF Answered, Empty, Holds, Receives
  <2>7. SerialInv(c)'
    BY <1>b, <1>n, <2>4, <2>6 DEF SerialInv, Agree
  <2>8. CallOf(c) = CallIs("got", loc[c].msg, left) /\ CallOf(c)' = CallIs("got", loc[c].msg, left)
    BY <1>c, <2>1, <2>5 DEF CallPlace, left
  <2> QED BY <2>4, <2>7, <2>8, Unseen
<1>8. CASE ReadFix(c)
  <2>1. pc[c] = "r_fix" /\ Answered(c)
    BY <1>8 DEF ReadFix, At
  <2>2. /\ rcv_count < BUFFERS /\ Empty(tx) /\ loc[c].idx = rcv_count
        /\ buffers = rcv_count /\ Receives("idle", 0) /\ read_data = loc[c].buf /\ Empty(rx)
    BY <2>1 DEF Answered
  <2>3. /\ buf_lens' = [buf_lens EXCEPT ![rcv_count] = loc[c].n] /\ Goto(c, "r_free")
        /\ UNCHANGED <<loc, ret, buffers, read_data, data_ready, kern, heapVars, inbuf_cb, tx, rx, devVars>>
    BY <1>8, <2>2 DEF ReadFix
  <2>4. pc'[c] = "r_free"
    BY <2>3
  <2>5. buf_lens'[buffers] = loc[c].n /\ \A i \in 0 .. rcv_count - 1 : buf_lens'[i] = buf_lens[i]
    BY <1>n, <2>2, <2>3
  <2>6. Answered(c)'
    BY <2>2, <2>3, <2>4 DEF Answered, Empty, Holds, Receives
  <2>7. SerialInv(c)'
    BY <1>b, <1>n, <2>3, <2>5, <2>6 DEF SerialInv, Agree
  <2>8. CallOf(c) = CallIs("got", loc[c].msg, loc[c].n) /\ CallOf(c)' = CallIs("got", loc[c].msg, loc[c].n)
    BY <1>c, <2>1, <2>3, <2>4, <2>5 DEF CallPlace
  <2> QED BY <2>3, <2>7, <2>8, Unseen
<1>9. CASE ReadFree(c)
  <2>1. pc[c] = "r_free" /\ Answered(c)
    BY <1>9 DEF ReadFree, At
  <2>2. /\ rcv_count < BUFFERS /\ Empty(tx)
        /\ buffers = rcv_count /\ Receives("idle", 0) /\ Empty(rx)
    BY <2>1 DEF Answered
  <2>3. buffers \in Cells
    BY <2>2 DEF Cells, Slots
  <2> DEFINE n == buf_lens[buffers]
  <2>4. /\ Return(c, "read", n, loc[c].msg)
        /\ UNCHANGED <<mem, drvVars, inbuf_cb, tx, rx, devVars>>
    BY <1>9, <2>3 DEF ReadFree
  <2>5. SerialInv(c)'
    BY <1>r, <2>2, <2>4, AtRest DEF Calm
  <2>6. CallOf(c) = CallIs("got", loc[c].msg, n) /\ CallOf(c)' = CallIs("idle", NoMsg, 0)
    BY <1>c, <1>r, <2>1, <2>4 DEF CallPlace
  <2>7. StackOf' = StackOf
    BY <2>4 DEF StackOf
  <2>8. ret' = [ret EXCEPT ![c] = [call |-> "read", n |-> n, msg |-> loc[c].msg]]
    BY <1>r, <2>4
  <2> HIDE DEF n
  <2> QED BY <2>5, <2>6, <2>7, <2>8, SeenReturn
<1> QED BY <1>1, <1>2, <1>3, <1>4, <1>5, <1>6, <1>7, <1>8, <1>9 DEF ReadStep

LEMMA WriteSerial ==
  ASSUME TypeOK, NEW c, Serial(c), SerialInv(c), virtio_custdev_write(c) \/ WriteStep(c)
  PROVE  SerialInv(c)' /\ StackStep
<1> USE SerialTypes, PhaseAt DEF drvVars, heapVars, callVars, devVars
<1>n. rcv_count <= BUFFERS /\ Agree /\ kern = "ok" /\ dev \in {"up", "nullpop"}
  BY DEF SerialInv
<1>r. \A call, n, msg : Return(c, call, n, msg) =>
        pc'[c] = "idle" /\ ret' = [ret EXCEPT ![c] = [call |-> call, n |-> n, msg |-> msg]]
  BY DEF Return
<1>a. Runs(c)
  BY DEF virtio_custdev_write, WriteStep, WriteAlloc, WriteLoad, WriteStore, WriteLen, WriteAdd, WriteKick,
     WriteResume, At
<1>b. running /\ tx.irq = 0 /\ rx.irq = 0 /\ inbuf_cb.pc = "idle"
  BY <1>a DEF Runs, Alive, Serial
<1>c. CallPlace(c) /\ CallPlace(c)'
  BY CallPlaces, CallPlacesNext
<1>1. CASE virtio_custdev_write(c)
  <2>1. /\ pc[c] = "idle" /\ Before(c)
        /\ UNCHANGED <<drvVars, heapVars, inbuf_cb, tx, rx, devVars, anomaly>>
    BY <1>1 DEF virtio_custdev_write, At
  <2>2. Calm /\ buffers = rcv_count
    BY <2>1 DEF Before
  <2>3. StackOf' = StackOf /\ Len(StackOf) = rcv_count
    BY <1>n, <2>1, StackSeq DEF StackOf
  <2>4. CallOf(c) = CallIs("idle", NoMsg, 0)
    BY <1>c, <2>1 DEF CallPlace
  <2>5. CASE buffers >= BUFFERS /\ Return(c, "write", ENOSPC, NoMsg)
    <3>1. SerialInv(c)'
      BY <1>r, <2>1, <2>2, <2>5, AtRest
    <3>2. Len(StackOf) = BUFFERS
      BY <1>n, <2>2, <2>3, <2>5
    <3>3. CallOf(c)' = CallIs("idle", NoMsg, 0)
      BY <1>c, <1>r, <2>5 DEF CallPlace
    <3> QED BY <1>r, <2>3, <2>4, <2>5, <3>1, <3>2, <3>3, SeenWriteFull
  <2>6. ASSUME buffers < BUFFERS, Goto(c, "w_alloc"), UNCHANGED ret,
               NEW m \in Msgs, NEW n \in Lens, SetLocals(c, m, n, NoBuf, 0)
        PROVE  SerialInv(c)' /\ StackStep
    <3>1. pc'[c] = "w_alloc" /\ loc'[c] = LocalsOf(m, n, NoBuf, 0)
      BY <2>6
    <3>2. Before(c)'
      BY <2>1, <2>2, <2>6, <3>1 DEF Before, Calm, Empty, Holds, Receives
    <3>3. SerialInv(c)'
      BY <2>1, <3>2 DEF SerialInv, Agree
    <3>4. loc'[c].msg = m /\ loc'[c].n = n
      BY <3>1 DEF LocalsOf
    <3>5. CallOf(c)' = CallIs("write", m, n)
      BY <1>c, <3>1, <3>4 DEF CallPlace, WritePcs
    <3> QED BY <2>2, <2>3, <2>4, <2>6, <3>3, <3>5, SeenWriteCall
  <2> QED BY <1>1, <2>5, <2>6 DEF virtio_custdev_write
<1>2. CASE WriteAlloc(c)
  <2>1. /\ pc[c] = "w_alloc" /\ Before(c)
        /\ UNCHANGED <<drvVars, inbuf_cb, tx, rx, devVars, anomaly>>
    BY <1>2 DEF WriteAlloc, At
  <2>2. Calm /\ buffers = rcv_count /\ rcv_count < BUFFERS
    BY <2>1 DEF Before
  <2>3. CallOf(c) = CallIs("write", loc[c].msg, loc[c].n)
    BY <1>c, <2>1 DEF CallPlace, WritePcs
  <2>4. StackOf' = StackOf
    BY <2>1 DEF StackOf
  <2>5. CASE Return(c, "write", 1, NoMsg) /\ UNCHANGED heapVars
    <3>1. SerialInv(c)'
      BY <1>r, <2>1, <2>2, <2>5, AtRest
    <3>2. CallOf(c)' = CallIs("idle", NoMsg, 0)
      BY <1>c, <1>r, <2>5 DEF CallPlace
    <3>3. ret' = [ret EXCEPT ![c] = [call |-> "write", n |-> Stack!NoMemoryOf["write"], msg |-> NoMsg]]
      BY <1>r, <2>5 DEF Stack!NoMemoryOf
    <3> QED BY <2>3, <2>4, <3>1, <3>2, <3>3, SeenNoMemory
  <2>6. ASSUME NEW b \in Bufs, NEW k \in 0 .. loc[c].n, Alloc(b, loc[c].n, loc[c].msg, k),
               SetLocals(c, loc[c].msg, k, b, 0), Goto(c, "w_load"), UNCHANGED ret
        PROVE  SerialInv(c)' /\ StackStep
    <3>1. pc'[c] = "w_load" /\ loc'[c] = LocalsOf(loc[c].msg, k, b, 0)
      BY <2>6
    <3>2. loc'[c].msg = loc[c].msg /\ loc'[c].n = k /\ loc'[c].buf = b
      BY <3>1 DEF LocalsOf
    <3>3. mem'[b].msg = loc[c].msg /\ mem'[b].n = k
      BY <2>6 DEF Alloc
    <3>4. MessageIn(c)'
      BY <3>2, <3>3 DEF MessageIn
    <3>5. Before(c)'
      BY <2>1, <2>2, <3>1, <3>4 DEF Before, Calm, Empty, Holds, Receives
    <3>6. SerialInv(c)'
      BY <2>1, <3>5 DEF SerialInv, Agree
    <3>7. CallOf(c)' = CallIs("write", loc[c].msg, k)
      BY <1>c, <3>1, <3>2 DEF CallPlace, WritePcs
    <3> QED BY <2>3, <2>4, <2>6, <3>6, <3>7, SeenShorten
  <2>7. loc[c].n \in Nat
    OBVIOUS
  <2> QED BY <1>2, <2>5, <2>6, <2>7 DEF WriteAlloc
<1>3. CASE WriteLoad(c)
  <2>1. /\ pc[c] = "w_load" /\ Before(c) /\ Goto(c, "w_store")
        /\ SetLocals(c, loc[c].msg, loc[c].n, loc[c].buf, buffers)
        /\ UNCHANGED <<ret, drvVars, heapVars, inbuf_cb, tx, rx, devVars, anomaly>>
    BY <1>3 DEF WriteLoad, At
  <2>2. Calm /\ buffers = rcv_count /\ rcv_count < BUFFERS /\ MessageIn(c)
    BY <2>1 DEF Before
  <2>3. pc'[c] = "w_store" /\ loc'[c] = LocalsOf(loc[c].msg, loc[c].n, loc[c].buf, rcv_count)
    BY <2>1, <2>2
  <2>4. /\ loc'[c].msg = loc[c].msg /\ loc'[c].n = loc[c].n /\ loc'[c].buf = loc[c].buf
        /\ loc'[c].idx = rcv_count
    BY <2>3 DEF LocalsOf
  <2>5. MessageIn(c)'
    BY <2>1, <2>2, <2>4 DEF MessageIn
  <2>6. Before(c)'
    BY <2>1, <2>2, <2>3, <2>4, <2>5 DEF Before, Calm, Empty, Holds, Receives
  <2>7. SerialInv(c)'
    BY <2>1, <2>6 DEF SerialInv, Agree
  <2>8. CallOf(c) = CallIs("write", loc[c].msg, loc[c].n) /\ CallOf(c)' = CallIs("write", loc[c].msg, loc[c].n)
    BY <1>c, <2>1, <2>3, <2>4 DEF CallPlace, WritePcs
  <2> QED BY <2>1, <2>7, <2>8, Unseen
<1>4. CASE WriteStore(c)
  <2>1. /\ pc[c] = "w_store" /\ Before(c) /\ Goto(c, "w_len") /\ buffers' = Inc(loc[c].idx)
        /\ UNCHANGED <<loc, ret, buf_lens, read_data, data_ready, kern, heapVars, inbuf_cb, tx, rx, devVars>>
    BY <1>4 DEF WriteStore, At
  <2>2. Calm /\ rcv_count < BUFFERS /\ MessageIn(c) /\ loc[c].idx = rcv_count
    BY <2>1 DEF Before
  <2>3. pc'[c] = "w_len" /\ buffers' = rcv_count + 1
    BY <2>1, <2>2 DEF Inc
  <2>4. MessageIn(c)'
    BY <2>1, <2>2 DEF MessageIn
  <2>5. Sending(c)'
    BY <2>1, <2>2, <2>3, <2>4 DEF Sending, Calm, Empty, Holds, Receives
  <2>6. SerialInv(c)'
    BY <1>b, <2>1, <2>5 DEF SerialInv, Agree
  <2>7. CallOf(c) = CallIs("write", loc[c].msg, loc[c].n) /\ CallOf(c)' = CallIs("write", loc[c].msg, loc[c].n)
    BY <1>c, <2>1, <2>3 DEF CallPlace, WritePcs
  <2> QED BY <2>1, <2>6, <2>7, Unseen
<1>5. CASE WriteLen(c)
  <2>1. pc[c] = "w_len" /\ Sending(c)
    BY <1>5 DEF WriteLen, At
  <2>2. /\ rcv_count < BUFFERS /\ buffers = rcv_count + 1 /\ MessageIn(c) /\ loc[c].idx = rcv_count
        /\ Empty(tx) /\ Empty(rx) /\ Receives("idle", 0)
    BY <2>1 DEF Sending
  <2>3. /\ Goto(c, "w_add") /\ buf_lens' = [buf_lens EXCEPT ![rcv_count] = loc[c].n]
        /\ UNCHANGED <<loc, ret, buffers, read_data, data_ready, kern, heapVars, inbuf_cb, tx, rx, devVars>>
    BY <1>5, <2>2 DEF WriteLen, Cells, Slots
  <2>4. /\ pc'[c] = "w_add" /\ buf_lens'[rcv_count] = loc[c].n
        /\ \A i \in 0 .. rcv_count - 1 : buf_lens'[i] = buf_lens[i]
    BY <1>n, <2>3
  <2>5. MessageIn(c)'
    BY <2>2, <2>3 DEF MessageIn
  <2>6. Sending(c)'
    BY <2>2, <2>3, <2>4, <2>5 DEF Sending, Empty, Holds, Receives
  <2>7. SerialInv(c)'
    BY <1>b, <1>n, <2>3, <2>4, <2>6 DEF SerialInv, Agree
  <2>8. CallOf(c) = CallIs("write", loc[c].msg, loc[c].n) /\ CallOf(c)' = CallIs("write", loc[c].msg, loc[c].n)
    BY <1>c, <2>1, <2>3, <2>4 DEF CallPlace, WritePcs
  <2> QED BY <2>3, <2>7, <2>8, Unseen
<1>6. CASE WriteAdd(c)
  <2> DEFINE e == Posted(c, loc[c].n)
  <2>1. pc[c] = "w_add" /\ Sending(c)
    BY <1>6 DEF WriteAdd, At
  <2>2. /\ rcv_count < BUFFERS /\ buffers = rcv_count + 1 /\ MessageIn(c) /\ buf_lens[rcv_count] = loc[c].n
        /\ Empty(tx) /\ Empty(rx) /\ Receives("idle", 0)
    BY <2>1 DEF Sending
  <2>3. Holds(QueueAdd(tx, e), <<e>>, << >>, {}, 0) /\ QueueAdd(tx, e).added = 1 /\ FreeDescs(tx, RingSize) > 0
    BY <2>2, SerialAdd
  <2>4. FreeDescs(tx, RingSize) \in Int
    BY SizeAssumption DEF FreeDescs, Queue
  <2>5. /\ Goto(c, "w_kick") /\ tx' = QueueAdd(tx, e)
        /\ UNCHANGED <<loc, ret, drvVars, heapVars, inbuf_cb, rx, devVars>>
    BY <1>6, <2>3, <2>4 DEF WriteAdd, Posted
  <2>6. pc'[c] = "w_kick" /\ KickOf(c)' = {} /\ Posted(c, loc[c].n)' = e
    BY <2>5 DEF KickOf, Posted
  <2>7. Holds(tx', <<e>>, << >>, {}, 0) /\ tx'.added = 1
    BY <2>3, <2>5
  <2>8. MessageIn(c)'
    BY <2>2, <2>5 DEF MessageIn
  <2> HIDE DEF e
  <2>9. Sending(c)'
    BY <2>2, <2>5, <2>6, <2>7, <2>8 DEF Sending, Empty, Holds, Receives
  <2>10. SerialInv(c)'
    BY <1>b, <2>5, <2>9 DEF SerialInv, Agree
  <2>11. CallOf(c) = CallIs("write", loc[c].msg, loc[c].n) /\ CallOf(c)' = CallIs("write", loc[c].msg, loc[c].n)
    BY <1>c, <2>1, <2>5, <2>6 DEF CallPlace, WritePcs
  <2> QED BY <2>5, <2>10, <2>11, Unseen
<1>7. CASE WriteKick(c)
  <2> DEFINE e == Posted(c, loc[c].n)
  <2>1. pc[c] = "w_kick" /\ Sending(c)
    BY <1>7 DEF WriteKick, At
  <2>2. /\ rcv_count < BUFFERS /\ buffers = rcv_count + 1 /\ MessageIn(c) /\ buf_lens[rcv_count] = loc[c].n
        /\ Empty(rx) /\ Receives("idle", 0) /\ Holds(tx, <<e>>, << >>, {}, 0) /\ tx.added = 1
    BY <2>1 DEF Sending, KickOf
  <2>3. /\ Goto(c, "w_trap") /\ tx' \in Notified(c, tx)
        /\ UNCHANGED <<loc, ret, drvVars, heapVars, inbuf_cb, rx, devVars>>
    BY <1>7 DEF WriteKick, Serial
  <2>4. pc'[c] = "w_trap" /\ KickOf(c)' = {c} /\ Posted(c, loc[c].n)' = e
    BY <2>3 DEF KickOf, Posted
  <2>5. MessageIn(c)'
    BY <2>2, <2>3 DEF MessageIn
  <2> HIDE DEF e
  <2>6. Holds(tx', <<e>>, << >>, {c}, 0)
    BY <2>2, <2>3, SerialKick
  <2>7. Sending(c)'
    BY <2>2, <2>3, <2>4, <2>5, <2>6 DEF Sending, Empty, Holds, Receives
  <2>8. SerialInv(c)'
    BY <1>b, <2>3, <2>7 DEF SerialInv, Agree
  <2>9. CallOf(c) = CallIs("write", loc[c].msg, loc[c].n)
    BY <1>c, <2>1 DEF CallPlace, WritePcs
  <2>10. CallOf(c)' = CallIs("write", loc[c].msg, loc[c].n)
    BY <1>c, <2>3, <2>4, <2>6 DEF CallPlace, Holds
  <2> QED BY <2>3, <2>8, <2>9, <2>10, Unseen
<1>8. CASE WriteResume(c)
  <2>1. /\ pc[c] = "w_trap" /\ c \notin tx.kick /\ Return(c, "write", loc[c].n, loc[c].msg)
        /\ UNCHANGED <<drvVars, heapVars, inbuf_cb, tx, rx, devVars>>
    BY <1>8 DEF WriteResume, At
  <2>2. ~ Sending(c)
    BY <2>1 DEF Sending, Holds, KickOf
  <2>3. Sent(c)
    BY <2>1, <2>2
  <2>4. Calm /\ buffers = rcv_count
    BY <1>b, <2>3 DEF Sent, Calm, Finished, Holds
  <2>5. SerialInv(c)'
    BY <1>r, <2>1, <2>4, AtRest
  <2>6. CallOf(c) = CallIs("written", loc[c].msg, loc[c].n) /\ CallOf(c)' = CallIs("idle", NoMsg, 0)
    BY <1>c, <1>r, <2>1 DEF CallPlace
  <2>7. StackOf' = StackOf
    BY <2>1 DEF StackOf
  <2> QED BY <1>r, <2>1, <2>5, <2>6, <2>7, SeenReturn
<1> QED BY <1>1, <1>2, <1>3, <1>4, <1>5, <1>6, <1>7, <1>8 DEF WriteStep

LEMMA InterruptSerial ==
  ASSUME TypeOK, NEW c, Serial(c), SerialInv(c), Interrupt
  PROVE  SerialInv(c)' /\ StackStep
<1> USE SerialTypes, PhaseAt DEF drvVars, heapVars, callVars, devVars
<1>n. rcv_count <= BUFFERS /\ Agree /\ kern = "ok" /\ dev \in {"up", "nullpop"}
  BY DEF SerialInv
<1>b. running
  BY DEF Interrupt, virtio_custdev_outbuf_cb, virtio_custdev_inbuf_cb, InbufComplete, Alive
<1>c. CallPlace(c) /\ CallPlace(c)'
  BY CallPlaces, CallPlacesNext
<1>1. CASE virtio_custdev_outbuf_cb
  <2>1. /\ tx.irq = 1 /\ tx' = GetBuf(tx)
        /\ UNCHANGED <<mem, drvVars, inbuf_cb, rx, callVars, devVars>>
    BY <1>1 DEF virtio_custdev_outbuf_cb
  <2>2. Sent(c) /\ Finished(tx)
    BY <2>1 DEF SerialInv, Before, Sending, Sent, Asking, Answered, Calm, Empty, Holds
  <2>3. Empty(tx')
    BY <2>1, <2>2, SerialTake DEF Finished
  <2>4. Sent(c)'
    BY <2>1, <2>2, <2>3 DEF Sent, Empty, Holds, Receives
  <2>5. SerialInv(c)'
    BY <1>b, <2>1, <2>4 DEF SerialInv, Agree
  <2>6. pc[c] = "w_trap" /\ c \notin tx.kick /\ c \notin tx'.kick
    BY <2>2, <2>3 DEF Sent, Finished, Empty, Holds
  <2>7. CallOf(c) = CallIs("written", loc[c].msg, loc[c].n) /\ CallOf(c)' = CallIs("written", loc[c].msg, loc[c].n)
    BY <1>c, <2>1, <2>6 DEF CallPlace
  <2> QED BY <2>1, <2>5, <2>7, Unseen
<1>2. CASE virtio_custdev_inbuf_cb
  <2>1. /\ rx.irq = 1 /\ rx' = GetBuf(rx) /\ read_data' = Head(rx.used).buf
        /\ inbuf_cb' = [pc |-> "dec", b |-> buffers]
        /\ UNCHANGED <<buffers, buf_lens, data_ready, kern, heapVars, tx, callVars, devVars>>
    BY <1>2 DEF virtio_custdev_inbuf_cb
  <2>2. /\ Answered(c) /\ pc[c] = "r_trap" /\ buffers = rcv_count + 1 /\ Receives("idle", 0)
        /\ \E e \in Element : e.buf = loc[c].buf /\ Holds(rx, << >>, <<e>>, {}, 1)
    BY <2>1 DEF SerialInv, Before, Sending, Sent, Asking, Answered, Calm, Empty, Holds
  <2>3. rcv_count < BUFFERS /\ Empty(tx) /\ buf_lens[rcv_count] = mem[loc[c].buf].n
    BY <2>2 DEF Answered
  <2>4. Empty(rx') /\ read_data' = loc[c].buf
    BY <2>1, <2>2, SerialTake
  <2>5. inbuf_cb'.pc = "dec" /\ inbuf_cb'.b = rcv_count + 1
    BY <2>1, <2>2
  <2>6. Answered(c)'
    BY <2>1, <2>2, <2>3, <2>4, <2>5 DEF Answered, Empty, Holds, Receives
  <2>7. SerialInv(c)'
    BY <1>b, <2>1, <2>6 DEF SerialInv, Agree
  <2>8. c \notin rx.kick /\ c \notin rx'.kick
    BY <2>2, <2>4 DEF Empty, Holds
  <2>9. /\ CallOf(c) = CallIs("got", mem[loc[c].buf].msg, mem[loc[c].buf].n)
        /\ CallOf(c)' = CallIs("got", mem[loc[c].buf].msg, mem[loc[c].buf].n)
    BY <1>c, <2>1, <2>2, <2>8 DEF CallPlace
  <2> QED BY <2>1, <2>7, <2>9, Unseen
<1>3. CASE InbufComplete
  <2>1. /\ inbuf_cb.pc = "dec" /\ buffers' = Dec(inbuf_cb.b) /\ data_ready' = data_ready + 1
        /\ inbuf_cb' = [pc |-> "idle", b |-> 0]
        /\ UNCHANGED <<buf_lens, read_data, kern, heapVars, tx, rx, callVars, devVars>>
    BY <1>3 DEF InbufComplete
  <2>2. /\ Answered(c) /\ pc[c] = "r_trap" /\ inbuf_cb.b = rcv_count + 1 /\ Receives("dec", 0)
        /\ read_data = loc[c].buf /\ Empty(rx)
    BY <2>1 DEF SerialInv, Before, Sending, Sent, Asking, Answered, Calm, Receives
  <2>3. rcv_count < BUFFERS /\ Empty(tx) /\ buf_lens[rcv_count] = mem[loc[c].buf].n
    BY <2>2 DEF Answered
  <2>a. rcv_count \in Nat /\ buffers' = Dec(rcv_count + 1) /\ data_ready = 0
    BY <2>1, <2>2 DEF Receives
  <2>b. Dec(rcv_count + 1) = rcv_count
    BY <2>a DEF Dec
  <2>4. buffers' = rcv_count /\ data_ready' = 1 /\ inbuf_cb'.pc = "idle"
    BY <2>1, <2>a, <2>b
  <2>5. Answered(c)'
    BY <2>1, <2>2, <2>3, <2>4 DEF Answered, Empty, Holds, Receives
  <2>6. SerialInv(c)'
    BY <1>b, <2>1, <2>5 DEF SerialInv, Agree
  <2>7. c \notin rx.kick
    BY <2>2 DEF Empty, Holds
  <2>8. /\ CallOf(c) = CallIs("got", mem[loc[c].buf].msg, mem[loc[c].buf].n)
        /\ CallOf(c)' = CallIs("got", mem[loc[c].buf].msg, mem[loc[c].buf].n)
    BY <1>c, <2>1, <2>2, <2>7 DEF CallPlace
  <2> QED BY <2>1, <2>6, <2>8, Unseen
<1> QED BY <1>1, <1>2, <1>3 DEF Interrupt

\* The device gives up on a zero-length buffer: nothing else changes.
LEMMA DiesSerial ==
  ASSUME NEW c, Clients = {c}, SerialInv(c), Dies("nullpop")
  PROVE  SerialInv(c)' /\ StackStep
<1> USE DEF Dies, drvVars, heapVars, callVars
<1>1. CallOf(c)' = CallOf(c)
  BY DEF CallOf
<1>2. KickOf(c)' = KickOf(c) /\ MessageIn(c)' = MessageIn(c) /\ \A n : Posted(c, n)' = Posted(c, n)
  BY DEF KickOf, MessageIn, Posted
<1>3. /\ Before(c)' = Before(c) /\ Sent(c)' = Sent(c) /\ Answered(c)' = Answered(c)
  BY DEF Before, Sent, Answered, Calm, Empty, Finished, Holds, Receives, MessageIn
<1>4. Sending(c)' = Sending(c) /\ Asking(c)' = Asking(c)
  BY DEF Sending, Asking, Empty, Holds, Receives, MessageIn, Posted, KickOf
<1>5. SerialInv(c)'
  BY <1>3, <1>4 DEF SerialInv, Agree
<1>6. UNCHANGED <<rcv_bufs, rcv_count, ret>>
  OBVIOUS
<1> QED BY <1>1, <1>5, <1>6, Unseen

LEMMA HandlerSerial ==
  ASSUME TypeOK, NEW c, Serial(c), SerialInv(c), Handler
  PROVE  SerialInv(c)' /\ StackStep
<1> USE SerialTypes, PhaseAt DEF drvVars, heapVars, callVars, devVars
<1>n. rcv_count <= BUFFERS /\ Agree /\ kern = "ok" /\ dev \in {"up", "nullpop"}
  BY DEF SerialInv
<1>b. running
  BY DEF Handler, virtio_custdev_handle_outbuf, virtio_custdev_handle_inbuf
<1>c. CallPlace(c) /\ CallPlace(c)'
  BY CallPlaces, CallPlacesNext
<1>1. CASE virtio_custdev_handle_outbuf
  <2> DEFINE e == Posted(c, loc[c].n)
  <2>1. tx.kick # {}
    BY <1>1 DEF virtio_custdev_handle_outbuf
  <2>2. Sending(c) /\ pc[c] = "w_trap"
    BY <2>1 DEF SerialInv, Before, Sending, Sent, Asking, Answered, Calm, Empty, Finished, Holds, KickOf
  <2>3. /\ rcv_count < BUFFERS /\ buffers = rcv_count + 1 /\ MessageIn(c) /\ buf_lens[rcv_count] = loc[c].n
        /\ Empty(rx) /\ Receives("idle", 0) /\ Holds(tx, <<e>>, << >>, {c}, 0)
    BY <2>2 DEF Sending, KickOf
  <2>4. ASSUME NEW q \in Taken(tx), PopsNull(q), Dies("nullpop") PROVE SerialInv(c)' /\ StackStep
    BY <2>4, DiesSerial
  <2>5. rcv_count \in DOMAIN rcv_bufs
    BY <2>3
  <2>6. ASSUME NEW q \in Taken(tx), rcv_bufs' = [rcv_bufs EXCEPT ![rcv_count] = Fetch(Head(q.avail))],
               rcv_count' = Inc(rcv_count), tx' \in PopPush(q),
               UNCHANGED <<drvVars, heapVars, inbuf_cb, rx, callVars, dev, running, notifies, anomaly>>
        PROVE  SerialInv(c)' /\ StackStep
    <3> DEFINE d == [msg |-> loc[c].msg, n |-> loc[c].n]
    <3> HIDE DEF e
    <3>1. Head(q.avail) = e /\ Holds(tx', << >>, <<e>>, {}, 1)
      BY <2>3, <2>6, SerialServe
    <3> USE DEF e
    <3>2. Fetch(e) = d
      BY <2>3 DEF Fetch, MessageIn, Posted
    <3>3. e \in Element /\ d \in Payload
      BY <2>2, PcFacts DEF Posted, Element, Payload
    <3>4. rcv_count' = rcv_count + 1
      BY <2>3, <2>6 DEF Inc
    <3>5. rcv_bufs' = [rcv_bufs EXCEPT ![rcv_count] = d]
      BY <2>6, <3>1, <3>2
    <3>6. StackOf' = Append(StackOf, d) /\ Len(StackOf) < BUFFERS
      BY <1>n, <2>3, <3>3, <3>4, <3>5, StackPush, StackSeq
    <3>7. \A i \in 0 .. rcv_count' - 1 : buf_lens'[i] = rcv_bufs'[i].n
      <4>1. rcv_bufs'[rcv_count].n = loc[c].n
        BY <2>5, <3>5
      <4>2. \A i \in 0 .. rcv_count - 1 : rcv_bufs'[i] = rcv_bufs[i]
        BY <3>5
      <4>3. buf_lens'[rcv_count] = rcv_bufs'[rcv_count].n
        BY <2>3, <2>6, <4>1
      <4>4. \A i \in 0 .. rcv_count - 1 : buf_lens'[i] = rcv_bufs'[i].n
        BY <1>n, <2>6, <4>2 DEF Agree
      <4>5. rcv_count' - 1 = rcv_count /\ rcv_count \in Nat
        BY <3>4
      <4>6. \A i \in 0 .. rcv_count : i = rcv_count \/ i \in 0 .. rcv_count - 1
        BY <4>5
      <4> QED BY <4>3, <4>4, <4>5, <4>6, Zenon
    <3> HIDE DEF e, d
    <3>8. Finished(tx')
      BY <3>1, <3>3 DEF Finished
    <3>9. Sent(c)'
      BY <2>2, <2>3, <2>6, <3>4, <3>8 DEF Sent, Finished, Empty, Holds, Receives
    <3>10. SerialInv(c)'
      BY <1>b, <1>n, <2>3, <2>6, <3>4, <3>7, <3>9 DEF SerialInv, Agree
    <3>11. c \in tx.kick /\ c \notin tx'.kick
      BY <2>3, <3>1 DEF Holds
    <3>12. CallOf(c) = CallIs("write", loc[c].msg, loc[c].n) /\ CallOf(c)' = CallIs("written", loc[c].msg, loc[c].n)
      BY <1>c, <2>2, <2>6, <3>11 DEF CallPlace
    <3> QED BY <2>6, <3>6, <3>10, <3>12, SeenPush DEF d
  <2> QED BY <1>1, <2>4, <2>5, <2>6 DEF virtio_custdev_handle_outbuf
<1>2. CASE virtio_custdev_handle_inbuf
  <2> DEFINE e == Posted(c, buf_lens[rcv_count - 1])
             last == rcv_count - 1
  <2>1. rx.kick # {}
    BY <1>2 DEF virtio_custdev_handle_inbuf
  <2>2. Asking(c) /\ pc[c] = "r_trap"
    BY <2>1 DEF SerialInv, Before, Sending, Sent, Asking, Answered, Calm, Empty, Finished, Holds, KickOf
  <2>3. /\ rcv_count >= 1 /\ buffers = rcv_count /\ mem[loc[c].buf].size = buf_lens[rcv_count - 1]
        /\ Empty(tx) /\ Receives("idle", 0) /\ Holds(rx, <<e>>, << >>, {c}, 0)
    BY <2>2 DEF Asking, KickOf
  <2>4. ASSUME NEW q \in Taken(rx), PopsNull(q), Dies("nullpop") PROVE SerialInv(c)' /\ StackStep
    BY <2>4, DiesSerial
  <2>5. Dec(rcv_count) = last /\ last \in DOMAIN rcv_bufs /\ last \in Nat
    BY <1>n, <2>3 DEF Dec
  <2>a. last \in 0 .. rcv_count - 1 /\ last \in 0 .. BUFFERS
    BY <1>n, <2>3, <2>5
  <2>b. pc[c] \in WithBuf
    BY <2>2 DEF WithBuf, ReadPcs
  <2>c. loc[c].buf \in Bufs
    BY <2>b
  <2>6. buf_lens[last] = rcv_bufs[last].n /\ buf_lens[last] \in Nat /\ loc[c].buf \in Bufs
    <3> HIDE DEF last
    <3>1. buf_lens[last] = rcv_bufs[last].n
      BY <1>n, <2>a DEF Agree
    <3>2. buf_lens[last] \in Nat
      BY <2>a
    <3> QED BY <2>c, <3>1, <3>2
  <2>7. ASSUME NEW q \in Taken(rx),
               mem' = [mem EXCEPT ![Head(q.avail).buf] =
                         [size |-> @.size, msg |-> Deliver(rcv_bufs[last], Head(q.avail).len).msg,
                          n |-> Deliver(rcv_bufs[last], Head(q.avail).len).n]],
               rcv_bufs' = [rcv_bufs EXCEPT ![last] = Freed], rcv_count' = last, rx' \in PopPush(q),
               UNCHANGED <<drvVars, heap, inbuf_cb, tx, callVars, dev, running, notifies, anomaly>>
        PROVE  SerialInv(c)' /\ StackStep
    <3> HIDE DEF e
    <3>1. Head(q.avail) = e /\ Holds(rx', << >>, <<e>>, {}, 1)
      <4>1. rx \in Queue /\ Holds(rx, <<e>>, << >>, {c}, 0)
        BY <2>3
      <4> QED BY <2>7, <4>1, SerialServe, Zenon
    <3>2. e.buf = loc[c].buf /\ e.len = rcv_bufs[last].n /\ e \in Element
      BY <2>5, <2>6, <1>n DEF e, Posted, Element
    <3>3. /\ Deliver(rcv_bufs[last], e.len).msg = rcv_bufs[last].msg
          /\ Deliver(rcv_bufs[last], e.len).n = rcv_bufs[last].n
      BY <2>6, <3>2 DEF Deliver
    <3>4. mem'[loc[c].buf].msg = rcv_bufs[last].msg /\ mem'[loc[c].buf].n = rcv_bufs[last].n
      BY <2>6, <2>7, <3>1, <3>2, <3>3
    <3>5. /\ StackOf' = SubSeq(StackOf, 1, Len(StackOf) - 1) /\ StackOf[Len(StackOf)] = rcv_bufs[last]
          /\ StackOf # << >>
      <4>1. StackOf # << >>
        BY <1>n, <2>3, StackSeq
      <4>2. /\ rcv_bufs' = [rcv_bufs EXCEPT ![rcv_count - 1] = Freed] /\ rcv_count' = rcv_count - 1
        BY <2>7
      <4> QED BY <1>n, <2>3, <4>1, <4>2, StackPop
    <3>6. \A i \in 0 .. rcv_count' - 1 : buf_lens'[i] = rcv_bufs'[i].n
      <4>1. ASSUME NEW i \in 0 .. rcv_count' - 1 PROVE buf_lens[i] = rcv_bufs[i].n /\ rcv_bufs'[i] = rcv_bufs[i]
        <5>1. i \in 0 .. rcv_count - 1 /\ i # last /\ i \in 0 .. BUFFERS - 1
          BY <1>n, <2>3, <2>7
        <5> HIDE DEF last
        <5>2. rcv_bufs'[i] = rcv_bufs[i]
          BY <2>7, <5>1
        <5> QED BY <1>n, <5>1, <5>2 DEF Agree
      <4> QED BY <2>7, <4>1
    <3>7. Answered(c)'
      <4>1. \E f \in Element : f.buf = loc'[c].buf /\ Holds(rx', << >>, <<f>>, {}, 1)
        BY <2>7, <3>1, <3>2
      <4>2. rcv_count' < BUFFERS /\ buffers' = rcv_count' + 1 /\ pc'[c] = "r_trap" /\ Empty(tx')
        BY <1>n, <2>2, <2>3, <2>7 DEF Empty, Holds
      <4>3. buf_lens'[rcv_count'] = mem'[loc'[c].buf].n
        BY <2>6, <2>7, <3>4
      <4>4. Receives("idle", 0)'
        BY <2>3, <2>7 DEF Receives
      <4> QED BY <4>1, <4>2, <4>3, <4>4 DEF Answered
    <3>8. SerialInv(c)'
      BY <1>b, <1>n, <2>3, <2>5, <2>7, <3>6, <3>7 DEF SerialInv, Agree
    <3>9. c \in rx.kick /\ c \notin rx'.kick
      BY <2>3, <3>1 DEF Holds
    <3>10. CallOf(c) = CallIs("read", NoMsg, 0)
      BY <1>c, <2>2, <3>9 DEF CallPlace
    <3>11. CallOf(c)' = CallIs("got", rcv_bufs[last].msg, rcv_bufs[last].n)
      BY <1>c, <2>2, <2>7, <3>4, <3>9 DEF CallPlace
    <3> QED BY <2>7, <3>5, <3>8, <3>10, <3>11, SeenPop
  <2> HIDE DEF e, last
  <2> QED BY <1>2, <2>4, <2>5, <2>7 DEF virtio_custdev_handle_inbuf
<1> QED BY <1>1, <1>2 DEF Handler

\* Stopping and resuming the VM, and stuttering.  No notification is left to be lost
\* while the VM is stopped, because the vCPU finishes the handler it trapped into.
LEMMA OtherSerial ==
  ASSUME TypeOK, NEW c, Serial(c), SerialInv(c),
         NotSynced \/ virtio_custdev_device_unrealize \/ VmStop \/ VmResume \/ Race \/ UNCHANGED vars
  PROVE  SerialInv(c)' /\ StackStep
<1> USE SerialTypes DEF drvVars, heapVars, callVars, devVars
<1>1. ~ NotSynced
  BY DEF NotSynced, SerialInv
<1>2. ~ virtio_custdev_device_unrealize
  BY DEF virtio_custdev_device_unrealize, Serial
<1>r. ~ Race
  <2>1. pc[c] = "w_add" => tx.irq = 0
    BY DEF SerialInv, Before, Sending, Sent, Asking, Answered, Empty, Holds
  <2>2. pc[c] = "r_add" => rx.irq = 0
    BY DEF SerialInv, Before, Sending, Sent, Asking, Answered, Calm, Empty, Holds
  <2> QED BY <2>1, <2>2 DEF Race, Overlap
<1>3. /\ UNCHANGED <<drvVars, heapVars, inbuf_cb, tx, rx, callVars, rcv_bufs, rcv_count, dev>>
      /\ running' \/ (tx.kick = {} /\ rx.kick = {})
  BY <1>1, <1>2, <1>r DEF VmStop, VmResume, vars, Serial, SerialInv
<1>4. CallOf(c)' = CallOf(c)
  BY <1>3 DEF CallOf
<1>5. /\ Before(c)' = Before(c) /\ Sent(c)' = Sent(c) /\ Answered(c)' = Answered(c)
  BY <1>3 DEF Before, Sent, Answered, Calm, Empty, Finished, Holds, Receives, MessageIn
<1>6. Sending(c)' = Sending(c) /\ Asking(c)' = Asking(c)
  BY <1>3 DEF Sending, Asking, Empty, Holds, Receives, MessageIn, Posted, KickOf
<1>7. SerialInv(c)'
  BY <1>3, <1>5, <1>6 DEF SerialInv, Agree
<1> QED BY <1>3, <1>4, <1>7, Unseen

------------------------------------------------------------------------------
(* The theorems *)

LEMMA InitSerial ==
  ASSUME NEW c, Serial(c), Init
  PROVE  SerialInv(c) /\ Stack!Init
<1>1. Clients = {c} /\ c \in Clients
  BY DEF Clients, Serial
<1>2. pc[c] = "idle"
  BY <1>1 DEF Init
<1>3. Before(c)
  BY <1>2 DEF Init, Before, Calm, Empty, Holds, Receives, EmptyQueue, QueueOf
<1>4. SerialInv(c)
  BY <1>3, SizeAssumption DEF Init, SerialInv, Agree, Before
<1>5. StackOf = << >>
  BY DEF Init, StackOf
<1>6. \A d \in Clients : pc[d] = "idle"
  BY DEF Init
<1>7. \A d \in Clients : CallOf(d) = CallIs("idle", NoMsg, 0)
  BY <1>6, CallPlaces DEF CallPlace
<1>8. \A d \in Clients : CallOf(d) = Stack!Idle
  BY <1>7 DEF CallIs, Stack!Idle
<1>9. Stack!Clients = Clients
  BY DEF Stack!Clients, Clients
<1>10. [d \in Clients |-> CallOf(d)] = [d \in Clients |-> Stack!Idle]
  BY <1>8
<1>11. ret = [d \in Clients |-> [call |-> "none", n |-> 0, msg |-> NoMsg]]
  BY DEF Init
<1>12. Stack!Init
  BY <1>5, <1>9, <1>10, <1>11, Zenon DEF Stack!Init
<1> QED BY <1>4, <1>12

LEMMA NextSerial ==
  ASSUME TypeOK, NEW c, Serial(c), SerialInv(c), [Next]_vars
  PROVE  SerialInv(c)' /\ StackStep
<1>1. Clients = {c}
  BY SerialTypes
<1>2. ASSUME NEW d \in Clients,
             virtio_custdev_read(d) \/ virtio_custdev_write(d) \/ ReadStep(d) \/ WriteStep(d)
      PROVE  SerialInv(c)' /\ StackStep
  <2>1. d = c
    BY <1>1
  <2> QED BY <1>2, <2>1, ReadSerial, WriteSerial
<1> QED BY <1>2, InterruptSerial, HandlerSerial, OtherSerial DEF Next

\* Between two calls of the one client the driver's count and lengths are those of the
\* messages the device stores, although each half keeps its own and neither tells the
\* other: for every BUFFERS, also after calls that failed or stopped short.
THEOREM CountersAgree ==
  ASSUME NEW c, Serial(c) PROVE Spec => []CountsAgree
<1>1. SerialInv(c) => CountsAgree
  <2> SUFFICES ASSUME SerialInv(c), \A d \in Clients : pc[d] = "idle"
               PROVE  buffers = rcv_count /\ \A i \in 0 .. rcv_count - 1 : buf_lens[i] = rcv_bufs[i].n
    BY DEF CountsAgree
  <2>1. Before(c)
    BY PhaseAt DEF Serial, Clients
  <2> QED BY <2>1 DEF Before, SerialInv, Agree
<1>2. Init => SerialInv(c)
  BY InitSerial
<1>3. TypeOK /\ SerialInv(c) /\ [Next]_vars => SerialInv(c)'
  BY NextSerial
<1> QED BY <1>1, <1>2, <1>3, TypeCorrect, PTL DEF Spec

\* Driver, queues and device implement the message stack: every step is a step of
\* MessageStack under the mapping StackOf, CallOf, or leaves what it shows unchanged.
THEOREM StackImplemented ==
  ASSUME NEW s, Serial(s) PROVE Spec => ImplementsStack
<1>1. Init => SerialInv(s) /\ Stack!Init
  BY InitSerial
<1>2. TypeOK /\ SerialInv(s) /\ [Next]_vars
      => SerialInv(s)' /\ [Stack!Next]_<<StackOf, [c \in Clients |-> CallOf(c)], ret>>
  BY NextSerial DEF StackStep, calls
<1> QED BY <1>1, <1>2, TypeCorrect, PTL DEF Spec, ImplementsStack, Stack!Spec
===============================================================================
