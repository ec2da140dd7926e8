--------------------------- MODULE CustdevLifecycle ---------------------------
(***************************************************************************)
(* Loading and unloading of the front-end module virtio_custdev.c: the     *)
(* device instance vcdev, its registration with the virtio core, probe and *)
(* remove, and processes that use /proc/virtio_custdev-0 meanwhile.  What  *)
(* happens inside read and write is the business of Custdev; here a call   *)
(* holds the instance, and a read may wait for data_ready.                 *)
(*                                                                         *)
(* External: register_virtio_driver probes the registered device and does  *)
(* not report a failed probe; proc_remove hides the entry and waits for    *)
(* the calls under way; an oops leaves its call under way for ever.  The   *)
(* transport is taken to have the get_features that the virtio core calls. *)
(* The device may answer a read, but need not: the committed notify tells  *)
(* it nothing.                                                             *)
(***************************************************************************)
EXTENDS Naturals

CONSTANT Clients

VARIABLES
  mod,         \* "unloaded", "failed", "loaded", "gone", or the step of init or exit to come
  registered,  \* the instance is known to the virtio core
  bound,       \* ... and to this driver: probe succeeded
  vq,          \* vq_tx and vq_rx: "unset", "null" or "live"
  ready,       \* buffers and data_ready are initialised
  pde,         \* the proc entry is visible
  frees,       \* number of kfree calls for the instance since kzalloc
  client       \* what each process does with the proc file

vars == <<mod, registered, bound, vq, ready, pde, frees, client>>

Steps == {"reg_device", "reg_driver", "find_vqs", "init", "proc_create",
          "proc_remove", "drain", "complete", "free", "unreg_device", "free_again"}

\* Processes that run driver code: "oops" ones never leave.
InCall == {"calling", "waiting", "leaving", "oops"}

Init ==
  /\ mod = "unloaded" /\ registered = FALSE /\ bound = FALSE
  /\ vq = "unset" /\ ready = FALSE /\ pde = FALSE /\ frees = 0
  /\ client = [c \in Clients |-> "idle"]

------------------------------------------------------------------------------
\* kzalloc in virtio_custom_init; a failure leaves the module as it was.
Load ==
  /\ mod \in {"unloaded", "failed"}
  /\ mod' = "reg_device" /\ frees' = 0 /\ vq' = "unset" /\ ready' = FALSE
  /\ UNCHANGED <<registered, bound, pde, client>>

RegisterDevice ==
  /\ mod = "reg_device"
  /\ \/ mod' = "reg_driver" /\ registered' = TRUE /\ UNCHANGED frees
     \/ mod' = "failed" /\ frees' = frees + 1 /\ UNCHANGED registered
  /\ UNCHANGED <<bound, vq, ready, pde, client>>

\* A variant whose error path forgets to unregister the device.
RegisterDriverLeavesDevice ==
  /\ mod = "reg_driver"
  /\ \/ mod' = "find_vqs" /\ UNCHANGED <<registered, frees>>
     \/ mod' = "failed" /\ frees' = frees + 1 /\ UNCHANGED registered
  /\ UNCHANGED <<bound, vq, ready, pde, client>>

\* The driver is on the bus and probe is called, or init undoes what it did.
RegisterDriver ==
  /\ mod = "reg_driver"
  /\ \/ mod' = "find_vqs" /\ UNCHANGED <<registered, frees>>
     \/ mod' = "failed" /\ registered' = FALSE /\ frees' = frees + 1
  /\ UNCHANGED <<bound, vq, ready, pde, client>>

\* A variant that publishes the entry before the queues exist.
FindVqsAfterPublishing ==
  /\ mod = "find_vqs"
  /\ mod' = "init" /\ pde' = TRUE
  /\ UNCHANGED <<registered, bound, vq, ready, frees, client>>

\* vring_create_virtqueue fails with NULL, which IS_ERR does not notice: probe goes
\* on with queues that are not there.
custdev_find_vqs ==
  /\ mod = "find_vqs"
  /\ mod' = "init" /\ vq' \in {"live", "null"}
  /\ UNCHANGED <<registered, bound, ready, pde, frees, client>>

ProbeInit ==
  /\ mod = "init"
  /\ mod' = "proc_create" /\ ready' = TRUE
  /\ UNCHANGED <<registered, bound, vq, pde, frees, client>>

\* On failure probe frees the instance, which stays registered, and the module is loaded.
ProcCreate ==
  /\ mod = "proc_create"
  /\ \/ pde' = TRUE /\ bound' = TRUE /\ UNCHANGED frees
     \/ frees' = frees + 1 /\ UNCHANGED <<pde, bound>>
  /\ mod' = "loaded"
  /\ UNCHANGED <<registered, vq, ready, client>>

------------------------------------------------------------------------------
\* virtio_custom_exit: unregister_virtio_driver calls remove for a bound device.
Exit ==
  /\ mod = "loaded"
  /\ mod' = IF bound THEN "proc_remove" ELSE "unreg_device"
  /\ UNCHANGED <<registered, bound, vq, ready, pde, frees, client>>

\* A variant of remove that frees the instance first.
ProcRemoveFreesFirst ==
  /\ mod = "proc_remove"
  /\ mod' = "drain" /\ pde' = FALSE /\ frees' = frees + 1
  /\ UNCHANGED <<registered, bound, vq, ready, client>>

\* proc_remove: no call can start any more ...
ProcRemove ==
  /\ mod = "proc_remove"
  /\ mod' = "drain" /\ pde' = FALSE
  /\ UNCHANGED <<registered, bound, vq, ready, frees, client>>

\* A variant of proc_remove that does not wait.
DrainAtOnce ==
  /\ mod = "drain"
  /\ mod' = "complete"
  /\ UNCHANGED <<registered, bound, vq, ready, pde, frees, client>>

\* ... and it returns when the last call has ended.
Drain ==
  /\ mod = "drain" /\ \A c \in Clients : client[c] \notin InCall
  /\ mod' = "complete"
  /\ UNCHANGED <<registered, bound, vq, ready, pde, frees, client>>

\* complete(&vcust->data_ready) wakes one process, if one waits.
OneWoken ==
  LET waiting == {c \in Clients : client[c] = "waiting"}
  IN  IF waiting = {} THEN {client}
      ELSE {[client EXCEPT ![c] = "leaving"] : c \in waiting}

\* A variant that waits where it should signal.
RemoveWaits ==
  /\ mod = "complete" /\ \E c \in Clients : client[c] = "leaving"
  /\ mod' = "free"
  /\ UNCHANGED <<registered, bound, vq, ready, pde, frees, client>>

RemoveComplete ==
  /\ mod = "complete"
  /\ mod' = "free" /\ client' \in OneWoken
  /\ UNCHANGED <<registered, bound, vq, ready, pde, frees>>

RemoveFree ==
  /\ mod = "free"
  /\ mod' = "unreg_device" /\ bound' = FALSE /\ frees' = frees + 1
  /\ UNCHANGED <<registered, vq, ready, pde, client>>

\* The device is taken off the bus although its memory has been freed by then.
UnregisterDevice ==
  /\ mod = "unreg_device"
  /\ mod' = "free_again" /\ registered' = FALSE
  /\ UNCHANGED <<bound, vq, ready, pde, frees, client>>

ExitFree ==
  /\ mod = "free_again"
  /\ mod' = "gone" /\ frees' = frees + 1
  /\ UNCHANGED <<registered, bound, vq, ready, pde, client>>

Module == \/ Load \/ RegisterDevice \/ RegisterDriver \/ custdev_find_vqs \/ ProbeInit
          \/ ProcCreate \/ Exit
Remove == ProcRemove \/ Drain \/ RemoveComplete \/ RemoveFree \/ UnregisterDevice \/ ExitFree

------------------------------------------------------------------------------
Go(c, from, to) ==
  /\ client[c] = from /\ client' = [client EXCEPT ![c] = to]
  /\ UNCHANGED <<mod, registered, bound, vq, ready, pde, frees>>

virtio_custdev_open(c) == pde /\ Go(c, "idle", "open")
Release(c) == Go(c, "open", "idle")

\* read or write on an open file; once the entry is hidden a call just fails.
Call(c) == pde /\ Go(c, "open", "calling")

\* read waits; with a queue that is NULL the call crashes instead.
ReadWaits(c) == vq # "null" /\ Go(c, "calling", "waiting")
Crash(c) == vq = "null" /\ Go(c, "calling", "oops")

\* virtio_custdev_inbuf_cb completes data_ready.
Answer(c) == Go(c, "waiting", "leaving")

Return(c) == Go(c, "leaving", "open") \/ Go(c, "calling", "open")

Client(c) == \/ virtio_custdev_open(c) \/ Release(c) \/ Call(c) \/ ReadWaits(c)
             \/ Crash(c) \/ Answer(c) \/ Return(c)

Next == Module \/ Remove \/ \E c \in Clients : Client(c)

Spec == Init /\ [][Next]_vars

\* The exit code runs on, and calls come to an end, but for those that wait: nothing makes
\* the device answer.
FairSpec == Spec /\ WF_vars(Remove) /\ \A c \in Clients : WF_vars(Return(c))

------------------------------------------------------------------------------
TypeOK ==
  /\ mod \in Steps \union {"unloaded", "failed", "loaded", "gone"}
  /\ registered \in BOOLEAN /\ bound \in BOOLEAN /\ ready \in BOOLEAN /\ pde \in BOOLEAN
  /\ vq \in {"unset", "null", "live"} /\ frees \in 0 .. 2
  /\ client \in [Clients -> InCall \union {"idle", "open"}]

\* No process is inside the driver on an instance that was freed, although open files
\* keep their private_data after the entry is gone.
CallsOnLiveInstance == \A c \in Clients : client[c] \in InCall => frees = 0

\* A call finds the queue pointers assigned, and buffers and data_ready initialised: a
\* process may open the file while probe is still running.  (A queue that is NULL counts
\* as assigned: probe does not notice it, and the call crashes.)
CallsAfterSetup == \A c \in Clients : client[c] \in InCall => vq # "unset" /\ ready

\* An init that fails leaves no registration behind and frees the instance, once.  A
\* module that is loaded with a failed probe has freed its instance already, and every
\* unloading ends with the instance freed twice, by remove or the failed probe and by
\* virtio_custom_exit: nothing leaks, and no other path frees it twice.
FailedLoadClean ==
  /\ mod = "failed" => ~registered /\ ~bound /\ ~pde /\ frees = 1
  /\ mod = "loaded" => frees = IF bound THEN 0 ELSE 1
  /\ mod = "gone" => ~registered /\ frees = 2
  /\ frees = 2 => mod = "gone"

\* The completion that remove signals never wakes a process: proc_remove has waited for
\* all of them before.
WakeupTooLate == [][mod = "complete" /\ mod' # mod => client' = client]_vars

\* Unloading ends, unless a call has crashed or waits for an answer that never comes: then
\* proc_remove waits for ever, and only then.
Unloads ==
  mod = "proc_remove"
    ~> (mod = "gone" \/ \E c \in Clients : [](client[c] \in {"oops", "waiting"}))
===============================================================================
