------------------------ MODULE CustdevLifecycle_proofs ------------------------
(***************************************************************************)
(* For any number of processes, no call runs on a freed or half-built      *)
(* instance, remove's wake-up comes too late, and the instance is freed    *)
(* once by a failed load and twice by every unload.                        *)
(***************************************************************************)
EXTENDS CustdevLifecycle, TLAPS

Setup == {"reg_device", "reg_driver", "find_vqs", "init", "proc_create"}

\* Before remove frees it, the instance has not been freed: in the steps of a load, while
\* the device is bound, and as long as remove has not drained the calls.
NotFreed ==
  /\ mod \in Setup \union {"proc_remove", "drain", "complete", "free"} => frees = 0
  /\ mod = "loaded" /\ bound => frees = 0
  /\ mod \in Setup \union {"unloaded", "failed"} => bound = FALSE

\* An instance that is bound, or being removed, has been set up.
SetUp ==
  /\ mod \in {"init", "proc_create", "proc_remove", "drain"} => vq # "unset"
  /\ mod \in {"proc_create", "proc_remove", "drain"} => ready
  /\ mod = "loaded" /\ bound => vq # "unset" /\ ready

\* The entry is visible, and calls are under way, only on a bound instance, and calls
\* until remove has drained them.
Visible ==
  /\ pde => mod = "proc_remove" \/ (mod = "loaded" /\ bound)
  /\ \A c \in Clients : client[c] \in InCall =>
       mod \in {"proc_remove", "drain"} \/ (mod = "loaded" /\ bound)

Inv == client \in [Clients -> InCall \union {"idle", "open"}] /\ NotFreed /\ SetUp /\ Visible

LEMMA InitInv == Init => Inv
BY DEF Init, Inv, NotFreed, SetUp, Visible, InCall, Setup

\* A step of a process changes its own state; it enters a call through the entry only.
LEMMA GoInv ==
  ASSUME Inv, NEW c \in Clients, NEW from, NEW to \in InCall \union {"idle", "open"},
         Go(c, from, to), to \in InCall => from \in InCall \/ pde
  PROVE  Inv'
<1>1. client' \in [Clients -> InCall \union {"idle", "open"}]
  BY DEF Go, Inv
<1>2. NotFreed' /\ SetUp'
  BY DEF Go, Inv, NotFreed, SetUp
<1>3. Visible'
  <2>1. pde' = pde /\ mod' = mod /\ bound' = bound /\ client[c] = from
    BY DEF Go
  <2>2. ASSUME NEW d \in Clients, client'[d] \in InCall
        PROVE  mod \in {"proc_remove", "drain"} \/ (mod = "loaded" /\ bound)
    <3>1. CASE d = c
      <4>1. client'[d] = to
        BY <3>1 DEF Go, Inv
      <4> QED BY <2>1, <2>2, <3>1, <4>1 DEF Inv, Visible
    <3>2. CASE d # c
      <4>1. client'[d] = client[d]
        BY <3>2 DEF Go, Inv
      <4> QED BY <2>2, <4>1 DEF Inv, Visible
    <3> QED BY <3>1, <3>2
  <2> QED BY <2>1, <2>2 DEF Inv, Visible
<1> QED BY <1>1, <1>2, <1>3 DEF Inv

LEMMA ClientInv == ASSUME Inv, NEW c \in Clients, Client(c) PROVE Inv'
<1>1. CASE virtio_custdev_open(c) \/ Release(c)
  BY <1>1, GoInv DEF virtio_custdev_open, Release, InCall
<1>2. CASE Call(c)
  BY <1>2, GoInv DEF Call, InCall
<1>3. CASE ReadWaits(c) \/ Crash(c) \/ Answer(c)
  BY <1>3, GoInv DEF ReadWaits, Crash, Answer, InCall
<1>4. CASE Return(c)
  BY <1>4, GoInv DEF Return, InCall
<1> QED BY <1>1, <1>2, <1>3, <1>4 DEF Client

LEMMA ModuleInv == ASSUME Inv, Module PROVE Inv'
<1> USE DEF Inv, NotFreed, SetUp, Visible, Setup
<1>1. CASE Load
  BY <1>1 DEF Load
<1>2. CASE RegisterDevice
  BY <1>2 DEF RegisterDevice
<1>3. CASE RegisterDriver
  BY <1>3 DEF RegisterDriver
<1>4. CASE custdev_find_vqs
  BY <1>4 DEF custdev_find_vqs
<1>5. CASE ProbeInit
  BY <1>5 DEF ProbeInit
<1>6. CASE ProcCreate
  BY <1>6 DEF ProcCreate
<1>7. CASE Exit
  BY <1>7 DEF Exit
<1> QED BY <1>1, <1>2, <1>3, <1>4, <1>5, <1>6, <1>7 DEF Module

LEMMA RemoveInv == ASSUME Inv, Remove PROVE Inv'
<1> USE DEF Inv, NotFreed, SetUp, Visible, Setup
<1>1. CASE ProcRemove
  BY <1>1 DEF ProcRemove
<1>2. CASE Drain
  BY <1>2 DEF Drain
<1>3. CASE RemoveComplete
  <2>1. \A c \in Clients : client[c] \notin InCall
    BY <1>3 DEF RemoveComplete
  <2>2. client' = client
    BY <1>3, <2>1 DEF RemoveComplete, OneWoken, InCall
  <2> QED BY <1>3, <2>2 DEF RemoveComplete
<1>4. CASE RemoveFree
  BY <1>4 DEF RemoveFree
<1>5. CASE UnregisterDevice
  BY <1>5 DEF UnregisterDevice
<1>6. CASE ExitFree
  BY <1>6 DEF ExitFree
<1> QED BY <1>1, <1>2, <1>3, <1>4, <1>5, <1>6 DEF Remove

LEMMA InvHolds == Spec => []Inv
<1>1. Inv /\ UNCHANGED vars => Inv'
  BY DEF vars, Inv, NotFreed, SetUp, Visible
<1>2. Inv /\ Next => Inv'
  BY ModuleInv, RemoveInv, ClientInv DEF Next
<1> QED BY InitInv, <1>1, <1>2, PTL DEF Spec

\* No process is inside read or write on a freed instance, for any number of processes.
THEOREM CallsSafe == Spec => []CallsOnLiveInstance
<1>1. Inv => CallsOnLiveInstance
  BY DEF Inv, NotFreed, Visible, CallsOnLiveInstance
<1> QED BY InvHolds, <1>1, PTL

\* Probe publishes the entry last: a call finds queues and completion set up.
THEOREM SetupBeforeCalls == Spec => []CallsAfterSetup
<1>1. Inv => CallsAfterSetup
  BY DEF Inv, SetUp, Visible, CallsAfterSetup
<1> QED BY InvHolds, <1>1, PTL

\* The complete() of virtio_custdev_remove wakes no process, ever.
THEOREM WakeupUseless == Spec => WakeupTooLate
<1>1. Inv /\ [Next]_vars => [mod = "complete" /\ mod' # mod => client' = client]_vars
  <2> SUFFICES ASSUME Inv, Next, mod = "complete", mod' # mod PROVE client' = client
    BY DEF vars
  <2>1. \A c \in Clients : client[c] \notin InCall
    BY DEF Inv, Visible
  <2>2. CASE RemoveComplete
    BY <2>1, <2>2 DEF RemoveComplete, OneWoken, InCall
  <2>3. CASE Module
    BY <2>3 DEF Module, Load, RegisterDevice, RegisterDriver, custdev_find_vqs, ProbeInit,
       ProcCreate, Exit
  <2>4. CASE Remove
    BY <2>2, <2>4 DEF Remove, ProcRemove, Drain, RemoveFree, UnregisterDevice, ExitFree
  <2>5. ASSUME NEW c \in Clients, Client(c) PROVE FALSE
    BY <2>5 DEF Client, virtio_custdev_open, Release, Call, ReadWaits, Crash, Answer, Return, Go
  <2> QED BY <2>3, <2>4, <2>5 DEF Next
<1> QED BY InvHolds, <1>1, PTL DEF Spec, WakeupTooLate

------------------------------------------------------------------------------
(* How often the instance is freed *)

\* Once where a load or a probe has failed and from remove's kfree on, a second time by the
\* last step of exit; and the device is off the bus where a load has failed, before it is
\* registered, and from the moment exit has unregistered it.
Freed ==
  CASE mod \in Setup \union {"unloaded", "proc_remove", "drain", "complete", "free"} -> 0
    [] mod \in {"failed", "unreg_device", "free_again"} -> 1
    [] mod = "loaded" -> IF bound THEN 0 ELSE 1
    [] mod = "gone" -> 2

FreeCount ==
  /\ frees = Freed /\ mod \in Steps \union {"unloaded", "failed", "loaded", "gone"}
  /\ mod \in {"unloaded", "failed", "reg_device", "free_again", "gone"} => ~registered
  /\ mod \in {"free", "complete", "drain", "proc_remove"} => bound

LEMMA FreeCountHolds == Spec => []FreeCount
<1> USE DEF Setup, Steps
<1>1. Init => FreeCount
  BY DEF Init, FreeCount, Freed
<1>2. Inv /\ FreeCount /\ [Next]_vars => FreeCount'
  <2> SUFFICES ASSUME Inv, FreeCount, [Next]_vars PROVE FreeCount'
    OBVIOUS
  <2>0. mod \in Setup \union {"unloaded", "failed"} => bound = FALSE
    BY DEF Inv, NotFreed
  <2>1. CASE Module
    <3>1. CASE Load
      BY <3>1 DEF Load, FreeCount, Freed
    <3>2. CASE RegisterDevice
      BY <3>2 DEF RegisterDevice, FreeCount, Freed
    <3>3. CASE RegisterDriver
      BY <3>3 DEF RegisterDriver, FreeCount, Freed
    <3>4. CASE custdev_find_vqs \/ ProbeInit
      BY <3>4 DEF custdev_find_vqs, ProbeInit, FreeCount, Freed
    <3>5. CASE ProcCreate
      BY <2>0, <3>5 DEF ProcCreate, FreeCount, Freed
    <3>6. CASE Exit
      BY <3>6 DEF Exit, FreeCount, Freed
    <3> QED BY <2>1, <3>1, <3>2, <3>3, <3>4, <3>5, <3>6 DEF Module
  <2>2. CASE Remove
    <3>1. CASE ProcRemove \/ Drain \/ RemoveComplete
      BY <3>1 DEF ProcRemove, Drain, RemoveComplete, FreeCount, Freed
    <3>2. CASE RemoveFree
      BY <3>2 DEF RemoveFree, FreeCount, Freed
    <3>3. CASE UnregisterDevice
      BY <3>3 DEF UnregisterDevice, FreeCount, Freed
    <3>4. CASE ExitFree
      BY <3>4 DEF ExitFree, FreeCount, Freed
    <3> QED BY <2>2, <3>1, <3>2, <3>3, <3>4 DEF Remove
  <2>3. ASSUME NEW c \in Clients, Client(c) PROVE FreeCount'
    <3>1. UNCHANGED <<mod, registered, bound, frees>>
      BY <2>3 DEF Client, virtio_custdev_open, Release, Call, ReadWaits, Crash, Answer, Return, Go
    <3> QED BY <3>1 DEF FreeCount, Freed
  <2>4. CASE UNCHANGED vars
    BY <2>4 DEF vars, FreeCount, Freed
  <2> QED BY <2>1, <2>2, <2>3, <2>4 DEF Next
<1> QED BY <1>1, <1>2, InvHolds, PTL DEF Spec

\* A load that fails undoes what it did and frees the instance exactly once; every unload
\* frees it exactly twice, the second time at the end of virtio_custom_exit, and no other
\* path does.
THEOREM LoadsClean == Spec => []FailedLoadClean
<1>1. Inv /\ FreeCount => FailedLoadClean
  BY DEF Inv, NotFreed, Visible, FreeCount, Freed, FailedLoadClean, Setup, Steps
<1> QED BY InvHolds, FreeCountHolds, <1>1, PTL
===============================================================================
