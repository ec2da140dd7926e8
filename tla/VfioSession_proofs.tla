-------------------------- MODULE VfioSession_proofs --------------------------
(***************************************************************************)
(* The ladder of labels of vfio.c closes what is open.                     *)
(***************************************************************************)
EXTENDS VfioSession, TLAPS

\* The labels up to which nothing, the container, the group and the device are open.
NothingOpen == {"init_pci_data", "open_container"}
ContainerOpen == {"extension", "open_group"}
GroupOpen == {"status", "set_container"}
Attached == {"set_iommu", "get_device"}
DeviceOpen == {"device_info", "config"}

\* What is open at each place.  At err1 without a device, and at err0 after it, dev_fd
\* may be a number left by chance, and a standard stream, the group or the container
\* already closed.
Standard == {"std", "container", "group"}
LadderInv ==
  /\ pc \in NothingOpen \union ContainerOpen \union GroupOpen \union Attached \union DeviceOpen
           \union {"version", "return", "crashed", "err1", "err0", "err", "closed"}
  /\ attached \in BOOLEAN /\ dev_fd \in Junk \union {"device"}
  /\ pc \in NothingOpen \union {"version"} \union ContainerOpen \union GroupOpen \union Attached =>
       dev_fd \in Junk
  /\ pc \in NothingOpen \union {"crashed"} => open = {"std"} /\ ~attached
  /\ pc \in {"version", "return"} => open \in {{"std"}, {"std", "container"}} /\ ~attached
  /\ pc \in ContainerOpen => open = {"std", "container"} /\ ~attached
  /\ pc \in GroupOpen => open = Standard /\ ~attached
  /\ pc \in Attached => open = Standard /\ attached
  /\ pc \in DeviceOpen => open = Standard \union {"device"} /\ attached /\ dev_fd = "device"
  /\ pc = "err1" => \/ open = Standard /\ attached /\ dev_fd \in Junk
                    \/ open = Standard \union {"device"} /\ attached /\ dev_fd = "device"
  /\ pc = "err0" => open \subseteq Standard /\ Standard \ open \subseteq {dev_fd}
  /\ pc = "err" => open \subseteq {"std", "container"} /\ ~attached
  /\ pc = "closed" => open \subseteq {"std"} /\ ~attached
  /\ pc \notin DeviceOpen \union {"err1", "err0", "err", "closed"} => shown = "nothing"
  /\ "std" \notin open => dev_fd = "std"
  /\ dev_fd # "device" => shown = "nothing"

LEMMA LadderInit == Init => LadderInv
BY DEF Init, LadderInv, Junk, Standard, NothingOpen, ContainerOpen, GroupOpen, Attached, DeviceOpen

LEMMA LadderStep == LadderInv /\ [Next]_vars => LadderInv'
<1> SUFFICES ASSUME LadderInv, [Next]_vars PROVE LadderInv'
  OBVIOUS
<1> USE DEF LadderInv, Junk, Standard, NothingOpen, ContainerOpen, GroupOpen, Attached, DeviceOpen, Go
<1>1. CASE init_pci_data
  BY <1>1 DEF init_pci_data
<1>2. CASE OpenContainer
  BY <1>2 DEF OpenContainer
<1>3. CASE CheckVersion
  BY <1>3 DEF CheckVersion
<1>4. CASE CheckExtension
  BY <1>4 DEF CheckExtension
<1>5. CASE OpenGroup
  BY <1>5 DEF OpenGroup
<1>6. CASE GetStatus
  BY <1>6 DEF GetStatus
<1>7. CASE SetContainer
  BY <1>7 DEF SetContainer
<1>8. CASE SetIommu
  BY <1>8 DEF SetIommu
<1>9. CASE OpenDevice
  BY <1>9 DEF OpenDevice
<1>10. CASE GetInfo
  BY <1>10 DEF GetInfo
<1>11. CASE ReadConfig
  BY <1>11 DEF ReadConfig
<1>12. CASE err1
  BY <1>12 DEF err1
<1>13. CASE err0
  BY <1>13 DEF err0
<1>14. CASE err
  BY <1>14 DEF err
<1>15. CASE UNCHANGED vars
  BY <1>15 DEF vars
<1> QED BY <1>1, <1>2, <1>3, <1>4, <1>5, <1>6, <1>7, <1>8, <1>9, <1>10, <1>11, <1>12, <1>13,
           <1>14, <1>15 DEF Next

\* Whichever call of vfio.c fails, the labels err1, err0 and err close every descriptor,
\* and nothing else before what it holds than what dev_fd names by chance.
THEOREM LadderClosesAll == Spec => []ClosesAll
<1>1. LadderInv => ClosesAll
  BY DEF LadderInv, ClosesAll, Nested, Junk, Standard, NothingOpen, ContainerOpen, GroupOpen, Attached, DeviceOpen
<1> QED BY LadderInit, LadderStep, <1>1, PTL DEF Spec
===============================================================================
