------------------------------ MODULE VfioSession ------------------------------
(***************************************************************************)
(* The VFIO probe vfio.c: container, group and device are opened one in    *)
(* the other, the configuration space is read and printed, and a ladder of *)
(* labels closes what is open.  Each call may fail; some failures jump to  *)
(* a label further up than what has been opened, and pdev->dev_fd is the   *)
(* content of a malloc until a device is got.                              *)
(***************************************************************************)
EXTENDS Naturals, FiniteSets

VARIABLES
  pc,        \* the next call, or the label; "return", "closed" or "crashed" in the end
  open,      \* descriptors that are open; "std" stands for 0, 1 and 2
  attached,  \* the group is in the container
  group_id,  \* which group the path read by readlink names
  dev_fd,    \* the descriptor whose number pdev->dev_fd holds
  shown      \* what print_pci has printed

vars == <<pc, open, attached, group_id, dev_fd, shown>>

\* What an uninitialised number may happen to be: a descriptor of this process, such as 0
\* in a fresh heap, or none.
Junk == {"std", "container", "group", "none"}

Init ==
  /\ pc = "init_pci_data" /\ open = {"std"} /\ attached = FALSE /\ group_id = "unset"
  /\ dev_fd \in Junk /\ shown = "nothing"

\* One call: it is due, and control goes on at the given place.
Go(from, to) == pc = from /\ pc' = to

\* stat may fail.  The result of readlink is not tested: the path it leaves, if not the
\* one of the device's group, is what the stack held, a number or not, and group_path[-1]
\* is zeroed, which may hit a local that is still in use, the pointer dev at worst.
init_pci_data ==
  /\ \/ Go("init_pci_data", "return") /\ UNCHANGED group_id
     \/ Go("init_pci_data", "open_container") /\ group_id' \in {"own", "other"}
     \/ Go("init_pci_data", "crashed") /\ UNCHANGED group_id
  /\ UNCHANGED <<open, attached, dev_fd, shown>>

\* open is not tested; without a container the version is wrong.
OpenContainer ==
  /\ Go("open_container", "version")
  /\ open' \in {open, open \union {"container"}}
  /\ UNCHANGED <<attached, group_id, dev_fd, shown>>

CheckVersion ==
  /\ \/ Go("version", "return")
     \/ "container" \in open /\ Go("version", "extension")
  /\ UNCHANGED <<open, attached, group_id, dev_fd, shown>>

CheckExtension ==
  /\ Go("extension", "return") \/ Go("extension", "open_group")
  /\ UNCHANGED <<open, attached, group_id, dev_fd, shown>>

OpenGroup ==
  /\ \/ Go("open_group", "err") /\ UNCHANGED open
     \/ Go("open_group", "status") /\ open' = open \union {"group"}
  /\ UNCHANGED <<attached, group_id, dev_fd, shown>>

GetStatus ==
  /\ Go("status", "err0") \/ Go("status", "set_container")
  /\ UNCHANGED <<open, attached, group_id, dev_fd, shown>>

\* A variant that leaves by the last label.
SetContainerToErr ==
  /\ \/ Go("set_container", "err") /\ UNCHANGED attached
     \/ Go("set_container", "set_iommu") /\ attached' = TRUE
  /\ UNCHANGED <<open, group_id, dev_fd, shown>>

SetContainer ==
  /\ \/ Go("set_container", "err0") /\ UNCHANGED attached
     \/ Go("set_container", "set_iommu") /\ attached' = TRUE
  /\ UNCHANGED <<open, group_id, dev_fd, shown>>

\* A failure goes to err1, although there is no device yet.
SetIommu ==
  /\ Go("set_iommu", "err1") \/ Go("set_iommu", "get_device")
  /\ UNCHANGED <<open, attached, group_id, dev_fd, shown>>

\* Only its own group has the device.
OpenDevice ==
  /\ \/ Go("get_device", "err0") /\ dev_fd' = "none" /\ UNCHANGED open
     \/ /\ group_id = "own" /\ Go("get_device", "device_info")
        /\ dev_fd' = "device" /\ open' = open \union {"device"}
  /\ UNCHANGED <<attached, group_id, shown>>

GetInfo ==
  /\ Go("device_info", "err1") \/ Go("device_info", "config")
  /\ UNCHANGED <<open, attached, group_id, dev_fd, shown>>

\* VFIO_DEVICE_GET_REGION_INFO, pread and print_pci: failures are only reported.  Without
\* the offset of the configuration region the offset 0 is read, another region; without
\* data the zeros of conf_data are printed.
ReadConfig ==
  /\ Go("config", "err1")
  /\ shown' \in {"config", "other_region", "zeros"}
  /\ UNCHANGED <<open, attached, group_id, dev_fd>>

err1 ==
  /\ Go("err1", "err0") /\ open' = open \ {dev_fd} /\ attached' = (attached /\ "group" \in open')
  /\ UNCHANGED <<group_id, dev_fd, shown>>

err0 ==
  /\ Go("err0", "err") /\ open' = open \ {"group"} /\ attached' = FALSE
  /\ UNCHANGED <<group_id, dev_fd, shown>>

err ==
  /\ Go("err", "closed") /\ open' = open \ {"container"}
  /\ UNCHANGED <<attached, group_id, dev_fd, shown>>

Next ==
  \/ init_pci_data \/ OpenContainer \/ CheckVersion \/ CheckExtension \/ OpenGroup \/ GetStatus
  \/ SetContainer \/ SetIommu \/ OpenDevice \/ GetInfo \/ ReadConfig \/ err1 \/ err0 \/ err

Spec == Init /\ [][Next]_vars

------------------------------------------------------------------------------
\* The device lies within its group, the group within a container.
Nested == "device" \in open => {"group", "container"} \subseteq open /\ attached

\* Whichever call fails, and whatever number dev_fd held, the ladder leaves no descriptor
\* open but the standard ones and no group attached; the early returns leave at most the
\* container.  On the way nothing is closed before what it holds, but for the one thing
\* that dev_fd names: after a failed VFIO_SET_IOMMU that is a number left by chance.
ClosesAll ==
  /\ pc = "closed" => open \subseteq {"std"} /\ ~attached
  /\ pc = "return" => open \subseteq {"std", "container"}
  /\ Nested
  /\ pc = "err0" => {"std", "container", "group"} \ open \subseteq {dev_fd}
  /\ "std" \notin open => dev_fd = "std" /\ shown = "nothing"
===============================================================================
