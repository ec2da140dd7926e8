CONSTANTS
  Readers = {r}
  Writers = {w}
  Msgs = {m1}
  Lens = {1}
  BUFFERS = 2
  RingSize = 2
  UMAX = 7
  Bufs = {b1, b2}
  NoBuf = NoBuf
  NoMsg = NoMsg
  Notifies = {TRUE, FALSE}
  IoEventFd = TRUE
  PromptIrq = FALSE
  MayStop = FALSE
  MayUnplug = FALSE
  MayFault = TRUE
SPECIFICATION Spec
INVARIANTS
  CountInRange
  LensWithin
  ReadsOwnBuffer
  RxSerialized
PROPERTIES
  WaitsForEver
VIEW NoResults
SYMMETRY Symmetry
CHECK_DEADLOCK FALSE
