CONSTANTS
  Readers = {r}
  Writers = {w}
  Msgs = {m1}
  Lens = {1, 2}
  BUFFERS = 2
  RingSize = 2
  UMAX = 7
  Bufs = {b1, b2, b3}
  NoBuf = NoBuf
  NoMsg = NoMsg
  Notifies = {TRUE}
  IoEventFd = TRUE
  PromptIrq = FALSE
  MayStop = FALSE
  MayUnplug = FALSE
  MayFault = FALSE
SPECIFICATION Spec
INVARIANT
  SgWithinAlloc
CHECK_DEADLOCK FALSE
