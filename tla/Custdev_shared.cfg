CONSTANTS
  Readers = {r}
  Writers = {w1, w2}
  Msgs = {m1}
  Lens = {1}
  BUFFERS = 1
  RingSize = 2
  UMAX = 7
  Bufs = {b1, b2, b3}
  NoBuf = NoBuf
  NoMsg = NoMsg
  Notifies = {TRUE}
  IoEventFd = TRUE
  PromptIrq = FALSE
  MayStop = TRUE
  MayUnplug = TRUE
  MayFault = FALSE
SPECIFICATION Spec
INVARIANTS
  TxOwnership
  RxNoUseAfterFree
  NullPopExplained
  StoredBelowCount
VIEW NoResults
SYMMETRY Symmetry
CHECK_DEADLOCK FALSE
