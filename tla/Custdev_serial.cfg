CONSTANTS
  Readers = {c}
  Writers = {c}
  Msgs = {m1, m2}
  Lens = {1, 2}
  BUFFERS = 2
  RingSize = 1
  UMAX = 7
  Bufs = {b1, b2}
  NoBuf = NoBuf
  NoMsg = NoMsg
  Notifies = {TRUE}
  IoEventFd = FALSE
  PromptIrq = TRUE
  MayStop = FALSE
  MayUnplug = FALSE
  MayFault = TRUE
SPECIFICATION FairSpec
INVARIANTS
  TypeOK
  CountsAgree
PROPERTIES
  ImplementsStack
  ReadReturns
  WriteReclaimed
CHECK_DEADLOCK FALSE
