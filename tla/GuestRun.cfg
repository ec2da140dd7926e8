CONSTANTS
  MemArgs <- MCMemArgs
  Garbage = {0, 7}
  MaxOptions = 2
  KILO = 4
  WORD = 256
  COLS = 3
  LAST = 10
  Texts <- MCTexts
  Numbers = {171, 4097}
  Digits = 2
  MaxSerial = 2
SPECIFICATION FairSpec
INVARIANTS
  
  SurvivingFailures
  GatesComplete
  InterruptInTime
  TerminalFaithful
PROPERTIES
  KeyServed
CHECK_DEADLOCK FALSE
