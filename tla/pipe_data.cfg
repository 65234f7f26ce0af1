SPECIFICATION FairSpec
CONSTANTS
  p1 = p1
  p2 = p2
  p3 = p3
  Proc = {p1, p2}
  NFd = 1
  BY2PIPE = 2
  PosMod = 6
  IndexFirst = FALSE
  Ops = {"read", "write", "close"}
  Sizes = {1, 3}
  MaxBytes = 5
  Start <- Split
CHECK_DEADLOCK FALSE
INVARIANT
  TypeOK
PROPERTIES
  PipeIsFifo
  ReadReturns
  WriteReturns
