SPECIFICATION Spec
CONSTANTS
  p1 = p1
  p2 = p2
  p3 = p3
  Proc = {p1, p2}
  NFd = 3
  BY2PIPE = 2
  PosMod = 4
  IndexFirst = FALSE
  Ops = {"check", "close", "dup", "fork"}
  Sizes = {1}
  MaxBytes = 0
  Start <- Created
CHECK_DEADLOCK FALSE
INVARIANT
  NoFalseClose
