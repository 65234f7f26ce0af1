SPECIFICATION Spec
CONSTANTS
  Proc = {p1, p2, p3}
  Order <- Pages
  Lib = {"shared"}
  Unmapped = {"heap"}
  Stack = "stack"
  NPage = 19
  Val = {0, 1}
  Frame = 1
  MaxOps = 3
  Parent = p1
  None = None
INVARIANTS TypeOK WritableIsPrivate FaultsHandled
PROPERTY MemoryIsPrivate
CHECK_DEADLOCK FALSE
SYMMETRY Symm
