SPECIFICATION FairSpec
CONSTANTS
  Proc = {c1}
  Parent = c1
  File = {"page"}
  InitSize <- Sizes
  MAXFD = 3
  MAXOPEN = 1
  MaxSize = 1
  MaxOps = 4
  None = None
PROPERTY CallsReturn
CHECK_DEADLOCK FALSE
