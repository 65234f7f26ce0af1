SPECIFICATION FairSpec
CONSTANTS
  Proc = {c1, c2}
  Parent = c1
  File = {"empty", "page"}
  InitSize <- Sizes
  MAXFD = 3
  MAXOPEN = 3
  MaxSize = 1
  MaxOps = 4
  None = None
INVARIANTS TypeOK DescriptorsStable
PROPERTY RequestsAnswered
CHECK_DEADLOCK FALSE
