SPECIFICATION FairLibSpec
CONSTANTS
  Env = {e1, e2, e3}
  NULL = NULL
  HEAD = HEAD
  UserVa = {"null"}
  NullVa = "null"
  PtVa <- MCPtVa
  HighVa <- MCNoHighVa
  PdVa = "pd"
  PtOf <- MCPtOf
  Page = {p1, p2, p3}
  NASID = 3
  Perm = {"D"}
  PTE_D = "D"
  PTE_R = "D"
  NoPage = NoPage
  NoPte = NoPte
  RefMod = 16
  ImageVa <- MCNoImage
  Pri = {1, 2}
  Boots = 2
  TlbSize = 0
  MaxId = 3
  Console = TRUE
CHECK_DEADLOCK FALSE
INVARIANTS
  SchedListInvariant
  CurenvRunnable
PROPERTIES
  WaitsOnlyByOwnCall
  NoStarvation
