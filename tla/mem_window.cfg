SPECIFICATION LibSpec
CONSTANTS
  Env = {e1, e2}
  NULL = NULL
  HEAD = HEAD
  UserVa = {"null", "va"}
  NullVa = "null"
  PtVa <- MCWindow
  HighVa <- MCHighVa
  PdVa = "pd"
  PtOf <- MCPtOf
  Page = {p1, p2, p3}
  NASID = 2
  Perm = {"D"}
  PTE_D = "D"
  PTE_R = "D"
  NoPage = NoPage
  NoPte = NoPte
  RefMod = 16
  ImageVa <- MCNoImage
  Pri = {1}
  Boots = 1
  TlbSize = 1
  MaxId = 3
  Console = FALSE
CHECK_DEADLOCK FALSE
INVARIANT
  EnvFreesAll
