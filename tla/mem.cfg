SPECIFICATION LibSpec
CONSTANTS
  Env = {e1, e2}
  NULL = NULL
  HEAD = HEAD
  UserVa = {"null", "va"}
  NullVa = "null"
  PtVa <- MCWindow
  HighVa <- MCHighVa
  PdVa = "pd"
  PtOf <- MCPtOf
  Page = {p1, p2, p3, p4, p5}
  NASID = 2
  Perm = {"D"}
  PTE_D = "D"
  PTE_R = "D"
  NoPage = NoPage
  NoPte = NoPte
  RefMod = 16
  ImageVa = {"va"}
  Pri = {1}
  Boots = 1
  TlbSize = 1
  MaxId = 3
  Console = FALSE
SYMMETRY Symm
CHECK_DEADLOCK FALSE
INVARIANTS
  TypeOK
  PageRefsExact
  FreePagesUnmapped
  PageTablesSound
  TlbCoherent
  AsidsExact
  NoInternalPanic
