SPECIFICATION Spec
CONSTANTS
  W = 5
  BUF_LEN = 3
  BUFSIZE = 3
  AddrSize = 32
  UTEMP = 4
  UTOP = 20
  Devices <- MCDevices
  BY2PG = 32
  USTACKBASE = 128
  UTEMPPAGE = 64
  Formats = {}
  Args <- MCArgs
  Widths = {0, 1, 2, 3, 6, 8}
  Bases = {}
  Numbers = {0, 1, 7, 9, 10, 15, 16, 31}
  MaxChunk = 0
  MemSize = 1
  Typed = {}
  CmdLines = {}
  Programs <- MCFewPrograms
  PhNums = {0, 1, 2, 3}
  Junk = {0, 1, 7}
  MaxStr = 5
  MaxArgc = 0
CHECK_DEADLOCK FALSE
INVARIANT SegmentsMapped
