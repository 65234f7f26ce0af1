SPECIFICATION Spec
CONSTANTS
  NBLOCK = 20
  BY2BLK = 2
  BIT2BLK = 16
  BIT2WORD = 4
  BIT2BYTE = 2
  NDIRECT = 2
  NINDIRECT = 4
  FILE2BLK = 2
  HostFile <- MCHostFile
  Hosts <- MCHosts
  Others = {"zz"}
  TooLong = "a_very_long_name"
CHECK_DEADLOCK FALSE
INVARIANTS TypeOK PathsExact Sound NoneLost Boots
