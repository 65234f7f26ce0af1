SPECIFICATION FairSpec
CONSTANTS
  Lines <- MCLines
  Missing = {"nosuch"}
  MAXARGS = 3
  NFd = 5
  BY2PIPE = 1
  Len0 = 2
  MaxProc = 7
  MaxFail = 1
CHECK_DEADLOCK FALSE
INVARIANTS TypeOK Wired PromptMeansDone
PROPERTY CommandEnds
