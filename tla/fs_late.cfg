SPECIFICATION Spec
CONSTANTS
  FileName = {f1, f2}
  NBlk = 7
  NDIRECT = 1
  NINDIRECT = 2
  BY2BLK = 2
  Bnos = {0, 1}
  Words = {0, 4, 7}
INVARIANT
  TruncateFrees
SYMMETRY Symm
