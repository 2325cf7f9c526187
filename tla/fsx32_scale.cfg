CONSTANTS
  b1 = b1
  b2 = b2
  b3 = b3
  b4 = b4
  Bricks <- MCBricks2
  Meta = b1
  Cap <- MCCapEqual
  InitNumsBits = 2
  MaxShift = 4
  MaxOcc = 2
  CapValues = {}
  FactBits = {1, 2}
  Id <- MCId
  PackEntries = 3
SPECIFICATION Spec
INVARIANT TypeOK
INVARIANT TableBalanced
PROPERTY DistRefinement
