CONSTANTS
  b1 = b1
  b2 = b2
  b3 = b3
  b4 = b4
  Bricks <- MCBricks3
  Meta = b1
  Cap <- MCCapEqual
  InitNumsBits = 3
  MaxShift = 4
  MaxOcc = 2
  CapValues = {2}
  FactBits = {}
  Id <- MCId
  PackEntries = 3
SPECIFICATION Spec
INVARIANT NoUB
 
PROPERTY DistRefinement
