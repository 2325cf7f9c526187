CONSTANTS
  b1 = b1
  b2 = b2
  b3 = b3
  b4 = b4
  Bricks <- MCBricks3
  Meta = b1
  Cap <- MCCapEqual
  InitNumsBits = 2
  MaxShift = 3
  MaxOcc = 2
  CapValues = {}
  FactBits = {1}
  Id <- MCId
  PackEntries = 3
SPECIFICATION Spec
INVARIANT NoUB
