CONSTANTS
  t1 = t1
  t2 = t2
  m = m
  x = x
  Threads <- MCThreads
  Bricks <- MCBricks
  Meta = m
  Caps = {1, 2}
  MaxScale = 1
  Opcodes <- MCOther
  Faults <- MCOtherFaults
  MaxCrash = 0
  NoBrick = NoBrick
  Misdirected <- MCMisdirected
SPECIFICATION Spec
INVARIANT ExclusiveAccess
