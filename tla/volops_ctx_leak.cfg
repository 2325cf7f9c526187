CONSTANTS
  t1 = t1
  t2 = t2
  m = m
  x = x
  Threads <- MCThreads
  Bricks <- MCBricks
  Meta = m
  Caps = {1, 2}
  MaxScale = 1
  Opcodes <- MCPrint
  Faults <- MCEntryFaults
  MaxCrash = 1
  NoBrick = NoBrick
  Misdirected = {}
SPECIFICATION Spec
INVARIANT ContextReleased
