CONSTANTS
  t1 = t1
  t2 = t2
  m = m
  x = x
  Threads <- MCThreads
  Bricks <- MCBricks
  Meta = m
  Caps = {1}
  MaxScale = 1
  Opcodes <- MCReconf
  Faults <- MCFaults
  MaxCrash = 1
  NoBrick = NoBrick
  Misdirected = {}
SPECIFICATION Spec
INVARIANT TypeOK ExclusiveAccess Recoverable Resumable BalanceAssertions DataBricksActive
PROPERTY Termination
