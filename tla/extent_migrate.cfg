CONSTANTS
  a = a
  b = b
  NoBrick = NoBrick
  Bricks <- MCBricks
  NPages = 5
  StripePages = 2
  Granularity = 2
  Faults <- MCSafeFaults
  MaxTruncates = 1
SPECIFICATION Spec
INVARIANT TypeOK
 
INVARIANT ResumeSound
INVARIANT RefsReleased
PROPERTY Termination
PROPERTY Refinement
CHECK_DEADLOCK FALSE
