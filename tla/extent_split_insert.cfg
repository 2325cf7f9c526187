CONSTANTS
  a = a
  b = b
  NoBrick = NoBrick
  Bricks <- MCBricks
  NPages = 4
  StripePages = 2
  Granularity = 2
  Faults <- MCSplitInsertFault
  MaxTruncates = 0
SPECIFICATION SpecWithLoss
INVARIANT DataPreserved
CHECK_DEADLOCK FALSE
