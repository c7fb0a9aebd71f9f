CONSTANTS
  Sample = {0, 1}
  Zero = 0
  Lines <- MCLines
  MaxChunk = 4
  MaxFrames = 9
SPECIFICATION Spec
INVARIANTS
  TypeOK
  RingHoldsHistory
  HeardExact
CHECK_DEADLOCK FALSE
