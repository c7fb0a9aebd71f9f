CONSTANTS
  Channels = {1, 2}
  Delay <- MCDelay
  Modulated = {1}
  ExcursionFloor = 1
  ExcursionCeil = 1
  Interpolation = "lagrange3"
  MaxChunkFrames = 8
  Capturing = FALSE
  Zero = 0
  Quiet = 0
  Tapped <- MCTapped
  Returned <- MCReturned
  Remembered <- MCRemembered
  Mix <- MCMix
  Plus <- MCPlus
  Flush <- MCFlush
  MaxFrames = 18
  Signals <- MCSignals
  Trajectories <- MCTrajectories
SPECIFICATION Spec
INVARIANTS
  TypeOK
  RingsHoldHistory
  ChunkInFlight
PROPERTY ImplementsNetwork
CHECK_DEADLOCK FALSE
