CONSTANTS
  WordSize = 128
  Requests <- MCRequests
  Documents = {}
  MemoryBudget = 100
  SampleBytes = 2
  MetadataBytes = 1
  ModulationBytes = 1
SPECIFICATION Spec
INVARIANTS
  TypeOK
  SegmentsTile
  PermutationKept
  DrawsUniform
  ResolvedIsAccepted
  BudgetCovers
CHECK_DEADLOCK FALSE
