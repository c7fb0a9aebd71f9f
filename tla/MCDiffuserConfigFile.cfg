CONSTANTS
  WordSize = 128
  Requests = {}
  Documents <- MCDocuments
  MemoryBudget = 100
  SampleBytes = 2
  MetadataBytes = 1
  ModulationBytes = 1
SPECIFICATION Spec
INVARIANT BudgetCovers
CHECK_DEADLOCK FALSE
