CONSTANTS
  Files = {1, 2, 3}
  SuffixValues = {"", "-wet"}
  OutputName <- MCOutputName
  Outputs <- MCOutputs
  Configs = {c1, c2}
  Nothing = Nothing
  Partial = Partial
  MaxRuns = 3
SPECIFICATION FolderSpec
INVARIANTS
  FolderTypeOK
  RequestDescribesItsRun
  PlanComplete
CHECK_DEADLOCK FALSE
