CONSTANTS
  Renders = {1, 2, 3}
  Job <- MCJob
  BlockSize = 2
  Candidates = 2
  None = None
  EmptyDir = EmptyDir
SPECIFICATION Spec
INVARIANTS
  TypeOK
  CompleteOrAbsent
  OnlyTheDeadLeaveTraces
PROPERTY ResultStays
CHECK_DEADLOCK FALSE
