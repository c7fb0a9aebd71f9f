CONSTANTS
  Renders = {1}
  Job <- MCJob
  BlockSize = 2
  Candidates = 2
  None = None
  EmptyDir = EmptyDir
SPECIFICATION Spec
PROPERTY NothingOverwritten
CHECK_DEADLOCK FALSE
