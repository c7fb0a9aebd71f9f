CONSTANTS
  Clients = {c1}
  Sources = {s1}
  Texts = {t1}
  None = None
  Partial = Partial
  MaxRenders = 1
SPECIFICATION Spec
INVARIANT SessionRemoved
CHECK_DEADLOCK FALSE
