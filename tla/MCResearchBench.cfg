CONSTANTS
  Clients = {c1, c2}
  Sources = {s1, s2}
  Texts = {t1, t2}
  None = None
  Partial = Partial
  MaxRenders = 2
SPECIFICATION FairSpec
INVARIANTS
  TypeOK
  OneRenderer
  NoOrphan
  RenderedAsAsked
  NewestResultKept
  ReaderSafe
PROPERTIES
  ShutdownCompletes
  RenderAnswered
CHECK_DEADLOCK FALSE
