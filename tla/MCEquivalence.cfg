CONSTANTS
  Workers = {w1, w2}
  Names <- MCNames
  Contents <- MCContents
  None = None
  Partial = Partial
  Posix = TRUE
  Renders <- MCRenders
  OtherMeasured <- MCOtherMeasured
  Lost = Lost
  MaxFrames = 5
  MaxChanges = 1
  Platform = "macos-x86_64"
  Elsewhere <- MCElsewhere
  Architecture <- MCArchitecture
  LabelOrder <- MCLabelOrder
  Tolerance <- MCTolerance
SPECIFICATION Spec
INVARIANTS
  PublicationInv
  EvidenceOfThisRender
  UntouchedIsAnalyzed
  EquivalenceSound
PROPERTIES
  PublishedOnce
SYMMETRY Symmetric
CHECK_DEADLOCK FALSE
