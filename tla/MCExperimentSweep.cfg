CONSTANTS
  Tools = {"tail", "damping", "modulation", "spatial", "diffusion"}
  Catalogs <- MCCatalogs
  Samples <- MCSamples
  OutputOf <- MCOutputOf
  Medians = {1, 2}
  None = None
  Truncated = Truncated
  MaxFaults = 2
  MaxDepth = 4
  IntegerOf <- MCIntegerOf
  TokenOf <- MCTokenOf
SPECIFICATION Spec
INVARIANTS
  TypeOK
  PointCoherent
  ExitZeroIsComplete
  ReportsTrueOfDisk
PROPERTIES
  ResumedNotRepeated
  RenderedInScope
  Recovers
