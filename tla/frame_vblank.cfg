SPECIFICATION Spec
CONSTANTS
  Lines = 3
  FrameCycles = 3
  Costs <- CostsDef
  Splits <- TwoSplits
  FirstSplit = 0
  Kinds <- V9938Only
  PCs <- PCsDef
  SPs <- SPsDef
  Cpus <- CpusDef
  SpRange <- SpRangeDef
  MaxFrames = 1
  MaxArmed = 1
PROPERTY
  RenderBeforeHandler
