SPECIFICATION Spec
CONSTANTS
  Lines = 3
  FrameCycles = 3
  Costs <- OneCost
  Splits <- OneSplit
  FirstSplit = 1
  Kinds <- V9938Only
  PCs <- PCsDef
  SPs <- SPsDef
  Cpus <- CpusDef
  SpRange <- SpRangeDef
  MaxFrames = 2
  MaxArmed = 1
PROPERTY
  FirstInstructionSkipsTest
