SPECIFICATION Spec
CONSTANTS
  Lines = 3
  FrameCycles = 3
  Costs <- CostsDef
  Splits <- TwoSplits
  FirstSplit = 0
  Kinds <- BothKinds
  PCs <- PCsDef
  SPs <- SPsDef
  Cpus <- CpusDef
  SpRange <- SpRangeDef
  MaxFrames = 2
  MaxArmed = 1
INVARIANTS
  CyclesAccounted
  StopsAreReported
  MotionOncePerFrame
PROPERTIES
  ImplementsFrames
  ResumeMakesProgress
  StepKeepsBreaks
  CallsReturn
