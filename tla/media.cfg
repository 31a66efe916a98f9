SPECIFICATION Spec
CONSTANTS
  f1 = f1
  f2 = f2
  s1 = s1
  Srams <- SramsDef
  Drives <- DrivesDef
  DriveA = 10
  DriveB = 11
  DiskFiles = {f1, f2}
  SramFile <- SramFileDef
  FddList <- TwoImages
  Fdd2 = f2
  None = None
  MaxWrites = 3
  AnyFile = FALSE
INVARIANTS TableMatchesDrives CleanMatchesFile NoLostUpdate CleanExitKeepsAll
PROPERTY SaveStateNamesFiles
CHECK_DEADLOCK FALSE
