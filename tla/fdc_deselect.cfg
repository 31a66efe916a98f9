SPECIFICATION Spec
CONSTANTS
  NumDrives = 2
  Disks = {a, b}
  NoDisk = none
  Protected = {b}
  NumSectors <- DiskSectors
  Spt <- TrackSectors
  Sides <- DiskSides
  RegSize = 2
  Bytes = {0, 1}
  SectorSize = 2
  IdSize = 1
  TrackBytes = 1
  AtStart <- FirstDisks
  Polite = FALSE
  MaxWrites = 1
  MaxSwaps = 1
  MaxSaves = 0
INVARIANTS BufferOfMountedDisk
