CONSTANTS
  Kinds <- AllKinds
  Roms <- MCRoms
  Addrs <- MCAddrs
  Values <- MCValues
  Data = {0, 255}
  Blank = 0
  Machines <- MCMachines
  Registers <- MCRegisters
  SegmentBytes <- MCSegmentBytes
  FmMagic = {77, 105}
  FmBytes = {1, 17}
  FmData = {0, 255}
SPECIFICATION BusSpec
INVARIANTS
  CopiesFollowBanks
  SlotInfoIsRead
  RamIsInMainRange
PROPERTIES
  LoadShowsWhatWasSaved
  StoresOnlyWhereShown
  ImplementsTable
