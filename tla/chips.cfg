SPECIFICATION ChipsSpec
CONSTANTS
  VdpJobs <- MCVdpJobs
  TickTimes <- MCTickTimes
  FieldLines <- MCFieldLines
  TmsJobs <- MCTmsJobs
  SpriteJobs <- MCSpriteJobs
  Content <- MCContent
  ScreenJobs <- MCScreenJobs
  DotsX <- MCDotsX
  DotsY <- MCDotsY
  SectorBytes = 2
  TcJobs <- MCTcJobs
  Motions <- MCMotions
  MouseJobs <- MCMouseJobs
  SoundJobs <- MCSoundJobs
  Span = 5
  Samples = 3
  MaxEvents = 2
  RtcJobs <- MCRtcJobs
  CyclesPerSecond = 3
  InputJobs <- MCInputJobs
  MaxReleases = 2
  AnyKeys = FALSE
INVARIANTS
  IrqFollowsFlags
  ControlPairLands
  PictureFollowsTheRaster
  CommandsDrawAsNamed
  MouseMotionConserved
  FramePlaysItsWrites
  TimeRunsOn
  InputFollowsHands
PROPERTY
  DisksWrittenAsAsked
CHECK_DEADLOCK FALSE
