SPECIFICATION SuiteSpec
CONSTANTS
  None = None
  RtlRates = {1, 2}
  RtlCentres = {5, 100}
  RtlGains = {0, 1}
  RtlPpms = {0, 1}
  RtlHf = {5}
  RtlCalLo = 56
  RtlQueue = 2
  RtlChunks = 3
  RtlAsked <- StreamAsked
  MicChunk = 3
  MicBuffered = 2
  MicCallbacks = {1, 3}
  MicConfigs <- HostConfigs
  MicChannels = {1, 2}
  MicSignals <- HeardSignals
  MicSamples = 14
  Ranges = {2, 7}
  Levels = {0}
  Zero = 0
  VdsRates = {1, 250}
  BaseRate = 250
  SlowRates = {1}
  Positions = {0, 50}
  VdsCentre = 50
  Sweeps = {"auto"}
  VdsAsked <- AskedOfScope
  PlayServices = {"s1", "s2"}
  PlayRefused = {"s2"}
  PlayModes = {"wfm", "nfm"}
  WarmUp = 1
  JobCap = 2
  OutCap = 2
  Prime = 2
  SinkCap = 2
  MaxSeams = 2
  Steps = 5
  Skipped = {1, 2, 4}
  SettleFrames = 1
  DwellFrames = 2
  Keep = 1
  EventCap = 2
  MaxRuns = 2
  LabPlaces = {1, 3}
  LabCentres = {1, 2}
  LabSettings = {"auto", "qpsk"}
  LabSlack = 0
  LabActive = 1
  LabHold = 1
  LabEvery = 2
  LabFrames = 4
  LabLinks = 0
  LabEdits = 2
  Programmes <- SentProgrammes
  MuxDepth = 4
  Delay <- Interleaving
  CifsPerFrame = 2
  CuPerCif = 864
  FibsPerFrame = 12
  FibDataBytes = 30
  Damages <- FibsHeard
  MaxCifs = 10
  LblLengths <- MessageLengths
  NoTable = NoTable
  ClockStrikes = 2
  TableExpiry = 3
  LockWindow = 4
  Depth = 3
  Plans = {p1, p2}
INVARIANTS
  AppliedIsHeld  EveryChunkCounts DeskIsTrue
  HistoryIsWhole TableIsHeard GoodSignalIsPublished
  OneVoice PlaysTheSelection CoverageIsThePlan NothingIsMixed
CHECK_DEADLOCK FALSE
