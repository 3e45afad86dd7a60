CONSTANTS
  HalfSeq = 4
  HalfTs = 6
  MaxPackets = 3
  Comfort <- MCComfort
  Rate <- MCRate
  Copy <- MCCopy
  Limits <- MCLimits
  Horizons = {0, 2, 3}
  TsModulus = 16
  Media <- MCMedia
  FirstTs = 13
  Scales <- MCScales
  MaxRed = 2
  MaxStreams = 2
  SnModulus = 8
  InitSn = 1
  PayloadLen = 4
  UnitLengths <- MCLengths
  MaxUnits = 3
  AudioValue = {1, 2}
  SyncValue = {0, 1}
  MaxSize = 3
  MaxPiece = 2
  Length = 3
  ToneModulus = 64
  FirstTime = 49
  Tones <- MCTones
  ToneFrame = 2
  Extrapolation = 2
  ToneSteps = {1, 2, 3}
  Lead = 2
  Lag = 2
  LastTime = 16
  Corrections <- MCCorrections
  Frame = 2
  ReportInterval = 2
  LoggingPeriod = 2
  MaxSamples = 2
  MaxOutages = 1
  Thread = {"t1", "t2"}
  Site = {"fast", "other", "slow"}
  Name <- MCName
  Fast = {"fast", "other"}
  Samples = {0, 2, 4}
  Lowest = 2
  Highest = 3
  kMaxSampleMapSize = 2
  MaxCalls = 3
  One = 512
  FactorOne = 128
  StartOne = 8
  HalfCount = 4
  HalfClock = 10
  Arriving <- MCArriving
  Configs <- MCConfigs
  PacketLengths = {1, 2}
  AskedDelays = {0, 1, 2}
  BufferPackets = 4
  BucketSize = 1
  NumBuckets = 4
  BaseFactor = 120
  Probability = 486
  MaxHistory = 2
  MaxReordered = 1
  MaxBase = 10
  PeakHeight = 1
  MaxPeakPeriod = 2
  MinPeaks = 1
  MaxPeaks = 2
  MaxLead = 1
  MaxLag = 1
  MaxWait = 2
  MaxArrivals = 7
  Lags = {3, 4, 5, 6}
  LagWindow = 2
  Initial = 0
  Converged = 1
  StableBlocks = 0
  BlockLag = 1
  Headroom = 3
  Hysteresis = 1
SPECIFICATION MCSpec
INVARIANTS
  TypesOK
  HoldsTheBest
  DiscardsWhatIsOld
  MassIsOne
  RelativeDelayTrue
  LimitsOrdered
  VectorIsList
  WindowKept
  CountsTrue
  CopiesAgree
  DelayFounded
  UnitsWhole
  SamplesConserved
PROPERTY
  ToneInTime
CHECK_DEADLOCK FALSE
