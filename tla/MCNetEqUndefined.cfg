SPECIFICATION Spec
CONSTANTS
  HalfSeq = 8
  HalfTs = 6
  MaxPackets = 2
  Rate <- MCRate
  Comfort <- MCComfort
  Arrivals <- MCArrivals
  Horizon = 3
  Lead = 2
  Lag = 1
  Drift = 3
  MaxRequired = 2
  MaxNoise = 2
  StartRate = 16
  Changeable = {"speech"}
  FirstAt = 10
  LastAt = 12
INVARIANT UndefinedOnlyForNewCodec
