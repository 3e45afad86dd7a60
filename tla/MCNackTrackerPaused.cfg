CONSTANTS
  HalfSeq = 8
  HalfTs = 160
  Threshold = 1
  SizeLimit = 3
  DefaultRate = 1
  Rates <- MCRates
  Stream <- MCStream
  MaxLag = 4
  PacketSpan = 20
  MaxExt = 19
SPECIFICATION Spec
PROPERTY AddToListAssertion
