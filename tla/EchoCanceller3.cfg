SPECIFICATION FairSpec
CONSTANTS
  QueueSize = 2
  Label = {a, b}
  Quiet = quiet
  SubFrameCounts = {1, 2}
  Delay = 7
INVARIANTS
  TypeOK
PROPERTIES
  CaptureSpec
  RenderSpec
  AcceptedIsHeard
