CONSTANTS
  Thread = {t1, t2, t3}
  NoThread = none
  MaxSpin = 1
  MaxDepth = 2
  Waiter = {w1, w2}
  Tracer = {t1}
  Main = main
  MaxEvents = 3
  MaxSessions = 2
SPECIFICATION MCSpec
INVARIANTS
  TypesOK
  MutualExclusion
  SessionLogged
PROPERTIES
  EnterReturns
  EventSpec
  StopReturns
