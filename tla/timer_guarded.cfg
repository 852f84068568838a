SPECIFICATION Spec
CONSTANTS
  t1 = t1
  t2 = t2
  c1 = c1
  thr = thr
  none = none
  Timers <- MCTimers
  Clients <- MCClients
  Thread <- thr
  None <- none
  Delays <- TwoDelays
  MaxMs = 63
  StandBy = 2
  LastInit <- FromHeap
  Horizon = 4
  Guarded = TRUE
  ClientOps <- AllOps
  CallbackOps <- CbAll
  CanThrow = FALSE
INVARIANTS
  TypeOK
  ListSound
  NeverTouchesDestroyed
  ListExact
  StartedIsScheduled
PROPERTY
  FiresOnTime
  ImplementsService
CHECK_DEADLOCK FALSE
