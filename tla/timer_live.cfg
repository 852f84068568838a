SPECIFICATION FairSpec
CONSTANTS
  t1 = t1
  t2 = t2
  c1 = c1
  thr = thr
  none = none
  Timers <- MCTimers
  Clients <- MCClients
  Thread <- thr
  None <- none
  Delays <- ShortDelays
  MaxMs = 63
  StandBy = 2
  LastInit <- FromZero
  Horizon = 3
  Guarded = TRUE
  ClientOps <- StartStop
  CallbackOps <- CbStart
  CanThrow = TRUE
PROPERTY
  EventuallyHandled
CHECK_DEADLOCK FALSE
