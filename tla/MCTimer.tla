------------------------------- MODULE MCTimer -------------------------------
(***************************************************************************)
(* Constants of the TimerThread runs.                                      *)
(***************************************************************************)
EXTENDS TimerProperties

CONSTANTS t1, t2, c1, thr, none

MCTimers == {t1, t2}
MCClients == {c1}
AllOps == {"start", "stop", "destroy"}
StartStop == {"start", "stop"}
CbStart == {"start"}
CbAll == {"start", "stop"}
FromZero == {0}
\* Zeroed heap memory, or a value the clock is not about to pass.
FromHeap == {0, 60}
TwoDelays == {0, 2}
ShortDelays == {1, 2}
=============================================================================
