----------------------------- MODULE TimerService -----------------------------
(***************************************************************************)
(* What utility/export/timer.h promises of guarded timers, with true time  *)
(* and no list: a callback runs only for a timer that is armed and whose   *)
(* delay is over, and never for one that was stopped or destroyed.         *)
(***************************************************************************)
EXTENDS Integers

CONSTANTS Timers, None, MaxDelay

VARIABLES
  armed,    \* timers waiting for their callback
  togo,     \* milliseconds until each armed timer may fire
  asked,    \* the start or restart being carried out, if any
  running   \* the timer whose callback runs

vars == <<armed, togo, asked, running>>

Request == [timer : Timers, togo : 0..MaxDelay]
Nobody == [timer |-> None, togo |-> 0]
Less(x) == IF x = 0 THEN 0 ELSE x - 1

Init ==
  /\ armed = {}
  /\ togo = [t \in Timers |-> 0]
  /\ asked = Nobody
  /\ running = None

Tick ==
  /\ togo' = [t \in Timers |-> Less(togo[t])]
  /\ asked' = [asked EXCEPT !.togo = Less(@)]
  /\ UNCHANGED <<armed, running>>

\* The delay counts from here.
Ask(t, d) ==
  /\ asked = Nobody
  /\ asked' = [timer |-> t, togo |-> d]
  /\ UNCHANGED <<armed, togo, running>>

\* An armed timer keeps the time it was armed for.
Arm ==
  /\ asked # Nobody
  /\ armed' = armed \cup {asked.timer}
  /\ togo' = IF asked.timer \in armed THEN togo
                                      ELSE [togo EXCEPT ![asked.timer] = asked.togo]
  /\ asked' = Nobody
  /\ UNCHANGED running

Disarm(t) ==
  /\ t \in armed
  /\ armed' = armed \ {t}
  /\ togo' = [togo EXCEPT ![t] = 0]
  /\ UNCHANGED <<asked, running>>

Fire(t) ==
  /\ running = None
  /\ t \in armed /\ togo[t] = 0
  /\ armed' = armed \ {t}
  /\ running' = t
  /\ UNCHANGED <<togo, asked>>

Finish ==
  /\ running # None
  /\ running' = None
  /\ UNCHANGED <<armed, togo, asked>>

Next ==
  \/ Tick \/ Arm \/ Finish
  \/ \E t \in Timers : Disarm(t) \/ Fire(t) \/ \E d \in 0..MaxDelay : Ask(t, d)

Spec == Init /\ [][Next]_vars
=============================================================================
