------------------------------- MODULE TxService -------------------------------
(***************************************************************************)
(* What a TX_FLOW (export/flow.h) is to its owner, without calls, jobs,    *)
(* free lists or hardware: it is off, or on at a port - then it has a      *)
(* queue on both physical ports of the pair in force and cells for its     *)
(* packets, which no other flow has.  A pair is rewired, and its limits    *)
(* are set anew, only while all flows of the port are off.                 *)
(***************************************************************************)
EXTENDS Integers, FiniteSets, Functions

CONSTANTS Flows, Ports, Pair, Queues, QueuesOf, Cells, None

VARIABLES
  on,       \* what each flow has
  wired,    \* the interface whose pair carries the traffic of each port
  limits    \* the interface whose pair has the limits of each port

vars == <<on, wired, limits>>

Off == [port |-> None]
OnAt(p) == {f \in Flows : on[f].port = p}
Taken(d) == {on[f].cosq : f \in {g \in Flows : on[g] # Off /\ d \in {on[g].front, on[g].engine}}}
Used == SumFunction([f \in Flows |-> IF on[f] = Off THEN 0 ELSE on[f].cells])

Init ==
  /\ on = [f \in Flows |-> Off]
  /\ wired \in [Ports -> UNION {DOMAIN Pair[p] : p \in Ports}]
  /\ \A p \in Ports : wired[p] \in DOMAIN Pair[p]
  /\ limits = wired

Begin(f, p) ==
  /\ on[f] = Off
  /\ limits[p] = wired[p]
  /\ LET pair == Pair[p][wired[p]]
     IN  \E q \in Queues, k \in 1..Cells :
           /\ on' = [on EXCEPT ![f] = [port |-> p, front |-> pair.front, engine |-> pair.engine,
                                       cosq |-> q, cells |-> k]]
           /\ \A d \in {pair.front, pair.engine} : q \in QueuesOf[d] \ Taken(d)
           /\ Used + k <= Cells
  /\ UNCHANGED <<wired, limits>>

End(f) ==
  /\ on[f] # Off
  /\ on' = [on EXCEPT ![f] = Off]
  /\ UNCHANGED <<wired, limits>>

Rewire(p) ==
  /\ OnAt(p) = {}
  /\ \E i \in DOMAIN Pair[p] : wired' = [wired EXCEPT ![p] = i]
  /\ UNCHANGED <<on, limits>>

Relimit(p) ==
  /\ OnAt(p) = {}
  /\ \E i \in DOMAIN Pair[p] : limits' = [limits EXCEPT ![p] = i]
  /\ UNCHANGED <<on, wired>>

Next ==
  \/ \E f \in Flows : End(f) \/ \E p \in Ports : Begin(f, p)
  \/ \E p \in Ports : Rewire(p) \/ Relimit(p)

Spec == Init /\ [][Next]_vars
=============================================================================
