------------------------------- MODULE MCTxFlow -------------------------------
(***************************************************************************)
(* Small instances of TxFlow: ports whose two interfaces swap the front    *)
(* and the engine role, as in sys_adapt/src/device.cpp.                    *)
(***************************************************************************)
EXTENDS TxFlowProperties, TLC

CONSTANTS f1, f2, p1, p2

OneSwap == (p1 :> [sfp |-> [front |-> 3, engine |-> 2], rj45 |-> [front |-> 2, engine |-> 3]])
TwoPorts == OneSwap @@
  (p2 :> [sfp |-> [front |-> 5, engine |-> 4], rj45 |-> [front |-> 4, engine |-> 5]])

\* Ports with as many queues, and an engine port with one more than its front.
OneQueue == [d \in 2..5 |-> {0}]
UnevenQueues == [d \in 2..5 |-> IF d \in {2, 4} THEN {0, 1, 2} ELSE {0, 1}]

Plain == [cells |-> 1, slow |-> FALSE, burst |-> FALSE]
Large == [cells |-> 2, slow |-> FALSE, burst |-> TRUE]
SlowOne == [cells |-> 1, slow |-> TRUE, burst |-> FALSE]
SomeLoads == {Plain, Large}
MixedLoads == {Plain, SlowOne}
HardLoads == {Large, SlowOne}

Symmetric == Permutations({f1, f2})
=============================================================================
