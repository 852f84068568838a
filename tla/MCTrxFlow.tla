------------------------------ MODULE MCTrxFlow ------------------------------
(***************************************************************************)
(* Small instances of TrxFlow.                                             *)
(***************************************************************************)
EXTENDS TrxFlowProperties, TLC

CONSTANTS f1, f2, t1, t2, q1, q2

\* The usual packet, and one whose track is elsewhere and a plain field.
Usual == [offset |-> 1, cells |-> 1, block |-> TRUE]
Plain == [offset |-> 2, cells |-> 2, block |-> FALSE]
TwoPkts == {Usual, Plain}

Symmetric == Permutations({f1, f2}) \cup Permutations({t1, t2}) \cup Permutations({q1, q2})
=============================================================================
