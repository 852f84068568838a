------------------------------- MODULE MCRxFlow -------------------------------
(***************************************************************************)
(* Small instances of RxFlow.                                              *)
(***************************************************************************)
EXTENDS RxFlowProperties

CONSTANTS f1, f2, v1, v2, t1, t2, t3

\* One port whose interfaces swap, one that stays as it is.
Swapped == 1 :> {2, 3} @@ 2 :> {4}

\* Three windows.  Wide needs two, Deep and Far one each: of Wide and Twin the
\* second throws, Wide after it took the window that was left.
WideUdf == [offset |-> 4, length |-> 4]
DeepUdf == [offset |-> 11, length |-> 2]
FarUdf == [offset |-> 15, length |-> 2]
AllUdfs == {WideUdf, DeepUdf, FarUdf}

\* One VFP entry, so Pair throws after it took that of its first port; one class,
\* so its rules and those of Twin do not fit together; one tag register beside
\* the reserved one, so the tags of Wide and Pair do not.
Wide == [in_ports |-> {2}, udfs |-> <<WideUdf>>, rules |-> v1, tpid |-> t2]
Deep == [in_ports |-> {1}, udfs |-> <<DeepUdf>>, rules |-> v1, tpid |-> None]
Twin == [in_ports |-> {2}, udfs |-> <<DeepUdf, FarUdf>>, rules |-> v2, tpid |-> None]
Pair == [in_ports |-> {1, 2}, udfs |-> <<>>, rules |-> v1, tpid |-> t3]
Tagged == [in_ports |-> {1, 2}, udfs |-> <<>>, rules |-> None, tpid |-> t3]

\* Ports that overlap.
Both == [in_ports |-> {1, 2}, udfs |-> <<>>, rules |-> None, tpid |-> None]
Solo == [in_ports |-> {2}, udfs |-> <<>>, rules |-> None, tpid |-> None]

\* Flows that compete for the tables, and flows that snoop.
Sharing == [quals |-> {Wide, Deep, Twin, Pair, Tagged}, asks |-> {}]
Snooped == [quals |-> {Both, Solo}, asks |-> {1}]
TwoUses == {Sharing, Snooped}

Symmetric == Permutations({f1, f2})
=============================================================================
