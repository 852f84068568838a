------------------------------ MODULE MCConsole ------------------------------
(* Small instances of Console. *)
EXTENDS ConsoleProperties, TLC

\* Nothing happens at the ports but the first.
OnePort ==
  \A p \in Ports :
    p[2] > 1 => /\ port[p] = [hw |-> 0, base |-> 0, prev |-> 0, rate |-> 0]
                /\ \A i \in Running : p \notin db_flow[i].pair \cup db_flow[i].link

\* Neither copies nor bursts.
Plain == \A i \in Existing(Flows) : db_flow[i].snoop_pkts = <<>> /\ "burst" \notin db_flow[i].set

Bounded ==
  /\ Cardinality(Existing(Flows)) = 2 => Plain /\ OnePort /\ fails = 0
  /\ Cardinality(Existing(Flows)) = 1 => Cardinality({p \in Ports : port[p].hw > 0}) <= 1
  /\ Plain \/ OnePort
  /\ fails > 0 /\ Existing(Rx \cup Trx) # {} => Plain /\ OnePort
=============================================================================
