--------------------------- MODULE TxFlowProperties ---------------------------
(***************************************************************************)
(* What must hold of transmit flows.                                       *)
(***************************************************************************)
EXTENDS TxFlow, FiniteSets, FiniteSetsExt

Tx == [port : Ports, front : Pids, engine : Pids, cosq : Queues, cells : Nat \ {0},
       burst : BOOLEAN]
TxImpl == [created : BOOLEAN, port : Ports \cup {None}, load : Loads \cup {None},
           is_started : BOOLEAN]
Content == [cells : Nat, rate : {"stopped", "slow", "normal"}]
Jobs == ({"stop", "start"} \X Flows) \cup ({"fork", "quota", "clear"} \X Ports)

\* Every variable keeps its type: TX_FLOW::IMPL, the queue and cell tables,
\* the port tables and the hardware.
TypeOK ==
  /\ itf \in ItfChoices /\ fork \in ItfChoices /\ quota \in ItfChoices
  /\ link \in [Pids -> BOOLEAN]
  /\ events \in Seq([pid : Pids, link : BOOLEAN])
  /\ held \subseteq Pids \X Queues
  /\ db_port_q \in [Pids -> SUBSET Queues]
  /\ free_cell \in Nat
  /\ hwq \in [Pids -> [Queues -> Content]]
  /\ flow \in [Flows -> TxImpl]
  /\ tx \in [Flows -> Tx \cup {NoTx}]
  /\ bound \in [Ports -> Seq(Flows)]
  /\ todo \in Seq(Jobs)
  /\ aborted \in BOOLEAN

Live == {f \in Flows : tx[f] # NoTx}
Holds(f, d) == tx[f] # NoTx /\ d \in {tx[f].front, tx[f].engine}
QueuesHeld(d) == {tx[f].cosq : f \in {g \in Flows : Holds(g, d)}}

\* "in case of failure, resource would be free automatically" (flow.cpp:52):
\* whichever call fails, every queue of a port is free or held by exactly one
\* flow (q_engine and q_front of tx.cpp).
QueuesOwned ==
  \A d \in Pids :
    /\ db_port_q[d] = QueuesOf[d] \ QueuesHeld(d)
    /\ QueuesHeld(d) \subseteq QueuesOf[d]
    /\ \A f, g \in Flows : Holds(f, d) /\ Holds(g, d) /\ tx[f].cosq = tx[g].cosq => f = g

\* The cells each flow has reserved.
Reserved == [f \in Flows |-> IF tx[f] = NoTx THEN 0 ELSE tx[f].cells]
\* The same of cells (db_free_cell of mmu.cpp): each is free or reserved by a
\* flow.
CellsCounted == free_cell + SumFunction(Reserved) = Cells

\* "MMU designed to check if there's enough cell available for pkts pending in
\* engine port queue" (mmu.cpp:19): packets wait only in a queue some flow
\* holds, and never in more cells than it reserved.
Covered ==
  \A d \in Pids, q \in Queues :
    hwq[d][q].cells > 0 =>
      \E f \in Live : /\ tx[f].engine = d /\ tx[f].cosq = q
                      /\ hwq[d][q].cells <= tx[f].cells

\* Once set_itf has returned no flow runs on the pair the port had before, and
\* the fork entries and thresholds serve the new pair (tx.cpp:226 "adjust port
\* pair once port iterface mode changed", mmu.cpp:24).
PairInForce ==
  todo = <<>> =>
    /\ fork = itf /\ quota = itf
    /\ \A f \in Flows : flow[f].is_started =>
         tx[f].front = front(tx[f].port) /\ tx[f].engine = engine(tx[f].port)

\* A flow runs on while the link of its front port is down only as long as
\* the event is on its way or the flow's stop is waiting its turn.
LinkDownIsNoticed ==
  \A f \in Flows :
    flow[f].is_started /\ ~link[tx[f].front] =>
      \/ \E i \in 1..Len(events) : events[i] = [pid |-> tx[f].front, link |-> FALSE]
      \/ <<"stop", f>> \in Range(todo)

\* A started flow owns a TX and is bound, once, to the notifications of the
\* port that TX was made for; nobody else is (flow.cpp:59-65, 89-90).
StartedIsBound ==
  /\ \A f \in Flows : flow[f].is_started <=> tx[f] # NoTx
  /\ \A p \in Ports :
       /\ Range(bound[p]) = {f \in Live : tx[f].port = p}
       /\ IsInjective(bound[p])

\* What keeps the two queues of a flow from emptying in time.
TooSlow(f) ==
  LET h == hwq[tx[f].engine][tx[f].cosq] IN h.cells > 0 /\ h.rate = "slow"
Paused(f) == <<tx[f].front, tx[f].cosq>> \in held

\* An assertion of TX::stop ends the program only in a stop of a flow whose own
\* packets are too many for its rate, or are held back by the link partner:
\* never for what earlier owners left in the queues when a flow starts, and
\* never because calls that failed left its queue without tokens (tx.cpp:79-83,
\* 98-107).  Insertions that fail half way are left out: what they put in stays
\* in a stopped queue, and the next start on it ends the program.
AbortsHaveCause ==
  aborted => \E f \in Live : Head(todo) = <<"stop", f>> /\ (TooSlow(f) \/ Paused(f))

\* "it need to be notified after flow ones" (notify.cpp:137): the pair of a port
\* is reconfigured, and its hardware counters cleared, only when no flow runs on
\* the port.
ReconfiguredAfterFlows ==
  [][\A p \in Ports :
       (todo # <<>> /\ Head(todo) \in {"fork", "quota", "clear"} \X {p} /\ todo' # todo) =>
         \A f \in Flows : flow[f].is_started => tx[f].port # p]_vars

\* A flow whose front port lost its link is stopped in the end, unless its
\* destruction, a restart on a port with link or the end of the program at an
\* assertion comes first.
LinkDownStops ==
  \A f \in Flows :
    (flow[f].is_started /\ ~link[tx[f].front])
      ~> (~flow[f].is_started \/ link[tx[f].front] \/ aborted)

\* What a TX says of its flow.
Visible(t) == [port |-> t.port, front |-> t.front, engine |-> t.engine, cosq |-> t.cosq,
               cells |-> t.cells]

Service == INSTANCE TxService WITH
  on <- [f \in Flows |-> IF tx[f] = NoTx THEN NoTx ELSE Visible(tx[f])],
  wired <- fork, limits <- quota

\* Calls, jobs, failures, link events and the tables together are flows that
\* go on and off: a start takes two free queues of the pair in force and free
\* cells and nothing else, no flow gets another port, pair or reservation while
\* it is on (set(port) of flow.cpp:205), and a pair is rewired under none.
ImplementsService == Service!Spec
=============================================================================
