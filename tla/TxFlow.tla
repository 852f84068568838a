-------------------------------- MODULE TxFlow --------------------------------
(***************************************************************************)
(* The life of transmit flows: TX_FLOW (flow/flow.cpp) over TX             *)
(* (tx/tx.cpp), the queues and cells a TX holds (queue/queue.cpp,          *)
(* mmu/mmu.cpp), and the link and pair notifications that stop a flow      *)
(* (port/notify.cpp, port/port.cpp, port/hal_port.cpp).                    *)
(*                                                                         *)
(* Every call of the interface, timer callback and notification runs under *)
(* the API mutex as a list of jobs, `todo`; the mutex is free when the     *)
(* list is empty.  Between two jobs only the hardware moves.  An exception *)
(* drops the jobs that are left.                                           *)
(***************************************************************************)
EXTENDS Integers, Sequences, SequencesExt, FiniteSets

CONSTANTS
  Flows,       \* TX_FLOW instances
  Ports,       \* port names
  Pids,        \* physical ports (PORT_ID), of one unit
  Pair,        \* Pair[p]: interface -> [front, engine], DEVICE::CONFIG
  Queues,      \* queue numbers (cosq)
  QueuesOf,    \* QueuesOf[pid]: the queues of a port (hal_q_num)
  Cells,       \* cells left for engine ports by mmu_init
  Loads,       \* what set(pkts) and set(rate, burst) may ask for
  None,
  MaxEvents,   \* bound: link events on their way to the dispatcher
  Faults,      \* SDK calls that may fail, and pause frames of a link partner
  DestroyAny   \* whether a started flow may be destroyed

Itfs(p) == DOMAIN Pair[p]
PidsOf(p) == UNION {{Pair[p][i].front, Pair[p][i].engine} : i \in Itfs(p)}
\* An interface for each port.
ItfChoices == {c \in [Ports -> UNION {Itfs(p) : p \in Ports}] : \A p \in Ports : c[p] \in Itfs(p)}
Load == [cells : Nat \ {0}, slow : BOOLEAN, burst : BOOLEAN]

\* cfg_check: interfaces of a port are distinct by construction, and no
\* physical port serves two names.
ASSUME TxFlowAssumption ==
  /\ IsFiniteSet(Flows)
  /\ \A p \in Ports : Itfs(p) # {} /\ PidsOf(p) \subseteq Pids
  /\ \A p \in Ports : \A i \in Itfs(p) : Pair[p][i].front # Pair[p][i].engine
  /\ \A p, r \in Ports : p # r => PidsOf(p) \cap PidsOf(r) = {}
  /\ \A d \in Pids : QueuesOf[d] \subseteq Queues
  /\ Cells \in Nat /\ MaxEvents \in Nat
  /\ Loads \subseteq Load
  /\ None \notin Ports /\ None \notin Loads
  /\ Faults \subseteq {"setup", "insert", "drop", "counter", "reconfigure", "pause"}
  /\ DestroyAny \in BOOLEAN

VARIABLES
  itf,         \* db_port_itf (db_front_port follows from it)
  fork,        \* the interface whose pair the fork entries serve (pair_init)
  quota,       \* the interface whose pair the queue thresholds serve (mmu)
  link,        \* hardware: link of each physical port
  events,      \* link events handed to sal_dpc
  held,        \* hardware: front queues the link partner holds back, not empty
  db_port_q,   \* free queues of each physical port
  free_cell,   \* db_free_cell
  hwq,         \* hardware: content and shaping of each queue
  flow,        \* TX_FLOW::IMPL, without its TX
  tx,          \* the TX of each flow
  bound,       \* live callbacks on each port, oldest binding first
  todo,        \* jobs of the call that holds the API mutex
  aborted      \* an ASSERT ended the program

resources == <<db_port_q, free_cell>>
ports == <<itf, fork, quota>>
wires == <<link, events, held>>
vars == <<ports, wires, resources, hwq, flow, tx, bound, todo, aborted>>

NoTx == [port |-> None]
Absent == [created |-> FALSE, port |-> None, load |-> None, is_started |-> FALSE]

Init ==
  /\ itf \in ItfChoices
  /\ fork = itf /\ quota = itf
  /\ link \in [Pids -> BOOLEAN]
  /\ events = <<>> /\ held = {}
  /\ db_port_q = [d \in Pids |-> QueuesOf[d]]
  /\ free_cell = Cells
  /\ hwq = [d \in Pids |-> [q \in Queues |-> [cells |-> 0, rate |-> "normal"]]]
  /\ flow = [f \in Flows |-> Absent]
  /\ tx = [f \in Flows |-> NoTx]
  /\ bound = [p \in Ports |-> <<>>]
  /\ todo = <<>>
  /\ aborted = FALSE

front(p) == Pair[p][itf[p]].front
engine(p) == Pair[p][itf[p]].engine
Running == ~aborted
Idle == Running /\ todo = <<>>

\* The call goes on with its next job, or an exception ends it.
Proceed == todo' = Tail(todo)
Throw == todo' = <<>>
Job(what, whom) == Running /\ todo # <<>> /\ Head(todo) = <<what, whom>>

\* A callback goes with its shared pointer (mutant: it does not).
Unbind_Not(f) == bound' = bound
Unbind(f) == bound' = [p \in Ports |-> RemoveFirst(bound[p], f)]
-----------------------------------------------------------------------------
(* The interface of TX_FLOW.                                               *)

Create(f) ==
  /\ Idle /\ ~flow[f].created
  /\ flow' = [flow EXCEPT ![f].created = TRUE]
  /\ UNCHANGED <<ports, wires, resources, hwq, tx, bound, todo, aborted>>

SetPort(f, p) ==
  /\ Idle /\ flow[f].created
  /\ flow' = [flow EXCEPT ![f].port = p]
  /\ UNCHANGED <<ports, wires, resources, hwq, tx, bound, todo, aborted>>

\* set(pkts) and set(rate, burst); a running TX keeps its own.
SetLoad(f, l) ==
  /\ Idle /\ flow[f].created
  /\ flow' = [flow EXCEPT ![f].load = l]
  /\ UNCHANGED <<ports, wires, resources, hwq, tx, bound, todo, aborted>>

CallStart(f) ==
  /\ Idle /\ flow[f].created
  /\ todo' = <<<<"stop", f>>, <<"start", f>>>>
  /\ UNCHANGED <<ports, wires, resources, hwq, flow, tx, bound, aborted>>

CallStop(f) ==
  /\ Idle /\ flow[f].created
  /\ todo' = <<<<"stop", f>>>>
  /\ UNCHANGED <<ports, wires, resources, hwq, flow, tx, bound, aborted>>

\* The timer auto_stoper saw no packet since it last looked.
AutoStop(f) ==
  /\ Idle /\ flow[f].is_started /\ f \in UNION {Range(bound[p]) : p \in Ports}
  /\ tx[f].burst
  /\ todo' = <<<<"stop", f>>>>
  /\ UNCHANGED <<ports, wires, resources, hwq, flow, tx, bound, aborted>>

\* What the destructors of a TX give back: both queues and the cells (and
\* mutants that keep q_front, or the cells).
Released_EngineOnly(f) == [db_port_q EXCEPT ![tx[f].engine] = @ \cup {tx[f].cosq}]
Released(f) ==
  LET t == tx[f]
  IN  [db_port_q EXCEPT ![t.engine] = @ \cup {t.cosq}, ![t.front] = @ \cup {t.cosq}]
Refunded_Not(f) == free_cell
Refunded(f) == free_cell + tx[f].cells

\* ~TX_FLOW: the members go, TX among them; nothing stops the traffic.
Destroy(f) ==
  /\ Idle /\ flow[f].created
  /\ DestroyAny \/ ~flow[f].is_started
  /\ flow' = [flow EXCEPT ![f] = Absent]
  /\ tx' = [tx EXCEPT ![f] = NoTx]
  /\ Unbind(f)
  /\ IF tx[f] = NoTx THEN UNCHANGED resources
     ELSE db_port_q' = Released(f) /\ free_cell' = Refunded(f)
  /\ UNCHANGED <<ports, wires, hwq, todo, aborted>>
-----------------------------------------------------------------------------
(* TX_FLOW::IMPL::stop.                                                    *)

\* TX::IMPL::stop waits 350 ms for q_engine, whose packets it drops as they
\* leave: a stopped queue never empties and one shaped low enough does not do
\* it in time.
Drains(d, q) == <<d, q>> \notin held /\ (hwq[d][q].cells = 0 \/ hwq[d][q].rate = "normal")

\* Then 100 ms for q_front.  It is not shaped, so it empties unless the link
\* partner holds it back or packets loop in it since it was an engine queue.
FrontDrains(d, q) == <<d, q>> \notin held /\ hwq[d][q].cells = 0

\* Both waits end with an empty queue.
Empties(d, e, q) == Drains(e, q) /\ FrontDrains(d, q)

\* The queue once stop has emptied it (mutant: once it has not).
Drained_Not(d, q) == hwq
Drained(d, q) == [hwq EXCEPT ![d][q].cells = 0]

StopIdle(f) ==
  /\ Job("stop", f) /\ ~flow[f].is_started
  /\ Proceed
  /\ UNCHANGED <<ports, wires, resources, hwq, flow, tx, bound, aborted>>

StopStarted(f) ==
  /\ Job("stop", f) /\ flow[f].is_started
  /\ Empties(tx[f].front, tx[f].engine, tx[f].cosq)
  /\ Unbind(f)
  /\ hwq' = Drained(tx[f].engine, tx[f].cosq)
  /\ db_port_q' = Released(f) /\ free_cell' = Refunded(f)
  /\ tx' = [tx EXCEPT ![f] = NoTx]
  /\ flow' = [flow EXCEPT ![f].is_started = FALSE]
  /\ Proceed
  /\ UNCHANGED <<ports, wires, aborted>>

\* The drop entry, or the last reading of the counter, cannot be had: the
\* callbacks are gone already, the rest of stop is skipped.
StopFails(f) ==
  /\ Job("stop", f) /\ flow[f].is_started
  /\ \/ "drop" \in Faults /\ hwq' = hwq
     \/ /\ "counter" \in Faults /\ Empties(tx[f].front, tx[f].engine, tx[f].cosq)
        /\ hwq' = Drained(tx[f].engine, tx[f].cosq)
  /\ Unbind(f)
  /\ Throw
  /\ UNCHANGED <<ports, wires, resources, flow, tx, aborted>>

\* ASSERT(q_engine.is_empty()), or ASSERT(q_front.is_empty()).
StopAsserts(f) ==
  /\ Job("stop", f) /\ flow[f].is_started
  /\ ~Empties(tx[f].front, tx[f].engine, tx[f].cosq)
  /\ aborted' = TRUE
  /\ UNCHANGED <<ports, wires, resources, hwq, flow, tx, bound, todo>>
-----------------------------------------------------------------------------
(* TX_FLOW::IMPL::start, after its call of stop.                           *)

Ready(f) ==
  /\ flow[f].port # None /\ flow[f].load # None
  /\ link[front(flow[f].port)]

\* The engine port gives any free queue, the front port the one with the
\* same number.
Grants(p) == db_port_q[engine(p)] \cap db_port_q[front(p)]

\* No engine queue is left, or the front queue with the number of the engine
\* queue is not free.
NoQueue(p) == db_port_q[engine(p)] = {} \/ ~(db_port_q[engine(p)] \subseteq db_port_q[front(p)])

StartRefused(f) ==
  /\ Job("start", f)
  /\ Ready(f) => NoQueue(flow[f].port)
  /\ Throw
  /\ UNCHANGED <<ports, wires, resources, hwq, flow, tx, bound, aborted>>

\* TX::start drains what an earlier owner left in the two queues, with the
\* waits and the assertions of stop.
StartAsserts(f) ==
  /\ Job("start", f) /\ Ready(f)
  /\ \E q \in Grants(flow[f].port) : ~Empties(front(flow[f].port), engine(flow[f].port), q)
  /\ aborted' = TRUE
  /\ UNCHANGED <<ports, wires, resources, hwq, flow, tx, bound, todo>>

\* The shaping of a started queue (mutant: it is left stopped).
Speed_None(l) == "stopped"
Speed(l) == IF l.slow THEN "slow" ELSE "normal"

\* MMU::MMU finds enough free cells (mutant: it does not look).
Fits_Always(l) == TRUE
Fits(l) == l.cells <= free_cell

StartNoCells(f) ==
  /\ Job("start", f) /\ Ready(f)
  /\ ~Fits(flow[f].load)
  /\ \E q \in Grants(flow[f].port) :
       /\ Empties(front(flow[f].port), engine(flow[f].port), q)
       /\ hwq' = Drained(engine(flow[f].port), q)
  /\ Throw
  /\ UNCHANGED <<ports, wires, resources, flow, tx, bound, aborted>>

\* An SDK call throws: before the packets are inserted, or among them, which
\* leaves some in a queue that is stopped.  The local TX gives all back.
StartFails(f) ==
  LET d == engine(flow[f].port)
      l == flow[f].load
      empties(q) == Empties(front(flow[f].port), d, q)
  IN  /\ Job("start", f) /\ Ready(f)
      /\ \E q \in Grants(flow[f].port) :
           \/ "setup" \in Faults /\ hwq' = hwq
           \/ /\ "setup" \in Faults /\ empties(q)
              /\ \E r \in {hwq[d][q].rate, Speed(l)} :
                   hwq' = [hwq EXCEPT ![d][q] = [cells |-> 0, rate |-> r]]
           \/ /\ "insert" \in Faults /\ empties(q) /\ Fits(l)
              /\ \E k \in 0..l.cells :
                   hwq' = [hwq EXCEPT ![d][q] = [cells |-> k, rate |-> "stopped"]]
      /\ Throw
      /\ UNCHANGED <<ports, wires, resources, flow, tx, bound, aborted>>

StartOk(f) ==
  LET p == flow[f].port
      l == flow[f].load
  IN  /\ Job("start", f) /\ Ready(f)
      /\ Fits(l)
      /\ \E q \in Grants(p) :
           /\ Empties(front(p), engine(p), q)
           /\ db_port_q' = [db_port_q EXCEPT ![engine(p)] = @ \ {q}, ![front(p)] = @ \ {q}]
           /\ hwq' = [hwq EXCEPT ![engine(p)][q] = [cells |-> l.cells, rate |-> Speed(l)]]
           /\ tx' = [tx EXCEPT ![f] = [port |-> p, front |-> front(p), engine |-> engine(p),
                                       cosq |-> q, cells |-> l.cells, burst |-> l.burst]]
      /\ free_cell' = free_cell - l.cells
      /\ bound' = [bound EXCEPT ![p] = Append(@, f)]
      /\ flow' = [flow EXCEPT ![f].is_started = TRUE]
      /\ Proceed
      /\ UNCHANGED <<ports, wires, aborted>>
-----------------------------------------------------------------------------
(* Pair and link notification.                                             *)

Stops(s) == [i \in 1..Len(s) |-> <<"stop", s[i]>>]

\* Mutants: the callbacks are called in the order they were bound; mmu_init
\* binds nothing.
PairJobs_Forward(p) ==
  <<<<"clear", p>>, <<"quota", p>>, <<"fork", p>>>> \o Stops(bound[p])
PairJobs_NoQuota(p) == Stops(Reverse(bound[p])) \o <<<<"fork", p>>, <<"clear", p>>>>

\* pair_notify_dispatch: latest binding first, so that the three notifiers
\* bound by tx_init, mmu_init and port_init come after the flows.
PairJobs(p) ==
  Stops(Reverse(bound[p])) \o <<<<"fork", p>>, <<"quota", p>>, <<"clear", p>>>>

\* PORT::set_itf: the tables first, then the notification.
SetItf(p, i) ==
  /\ Idle /\ i # itf[p]
  /\ itf' = [itf EXCEPT ![p] = i]
  /\ todo' = PairJobs(p)
  /\ UNCHANGED <<fork, quota, wires, resources, hwq, flow, tx, bound, aborted>>

\* Without the fork entries of a pair, what looped through them leaves.
Unlooped(p) ==
  [d \in Pids |-> [q \in Queues |->
     IF d \in PidsOf(p) /\ hwq[d][q].rate # "stopped"
     THEN [hwq[d][q] EXCEPT !.cells = 0] ELSE hwq[d][q]]]

\* pair_init: the old fork entries go, new ones come.
Fork(p) ==
  /\ Job("fork", p)
  /\ fork' = [fork EXCEPT ![p] = itf[p]]
  /\ hwq' = Unlooped(p)
  /\ Proceed
  /\ UNCHANGED <<itf, quota, wires, resources, flow, tx, bound, aborted>>

\* on_pair_change of mmu.cpp.
Quota(p) ==
  /\ Job("quota", p)
  /\ quota' = [quota EXCEPT ![p] = itf[p]]
  /\ Proceed
  /\ UNCHANGED <<itf, fork, wires, resources, hwq, flow, tx, bound, aborted>>

\* on_pair_change of port.cpp clears the hardware counters.
Clear(p) ==
  /\ Job("clear", p)
  /\ Proceed
  /\ UNCHANGED <<ports, wires, resources, hwq, flow, tx, bound, aborted>>

\* One of the three throws; nothing catches it in the dispatch loop.  The old
\* fork entries are gone when the new ones cannot be made.
ReconfigureFails(p) ==
  /\ "reconfigure" \in Faults
  /\ \/ Job("fork", p) /\ hwq' = Unlooped(p)
     \/ (Job("quota", p) \/ Job("clear", p)) /\ hwq' = hwq
  /\ Throw
  /\ UNCHANGED <<ports, wires, resources, flow, tx, bound, aborted>>

\* Mutant: the test of the link is inverted.
LinkJobs_Up(e) ==
  IF ~e.link THEN <<>>
  ELSE LET named == {p \in Ports : front(p) = e.pid}
       IN  IF named = {} THEN <<>> ELSE Stops(bound[CHOOSE p \in named : TRUE])

\* link_notify_dispatch: only the front port of a pair has a name, and the
\* flows act on a link that went down.
LinkJobs(e) ==
  LET named == {p \in Ports : front(p) = e.pid}
  IN  IF e.link \/ named = {} THEN <<>> ELSE Stops(bound[CHOOSE p \in named : TRUE])

Dispatch ==
  /\ Idle /\ events # <<>>
  /\ todo' = LinkJobs(Head(events))
  /\ events' = Tail(events)
  /\ UNCHANGED <<ports, link, held, resources, hwq, flow, tx, bound, aborted>>
-----------------------------------------------------------------------------
(* The hardware.                                                           *)

\* A port that loses its link drops what its queues hold (tx.cpp:280).
LinkChange(d) ==
  /\ Running /\ Len(events) < MaxEvents
  /\ link' = [link EXCEPT ![d] = ~@]
  /\ held' = {h \in held : link[d] => h[1] # d}
  /\ events' = Append(events, [pid |-> d, link |-> ~link[d]])
  /\ UNCHANGED <<ports, resources, hwq, flow, tx, bound, todo, aborted>>

\* The policer of a burst flow has let its last packet pass.
BurstEnds(f) ==
  /\ Running /\ tx[f] # NoTx
  /\ tx[f].burst /\ hwq[tx[f].engine][tx[f].cosq].rate # "stopped"
  /\ hwq' = Drained(tx[f].engine, tx[f].cosq)
  /\ UNCHANGED <<ports, wires, resources, flow, tx, bound, todo, aborted>>

\* The link partner sends pause frames while f transmits.
Hold(f) ==
  /\ Running /\ "pause" \in Faults /\ tx[f] # NoTx
  /\ link[tx[f].front]
  /\ LET h == hwq[tx[f].engine][tx[f].cosq] IN h.cells > 0 /\ h.rate # "stopped"
  /\ held' = held \cup {<<tx[f].front, tx[f].cosq>>}
  /\ UNCHANGED <<ports, link, events, resources, hwq, flow, tx, bound, todo, aborted>>

\* It sends no more, and the queues of the port empty.
Resume(d) ==
  /\ Running /\ \E q \in Queues : <<d, q>> \in held
  /\ held' = {h \in held : h[1] # d}
  /\ UNCHANGED <<ports, link, events, resources, hwq, flow, tx, bound, todo, aborted>>

FlowCall(f) ==
  \/ Create(f) \/ Destroy(f) \/ CallStart(f) \/ CallStop(f) \/ AutoStop(f)
  \/ \E p \in Ports : SetPort(f, p)
  \/ \E l \in Loads : SetLoad(f, l)

RunJob ==
  \/ \E f \in Flows :
       \/ StopIdle(f) \/ StopStarted(f) \/ StopFails(f) \/ StopAsserts(f)
       \/ StartRefused(f) \/ StartNoCells(f) \/ StartFails(f) \/ StartAsserts(f)
       \/ StartOk(f)
  \/ \E p \in Ports : Fork(p) \/ Quota(p) \/ Clear(p) \/ ReconfigureFails(p)

Next ==
  \/ \E f \in Flows : FlowCall(f) \/ BurstEnds(f) \/ Hold(f)
  \/ \E p \in Ports : \E i \in Itfs(p) : SetItf(p, i)
  \/ \E d \in Pids : LinkChange(d) \/ Resume(d)
  \/ RunJob \/ Dispatch

Spec == Init /\ [][Next]_vars

\* A call that holds the mutex goes on; the semaphore behind the mutex lets
\* the dispatcher through.
Fairness == WF_vars(RunJob) /\ SF_vars(Dispatch)

FairSpec == Spec /\ Fairness
=============================================================================
