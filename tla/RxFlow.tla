-------------------------------- MODULE RxFlow --------------------------------
(***************************************************************************)
(* Receiving flows (RX_FLOW of flow.cpp, rx.cpp, fp_rx.cpp): a started     *)
(* flow owns a filter of the ingress pipeline; a snooping one also has the *)
(* filter copy matching packets to a queue of the CPU port, from where the *)
(* SDK thread dispatches them.  Calls and dispatches hold the API mutex,   *)
(* so each is one step; the hardware copies packets in between.  Counters  *)
(* and RX_LATENCY are not modelled.                                        *)
(***************************************************************************)
EXTENDS RxFilter

CONSTANTS
  Flows,
  Ports,      \* port names, in their order
  PidsOf,     \* the indexes a port can have its front on
  Uses,       \* what clients may do: qualifications set() gets, and numbers of
              \* packets snoop() is asked for, but 0
  Queues,     \* queues of the CPU port
  Byte,       \* 2^8, what a UINT8 counts up to
  Buffer,     \* packets the CPU queues hold together
  MaxRefs     \* bound: users of one window offset, set of rules or VFP entry at
              \* which no more starts are tried, those left behind included

\* What a filter is, see FilterOf; None is none.
FilterTypes ==
  [in_ports : SUBSET Ports, ports : Seq(Pids), udfs : Seq(Udfs), tpid : Tpids \cup {None},
   rules : Rules \cup {None}, class : Classes \cup {NoId}, places : SUBSET (Int \X Int)]

ASSUME RxAssumption ==
  /\ IsFiniteSet(Pids) /\ IsFiniteSet(Ports) /\ IsFiniteSet(Queues)
  /\ None \notin Flows \cup FilterTypes /\ Queues \subseteq Nat /\ Ports \subseteq Int
  /\ \A u \in Uses : /\ \A q \in u.quals :
                          /\ q.in_ports \subseteq Ports /\ q.udfs \in Seq(Udfs)
                          /\ q.tpid \in Tpids \cup {None} /\ q.rules \in Rules \cup {None}
                     /\ u.asks \subseteq Nat \ {0}
  /\ \A p \in Ports : PidsOf[p] # {} /\ PidsOf[p] \subseteq Pids
  /\ {Byte, Buffer, MaxRefs} \subseteq Nat \ {0}

VARIABLES
  use,        \* the one of Uses this behaviour is about
  flow,       \* members of RX_FLOW::IMPL and RX::IMPL
  entry,      \* hardware: where a filter copies to and how many more it may
  cpu,        \* db_upq and db_dispatch
  res,        \* tables of the filters
  order,      \* flows whose pair callback is bound, in the order of binding
  missed,     \* flows a pair change did not stop, since a stop threw
  front,      \* front index of each port
  copies      \* packets in the CPU queues

C == INSTANCE CpuQueues WITH Owners <- Flows, Nobody <- None

vars == <<use, flow, entry, cpu, res, order, missed, front, copies>>

NoQ == -1
Unlimited == Byte

NewFlow == [is_started |-> FALSE, is_snooping |-> FALSE, rx |-> None, cpu_rx |-> NoQ,
            snoop_pkts |-> <<>>, max_snoop_pkt |-> 0]
Idle(m) == [m EXCEPT !.is_started = FALSE, !.is_snooping = FALSE, !.rx = None, !.cpu_rx = NoQ]
NoEntry == [q |-> NoQ, tokens |-> 0]

Elements(s) == {s[i] : i \in DOMAIN s}

\* extract_ports: the fronts at this moment, in the order of the names.
Sorted(names) ==
  CHOOSE s \in [1..Cardinality(names) -> names] : \A i, j \in DOMAIN s : i < j => s[i] < s[j]
extract_ports(names) == [i \in 1..Cardinality(names) |-> front[Sorted(names)[i]]]

Init ==
  /\ use \in Uses
  /\ flow = [f \in Flows |-> NewFlow]
  /\ entry = [f \in Flows |-> NoEntry]
  /\ cpu = C!NewCpu
  /\ res = NewResources
  /\ order = <<>>
  /\ missed = {}
  /\ front \in {fr \in [Ports -> Pids] : \A p \in Ports : fr[p] \in PidsOf[p]}
  /\ copies = [q \in Queues |-> <<>>]
-----------------------------------------------------------------------------
(* A call works on s, the record of the members and tables above.  The     *)
(* groups of the IFP share its slices, so a call finds room for one more   *)
(* entry or not: for a new filter, or for the temporary copy that counts   *)
(* while snoop_start and snoop_stop reinstall the entry.                   *)

Now == [flow |-> flow, entry |-> entry, cpu |-> cpu, res |-> res, order |-> order, missed |-> missed]
Becomes(s) ==
  /\ flow' = s.flow /\ entry' = s.entry /\ cpu' = s.cpu
  /\ res' = s.res /\ order' = s.order /\ missed' = s.missed

\* cpu_rx.reset(): the queue is free, nobody is called for it.
FreeQueue(c, m) == IF m.cpu_rx = NoQ THEN c ELSE C!Freed(c, Elements(m.rx.ports), m.cpu_rx)

\* ~RX and the pair callback: the hardware of the flow is free again.
Release(s, f) ==
  LET m == s.flow[f]
  IN  IF ~m.is_started THEN s
      ELSE [flow |-> [s.flow EXCEPT ![f] = Idle(m)], entry |-> [s.entry EXCEPT ![f] = NoEntry],
            cpu |-> FreeQueue(s.cpu, m), res |-> DropFilter(s.res, m.rx),
            order |-> RemoveFirst(s.order, f), missed |-> s.missed \ {f}]

\* IMPL::stop: snoop(0) throws when there is no room for the temporary entry,
\* before anything changed; a call that stops first is then no step at all.
StopThrows(s, f, full) == s.flow[f].is_snooping /\ full

\* IMPL::start: stop, the filter, the pair callback.  Without a filter the
\* call throws; what the filter's constructor left behind stays.  The
\* qualification is the one set() left, which nothing but start reads.
Start(f, q, room) ==
  LET s == Release(Now, f)
      ports == extract_ports(q.in_ports)
      h == HoldFilter(s.res, q, ports, room)
  IN  /\ \A c \in Offsets : res.chunk.refs[c] < MaxRefs
      /\ \A v \in Rules : res.class.refs[v] < MaxRefs
      /\ \A k \in DOMAIN res.vfp : res.vfp[k].refs < MaxRefs
      /\ IF h.ok
         THEN Becomes([s EXCEPT !.res = h.r, !.order = Append(@, f),
                               !.flow[f] = [@ EXCEPT !.is_started = TRUE, !.rx = FilterOf(h.r, q, ports)]])
         ELSE Becomes([s EXCEPT !.res = h.r])
      /\ UNCHANGED <<use, front, copies>>

Stop(f) ==
  /\ flow[f].is_started
  /\ Becomes(Release(Now, f))
  /\ UNCHANGED <<use, front, copies>>

\* ~RX_FLOW, and a new flow in its place.
Destroy(f) ==
  LET s == Release(Now, f)
  IN  /\ Becomes([s EXCEPT !.flow[f] = NewFlow])
      /\ UNCHANGED <<use, front, copies>>
-----------------------------------------------------------------------------
(* Snooping.                                                               *)

\* fp_set_policer: a burst of 0 means no limit.  HAL_FP_RX::snoop_start takes
\* the number of packets as UINT8.
Tokens(n) == IF n % Byte = 0 THEN Unlimited ELSE n % Byte

\* RX::IMPL::snoop_start: the new queue is taken before the old one is freed.
NewQueue(f, q) ==
  FreeQueue(C!Bound(cpu, Elements(flow[f].rx.ports), q, f), flow[f])

SnoopStart(f, n, room) ==
  LET ports == Elements(flow[f].rx.ports)
      m == [flow[f] EXCEPT !.snoop_pkts = <<>>, !.max_snoop_pkt = n]
      q == C!Chosen(cpu, ports)
  IN  /\ flow[f].is_started /\ ~flow[f].is_snooping
      /\ IF C!Available(cpu, ports) = {}
         THEN flow' = [flow EXCEPT ![f] = m] /\ UNCHANGED <<cpu, entry>>
         ELSE /\ cpu' = NewQueue(f, q)
              /\ flow' = [flow EXCEPT ![f] = [m EXCEPT !.cpu_rx = q, !.is_snooping = room]]
              /\ entry' = IF room THEN [entry EXCEPT ![f] = [q |-> q, tokens |-> Tokens(n)]] ELSE entry
      /\ UNCHANGED <<use, res, order, missed, front, copies>>

\* snoop(0), when there is room.
SnoopStop(f) ==
  /\ flow[f].is_snooping
  /\ entry' = [entry EXCEPT ![f] = NoEntry]
  /\ cpu' = FreeQueue(cpu, flow[f])
  /\ flow' = [flow EXCEPT ![f].cpu_rx = NoQ, ![f].is_snooping = FALSE]
  /\ UNCHANGED <<use, res, order, missed, front, copies>>

Dump(f) ==
  /\ flow[f].is_started /\ flow[f].snoop_pkts # <<>>
  /\ flow' = [flow EXCEPT ![f].snoop_pkts = <<>>]
  /\ UNCHANGED <<use, entry, cpu, res, order, missed, front, copies>>

Waiting == SumFunctionOnSet([q \in Queues |-> Len(copies[q])], Queues)

\* A packet the filter of f matches arrives at p; a full buffer drops the copy.
Copy(f, p) ==
  /\ entry[f].q # NoQ /\ entry[f].tokens > 0 /\ p \in Elements(flow[f].rx.ports)
  /\ entry' = IF entry[f].tokens = Unlimited THEN entry ELSE [entry EXCEPT ![f].tokens = @ - 1]
  /\ copies' = IF Waiting = Buffer THEN copies
               ELSE [copies EXCEPT ![entry[f].q] = Append(@, p)]
  /\ UNCHANGED <<use, flow, cpu, res, order, missed, front>>

\* Mutant: the packets kept are not counted.
Kept_NoLimit(m, port) ==
  IF m.is_snooping THEN [m EXCEPT !.snoop_pkts = Append(@, port)] ELSE m

\* on_pkt_rx; of a packet all that is kept here is its source port.
Kept(m, port) ==
  IF m.is_snooping /\ Len(m.snoop_pkts) < m.max_snoop_pkt
  THEN [m EXCEPT !.snoop_pkts = Append(@, port)] ELSE m

\* rx_dispatch
Deliver(q) ==
  LET port == Head(copies[q])
      to == cpu.dispatch[<<port, q>>]
  IN  /\ copies[q] # <<>>
      /\ copies' = [copies EXCEPT ![q] = Tail(@)]
      /\ flow' = IF to = None THEN flow ELSE [flow EXCEPT ![to] = Kept(@, port)]
      /\ UNCHANGED <<use, entry, cpu, res, order, missed, front>>
-----------------------------------------------------------------------------
(* Pair changes.                                                           *)

\* Mutant: what is left to do after the latest binding is skipped.
Told_LatestOnly(a, f, p, full) ==
  IF f # Last(order) THEN a
  ELSE IF p \notin flow[f].rx.in_ports \/ StopThrows(a.s, f, f \in full) THEN a
  ELSE [a EXCEPT !.s = Release(a.s, f)]

\* pair_notify_dispatch for a port p: latest binding first, until a callback
\* throws.  Told, the state after one of them: a.s are the members and tables
\* so far, a.ok tells that nothing has thrown.
Told(a, f, p, full) ==
  IF p \notin flow[f].rx.in_ports THEN a
  ELSE IF a.ok /\ ~StopThrows(a.s, f, f \in full) THEN [a EXCEPT !.s = Release(a.s, f)]
  ELSE [s |-> [a.s EXCEPT !.missed = @ \cup {f}], ok |-> FALSE]

Notified(p, full) ==
  LET latest[i \in 0..Len(order)] ==
        IF i = 0 THEN [s |-> Now, ok |-> TRUE]
        ELSE Told(latest[i - 1], Reverse(order)[i], p, full)
  IN  latest[Len(order)].s

\* PORT::set_itf: the pair first, then the callbacks.
SwapPair(p, full) ==
  /\ \E d \in PidsOf[p] \ {front[p]} : front' = [front EXCEPT ![p] = d]
  /\ Becomes(Notified(p, full))
  /\ UNCHANGED <<use, copies>>
-----------------------------------------------------------------------------
Snooping == {f \in Flows : flow[f].is_snooping}

Next ==
  \/ \E f \in Flows : \/ \E q \in use.quals, room \in BOOLEAN : Start(f, q, room)
                      \/ Stop(f) \/ Destroy(f)
                      \/ \E n \in use.asks, room \in BOOLEAN : SnoopStart(f, n, room)
                      \/ SnoopStop(f) \/ Dump(f)
                      \/ \E p \in Pids : Copy(f, p)
  \/ \E q \in Queues : Deliver(q)
  \/ \E p \in Ports, full \in SUBSET Snooping : SwapPair(p, full)

Spec == Init /\ [][Next]_vars
=============================================================================
