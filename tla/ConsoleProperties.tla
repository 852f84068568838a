-------------------------- MODULE ConsoleProperties --------------------------
(* What the console promises who reads counters. *)
EXTENDS Console

Counts == 0..MaxPkts

\* The types of the state; what a flow does besides is over when it stops.
TypeOK ==
  /\ \A i \in Existing(Flows) :
       LET f == db_flow[i]
       IN  /\ {f.hw, f.cnt_base, f.cnt_rate, f.cnt_rate_prev, f.cnt_burst_prev} \subseteq Counts
           /\ ~f.started => /\ ~f.snooping /\ ~f.lm
                            /\ f.pair = {} /\ f.link = {} /\ f.timers = {}
           /\ \A r, s \in f.qual.rules : r[1] = s[1] => r = s
  /\ \A p \in Ports : {port[p].hw, port[p].base, port[p].prev} \subseteq Counts /\ port[p].rate \in 0..MaxWord
  /\ {hung, ticking} \subseteq BOOLEAN

\* Every packet a flow or a port has counted is reported once: what was not
\* reported as cleared yet is what the next reading gives, be the flow running,
\* stopped or half stopped meanwhile, with what a function at work has cleared
\* and not yet printed.  Counts are given up when the flow starts again, when a
\* stopped flow is cleared (counter() then gives 0), when a later flow or port of
\* the same function cannot be read, and when the port changes its interface.  Of
\* a port whose change threw half way the count is right only after it has been
\* cleared: the change does not always "reset counter once port interface changed"
\* (counter.cpp:224).
CountsAddUp ==
  /\ \A i \in Existing(Flows) : owed[i] = Reading(db_flow[i]) + InText[i]
  /\ \A p \in Ports : "count" \notin torn[p] => owed[p] = Minus(port[p].hw, port[p].base) + InText[p]

\* The rate of a flow is of the last whole period of this run, and 0 where it has
\* stopped, or half stopped.  That of a port is of the last whole period of its
\* timer: after a change of the interface it is that of the old one until the timer
\* runs, though counter.cpp:163 says "reset rate once pair change", then of what
\* passed since the change, never a difference between the counters of two
\* interfaces, unless the change threw half way.
RatesAreRecent ==
  /\ \A i \in Existing(Flows) : db_flow[i].cnt_rate = recent[i].last
  /\ \A p \in Ports : "rate" \notin torn[p] => port[p].rate = recent[p].last
-----------------------------------------------------------------------------
(* The inductive invariant behind these properties (ConsoleProofs).        *)

Period == [window : Nat, last : Nat]
PortRec == [hw : Counts, base : Counts, prev : Counts, rate : 0..MaxWord]

FlowSound(f) ==
  /\ f \in FlowRec
  /\ {f.hw, f.cnt_base, f.cnt_rate, f.cnt_rate_prev, f.cnt_burst_prev} \subseteq Counts
  /\ f.started => f.cnt_base <= f.hw /\ f.cnt_rate_prev <= f.hw
  /\ ~f.started => /\ f.hw = 0 /\ f.cnt_rate = 0 /\ ~f.snooping /\ ~f.lm
                   /\ f.pair = {} /\ f.link = {} /\ f.timers = {}
  /\ \A r, s \in f.qual.rules : r[1] = s[1] => r = s

\* A flow, what is owed of it, what the text says of it and its recent packets.
Agree(f, o, t, r) ==
  IF f = None THEN o = 0 /\ t = 0 /\ r = Quiet
  ELSE /\ FlowSound(f)
       /\ o = Reading(f) + t
       /\ r.last = f.cnt_rate
       /\ "rate" \in f.timers => r.window = f.hw - f.cnt_rate_prev

\* The same of a port, c being what a change that threw left wrong.
PortAgrees(q, o, t, r, c) ==
  /\ q \in PortRec
  /\ "count" \notin c => q.base <= q.hw /\ o = q.hw - q.base + t
  /\ "window" \notin c => q.prev <= q.hw /\ r.window = q.hw - q.prev
  /\ "rate" \notin c => r.last = q.rate

\* A function at work names flows there are; what it has yet to read it has not
\* cleared.
CallAgrees ==
  call # None =>
    /\ call \in Call
    /\ call.op = "set" => /\ Exists(call.flow)
                         /\ \A r, s \in call.qual.rules : r[1] = s[1] => r = s
    /\ call.op = "cnt" => /\ call.todo # {} /\ call.todo \cap Flows \subseteq Existing(Flows)
                         /\ \A i \in call.todo : call.cleared[i] = 0

ConsoleInv ==
  /\ db_flow \in [Flows -> FlowRec \cup {None}]
  /\ port \in [Ports -> PortRec]
  /\ owed \in [Keys -> Int]
  /\ recent \in [Keys -> Period]
  /\ torn \in [Ports -> SUBSET {"count", "window", "rate"}]
  /\ {hung, ticking} \subseteq BOOLEAN
  /\ CallAgrees
  /\ \A i \in Flows : Agree(db_flow[i], owed[i], InText[i], recent[i])
  /\ \A p \in Ports : PortAgrees(port[p], owed[p], InText[p], recent[p], torn[p])
=============================================================================
