------------------------------- MODULE Console -------------------------------
(***************************************************************************)
(* The Lua functions for flows and ports (tx_flow.cpp, rx_flow.cpp,        *)
(* trx_flow.cpp, port.cpp of lua_c_api) over the counters of the library   *)
(* (flow.cpp, trx_flow.cpp, counter.cpp), with the packets, timers and     *)
(* port changes that come between two calls of the library.                *)
(*                                                                         *)
(* One console calls one function at a time; a function takes the API      *)
(* mutex for each call of the library, so what reads all flows or all      *)
(* ports, or reads and then sets, is not one step.  A function that is     *)
(* refused (a name, a type or a value) changes nothing and is left out.    *)
(* Any call of the SDK may fail: a stop, a reading or a change of the      *)
(* interface then ends where it is.  One number stands for the packets and *)
(* bytes, sent and received, of a counter.                                 *)
(***************************************************************************)
EXTENDS Integers, Sequences, FiniteSets, Functions

CONSTANTS
  TxNames, RxNames, TrxNames,  \* names of flows, numbers in the order of the tables
  PortNames,                   \* names of ports, numbers in their order
  MaxWord,                     \* the largest value of a counter
  MaxPkts,                     \* bound: packets in one counter
  MaxTotal,                    \* bound: flows and packets together
  MaxFails,                    \* bound: calls of the SDK that fail
  None

\* The flows of the three tables, and the ports.
Tx == {"tx"} \X TxNames
Rx == {"rx"} \X RxNames
Trx == {"trx"} \X TrxNames
Flows == Tx \cup Rx \cup Trx
Ports == {"port"} \X PortNames
Keys == Flows \cup Ports

Qual == [in_ports : BOOLEAN, rules : SUBSET ({"udf", "pdf"} \X {"value", "any"})]
\* TX_FLOW::IMPL, RX_FLOW::IMPL, TRX_FLOW::IMPL.  set: what its setters were
\* given; qual: the rules of a receive flow; hw: the counter of its TX or RX;
\* pair, link: the ports whose notifications it is bound to; timers: those that run.
FlowRec == [started : BOOLEAN, set : SUBSET {"port", "pkt", "rx_port", "rx_offset", "burst"}, qual : Qual,
            hw : Nat, cnt_base : Nat, cnt_rate : Nat, cnt_rate_prev : Nat, cnt_burst_prev : Nat,
            pair : SUBSET Ports, link : SUBSET Ports, timers : SUBSET {"rate", "stop"},
            snooping : BOOLEAN, lm : BOOLEAN, snoop_pkts : Seq({"short", "long"})]
\* A function between two calls of the library.
Call == [op : {"set"}, flow : Flows, qual : Qual] \cup
        [op : {"cnt"}, todo : SUBSET Keys, clear : BOOLEAN, cleared : [Keys -> Nat]]

ASSUME ConsoleAssumption ==
  /\ TxNames \cup RxNames \cup TrxNames \cup PortNames \subseteq Nat
  /\ {MaxWord, MaxPkts, MaxFails} \subseteq Nat /\ MaxPkts <= MaxWord
  /\ None \notin FlowRec /\ None \notin Call

VARIABLES
  db_flow,  \* the flow of each name, None where there is none
  port,     \* each port: the counter of its front, and what counter.cpp keeps of it
  ticking,  \* the timer of CAC_RATE runs
  call,     \* the function at work, None between two
  hung,     \* the function at work never returns
  owed,     \* history: packets of each flow and port not reported yet
  recent,   \* history: packets since the timer last ran, and in the period before
  torn,     \* history: what of a port a change of its interface that threw left wrong
  fails     \* calls of the SDK that failed

device == <<port, ticking>>
history == <<owed, recent, torn>>
vars == <<db_flow, device, call, hung, history, fails>>
-----------------------------------------------------------------------------
(* Counters.                                                               *)

\* COUNTER::operator -
Minus(a, b) == IF a >= b THEN a - b ELSE MaxWord - b + a

Quiet == [window |-> 0, last |-> 0]
Passed(r) == [window |-> 0, last |-> r.window]

New == [started |-> FALSE, set |-> {}, qual |-> [in_ports |-> FALSE, rules |-> {}],
        hw |-> 0, cnt_base |-> 0, cnt_rate |-> 0, cnt_rate_prev |-> 0, cnt_burst_prev |-> 0,
        pair |-> {}, link |-> {}, timers |-> {},
        snooping |-> FALSE, lm |-> FALSE, snoop_pkts |-> <<>>]

Reading(f) == IF f.started THEN Minus(f.hw, f.cnt_base) ELSE f.cnt_base

\* counter(true)
Cleared(f) == [f EXCEPT !.cnt_base = IF f.started THEN f.hw ELSE 0]

\* What counter(true) gives: a stopped flow reads its base after clearing it.
Given(f) == IF f.started THEN Reading(f) ELSE 0

\* Mutant: the measurement goes on.
Stopped_Measures(f) ==
  IF f.started
  THEN [f EXCEPT !.started = FALSE, !.cnt_base = Reading(f), !.hw = 0, !.cnt_rate = 0,
                 !.pair = {}, !.link = {}, !.timers = {}, !.snooping = FALSE]
  ELSE f

\* stop: what it has counted is kept in the base.
Stopped(f) ==
  IF f.started
  THEN [f EXCEPT !.started = FALSE, !.cnt_base = Reading(f), !.hw = 0, !.cnt_rate = 0,
                 !.pair = {}, !.link = {}, !.timers = {}, !.snooping = FALSE, !.lm = FALSE]
  ELSE f

\* stop that throws: what is bound and the timers are gone, the flow is started still.
HalfStopped(f) ==
  [f EXCEPT !.cnt_rate = 0, !.pair = {}, !.link = {}, !.timers = {}, !.snooping = FALSE, !.lm = FALSE]

Started(f, b) ==
  [f EXCEPT !.started = TRUE, !.hw = 0, !.cnt_base = 0, !.cnt_rate = 0, !.cnt_rate_prev = 0,
            !.cnt_burst_prev = 0, !.pair = b.pair, !.link = b.link,
            !.timers = {"rate"} \cup (IF "burst" \in f.set THEN {"stop"} ELSE {})]
-----------------------------------------------------------------------------
Init ==
  /\ db_flow = [i \in Flows |-> None]
  /\ port = [p \in Ports |-> [hw |-> 0, base |-> 0, prev |-> 0, rate |-> 0]]
  /\ ticking = TRUE
  /\ call = None
  /\ hung = FALSE
  /\ owed = [i \in Keys |-> 0]
  /\ recent = [i \in Keys |-> Quiet]
  /\ torn = [p \in Ports |-> {}]
  /\ fails = 0

Exists(i) == db_flow[i] # None
Existing(S) == {i \in S : Exists(i)}
Running == {i \in Existing(Flows) : db_flow[i].started}
Ready == call = None /\ ~hung
Fails == fails < MaxFails /\ fails' = fails + 1
Becomes(i, f) == db_flow' = [db_flow EXCEPT ![i] = f]

\* When flows stop their rates end.
Hushed(S) == [i \in DOMAIN recent |-> IF i \in S THEN Quiet ELSE recent[i]]

\* Bounds: flows at a time are of one table; the fewer they are, the more packets.
Room == \A n \in {port[p].hw : p \in Ports} \cup {db_flow[i].cnt_base : i \in Existing(Flows)} :
          Cardinality(Existing(Flows)) + n < MaxTotal

Create(i) ==
  /\ Ready /\ ~Exists(i)
  /\ Room /\ \A k \in Existing(Flows) : k[1] = i[1]
  /\ Becomes(i, New)
  /\ UNCHANGED <<device, call, hung, history, fails>>

Destroy(i) ==
  /\ Ready /\ Exists(i)
  /\ Becomes(i, None)
  /\ owed' = [owed EXCEPT ![i] = 0]
  /\ recent' = Hushed({i})
  /\ UNCHANGED <<device, call, hung, torn, fails>>

\* The setters do not touch a flow that runs: they count from the next start.
Set(i, what) ==
  /\ Ready /\ Exists(i)
  /\ Becomes(i, [db_flow[i] EXCEPT !.set = @ \cup {what}])
  /\ UNCHANGED <<device, call, hung, history, fails>>

\* A burst of 0 packets is none.
SetRate(i, burst) ==
  /\ Ready /\ Exists(i)
  /\ Becomes(i, [db_flow[i] EXCEPT !.set = IF burst THEN @ \cup {"burst"} ELSE @ \ {"burst"}])
  /\ UNCHANGED <<device, call, hung, history, fails>>

StopAll(S) == [i \in Flows |-> IF i \in S /\ Exists(i) THEN Stopped(db_flow[i]) ELSE db_flow[i]]

\* What a stop that throws leaves of a flow that runs.  It may throw ending the
\* snooping, which is the first thing the stop of a receive flow does.
Halves(i) ==
  {HalfStopped(db_flow[i])} \cup
  (IF ~db_flow[i].snooping THEN {}
   ELSE IF i \in Rx THEN {db_flow[i]} ELSE {[HalfStopped(db_flow[i]) EXCEPT !.snooping = TRUE]})

\* stop of the flows S one by one ends at the first that throws: some have
\* stopped before it, the others are not called.
StopThrows(S) ==
  /\ \E bad \in S \cap Running, done \in SUBSET S : \E f \in Halves(bad) :
       db_flow' = [StopAll(done \ {bad}) EXCEPT ![bad] = f]
  /\ Fails

Ends(S) ==
  /\ (db_flow' = StopAll(S) /\ UNCHANGED fails) \/ StopThrows(S)
  /\ recent' = Hushed({i \in Flows : db_flow'[i] # db_flow[i]})

\* What start asks for: ports, and packets to send.
Complete(i) ==
  CASE i \in Tx -> {"port", "pkt"} \subseteq db_flow[i].set
    [] i \in Rx -> db_flow[i].qual.in_ports
    [] i \in Trx -> {"port", "pkt", "rx_port"} \subseteq db_flow[i].set

\* The ports a start binds to, whichever were set.
Bindings(i) ==
  CASE i \in Tx -> {[pair |-> {p}, link |-> {p}] : p \in Ports}
    [] i \in Rx -> {[pair |-> S, link |-> {}] : S \in SUBSET Ports \ {{}}}
    [] i \in Trx -> {[pair |-> S \cup {p}, link |-> {p}] : S \in SUBSET Ports, p \in Ports}

StartOk(i) ==
  /\ Complete(i)
  /\ \E b \in Bindings(i) : Becomes(i, Started(Stopped(db_flow[i]), b))
  /\ owed' = [owed EXCEPT ![i] = 0]
  /\ recent' = Hushed({i})
  /\ UNCHANGED fails

\* start: stops first; when it throws (no port, no packet, no link, no room) the
\* flow stays stopped, or as the stop left it.
Start(i) ==
  /\ Ready /\ Exists(i)
  /\ StartOk(i) \/ (Ends({i}) /\ UNCHANGED owed)
  /\ UNCHANGED <<device, call, hung, torn>>

Stop(i) ==
  /\ Ready /\ Exists(i)
  /\ Ends({i})
  /\ UNCHANGED <<device, call, hung, owed, torn>>
-----------------------------------------------------------------------------
(* Reading and clearing counters, one flow or port after the other.        *)

First(S) == CHOOSE i \in S : \A k \in S : i[2] <= k[2]
Nothing == [i \in Keys |-> 0]
Less(a, b) == [i \in DOMAIN a |-> a[i] - b[i]]

\* What a call with clear tells, PORT::get_cnt or counter(true).
Told(i) == IF i \in Ports THEN Minus(port[i].hw, port[i].base) ELSE Given(db_flow[i])

\* What a stopped flow had is cleared, and shown by no one; a count that a change
\* of the interface left wrong is told as it is, and right again after that.
Forgiven(i) == IF i \in Ports THEN "count" \in torn[i] ELSE ~db_flow[i].started

\* Mutant: the base of a port stays.
Clears_NotPort(i) ==
  IF i \in Ports
  THEN torn' = [torn EXCEPT ![i] = @ \ {"count"}] /\ UNCHANGED <<db_flow, port>>
  ELSE Becomes(i, Cleared(db_flow[i])) /\ UNCHANGED <<port, torn>>

Clears(i) ==
  IF i \in Ports
  THEN /\ port' = [port EXCEPT ![i].base = port[i].hw]
       /\ torn' = [torn EXCEPT ![i] = @ \ {"count"}]
       /\ UNCHANGED db_flow
  ELSE Becomes(i, Cleared(db_flow[i])) /\ UNCHANGED <<port, torn>>

\* cnt_summary, cnt_detail or counter_summary of the first of todo; cleared: what
\* the text so far says of each and cleared there.  It is printed after the last.
ReadOne(todo, clear, cleared) ==
  LET i == First(todo)
      now == IF clear THEN [cleared EXCEPT ![i] = Told(i)] ELSE cleared
      kept == IF clear /\ Forgiven(i) THEN [owed EXCEPT ![i] = Told(i)] ELSE owed
  IN  /\ IF clear THEN Clears(i) ELSE UNCHANGED <<db_flow, port, torn>>
      /\ call' = IF todo = {i} THEN None
                 ELSE [op |-> "cnt", todo |-> todo \ {i}, clear |-> clear, cleared |-> now]
      /\ owed' = IF todo = {i} THEN Less(kept, now) ELSE kept
      /\ UNCHANGED <<ticking, hung, recent, fails>>

\* The flow or port of the name, or with no name all of them.
Cnt(S, clear) ==
  /\ Ready
  /\ \E todo \in {{i} : i \in S} \cup ({S} \ {{}}) : ReadOne(todo, clear, Nothing)

CntNext ==
  /\ call # None /\ call.op = "cnt"
  /\ ReadOne(call.todo, call.clear, call.cleared)

InText == IF call # None /\ call.op = "cnt" THEN call.cleared ELSE Nothing

\* A counter cannot be read: the text so far, cleared counts and all, is dropped.
CntFails ==
  /\ call # None /\ call.op = "cnt"
  /\ LET i == First(call.todo) IN i \in Flows => db_flow[i].started
  /\ call' = None
  /\ owed' = Less(owed, InText)
  /\ Fails
  /\ UNCHANGED <<db_flow, device, hung, recent, torn>>
-----------------------------------------------------------------------------
(* Receive flows: rules, and copies of packets.                            *)

\* qual_merge; a rule is a field and a value, a zero mask takes it away.
qual_merge(base, incr) ==
  [in_ports |-> base.in_ports \/ incr.in_ports,
   rules |-> {r \in base.rules : r[1] \notin {s[1] : s \in incr.rules}} \cup {s \in incr.rules : s[2] # "any"}]

InPorts == [in_ports |-> TRUE, rules |-> {}]
Rule(field, value) == [in_ports |-> FALSE, rules |-> {<<field, value>>}]

\* rx_flow_set_impl: info() now, set() of the merged rules in a call of its own.
Merge(i, incr) ==
  /\ Ready /\ Exists(i)
  /\ call' = [op |-> "set", flow |-> i, qual |-> qual_merge(db_flow[i].qual, incr)]
  /\ UNCHANGED <<db_flow, device, hung, history, fails>>

MergeEnd ==
  /\ call # None /\ call.op = "set"
  /\ Becomes(call.flow, [db_flow[call.flow] EXCEPT !.qual = call.qual])
  /\ call' = None
  /\ UNCHANGED <<device, hung, history, fails>>

\* snoop(max): a flow that snoops already goes on as before; old copies are gone
\* also when it throws.
Snoop(i, on) ==
  /\ Ready /\ Exists(i) /\ db_flow[i].started /\ db_flow[i].snooping # on
  /\ \/ Becomes(i, [db_flow[i] EXCEPT !.snooping = on, !.snoop_pkts = IF on THEN <<>> ELSE @]) /\ UNCHANGED fails
     \/ Becomes(i, [db_flow[i] EXCEPT !.snoop_pkts = IF on THEN <<>> ELSE @]) /\ Fails
  /\ UNCHANGED <<device, call, hung, history>>

\* The index of operator << is a UINT8: a packet of no or of more than 256 bytes
\* is printed for ever.
Dump(i) ==
  /\ Ready /\ Exists(i) /\ db_flow[i].started
  /\ Becomes(i, [db_flow[i] EXCEPT !.snoop_pkts = <<>>])
  /\ hung' = ("long" \in Range(db_flow[i].snoop_pkts))
  /\ UNCHANGED <<device, call, history, fails>>

\* lm_start stops first; it throws when the flow does not run, and where there is no room.
LatencyStart(i) ==
  /\ Ready /\ Exists(i)
  /\ \E ok \in {db_flow[i].started, FALSE} : Becomes(i, [db_flow[i] EXCEPT !.lm = ok])
  /\ UNCHANGED <<device, call, hung, history, fails>>

LatencyStop(i) ==
  /\ Ready /\ Exists(i)
  /\ Becomes(i, [db_flow[i] EXCEPT !.lm = FALSE])
  /\ UNCHANGED <<device, call, hung, history, fails>>
-----------------------------------------------------------------------------
(* The ports.                                                              *)

\* PORT::get_cnt
port_cnt(clear) == Cnt(Ports, clear)

\* Flows whose pair callback is bound to a port, or their link callback.
Paired(p) == {i \in Running : p \in db_flow[i].pair}
Linked(p) == {i \in Running : p \in db_flow[i].link}

\* Mutant: the rate goes on from the counter of the old front.
Changed_KeepsPrev(r) == [r EXCEPT !.hw = 0, !.base = 0]

\* What the callbacks that stay bound clear.
Changed(r) == [r EXCEPT !.hw = 0, !.base = 0, !.prev = 0]

\* set_itf to the other interface.  The callbacks are called from the last bound to
\* the first: flows stop and the base of get_cnt is cleared (which of them first,
\* the order of their first calls says), the counters of both ports of the pair are
\* cleared, then what the rate is a difference to.  The one that throws is the last:
\* the port then has the counter of its other front, which is any number here.
port_set_itf(p) ==
  /\ Ready
  /\ \/ /\ db_flow' = StopAll(Paired(p))
        /\ port' = [port EXCEPT ![p] = Changed(@)]
        /\ torn' = [torn EXCEPT ![p] = @ \ {"count", "window"}]
        /\ UNCHANGED fails
     \/ /\ \E base \in {0, port[p].base}, n \in 0..MaxPkts :
             /\ port' = [port EXCEPT ![p].hw = n, ![p].base = base]
             /\ StopThrows(Paired(p)) \/ (base = 0 /\ db_flow' = StopAll(Paired(p)) /\ Fails)
        /\ torn' = [torn EXCEPT ![p] = @ \cup {"count", "window"}]
  /\ recent' = [Hushed({i \in Flows : db_flow'[i] # db_flow[i]}) EXCEPT ![p].window = 0]
  /\ owed' = [owed EXCEPT ![p] = 0]
  /\ UNCHANGED <<ticking, call, hung>>

\* CAC_RATE::on_timer; port_init starts it.  A counter that cannot be read ends the
\* loop, and the timer: it is not inserted again after a callback that throws.
PortTimer ==
  /\ ticking = TRUE
  /\ \E done \in {Ports} \cup {{q \in Ports : q[2] < p[2]} : p \in Ports} :
       /\ port' = [p \in Ports |->
            IF p \in done THEN [port[p] EXCEPT !.rate = Minus(port[p].hw, port[p].prev), !.prev = port[p].hw]
            ELSE port[p]]
       /\ ticking' = (done = Ports)
       /\ IF done = Ports THEN UNCHANGED fails ELSE Fails
       /\ recent' = [i \in DOMAIN recent |-> IF i \in done THEN Passed(recent[i]) ELSE recent[i]]
       /\ torn' = [p \in Ports |->
            IF p \notin done THEN torn[p]
            ELSE (torn[p] \ {"window", "rate"}) \cup (IF "window" \in torn[p] THEN {"rate"} ELSE {})]
  /\ UNCHANGED <<db_flow, call, hung, owed>>
-----------------------------------------------------------------------------
(* Between the calls.                                                      *)

\* on_link_change: receive flows do not mind.
LinkDown(p) ==
  /\ Ends(Linked(p))
  /\ UNCHANGED <<device, call, hung, owed, torn>>

\* cnt_rate_cac of a running flow, the timer ending when it throws.
RateTimer(i) ==
  /\ i \in Running /\ "rate" \in db_flow[i].timers
  /\ \/ /\ Becomes(i, [db_flow[i] EXCEPT !.cnt_rate = Minus(db_flow[i].hw, db_flow[i].cnt_rate_prev),
                                         !.cnt_rate_prev = db_flow[i].hw])
        /\ recent' = [recent EXCEPT ![i] = Passed(@)]
        /\ UNCHANGED fails
     \/ Becomes(i, [db_flow[i] EXCEPT !.timers = @ \ {"rate"}]) /\ Fails /\ UNCHANGED recent
  /\ UNCHANGED <<device, call, hung, owed, torn>>

\* auto_stop of a burst: when nothing was sent since it last ran.
AutoStop(i) ==
  /\ i \in Running /\ "stop" \in db_flow[i].timers
  /\ \/ db_flow[i].hw = db_flow[i].cnt_burst_prev /\ Ends({i})
     \/ /\ db_flow[i].hw # db_flow[i].cnt_burst_prev
        /\ Becomes(i, [db_flow[i] EXCEPT !.cnt_burst_prev = db_flow[i].hw])
        /\ UNCHANGED <<recent, fails>>
     \/ Becomes(i, [db_flow[i] EXCEPT !.timers = @ \ {"stop"}]) /\ Fails /\ UNCHANGED recent
  /\ UNCHANGED <<device, call, hung, owed, torn>>

\* A packet through the front of a port, counted by the flows S and copied by those
\* that snoop and have room.
Packet(p, S, size) ==
  /\ Room /\ port[p].hw < MaxPkts /\ \A i \in S : db_flow[i].hw < MaxPkts
  /\ port' = [port EXCEPT ![p].hw = @ + 1]
  /\ db_flow' = [i \in Flows |->
       IF i \notin S THEN db_flow[i]
       ELSE [db_flow[i] EXCEPT !.hw = @ + 1,
               !.snoop_pkts = IF db_flow[i].snooping /\ @ = <<>> THEN <<size>> ELSE @]]
  /\ owed' = [i \in Keys |-> IF i \in S \cup {p} THEN owed[i] + 1 ELSE owed[i]]
  /\ recent' = [i \in Keys |->
       IF i \in S \cup {p} THEN [recent[i] EXCEPT !.window = @ + 1] ELSE recent[i]]
  /\ UNCHANGED <<ticking, call, hung, torn, fails>>
-----------------------------------------------------------------------------
(* The functions by their names.                                           *)

tx_flow_create(n) == Create(<<"tx", n>>)
tx_flow_destroy(n) == Destroy(<<"tx", n>>)
tx_flow_set_rate(n, burst) == SetRate(<<"tx", n>>, burst)
tx_flow_set_port(n) == Set(<<"tx", n>>, "port")
tx_flow_set_pkt(n) == Set(<<"tx", n>>, "pkt")
tx_flow_start(n) == Start(<<"tx", n>>)
tx_flow_stop(n) == Stop(<<"tx", n>>)
tx_flow_cnt(clear) == Cnt(Existing(Tx), clear)

rx_flow_create(n) == Create(<<"rx", n>>)
rx_flow_destroy(n) == Destroy(<<"rx", n>>)
rx_flow_set_port(n) == Merge(<<"rx", n>>, InPorts)
rx_flow_set_udf(n) == Merge(<<"rx", n>>, Rule("udf", "value"))
rx_flow_set_udf_prefix(n) == Merge(<<"rx", n>>, Rule("udf", "value"))
rx_flow_set_pdf(n) == \E v \in {"value", "any"} : Merge(<<"rx", n>>, Rule("pdf", v))
rx_flow_set_pdf_prefix(n) == Merge(<<"rx", n>>, Rule("pdf", "value"))
rx_flow_start(n) == Start(<<"rx", n>>)
rx_flow_stop(n) == Stop(<<"rx", n>>)
rx_flow_cnt(clear) == Cnt(Existing(Rx), clear)
rx_flow_snoop(n, on) == Snoop(<<"rx", n>>, on)
rx_flow_dump(n) == Dump(<<"rx", n>>)

trx_flow_create(n) == Create(<<"trx", n>>)
trx_flow_destroy(n) == Destroy(<<"trx", n>>)
trx_flow_set_tx_port(n) == Set(<<"trx", n>>, "port")
trx_flow_set_tx_rate(n) == SetRate(<<"trx", n>>, FALSE)
trx_flow_set_tx_pkt(n) == Set(<<"trx", n>>, "pkt")
trx_flow_set_rx_port(n) == Set(<<"trx", n>>, "rx_port")
trx_flow_set_rx_offset(n) == Set(<<"trx", n>>, "rx_offset")
trx_flow_start(n) == Start(<<"trx", n>>)
trx_flow_stop(n) == Stop(<<"trx", n>>)
trx_flow_cnt(clear) == Cnt(Existing(Trx), clear)
trx_flow_snoop(n, on) == Snoop(<<"trx", n>>, on)
trx_flow_dump(n) == Dump(<<"trx", n>>)
trx_flow_latency_start(n) == LatencyStart(<<"trx", n>>)
trx_flow_latency_stop(n) == LatencyStop(<<"trx", n>>)

TxCall ==
  \/ \E n \in TxNames :
       \/ tx_flow_create(n) \/ tx_flow_destroy(n)
       \/ \E burst \in BOOLEAN : tx_flow_set_rate(n, burst)
       \/ tx_flow_set_port(n) \/ tx_flow_set_pkt(n) \/ tx_flow_start(n) \/ tx_flow_stop(n)
  \/ \E clear \in BOOLEAN : tx_flow_cnt(clear)

RxCall ==
  \/ \E n \in RxNames :
       \/ rx_flow_create(n) \/ rx_flow_destroy(n)
       \/ rx_flow_set_port(n) \/ rx_flow_set_udf(n) \/ rx_flow_set_udf_prefix(n)
       \/ rx_flow_set_pdf(n) \/ rx_flow_set_pdf_prefix(n)
       \/ rx_flow_start(n) \/ rx_flow_stop(n) \/ rx_flow_dump(n)
       \/ \E on \in BOOLEAN : rx_flow_snoop(n, on)
  \/ \E clear \in BOOLEAN : rx_flow_cnt(clear)

TrxCall ==
  \/ \E n \in TrxNames :
       \/ trx_flow_create(n) \/ trx_flow_destroy(n)
       \/ trx_flow_set_tx_port(n) \/ trx_flow_set_tx_rate(n) \/ trx_flow_set_tx_pkt(n)
       \/ trx_flow_set_rx_port(n) \/ trx_flow_set_rx_offset(n)
       \/ trx_flow_start(n) \/ trx_flow_stop(n) \/ trx_flow_dump(n)
       \/ trx_flow_latency_start(n) \/ trx_flow_latency_stop(n)
       \/ \E on \in BOOLEAN : trx_flow_snoop(n, on)
  \/ \E clear \in BOOLEAN : trx_flow_cnt(clear)

PortCall ==
  \/ \E clear \in BOOLEAN : port_cnt(clear)
  \/ \E p \in Ports : port_set_itf(p)

Between ==
  \/ CntNext \/ CntFails \/ MergeEnd
  \/ PortTimer
  \/ \E i \in Running : RateTimer(i) \/ AutoStop(i)
  \/ \E p \in Ports : LinkDown(p)
  \/ \E p \in Ports, S \in SUBSET Running, size \in {"short", "long"} : Packet(p, S, size)

Next == TxCall \/ RxCall \/ TrxCall \/ PortCall \/ Between

Spec == Init /\ [][Next]_vars
=============================================================================
