-------------------------- MODULE TrxFlowProperties --------------------------
(* What transmit and receive flows promise. *)
EXTENDS TrxFlow

Stamps == [track : Tracks, by : Flows]

\* TRX_FLOW::IMPL; only a started flow snoops or measures (is_snooping and
\* is_lm_started imply is_trx_started, trx_flow.cpp), and what a part of it
\* holds it holds while that part runs.  A flow whose snooping failed keeps the
\* queue of it as long as it runs (rx.cpp:36-38).
FlowRec == [trx : BOOLEAN, track : Tracks \cup {None}, cosq : Cosqs \cup {None}, cells : Nat,
            pkt : Pkts \cup {None}, rx_offset : Offsets,
            snooping : BOOLEAN, snoop_q : Queues \cup {None},
            lm : BOOLEAN, vid : Vids \cup {None}, lm_cells : Nat, lm_q : Queues \cup {None},
            lm_filter : Offsets \cup {None}, timer : BOOLEAN, waiting : BOOLEAN,
            tx_time : Stamps \cup {None}, rx_time : Stamps \cup {None}]

Coherent(m) ==
  /\ m.trx => m.pkt # None
  /\ m.snooping \/ m.lm => m.trx
  /\ m.timer => m.lm
  /\ m.track # None <=> m.trx
  /\ m.cosq # None <=> m.trx
  /\ m.snooping => m.snoop_q # None
  /\ m.snoop_q # None => m.trx
  /\ m.vid # None <=> m.lm
  /\ m.lm_q # None <=> m.lm

Copies == LET Copy(at, vlans, queues) == [at : {at}, vlan : vlans, queue : queues,
                                          track : Tracks, offset : Offsets, by : Flows]
          IN  Copy("wire", {None}, {None}) \cup Copy("tx", Cosqs \X Vids, {None}) \cup Copy("rx", {None}, Queues)

\* The types of the state.
TypeOK ==
  /\ \A f \in Flows : flow[f] \in FlowRec /\ Coherent(flow[f])
  /\ free_cell \in Nat
  /\ flying \subseteq Copies
  /\ aborted \in BOOLEAN

Apart(a, b) == a # None => a # b

\* No two flows have a flow identifier, an engine queue or a CPU queue in
\* common, and the observers are exactly the measurements there are.
NothingShared ==
  /\ \A f, g \in Flows :
       /\ f # g => /\ Apart(flow[f].track, flow[g].track) /\ Apart(flow[f].cosq, flow[g].cosq)
                   /\ Apart(flow[f].lm_q, flow[g].lm_q) /\ Apart(flow[f].snoop_q, flow[g].snoop_q)
       /\ Apart(flow[f].lm_q, flow[g].snoop_q)
  /\ \A c \in Cosqs, v \in Vids :
       /\ db_rx[<<c, v>>] = None <=> v \in Range(vid_free[c])
       /\ \A f \in Flows : db_rx[<<c, v>>] = f <=> flow[f].lm /\ flow[f].cosq = c /\ flow[f].vid = v

\* Cells per flow, those of its TX and of its measuring packet, in the state s
\* the handlers pass on.
Reserved(s) == [f \in Flows |-> s.flow[f].cells + s.flow[f].lm_cells]

\* Whatever fails (a snooping after its CPU queue was bound included), stops or
\* is destroyed, in whatever order: cells are either
\* free or reserved by a flow that runs, identifiers, queues and latency VLANs
\* have one owner, and each measurement is observed once, so that the
\* assertions of add_observer and remove_observer hold (observer.h:23, 33).
Accounted ==
  /\ free_cell = Cells - SumFunction(Reserved(Now))
  /\ NothingShared

\* A measurement only uses timestamps of packets its own flow sent since it
\* was started: copies come late, after their VLAN or CPU queue went to
\* another flow, and extract_sn sorts them out (flow_track.cpp:158).
StampsAreOwn ==
  \A f \in Flows : \A w \in {flow[f].tx_time, flow[f].rx_time} \ {None} : w.by = f /\ w.track = flow[f].track
-----------------------------------------------------------------------------
(* The inductive invariant behind these properties (TrxFlowProofs), of the *)
(* state s the handlers pass on and the packets and copies fl on their way.*)

StateRec == [flow : [Flows -> FlowRec], free : Nat, vids : [Cosqs -> Seq(Vids)],
             db : [Cosqs \X Vids -> Flows \cup {None}]]

Distinct(q) == \A i, j \in DOMAIN q : q[i] = q[j] => i = j

\* Times are of the run that goes on.
OwnTimes(f, m) ==
  \A w \in {m.tx_time, m.rx_time} \ {None} : m.lm /\ w.by = f /\ w.track = m.track

Owners(s) ==
  \A f, g \in Flows :
    /\ f # g => /\ Apart(s.flow[f].track, s.flow[g].track) /\ Apart(s.flow[f].cosq, s.flow[g].cosq)
                /\ Apart(s.flow[f].lm_q, s.flow[g].lm_q) /\ Apart(s.flow[f].snoop_q, s.flow[g].snoop_q)
    /\ Apart(s.flow[f].lm_q, s.flow[g].snoop_q)

Observers(s) ==
  \A c \in Cosqs, v \in Vids :
    /\ s.db[<<c, v>>] = None <=> v \in Range(s.vids[c])
    /\ \A f \in Flows : s.db[<<c, v>>] = f <=> s.flow[f].lm /\ s.flow[f].cosq = c /\ s.flow[f].vid = v

\* A packet on its way carries the track of the flow that sent it, or of none.
OwnTracks(s, fl) == \A w \in fl, f \in Flows : s.flow[f].track = w.track => w.by = f

Sound(s, fl) ==
  /\ s \in StateRec /\ fl \subseteq Copies
  /\ \A f \in Flows : Coherent(s.flow[f]) /\ OwnTimes(f, s.flow[f])
  /\ \A c \in Cosqs : Distinct(s.vids[c])
  /\ Owners(s) /\ Observers(s) /\ OwnTracks(s, fl)

TrxInv == Sound(Now, flying) /\ aborted \in BOOLEAN

\* Cells are of parts that run, and with the free ones they are all there are.
Backed(m) ==
  /\ m.trx \/ m.cells = 0
  /\ m.lm \/ m.lm_cells = 0

Ledger(s) ==
  /\ \A f \in Flows : Backed(s.flow[f])
  /\ s.free + SumFunction(Reserved(s)) = Cells

LedgerInv == Ledger(Now)
=============================================================================
