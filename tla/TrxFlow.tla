------------------------------- MODULE TrxFlow -------------------------------
(***************************************************************************)
(* Transmit and receive flows (TRX_FLOW of flow/trx_flow.cpp).  A started  *)
(* flow stamps its packets with a flow track (flow_track.cpp), sends them  *)
(* by a TX and counts what an RX filter on that track lets through.  Its   *)
(* latency measurement sends marked packets through the same TX            *)
(* (TX_LATENCY of tx.cpp), and gets a copy of each back from the latency   *)
(* port, told apart by its VLAN (fp_vtag.cpp, fp_fork.cpp, observer.h),    *)
(* and one from the receiving ports (RX_LATENCY of rx.cpp).                *)
(*                                                                         *)
(* Handlers hold the API mutex, so each is one step; packets and copies    *)
(* move in between and are late, lost or reordered.  LatencyCac has the    *)
(* rounds of a measurement, TxFlow and RxFlow what a TX and an RX do; here *)
(* are one pair, one set of receiving ports, one serial number and one     *)
(* timestamp per side and round, which stands for the packet it is of.     *)
(***************************************************************************)
EXTENDS Integers, Sequences, SequencesExt, FiniteSets, FiniteSetsExt

CONSTANTS
  Flows,      \* TRX_FLOW instances
  Tracks,     \* flow identifiers, 28 bits in the program
  Offsets,    \* where a packet may carry its track, in bytes
  Pkts,       \* packets of set_tx
  Cosqs,      \* queues of the engine port
  NumVids,    \* latency VLANs of one queue
  Queues,     \* queues of the CPU port
  Cells,      \* free cells when no flow runs
  MaxFlying,  \* bound: measuring packets and copies on their way at which no
              \* round begins
  None

\* offset: of the track; cells: of one packet; block: whether the track is a
\* block of fields or a field of the same size.
Pkt == [offset : Offsets, cells : Nat \ {0}, block : BOOLEAN]
Vids == 1..NumVids

ASSUME TrxAssumption ==
  /\ IsFiniteSet(Flows)
  /\ Pkts \subseteq Pkt
  /\ Queues \subseteq Nat
  /\ {NumVids, Cells, MaxFlying} \subseteq Nat
  /\ None \notin Flows /\ None \notin Tracks /\ None \notin Pkts
  /\ None \notin Cosqs /\ None \notin Vids /\ None \notin Queues

VARIABLES
  flow,      \* members of TRX_FLOW::IMPL
  free_cell,
  vid_free,  \* the identifiers of each queue nobody has, in the order of use
  db_rx,     \* observer.h: the flow to call for a latency VLAN
  flying,    \* measuring packets and their copies
  aborted    \* the program is gone

vars == <<flow, free_cell, vid_free, db_rx, flying, aborted>>

\* What trx_stop, snoop_stop and lm_stop reset.  The RX goes with the queue of
\* a snooping that failed (SnoopStart).
NoTrx(m) == [m EXCEPT !.trx = FALSE, !.track = None, !.cosq = None, !.cells = 0, !.snoop_q = None]
NoSnoop(m) == [m EXCEPT !.snooping = FALSE, !.snoop_q = None]
NoLm(m) == [m EXCEPT !.lm = FALSE, !.vid = None, !.lm_cells = 0, !.lm_q = None, !.lm_filter = None,
                     !.timer = FALSE, !.waiting = FALSE, !.tx_time = None, !.rx_time = None]

\* The constructor leaves the offset of the receiving side as it is.
New(o) == [trx |-> FALSE, track |-> None, cosq |-> None, cells |-> 0, pkt |-> None, rx_offset |-> o,
           snooping |-> FALSE, snoop_q |-> None,
           lm |-> FALSE, vid |-> None, lm_cells |-> 0, lm_q |-> None, lm_filter |-> None,
           timer |-> FALSE, waiting |-> FALSE, tx_time |-> None, rx_time |-> None]

Init ==
  /\ flow \in [Flows -> {New(o) : o \in Offsets}]
  /\ free_cell = Cells
  /\ vid_free = [c \in Cosqs |-> [v \in Vids |-> v]]
  /\ db_rx = [v \in Cosqs \X Vids |-> None]
  /\ flying = {}
  /\ aborted = FALSE

Now == [flow |-> flow, free |-> free_cell, vids |-> vid_free, db |-> db_rx]
Becomes(s) ==
  /\ flow' = s.flow /\ free_cell' = s.free /\ vid_free' = s.vids /\ db_rx' = s.db
  /\ UNCHANGED <<flying, aborted>>

Held(s, what) == {s.flow[f][what] : f \in Flows} \ {None}
Free(s, all, what) == all \ Held(s, what)
\* CPU queues are given out lowest first: all flows receive on the same ports.
CpuQueues(s) == Queues \ (Held(s, "snoop_q") \cup Held(s, "lm_q"))
-----------------------------------------------------------------------------
(* Settings, read again by the measurement while it runs.                  *)

SetTx(f, p) ==
  Becomes([Now EXCEPT !.flow[f].pkt = p])

SetRx(f, o) ==
  Becomes([Now EXCEPT !.flow[f].rx_offset = o])
-----------------------------------------------------------------------------
(* Stopping, as functions of the state.                                    *)

\* Mutant: the observer stays registered.
LmStopped_Observed(s, f) ==
  LET m == s.flow[f]
  IN  IF ~m.lm THEN s
      ELSE [s EXCEPT !.flow[f] = NoLm(@), !.free = @ + m.lm_cells, !.vids[m.cosq] = Append(@, m.vid)]

\* lm_stop: ~TX_LATENCY, ~RX_LATENCY, ~LATENCY_CAC.
LmStopped(s, f) ==
  LET m == s.flow[f]
  IN  IF ~m.lm THEN s
      ELSE [s EXCEPT !.flow[f] = NoLm(@), !.free = @ + m.lm_cells,
                     !.vids[m.cosq] = Append(@, m.vid), !.db[<<m.cosq, m.vid>>] = None]

\* snoop_stop of trx_flow.cpp looks at is_snooping only.
SnoopStopped(s, f) == IF ~s.flow[f].snooping THEN s ELSE [s EXCEPT !.flow[f] = NoSnoop(@)]

\* Mutant: trx_stop forgets the measurement.
TrxStopped_Measuring(s, f) ==
  IF ~s.flow[f].trx THEN s
  ELSE LET u == SnoopStopped(s, f)
       IN  [u EXCEPT !.flow[f] = NoTrx(@), !.free = @ + s.flow[f].cells]

\* trx_stop: the callbacks, the measurement, snooping, then TX, RX and track.
TrxStopped(s, f) ==
  IF ~s.flow[f].trx THEN s
  ELSE LET u == SnoopStopped(LmStopped(s, f), f)
       IN  [u EXCEPT !.flow[f] = NoTrx(@), !.free = @ + s.flow[f].cells]

\* Snooping cannot be taken back for want of room, or a counter not be read:
\* the rest of trx_stop is skipped and the flow counts as started.
StopFailures(s, f) ==
  LET u == LmStopped(s, f)
  IN  IF ~s.flow[f].trx THEN {}
      ELSE {SnoopStopped(u, f)} \cup (IF s.flow[f].snooping THEN {u} ELSE {})

\* trx_stop, also by on_link_change and on_pair_change.
Stop(f) ==
  /\ flow[f].trx
  /\ Becomes(TrxStopped(Now, f))

StopFails(f) ==
  \E s \in StopFailures(Now, f) : Becomes(s)

\* ~IMPL: the members go, last one first; a new flow takes the place.
Destroy(f, o) ==
  Becomes([TrxStopped(Now, f) EXCEPT !.flow[f] = New(o)])
-----------------------------------------------------------------------------
(* trx_start.                                                              *)

\* TX::start puts the packet in the queue until there are LINE_RATE_PKT_NUM.
LineRate == 4

\* new_flow_id: a random number nobody has; one a packet on its way still
\* carries is not drawn again.
FreeTracks(s) == Free(s, Tracks, "track") \ {w.track : w \in flying}

Started(s, f, cosq, track) ==
  LET m == s.flow[f]
  IN  [s EXCEPT !.free = @ - LineRate * m.pkt.cells,
        !.flow[f] = [@ EXCEPT !.trx = TRUE, !.cosq = cosq, !.cells = LineRate * m.pkt.cells, !.track = track]]

\* Whatever throws after trx_stop (no link, no packet, no queue or cells, no
\* room for the filter) gives back what the call had taken.
StartFails(f) ==
  /\ flow[f].trx
  /\ Becomes(TrxStopped(Now, f))

Start(f) ==
  LET s == TrxStopped(Now, f)
  IN  /\ flow[f].pkt # None
      /\ LineRate * flow[f].pkt.cells <= s.free
      /\ \E cosq \in Free(s, Cosqs, "cosq"), track \in FreeTracks(s) : Becomes(Started(s, f, cosq, track))
-----------------------------------------------------------------------------
(* Snooping.                                                               *)

\* RX::snoop_start: a new CPU::RX takes its queue before the one of an earlier
\* try goes; then fp.snoop_start, which may throw and leave a flow that owns the
\* queue and does not snoop.  What is kept of the packets is as in RxFlow.
SnoopStart(f) ==
  /\ flow[f].trx /\ ~flow[f].snooping /\ CpuQueues(Now) # {}
  /\ \E ok \in BOOLEAN :
       Becomes([Now EXCEPT !.flow[f].snooping = ok, !.flow[f].snoop_q = Min(CpuQueues(Now))])

SnoopStop(f) ==
  /\ flow[f].trx /\ flow[f].snooping
  /\ Becomes(SnoopStopped(Now, f))
-----------------------------------------------------------------------------
(* Latency measurement.                                                    *)

\* lm_start after lm_stop: RX_LATENCY on the offset there is now, TX_LATENCY
\* on the TX that runs, and the timer.
Measuring(s, f) ==
  LET c == s.flow[f].cosq
      v == Head(s.vids[c])
  IN  [s EXCEPT !.flow[f] = [@ EXCEPT !.lm = TRUE, !.vid = v, !.lm_q = Min(CpuQueues(s)),
                                      !.lm_filter = s.flow[f].rx_offset, !.timer = TRUE],
                !.vids[c] = Tail(@), !.db[<<c, v>>] = f]

LmStart(f) ==
  LET s == LmStopped(Now, f)
  IN  /\ flow[f].trx
      /\ CpuQueues(s) # {} /\ s.vids[flow[f].cosq] # <<>>
      /\ Becomes(Measuring(s, f))

\* lm_stop, and lm_start when it throws.
LmStop(f) ==
  /\ flow[f].lm
  /\ Becomes(LmStopped(Now, f))

\* FP_FORK_LATENCY sends the packet to the front port and to the latency
\* port, FP_LATENCY_PORT copies it to the CPU with its VLAN.
Sent(f) ==
  LET m == flow[f]
      Copy(at, vlan) == [at |-> at, vlan |-> vlan, queue |-> None, track |-> m.track, offset |-> m.pkt.offset, by |-> f]
  IN  {Copy("wire", None), Copy("tx", <<m.cosq, m.vid>>)}

TimerOn(f, waiting) == flow[f].lm /\ flow[f].timer /\ flow[f].waiting = waiting

\* TX_LATENCY::insert: mmu_tx.reset(new MMU(...)) takes the new cells first.
Affords(f) == free_cell >= flow[f].pkt.cells

\* State START of the measurement: a packet with the track and a serial number.
Round(f) ==
  /\ TimerOn(f, FALSE) /\ flow[f].pkt.block
  /\ Cardinality(flying) < MaxFlying
  /\ IF Affords(f)
     THEN /\ flow' = [flow EXCEPT ![f] = [@ EXCEPT !.tx_time = None, !.rx_time = None, !.waiting = TRUE,
                                                   !.lm_cells = flow[f].pkt.cells]]
          /\ free_cell' = free_cell + flow[f].lm_cells - flow[f].pkt.cells
          /\ flying' = flying \cup Sent(f)
     ELSE /\ flow' = [flow EXCEPT ![f] = [@ EXCEPT !.tx_time = None, !.rx_time = None, !.timer = FALSE]]
          /\ UNCHANGED <<free_cell, flying>>
  /\ UNCHANGED <<vid_free, db_rx, aborted>>

\* pkt.block(tx_flow_track) of a field that is no block is a null reference.
RoundCrashes(f) ==
  /\ TimerOn(f, FALSE) /\ ~flow[f].pkt.block
  /\ aborted' = TRUE
  /\ UNCHANGED <<flow, free_cell, vid_free, db_rx, flying>>

\* Both waits are over, by timestamps or by time-out; what it makes of them is
\* in LatencyCac.
Publish(f) ==
  /\ TimerOn(f, TRUE)
  /\ Becomes([Now EXCEPT !.flow[f].waiting = FALSE])
-----------------------------------------------------------------------------
(* Packets and copies.                                                     *)

\* The packet comes in at a receiving port: the filters of the measurements
\* that find their track where they look copy it to the CPU.
Arrive(w) ==
  LET g == {f \in Flows : flow[f].lm /\ flow[f].lm_filter = w.offset /\ flow[f].track = w.track}
  IN  /\ w.at = "wire"
      /\ flying' = (flying \ {w}) \cup {[w EXCEPT !.at = "rx", !.queue = flow[f].lm_q] : f \in g}
      /\ UNCHANGED <<flow, free_cell, vid_free, db_rx, aborted>>

Lose(w) ==
  /\ flying' = flying \ {w}
  /\ UNCHANGED <<flow, free_cell, vid_free, db_rx, aborted>>

\* Mutant: extract_sn does not compare the flow identifiers.
Takes_AnyTrack(f, w, offset) == offset = w.offset

\* extract_sn: the track, read at the offset set now, is the own one.
Takes(f, w, offset) == offset = w.offset /\ w.track = flow[f].track

\* A timestamp, told by the packet it is of.
Stamp(w) == [track |-> w.track, by |-> w.by]

\* observer_dispatch and on_lm_tx.  tx_track_offset goes with tx_pkt.
DeliverTx(w) ==
  LET f == db_rx[w.vlan]
  IN  /\ w.at = "tx"
      /\ flow' = IF f = None \/ ~Takes(f, w, flow[f].pkt.offset) THEN flow
                 ELSE [flow EXCEPT ![f].tx_time = Stamp(w)]
      /\ flying' = flying \ {w}
      /\ UNCHANGED <<free_cell, vid_free, db_rx, aborted>>

\* rx_dispatch, then on_lm_rx; on_pkt_rx when the queue has changed hands.
DeliverRx(w) ==
  /\ w.at = "rx"
  /\ flow' = [f \in Flows |-> IF flow[f].lm_q = w.queue /\ Takes(f, w, flow[f].rx_offset)
                            THEN [flow[f] EXCEPT !.rx_time = Stamp(w)] ELSE flow[f]]
  /\ flying' = flying \ {w}
  /\ UNCHANGED <<free_cell, vid_free, db_rx, aborted>>
-----------------------------------------------------------------------------
Call(f) ==
  \/ \E p \in Pkts : SetTx(f, p)
  \/ \E o \in Offsets : SetRx(f, o) \/ Destroy(f, o)
  \/ Start(f) \/ StartFails(f) \/ Stop(f) \/ StopFails(f)
  \/ SnoopStart(f) \/ SnoopStop(f)
  \/ LmStart(f) \/ LmStop(f) \/ Round(f) \/ RoundCrashes(f) \/ Publish(f)

Next ==
  /\ ~aborted
  /\ \/ \E f \in Flows : Call(f)
     \/ \E w \in flying : Arrive(w) \/ Lose(w) \/ DeliverTx(w) \/ DeliverRx(w)

Spec == Init /\ [][Next]_vars
=============================================================================
