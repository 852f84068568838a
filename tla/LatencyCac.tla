------------------------------ MODULE LatencyCac ------------------------------
(***************************************************************************)
(* circle_flow/src/flow/latency_cac.cpp: the latency measurement of a      *)
(* TRX_FLOW.  A one-shot timer drives a state machine that sends one       *)
(* packet per serial number, waits for the timestamps taken where the      *)
(* packets leave and where they arrive, and publishes their mean distance. *)
(*                                                                         *)
(* The timestamps come back in copies of the packets, one from the sending *)
(* and one from the receiving side; copies are lost, reordered or late,    *)
(* and nothing in a copy says which round it belongs to.  All handlers run *)
(* under the API mutex, so each is one step.                               *)
(***************************************************************************)
EXTENDS Integers, FiniteSets, Functions

CONSTANTS
  SN,        \* serial numbers, 0..FLOW_TRACK::max_sn()
  MaxStamp,  \* largest timestamp, 2^32-1 in the program
  MaxWait,   \* MAX_WAIT_CNT
  Rounds,    \* bound: rounds are counted modulo Rounds
  Stamps,    \* when the first packet of a round may leave
  Delays,    \* how long a packet may travel
  Jitter,    \* what the second and later packets travel longer
  CanThrow   \* whether pkt_gen may fail (no cells left in the MMU)

ASSUME LatencyAssumption ==
  /\ SN \subseteq Nat /\ SN # {} /\ IsFiniteSet(SN)
  /\ MaxStamp \in Nat /\ MaxWait \in Nat /\ Rounds \in Nat \ {0, 1}
  /\ Stamps \subseteq 0..MaxStamp /\ Delays \subseteq Nat /\ Jitter \in Nat
  /\ CanThrow \in BOOLEAN

TS_INVALID == 0
LATENCY_INVALID == -1

VARIABLES
  state,        \* IMPL::state; "gone" when there is no LATENCY_CAC
  timer,        \* whether the timer is started
  tx_wait_cnt, rx_wait_cnt,
  tx_time, rx_time,
  latency,
  flying,       \* copies on their way to the timestamp handlers
  round,        \* history: the number of the current round
  travel,       \* history: true travel time of each packet of this round
  got,          \* history: copies of this round that were handled
  mixed,        \* history: a copy of another round was handled in this one
  cut           \* history: some round was ended by a time-out or a stop

vars == <<state, timer, tx_wait_cnt, rx_wait_cnt, tx_time, rx_time, latency,
          flying, round, travel, got, mixed, cut>>

history == <<round, travel, got, mixed, cut>>

Sides == {"tx", "rx"}
Stamp == 0..MaxStamp
Wrap(x) == x % (MaxStamp + 1)
Blank == [sn \in SN |-> TS_INVALID]
-----------------------------------------------------------------------------
is_data_complete(ts) == \A sn \in SN : ts[sn] # TS_INVALID

\* Mutant: a turn-over counted one short.
Distance_Short(from, to) == IF to >= from THEN to - from ELSE MaxStamp - from + to

\* The travel time, across a turn-over of the timestamp.
Distance(from, to) == IF to >= from THEN to - from ELSE Wrap(MaxStamp - from + 1 + to)

\* cac_latency: the mean over the packets with both timestamps, in UINT32.
Measured(tx, rx) == {sn \in SN : tx[sn] # TS_INVALID /\ rx[sn] # TS_INVALID}
cac_latency(tx, rx) ==
  LET m == Measured(tx, rx)
  IN  IF m = {} THEN LATENCY_INVALID
      ELSE Wrap(SumFunction([sn \in m |-> Distance(tx[sn], rx[sn])])) \div Cardinality(m)
-----------------------------------------------------------------------------
Init ==
  /\ state = "gone" /\ timer = FALSE
  /\ tx_wait_cnt = 0 /\ rx_wait_cnt = 0
  /\ tx_time = Blank /\ rx_time = Blank
  /\ latency = LATENCY_INVALID
  /\ flying = {}
  /\ round = 0 /\ travel = [sn \in SN |-> 0]
  /\ got = {} /\ mixed = FALSE /\ cut = FALSE

\* lm_start: a new LATENCY_CAC, started at once.
Create ==
  /\ state = "gone"
  /\ state' = "START"
  /\ timer' = TRUE
  /\ tx_wait_cnt' = 0 /\ rx_wait_cnt' = 0
  /\ tx_time' = Blank /\ rx_time' = Blank
  /\ latency' = LATENCY_INVALID
  /\ UNCHANGED <<flying, history>>

\* lm_stop: the destructor stops the timer; no copy is handled from now on.
Destroy ==
  /\ state # "gone"
  /\ state' = "gone"
  /\ timer' = FALSE
  /\ cut' = TRUE
  /\ UNCHANGED <<tx_wait_cnt, rx_wait_cnt, tx_time, rx_time, latency, flying,
                 round, travel, got, mixed>>

\* LATENCY_CAC::stop.
Stop ==
  /\ state # "gone"
  /\ state' = "STOP"
  /\ timer' = FALSE
  /\ cut' = TRUE
  /\ UNCHANGED <<tx_wait_cnt, rx_wait_cnt, tx_time, rx_time, latency, flying,
                 round, travel, got, mixed>>

\* LATENCY_CAC::start: nothing unless it is stopped.
Start ==
  /\ state = "STOP"
  /\ state' = "START"
  /\ timer' = TRUE
  /\ UNCHANGED <<tx_wait_cnt, rx_wait_cnt, tx_time, rx_time, latency, flying, history>>

\* The copies of the packets of round r when the first leaves at `at` and
\* travels for d.
Takes(d) == [sn \in SN |-> IF sn = 0 THEN d ELSE d + Jitter]
StampOf(at, takes, sn, side) == Wrap(at + sn + IF side = "tx" THEN 0 ELSE takes[sn])
Copies(r, at, d) ==
  {[round |-> r, sn |-> sn, side |-> side, stamp |-> StampOf(at, Takes(d), sn, side)]
     : sn \in SN, side \in Sides}

\* case START: a clean slate, one packet per serial number, and on.
Begin ==
  LET r == (round + 1) % Rounds
  IN  /\ timer /\ state = "START"
      /\ \A c \in flying : c.round # r          \* no copy is Rounds late
      /\ tx_time' = Blank /\ rx_time' = Blank
      /\ tx_wait_cnt' = 0 /\ rx_wait_cnt' = 0
      /\ \E at \in Stamps, d \in Delays :
           /\ flying' = flying \cup Copies(r, at, d)
           /\ travel' = Takes(d)
      /\ round' = r /\ got' = {} /\ mixed' = FALSE
      /\ state' = "WAIT_TX" /\ timer' = TRUE
      /\ UNCHANGED <<latency, cut>>

\* case START when pkt_gen throws: the timer thread swallows the exception
\* and the one-shot timer is not started again.
BeginFails ==
  /\ CanThrow
  /\ timer /\ state = "START"
  /\ tx_time' = Blank /\ rx_time' = Blank
  /\ tx_wait_cnt' = 0 /\ rx_wait_cnt' = 0
  /\ timer' = FALSE
  /\ UNCHANGED <<state, latency, flying, history>>

\* Mutant: one timestamp is enough.
TxDone_Any == (\E sn \in SN : tx_time[sn] # TS_INVALID) \/ tx_wait_cnt + 1 > MaxWait
TxDone == is_data_complete(tx_time) \/ tx_wait_cnt + 1 > MaxWait
RxDone == is_data_complete(rx_time) \/ rx_wait_cnt + 1 > MaxWait

\* The round that ends now waited for as long as it may.
TimedOut == tx_wait_cnt > MaxWait \/ rx_wait_cnt + 1 > MaxWait

\* Mutant: WAIT_TX gives the timer up while it goes on waiting.
AwaitTx_NoRestart ==
  /\ timer /\ state = "WAIT_TX"
  /\ tx_wait_cnt' = tx_wait_cnt + 1
  /\ state' = IF TxDone THEN "WAIT_RX" ELSE "WAIT_TX"
  /\ timer' = TxDone
  /\ UNCHANGED <<rx_wait_cnt, tx_time, rx_time, latency, flying, history>>

\* case WAIT_TX.
AwaitTx ==
  /\ timer /\ state = "WAIT_TX"
  /\ tx_wait_cnt' = tx_wait_cnt + 1
  /\ state' = IF TxDone THEN "WAIT_RX" ELSE "WAIT_TX"
  /\ timer' = TRUE
  /\ UNCHANGED <<rx_wait_cnt, tx_time, rx_time, latency, flying, history>>

\* Mutant: the counter of the other phase is tested.
AwaitRx_TxCount ==
  /\ timer /\ state = "WAIT_RX"
  /\ rx_wait_cnt' = rx_wait_cnt + 1
  /\ LET done == is_data_complete(rx_time) \/ tx_wait_cnt > MaxWait
     IN  /\ state' = IF done THEN "START" ELSE "WAIT_RX"
         /\ latency' = IF done THEN cac_latency(tx_time, rx_time) ELSE latency
         /\ cut' = (cut \/ (done /\ TimedOut))
  /\ timer' = TRUE
  /\ UNCHANGED <<tx_wait_cnt, tx_time, rx_time, flying, round, travel, got, mixed>>

\* case WAIT_RX: publishes and starts over.
AwaitRx ==
  /\ timer /\ state = "WAIT_RX"
  /\ rx_wait_cnt' = rx_wait_cnt + 1
  /\ state' = IF RxDone THEN "START" ELSE "WAIT_RX"
  /\ latency' = IF RxDone THEN cac_latency(tx_time, rx_time) ELSE latency
  /\ cut' = (cut \/ (RxDone /\ TimedOut))
  /\ timer' = TRUE
  /\ UNCHANGED <<tx_wait_cnt, tx_time, rx_time, flying, round, travel, got, mixed>>

state_machine == Begin \/ BeginFails \/ AwaitTx \/ AwaitRx

\* on_lm_tx, on_lm_rx: set_tx_timestamp, set_rx_timestamp, in every state.
Handle(c) ==
  /\ flying' = flying \ {c}
  /\ IF state = "gone" THEN UNCHANGED <<tx_time, rx_time, got, mixed>>
     ELSE /\ IF c.side = "tx"
             THEN tx_time' = [tx_time EXCEPT ![c.sn] = c.stamp] /\ UNCHANGED rx_time
             ELSE rx_time' = [rx_time EXCEPT ![c.sn] = c.stamp] /\ UNCHANGED tx_time
          /\ got' = IF c.round = round THEN got \cup {<<c.sn, c.side>>} ELSE got
          /\ mixed' = (mixed \/ c.round # round)
  /\ UNCHANGED <<state, timer, tx_wait_cnt, rx_wait_cnt, latency, round, travel, cut>>

\* The copy never arrives.
Lose(c) ==
  /\ flying' = flying \ {c}
  /\ UNCHANGED <<state, timer, tx_wait_cnt, rx_wait_cnt, tx_time, rx_time, latency, history>>

Next ==
  \/ Create \/ Destroy \/ Start \/ Stop
  \/ state_machine
  \/ \E c \in flying : Handle(c) \/ Lose(c)

Spec == Init /\ [][Next]_vars

\* The timer fires when it is started, and no copy flies for ever.
Fairness ==
  /\ WF_vars(state_machine)
  /\ WF_vars(\E c \in flying : Handle(c) \/ Lose(c))

FairSpec == Spec /\ Fairness
=============================================================================
