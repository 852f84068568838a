-------------------------- MODULE LatencyProperties --------------------------
(***************************************************************************)
(* What a published latency stands for, and that publishing goes on.       *)
(***************************************************************************)
EXTENDS LatencyCac

Copy == [round : 0..Rounds-1, sn : SN, side : Sides, stamp : Stamp]

\* Every variable has its type; the UINT8 wait counters stop one past
\* MAX_WAIT_CNT (latency_cac.cpp:141-177).
TypeOK ==
  /\ state \in {"gone", "STOP", "START", "WAIT_TX", "WAIT_RX"}
  /\ timer \in BOOLEAN
  /\ tx_wait_cnt \in 0..MaxWait+1 /\ rx_wait_cnt \in 0..MaxWait+1
  /\ tx_time \in [SN -> Stamp] /\ rx_time \in [SN -> Stamp]
  /\ latency \in Stamp \cup {LATENCY_INVALID}
  /\ flying \subseteq Copy
  /\ round \in 0..Rounds-1
  /\ travel \in [SN -> Nat]
  /\ got \subseteq SN \X Sides
  /\ mixed \in BOOLEAN /\ cut \in BOOLEAN

\* The packets of this round whose two timestamps can be told from TS_INVALID.
Usable == {sn \in SN : /\ {sn} \X Sides \subseteq got
                       /\ tx_time[sn] # TS_INVALID /\ rx_time[sn] # TS_INVALID}
MeanTravel == IF Usable = {} THEN LATENCY_INVALID
              ELSE SumFunctionOnSet(travel, Usable) \div Cardinality(Usable)

\* What a round publishes is the true mean travel time of those of its packets
\* that came back on both sides, lost copies, turned-over timestamps and copies
\* in any order notwithstanding (latency_cac.cpp:49-79, 166-177), as long as no
\* copy of an earlier round slipped in.
LatencyIsMean ==
  [][state = "WAIT_RX" /\ state' = "START" /\ ~mixed => latency' = MeanTravel]_vars

\* A copy of one round is taken for one of a later round only if some round was
\* cut short, by a time-out or a stop: a round that waits for all of its
\* timestamps leaves nothing behind (latency_cac.cpp:151-154, 172-176).
RoundsDontMix == mixed => cut

\* A measurement that is not stopped publishes and begins again, whatever is
\* lost: no phase waits for ever (latency_cac.cpp:125-184).  Only a round whose
\* packets cannot be inserted ends it: nothing starts the timer again (136).
KeepsMeasuring ==
  /\ state = "START" ~> state \in {"WAIT_TX", "STOP", "gone"} \/ ~timer
  /\ state \in {"WAIT_TX", "WAIT_RX"} ~> state \in {"START", "STOP", "gone"}
-----------------------------------------------------------------------------
\* What the two promises rest on.  A phase counts up to its limit:
WaitsBounded ==
  /\ state = "WAIT_TX" => tx_wait_cnt <= MaxWait /\ rx_wait_cnt = 0
  /\ state = "WAIT_RX" => rx_wait_cnt <= MaxWait

\* while no copy of another round came in, the arrays hold the timestamps of the
\* copies of this round that were handled, and the others are on their way or
\* lost;
Time(side) == IF side = "tx" THEN tx_time ELSE rx_time
OwnTimes ==
  state \in {"WAIT_TX", "WAIT_RX"} /\ ~mixed =>
    \E at \in Stamps, d \in Delays :
      /\ travel = Takes(d)
      /\ \A sn \in SN, side \in Sides :
           Time(side)[sn] = IF <<sn, side>> \in got THEN StampOf(at, travel, sn, side)
                            ELSE TS_INVALID
      /\ \A c \in flying : c.round = round =>
           c.stamp = StampOf(at, travel, c.sn, c.side) /\ <<c.sn, c.side>> \notin got

\* and a measurement none of whose rounds was cut short has nothing on its way
\* but copies of its round, and between two rounds nothing at all.
NothingLate ==
  ~cut =>
    /\ ~mixed
    /\ state # "STOP"
    /\ \A c \in flying : c.round = round
    /\ state \in {"gone", "START"} => flying = {}
    /\ state = "WAIT_RX" => is_data_complete(tx_time) \/ tx_wait_cnt > MaxWait

LatencyInv == TypeOK /\ WaitsBounded /\ OwnTimes /\ NothingLate

\* The packets of a round travel so shortly that the sum of their times fits
\* the UINT32 it is taken in: 2^32 ns shared by all serial numbers.
TravelsShortly == \A d \in Delays : (d + Jitter) * Cardinality(SN) <= MaxStamp
=============================================================================
