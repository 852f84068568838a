----------------------------- MODULE LatencyProofs -----------------------------
(***************************************************************************)
(* LATENCY_CAC for any number of serial numbers, any width of the          *)
(* timestamps and any number of rounds a copy may be late: its types, when *)
(* the copies of two rounds may mix, and what a published latency is.      *)
(***************************************************************************)
EXTENDS LatencyProperties, NatLemmas

-----------------------------------------------------------------------------
\* Timestamps and their arithmetic.

\* A sum taken modulo the width of a timestamp is a timestamp.
LEMMA WrapRange ==
  ASSUME NEW x \in Nat
  PROVE  Wrap(x) \in Stamp
BY LatencyAssumption DEF Wrap, Stamp

\* Adding less than the width turns a timestamp over at most once.
LEMMA WrapPlus ==
  ASSUME NEW t \in Nat, NEW d \in 0..MaxStamp
  PROVE  Wrap(t + d) = IF Wrap(t) + d <= MaxStamp THEN Wrap(t) + d
                       ELSE Wrap(t) + d - (MaxStamp + 1)
<1> DEFINE m == MaxStamp + 1
           q == t \div m
           r == t % m
<1>1. m \in Nat /\ m # 0 /\ MaxStamp \in Nat
  BY LatencyAssumption
<1>2. q \in Nat /\ r \in 0..m-1 /\ t = m * q + r
  BY <1>1, DivMod
<1>3. Wrap(t) = r /\ Wrap(t + d) = (t + d) % m
  BY DEF Wrap
<1>4. m - 1 = MaxStamp
  BY <1>1
<1> HIDE DEF m, q, r
<1>5. CASE r + d <= MaxStamp
  <2>1. t + d = m * q + (r + d) /\ r + d \in 0..m-1
    BY <1>1, <1>2, <1>4, <1>5
  <2> QED
    BY <1>1, <1>2, <1>3, <1>5, <2>1, ModIs
<1>6. CASE r + d > MaxStamp
  <2>1. t + d = m * (q + 1) + (r + d - m) /\ r + d - m \in 0..m-1 /\ q + 1 \in Nat
    BY <1>1, <1>2, <1>4, <1>6
  <2>2. (t + d) % m = r + d - m
    BY <1>1, <2>1, ModIs
  <2>3. m = MaxStamp + 1
    BY DEF m
  <2> QED
    BY <1>1, <1>2, <1>3, <1>6, <2>2, <2>3
<1> QED
  BY <1>1, <1>2, <1>5, <1>6

\* A number that fits is itself.
LEMMA WrapFits ==
  ASSUME NEW x \in Stamp
  PROVE  Wrap(x) = x
BY LatencyAssumption DEF Wrap, Stamp

\* cac_latency finds how far two timestamps are apart, turned over or not.
LEMMA DistanceOfStamps ==
  ASSUME NEW t \in Nat, NEW d \in 0..MaxStamp
  PROVE  Distance(Wrap(t), Wrap(t + d)) = d
<1>1. Wrap(t) \in Stamp /\ Wrap(t + d) \in Stamp /\ MaxStamp \in Nat
  BY WrapRange, LatencyAssumption
<1> DEFINE x == Wrap(t)
           y == Wrap(t + d)
<1>2. y = IF x + d <= MaxStamp THEN x + d ELSE x + d - (MaxStamp + 1)
  BY WrapPlus
<1>3. x \in Stamp /\ y \in Stamp
  BY <1>1
<1> HIDE DEF x, y
<1>4. CASE x + d <= MaxStamp
  BY <1>1, <1>2, <1>3, <1>4 DEF Distance, Stamp, x, y
<1>5. CASE x + d > MaxStamp
  <2>1. y < x /\ MaxStamp - x + 1 + y = d
    BY <1>1, <1>2, <1>3, <1>5 DEF Stamp
  <2>2. Wrap(d) = d
    BY WrapFits DEF Stamp
  <2>3. ~(y >= x)
    BY <1>3, <2>1 DEF Stamp
  <2>4. Distance(x, y) = d
    BY <2>1, <2>2, <2>3 DEF Distance
  <2> QED
    BY <2>4 DEF x, y
<1> QED
  BY <1>1, <1>3, <1>4, <1>5 DEF Stamp

\* A mean of numbers up to a bound is a number up to the bound.
LEMMA MeanRange ==
  ASSUME NEW x \in Stamp, NEW n \in Nat, n # 0
  PROVE  x \div n \in Stamp
<1> DEFINE q == x \div n
<1>0. x \in Nat
  BY LatencyAssumption DEF Stamp
<1>1. q \in Nat /\ x % n \in 0..n-1 /\ x = n * q + (x % n) /\ MaxStamp \in Nat
  BY <1>0, DivMod, LatencyAssumption
<1> HIDE DEF q
<1>2. n * q >= q
  BY <1>1
<1>3. x \in 0..MaxStamp
  BY DEF Stamp
<1>4. q \in Stamp
  BY <1>1, <1>2, <1>3 DEF Stamp
<1> QED
  BY <1>4 DEF q

\* What cac_latency returns is a timestamp or invalid.
LEMMA LatencyType ==
  ASSUME NEW tx \in [SN -> Stamp], NEW rx \in [SN -> Stamp]
  PROVE  cac_latency(tx, rx) \in Stamp \cup {LATENCY_INVALID}
<1> DEFINE m == Measured(tx, rx)
           f == [sn \in m |-> Distance(tx[sn], rx[sn])]
<1>1. SUFFICES ASSUME m # {}
               PROVE  Wrap(SumFunction(f)) \div Cardinality(m) \in Stamp
  BY DEF cac_latency
<1>2. m \subseteq SN /\ IsFiniteSet(m)
  BY FS_Subset, LatencyAssumption DEF Measured
<1>3. Cardinality(m) \in Nat /\ Cardinality(m) # 0
  BY <1>1, <1>2, FS_CardinalityType, FS_EmptySet
<1>4. ASSUME NEW sn \in m PROVE f[sn] \in Nat
  <2>1. tx[sn] \in Stamp /\ rx[sn] \in Stamp
    BY <1>2
  <2>2. \A x \in Nat : Wrap(x) \in Nat
    BY WrapRange, LatencyAssumption DEF Stamp
  <2>3. Distance(tx[sn], rx[sn]) \in Nat
    BY <2>1, <2>2, LatencyAssumption DEF Distance, Stamp
  <2> QED
    BY <2>3
<1>5. DOMAIN f = m
  OBVIOUS
<1> HIDE DEF f, m
<1>6. SumFunction(f) \in Nat
  BY <1>2, <1>4, <1>5, SumNat DEF SumFunction
<1> QED
  BY <1>3, <1>6, WrapRange, MeanRange
-----------------------------------------------------------------------------
\* The inductive invariant.

\* The copies of a round carry the round, the timestamps its packets get, and
\* no two of them the same packet and side.
LEMMA CopiesOfRound ==
  ASSUME NEW r, NEW at, NEW d, NEW c \in Copies(r, at, d)
  PROVE  /\ c.round = r /\ c.sn \in SN /\ c.side \in Sides
         /\ c.stamp = StampOf(at, Takes(d), c.sn, c.side)
BY DEF Copies

\* The packets' timestamps are timestamps, and the copies have their type.
LEMMA CopiesType ==
  ASSUME NEW r \in 0..Rounds-1, NEW at \in Stamps, NEW d \in Delays
  PROVE  /\ Takes(d) \in [SN -> Nat]
         /\ Copies(r, at, d) \subseteq Copy
<1>1. d \in Nat /\ Jitter \in Nat /\ at \in Nat /\ SN \subseteq Nat
  BY LatencyAssumption
<1>2. Takes(d) \in [SN -> Nat]
  BY <1>1 DEF Takes
<1>3. ASSUME NEW sn \in SN, NEW side \in Sides
      PROVE  StampOf(at, Takes(d), sn, side) \in Stamp
  <2>1. at + sn + (IF side = "tx" THEN 0 ELSE Takes(d)[sn]) \in Nat
    <3>1. Takes(d)[sn] \in Nat /\ sn \in Nat
      BY <1>1, <1>2
    <3> QED
      BY <1>1, <3>1
  <2> QED
    BY <2>1, WrapRange DEF StampOf
<1> QED
  BY <1>2, <1>3 DEF Copies, Copy

\* The values variables start from have their types.
LEMMA StartValues ==
  /\ Blank \in [SN -> Stamp] /\ [sn \in SN |-> 0] \in [SN -> Nat]
  /\ 0 \in 0..MaxWait+1 /\ 0 \in 0..Rounds-1 /\ MaxWait \in Nat
<1>1. 0 \in Stamp /\ 0 \in 0..MaxWait+1 /\ 0 \in 0..Rounds-1 /\ MaxWait \in Nat
  BY LatencyAssumption DEF Stamp
<1> QED
  BY <1>1 DEF Blank, TS_INVALID

\* It holds initially.
LEMMA InitLatencyInv == Init => LatencyInv
<1> SUFFICES ASSUME Init PROVE LatencyInv
  OBVIOUS
<1>1. TypeOK
  BY StartValues DEF Init, TypeOK
<1>2. WaitsBounded /\ OwnTimes /\ NothingLate
  BY DEF Init, WaitsBounded, OwnTimes, NothingLate
<1> QED
  BY <1>1, <1>2 DEF LatencyInv

\* The steps that neither send nor handle anything.
LEMMA CallsKeepInv ==
  ASSUME LatencyInv, Create \/ Destroy \/ Stop \/ Start \/ BeginFails
  PROVE  LatencyInv'
<1> USE DEF LatencyInv, history
<1>1. TypeOK'
  BY StartValues DEF TypeOK, Create, Destroy, Stop, Start, BeginFails
<1>2. WaitsBounded'
  BY DEF WaitsBounded, Create, Destroy, Stop, Start, BeginFails
<1>3. OwnTimes'
  BY DEF OwnTimes, Create, Destroy, Stop, Start, BeginFails
<1>4. NothingLate'
  BY DEF NothingLate, Create, Destroy, Stop, Start, BeginFails
<1> QED
  BY <1>1, <1>2, <1>3, <1>4

\* A round that begins.
LEMMA BeginKeepsInv ==
  ASSUME LatencyInv, Begin
  PROVE  LatencyInv'
<1> USE DEF LatencyInv
<1> DEFINE r == (round + 1) % Rounds
<1>1. PICK at \in Stamps, d \in Delays :
        /\ flying' = flying \cup Copies(r, at, d)
        /\ travel' = Takes(d)
  BY DEF Begin
<1>2. /\ state = "START" /\ state' = "WAIT_TX" /\ timer' = TRUE
      /\ \A c \in flying : c.round # r
      /\ tx_time' = Blank /\ rx_time' = Blank
      /\ tx_wait_cnt' = 0 /\ rx_wait_cnt' = 0
      /\ round' = r /\ got' = {} /\ mixed' = FALSE
      /\ UNCHANGED <<latency, cut>>
  BY DEF Begin
<1>3. r \in 0..Rounds-1
  <2>1. round + 1 \in Nat /\ Rounds \in Nat /\ Rounds # 0
    BY LatencyAssumption DEF TypeOK
  <2> QED
    BY <2>1, DivMod
<1> HIDE DEF r
<1>4. TypeOK'
  <2>2. flying' \subseteq Copy /\ travel' \in [SN -> Nat]
    BY <1>1, <1>3, CopiesType DEF TypeOK
  <2> QED
    BY <1>2, <1>3, <2>2, StartValues DEF TypeOK
<1>5. WaitsBounded'
  BY <1>2, LatencyAssumption DEF WaitsBounded
<1>6. OwnTimes'
  <2>1. ASSUME NEW sn \in SN, NEW side \in Sides
        PROVE  Time(side)'[sn] = TS_INVALID
    BY <1>2 DEF Time, Blank
  <2>2. ASSUME NEW c \in flying', c.round = round'
        PROVE  c.stamp = StampOf(at, travel', c.sn, c.side) /\ <<c.sn, c.side>> \notin got'
    <3>1. c \in Copies(r, at, d)
      BY <1>1, <1>2, <2>2
    <3> QED
      BY <1>1, <1>2, <3>1, CopiesOfRound
  <2> QED
    BY <1>1, <1>2, <2>1, <2>2 DEF OwnTimes
<1>7. NothingLate'
  BY <1>1, <1>2, CopiesOfRound DEF NothingLate
<1> QED
  BY <1>4, <1>5, <1>6, <1>7

\* A round that waits, or ends.
LEMMA AwaitsKeepInv ==
  ASSUME LatencyInv, AwaitTx \/ AwaitRx
  PROVE  LatencyInv'
<1> USE DEF LatencyInv
<1>1. TypeOK'
  <2>1. cac_latency(tx_time, rx_time) \in Stamp \cup {LATENCY_INVALID}
    BY LatencyType DEF TypeOK
  <2> HIDE DEF LatencyInv
  <2>2. tx_wait_cnt \in Nat /\ rx_wait_cnt \in Nat /\ MaxWait \in Nat
    BY LatencyAssumption DEF LatencyInv, TypeOK
  <2>3. CASE AwaitTx
    BY <2>2, <2>3 DEF TypeOK, WaitsBounded, AwaitTx, history, LatencyInv
  <2>4. CASE AwaitRx
    BY <2>1, <2>2, <2>4 DEF TypeOK, WaitsBounded, AwaitRx, LatencyInv
  <2> QED
    BY <2>3, <2>4
<1>2. WaitsBounded'
  BY LatencyAssumption DEF TypeOK, WaitsBounded, AwaitTx, AwaitRx, TxDone, RxDone, history
<1>3. OwnTimes'
  BY DEF OwnTimes, AwaitTx, AwaitRx, Time, history
<1>4. NothingLate'
  <2>1. CASE AwaitTx
    BY <2>1 DEF NothingLate, AwaitTx, TxDone, is_data_complete, history
  <2>2. CASE AwaitRx
    <3>1. ASSUME ~cut', state' = "START" PROVE flying = {}
      <4>1. RxDone /\ ~TimedOut /\ ~cut /\ state = "WAIT_RX"
        BY <2>2, <3>1 DEF AwaitRx
      <4>2. is_data_complete(tx_time) /\ is_data_complete(rx_time)
        BY <4>1, LatencyAssumption DEF NothingLate, RxDone, TimedOut, TypeOK
      <4>3. SUFFICES ASSUME NEW c \in flying PROVE FALSE
        OBVIOUS
      <4>4. c.sn \in SN /\ c.side \in Sides /\ c.round = round
        BY <4>1, <4>3 DEF NothingLate, TypeOK, Copy
      <4>5. Time(c.side)[c.sn] # TS_INVALID
        BY <4>2, <4>4 DEF Time, is_data_complete
      <4> QED
        BY <4>1, <4>3, <4>4, <4>5 DEF OwnTimes, NothingLate
    <3> QED
      BY <2>2, <3>1 DEF NothingLate, AwaitRx, is_data_complete
  <2> QED
    BY <2>1, <2>2
<1> QED
  BY <1>1, <1>2, <1>3, <1>4

\* A copy that is handled, or lost.
LEMMA CopiesKeepInv ==
  ASSUME LatencyInv, NEW c \in flying, Handle(c) \/ Lose(c)
  PROVE  LatencyInv'
<1> USE DEF LatencyInv
<1>1. c \in Copy /\ c.sn \in SN /\ c.side \in Sides /\ c.stamp \in Stamp
  BY DEF TypeOK, Copy
<1>2. CASE Lose(c)
  BY <1>2 DEF TypeOK, WaitsBounded, OwnTimes, NothingLate, Lose, history, Time, is_data_complete
<1>3. CASE Handle(c)
  <2>1. TypeOK'
    <3>1. /\ tx_time' \in [SN -> Stamp] /\ rx_time' \in [SN -> Stamp]
          /\ mixed' \in BOOLEAN
      BY <1>1, <1>3 DEF TypeOK, Handle
    <3>2. got' \subseteq SN \X Sides
      BY <1>1, <1>3 DEF TypeOK, Handle
    <3>3. flying' \subseteq Copy
      BY <1>3 DEF TypeOK, Handle
    <3> QED
      BY <1>3, <3>1, <3>2, <3>3 DEF TypeOK, Handle
  <2>2. WaitsBounded'
    BY <1>3 DEF WaitsBounded, Handle
  <2>3. OwnTimes'
    <3>1. SUFFICES ASSUME state \in {"WAIT_TX", "WAIT_RX"}, ~mixed, c.round = round
                   PROVE  OwnTimes'
      BY <1>3 DEF OwnTimes, Handle
    <3>2. PICK at \in Stamps, d \in Delays :
            /\ travel = Takes(d)
            /\ \A sn \in SN, side \in Sides :
                 Time(side)[sn] = IF <<sn, side>> \in got THEN StampOf(at, travel, sn, side)
                                  ELSE TS_INVALID
            /\ \A e \in flying : e.round = round =>
                 e.stamp = StampOf(at, travel, e.sn, e.side) /\ <<e.sn, e.side>> \notin got
      BY <3>1 DEF OwnTimes
    <3>3. got' = got \cup {<<c.sn, c.side>>} /\ flying' = flying \ {c} /\ UNCHANGED <<travel, round>>
      BY <1>3, <3>1 DEF Handle
    <3>4. ASSUME NEW sn \in SN, NEW side \in Sides
          PROVE  Time(side)'[sn] = IF <<sn, side>> \in got' THEN StampOf(at, travel, sn, side)
                                   ELSE TS_INVALID
      <4>1. Time(side)'[sn] = IF side = c.side /\ sn = c.sn THEN c.stamp ELSE Time(side)[sn]
        BY <1>1, <1>3, <3>1 DEF Handle, Time, TypeOK, Sides
      <4> QED
        BY <3>1, <3>2, <3>3, <4>1
    <3>5. ASSUME NEW e \in flying', e.round = round
          PROVE  e.stamp = StampOf(at, travel, e.sn, e.side) /\ <<e.sn, e.side>> \notin got'
      <4>1. e \in flying /\ e # c /\ e \in Copy
        BY <3>3 DEF TypeOK
      <4>2. e.stamp = StampOf(at, travel, e.sn, e.side) /\ <<e.sn, e.side>> \notin got
        BY <3>2, <3>5, <4>1
      <4>3. c.stamp = StampOf(at, travel, c.sn, c.side)
        BY <3>1, <3>2
      <4>4. e.sn # c.sn \/ e.side # c.side
        BY <1>1, <3>1, <3>5, <4>1, <4>2, <4>3 DEF Copy
      <4> QED
        BY <3>3, <4>2, <4>4
    <3> QED
      BY <3>2, <3>3, <3>4, <3>5 DEF OwnTimes
  <2>4. NothingLate'
    <3>1. ~cut => (state = "WAIT_RX" /\ is_data_complete(tx_time) => is_data_complete(tx_time)')
      <4>1. SUFFICES ASSUME ~cut, state = "WAIT_RX", is_data_complete(tx_time)
                     PROVE  is_data_complete(tx_time)'
        OBVIOUS
      <4>2. c.round = round /\ ~mixed
        BY <4>1 DEF NothingLate
      <4>3. <<c.sn, c.side>> \notin got /\ Time(c.side)[c.sn] = TS_INVALID
        BY <1>1, <4>1, <4>2 DEF OwnTimes
      <4>4. c.side # "tx"
        BY <1>1, <4>1, <4>3 DEF Time, is_data_complete
      <4> QED
        BY <1>3, <4>1, <4>4 DEF Handle
    <3>2. UNCHANGED <<state, cut, round, tx_wait_cnt>> /\ flying' = flying \ {c}
      BY <1>3 DEF Handle
    <3>3. ~cut => ~mixed'
      BY <1>3 DEF Handle, NothingLate
    <3> QED
      BY <3>1, <3>2, <3>3 DEF NothingLate
  <2> QED
    BY <2>1, <2>2, <2>3, <2>4
<1> QED
  BY <1>2, <1>3

\* A step of anyone keeps it.
LEMMA StepKeepsInv == LatencyInv /\ [Next]_vars => LatencyInv'
<1> SUFFICES ASSUME LatencyInv, [Next]_vars PROVE LatencyInv'
  OBVIOUS
<1>1. CASE Create \/ Destroy \/ Start \/ Stop \/ BeginFails
  BY <1>1, CallsKeepInv
<1>2. CASE Begin
  BY <1>2, BeginKeepsInv
<1>3. CASE AwaitTx \/ AwaitRx
  BY <1>3, AwaitsKeepInv
<1>4. CASE \E c \in flying : Handle(c) \/ Lose(c)
  BY <1>4, CopiesKeepInv
<1>5. CASE UNCHANGED vars
  BY <1>5 DEF vars, LatencyInv, TypeOK, WaitsBounded, OwnTimes, NothingLate, Time,
     is_data_complete
<1> QED
  BY <1>1, <1>2, <1>3, <1>4, <1>5 DEF Next, state_machine

\* The invariant of the measurement, in all its behaviours: calls to start and
\* stop, timer phases, and copies that are late, reordered or lost.
THEOREM LatencyInvariant == Spec => []LatencyInv
<1> QED
  BY InitLatencyInv, StepKeepsInv, PTL DEF Spec

\* The variables of LATENCY_CAC have their types; the UINT8 counters of
\* state_machine stop one past MAX_WAIT_CNT.
THEOREM Latency_TypeOK == Spec => []TypeOK
<1>1. LatencyInv => TypeOK
  BY DEF LatencyInv
<1> QED
  BY <1>1, LatencyInvariant, PTL

\* Copies of two rounds mix only when some round was cut short, by a time-out
\* of state_machine or by stop.
THEOREM Latency_RoundsDontMix == Spec => []RoundsDontMix
<1>1. LatencyInv => RoundsDontMix
  BY DEF LatencyInv, NothingLate, RoundsDontMix
<1> QED
  BY <1>1, LatencyInvariant, PTL
-----------------------------------------------------------------------------
\* What is published.

\* The mean cac_latency takes is that of the packets' travels.
LEMMA LatencyOfRound ==
  ASSUME TravelsShortly, LatencyInv, state = "WAIT_RX", ~mixed
  PROVE  cac_latency(tx_time, rx_time) = MeanTravel
<1>1. PICK at \in Stamps, d \in Delays :
        /\ travel = Takes(d)
        /\ \A sn \in SN, side \in Sides :
             Time(side)[sn] = IF <<sn, side>> \in got THEN StampOf(at, travel, sn, side)
                              ELSE TS_INVALID
  BY DEF LatencyInv, OwnTimes
<1> DEFINE m == Measured(tx_time, rx_time)
           f == [sn \in m |-> Distance(tx_time[sn], rx_time[sn])]
           b == d + Jitter
<1>2. b \in Nat /\ b * Cardinality(SN) <= MaxStamp /\ MaxStamp \in Nat /\ d \in Nat /\ Jitter \in Nat
  BY LatencyAssumption DEF TravelsShortly
<1>3. Cardinality(SN) \in Nat /\ Cardinality(SN) # 0
  BY LatencyAssumption, FS_CardinalityType, FS_EmptySet
<1>4. b <= MaxStamp
  <2>1. \A x \in Nat, n \in Nat : n # 0 => x <= x * n
    OBVIOUS
  <2>2. b <= b * Cardinality(SN) /\ b * Cardinality(SN) \in Nat
    BY <1>2, <1>3, <2>1
  <2> HIDE DEF b
  <2> QED
    BY <1>2, <2>2
<1>5. ASSUME NEW sn \in SN PROVE travel[sn] \in Nat /\ travel[sn] <= b /\ travel[sn] \in 0..MaxStamp
  <2>1. travel[sn] \in Nat /\ travel[sn] <= b
    BY <1>1, <1>2 DEF Takes
  <2> HIDE DEF b
  <2> QED
    BY <1>2, <1>4, <2>1
<1> HIDE DEF b
<1>6. m = Usable
  <2>1. ASSUME NEW sn \in SN, tx_time[sn] # TS_INVALID, rx_time[sn] # TS_INVALID
        PROVE  {sn} \X Sides \subseteq got
    <3>1. <<sn, "tx">> \in got
      <4>1. "tx" \in Sides /\ Time("tx") = tx_time
        BY DEF Sides, Time
      <4> QED
        BY <1>1, <2>1, <4>1
    <3>2. <<sn, "rx">> \in got
      <4>1. "rx" \in Sides /\ Time("rx") = rx_time
        BY DEF Sides, Time
      <4> QED
        BY <1>1, <2>1, <4>1
    <3> QED
      BY <3>1, <3>2 DEF Sides
  <2> QED
    BY <2>1 DEF Measured, Usable
<1>7. ASSUME NEW sn \in m PROVE f[sn] = travel[sn]
  <2>1. sn \in SN /\ <<sn, "tx">> \in got /\ <<sn, "rx">> \in got
    BY <1>6 DEF Usable, Sides
  <2>2. /\ tx_time[sn] = StampOf(at, travel, sn, "tx")
        /\ rx_time[sn] = StampOf(at, travel, sn, "rx")
    BY <1>1, <2>1 DEF Time, Sides
  <2>3. at \in Nat /\ sn \in Nat /\ at + sn \in Nat /\ at + sn + 0 = at + sn
    BY <2>1, LatencyAssumption
  <2>4. tx_time[sn] = Wrap(at + sn) /\ rx_time[sn] = Wrap((at + sn) + travel[sn])
    BY <2>2, <2>3 DEF StampOf
  <2> HIDE DEF m
  <2>5. Distance(tx_time[sn], rx_time[sn]) = travel[sn]
    BY <1>5, <2>1, <2>3, <2>4, DistanceOfStamps
  <2> QED
    BY <2>5
<1>8. IsFiniteSet(m) /\ m \subseteq SN /\ Cardinality(m) <= Cardinality(SN)
      /\ Cardinality(m) \in Nat
  BY FS_Subset, FS_CardinalityType, LatencyAssumption DEF Measured
<1>9. SumFunction(f) = SumFunctionOnSet(travel, m)
  <2>1. DOMAIN f = m
    OBVIOUS
  <2> HIDE DEF f, m
  <2> QED
    BY <1>7, <1>8, <2>1, SumSame DEF SumFunction
<1>10. SumFunctionOnSet(travel, m) \in Stamp
  <2> HIDE DEF m
  <2>1. SumFunctionOnSet(travel, m) \in Nat
    BY <1>5, <1>8, SumNat
  <2>2. SumFunctionOnSet(travel, m) <= b * Cardinality(m)
    BY <1>2, <1>5, <1>8, SumAtMost
  <2>3. b * Cardinality(m) <= b * Cardinality(SN)
    BY <1>2, <1>3, <1>8
  <2>4. b * Cardinality(m) \in Nat /\ b * Cardinality(SN) \in Nat
    BY <1>2, <1>3, <1>8
  <2> QED
    BY <1>2, <2>1, <2>2, <2>3, <2>4 DEF Stamp
<1> HIDE DEF f, m
<1>11. Wrap(SumFunction(f)) = SumFunctionOnSet(travel, m)
  BY <1>9, <1>10, WrapFits
<1> QED
  BY <1>6, <1>11 DEF cac_latency, MeanTravel, f, m

\* Every latency state_machine publishes is the mean of what the packets of its
\* round travelled, whatever was lost, late, reordered or turned over, when no
\* copy of an earlier round came in.
THEOREM Latency_LatencyIsMean ==
  ASSUME TravelsShortly
  PROVE  Spec => LatencyIsMean
<1>1. ASSUME LatencyInv, Next, state = "WAIT_RX", state' = "START", ~mixed
      PROVE  latency' = MeanTravel
  <2>1. AwaitRx /\ RxDone
    BY <1>1 DEF Next, Create, Destroy, Start, Stop, state_machine, Begin, BeginFails, AwaitTx,
       AwaitRx, Handle, Lose
  <2>2. latency' = cac_latency(tx_time, rx_time)
    BY <2>1 DEF AwaitRx
  <2> QED
    BY <1>1, <2>2, LatencyOfRound
<1>2. LatencyInv /\ [Next]_vars =>
        [state = "WAIT_RX" /\ state' = "START" /\ ~mixed => latency' = MeanTravel]_vars
  BY <1>1
<1> QED
  BY <1>2, LatencyInvariant, PTL DEF Spec, LatencyIsMean
=============================================================================
