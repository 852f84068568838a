---------------------------- MODULE ConsoleProofs ----------------------------
(***************************************************************************)
(* Proofs for Console: counts add up and rates are recent, with any number *)
(* of flows, ports, packets and failures.  ConsoleInv is inductive: each   *)
(* step changes flows and ports so that every one still agrees with what   *)
(* is owed of it.                                                          *)
(***************************************************************************)
EXTENDS ConsoleProperties, NatLemmas

USE ConsoleAssumption DEF Counts

-----------------------------------------------------------------------------
(* What happens to one flow.                                               *)

LEMMA CountsAreNat == ASSUME NEW a \in Counts PROVE a \in Nat
  OBVIOUS

\* A port is no flow.
LEMMA PortIsNoFlow == ASSUME NEW p \in Ports PROVE p \notin Flows /\ p \in Keys
  BY DEF Ports, Keys, Flows, Tx, Rx, Trx

LEMMA FlowIsNoPort == ASSUME NEW i \in Flows PROVE i \notin Ports /\ i \in Keys
  BY PortIsNoFlow DEF Keys

LEMMA QuietIsPeriod == Quiet \in Period
  BY DEF Quiet, Period

LEMMA NewAgrees == New # None /\ Agree(New, 0, 0, Quiet)
<1>1. New \in FlowRec
  BY DEF New, FlowRec, Qual
<1>2. FlowSound(New)
  BY <1>1 DEF FlowSound, New
<1>3. New # None
  BY <1>1
<1> QED BY <1>2, <1>3 DEF Agree, New, Reading, Quiet

\* A flow that runs gives what it has counted since its base.
LEMMA ReadingIs ==
  ASSUME NEW f, FlowSound(f)
  PROVE  /\ Reading(f) \in Counts
         /\ f.started => Reading(f) = f.hw - f.cnt_base
         /\ ~f.started => Reading(f) = f.cnt_base
<1>1. f.hw \in Counts /\ f.cnt_base \in Counts
  BY DEF FlowSound
<1> QED BY <1>1 DEF Reading, Minus, FlowSound

\* A flow that stops: what is owed of it stays.
LEMMA StoppedAgrees ==
  ASSUME NEW f, NEW o, NEW t, NEW r, f # None, Agree(f, o, t, r)
  PROVE  /\ Stopped(f) # None /\ ~Stopped(f).started
         /\ f.started => Agree(Stopped(f), o, t, Quiet)
         /\ ~f.started => Stopped(f) = f
<1>1. FlowSound(f) /\ f \in FlowRec /\ o = Reading(f) + t
  BY DEF Agree, FlowSound
<1>2. CASE ~f.started
  BY <1>1, <1>2 DEF Stopped
<1>3. CASE f.started
  <2> DEFINE c == Reading(f)
             g == [f EXCEPT !.started = FALSE, !.cnt_base = c, !.hw = 0, !.cnt_rate = 0,
                            !.pair = {}, !.link = {}, !.timers = {}, !.snooping = FALSE, !.lm = FALSE]
  <2>1. Stopped(f) = g
    BY <1>3 DEF Stopped
  <2>2. c \in Counts /\ c \in Nat
    BY <1>1, ReadingIs
  <2> HIDE DEF c
  <2>3. g \in FlowRec
    BY <1>1, <2>2 DEF FlowRec
  <2>4. /\ ~g.started /\ g.cnt_base = c /\ g.hw = 0 /\ g.cnt_rate = 0
        /\ ~g.snooping /\ ~g.lm /\ g.pair = {} /\ g.link = {} /\ g.timers = {} /\ g.qual = f.qual
        /\ g.cnt_rate_prev = f.cnt_rate_prev /\ g.cnt_burst_prev = f.cnt_burst_prev
    BY <1>1 DEF FlowRec
  <2> HIDE DEF g
  <2>5. FlowSound(g)
    BY <1>1, <2>2, <2>3, <2>4 DEF FlowSound
  <2>6. Reading(g) = Reading(f)
    BY <2>4 DEF Reading, c
  <2>7. g # None
    BY <2>3
  <2>8. Agree(g, o, t, Quiet)
    BY <1>1, <2>4, <2>5, <2>6, <2>7 DEF Agree, Quiet
  <2> QED BY <1>3, <2>1, <2>4, <2>7, <2>8
<1> QED BY <1>2, <1>3

\* A flow whose stop threw still counts, and has no rate.
LEMMA HalvesAgree ==
  ASSUME NEW i \in Flows, NEW o, NEW t, NEW r, db_flow[i] # None, db_flow[i].started,
         Agree(db_flow[i], o, t, r), NEW g \in Halves(i)
  PROVE  g # None /\ (g = db_flow[i] \/ Agree(g, o, t, Quiet))
<1> DEFINE f == db_flow[i]
<1>1. FlowSound(f) /\ f \in FlowRec /\ o = Reading(f) + t
  BY DEF Agree, FlowSound
<1>2. CASE g = f
  BY <1>2
<1>3. CASE g # f
  <2>1. PICK on \in BOOLEAN :
          g = [f EXCEPT !.cnt_rate = 0, !.pair = {}, !.link = {}, !.timers = {}, !.snooping = on, !.lm = FALSE]
    <3>1. g = HalfStopped(f) \/ g = [HalfStopped(f) EXCEPT !.snooping = TRUE]
      BY <1>3 DEF Halves
    <3>2. CASE g = HalfStopped(f)
      BY <3>2 DEF HalfStopped
    <3>3. CASE g = [HalfStopped(f) EXCEPT !.snooping = TRUE]
      <4>1. g = [f EXCEPT !.cnt_rate = 0, !.pair = {}, !.link = {}, !.timers = {}, !.snooping = TRUE, !.lm = FALSE]
        BY <1>1, <3>3 DEF HalfStopped, FlowRec
      <4> QED BY <4>1
    <3> QED BY <3>1, <3>2, <3>3
  <2>2. g \in FlowRec
    BY <1>1, <2>1 DEF FlowRec
  <2>3. /\ g.started /\ g.cnt_base = f.cnt_base /\ g.hw = f.hw /\ g.cnt_rate = 0
        /\ g.timers = {} /\ g.qual = f.qual
        /\ g.cnt_rate_prev = f.cnt_rate_prev /\ g.cnt_burst_prev = f.cnt_burst_prev
    BY <1>1, <2>1 DEF FlowRec
  <2>4. FlowSound(g)
    BY <1>1, <2>2, <2>3 DEF FlowSound
  <2>5. Reading(g) = Reading(f)
    BY <2>3 DEF Reading
  <2>6. g # None
    BY <2>2
  <2> QED BY <1>1, <2>3, <2>4, <2>5, <2>6 DEF Agree, Quiet
<1> QED BY <1>2, <1>3

LEMMA StartedAgrees ==
  ASSUME NEW f, f # None, FlowSound(f), ~f.started,
         NEW b \in [pair : SUBSET Ports, link : SUBSET Ports]
  PROVE  Started(f, b) # None /\ Agree(Started(f, b), 0, 0, Quiet)
<1> DEFINE u == {"rate"} \cup (IF "burst" \in f.set THEN {"stop"} ELSE {})
           g == [f EXCEPT !.started = TRUE, !.hw = 0, !.cnt_base = 0, !.cnt_rate = 0, !.cnt_rate_prev = 0,
                          !.cnt_burst_prev = 0, !.pair = b.pair, !.link = b.link, !.timers = u]
<1>1. f \in FlowRec /\ u \in SUBSET {"rate", "stop"} /\ Started(f, b) = g
  BY DEF FlowSound, Started
<1> HIDE DEF u
<1>2. g \in FlowRec
  BY <1>1 DEF FlowRec
<1>3. /\ g.started /\ g.hw = 0 /\ g.cnt_base = 0 /\ g.cnt_rate = 0
      /\ g.cnt_rate_prev = 0 /\ g.cnt_burst_prev = 0 /\ g.qual = f.qual
  BY <1>1 DEF FlowRec
<1> HIDE DEF g
<1>4. FlowSound(g)
  BY <1>2, <1>3 DEF FlowSound
<1>5. g # None
  BY <1>2
<1>6. Agree(g, 0, 0, Quiet)
  BY <1>3, <1>4, <1>5 DEF Agree, Reading, Minus, Quiet
<1> QED BY <1>1, <1>5, <1>6

\* Settings, snooping and measuring do not count.
LEMMA SameCounts ==
  ASSUME NEW f, NEW g \in FlowRec, NEW o, NEW t, NEW r, f # None, Agree(f, o, t, r),
         /\ g.started = f.started /\ g.hw = f.hw /\ g.cnt_base = f.cnt_base /\ g.cnt_rate = f.cnt_rate
         /\ g.cnt_rate_prev = f.cnt_rate_prev /\ g.cnt_burst_prev \in Counts,
         g.timers \subseteq f.timers,
         ~g.started => ~g.snooping /\ ~g.lm /\ g.pair = {} /\ g.link = {} /\ g.timers = {},
         \A x, y \in g.qual.rules : x[1] = y[1] => x = y
  PROVE  g # None /\ Agree(g, o, t, r)
<1>1. FlowSound(g)
  BY DEF Agree, FlowSound
<1>2. Reading(g) = Reading(f)
  BY DEF Reading
<1> QED BY <1>1, <1>2 DEF Agree

\* Reading and clearing: what it gave is no longer owed, or now in the text.
LEMMA ClearedAgrees ==
  ASSUME NEW f, NEW o, NEW r, f # None, Agree(f, o, 0, r)
  PROVE  /\ Cleared(f) # None /\ Given(f) \in Counts
         /\ Agree(Cleared(f), IF f.started THEN o ELSE Given(f), Given(f), r)
<1> DEFINE g == Cleared(f)
<1>1. FlowSound(f) /\ f \in FlowRec /\ o = Reading(f) /\ f.hw \in Counts
  BY ReadingIs DEF Agree, FlowSound
<1>2. g \in FlowRec
  BY <1>1 DEF Cleared, FlowRec
<1>3. /\ g.started = f.started /\ g.hw = f.hw /\ g.cnt_rate = f.cnt_rate
      /\ g.cnt_rate_prev = f.cnt_rate_prev /\ g.cnt_burst_prev = f.cnt_burst_prev
      /\ g.snooping = f.snooping /\ g.lm = f.lm /\ g.qual = f.qual
      /\ g.pair = f.pair /\ g.link = f.link /\ g.timers = f.timers
      /\ g.cnt_base = IF f.started THEN f.hw ELSE 0
  BY <1>1 DEF Cleared, FlowRec
<1> HIDE DEF g
<1>4. FlowSound(g)
  BY <1>1, <1>2, <1>3 DEF FlowSound
<1>5. g # None
  BY <1>2
<1>6. Reading(g) = 0
  BY <1>1, <1>3 DEF Reading, Minus
<1>7. Given(f) \in Counts /\ (f.started => Given(f) = Reading(f)) /\ (~f.started => Given(f) = 0)
  BY <1>1, ReadingIs DEF Given
<1>8. Agree(g, IF f.started THEN o ELSE Given(f), Given(f), r)
  BY <1>1, <1>3, <1>4, <1>5, <1>6, <1>7 DEF Agree
<1> QED BY <1>5, <1>7, <1>8 DEF g
-----------------------------------------------------------------------------
(* What the steps have in common.                                          *)

LEMMA InvFacts ==
  ASSUME ConsoleInv
  PROVE  /\ \A i \in Flows : Exists(i) => db_flow[i] \in FlowRec /\ FlowSound(db_flow[i])
         /\ \A i \in Keys : owed[i] \in Int /\ recent[i] \in Period
         /\ DOMAIN owed = Keys /\ DOMAIN recent = Keys
<1>1. \A i \in Flows : Exists(i) => FlowSound(db_flow[i])
  BY DEF ConsoleInv, Agree, Exists
<1> QED BY <1>1 DEF ConsoleInv, FlowSound

LEMMA TextIsCounts == ASSUME ConsoleInv PROVE InText \in [Keys -> Nat]
<1>1. CASE call # None /\ call.op = "cnt"
  <2>1. call \in Call
    BY <1>1 DEF ConsoleInv, CallAgrees
  <2> QED BY <1>1, <2>1 DEF Call, InText
<1>2. CASE ~(call # None /\ call.op = "cnt")
  BY <1>2 DEF InText, Nothing
<1> QED BY <1>1, <1>2

\* A call that goes on, or none, over the same flows.
LEMMA CallKept ==
  ASSUME ConsoleInv, UNCHANGED call, \A i \in Flows : Exists(i)' = Exists(i)
  PROVE  CallAgrees' /\ InText' = InText
<1>1. InText' = InText
  BY DEF InText, Nothing
<1>2. ASSUME call # None PROVE CallAgrees'
  <2>1. call \in Call /\ CallAgrees
    BY <1>2 DEF ConsoleInv, CallAgrees
  <2>2. call.op = "set" => call.flow \in Flows
    BY <2>1 DEF Call
  <2>3. call.op = "cnt" => call.todo \cap Flows \subseteq Existing(Flows)'
    BY <1>2, <2>1 DEF CallAgrees, Existing
  <2> QED BY <1>2, <2>1, <2>2, <2>3 DEF CallAgrees
<1>3. CASE call = None
  BY <1>1, <1>3 DEF CallAgrees
<1> QED BY <1>1, <1>2, <1>3

\* Ports of which nothing changes.
LEMMA PortsStay ==
  ASSUME ConsoleInv, UNCHANGED <<port, torn>>, InText' = InText,
         \A p \in Ports : owed'[p] = owed[p] /\ recent'[p] = recent[p]
  PROVE  /\ port' \in [Ports -> PortRec] /\ torn' \in [Ports -> SUBSET {"count", "window", "rate"}]
         /\ \A p \in Ports : PortAgrees(port'[p], owed'[p], InText'[p], recent'[p], torn'[p])
  BY DEF ConsoleInv

\* One flow becomes f; o is owed of it and r said of it.
LEMMA FlowStep ==
  ASSUME ConsoleInv, NEW i \in Flows, NEW f \in FlowRec \cup {None}, NEW o \in Int, NEW r \in Period,
         Becomes(i, f), UNCHANGED <<device, call, torn>>, hung' \in BOOLEAN,
         owed' = [owed EXCEPT ![i] = o], recent' = [recent EXCEPT ![i] = r],
         call = None \/ (f # None /\ Exists(i)),
         Agree(f, o, InText[i], r)
  PROVE  ConsoleInv'
<1>1. /\ db_flow' \in [Flows -> FlowRec \cup {None}]
      /\ db_flow'[i] = f /\ \A k \in Flows \ {i} : db_flow'[k] = db_flow[k]
  BY DEF ConsoleInv, Becomes
<1>2. /\ owed' \in [Keys -> Int] /\ recent' \in [Keys -> Period]
      /\ owed'[i] = o /\ \A k \in Keys \ {i} : owed'[k] = owed[k]
      /\ recent'[i] = r /\ \A k \in Keys \ {i} : recent'[k] = recent[k]
  BY FlowIsNoPort DEF ConsoleInv
<1>3. CallAgrees' /\ InText' = InText
  <2>1. CASE call = None
    BY <2>1 DEF CallAgrees, InText, Nothing
  <2>2. CASE f # None /\ Exists(i)
    <3>1. \A k \in Flows : Exists(k)' = Exists(k)
      BY <1>1, <2>2 DEF Exists
    <3> QED BY <3>1, CallKept
  <2> QED BY <2>1, <2>2
<1>4. \A p \in Ports : owed'[p] = owed[p] /\ recent'[p] = recent[p]
  BY <1>2, PortIsNoFlow
<1>5. UNCHANGED <<port, torn, ticking>>
  BY DEF device
<1>6. /\ port' \in [Ports -> PortRec] /\ torn' \in [Ports -> SUBSET {"count", "window", "rate"}]
      /\ \A p \in Ports : PortAgrees(port'[p], owed'[p], InText'[p], recent'[p], torn'[p])
  BY <1>3, <1>4, <1>5, PortsStay
<1>7. \A k \in Flows : Agree(db_flow'[k], owed'[k], InText'[k], recent'[k])
  BY <1>1, <1>2, <1>3, FlowIsNoPort DEF ConsoleInv
<1>8. {hung', ticking'} \subseteq BOOLEAN
  BY <1>5 DEF ConsoleInv
<1> QED BY <1>1, <1>2, <1>3, <1>6, <1>7, <1>8 DEF ConsoleInv

\* One flow is made, gone or starts: nothing is owed of it.
LEMMA ResetStep ==
  ASSUME ConsoleInv, NEW i \in Flows, NEW f \in FlowRec \cup {None},
         Becomes(i, f), UNCHANGED <<device, call, hung, torn>>, call = None,
         owed' = [owed EXCEPT ![i] = 0], recent' = [recent EXCEPT ![i] = Quiet],
         Agree(f, 0, 0, Quiet)
  PROVE  ConsoleInv'
<1>1. InText[i] = 0
  BY FlowIsNoPort DEF InText, Nothing
<1>2. PICK o \in Int : o = 0
  OBVIOUS
<1>3. PICK r \in Period : r = Quiet
  BY QuietIsPeriod
<1>4. Agree(f, o, InText[i], r) /\ owed' = [owed EXCEPT ![i] = o] /\ recent' = [recent EXCEPT ![i] = r]
      /\ hung' \in BOOLEAN
  BY <1>1, <1>2, <1>3 DEF ConsoleInv
<1> QED BY <1>4, FlowStep

\* Flows stop, all or up to one that throws, and what is owed of them stays.
LEMMA StopStep ==
  ASSUME ConsoleInv, NEW S, db_flow' = StopAll(S) \/ StopThrows(S), UNCHANGED call
  PROVE  /\ db_flow' \in [Flows -> FlowRec \cup {None}]
         /\ CallAgrees' /\ InText' = InText
         /\ \A i \in Flows :
              Agree(db_flow'[i], owed[i], InText[i], IF db_flow'[i] # db_flow[i] THEN Quiet ELSE recent[i])
<1>1. ASSUME NEW i \in Flows, NEW D
      PROVE  LET g == StopAll(D)[i]
             IN  /\ g \in FlowRec \cup {None} /\ (g # None <=> Exists(i))
                 /\ Agree(g, owed[i], InText[i], IF g # db_flow[i] THEN Quiet ELSE recent[i])
  <2> DEFINE g == StopAll(D)[i]
  <2>1. g = IF i \in D /\ Exists(i) THEN Stopped(db_flow[i]) ELSE db_flow[i]
    BY DEF StopAll
  <2>2. Agree(db_flow[i], owed[i], InText[i], recent[i]) /\ db_flow[i] \in FlowRec \cup {None}
    BY DEF ConsoleInv
  <2> HIDE DEF g
  <2>3. CASE i \in D /\ Exists(i)
    <3>1. /\ Stopped(db_flow[i]) # None /\ ~Stopped(db_flow[i]).started
          /\ db_flow[i].started => Agree(Stopped(db_flow[i]), owed[i], InText[i], Quiet)
          /\ ~db_flow[i].started => Stopped(db_flow[i]) = db_flow[i]
      BY <2>2, <2>3, StoppedAgrees DEF Exists
    <3>2. CASE db_flow[i].started
      <4>1. g = Stopped(db_flow[i]) /\ g # db_flow[i] /\ g # None /\ Agree(g, owed[i], InText[i], Quiet)
        BY <2>1, <2>3, <3>1, <3>2
      <4> QED BY <2>3, <4>1 DEF Agree, FlowSound, g
    <3>3. CASE ~db_flow[i].started
      BY <2>1, <2>2, <2>3, <3>1, <3>3 DEF g, Exists
    <3> QED BY <3>2, <3>3
  <2>4. CASE ~(i \in D /\ Exists(i))
    BY <2>1, <2>2, <2>4 DEF g, Exists
  <2> QED BY <2>3, <2>4
<1>2. ASSUME NEW i \in Flows
      PROVE  /\ db_flow'[i] \in FlowRec \cup {None} /\ Exists(i)' = Exists(i)
             /\ Agree(db_flow'[i], owed[i], InText[i], IF db_flow'[i] # db_flow[i] THEN Quiet ELSE recent[i])
  <2>1. CASE db_flow' = StopAll(S)
    BY <1>1, <2>1 DEF Exists
  <2>2. CASE StopThrows(S)
    <3>0. PICK bad \in S \cap Running, done \in SUBSET S :
            \E f \in Halves(bad) : db_flow' = [StopAll(done \ {bad}) EXCEPT ![bad] = f]
      BY <2>2 DEF StopThrows
    <3>1. PICK f \in Halves(bad) : db_flow' = [StopAll(done \ {bad}) EXCEPT ![bad] = f]
      BY <3>0
    <3>2. CASE i = bad
      <4>1. db_flow'[i] = f
        BY <3>1, <3>2 DEF StopAll
      <4>2. db_flow[i] # None /\ db_flow[i].started /\ Agree(db_flow[i], owed[i], InText[i], recent[i])
        BY <3>2 DEF Running, Existing, Exists, ConsoleInv
      <4>3. f # None /\ (f = db_flow[i] \/ Agree(f, owed[i], InText[i], Quiet))
        BY <3>2, <4>2, HalvesAgree
      <4>4. f \in FlowRec
        BY <4>2, <4>3 DEF Agree, FlowSound
      <4> QED BY <4>1, <4>2, <4>3, <4>4 DEF Exists
    <3>3. CASE i # bad
      <4>1. db_flow'[i] = StopAll(done \ {bad})[i]
        BY <3>1, <3>3 DEF StopAll
      <4> QED BY <1>1, <4>1 DEF Exists
    <3> QED BY <3>2, <3>3
  <2> QED BY <2>1, <2>2
<1>3. db_flow' \in [Flows -> FlowRec \cup {None}]
  <2>1. DOMAIN db_flow' = Flows /\ db_flow' = [i \in Flows |-> db_flow'[i]]
    BY DEF StopAll, StopThrows
  <2> QED BY <1>2, <2>1
<1>4. CallAgrees' /\ InText' = InText
  BY <1>2, CallKept
<1> QED BY <1>2, <1>3, <1>4

\* What has been said lately once flows have stopped.
LEMMA HushedIs ==
  ASSUME ConsoleInv, NEW S \in SUBSET Flows
  PROVE  /\ Hushed(S) \in [Keys -> Period]
         /\ \A i \in Flows : Hushed(S)[i] = IF i \in S THEN Quiet ELSE recent[i]
         /\ \A p \in Ports : Hushed(S)[p] = recent[p]
  BY InvFacts, QuietIsPeriod, PortIsNoFlow, FlowIsNoPort DEF Hushed

\* The flows stop while the ports, and what is owed, stay.
LEMMA EndsStep ==
  ASSUME ConsoleInv, NEW S, Ends(S), UNCHANGED <<device, call, hung, owed, torn>>
  PROVE  ConsoleInv'
<1> DEFINE T == {i \in Flows : db_flow'[i] # db_flow[i]}
<1>1. /\ db_flow' \in [Flows -> FlowRec \cup {None}] /\ CallAgrees' /\ InText' = InText
      /\ \A i \in Flows : Agree(db_flow'[i], owed[i], InText[i], IF i \in T THEN Quiet ELSE recent[i])
  BY StopStep DEF Ends
<1>2. recent' = Hushed(T) /\ UNCHANGED <<port, ticking>>
  BY DEF Ends, device
<1> HIDE DEF T
<1>3. T \in SUBSET Flows
  BY DEF T
<1>4. /\ recent' \in [Keys -> Period]
      /\ \A i \in Flows : recent'[i] = IF i \in T THEN Quiet ELSE recent[i]
      /\ \A p \in Ports : recent'[p] = recent[p]
  BY <1>2, <1>3, HushedIs
<1>5. /\ port' \in [Ports -> PortRec] /\ torn' \in [Ports -> SUBSET {"count", "window", "rate"}]
      /\ \A p \in Ports : PortAgrees(port'[p], owed'[p], InText'[p], recent'[p], torn'[p])
  BY <1>1, <1>2, <1>4, PortsStay
<1> QED BY <1>1, <1>2, <1>4, <1>5 DEF ConsoleInv
-----------------------------------------------------------------------------
(* The steps.                                                              *)

LEMMA InitInv == Init => ConsoleInv
<1> SUFFICES ASSUME Init PROVE ConsoleInv
  OBVIOUS
<1>1. \A i \in Flows : Agree(db_flow[i], owed[i], InText[i], recent[i])
  BY FlowIsNoPort DEF Init, Agree, InText, Nothing
<1>2. port \in [Ports -> PortRec]
  BY DEF Init, PortRec
<1>3. \A p \in Ports : PortAgrees(port[p], owed[p], InText[p], recent[p], torn[p])
  <2> SUFFICES ASSUME NEW p \in Ports PROVE PortAgrees(port[p], owed[p], InText[p], recent[p], torn[p])
    OBVIOUS
  <2>1. /\ port[p] \in PortRec /\ port[p].hw = 0 /\ port[p].base = 0 /\ port[p].prev = 0 /\ port[p].rate = 0
        /\ owed[p] = 0 /\ InText[p] = 0 /\ recent[p] = Quiet
    BY <1>2, PortIsNoFlow DEF Init, InText, Nothing
  <2> QED BY <2>1 DEF PortAgrees, Quiet
<1>4. CallAgrees /\ {hung, ticking} \subseteq BOOLEAN
  BY DEF Init, CallAgrees
<1>5. /\ owed \in [Keys -> Int] /\ recent \in [Keys -> Period] /\ db_flow \in [Flows -> FlowRec \cup {None}]
      /\ torn \in [Ports -> SUBSET {"count", "window", "rate"}]
  BY QuietIsPeriod DEF Init
<1> QED BY <1>1, <1>2, <1>3, <1>4, <1>5 DEF ConsoleInv

LEMMA CreateInv == ASSUME ConsoleInv, NEW i \in Flows, Create(i) PROVE ConsoleInv'
<1>1. New \in FlowRec /\ Agree(New, 0, 0, Quiet)
  BY NewAgrees DEF Agree, FlowSound
<1>2. Agree(db_flow[i], owed[i], InText[i], recent[i]) /\ ~Exists(i) /\ call = None
  BY DEF ConsoleInv, Create, Ready
<1>3. owed[i] = 0 /\ recent[i] = Quiet
  BY <1>2 DEF Agree, Exists
<1>4. owed' = [owed EXCEPT ![i] = 0] /\ recent' = [recent EXCEPT ![i] = Quiet]
  BY <1>3 DEF Create, history, ConsoleInv
<1>5. Becomes(i, New) /\ UNCHANGED <<device, call, hung, torn>>
  BY DEF Create, history
<1> QED BY <1>1, <1>2, <1>4, <1>5, ResetStep

LEMMA DestroyInv == ASSUME ConsoleInv, NEW i \in Flows, Destroy(i) PROVE ConsoleInv'
<1>1. call = None
  BY DEF Destroy, Ready
<1>2. Agree(None, 0, 0, Quiet)
  BY DEF Agree
<1>3. Hushed({i}) = [recent EXCEPT ![i] = Quiet]
  BY DEF Hushed, ConsoleInv
<1>4. /\ Becomes(i, None) /\ UNCHANGED <<device, call, hung, torn>>
      /\ owed' = [owed EXCEPT ![i] = 0] /\ recent' = [recent EXCEPT ![i] = Quiet]
  BY <1>3 DEF Destroy
<1> QED BY <1>1, <1>2, <1>4, ResetStep

\* What changes neither counters nor history of a flow.
LEMMA SameCountsStep ==
  ASSUME ConsoleInv, NEW i \in Flows, NEW g \in FlowRec, Ready, Exists(i), Becomes(i, g),
         UNCHANGED <<device, call, history>>, hung' \in BOOLEAN,
         LET f == db_flow[i]
         IN  /\ g.started = f.started /\ g.hw = f.hw /\ g.cnt_base = f.cnt_base /\ g.cnt_rate = f.cnt_rate
             /\ g.cnt_rate_prev = f.cnt_rate_prev /\ g.cnt_burst_prev = f.cnt_burst_prev
             /\ g.qual = f.qual /\ g.timers = f.timers /\ g.pair = f.pair /\ g.link = f.link
             /\ g.snooping \/ g.lm => g.started
  PROVE  ConsoleInv'
<1> DEFINE f == db_flow[i]
<1>1. Agree(f, owed[i], InText[i], recent[i]) /\ FlowSound(f) /\ f # None
  BY InvFacts DEF ConsoleInv, Exists
<1>2. /\ g.cnt_burst_prev \in Counts /\ g.timers \subseteq f.timers
      /\ ~g.started => ~g.snooping /\ ~g.lm /\ g.pair = {} /\ g.link = {} /\ g.timers = {}
      /\ \A x, y \in g.qual.rules : x[1] = y[1] => x = y
  BY <1>1 DEF FlowSound
<1>3. Agree(g, owed[i], InText[i], recent[i])
  BY <1>1, <1>2, SameCounts
<1>4. owed[i] \in Int /\ recent[i] \in Period
  BY InvFacts, FlowIsNoPort
<1>5. owed' = [owed EXCEPT ![i] = owed[i]] /\ recent' = [recent EXCEPT ![i] = recent[i]]
  BY DEF history, ConsoleInv
<1>6. UNCHANGED <<device, call, torn>> /\ call = None
  BY DEF Ready, history
<1> QED BY <1>3, <1>4, <1>5, <1>6, FlowStep

LEMMA SetInv == ASSUME ConsoleInv, NEW i \in Flows, NEW what \in {"port", "pkt", "rx_port", "rx_offset"}, Set(i, what)
                PROVE  ConsoleInv'
<1> DEFINE f == db_flow[i]
           g == [f EXCEPT !.set = @ \cup {what}]
<1>1. f \in FlowRec /\ FlowSound(f)
  BY InvFacts DEF Set
<1>2. g \in FlowRec
  BY <1>1 DEF FlowRec
<1>3. /\ g.started = f.started /\ g.hw = f.hw /\ g.cnt_base = f.cnt_base /\ g.cnt_rate = f.cnt_rate
      /\ g.cnt_rate_prev = f.cnt_rate_prev /\ g.cnt_burst_prev = f.cnt_burst_prev
      /\ g.qual = f.qual /\ g.timers = f.timers /\ g.pair = f.pair /\ g.link = f.link
      /\ g.snooping \/ g.lm => g.started
  BY <1>1 DEF FlowRec, FlowSound
<1>4. Ready /\ Exists(i) /\ Becomes(i, g) /\ UNCHANGED <<device, call, history>> /\ hung' \in BOOLEAN
  BY DEF Set, ConsoleInv
<1> HIDE DEF g
<1> QED BY <1>2, <1>3, <1>4, SameCountsStep

LEMMA SetRateInv == ASSUME ConsoleInv, NEW i \in Flows, NEW burst \in BOOLEAN, SetRate(i, burst) PROVE ConsoleInv'
<1> DEFINE f == db_flow[i]
           s == IF burst THEN f.set \cup {"burst"} ELSE f.set \ {"burst"}
           g == [f EXCEPT !.set = s]
<1>1. f \in FlowRec /\ FlowSound(f)
  BY InvFacts DEF SetRate
<1>2. s \subseteq {"port", "pkt", "rx_port", "rx_offset", "burst"}
  BY <1>1 DEF FlowRec
<1>3. Ready /\ Exists(i) /\ Becomes(i, g) /\ UNCHANGED <<device, call, history>> /\ hung' \in BOOLEAN
  BY DEF SetRate, ConsoleInv
<1> HIDE DEF s
<1>4. g \in FlowRec
  BY <1>1, <1>2 DEF FlowRec
<1>5. /\ g.started = f.started /\ g.hw = f.hw /\ g.cnt_base = f.cnt_base /\ g.cnt_rate = f.cnt_rate
      /\ g.cnt_rate_prev = f.cnt_rate_prev /\ g.cnt_burst_prev = f.cnt_burst_prev
      /\ g.qual = f.qual /\ g.timers = f.timers /\ g.pair = f.pair /\ g.link = f.link
      /\ g.snooping \/ g.lm => g.started
  BY <1>1 DEF FlowRec, FlowSound
<1> HIDE DEF g
<1> QED BY <1>3, <1>4, <1>5, SameCountsStep

LEMMA SnoopInv == ASSUME ConsoleInv, NEW i \in Flows, NEW on \in BOOLEAN, Snoop(i, on) PROVE ConsoleInv'
<1> DEFINE f == db_flow[i]
           s == IF on THEN <<>> ELSE f.snoop_pkts
<1>1. f \in FlowRec /\ FlowSound(f) /\ f.started
  BY InvFacts DEF Snoop
<1>2. s \in Seq({"short", "long"}) /\ f.snooping \in BOOLEAN
  BY <1>1 DEF FlowRec
<1>3. PICK b \in BOOLEAN : Becomes(i, [f EXCEPT !.snooping = b, !.snoop_pkts = s])
  <2>1. [f EXCEPT !.snoop_pkts = s] = [f EXCEPT !.snooping = f.snooping, !.snoop_pkts = s]
    BY <1>1 DEF FlowRec
  <2> QED BY <1>2, <2>1 DEF Snoop
<1> DEFINE g == [f EXCEPT !.snooping = b, !.snoop_pkts = s]
<1>4. Ready /\ Exists(i) /\ Becomes(i, g) /\ UNCHANGED <<device, call, history>> /\ hung' \in BOOLEAN
  BY <1>3 DEF Snoop, ConsoleInv
<1> HIDE DEF s
<1>5. g \in FlowRec
  BY <1>1, <1>2 DEF FlowRec
<1>6. /\ g.started = f.started /\ g.hw = f.hw /\ g.cnt_base = f.cnt_base /\ g.cnt_rate = f.cnt_rate
      /\ g.cnt_rate_prev = f.cnt_rate_prev /\ g.cnt_burst_prev = f.cnt_burst_prev
      /\ g.qual = f.qual /\ g.timers = f.timers /\ g.pair = f.pair /\ g.link = f.link /\ g.started
  BY <1>1 DEF FlowRec
<1> HIDE DEF g
<1> QED BY <1>4, <1>5, <1>6, SameCountsStep

LEMMA DumpInv == ASSUME ConsoleInv, NEW i \in Flows, Dump(i) PROVE ConsoleInv'
<1> DEFINE f == db_flow[i]
           g == [f EXCEPT !.snoop_pkts = <<>>]
<1>1. f \in FlowRec /\ FlowSound(f) /\ f.started
  BY InvFacts DEF Dump
<1>2. g \in FlowRec
  <2>1. <<>> \in Seq({"short", "long"})
    OBVIOUS
  <2> QED BY <1>1, <2>1 DEF FlowRec
<1>3. /\ g.started = f.started /\ g.hw = f.hw /\ g.cnt_base = f.cnt_base /\ g.cnt_rate = f.cnt_rate
      /\ g.cnt_rate_prev = f.cnt_rate_prev /\ g.cnt_burst_prev = f.cnt_burst_prev
      /\ g.qual = f.qual /\ g.timers = f.timers /\ g.pair = f.pair /\ g.link = f.link /\ g.started
  BY <1>1 DEF FlowRec
<1>4. Ready /\ Exists(i) /\ Becomes(i, g) /\ UNCHANGED <<device, call, history>> /\ hung' \in BOOLEAN
  BY DEF Dump
<1> HIDE DEF g
<1> QED BY <1>2, <1>3, <1>4, SameCountsStep

\* Both lm_start and lm_stop.
LEMMA LatencyInv ==
  ASSUME ConsoleInv, NEW i \in Flows, LatencyStart(i) \/ LatencyStop(i)
  PROVE  ConsoleInv'
<1> DEFINE f == db_flow[i]
<1>1. f \in FlowRec /\ FlowSound(f)
  BY InvFacts DEF LatencyStart, LatencyStop
<1>2. PICK ok \in {f.started, FALSE} : Becomes(i, [f EXCEPT !.lm = ok])
  BY DEF LatencyStart, LatencyStop
<1> DEFINE g == [f EXCEPT !.lm = ok]
<1>3. ok \in BOOLEAN /\ g \in FlowRec
  <2>1. ok \in BOOLEAN
    BY <1>1 DEF FlowRec
  <2> QED BY <1>1, <2>1 DEF FlowRec
<1>4. /\ g.started = f.started /\ g.hw = f.hw /\ g.cnt_base = f.cnt_base /\ g.cnt_rate = f.cnt_rate
      /\ g.cnt_rate_prev = f.cnt_rate_prev /\ g.cnt_burst_prev = f.cnt_burst_prev
      /\ g.qual = f.qual /\ g.snooping = f.snooping /\ g.lm = ok
      /\ g.timers = f.timers /\ g.pair = f.pair /\ g.link = f.link
  BY <1>1 DEF FlowRec
<1>5. Ready /\ Exists(i) /\ Becomes(i, g) /\ UNCHANGED <<device, call, history>> /\ hung' \in BOOLEAN
  BY <1>2 DEF LatencyStart, LatencyStop, ConsoleInv
<1> HIDE DEF g
<1>6. g.snooping \/ g.lm => g.started
  BY <1>1, <1>4 DEF FlowSound
<1> QED BY <1>3, <1>4, <1>5, <1>6, SameCountsStep

LEMMA StartInv == ASSUME ConsoleInv, NEW i \in Flows, Start(i) PROVE ConsoleInv'
<1> DEFINE f == db_flow[i]
<1>1. Exists(i) /\ UNCHANGED <<device, call, hung, torn>> /\ call = None
  BY DEF Start, Ready
<1>2. f # None /\ Agree(f, owed[i], InText[i], recent[i])
  BY <1>1 DEF ConsoleInv, Exists
<1>3. CASE StartOk(i)
  <2>1. /\ Stopped(f) # None /\ ~Stopped(f).started
        /\ FlowSound(Stopped(f))
    BY <1>2, StoppedAgrees DEF Agree
  <2>2. Bindings(i) \subseteq [pair : SUBSET Ports, link : SUBSET Ports]
    <3>1. i \in Tx \/ i \in Rx \/ i \in Trx
      BY DEF Flows
    <3>2. ~(i \in Tx /\ i \in Rx) /\ ~(i \in Tx /\ i \in Trx) /\ ~(i \in Rx /\ i \in Trx)
      BY DEF Tx, Rx, Trx
    <3>3. \A S \in SUBSET Ports, p \in Ports :
            /\ [pair |-> {p}, link |-> {p}] \in [pair : SUBSET Ports, link : SUBSET Ports]
            /\ [pair |-> S, link |-> {}] \in [pair : SUBSET Ports, link : SUBSET Ports]
            /\ [pair |-> S \cup {p}, link |-> {p}] \in [pair : SUBSET Ports, link : SUBSET Ports]
      OBVIOUS
    <3>4. CASE i \in Tx
      BY <3>2, <3>3, <3>4 DEF Bindings
    <3>5. CASE i \in Rx
      BY <3>2, <3>3, <3>5 DEF Bindings
    <3>6. CASE i \in Trx
      BY <3>2, <3>3, <3>6 DEF Bindings
    <3> QED BY <3>1, <3>4, <3>5, <3>6
  <2>3. PICK b \in Bindings(i) : Becomes(i, Started(Stopped(f), b))
    BY <1>3 DEF StartOk
  <2>4. Started(Stopped(f), b) \in FlowRec /\ Agree(Started(Stopped(f), b), 0, 0, Quiet)
    BY <2>1, <2>2, StartedAgrees DEF Agree, FlowSound
  <2>5. recent' = [recent EXCEPT ![i] = Quiet] /\ owed' = [owed EXCEPT ![i] = 0]
    BY <1>3 DEF StartOk, Hushed, ConsoleInv
  <2> QED BY <1>1, <2>3, <2>4, <2>5, ResetStep
<1>4. CASE Ends({i}) /\ UNCHANGED owed
  BY <1>1, <1>4, EndsStep
<1> QED BY <1>3, <1>4 DEF Start

LEMMA StopInv == ASSUME ConsoleInv, NEW i \in Flows, Stop(i) PROVE ConsoleInv'
  BY EndsStep DEF Stop

LEMMA LinkDownInv == ASSUME ConsoleInv, NEW p \in Ports, LinkDown(p) PROVE ConsoleInv'
  BY EndsStep DEF LinkDown

\* A timer of a flow ends, or a flow that runs notes what it had sent.
LEMMA TimerStep ==
  ASSUME ConsoleInv, NEW i \in Running, NEW g \in FlowRec, Becomes(i, g),
         UNCHANGED <<device, call, hung, owed, recent, torn>>,
         LET f == db_flow[i]
         IN  /\ g.started = f.started /\ g.hw = f.hw /\ g.cnt_base = f.cnt_base /\ g.cnt_rate = f.cnt_rate
             /\ g.cnt_rate_prev = f.cnt_rate_prev /\ g.cnt_burst_prev \in Counts
             /\ g.qual = f.qual /\ g.timers \subseteq f.timers
  PROVE  ConsoleInv'
<1> DEFINE f == db_flow[i]
<1>1. i \in Flows /\ Exists(i) /\ f # None /\ f.started
  BY DEF Running, Existing, Exists
<1>2. /\ Agree(f, owed[i], InText[i], recent[i]) /\ FlowSound(f)
      /\ owed[i] \in Int /\ recent[i] \in Period
  BY <1>1, InvFacts, FlowIsNoPort DEF ConsoleInv
<1>3. g.started /\ \A x, y \in g.qual.rules : x[1] = y[1] => x = y
  BY <1>1, <1>2 DEF FlowSound
<1>4. g # None /\ Agree(g, owed[i], InText[i], recent[i])
  BY <1>1, <1>2, <1>3, SameCounts
<1>5. /\ owed' = [owed EXCEPT ![i] = owed[i]] /\ recent' = [recent EXCEPT ![i] = recent[i]]
      /\ hung' \in BOOLEAN
  BY DEF ConsoleInv
<1> QED BY <1>1, <1>2, <1>4, <1>5, FlowStep

LEMMA TimerEnds ==
  ASSUME ConsoleInv, NEW i \in Running, NEW t, Becomes(i, [db_flow[i] EXCEPT !.timers = @ \ {t}]),
         UNCHANGED <<device, call, hung, owed, recent, torn>>
  PROVE  ConsoleInv'
<1> DEFINE f == db_flow[i]
           g == [f EXCEPT !.timers = @ \ {t}]
<1>1. f \in FlowRec /\ FlowSound(f)
  BY InvFacts DEF Running, Existing
<1>2. g \in FlowRec
  BY <1>1 DEF FlowRec
<1>3. /\ g.started = f.started /\ g.hw = f.hw /\ g.cnt_base = f.cnt_base /\ g.cnt_rate = f.cnt_rate
      /\ g.cnt_rate_prev = f.cnt_rate_prev /\ g.cnt_burst_prev = f.cnt_burst_prev
      /\ g.qual = f.qual /\ g.timers = f.timers \ {t}
  BY <1>1 DEF FlowRec
<1> HIDE DEF g
<1>4. g.cnt_burst_prev \in Counts /\ g.timers \subseteq f.timers
  BY <1>1, <1>3 DEF FlowSound
<1>5. Becomes(i, g)
  BY DEF g
<1> QED BY <1>2, <1>3, <1>4, <1>5, TimerStep

LEMMA RateTimerInv == ASSUME ConsoleInv, NEW i \in Running, RateTimer(i) PROVE ConsoleInv'
<1> DEFINE f == db_flow[i]
           c == f.hw - f.cnt_rate_prev
           g == [f EXCEPT !.cnt_rate = c, !.cnt_rate_prev = f.hw]
<1>0. i \in Flows /\ UNCHANGED <<device, call, hung, owed, torn>>
  BY DEF Running, Existing, RateTimer
<1>1. Exists(i) /\ f.started /\ f \in FlowRec /\ FlowSound(f) /\ "rate" \in f.timers /\ f # None
      /\ Agree(f, owed[i], InText[i], recent[i]) /\ owed[i] \in Int
  BY <1>0, InvFacts, FlowIsNoPort DEF RateTimer, Running, Existing, Exists, ConsoleInv
<1>2. f.hw \in Counts /\ f.cnt_rate_prev \in Counts /\ f.cnt_rate_prev <= f.hw
      /\ Minus(f.hw, f.cnt_rate_prev) = c /\ c \in Counts /\ c \in Nat /\ f.hw \in Nat
  BY <1>1 DEF FlowSound, Minus
<1>3. CASE Becomes(i, [f EXCEPT !.cnt_rate = Minus(f.hw, f.cnt_rate_prev), !.cnt_rate_prev = f.hw])
           /\ recent' = [recent EXCEPT ![i] = Passed(@)]
  <2>1. g \in FlowRec
    <3> HIDE DEF c
    <3> QED BY <1>1, <1>2 DEF FlowRec
  <2>2. /\ g.started = f.started /\ g.hw = f.hw /\ g.cnt_base = f.cnt_base /\ g.cnt_rate = c
        /\ g.cnt_rate_prev = f.hw /\ g.cnt_burst_prev = f.cnt_burst_prev /\ g.qual = f.qual
    BY <1>1 DEF FlowRec
  <2>3. Becomes(i, g) /\ hung' \in BOOLEAN
    BY <1>0, <1>2, <1>3 DEF ConsoleInv
  <2> HIDE DEF g
  <2>4. Passed(recent[i]) = [window |-> 0, last |-> c] /\ Passed(recent[i]) \in Period
    BY <1>1, <1>2 DEF Agree, Passed, Period
  <2>5. owed' = [owed EXCEPT ![i] = owed[i]] /\ recent' = [recent EXCEPT ![i] = Passed(recent[i])]
    BY <1>0, <1>3 DEF ConsoleInv
  <2>6. FlowSound(g)
    BY <1>1, <1>2, <2>1, <2>2 DEF FlowSound
  <2>7. Reading(g) = Reading(f) /\ g # None
    BY <2>1, <2>2 DEF Reading
  <2>8. Agree(g, owed[i], InText[i], Passed(recent[i]))
    BY <1>1, <1>2, <2>2, <2>4, <2>6, <2>7 DEF Agree
  <2> QED BY <1>0, <1>1, <2>1, <2>3, <2>4, <2>5, <2>7, <2>8, FlowStep
<1>4. CASE Becomes(i, [f EXCEPT !.timers = @ \ {"rate"}]) /\ UNCHANGED recent
  BY <1>0, <1>4, TimerEnds
<1> QED BY <1>3, <1>4 DEF RateTimer

LEMMA AutoStopInv == ASSUME ConsoleInv, NEW i \in Running, AutoStop(i) PROVE ConsoleInv'
<1> DEFINE f == db_flow[i]
           g == [f EXCEPT !.cnt_burst_prev = f.hw]
<1>1. f \in FlowRec /\ FlowSound(f) /\ UNCHANGED <<device, call, hung, owed, torn>>
  BY InvFacts DEF AutoStop, Running, Existing
<1>2. CASE Ends({i})
  BY <1>1, <1>2, EndsStep
<1>3. CASE Becomes(i, [f EXCEPT !.cnt_burst_prev = f.hw]) /\ UNCHANGED recent
  <2>1. g \in FlowRec
    BY <1>1 DEF FlowRec
  <2>2. /\ g.started = f.started /\ g.hw = f.hw /\ g.cnt_base = f.cnt_base /\ g.cnt_rate = f.cnt_rate
        /\ g.cnt_rate_prev = f.cnt_rate_prev /\ g.cnt_burst_prev = f.hw /\ g.qual = f.qual
        /\ g.timers = f.timers
    BY <1>1 DEF FlowRec
  <2>3. Becomes(i, g)
    BY <1>3
  <2> HIDE DEF g
  <2>4. g.cnt_burst_prev \in Counts /\ g.timers \subseteq f.timers
    BY <1>1, <2>2 DEF FlowSound
  <2> QED BY <1>1, <1>3, <2>1, <2>2, <2>3, <2>4, TimerStep
<1>4. CASE Becomes(i, [f EXCEPT !.timers = @ \ {"stop"}]) /\ UNCHANGED recent
  BY <1>1, <1>4, TimerEnds
<1> QED BY <1>2, <1>3, <1>4 DEF AutoStop

\* What the timer of the rates does to one port.
LEMMA TickAgrees ==
  ASSUME NEW q, NEW o, NEW t, NEW r, NEW c, PortAgrees(q, o, t, r, c)
  PROVE  LET u == [q EXCEPT !.rate = Minus(q.hw, q.prev), !.prev = q.hw]
             d == (c \ {"window", "rate"}) \cup (IF "window" \in c THEN {"rate"} ELSE {})
         IN  PortAgrees(u, o, t, Passed(r), d)
<1> DEFINE m == Minus(q.hw, q.prev)
           u == [q EXCEPT !.rate = m, !.prev = q.hw]
           d == (c \ {"window", "rate"}) \cup (IF "window" \in c THEN {"rate"} ELSE {})
<1>1. q \in PortRec /\ q.hw \in Counts /\ q.prev \in Counts
  BY DEF PortAgrees, PortRec
<1>2. m \in 0..MaxWord /\ (q.prev <= q.hw => m = q.hw - q.prev)
  BY <1>1 DEF Minus
<1> HIDE DEF m
<1>3. u \in PortRec /\ u.hw = q.hw /\ u.base = q.base /\ u.prev = q.hw /\ u.rate = m
  BY <1>1, <1>2 DEF PortRec
<1> HIDE DEF u
<1>4. /\ "count" \notin d => "count" \notin c
      /\ "window" \notin d
      /\ "rate" \notin d => "window" \notin c
  OBVIOUS
<1> HIDE DEF d
<1>5. Passed(r).window = 0 /\ Passed(r).last = r.window
  BY DEF Passed
<1>6. PortAgrees(u, o, t, Passed(r), d)
  BY <1>1, <1>2, <1>3, <1>4, <1>5 DEF PortAgrees
<1> QED BY <1>6 DEF u, d, m

LEMMA PortTimerInv == ASSUME ConsoleInv, PortTimer PROVE ConsoleInv'
<1> DEFINE tick(q) == [q EXCEPT !.rate = Minus(q.hw, q.prev), !.prev = q.hw]
           left(c) == (c \ {"window", "rate"}) \cup (IF "window" \in c THEN {"rate"} ELSE {})
<1>1. PICK done \in {Ports} \cup {{q \in Ports : q[2] < p[2]} : p \in Ports} :
        /\ port' = [p \in Ports |-> IF p \in done THEN tick(port[p]) ELSE port[p]]
        /\ ticking' = (done = Ports)
        /\ recent' = [i \in DOMAIN recent |-> IF i \in done THEN Passed(recent[i]) ELSE recent[i]]
        /\ torn' = [p \in Ports |-> IF p \notin done THEN torn[p] ELSE left(torn[p])]
  BY DEF PortTimer
<1>2. done \subseteq Ports /\ UNCHANGED <<db_flow, call, hung, owed>>
  BY DEF PortTimer
<1>3. CallAgrees' /\ InText' = InText
  BY <1>2, CallKept DEF Exists
<1>4. /\ recent' \in [Keys -> Period] /\ \A i \in Flows : recent'[i] = recent[i]
      /\ \A p \in Ports : recent'[p] = IF p \in done THEN Passed(recent[p]) ELSE recent[p]
  <2>1. \A i \in Keys : recent[i] \in Period /\ Passed(recent[i]) \in Period
    BY InvFacts DEF Passed, Period
  <2>2. recent' = [i \in Keys |-> IF i \in done THEN Passed(recent[i]) ELSE recent[i]]
    BY <1>1, InvFacts
  <2> QED BY <1>2, <2>1, <2>2, FlowIsNoPort, PortIsNoFlow
<1>5. ASSUME NEW p \in Ports
      PROVE  PortAgrees(port'[p], owed'[p], InText'[p], recent'[p], torn'[p]) /\ torn'[p] \subseteq {"count", "window", "rate"}
  <2>1. PortAgrees(port[p], owed[p], InText[p], recent[p], torn[p]) /\ torn[p] \subseteq {"count", "window", "rate"}
    BY DEF ConsoleInv
  <2>2. PortAgrees(tick(port[p]), owed[p], InText[p], Passed(recent[p]), left(torn[p]))
    BY <2>1, TickAgrees
  <2>3. left(torn[p]) \subseteq {"count", "window", "rate"}
    BY <2>1
  <2> HIDE DEF tick, left
  <2> QED BY <1>1, <1>2, <1>3, <1>4, <2>1, <2>2, <2>3
<1>6. port' \in [Ports -> PortRec] /\ torn' \in [Ports -> SUBSET {"count", "window", "rate"}]
  <2>1. \A p \in Ports : port'[p] \in PortRec
    BY <1>5 DEF PortAgrees
  <2>2. port' = [p \in Ports |-> port'[p]] /\ torn' = [p \in Ports |-> torn'[p]]
    BY <1>1
  <2> QED BY <1>5, <2>1, <2>2
<1>7. {hung', ticking'} \subseteq BOOLEAN
  BY <1>1, <1>2 DEF ConsoleInv
<1>8. /\ db_flow' \in [Flows -> FlowRec \cup {None}] /\ owed' \in [Keys -> Int]
      /\ \A i \in Flows : Agree(db_flow'[i], owed'[i], InText'[i], recent'[i])
  BY <1>2, <1>3, <1>4 DEF ConsoleInv
<1> QED BY <1>3, <1>4, <1>5, <1>6, <1>7, <1>8 DEF ConsoleInv

LEMMA PortSetItfInv == ASSUME ConsoleInv, NEW p \in Ports, port_set_itf(p) PROVE ConsoleInv'
<1> DEFINE T == {i \in Flows : db_flow'[i] # db_flow[i]}
           r == [recent[p] EXCEPT !.window = 0]
<1>1. p \notin Flows /\ p \in Keys /\ InText[p] = 0 /\ call = None /\ UNCHANGED <<ticking, call, hung>>
  BY PortIsNoFlow DEF port_set_itf, Ready, InText, Nothing
<1>2. /\ port[p] \in PortRec /\ recent[p] \in Period /\ torn[p] \subseteq {"count", "window", "rate"}
      /\ "rate" \notin torn[p] => recent[p].last = port[p].rate
  BY <1>1, InvFacts DEF ConsoleInv, PortAgrees
<1>3. r \in Period /\ r.window = 0 /\ r.last = recent[p].last
  BY <1>2 DEF Period
<1>4. /\ db_flow' \in [Flows -> FlowRec \cup {None}] /\ CallAgrees' /\ InText' = InText
      /\ \A i \in Flows : Agree(db_flow'[i], owed[i], InText[i], IF i \in T THEN Quiet ELSE recent[i])
  <2>1. db_flow' = StopAll(Paired(p)) \/ StopThrows(Paired(p))
    BY DEF port_set_itf
  <2> QED BY <1>1, <2>1, StopStep
<1>5. \E q \in PortRec, c \in SUBSET {"count", "window", "rate"} :
        /\ port' = [port EXCEPT ![p] = q] /\ torn' = [torn EXCEPT ![p] = c]
        /\ PortAgrees(q, 0, 0, r, c)
  <2>1. CASE port' = [port EXCEPT ![p] = Changed(@)] /\ torn' = [torn EXCEPT ![p] = @ \ {"count", "window"}]
    <3> DEFINE q == Changed(port[p])
    <3>0. 0 \in Counts
      BY ConsoleAssumption DEF Counts
    <3>1. q \in PortRec /\ q.hw = 0 /\ q.base = 0 /\ q.prev = 0 /\ q.rate = port[p].rate
      BY <1>2, <3>0 DEF Changed, PortRec
    <3> HIDE DEF q, r
    <3>2. PortAgrees(q, 0, 0, r, torn[p] \ {"count", "window"})
      BY <1>2, <1>3, <3>1 DEF PortAgrees
    <3>3. /\ port' = [port EXCEPT ![p] = q] /\ torn' = [torn EXCEPT ![p] = torn[p] \ {"count", "window"}]
          /\ torn[p] \ {"count", "window"} \in SUBSET {"count", "window", "rate"}
      BY <1>2, <2>1 DEF q
    <3> QED BY <3>1, <3>2, <3>3
  <2>2. ASSUME NEW base \in {0, port[p].base}, NEW n \in 0..MaxPkts,
               port' = [port EXCEPT ![p].hw = n, ![p].base = base],
               torn' = [torn EXCEPT ![p] = @ \cup {"count", "window"}]
        PROVE  \E q \in PortRec, c \in SUBSET {"count", "window", "rate"} :
                 /\ port' = [port EXCEPT ![p] = q] /\ torn' = [torn EXCEPT ![p] = c]
                 /\ PortAgrees(q, 0, 0, r, c)
    <3> DEFINE q == [port[p] EXCEPT !.hw = n, !.base = base]
               c == torn[p] \cup {"count", "window"}
    <3>0. n \in Counts /\ base \in Counts
      BY <1>2, ConsoleAssumption DEF PortRec, Counts
    <3>1. q \in PortRec /\ q.rate = port[p].rate
      BY <1>2, <3>0 DEF PortRec
    <3>2. /\ port' = [port EXCEPT ![p] = q] /\ torn' = [torn EXCEPT ![p] = c]
          /\ c \in SUBSET {"count", "window", "rate"} /\ "count" \in c /\ "window" \in c
          /\ "rate" \notin c => "rate" \notin torn[p]
      BY <1>2, <2>2 DEF ConsoleInv
    <3> HIDE DEF q, c, r
    <3>3. PortAgrees(q, 0, 0, r, c)
      BY <1>2, <1>3, <3>1, <3>2 DEF PortAgrees
    <3> QED BY <3>1, <3>2, <3>3
  <2> HIDE DEF r
  <2> QED BY <2>1, <2>2 DEF port_set_itf
<1>6. PICK q \in PortRec, c \in SUBSET {"count", "window", "rate"} :
        /\ port' = [port EXCEPT ![p] = q] /\ torn' = [torn EXCEPT ![p] = c]
        /\ PortAgrees(q, 0, 0, r, c)
  BY <1>5
<1>7. recent' = [Hushed(T) EXCEPT ![p] = r] /\ owed' = [owed EXCEPT ![p] = 0]
  <2>1. Hushed(T)[p] = recent[p]
    BY HushedIs
  <2> QED BY <2>1 DEF port_set_itf
<1> HIDE DEF r, T
<1>8. T \in SUBSET Flows
  BY DEF T
<1>9. /\ recent' \in [Keys -> Period] /\ recent'[p] = r
      /\ \A i \in Flows : recent'[i] = IF i \in T THEN Quiet ELSE recent[i]
      /\ \A k \in Ports \ {p} : recent'[k] = recent[k]
  <2>1. /\ Hushed(T) \in [Keys -> Period]
        /\ \A i \in Flows : Hushed(T)[i] = IF i \in T THEN Quiet ELSE recent[i]
        /\ \A k \in Ports : Hushed(T)[k] = recent[k]
    BY <1>8, HushedIs
  <2> QED BY <1>1, <1>3, <1>7, <2>1, FlowIsNoPort, PortIsNoFlow
<1>10. /\ owed' \in [Keys -> Int] /\ owed'[p] = 0 /\ \A i \in Flows : owed'[i] = owed[i]
       /\ \A k \in Ports \ {p} : owed'[k] = owed[k]
  BY <1>1, <1>7, FlowIsNoPort, PortIsNoFlow DEF ConsoleInv
<1>11. /\ port' \in [Ports -> PortRec] /\ torn' \in [Ports -> SUBSET {"count", "window", "rate"}]
       /\ port'[p] = q /\ torn'[p] = c /\ \A k \in Ports \ {p} : port'[k] = port[k] /\ torn'[k] = torn[k]
  BY <1>6 DEF ConsoleInv
<1>12. \A k \in Ports : PortAgrees(port'[k], owed'[k], InText'[k], recent'[k], torn'[k])
  BY <1>1, <1>4, <1>6, <1>9, <1>10, <1>11 DEF ConsoleInv
<1>13. {hung', ticking'} \subseteq BOOLEAN
  BY <1>1 DEF ConsoleInv
<1>14. \A i \in Flows : Agree(db_flow'[i], owed'[i], InText'[i], recent'[i])
  BY <1>4, <1>9, <1>10
<1> QED BY <1>4, <1>9, <1>10, <1>11, <1>12, <1>13, <1>14 DEF ConsoleInv

\* One packet more in a port.
LEMMA PacketPort ==
  ASSUME NEW q, NEW o \in Int, NEW t \in Nat, NEW r \in Period, NEW c, PortAgrees(q, o, t, r, c), q.hw < MaxPkts
  PROVE  PortAgrees([q EXCEPT !.hw = @ + 1], o + 1, t, [r EXCEPT !.window = @ + 1], c)
<1> DEFINE h == q.hw + 1
           u == [q EXCEPT !.hw = h]
           e == [r EXCEPT !.window = r.window + 1]
<1>1. q \in PortRec /\ q.hw \in Counts /\ q.prev \in Counts /\ q.base \in Counts /\ r.window \in Nat
  BY DEF PortAgrees, PortRec, Period
<1>2. h \in Counts
  BY <1>1
<1> HIDE DEF h
<1>3. u \in PortRec /\ u.hw = h /\ u.base = q.base /\ u.prev = q.prev /\ u.rate = q.rate
  BY <1>1, <1>2 DEF PortRec
<1>4. e.window = r.window + 1 /\ e.last = r.last
  BY DEF Period
<1> HIDE DEF u, e
<1>5. PortAgrees(u, o + 1, t, e, c)
  <2>1. "count" \notin c => u.base <= u.hw /\ o + 1 = u.hw - u.base + t
    BY <1>1, <1>3 DEF PortAgrees, h
  <2>2. "window" \notin c => u.prev <= u.hw /\ e.window = u.hw - u.prev
    BY <1>1, <1>3, <1>4 DEF PortAgrees, h
  <2>3. "rate" \notin c => e.last = u.rate
    BY <1>3, <1>4 DEF PortAgrees
  <2> QED BY <1>3, <2>1, <2>2, <2>3 DEF PortAgrees
<1> QED BY <1>5 DEF u, h, e

\* One packet more in a flow, kept or not.
LEMMA PacketFlow ==
  ASSUME NEW f, NEW o \in Int, NEW t \in Nat, NEW r \in Period, f # None, f.started, f.hw < MaxPkts,
         Agree(f, o, t, r), NEW s \in Seq({"short", "long"})
  PROVE  LET g == [f EXCEPT !.hw = @ + 1, !.snoop_pkts = s]
         IN  g \in FlowRec /\ g # None /\ Agree(g, o + 1, t, [r EXCEPT !.window = @ + 1])
<1> DEFINE h == f.hw + 1
           g == [f EXCEPT !.hw = h, !.snoop_pkts = s]
           e == [r EXCEPT !.window = r.window + 1]
<1>1. f \in FlowRec /\ FlowSound(f)
  BY DEF Agree, FlowSound
<1>2. /\ f.hw \in Counts /\ h \in Counts /\ h \in Nat /\ f.cnt_base \in Counts /\ f.cnt_base <= f.hw
      /\ f.cnt_rate_prev \in Counts /\ f.cnt_rate_prev <= f.hw /\ r.window \in Nat
  BY <1>1 DEF FlowSound, Period
<1> HIDE DEF h
<1>3. g \in FlowRec
  BY <1>1, <1>2 DEF FlowRec
<1>4. /\ g.started /\ g.hw = h /\ g.cnt_base = f.cnt_base /\ g.cnt_rate = f.cnt_rate /\ g.timers = f.timers
      /\ g.cnt_rate_prev = f.cnt_rate_prev /\ g.cnt_burst_prev = f.cnt_burst_prev /\ g.qual = f.qual
  BY <1>1 DEF FlowRec
<1>5. e.window = r.window + 1 /\ e.last = r.last
  BY DEF Period
<1> HIDE DEF g, e
<1>6. FlowSound(g) /\ g # None
  BY <1>1, <1>2, <1>3, <1>4 DEF FlowSound, h
<1>7. o + 1 = Reading(g) + t
  <2>1. Reading(f) = f.hw - f.cnt_base /\ o = Reading(f) + t
    BY <1>1, ReadingIs DEF Agree
  <2>2. Reading(g) = g.hw - g.cnt_base
    BY <1>4, <1>6, ReadingIs
  <2> QED BY <1>2, <1>4, <2>1, <2>2 DEF h
<1>8. e.last = g.cnt_rate /\ ("rate" \in g.timers => e.window = g.hw - g.cnt_rate_prev)
  BY <1>2, <1>4, <1>5 DEF Agree, h
<1>9. Agree(g, o + 1, t, e)
  BY <1>6, <1>7, <1>8 DEF Agree
<1> QED BY <1>3, <1>6, <1>9 DEF g, h, e

LEMMA PacketInv ==
  ASSUME ConsoleInv, NEW p \in Ports, NEW S \in SUBSET Running, NEW size \in {"short", "long"}, Packet(p, S, size)
  PROVE  ConsoleInv'
<1> DEFINE more(r) == [r EXCEPT !.window = @ + 1]
<1>1. \A r \in Period : more(r) \in Period
  BY DEF Period
<1>2. S \subseteq Flows /\ UNCHANGED <<ticking, call, hung, torn>>
  BY DEF Running, Existing, Packet
<1>3. /\ owed' \in [Keys -> Int] /\ recent' \in [Keys -> Period]
      /\ \A i \in Keys : owed'[i] = (IF i \in S \cup {p} THEN owed[i] + 1 ELSE owed[i])
                      /\ recent'[i] = (IF i \in S \cup {p} THEN more(recent[i]) ELSE recent[i])
  <2>1. owed' = [i \in Keys |-> IF i \in S \cup {p} THEN owed[i] + 1 ELSE owed[i]]
    BY DEF Packet
  <2>2. recent' = [i \in Keys |-> IF i \in S \cup {p} THEN more(recent[i]) ELSE recent[i]]
    BY DEF Packet
  <2> HIDE DEF more
  <2> QED BY <1>1, <2>1, <2>2, InvFacts
<1>4. \A i \in Keys : owed[i] \in Int /\ recent[i] \in Period /\ InText[i] \in Nat
  BY InvFacts, TextIsCounts
<1>5. ASSUME NEW i \in Flows
      PROVE  /\ db_flow'[i] \in FlowRec \cup {None} /\ Exists(i)' = Exists(i)
             /\ Agree(db_flow'[i], owed'[i], InText[i], recent'[i])
  <2> DEFINE f == db_flow[i]
             s == IF f.snooping /\ f.snoop_pkts = <<>> THEN <<size>> ELSE f.snoop_pkts
             g == [f EXCEPT !.hw = @ + 1, !.snoop_pkts = s]
  <2>1. Agree(f, owed[i], InText[i], recent[i]) /\ f \in FlowRec \cup {None} /\ i \in Keys /\ i # p
    BY FlowIsNoPort DEF ConsoleInv
  <2>2. CASE i \notin S
    <3>1. db_flow'[i] = f
      BY <2>2 DEF Packet
    <3>2. owed'[i] = owed[i] /\ recent'[i] = recent[i]
      BY <1>3, <2>1, <2>2
    <3> QED BY <2>1, <3>1, <3>2 DEF Exists
  <2>3. CASE i \in S
    <3>1. f # None /\ f.started /\ f \in FlowRec /\ f.hw < MaxPkts
      BY <2>1, <2>3 DEF Running, Existing, Exists, Packet
    <3>2. s \in Seq({"short", "long"})
      <4>1. f.snoop_pkts \in Seq({"short", "long"})
        BY <3>1 DEF FlowRec
      <4>2. <<size>> \in Seq({"short", "long"})
        OBVIOUS
      <4> QED BY <4>1, <4>2
    <3>3. db_flow'[i] = g
      BY <2>3 DEF Packet
    <3>4. owed'[i] = owed[i] + 1 /\ recent'[i] = more(recent[i])
      BY <1>3, <2>1, <2>3
    <3> HIDE DEF s
    <3>5. g \in FlowRec /\ g # None /\ Agree(g, owed[i] + 1, InText[i], more(recent[i]))
      BY <1>4, <2>1, <3>1, <3>2, PacketFlow
    <3> HIDE DEF g, more
    <3> QED BY <3>1, <3>3, <3>4, <3>5 DEF Exists
  <2> QED BY <2>2, <2>3
<1>6. CallAgrees' /\ InText' = InText
  BY <1>2, <1>5, CallKept
<1>7. ASSUME NEW k \in Ports PROVE PortAgrees(port'[k], owed'[k], InText'[k], recent'[k], torn'[k])
  <2>1. PortAgrees(port[k], owed[k], InText[k], recent[k], torn[k]) /\ k \in Keys /\ k \notin S
    BY <1>2, PortIsNoFlow DEF ConsoleInv
  <2>2. CASE k = p
    <3>1. port'[k] = [port[k] EXCEPT !.hw = @ + 1] /\ port[k].hw < MaxPkts
      BY <2>2 DEF Packet, ConsoleInv
    <3>2. PortAgrees([port[k] EXCEPT !.hw = @ + 1], owed[k] + 1, InText[k], more(recent[k]), torn[k])
      BY <1>4, <2>1, <3>1, PacketPort
    <3>3. owed'[k] = owed[k] + 1 /\ recent'[k] = more(recent[k])
      BY <1>3, <2>1, <2>2
    <3> HIDE DEF more
    <3> QED BY <1>2, <1>6, <3>1, <3>2, <3>3
  <2>3. CASE k # p
    <3>1. port'[k] = port[k]
      BY <2>3 DEF Packet, ConsoleInv
    <3>2. owed'[k] = owed[k] /\ recent'[k] = recent[k]
      BY <1>3, <2>1, <2>3
    <3> QED BY <1>2, <1>6, <2>1, <3>1, <3>2
  <2> QED BY <2>2, <2>3
<1>8. port' \in [Ports -> PortRec]
  <2>1. \A k \in Ports : port'[k] \in PortRec
    BY <1>7 DEF PortAgrees
  <2>2. port' = [k \in Ports |-> port'[k]]
    BY DEF Packet, ConsoleInv
  <2> QED BY <2>1, <2>2
<1>9. db_flow' \in [Flows -> FlowRec \cup {None}]
  BY <1>5 DEF Packet
<1>10. torn' \in [Ports -> SUBSET {"count", "window", "rate"}] /\ {hung', ticking'} \subseteq BOOLEAN
  BY <1>2 DEF ConsoleInv
<1> QED BY <1>3, <1>5, <1>6, <1>7, <1>8, <1>9, <1>10 DEF ConsoleInv

\* qual_merge keeps one rule for a field.
LEMMA MergeIsQual ==
  ASSUME NEW q \in Qual, NEW d \in Qual, \A r, s \in q.rules : r[1] = s[1] => r = s,
         \A r, s \in d.rules : r[1] = s[1] => r = s
  PROVE  /\ qual_merge(q, d) \in Qual
         /\ \A r, s \in qual_merge(q, d).rules : r[1] = s[1] => r = s
<1> DEFINE kept == {r \in q.rules : r[1] \notin {s[1] : s \in d.rules}}
           new == {s \in d.rules : s[2] # "any"}
<1>1. qual_merge(q, d).rules = kept \cup new /\ qual_merge(q, d).in_ports = (q.in_ports \/ d.in_ports)
  BY DEF qual_merge
<1>2. kept \subseteq q.rules /\ new \subseteq d.rules
  OBVIOUS
<1>3. qual_merge(q, d) \in Qual
  BY <1>2 DEF qual_merge, Qual
<1>4. \A r \in kept, s \in new : r[1] # s[1]
  OBVIOUS
<1> HIDE DEF kept, new
<1> QED BY <1>1, <1>2, <1>3, <1>4

LEMMA MergeInv ==
  ASSUME ConsoleInv, NEW i \in Flows, NEW incr \in Qual, \A r, s \in incr.rules : r[1] = s[1] => r = s,
         Merge(i, incr)
  PROVE  ConsoleInv'
<1> DEFINE q == qual_merge(db_flow[i].qual, incr)
<1>1. FlowSound(db_flow[i]) /\ db_flow[i] \in FlowRec
  BY InvFacts DEF Merge
<1>2. q \in Qual /\ \A r, s \in q.rules : r[1] = s[1] => r = s
  BY <1>1, MergeIsQual DEF FlowSound, FlowRec
<1> HIDE DEF q
<1>3. call' = [op |-> "set", flow |-> i, qual |-> q] /\ UNCHANGED <<db_flow, device, hung, history>>
      /\ call = None /\ Exists(i)
  BY DEF Merge, Ready, q
<1>4. call' \in Call /\ CallAgrees'
  BY <1>2, <1>3 DEF Call, CallAgrees, Exists
<1>5. InText' = InText
  BY <1>3 DEF InText, Nothing
<1> QED BY <1>3, <1>4, <1>5 DEF ConsoleInv, device, history

LEMMA MergeEndInv == ASSUME ConsoleInv, MergeEnd PROVE ConsoleInv'
<1> DEFINE i == call.flow
           f == db_flow[i]
           g == [f EXCEPT !.qual = call.qual]
<1>1. call \in Call /\ call.op = "set" /\ Exists(i) /\ \A r, s \in call.qual.rules : r[1] = s[1] => r = s
  BY DEF MergeEnd, ConsoleInv, CallAgrees
<1>2. i \in Flows /\ call.qual \in Qual
  BY <1>1 DEF Call
<1>3. f \in FlowRec /\ FlowSound(f) /\ Agree(f, owed[i], InText[i], recent[i])
  BY <1>1, <1>2, InvFacts DEF ConsoleInv
<1>4. g \in FlowRec
  BY <1>2, <1>3 DEF FlowRec
<1>5. /\ g.started = f.started /\ g.hw = f.hw /\ g.cnt_base = f.cnt_base /\ g.cnt_rate = f.cnt_rate
      /\ g.cnt_rate_prev = f.cnt_rate_prev /\ g.cnt_burst_prev = f.cnt_burst_prev
      /\ g.qual = call.qual /\ g.timers = f.timers /\ g.pair = f.pair /\ g.link = f.link
      /\ g.snooping = f.snooping /\ g.lm = f.lm
  BY <1>2, <1>3 DEF FlowRec
<1>6. db_flow' = [db_flow EXCEPT ![i] = g] /\ call' = None /\ UNCHANGED <<port, ticking, hung, owed, recent, torn>>
  BY DEF MergeEnd, Becomes, device, history
<1> HIDE DEF g
<1>7. Agree(g, owed[i], InText[i], recent[i])
  BY <1>1, <1>3, <1>4, <1>5, SameCounts DEF Exists, FlowSound
<1>8. InText' = InText /\ CallAgrees'
  BY <1>1, <1>6 DEF InText, CallAgrees, Nothing
<1>9. \A k \in Flows : Agree(db_flow'[k], owed[k], InText[k], recent[k])
  BY <1>2, <1>6, <1>7 DEF ConsoleInv
<1>10. db_flow' \in [Flows -> FlowRec \cup {None}]
  BY <1>2, <1>4, <1>6 DEF ConsoleInv
<1> QED BY <1>6, <1>8, <1>9, <1>10 DEF ConsoleInv

\* First chooses a flow or port of the set.
LEMMA FirstIsIn == ASSUME NEW T \in SUBSET Keys, T # {} PROVE First(T) \in T
<1> DEFINE N == {i[2] : i \in T}
<1>1. N \subseteq Nat /\ N # {}
  BY DEF Keys, Flows, Tx, Rx, Trx, Ports
<1>2. PICK x \in N : \A y \in N : x <= y
  BY <1>1, NatMin
<1>3. \E i \in T : \A k \in T : i[2] <= k[2]
  BY <1>2
<1> QED BY <1>3 DEF First

\* A port is read: what it tells is no longer owed, or now in the text.
LEMMA PortCleared ==
  ASSUME NEW q, NEW o, NEW r, NEW c, PortAgrees(q, o, 0, r, c)
  PROVE  LET m == Minus(q.hw, q.base)
         IN  /\ m \in Nat
             /\ PortAgrees([q EXCEPT !.base = q.hw], IF "count" \in c THEN m ELSE o, m, r, c \ {"count"})
<1> DEFINE m == Minus(q.hw, q.base)
           u == [q EXCEPT !.base = q.hw]
<1>1. q \in PortRec /\ q.hw \in Counts /\ q.base \in Counts
  BY DEF PortAgrees, PortRec
<1>2. m \in Nat /\ (q.base <= q.hw => m = q.hw - q.base)
  BY <1>1 DEF Minus
<1>3. u \in PortRec /\ u.hw = q.hw /\ u.base = q.hw /\ u.prev = q.prev /\ u.rate = q.rate
  BY <1>1 DEF PortRec
<1> HIDE DEF m, u
<1>4. PortAgrees(u, IF "count" \in c THEN m ELSE o, m, r, c \ {"count"})
  BY <1>1, <1>2, <1>3 DEF PortAgrees
<1> QED BY <1>2, <1>4 DEF m, u

\* What a reading leaves: every flow and port agrees with what is owed of it and in
\* the text now.
LEMMA ReadLeaves ==
  ASSUME ConsoleInv, NEW i \in Keys, i \in Flows => Exists(i), NEW clear \in BOOLEAN, InText[i] = 0,
         IF clear THEN Clears(i) ELSE UNCHANGED <<db_flow, port, torn>>
  PROVE  LET now == IF clear THEN [InText EXCEPT ![i] = Told(i)] ELSE InText
             kept == IF clear /\ Forgiven(i) THEN [owed EXCEPT ![i] = Told(i)] ELSE owed
         IN  /\ now \in [Keys -> Nat] /\ \A k \in Keys \ {i} : now[k] = InText[k]
             /\ kept \in [Keys -> Int]
             /\ db_flow' \in [Flows -> FlowRec \cup {None}] /\ \A k \in Flows : Exists(k)' = Exists(k)
             /\ port' \in [Ports -> PortRec] /\ torn' \in [Ports -> SUBSET {"count", "window", "rate"}]
             /\ \A k \in Flows : Agree(db_flow'[k], kept[k], now[k], recent[k])
             /\ \A p \in Ports : PortAgrees(port'[p], kept[p], now[p], recent[p], torn'[p])
<1> DEFINE now == IF clear THEN [InText EXCEPT ![i] = Told(i)] ELSE InText
           kept == IF clear /\ Forgiven(i) THEN [owed EXCEPT ![i] = Told(i)] ELSE owed
<1>1. InText \in [Keys -> Nat] /\ owed \in [Keys -> Int]
  BY TextIsCounts DEF ConsoleInv
<1>2. CASE ~clear
  <2>1. now = InText /\ kept = owed /\ UNCHANGED <<db_flow, port, torn>>
    BY <1>2
  <2> QED BY <1>1, <2>1 DEF ConsoleInv, Exists
<1>3. CASE clear /\ i \in Flows
  <2> DEFINE f == db_flow[i]
  <2>1. i \notin Ports /\ f # None /\ Agree(f, owed[i], 0, recent[i]) /\ Told(i) = Given(f)
        /\ (Forgiven(i) <=> ~f.started)
    BY <1>3, FlowIsNoPort DEF Exists, ConsoleInv, Told, Forgiven
  <2>2. /\ Cleared(f) # None /\ Given(f) \in Counts
        /\ Agree(Cleared(f), IF f.started THEN owed[i] ELSE Given(f), Given(f), recent[i])
    BY <2>1, ClearedAgrees
  <2>3. Becomes(i, Cleared(f)) /\ UNCHANGED <<port, torn>>
    BY <1>3, <2>1 DEF Clears
  <2>4. Cleared(f) \in FlowRec
    BY <2>2 DEF Agree, FlowSound
  <2>5. /\ db_flow' \in [Flows -> FlowRec \cup {None}]
        /\ db_flow'[i] = Cleared(f) /\ \A k \in Flows \ {i} : db_flow'[k] = db_flow[k]
    BY <1>3, <2>3, <2>4 DEF Becomes, ConsoleInv
  <2>6. \A k \in Flows : Exists(k)' = Exists(k)
    BY <2>1, <2>2, <2>5 DEF Exists
  <2>7. /\ now \in [Keys -> Nat] /\ now[i] = Given(f) /\ \A k \in Keys \ {i} : now[k] = InText[k]
        /\ kept \in [Keys -> Int] /\ kept[i] = (IF f.started THEN owed[i] ELSE Given(f))
        /\ \A k \in Keys \ {i} : kept[k] = owed[k]
    <3>1. Given(f) \in Nat
      BY <2>2
    <3>2. now = [InText EXCEPT ![i] = Given(f)]
      BY <1>3, <2>1
    <3>3. kept = IF f.started THEN owed ELSE [owed EXCEPT ![i] = Given(f)]
      BY <1>3, <2>1
    <3> HIDE DEF now, kept, f
    <3> QED BY <1>1, <3>1, <3>2, <3>3
  <2> HIDE DEF now, kept
  <2>8. \A k \in Flows : Agree(db_flow'[k], kept[k], now[k], recent[k])
    BY <2>2, <2>5, <2>7, FlowIsNoPort DEF ConsoleInv
  <2>9. \A p \in Ports : PortAgrees(port'[p], kept[p], now[p], recent[p], torn'[p])
    BY <2>1, <2>3, <2>7, PortIsNoFlow DEF ConsoleInv
  <2>10. port' \in [Ports -> PortRec] /\ torn' \in [Ports -> SUBSET {"count", "window", "rate"}]
    BY <2>3 DEF ConsoleInv
  <2> QED BY <2>5, <2>6, <2>7, <2>8, <2>9, <2>10 DEF now, kept
<1>4. CASE clear /\ i \in Ports
  <2> DEFINE q == port[i]
             m == Minus(q.hw, q.base)
             u == [q EXCEPT !.base = q.hw]
             c == torn[i] \ {"count"}
  <2>1. PortAgrees(q, owed[i], 0, recent[i], torn[i]) /\ Told(i) = m /\ (Forgiven(i) <=> "count" \in torn[i])
    BY <1>4 DEF ConsoleInv, Told, Forgiven
  <2>2. m \in Nat /\ PortAgrees(u, IF "count" \in torn[i] THEN m ELSE owed[i], m, recent[i], c)
    BY <2>1, PortCleared
  <2>3. /\ port' = [port EXCEPT ![i] = u] /\ torn' = [torn EXCEPT ![i] = c] /\ UNCHANGED db_flow
        /\ u \in PortRec /\ c \in SUBSET {"count", "window", "rate"}
    BY <1>4, <2>2 DEF Clears, ConsoleInv, PortAgrees
  <2>4. /\ now \in [Keys -> Nat] /\ now[i] = m /\ \A k \in Keys \ {i} : now[k] = InText[k]
        /\ kept \in [Keys -> Int] /\ kept[i] = (IF "count" \in torn[i] THEN m ELSE owed[i])
        /\ \A k \in Keys \ {i} : kept[k] = owed[k]
    <3>1. now = [InText EXCEPT ![i] = m]
      BY <1>4, <2>1
    <3>2. kept = IF "count" \in torn[i] THEN [owed EXCEPT ![i] = m] ELSE owed
      BY <1>4, <2>1
    <3> HIDE DEF now, kept, m
    <3> QED BY <1>1, <2>2, <3>1, <3>2
  <2> HIDE DEF now, kept, u, c, m, q
  <2>5. /\ port' \in [Ports -> PortRec] /\ torn' \in [Ports -> SUBSET {"count", "window", "rate"}]
        /\ port'[i] = u /\ torn'[i] = c /\ \A k \in Ports \ {i} : port'[k] = port[k] /\ torn'[k] = torn[k]
    BY <1>4, <2>3 DEF ConsoleInv
  <2>6. \A k \in Flows : Agree(db_flow'[k], kept[k], now[k], recent[k])
    BY <1>4, <2>3, <2>4, FlowIsNoPort DEF ConsoleInv
  <2>7. \A p \in Ports : PortAgrees(port'[p], kept[p], now[p], recent[p], torn'[p])
    BY <2>2, <2>4, <2>5, PortIsNoFlow DEF ConsoleInv
  <2> QED BY <2>3, <2>4, <2>5, <2>6, <2>7 DEF ConsoleInv, Exists, now, kept
<1> QED BY <1>2, <1>3, <1>4 DEF Keys

\* A text that is printed, or dropped: its counts are owed no more.
LEMMA TextEnds ==
  ASSUME NEW f, NEW q, NEW o \in Int, NEW t \in Nat, NEW r, NEW c
  PROVE  /\ Agree(f, o, t, r) => Agree(f, o - t, 0, r)
         /\ PortAgrees(q, o, t, r, c) => PortAgrees(q, o - t, 0, r, c)
<1>1. ASSUME Agree(f, o, t, r) PROVE Agree(f, o - t, 0, r)
  <2>1. f # None => Reading(f) \in Int
    BY <1>1, ReadingIs DEF Agree
  <2> QED BY <1>1, <2>1 DEF Agree
<1>2. ASSUME PortAgrees(q, o, t, r, c) PROVE PortAgrees(q, o - t, 0, r, c)
  <2>1. q.hw \in Int /\ q.base \in Int
    BY <1>2 DEF PortAgrees, PortRec
  <2> QED BY <1>2, <2>1 DEF PortAgrees
<1> QED BY <1>1, <1>2

\* The next flow or port is read: it is cleared, and the text says so.
LEMMA ReadOneInv ==
  ASSUME ConsoleInv, NEW todo \in SUBSET Keys, todo # {}, todo \cap Flows \subseteq Existing(Flows),
         NEW clear \in BOOLEAN, NEW cleared, \A i \in todo : cleared[i] = 0,
         cleared = InText, ReadOne(todo, clear, cleared)
  PROVE  ConsoleInv'
<1> DEFINE i == First(todo)
           now == IF clear THEN [InText EXCEPT ![i] = Told(i)] ELSE InText
           kept == IF clear /\ Forgiven(i) THEN [owed EXCEPT ![i] = Told(i)] ELSE owed
<1>1. i \in todo /\ i \in Keys /\ (i \in Flows => Exists(i)) /\ InText[i] = 0
  BY FirstIsIn DEF Existing
<1>2. /\ IF clear THEN Clears(i) ELSE UNCHANGED <<db_flow, port, torn>>
      /\ call' = IF todo = {i} THEN None ELSE [op |-> "cnt", todo |-> todo \ {i}, clear |-> clear, cleared |-> now]
      /\ owed' = IF todo = {i} THEN Less(kept, now) ELSE kept
      /\ UNCHANGED <<ticking, hung, recent>>
  BY DEF ReadOne
<1> HIDE DEF i
<1>3. /\ now \in [Keys -> Nat] /\ \A k \in Keys \ {i} : now[k] = InText[k]
      /\ kept \in [Keys -> Int]
      /\ db_flow' \in [Flows -> FlowRec \cup {None}] /\ \A k \in Flows : Exists(k)' = Exists(k)
      /\ port' \in [Ports -> PortRec] /\ torn' \in [Ports -> SUBSET {"count", "window", "rate"}]
      /\ \A k \in Flows : Agree(db_flow'[k], kept[k], now[k], recent[k])
      /\ \A p \in Ports : PortAgrees(port'[p], kept[p], now[p], recent[p], torn'[p])
  BY <1>1, <1>2, ReadLeaves
<1> HIDE DEF now, kept
<1>4. recent' \in [Keys -> Period] /\ {hung', ticking'} \subseteq BOOLEAN
  BY <1>2 DEF ConsoleInv
<1>5. CASE todo = {i}
  <2>1. call' = None /\ owed' = Less(kept, now)
    BY <1>2, <1>5
  <2>2. owed' \in [Keys -> Int] /\ \A k \in Keys : owed'[k] = kept[k] - now[k]
    BY <1>3, <2>1 DEF Less
  <2>3. CallAgrees' /\ \A k \in Keys : InText'[k] = 0
    BY <2>1 DEF CallAgrees, InText, Nothing
  <2>4. \A k \in Keys : kept[k] \in Int /\ now[k] \in Nat
    BY <1>3
  <2>5. \A k \in Flows : Agree(db_flow'[k], owed'[k], InText'[k], recent'[k])
    <3> TAKE k \in Flows
    <3>1. /\ Agree(db_flow'[k], kept[k], now[k], recent[k])
          /\ owed'[k] = kept[k] - now[k] /\ InText'[k] = 0 /\ recent'[k] = recent[k]
          /\ kept[k] \in Int /\ now[k] \in Nat
      BY <1>2, <1>3, <2>2, <2>3, <2>4, FlowIsNoPort
    <3> QED BY <3>1, TextEnds
  <2>6. \A p \in Ports : PortAgrees(port'[p], owed'[p], InText'[p], recent'[p], torn'[p])
    <3> TAKE p \in Ports
    <3>1. /\ PortAgrees(port'[p], kept[p], now[p], recent[p], torn'[p])
          /\ owed'[p] = kept[p] - now[p] /\ InText'[p] = 0 /\ recent'[p] = recent[p]
          /\ kept[p] \in Int /\ now[p] \in Nat
      BY <1>2, <1>3, <2>2, <2>3, <2>4, PortIsNoFlow
    <3> QED BY <3>1, TextEnds
  <2> QED BY <1>3, <1>4, <2>2, <2>3, <2>5, <2>6 DEF ConsoleInv
<1>6. CASE todo # {i}
  <2>1. call' = [op |-> "cnt", todo |-> todo \ {i}, clear |-> clear, cleared |-> now] /\ owed' = kept
    BY <1>2, <1>6
  <2>2. call' \in Call
    BY <1>3, <2>1 DEF Call
  <2>3. /\ todo \ {i} # {} /\ (todo \ {i}) \cap Flows \subseteq Existing(Flows)'
        /\ \A k \in todo \ {i} : now[k] = 0
    BY <1>1, <1>3, <1>6 DEF Existing
  <2>4. CallAgrees'
    BY <2>1, <2>2, <2>3 DEF CallAgrees
  <2>5. InText' = now
    BY <2>1, <2>2 DEF InText
  <2> QED BY <1>2, <1>3, <1>4, <2>1, <2>4, <2>5 DEF ConsoleInv
<1> QED BY <1>5, <1>6

LEMMA CntInv ==
  ASSUME ConsoleInv, NEW S \in SUBSET Keys, S \cap Flows \subseteq Existing(Flows), NEW clear \in BOOLEAN, Cnt(S, clear)
  PROVE  ConsoleInv'
<1>1. InText = Nothing
  BY DEF Cnt, Ready, InText
<1>2. PICK todo \in {{i} : i \in S} \cup ({S} \ {{}}) : ReadOne(todo, clear, Nothing)
  BY DEF Cnt
<1>3. todo # {} /\ todo \subseteq S
  OBVIOUS
<1>4. todo \in SUBSET Keys /\ todo \cap Flows \subseteq Existing(Flows)
  BY <1>3
<1>5. \A i \in Keys : Nothing[i] = 0
  BY DEF Nothing
<1> QED BY <1>1, <1>2, <1>3, <1>4, <1>5, ReadOneInv

LEMMA CntNextInv == ASSUME ConsoleInv, CntNext PROVE ConsoleInv'
<1>1. call \in Call /\ call.op = "cnt" /\ call.todo # {} /\ call.todo \cap Flows \subseteq Existing(Flows)
      /\ (\A i \in call.todo : call.cleared[i] = 0) /\ InText = call.cleared
  BY DEF CntNext, ConsoleInv, CallAgrees, InText
<1>2. call.todo \in SUBSET Keys /\ call.clear \in BOOLEAN
  BY <1>1 DEF Call
<1> QED BY <1>1, <1>2, ReadOneInv DEF CntNext

LEMMA CntFailsInv == ASSUME ConsoleInv, CntFails PROVE ConsoleInv'
<1>1. InText \in [Keys -> Nat] /\ UNCHANGED <<db_flow, port, ticking, hung, recent, torn>>
  BY TextIsCounts DEF CntFails, device
<1>2. owed' \in [Keys -> Int] /\ \A k \in Keys : owed'[k] = owed[k] - InText[k]
  BY <1>1, InvFacts DEF CntFails, Less
<1>3. call' = None /\ CallAgrees' /\ \A k \in Keys : InText'[k] = 0
  BY DEF CntFails, CallAgrees, InText, Nothing
<1>4. \A k \in Keys : owed[k] \in Int /\ InText[k] \in Nat
  BY <1>1, InvFacts
<1>5. \A k \in Flows : Agree(db_flow'[k], owed'[k], InText'[k], recent'[k])
  <2> TAKE k \in Flows
  <2>1. /\ Agree(db_flow'[k], owed[k], InText[k], recent'[k])
        /\ owed'[k] = owed[k] - InText[k] /\ InText'[k] = 0
        /\ owed[k] \in Int /\ InText[k] \in Nat
    BY <1>1, <1>2, <1>3, <1>4, FlowIsNoPort DEF ConsoleInv
  <2> QED BY <2>1, TextEnds
<1>6. \A p \in Ports : PortAgrees(port'[p], owed'[p], InText'[p], recent'[p], torn'[p])
  <2> TAKE p \in Ports
  <2>1. /\ PortAgrees(port'[p], owed[p], InText[p], recent'[p], torn'[p])
        /\ owed'[p] = owed[p] - InText[p] /\ InText'[p] = 0
        /\ owed[p] \in Int /\ InText[p] \in Nat
    BY <1>1, <1>2, <1>3, <1>4, PortIsNoFlow DEF ConsoleInv
  <2> QED BY <2>1, TextEnds
<1> QED BY <1>1, <1>2, <1>3, <1>5, <1>6 DEF ConsoleInv
-----------------------------------------------------------------------------
(* The invariant, and what follows from it.                                *)

LEMMA FlowNames ==
  /\ \A n \in TxNames : <<"tx", n>> \in Flows
  /\ \A n \in RxNames : <<"rx", n>> \in Flows
  /\ \A n \in TrxNames : <<"trx", n>> \in Flows
  BY DEF Flows, Tx, Rx, Trx

LEMMA Increments ==
  /\ InPorts \in Qual /\ \A r, s \in InPorts.rules : r[1] = s[1] => r = s
  /\ \A field \in {"udf", "pdf"}, value \in {"value", "any"} :
       Rule(field, value) \in Qual /\ \A r, s \in Rule(field, value).rules : r[1] = s[1] => r = s
  BY DEF InPorts, Rule, Qual

LEMMA TxCallInv == ASSUME ConsoleInv, TxCall PROVE ConsoleInv'
<1>1. ASSUME NEW n \in TxNames,
             \/ tx_flow_create(n) \/ tx_flow_destroy(n) \/ \E burst \in BOOLEAN : tx_flow_set_rate(n, burst)
             \/ tx_flow_set_port(n) \/ tx_flow_set_pkt(n) \/ tx_flow_start(n) \/ tx_flow_stop(n)
      PROVE  ConsoleInv'
  <2> DEFINE i == <<"tx", n>>
  <2>1. i \in Flows
    BY FlowNames
  <2>2. Create(i) \/ Destroy(i) \/ (\E burst \in BOOLEAN : SetRate(i, burst)) \/ Set(i, "port") \/ Set(i, "pkt")
        \/ Start(i) \/ Stop(i)
    BY <1>1 DEF tx_flow_create, tx_flow_destroy, tx_flow_set_rate, tx_flow_set_port, tx_flow_set_pkt,
                tx_flow_start, tx_flow_stop
  <2> HIDE DEF i
  <2> QED BY <2>1, <2>2, CreateInv, DestroyInv, SetRateInv, SetInv, StartInv, StopInv
<1>2. ASSUME NEW clear \in BOOLEAN, tx_flow_cnt(clear) PROVE ConsoleInv'
  BY <1>2, CntInv DEF tx_flow_cnt, Existing, Flows, Keys
<1> QED BY <1>1, <1>2 DEF TxCall

LEMMA RxCallInv == ASSUME ConsoleInv, RxCall PROVE ConsoleInv'
<1>1. ASSUME NEW n \in RxNames,
             \/ rx_flow_create(n) \/ rx_flow_destroy(n) \/ rx_flow_start(n) \/ rx_flow_stop(n) \/ rx_flow_dump(n)
             \/ \E on \in BOOLEAN : rx_flow_snoop(n, on)
      PROVE  ConsoleInv'
  <2> DEFINE i == <<"rx", n>>
  <2>1. i \in Flows
    BY FlowNames
  <2>2. Create(i) \/ Destroy(i) \/ Start(i) \/ Stop(i) \/ Dump(i) \/ \E on \in BOOLEAN : Snoop(i, on)
    BY <1>1 DEF rx_flow_create, rx_flow_destroy, rx_flow_start, rx_flow_stop, rx_flow_dump, rx_flow_snoop
  <2> HIDE DEF i
  <2> QED BY <2>1, <2>2, CreateInv, DestroyInv, StartInv, StopInv, DumpInv, SnoopInv
<1>2. ASSUME NEW n \in RxNames,
             \/ rx_flow_set_port(n) \/ rx_flow_set_udf(n) \/ rx_flow_set_udf_prefix(n)
             \/ rx_flow_set_pdf(n) \/ rx_flow_set_pdf_prefix(n)
      PROVE  ConsoleInv'
  <2> DEFINE i == <<"rx", n>>
  <2>1. i \in Flows
    BY FlowNames
  <2>2. Merge(i, InPorts) \/ \E field \in {"udf", "pdf"}, value \in {"value", "any"} : Merge(i, Rule(field, value))
    BY <1>2 DEF rx_flow_set_port, rx_flow_set_udf, rx_flow_set_udf_prefix, rx_flow_set_pdf, rx_flow_set_pdf_prefix
  <2> HIDE DEF i
  <2>3. CASE Merge(i, InPorts)
    BY <2>1, <2>3, Increments, MergeInv
  <2>4. ASSUME NEW field \in {"udf", "pdf"}, NEW value \in {"value", "any"}, Merge(i, Rule(field, value))
        PROVE  ConsoleInv'
    BY <2>1, <2>4, Increments, MergeInv
  <2> QED BY <2>2, <2>3, <2>4
<1>3. ASSUME NEW clear \in BOOLEAN, rx_flow_cnt(clear) PROVE ConsoleInv'
  BY <1>3, CntInv DEF rx_flow_cnt, Existing, Flows, Keys
<1> QED BY <1>1, <1>2, <1>3 DEF RxCall

LEMMA TrxCallInv == ASSUME ConsoleInv, TrxCall PROVE ConsoleInv'
<1>1. ASSUME NEW n \in TrxNames,
             \/ trx_flow_create(n) \/ trx_flow_destroy(n)
             \/ trx_flow_set_tx_port(n) \/ trx_flow_set_tx_rate(n) \/ trx_flow_set_tx_pkt(n)
             \/ trx_flow_set_rx_port(n) \/ trx_flow_set_rx_offset(n)
             \/ trx_flow_start(n) \/ trx_flow_stop(n) \/ trx_flow_dump(n)
             \/ trx_flow_latency_start(n) \/ trx_flow_latency_stop(n)
             \/ \E on \in BOOLEAN : trx_flow_snoop(n, on)
      PROVE  ConsoleInv'
  <2> DEFINE i == <<"trx", n>>
  <2>1. i \in Flows
    BY FlowNames
  <2>2. \/ Create(i) \/ Destroy(i) \/ SetRate(i, FALSE)
        \/ \E what \in {"port", "pkt", "rx_port", "rx_offset"} : Set(i, what)
        \/ Start(i) \/ Stop(i) \/ Dump(i) \/ LatencyStart(i) \/ LatencyStop(i)
        \/ \E on \in BOOLEAN : Snoop(i, on)
    BY <1>1 DEF trx_flow_create, trx_flow_destroy, trx_flow_set_tx_port, trx_flow_set_tx_rate,
                trx_flow_set_tx_pkt, trx_flow_set_rx_port, trx_flow_set_rx_offset, trx_flow_start,
                trx_flow_stop, trx_flow_dump, trx_flow_latency_start, trx_flow_latency_stop, trx_flow_snoop
  <2> HIDE DEF i
  <2> QED BY <2>1, <2>2, CreateInv, DestroyInv, SetRateInv, SetInv, StartInv, StopInv, DumpInv, LatencyInv, SnoopInv
<1>2. ASSUME NEW clear \in BOOLEAN, trx_flow_cnt(clear) PROVE ConsoleInv'
  BY <1>2, CntInv DEF trx_flow_cnt, Existing, Flows, Keys
<1> QED BY <1>1, <1>2 DEF TrxCall

LEMMA BetweenInv == ASSUME ConsoleInv, Between PROVE ConsoleInv'
<1>1. CASE CntNext \/ CntFails \/ MergeEnd \/ PortTimer
  BY <1>1, CntNextInv, CntFailsInv, MergeEndInv, PortTimerInv
<1>2. ASSUME NEW i \in Running, RateTimer(i) \/ AutoStop(i) PROVE ConsoleInv'
  BY <1>2, RateTimerInv, AutoStopInv
<1>3. ASSUME NEW p \in Ports, LinkDown(p) PROVE ConsoleInv'
  BY <1>3, LinkDownInv
<1>4. ASSUME NEW p \in Ports, NEW S \in SUBSET Running, NEW size \in {"short", "long"}, Packet(p, S, size)
      PROVE  ConsoleInv'
  BY <1>4, PacketInv
<1> QED BY <1>1, <1>2, <1>3, <1>4 DEF Between

LEMMA PortCallInv == ASSUME ConsoleInv, PortCall PROVE ConsoleInv'
<1>1. ASSUME NEW clear \in BOOLEAN, port_cnt(clear) PROVE ConsoleInv'
  <2>1. Ports \in SUBSET Keys /\ Ports \cap Flows = {}
    BY PortIsNoFlow
  <2> QED BY <1>1, <2>1, CntInv DEF port_cnt
<1>2. ASSUME NEW p \in Ports, port_set_itf(p) PROVE ConsoleInv'
  BY <1>2, PortSetItfInv
<1> QED BY <1>1, <1>2 DEF PortCall

LEMMA StutterInv == ASSUME ConsoleInv, UNCHANGED vars PROVE ConsoleInv'
<1>1. CallAgrees' /\ InText' = InText
  BY CallKept DEF vars, Exists
<1> QED BY <1>1 DEF vars, device, history, ConsoleInv

\* Every flow, every port and the function at work agree with what is owed of them
\* after any number of calls, packets, timers, link changes and failures.
THEOREM ConsoleInvariant == Spec => []ConsoleInv
<1>1. ASSUME ConsoleInv, Next PROVE ConsoleInv'
  BY <1>1, TxCallInv, RxCallInv, TrxCallInv, PortCallInv, BetweenInv DEF Next
<1> QED BY <1>1, InitInv, StutterInv, PTL DEF Spec

\* Counters and rates stay in their range, whatever starts, stops, changes and fails.
THEOREM Console_TypeOK == Spec => []TypeOK
<1>1. ConsoleInv => TypeOK
  <2> SUFFICES ASSUME ConsoleInv PROVE TypeOK
    OBVIOUS
  <2>1. \A i \in Existing(Flows) : FlowSound(db_flow[i])
    BY InvFacts DEF Existing
  <2>2. \A p \in Ports : {port[p].hw, port[p].base, port[p].prev} \subseteq Counts /\ port[p].rate \in 0..MaxWord
    BY DEF ConsoleInv, PortRec
  <2> QED BY <2>1, <2>2 DEF TypeOK, FlowSound, ConsoleInv
<1> QED BY <1>1, ConsoleInvariant, PTL

\* No packet a flow or a port counted is lost or said twice, over any number of
\* flows, ports, packets, calls and failures, but for the count of a port whose change
\* threw half way, which is right again once it has been cleared.
THEOREM Console_CountsAddUp == Spec => []CountsAddUp
<1>1. ConsoleInv => CountsAddUp
  <2> SUFFICES ASSUME ConsoleInv PROVE CountsAddUp
    OBVIOUS
  <2>1. \A i \in Existing(Flows) : owed[i] = Reading(db_flow[i]) + InText[i]
    BY DEF ConsoleInv, Agree, Existing, Exists
  <2>2. ASSUME NEW p \in Ports, "count" \notin torn[p]
        PROVE  owed[p] = Minus(port[p].hw, port[p].base) + InText[p]
    <3>1. PortAgrees(port[p], owed[p], InText[p], recent[p], torn[p])
      BY DEF ConsoleInv
    <3> QED BY <2>2, <3>1 DEF PortAgrees, Minus
  <2> QED BY <2>1, <2>2 DEF CountsAddUp
<1> QED BY <1>1, ConsoleInvariant, PTL

\* The rate of a flow is of the last period of the run it is read in; that of a port is
\* of the last period of the timer, and never compares two interfaces' counters unless
\* the change of the interface threw half way.
THEOREM Console_RatesAreRecent == Spec => []RatesAreRecent
<1>1. ConsoleInv => RatesAreRecent
  <2> SUFFICES ASSUME ConsoleInv PROVE RatesAreRecent
    OBVIOUS
  <2>1. ASSUME NEW i \in Existing(Flows) PROVE db_flow[i].cnt_rate = recent[i].last
    <3>1. Agree(db_flow[i], owed[i], InText[i], recent[i]) /\ db_flow[i] # None
      BY DEF ConsoleInv, Existing, Exists
    <3> QED BY <3>1 DEF Agree
  <2>2. ASSUME NEW p \in Ports, "rate" \notin torn[p] PROVE port[p].rate = recent[p].last
    <3>1. PortAgrees(port[p], owed[p], InText[p], recent[p], torn[p])
      BY DEF ConsoleInv
    <3> QED BY <2>2, <3>1 DEF PortAgrees
  <2> QED BY <2>1, <2>2 DEF RatesAreRecent
<1> QED BY <1>1, ConsoleInvariant, PTL
=============================================================================
