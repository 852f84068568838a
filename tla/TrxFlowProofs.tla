---------------------------- MODULE TrxFlowProofs ----------------------------
(***************************************************************************)
(* Proofs for TrxFlow, with any number of flows, tracks, queues and        *)
(* packets: its handlers are functions of a state, and each keeps a Sound  *)
(* state sound.                                                            *)
(***************************************************************************)
EXTENDS TrxFlowProperties, NatLemmas

USE TrxAssumption
-----------------------------------------------------------------------------
(* The record of one flow.                                                 *)

LEMMA NewRec ==
  ASSUME NEW f, NEW o \in Offsets
  PROVE  New(o) \in FlowRec /\ Coherent(New(o)) /\ OwnTimes(f, New(o))
<1>1. New(o) \in FlowRec
  BY DEF New, FlowRec
<1> QED BY <1>1 DEF New, Coherent, OwnTimes

LEMMA NoLmRec ==
  ASSUME NEW f, NEW m \in FlowRec, Coherent(m)
  PROVE  /\ NoLm(m) \in FlowRec /\ Coherent(NoLm(m)) /\ OwnTimes(f, NoLm(m))
         /\ NoLm(m).trx = m.trx /\ NoLm(m).track = m.track /\ NoLm(m).cosq = m.cosq /\ NoLm(m).cells = m.cells
         /\ NoLm(m).snooping = m.snooping /\ NoLm(m).snoop_q = m.snoop_q /\ NoLm(m).pkt = m.pkt
         /\ ~NoLm(m).lm /\ NoLm(m).vid = None /\ NoLm(m).lm_q = None
<1> DEFINE g == NoLm(m)
<1>1. g \in FlowRec
  BY DEF NoLm, FlowRec
<1>2. /\ g.trx = m.trx /\ g.track = m.track /\ g.cosq = m.cosq /\ g.cells = m.cells /\ g.pkt = m.pkt
      /\ g.snooping = m.snooping /\ g.snoop_q = m.snoop_q
      /\ ~g.lm /\ g.vid = None /\ g.lm_q = None /\ ~g.timer /\ g.tx_time = None /\ g.rx_time = None
  BY DEF NoLm, FlowRec
<1> HIDE DEF g
<1>3. Coherent(g) /\ OwnTimes(f, g)
  BY <1>2 DEF Coherent, OwnTimes
<1> QED BY <1>1, <1>2, <1>3 DEF g

LEMMA NoSnoopRec ==
  ASSUME NEW f, NEW m \in FlowRec, Coherent(m), OwnTimes(f, m)
  PROVE  /\ NoSnoop(m) \in FlowRec /\ Coherent(NoSnoop(m)) /\ OwnTimes(f, NoSnoop(m))
         /\ NoSnoop(m).trx = m.trx /\ NoSnoop(m).track = m.track /\ NoSnoop(m).cosq = m.cosq
         /\ NoSnoop(m).cells = m.cells /\ NoSnoop(m).pkt = m.pkt
         /\ NoSnoop(m).lm = m.lm /\ NoSnoop(m).vid = m.vid /\ NoSnoop(m).lm_q = m.lm_q
         /\ ~NoSnoop(m).snooping /\ NoSnoop(m).snoop_q = None
<1> DEFINE g == NoSnoop(m)
<1>1. g \in FlowRec
  BY DEF NoSnoop, FlowRec
<1>2. /\ g.trx = m.trx /\ g.track = m.track /\ g.cosq = m.cosq /\ g.cells = m.cells /\ g.pkt = m.pkt
      /\ ~g.snooping /\ g.snoop_q = None /\ g.timer = m.timer
      /\ g.lm = m.lm /\ g.vid = m.vid /\ g.lm_q = m.lm_q /\ g.tx_time = m.tx_time /\ g.rx_time = m.rx_time
  BY DEF NoSnoop, FlowRec
<1> HIDE DEF g
<1>3. Coherent(g) /\ OwnTimes(f, g)
  BY <1>2 DEF Coherent, OwnTimes
<1> QED BY <1>1, <1>2, <1>3 DEF g

LEMMA NoTrxRec ==
  ASSUME NEW f, NEW m \in FlowRec, Coherent(m), OwnTimes(f, m), ~m.lm, ~m.snooping
  PROVE  /\ NoTrx(m) \in FlowRec /\ Coherent(NoTrx(m)) /\ OwnTimes(f, NoTrx(m))
         /\ ~NoTrx(m).trx /\ NoTrx(m).track = None /\ NoTrx(m).cosq = None /\ NoTrx(m).pkt = m.pkt
         /\ NoTrx(m).lm = m.lm /\ NoTrx(m).vid = m.vid /\ NoTrx(m).lm_q = m.lm_q
         /\ NoTrx(m).snooping = m.snooping /\ NoTrx(m).snoop_q = None
<1> DEFINE g == NoTrx(m)
<1>1. g \in FlowRec
  BY DEF NoTrx, FlowRec
<1>2. /\ ~g.trx /\ g.track = None /\ g.cosq = None /\ g.pkt = m.pkt
      /\ g.snooping = m.snooping /\ g.snoop_q = None /\ g.timer = m.timer
      /\ g.lm = m.lm /\ g.vid = m.vid /\ g.lm_q = m.lm_q /\ g.tx_time = m.tx_time /\ g.rx_time = m.rx_time
  BY DEF NoTrx, FlowRec
<1> HIDE DEF g
<1>3. Coherent(g) /\ OwnTimes(f, g)
  BY <1>2 DEF Coherent, OwnTimes
<1> QED BY <1>1, <1>2, <1>3 DEF g
-----------------------------------------------------------------------------
(* What changes of a state keep it sound.                                  *)

LEMMA CopyHasTrack == ASSUME NEW w \in Copies PROVE w.track \in Tracks /\ w.track # None
  BY DEF Copies

\* A flow that gains nothing others could have, and measures on or not as before.
Gains(g, m) ==
  \/ g.track \notin {m.track, None} \/ g.cosq \notin {m.cosq, None}
  \/ g.lm_q \notin {m.lm_q, None} \/ g.snoop_q \notin {m.snoop_q, None}
  \/ g.lm # m.lm \/ g.vid # m.vid \/ (m.lm /\ g.cosq # m.cosq)

LEMMA KeepsSound ==
  ASSUME NEW s, NEW fl, Sound(s, fl), NEW f \in Flows, NEW g \in FlowRec, NEW n \in Nat,
         Coherent(g), OwnTimes(f, g), ~Gains(g, s.flow[f])
  PROVE  Sound([s EXCEPT !.flow[f] = g, !.free = n], fl)
<1> DEFINE t == [s EXCEPT !.flow[f] = g, !.free = n]
<1>1. s \in StateRec /\ fl \subseteq Copies
  BY DEF Sound
<1>2. t \in StateRec /\ t.vids = s.vids /\ t.db = s.db /\ t.flow = [s.flow EXCEPT ![f] = g]
  BY <1>1 DEF StateRec
<1> HIDE DEF t
<1>3. t.flow[f] = g /\ \A h \in Flows \ {f} : t.flow[h] = s.flow[h]
  BY <1>1, <1>2 DEF StateRec
<1>4. \A h \in Flows : Coherent(t.flow[h]) /\ OwnTimes(h, t.flow[h])
  BY <1>3 DEF Sound
<1>5. Owners(t)
  <2>1. Owners(s)
    BY DEF Sound
  <2> QED BY SMTT(40), <1>3, <2>1 DEF Owners, Apart, Gains
<1>6. Observers(t)
  <2>1. Observers(s)
    BY DEF Sound
  <2>2. \A h \in Flows, c \in Cosqs, v \in Vids :
          (t.flow[h].lm /\ t.flow[h].cosq = c /\ t.flow[h].vid = v) <=> (s.flow[h].lm /\ s.flow[h].cosq = c /\ s.flow[h].vid = v)
    BY <1>3 DEF Gains
  <2>3. ASSUME NEW c \in Cosqs, NEW v \in Vids
        PROVE  /\ t.db[<<c, v>>] = None <=> v \in Range(t.vids[c])
               /\ \A h \in Flows : t.db[<<c, v>>] = h <=> t.flow[h].lm /\ t.flow[h].cosq = c /\ t.flow[h].vid = v
    <3>1. /\ s.db[<<c, v>>] = None <=> v \in Range(s.vids[c])
          /\ \A h \in Flows : s.db[<<c, v>>] = h <=> s.flow[h].lm /\ s.flow[h].cosq = c /\ s.flow[h].vid = v
      BY <2>1 DEF Observers
    <3> QED BY <1>2, <2>2, <3>1
  <2> QED BY <2>3 DEF Observers
<1>7. OwnTracks(t, fl)
  <2>1. OwnTracks(s, fl)
    BY DEF Sound
  <2> SUFFICES ASSUME NEW w \in fl, NEW h \in Flows, t.flow[h].track = w.track PROVE w.by = h
    BY DEF OwnTracks
  <2>2. CASE h # f
    BY <1>3, <2>1, <2>2 DEF OwnTracks
  <2>3. CASE h = f /\ g.track # None
    BY <1>3, <2>1, <2>3 DEF OwnTracks, Gains
  <2>4. w.track # None
    BY <1>1, CopyHasTrack
  <2> QED BY <1>3, <2>2, <2>3, <2>4
<1>8. \A c \in Cosqs : Distinct(t.vids[c])
  BY <1>2 DEF Sound
<1> QED BY <1>1, <1>2, <1>4, <1>5, <1>6, <1>7, <1>8 DEF Sound, t

\* Giving a latency VLAN back to the queue of free ones.
LEMMA AppendRange ==
  ASSUME NEW q \in Seq(Vids), NEW v \in Vids, Distinct(q)
  PROVE  Range(Append(q, v)) = Range(q) \cup {v} /\ (v \notin Range(q) => Distinct(Append(q, v)))
<1> DEFINE r == Append(q, v)
           n == Len(q)
<1>1. n \in Nat /\ DOMAIN q = 1..n /\ DOMAIN r = 1..(n + 1) /\ r[n + 1] = v /\ \A i \in 1..n : r[i] = q[i]
  OBVIOUS
<1> HIDE DEF r, n
<1>2. Range(r) = Range(q) \cup {v}
  <2>1. \A x \in Range(r) : x \in Range(q) \cup {v}
    BY <1>1 DEF Range
  <2>2. \A x \in Range(q) : x \in Range(r)
    BY <1>1 DEF Range
  <2>3. v \in Range(r)
    BY <1>1 DEF Range
  <2> QED BY <2>1, <2>2, <2>3
<1>3. ASSUME v \notin Range(q) PROVE Distinct(r)
  <2>1. \A i \in 1..n : q[i] # v
    BY <1>1, <1>3 DEF Range
  <2> SUFFICES ASSUME NEW i \in 1..(n + 1), NEW j \in 1..(n + 1), r[i] = r[j] PROVE i = j
    BY <1>1 DEF Distinct
  <2>2. CASE i \in 1..n /\ j \in 1..n
    BY <1>1, <2>2 DEF Distinct
  <2>3. CASE i = n + 1 \/ j = n + 1
    BY <1>1, <2>1, <2>3
  <2> QED BY <1>1, <2>2, <2>3
<1> QED BY <1>2, <1>3 DEF r

\* Taking the first one.
LEMMA TailRange ==
  ASSUME NEW q \in Seq(Vids), q # <<>>, Distinct(q)
  PROVE  /\ Head(q) \in Vids /\ Tail(q) \in Seq(Vids) /\ Distinct(Tail(q))
         /\ Range(Tail(q)) = Range(q) \ {Head(q)} /\ Head(q) \in Range(q)
<1> DEFINE r == Tail(q)
           n == Len(q)
<1>1. /\ n \in Nat \ {0} /\ DOMAIN q = 1..n /\ r \in Seq(Vids) /\ DOMAIN r = 1..(n - 1) /\ Head(q) = q[1]
      /\ \A i \in 1..(n - 1) : r[i] = q[i + 1]
  OBVIOUS
<1>2. q[1] \in Vids
  BY <1>1
<1> HIDE DEF r, n
<1>3. Distinct(r)
  <2> SUFFICES ASSUME NEW i \in 1..(n - 1), NEW j \in 1..(n - 1), r[i] = r[j] PROVE i = j
    BY <1>1 DEF Distinct
  <2>1. i + 1 \in 1..n /\ j + 1 \in 1..n /\ q[i + 1] = q[j + 1]
    BY <1>1
  <2>2. i + 1 = j + 1
    BY <1>1, <2>1 DEF Distinct
  <2> QED BY <2>2
<1>4. ASSUME NEW x PROVE x \in Range(r) <=> x \in Range(q) /\ x # q[1]
  <2>1. ASSUME x \in Range(r) PROVE x \in Range(q) /\ x # q[1]
    <3>1. PICK i \in 1..(n - 1) : x = r[i]
      BY <1>1, <2>1 DEF Range
    <3>2. i + 1 \in 1..n /\ 1 \in 1..n /\ i + 1 # 1 /\ x = q[i + 1]
      BY <1>1, <3>1
    <3> QED BY <1>1, <3>2 DEF Range, Distinct
  <2>2. ASSUME x \in Range(q), x # q[1] PROVE x \in Range(r)
    <3>1. PICK i \in 1..n : x = q[i]
      BY <1>1, <2>2 DEF Range
    <3>2. i - 1 \in 1..(n - 1) /\ r[i - 1] = q[i]
      BY <1>1, <2>2, <3>1
    <3> QED BY <1>1, <3>1, <3>2 DEF Range
  <2> QED BY <2>1, <2>2
<1>5. q[1] \in Range(q)
  BY <1>1 DEF Range
<1> QED BY <1>1, <1>2, <1>3, <1>4, <1>5 DEF r

LEMMA LmStoppedSound ==
  ASSUME NEW s, NEW fl, Sound(s, fl), NEW f \in Flows
  PROVE  LET t == LmStopped(s, f)
             m == s.flow[f]
             g == t.flow[f]
         IN  /\ Sound(t, fl) /\ ~g.lm
             /\ g.trx = m.trx /\ g.track = m.track /\ g.cosq = m.cosq /\ g.cells = m.cells /\ g.pkt = m.pkt
             /\ g.snooping = m.snooping /\ g.snoop_q = m.snoop_q
<1> DEFINE m == s.flow[f]
           c == m.cosq
           v == m.vid
           g == NoLm(m)
           n == s.free + m.lm_cells
           q == Append(s.vids[c], v)
           t == [s EXCEPT !.flow[f] = g, !.free = n, !.vids[c] = q, !.db[<<c, v>>] = None]
<1>1. s \in StateRec /\ m \in FlowRec /\ Coherent(m) /\ fl \subseteq Copies
  BY DEF Sound, StateRec
<1>2. CASE ~m.lm
  BY <1>2 DEF LmStopped
<1>3. CASE m.lm
  <2>1. LmStopped(s, f) = t
    BY <1>3 DEF LmStopped
  <2>2. c \in Cosqs /\ v \in Vids /\ v # None /\ c # None
    BY <1>1, <1>3 DEF Coherent, FlowRec
  <2>3. n \in Nat /\ q \in Seq(Vids)
    BY <1>1, <2>2 DEF StateRec, FlowRec
  <2>4. /\ g \in FlowRec /\ Coherent(g) /\ OwnTimes(f, g)
        /\ g.trx = m.trx /\ g.track = m.track /\ g.cosq = m.cosq /\ g.cells = m.cells
        /\ g.snooping = m.snooping /\ g.snoop_q = m.snoop_q /\ g.pkt = m.pkt
        /\ ~g.lm /\ g.vid = None /\ g.lm_q = None
    BY <1>1, NoLmRec
  <2>5. Range(q) = Range(s.vids[c]) \cup {v} /\ (v \notin Range(s.vids[c]) => Distinct(q))
    <3>1. s.vids[c] \in Seq(Vids) /\ Distinct(s.vids[c])
      BY <1>1, <2>2 DEF Sound, StateRec
    <3> QED BY <2>2, <3>1, AppendRange
  <2> HIDE DEF g, n, q, m
  <2>6. /\ t \in StateRec
        /\ t.flow[f] = g /\ \A h \in Flows \ {f} : t.flow[h] = s.flow[h]
        /\ t.vids[c] = q /\ \A d \in Cosqs \ {c} : t.vids[d] = s.vids[d]
        /\ t.db[<<c, v>>] = None /\ \A p \in (Cosqs \X Vids) \ {<<c, v>>} : t.db[p] = s.db[p]
    BY <1>1, <2>2, <2>3, <2>4 DEF StateRec
  <2> HIDE DEF t, c, v
  <2>7. s.db[<<c, v>>] = f
    BY <1>3, <2>2 DEF Sound, Observers, c, v, m
  <2>8. \A d \in Cosqs : Distinct(t.vids[d])
    <3>1. v \notin Range(s.vids[c])
      BY <2>2, <2>7 DEF Sound, Observers
    <3> QED BY <2>5, <2>6, <3>1 DEF Sound
  <2>9. Owners(t)
    BY <2>4, <2>6 DEF Sound, Owners, Apart, m
  <2>10. OwnTracks(t, fl)
    BY <2>4, <2>6 DEF Sound, OwnTracks, m
  <2>11. Observers(t)
    <3> SUFFICES ASSUME NEW d \in Cosqs, NEW u \in Vids
        PROVE  /\ t.db[<<d, u>>] = None <=> u \in Range(t.vids[d])
               /\ \A h \in Flows : t.db[<<d, u>>] = h <=> t.flow[h].lm /\ t.flow[h].cosq = d /\ t.flow[h].vid = u
      BY DEF Observers
    <3>1. /\ s.db[<<d, u>>] = None <=> u \in Range(s.vids[d])
          /\ \A h \in Flows : s.db[<<d, u>>] = h <=> s.flow[h].lm /\ s.flow[h].cosq = d /\ s.flow[h].vid = u
      BY DEF Sound, Observers
    <3>2. CASE d = c /\ u = v
      <4>1. \A h \in Flows \ {f} : ~(s.flow[h].lm /\ s.flow[h].cosq = d /\ s.flow[h].vid = u)
        BY <2>7, <3>1, <3>2
      <4> QED BY <2>4, <2>5, <2>6, <3>2, <4>1
    <3>3. CASE d # c \/ u # v
      <4>1. t.db[<<d, u>>] = s.db[<<d, u>>]
        BY <2>6, <3>3
      <4>2. u \in Range(t.vids[d]) <=> u \in Range(s.vids[d])
        BY <2>5, <2>6, <3>3
      <4>3. s.db[<<d, u>>] # f
        BY <3>1, <3>3 DEF c, v, m
      <4> QED BY <2>4, <2>6, <3>1, <4>1, <4>2, <4>3
    <3> QED BY <3>2, <3>3
  <2>12. \A h \in Flows : Coherent(t.flow[h]) /\ OwnTimes(h, t.flow[h])
    BY <2>4, <2>6 DEF Sound
  <2>13. Sound(t, fl)
    BY <1>1, <2>6, <2>8, <2>9, <2>10, <2>11, <2>12 DEF Sound
  <2> QED BY <2>1, <2>4, <2>6, <2>13 DEF m
<1> QED BY <1>2, <1>3

LEMMA SnoopStoppedSound ==
  ASSUME NEW s, NEW fl, Sound(s, fl), NEW f \in Flows
  PROVE  LET m == s.flow[f]
             g == SnoopStopped(s, f).flow[f]
         IN  /\ Sound(SnoopStopped(s, f), fl) /\ ~g.snooping /\ g.lm = m.lm /\ g.trx = m.trx
             /\ g.pkt = m.pkt /\ g.cells = m.cells
<1> DEFINE m == s.flow[f]
           g == NoSnoop(m)
<1>1. s \in StateRec /\ m \in FlowRec /\ Coherent(m) /\ OwnTimes(f, m)
  BY DEF Sound, StateRec
<1>2. /\ g \in FlowRec /\ Coherent(g) /\ OwnTimes(f, g) /\ g.trx = m.trx /\ g.track = m.track /\ g.cosq = m.cosq
      /\ g.cells = m.cells /\ g.pkt = m.pkt /\ g.lm = m.lm /\ g.vid = m.vid /\ g.lm_q = m.lm_q
      /\ ~g.snooping /\ g.snoop_q = None
  BY <1>1, NoSnoopRec
<1>3. ~Gains(g, m)
  BY <1>2 DEF Gains
<1>7. CASE ~m.snooping
  BY <1>7 DEF SnoopStopped
<1>8. SUFFICES ASSUME m.snooping
               PROVE  /\ Sound(SnoopStopped(s, f), fl)
                      /\ LET h == SnoopStopped(s, f).flow[f]
                         IN  ~h.snooping /\ h.lm = m.lm /\ h.trx = m.trx /\ h.pkt = m.pkt /\ h.cells = m.cells
  BY <1>7
<1> DEFINE n == s.free
<1>4. SnoopStopped(s, f) = [s EXCEPT !.flow[f] = g, !.free = n] /\ n \in Nat
  BY <1>1, <1>8 DEF SnoopStopped, StateRec
<1> HIDE DEF n, g, m
<1>5. Sound(SnoopStopped(s, f), fl)
  <2>1. ~Gains(g, s.flow[f])
    BY <1>3 DEF m
  <2>2. Sound([s EXCEPT !.flow[f] = g, !.free = n], fl)
    BY <1>2, <1>4, <2>1, KeepsSound
  <2> QED BY <1>4, <2>2
<1>6. SnoopStopped(s, f).flow[f] = g
  BY <1>1, <1>4 DEF StateRec
<1> QED BY <1>2, <1>5, <1>6 DEF m

LEMMA TrxStoppedSound ==
  ASSUME NEW s, NEW fl, Sound(s, fl), NEW f \in Flows
  PROVE  LET t == TrxStopped(s, f)
         IN  Sound(t, fl) /\ ~t.flow[f].trx /\ t.flow[f].pkt = s.flow[f].pkt
<1> DEFINE m == s.flow[f]
           l == LmStopped(s, f)
           u == SnoopStopped(l, f)
           g == NoTrx(u.flow[f])
           n == u.free + m.cells
<1>1. CASE ~m.trx
  BY <1>1 DEF TrxStopped
<1>2. CASE m.trx
  <2>1. s \in StateRec /\ m \in FlowRec
    BY DEF Sound, StateRec
  <2>2. Sound(l, fl) /\ ~l.flow[f].lm /\ l.flow[f].pkt = m.pkt
    BY LmStoppedSound
  <2>3. Sound(u, fl) /\ ~u.flow[f].snooping /\ ~u.flow[f].lm /\ u.flow[f].pkt = m.pkt
    <3> HIDE DEF l, u, m
    <3>1. Sound(SnoopStopped(l, f), fl) /\ ~SnoopStopped(l, f).flow[f].snooping
          /\ SnoopStopped(l, f).flow[f].lm = l.flow[f].lm /\ SnoopStopped(l, f).flow[f].pkt = l.flow[f].pkt
      BY <2>2, SnoopStoppedSound
    <3> QED BY <2>2, <3>1 DEF u
  <2>4. TrxStopped(s, f) = [u EXCEPT !.flow[f] = g, !.free = n]
    BY <1>2 DEF TrxStopped
  <2> HIDE DEF l, u
  <2>5. u \in StateRec /\ u.flow[f] \in FlowRec /\ Coherent(u.flow[f]) /\ OwnTimes(f, u.flow[f])
    BY <2>3 DEF Sound, StateRec
  <2>6. /\ g \in FlowRec /\ Coherent(g) /\ OwnTimes(f, g) /\ ~g.trx /\ g.track = None /\ g.cosq = None
        /\ g.lm = u.flow[f].lm /\ g.vid = u.flow[f].vid /\ g.lm_q = u.flow[f].lm_q
        /\ g.snoop_q = None /\ g.pkt = m.pkt
    BY <2>3, <2>5, NoTrxRec
  <2>7. n \in Nat
    BY <2>1, <2>5 DEF StateRec, FlowRec
  <2>8. ~Gains(g, u.flow[f])
    BY <2>3, <2>6 DEF Gains
  <2> HIDE DEF g, n, m
  <2>9. Sound([u EXCEPT !.flow[f] = g, !.free = n], fl)
    BY <2>3, <2>6, <2>7, <2>8, KeepsSound
  <2>10. [u EXCEPT !.flow[f] = g, !.free = n].flow[f] = g
    BY <2>5 DEF StateRec
  <2> QED BY <2>4, <2>6, <2>9, <2>10 DEF m
<1> QED BY <1>1, <1>2

\* A stopped flow gets a queue and a track no other flow has, and no packet
\* under way carries.
LEMMA StartedSound ==
  ASSUME NEW s, NEW fl, Sound(s, fl), NEW f \in Flows, ~s.flow[f].trx, s.flow[f].pkt # None,
         LineRate * s.flow[f].pkt.cells <= s.free,
         NEW cosq \in Free(s, Cosqs, "cosq"),
         NEW track \in Tracks, track \notin Held(s, "track"), \A w \in fl : w.track # track
  PROVE  Sound(Started(s, f, cosq, track), fl)
<1> DEFINE m == s.flow[f]
           k == LineRate * m.pkt.cells
           g == [m EXCEPT !.trx = TRUE, !.cosq = cosq, !.cells = k, !.track = track]
           n == s.free - k
           t == [s EXCEPT !.free = n, !.flow[f] = g]
<1>1. s \in StateRec /\ m \in FlowRec /\ Coherent(m) /\ OwnTimes(f, m) /\ fl \subseteq Copies /\ s.free \in Nat
  BY DEF Sound, StateRec
<1>2. m.pkt.cells \in Nat
  BY <1>1 DEF FlowRec, Pkt
<1>3. k \in Nat /\ n \in Nat
  BY <1>1, <1>2 DEF LineRate
<1>4. Started(s, f, cosq, track) = t
  BY DEF Started
<1>5. cosq \in Cosqs /\ cosq # None /\ track # None
      /\ \A h \in Flows : s.flow[h].cosq # cosq /\ s.flow[h].track # track
  BY DEF Free, Held
<1> HIDE DEF k, n, m
<1>6. g \in FlowRec
  BY <1>1, <1>3, <1>5 DEF FlowRec
<1>7. /\ g.trx /\ g.cosq = cosq /\ g.track = track /\ g.pkt = m.pkt /\ g.snooping = m.snooping
      /\ g.snoop_q = m.snoop_q /\ g.lm = m.lm /\ g.vid = m.vid /\ g.lm_q = m.lm_q /\ g.timer = m.timer
      /\ g.tx_time = m.tx_time /\ g.rx_time = m.rx_time
  BY <1>1 DEF FlowRec
<1> HIDE DEF g
<1>8. t \in StateRec /\ t.vids = s.vids /\ t.db = s.db
      /\ t.flow[f] = g /\ \A h \in Flows \ {f} : t.flow[h] = s.flow[h]
  BY <1>1, <1>3, <1>6 DEF StateRec
<1> HIDE DEF t
<1>9. Coherent(g) /\ ~m.lm /\ OwnTimes(f, g)
  BY <1>1, <1>5, <1>7 DEF Coherent, OwnTimes, m
<1>10. \A h \in Flows : Coherent(t.flow[h]) /\ OwnTimes(h, t.flow[h])
  BY <1>8, <1>9 DEF Sound
<1>11. Owners(t)
  BY <1>5, <1>7, <1>8 DEF Sound, Owners, Apart, m
<1>12. OwnTracks(t, fl)
  BY <1>5, <1>7, <1>8 DEF Sound, OwnTracks
<1>13. Observers(t)
  <2> SUFFICES ASSUME NEW d \in Cosqs, NEW u \in Vids
      PROVE  /\ t.db[<<d, u>>] = None <=> u \in Range(t.vids[d])
             /\ \A h \in Flows : t.db[<<d, u>>] = h <=> t.flow[h].lm /\ t.flow[h].cosq = d /\ t.flow[h].vid = u
    BY DEF Observers
  <2>1. /\ s.db[<<d, u>>] = None <=> u \in Range(s.vids[d])
        /\ \A h \in Flows : s.db[<<d, u>>] = h <=> s.flow[h].lm /\ s.flow[h].cosq = d /\ s.flow[h].vid = u
    BY DEF Sound, Observers
  <2>2. \A h \in Flows : (t.flow[h].lm /\ t.flow[h].cosq = d /\ t.flow[h].vid = u)
                         <=> (s.flow[h].lm /\ s.flow[h].cosq = d /\ s.flow[h].vid = u)
    BY <1>7, <1>8, <1>9 DEF m
  <2> QED BY <1>8, <2>1, <2>2
<1>14. \A c \in Cosqs : Distinct(t.vids[c])
  BY <1>8 DEF Sound
<1> QED BY <1>1, <1>4, <1>8, <1>10, <1>11, <1>12, <1>13, <1>14 DEF Sound

\* The lowest free CPU queue is one of the free ones.
LEMMA MinIsIn == ASSUME NEW Q \in SUBSET Queues, Q # {} PROVE Min(Q) \in Q
<1>1. \E x \in Q : \A y \in Q : x <= y
  BY NatMin
<1> QED BY <1>1 DEF Min

\* A flow that measures gets a CPU queue, and the first VLAN of its queue.
LEMMA MeasuringSound ==
  ASSUME NEW s, NEW fl, Sound(s, fl), NEW f \in Flows, s.flow[f].trx, ~s.flow[f].lm,
         CpuQueues(s) # {}, s.vids[s.flow[f].cosq] # <<>>
  PROVE  Sound(Measuring(s, f), fl)
<1> DEFINE m == s.flow[f]
           c == m.cosq
           v == Head(s.vids[c])
           q == Tail(s.vids[c])
           cpu == Min(CpuQueues(s))
           g == [m EXCEPT !.lm = TRUE, !.vid = v, !.lm_q = cpu, !.lm_filter = m.rx_offset, !.timer = TRUE]
           t == [s EXCEPT !.flow[f] = g, !.vids[c] = q, !.db[<<c, v>>] = f]
<1>1. s \in StateRec /\ m \in FlowRec /\ Coherent(m) /\ OwnTimes(f, m) /\ fl \subseteq Copies
  BY DEF Sound, StateRec
<1>2. c \in Cosqs /\ c # None
  BY <1>1 DEF Coherent, FlowRec
<1>3. /\ v \in Vids /\ v # None /\ q \in Seq(Vids) /\ Distinct(q)
      /\ Range(q) = Range(s.vids[c]) \ {v} /\ v \in Range(s.vids[c])
  <2>1. s.vids[c] \in Seq(Vids) /\ Distinct(s.vids[c])
    BY <1>1, <1>2 DEF Sound, StateRec
  <2> QED BY <2>1, TailRange
<1>4. cpu \in Queues /\ cpu # None /\ \A h \in Flows : s.flow[h].lm_q # cpu /\ s.flow[h].snoop_q # cpu
  <2>1. CpuQueues(s) \in SUBSET Queues
    BY DEF CpuQueues
  <2>2. cpu \in CpuQueues(s)
    BY <2>1, MinIsIn
  <2> HIDE DEF cpu
  <2>3. cpu \in Queues /\ cpu # None
    BY <2>2 DEF CpuQueues
  <2> QED BY <2>2, <2>3 DEF CpuQueues, Held
<1>5. Measuring(s, f) = t
  BY DEF Measuring
<1> HIDE DEF v, q, cpu, m
<1>6. g \in FlowRec
  BY <1>1, <1>3, <1>4 DEF FlowRec
<1>7. /\ g.lm /\ g.vid = v /\ g.lm_q = cpu /\ g.timer /\ g.trx = m.trx /\ g.cosq = c /\ g.track = m.track
      /\ g.pkt = m.pkt /\ g.snooping = m.snooping /\ g.snoop_q = m.snoop_q
      /\ g.tx_time = m.tx_time /\ g.rx_time = m.rx_time
  BY <1>1 DEF FlowRec
<1> HIDE DEF g
<1>8. /\ t \in StateRec
      /\ t.flow[f] = g /\ \A h \in Flows \ {f} : t.flow[h] = s.flow[h]
      /\ t.vids[c] = q /\ \A d \in Cosqs \ {c} : t.vids[d] = s.vids[d]
      /\ t.db[<<c, v>>] = f /\ \A p \in (Cosqs \X Vids) \ {<<c, v>>} : t.db[p] = s.db[p]
  BY <1>1, <1>2, <1>3, <1>6 DEF StateRec
<1> HIDE DEF t, c
<1>9. Coherent(g) /\ OwnTimes(f, g)
  <2>1. m.trx /\ ~m.lm
    BY DEF m
  <2> QED BY <1>1, <1>2, <1>3, <1>4, <1>7, <2>1 DEF Coherent, OwnTimes
<1>10. \A h \in Flows : Coherent(t.flow[h]) /\ OwnTimes(h, t.flow[h])
  BY <1>8, <1>9 DEF Sound
<1>11. Owners(t)
  BY <1>4, <1>7, <1>8 DEF Sound, Owners, Apart, m, c
<1>12. OwnTracks(t, fl)
  BY <1>7, <1>8 DEF Sound, OwnTracks, m
<1>13. Observers(t)
  <2> SUFFICES ASSUME NEW d \in Cosqs, NEW u \in Vids
      PROVE  /\ t.db[<<d, u>>] = None <=> u \in Range(t.vids[d])
             /\ \A h \in Flows : t.db[<<d, u>>] = h <=> t.flow[h].lm /\ t.flow[h].cosq = d /\ t.flow[h].vid = u
    BY DEF Observers
  <2>1. /\ s.db[<<d, u>>] = None <=> u \in Range(s.vids[d])
        /\ \A h \in Flows : s.db[<<d, u>>] = h <=> s.flow[h].lm /\ s.flow[h].cosq = d /\ s.flow[h].vid = u
    BY DEF Sound, Observers
  <2>2. CASE d = c /\ u = v
    <3>1. \A h \in Flows : ~(s.flow[h].lm /\ s.flow[h].cosq = d /\ s.flow[h].vid = u)
      BY <1>3, <2>1, <2>2
    <3> QED BY SMTT(40), <1>3, <1>7, <1>8, <2>2, <3>1
  <2>3. CASE d # c \/ u # v
    <3>1. t.db[<<d, u>>] = s.db[<<d, u>>]
      BY <1>8, <2>3
    <3>2. u \in Range(t.vids[d]) <=> u \in Range(s.vids[d])
      BY <1>3, <1>8, <2>3
    <3>3. s.db[<<d, u>>] # f
      BY <2>1 DEF m
    <3> QED BY <1>7, <1>8, <2>1, <2>3, <3>1, <3>2, <3>3
  <2> QED BY <2>2, <2>3
<1>14. \A d \in Cosqs : Distinct(t.vids[d])
  BY <1>3, <1>8 DEF Sound
<1> QED BY <1>1, <1>5, <1>8, <1>10, <1>11, <1>12, <1>13, <1>14 DEF Sound
-----------------------------------------------------------------------------
(* The steps.                                                              *)

\* A handler that passes on a sound state, and packets that stay.
LEMMA BecomesInv == ASSUME TrxInv, NEW s, Sound(s, flying), Becomes(s) PROVE TrxInv'
<1>1. Now' = [flow |-> s.flow, free |-> s.free, vids |-> s.vids, db |-> s.db] /\ UNCHANGED <<flying, aborted>>
  BY DEF Becomes, Now
<1>2. Now' = s
  BY <1>1 DEF Sound, StateRec
<1> QED BY <1>1, <1>2 DEF TrxInv

LEMMA InvFacts ==
  ASSUME TrxInv
  PROVE  /\ \A f \in Flows : flow[f] \in FlowRec /\ Coherent(flow[f]) /\ OwnTimes(f, flow[f])
         /\ flow \in [Flows -> FlowRec] /\ free_cell \in Nat /\ Now \in StateRec
         /\ db_rx \in [Cosqs \X Vids -> Flows \cup {None}] /\ flying \subseteq Copies
  BY DEF TrxInv, Sound, StateRec, Now

LEMMA InitInv == Init => TrxInv
<1> SUFFICES ASSUME Init PROVE TrxInv
  OBVIOUS
<1>1. \A f \in Flows : \E o \in Offsets : flow[f] = New(o)
  BY DEF Init
<1>2. \A f \in Flows : /\ flow[f] \in FlowRec /\ Coherent(flow[f]) /\ OwnTimes(f, flow[f])
                       /\ flow[f].track = None /\ flow[f].cosq = None /\ flow[f].lm_q = None
                       /\ flow[f].snoop_q = None /\ ~flow[f].lm
  <2>1. \A o \in Offsets : New(o).track = None /\ New(o).cosq = None /\ New(o).lm_q = None
                          /\ New(o).snoop_q = None /\ ~New(o).lm
    BY DEF New
  <2> QED BY <1>1, <2>1, NewRec
<1>3. flow \in [Flows -> FlowRec]
  BY <1>2 DEF Init
<1> DEFINE q == [v \in Vids |-> v]
<1>4. q \in Seq(Vids) /\ Distinct(q) /\ Range(q) = Vids
  BY DEF Vids, Distinct, Range
<1>5. Now \in StateRec /\ \A c \in Cosqs : Distinct(Now.vids[c])
  BY <1>3, <1>4 DEF Init, Now, StateRec
<1>6. Owners(Now)
  BY <1>2 DEF Owners, Apart, Now
<1>7. Observers(Now)
  <2>1. \A c \in Cosqs, v \in Vids : db_rx[<<c, v>>] = None /\ v \in Range(vid_free[c])
    BY <1>4 DEF Init
  <2> QED BY <1>2, <2>1 DEF Observers, Now
<1>8. OwnTracks(Now, flying) /\ flying \subseteq Copies /\ aborted \in BOOLEAN
  BY DEF Init, OwnTracks
<1> QED BY <1>2, <1>5, <1>6, <1>7, <1>8 DEF TrxInv, Sound, Now

\* A handler that changes members of a flow, but nothing the flow holds.
LEMMA MemberInv ==
  ASSUME TrxInv, NEW f \in Flows, NEW g \in FlowRec, Becomes([Now EXCEPT !.flow[f] = g]),
         LET m == flow[f]
         IN  /\ g.trx = m.trx /\ g.track = m.track /\ g.cosq = m.cosq /\ g.pkt \in Pkts \cup {m.pkt}
             /\ g.snooping = m.snooping /\ g.snoop_q = m.snoop_q
             /\ g.lm = m.lm /\ g.vid = m.vid /\ g.lm_q = m.lm_q /\ g.timer = m.timer
             /\ g.tx_time = m.tx_time /\ g.rx_time = m.rx_time
  PROVE  TrxInv'
<1> DEFINE m == flow[f]
           s == Now
           n == s.free
<1>1. m \in FlowRec /\ Coherent(m) /\ OwnTimes(f, m) /\ s \in StateRec /\ Sound(s, flying) /\ s.flow[f] = m
  BY InvFacts DEF TrxInv, Now
<1>2. Coherent(g) /\ OwnTimes(f, g) /\ ~Gains(g, m)
  BY <1>1 DEF Coherent, OwnTimes, Gains
<1> HIDE DEF s, m
<1>3. n \in Nat /\ [s EXCEPT !.flow[f] = g] = [s EXCEPT !.flow[f] = g, !.free = n]
  BY <1>1 DEF StateRec
<1> HIDE DEF n
<1>4. Sound([s EXCEPT !.flow[f] = g, !.free = n], flying)
  BY <1>1, <1>2, <1>3, KeepsSound
<1>5. Sound([s EXCEPT !.flow[f] = g], flying)
  BY <1>3, <1>4
<1> QED BY <1>5, BecomesInv DEF s

LEMMA SetTxInv == ASSUME TrxInv, NEW f \in Flows, NEW p \in Pkts, SetTx(f, p) PROVE TrxInv'
<1> DEFINE m == Now.flow[f]
           g == [m EXCEPT !.pkt = p]
<1>1. m \in FlowRec /\ m = flow[f]
  BY InvFacts DEF Now
<1>2. Becomes([Now EXCEPT !.flow[f] = g])
  BY DEF SetTx
<1> HIDE DEF m
<1>3. g \in FlowRec
  BY <1>1 DEF FlowRec
<1>4. /\ g.trx = m.trx /\ g.track = m.track /\ g.cosq = m.cosq /\ g.pkt = p /\ g.snooping = m.snooping
      /\ g.snoop_q = m.snoop_q /\ g.lm = m.lm /\ g.vid = m.vid /\ g.lm_q = m.lm_q /\ g.timer = m.timer
      /\ g.tx_time = m.tx_time /\ g.rx_time = m.rx_time
  BY <1>1 DEF FlowRec
<1> HIDE DEF g
<1> QED BY <1>1, <1>2, <1>3, <1>4, MemberInv

LEMMA SetRxInv == ASSUME TrxInv, NEW f \in Flows, NEW o \in Offsets, SetRx(f, o) PROVE TrxInv'
<1> DEFINE m == Now.flow[f]
           g == [m EXCEPT !.rx_offset = o]
<1>1. m \in FlowRec /\ m = flow[f]
  BY InvFacts DEF Now
<1>2. Becomes([Now EXCEPT !.flow[f] = g])
  BY DEF SetRx
<1> HIDE DEF m
<1>3. g \in FlowRec
  BY <1>1 DEF FlowRec
<1>4. /\ g.trx = m.trx /\ g.track = m.track /\ g.cosq = m.cosq /\ g.pkt = m.pkt /\ g.snooping = m.snooping
      /\ g.snoop_q = m.snoop_q /\ g.lm = m.lm /\ g.vid = m.vid /\ g.lm_q = m.lm_q /\ g.timer = m.timer
      /\ g.tx_time = m.tx_time /\ g.rx_time = m.rx_time
  BY <1>1 DEF FlowRec
<1> HIDE DEF g
<1> QED BY <1>1, <1>2, <1>3, <1>4, MemberInv

LEMMA PublishInv == ASSUME TrxInv, NEW f \in Flows, Publish(f) PROVE TrxInv'
<1> DEFINE m == Now.flow[f]
           b == FALSE
           g == [m EXCEPT !.waiting = b]
<1>1. m \in FlowRec /\ m = flow[f] /\ b \in BOOLEAN
  BY InvFacts DEF Now
<1>2. Becomes([Now EXCEPT !.flow[f] = g])
  BY DEF Publish
<1> HIDE DEF m, b
<1>3. g \in FlowRec
  BY <1>1 DEF FlowRec
<1>4. /\ g.trx = m.trx /\ g.track = m.track /\ g.cosq = m.cosq /\ g.pkt = m.pkt /\ g.snooping = m.snooping
      /\ g.snoop_q = m.snoop_q /\ g.lm = m.lm /\ g.vid = m.vid /\ g.lm_q = m.lm_q /\ g.timer = m.timer
      /\ g.tx_time = m.tx_time /\ g.rx_time = m.rx_time
  BY <1>1 DEF FlowRec
<1> HIDE DEF g
<1> QED BY <1>1, <1>2, <1>3, <1>4, MemberInv

LEMMA StopInv == ASSUME TrxInv, NEW f \in Flows, Stop(f) \/ StartFails(f) PROVE TrxInv'
<1>1. Sound(TrxStopped(Now, f), flying)
  BY TrxStoppedSound DEF TrxInv
<1> QED BY <1>1, BecomesInv DEF Stop, StartFails

LEMMA StopFailsInv == ASSUME TrxInv, NEW f \in Flows, StopFails(f) PROVE TrxInv'
<1> DEFINE u == LmStopped(Now, f)
<1>1. Sound(u, flying)
  BY LmStoppedSound DEF TrxInv
<1> HIDE DEF u
<1>2. Sound(SnoopStopped(u, f), flying)
  BY <1>1, SnoopStoppedSound
<1>3. PICK s \in StopFailures(Now, f) : Becomes(s)
  BY DEF StopFails
<1>4. s = u \/ s = SnoopStopped(u, f)
  BY <1>3 DEF StopFailures, u
<1> QED BY <1>1, <1>2, <1>3, <1>4, BecomesInv

LEMMA DestroyInv == ASSUME TrxInv, NEW f \in Flows, NEW o \in Offsets, Destroy(f, o) PROVE TrxInv'
<1> DEFINE s == TrxStopped(Now, f)
           g == New(o)
           n == s.free
<1>1. Sound(s, flying) /\ ~s.flow[f].trx
  BY TrxStoppedSound DEF TrxInv
<1>2. Becomes([s EXCEPT !.flow[f] = g])
  BY DEF Destroy
<1> HIDE DEF s
<1>3. s \in StateRec /\ s.flow[f] \in FlowRec /\ Coherent(s.flow[f])
  BY <1>1 DEF Sound, StateRec
<1>4. n \in Nat /\ [s EXCEPT !.flow[f] = g] = [s EXCEPT !.flow[f] = g, !.free = n]
  BY <1>3 DEF StateRec
<1>5. g \in FlowRec /\ Coherent(g) /\ OwnTimes(f, g)
  BY NewRec
<1>6. ~Gains(g, s.flow[f])
  <2>1. g.track = None /\ g.cosq = None /\ g.lm_q = None /\ g.snoop_q = None /\ g.lm = FALSE /\ g.vid = None
    BY DEF New
  <2>2. s.flow[f].lm = FALSE /\ s.flow[f].vid = None
    BY <1>1, <1>3 DEF Coherent, FlowRec
  <2> HIDE DEF g
  <2> QED BY <2>1, <2>2 DEF Gains
<1> HIDE DEF g, n
<1>7. Sound([s EXCEPT !.flow[f] = g, !.free = n], flying)
  BY <1>1, <1>4, <1>5, <1>6, KeepsSound
<1> QED BY <1>2, <1>4, <1>7, BecomesInv

LEMMA StartInv == ASSUME TrxInv, NEW f \in Flows, Start(f) PROVE TrxInv'
<1> DEFINE s == TrxStopped(Now, f)
<1>1. Sound(s, flying) /\ ~s.flow[f].trx /\ s.flow[f].pkt = flow[f].pkt
  BY TrxStoppedSound DEF TrxInv, Now
<1>2. PICK cosq \in Free(s, Cosqs, "cosq"), track \in FreeTracks(s) : Becomes(Started(s, f, cosq, track))
  BY DEF Start
<1>3. flow[f].pkt # None /\ LineRate * flow[f].pkt.cells <= s.free
  BY DEF Start
<1> HIDE DEF s
<1>4. track \in Tracks /\ track \notin Held(s, "track") /\ \A w \in flying : w.track # track
  BY DEF FreeTracks, Free
<1>5. Sound(Started(s, f, cosq, track), flying)
  BY <1>1, <1>3, <1>4, StartedSound
<1> QED BY <1>2, <1>5, BecomesInv

LEMMA SnoopStartInv == ASSUME TrxInv, NEW f \in Flows, SnoopStart(f) PROVE TrxInv'
<1> DEFINE m == flow[f]
           cpu == Min(CpuQueues(Now))
<1> PICK ok \in BOOLEAN : Becomes([Now EXCEPT !.flow[f].snooping = ok, !.flow[f].snoop_q = cpu])
  BY DEF SnoopStart
<1> DEFINE g == [m EXCEPT !.snooping = ok, !.snoop_q = cpu]
           t == [Now EXCEPT !.flow[f] = g]
<1>1. m \in FlowRec /\ Coherent(m) /\ OwnTimes(f, m) /\ Now \in StateRec /\ Sound(Now, flying) /\ Now.flow[f] = m
  BY InvFacts DEF TrxInv, Now
<1>2. cpu \in Queues /\ cpu # None /\ \A h \in Flows : flow[h].lm_q # cpu /\ flow[h].snoop_q # cpu
  <2>1. CpuQueues(Now) \in SUBSET Queues /\ CpuQueues(Now) # {}
    BY DEF CpuQueues, SnoopStart
  <2>2. cpu \in CpuQueues(Now)
    BY <2>1, MinIsIn
  <2> HIDE DEF cpu
  <2>3. cpu \in Queues /\ cpu # None
    BY <2>2 DEF CpuQueues
  <2> QED BY <2>2, <2>3 DEF CpuQueues, Held, Now
<1>3. m.trx /\ ~m.snooping /\ Becomes(t)
  BY DEF SnoopStart, Now
<1> HIDE DEF cpu, m
<1>4. g \in FlowRec
  <2>1. m \in FlowRec /\ cpu \in Queues
    BY <1>1, <1>2
  <2> QED BY <2>1 DEF FlowRec
<1>5. /\ g.snooping = ok /\ g.snoop_q = cpu /\ g.trx = m.trx /\ g.cosq = m.cosq /\ g.track = m.track /\ g.pkt = m.pkt
      /\ g.lm = m.lm /\ g.vid = m.vid /\ g.lm_q = m.lm_q /\ g.timer = m.timer
      /\ g.tx_time = m.tx_time /\ g.rx_time = m.rx_time
  BY <1>1 DEF FlowRec
<1> HIDE DEF g
<1>6. /\ t \in StateRec /\ t.vids = vid_free /\ t.db = db_rx
      /\ t.flow[f] = g /\ \A h \in Flows \ {f} : t.flow[h] = flow[h]
  BY <1>1, <1>4 DEF StateRec, Now
<1> HIDE DEF t
<1>7. Coherent(g) /\ OwnTimes(f, g)
  BY <1>1, <1>2, <1>3, <1>5 DEF Coherent, OwnTimes
<1>8. \A h \in Flows : Coherent(t.flow[h]) /\ OwnTimes(h, t.flow[h])
  BY <1>6, <1>7, InvFacts
<1>9. Owners(t)
  BY <1>1, <1>2, <1>5, <1>6 DEF Sound, Owners, Apart, Now
<1>10. OwnTracks(t, flying)
  BY <1>1, <1>5, <1>6 DEF Sound, OwnTracks, Now
<1>11. Observers(t)
  <2>1. \A h \in Flows : t.flow[h].lm = flow[h].lm /\ t.flow[h].cosq = flow[h].cosq /\ t.flow[h].vid = flow[h].vid
    BY <1>1, <1>5, <1>6 DEF Now
  <2> SUFFICES ASSUME NEW d \in Cosqs, NEW u \in Vids
      PROVE  /\ t.db[<<d, u>>] = None <=> u \in Range(t.vids[d])
             /\ \A h \in Flows : t.db[<<d, u>>] = h <=> t.flow[h].lm /\ t.flow[h].cosq = d /\ t.flow[h].vid = u
    BY DEF Observers
  <2>2. /\ db_rx[<<d, u>>] = None <=> u \in Range(vid_free[d])
        /\ \A h \in Flows : db_rx[<<d, u>>] = h <=> flow[h].lm /\ flow[h].cosq = d /\ flow[h].vid = u
    BY <1>1 DEF Sound, Observers, Now
  <2> QED BY <1>6, <2>1, <2>2
<1>12. \A c \in Cosqs : Distinct(t.vids[c])
  BY <1>1, <1>6 DEF Sound, Now
<1>13. Sound(t, flying)
  BY <1>6, <1>8, <1>9, <1>10, <1>11, <1>12, InvFacts DEF Sound
<1> QED BY <1>3, <1>13, BecomesInv

LEMMA SnoopStopInv == ASSUME TrxInv, NEW f \in Flows, SnoopStop(f) PROVE TrxInv'
<1>1. Sound(SnoopStopped(Now, f), flying)
  BY SnoopStoppedSound DEF TrxInv
<1> QED BY <1>1, BecomesInv DEF SnoopStop

LEMMA LmStopInv == ASSUME TrxInv, NEW f \in Flows, LmStop(f) PROVE TrxInv'
<1>1. Sound(LmStopped(Now, f), flying)
  BY LmStoppedSound DEF TrxInv
<1> QED BY <1>1, BecomesInv DEF LmStop

LEMMA LmStartInv == ASSUME TrxInv, NEW f \in Flows, LmStart(f) PROVE TrxInv'
<1> DEFINE s == LmStopped(Now, f)
<1>1. Sound(s, flying) /\ ~s.flow[f].lm /\ s.flow[f].trx = flow[f].trx /\ s.flow[f].cosq = flow[f].cosq
  BY LmStoppedSound DEF TrxInv, Now
<1>2. flow[f].trx /\ CpuQueues(s) # {} /\ s.vids[flow[f].cosq] # <<>> /\ Becomes(Measuring(s, f))
  BY DEF LmStart
<1> HIDE DEF s
<1>3. Sound(Measuring(s, f), flying)
  BY <1>1, <1>2, MeasuringSound
<1> QED BY <1>2, <1>3, BecomesInv

\* A round takes back the cells of the last one, and its packet carries the
\* track of its flow.
LEMMA RoundInv == ASSUME TrxInv, NEW f \in Flows, Round(f) PROVE TrxInv'
<1> DEFINE m == flow[f]
           k == m.pkt.cells
           on == TRUE
           off == FALSE
<1>1. m \in FlowRec /\ Coherent(m) /\ OwnTimes(f, m) /\ flow \in [Flows -> FlowRec] /\ Now \in StateRec
      /\ Sound(Now, flying) /\ Now.flow[f] = m /\ m.lm /\ free_cell \in Nat
  BY InvFacts DEF TrxInv, Now, Round, TimerOn
<1>2. m.trx /\ m.pkt \in Pkts /\ k \in Nat /\ m.track \in Tracks /\ m.cosq \in Cosqs /\ m.vid \in Vids
      /\ m.pkt.offset \in Offsets /\ m.lm_cells \in Nat
  BY <1>1 DEF Coherent, FlowRec, Pkt
<1>3. UNCHANGED <<vid_free, db_rx, aborted>>
  BY DEF Round
<1>4. CASE Affords(f)
  <2> DEFINE g == [m EXCEPT !.tx_time = None, !.rx_time = None, !.waiting = on, !.lm_cells = k]
             n == free_cell + m.lm_cells - k
             t == [Now EXCEPT !.flow[f] = g, !.free = n]
             fl == flying \cup Sent(f)
  <2>1. flow' = [flow EXCEPT ![f] = g] /\ free_cell' = n /\ flying' = fl
    BY <1>4 DEF Round
  <2>2. n \in Nat
    BY <1>1, <1>2, <1>4 DEF Affords
  <2> HIDE DEF k, m, on
  <2>3. on \in BOOLEAN
    BY DEF on
  <2>4. g \in FlowRec
    <3>1. m \in FlowRec /\ k \in Nat
      BY <1>1, <1>2
    <3> QED BY <2>3, <3>1 DEF FlowRec
  <2>5. /\ g.trx = m.trx /\ g.track = m.track /\ g.cosq = m.cosq /\ g.pkt = m.pkt /\ g.snooping = m.snooping
        /\ g.snoop_q = m.snoop_q /\ g.lm = m.lm /\ g.vid = m.vid /\ g.lm_q = m.lm_q /\ g.timer = m.timer
        /\ g.tx_time = None /\ g.rx_time = None
    BY <1>1 DEF FlowRec
  <2> HIDE DEF g, n
  <2>6. Coherent(g) /\ OwnTimes(f, g) /\ ~Gains(g, m)
    BY <1>1, <2>5 DEF Coherent, OwnTimes, Gains
  <2>7. Sound(t, flying)
    BY <1>1, <2>2, <2>4, <2>6, KeepsSound
  <2>8. t \in StateRec /\ t.flow = [flow EXCEPT ![f] = g] /\ t.free = n /\ t.vids = vid_free /\ t.db = db_rx
    BY <1>1, <2>2, <2>4 DEF StateRec, Now
  <2> HIDE DEF t
  <2>9. Now' = t
    <3>1. Now' = [flow |-> t.flow, free |-> t.free, vids |-> t.vids, db |-> t.db]
      BY <1>3, <2>1, <2>8 DEF Now
    <3> QED BY <2>8, <3>1 DEF StateRec
  <2>10. Sent(f) \subseteq Copies /\ \A w \in Sent(f) : w.track = m.track /\ w.by = f
    BY <1>2 DEF Sent, Copies, m
  <2>11. fl \subseteq Copies /\ OwnTracks(t, fl)
    <3>1. flying \subseteq Copies /\ OwnTracks(t, flying) /\ Owners(t)
      BY <2>7 DEF Sound
    <3>2. t.flow[f].track = m.track /\ m.track # None
      BY <1>1, <1>2, <2>5, <2>8
    <3>3. \A h \in Flows : t.flow[h].track = m.track => h = f
      BY <3>1, <3>2 DEF Owners, Apart
    <3> QED BY <2>10, <3>1, <3>3 DEF OwnTracks
  <2>12. Sound(t, fl)
    BY <2>7, <2>11 DEF Sound
  <2> QED BY <1>3, <2>1, <2>9, <2>12 DEF TrxInv
<1>5. CASE ~Affords(f)
  <2> DEFINE g == [m EXCEPT !.tx_time = None, !.rx_time = None, !.timer = off]
             t == [Now EXCEPT !.flow[f] = g]
  <2>1. flow' = [flow EXCEPT ![f] = g] /\ UNCHANGED <<free_cell, flying>>
    BY <1>5 DEF Round
  <2>2. t.flow = [Now.flow EXCEPT ![f] = g] /\ Becomes(t)
    <3>1. t = [Now EXCEPT !.flow = [flow EXCEPT ![f] = g]]
      BY DEF Now
    <3> QED BY <1>3, <2>1, <3>1 DEF Becomes, Now
  <2> HIDE DEF m, off
  <2>3. off \in BOOLEAN /\ ~off
    BY DEF off
  <2>4. g \in FlowRec
    <3>1. m \in FlowRec
      BY <1>1
    <3> QED BY <2>3, <3>1 DEF FlowRec
  <2>5. /\ g.trx = m.trx /\ g.track = m.track /\ g.cosq = m.cosq /\ g.pkt = m.pkt /\ g.snooping = m.snooping
        /\ g.snoop_q = m.snoop_q /\ g.lm = m.lm /\ g.vid = m.vid /\ g.lm_q = m.lm_q /\ ~g.timer
        /\ g.tx_time = None /\ g.rx_time = None
    BY <1>1, <2>3 DEF FlowRec
  <2> HIDE DEF g
  <2>6. Coherent(g) /\ OwnTimes(f, g) /\ ~Gains(g, m)
    BY <1>1, <2>5 DEF Coherent, OwnTimes, Gains
  <2> DEFINE s == Now
             n == s.free
  <2>7. [s EXCEPT !.flow[f] = g] = [s EXCEPT !.flow[f] = g, !.free = n] /\ n \in Nat
    <3>1. s \in StateRec
      BY <1>1
    <3> HIDE DEF s
    <3> QED BY <3>1 DEF StateRec
  <2> HIDE DEF n
  <2>8. Sound([Now EXCEPT !.flow[f] = g, !.free = n], flying)
    BY <1>1, <2>4, <2>6, <2>7, KeepsSound
  <2> QED BY <2>2, <2>7, <2>8, BecomesInv
<1> QED BY <1>4, <1>5

\* Packets that move keep their track and who sent them.
LEMMA FlyingInv ==
  ASSUME TrxInv, UNCHANGED <<flow, free_cell, vid_free, db_rx>>, aborted' \in BOOLEAN, flying' \subseteq Copies,
         \A w \in flying' : \E u \in flying : w.track = u.track /\ w.by = u.by
  PROVE  TrxInv'
<1>1. Now' = Now
  BY DEF Now
<1>2. OwnTracks(Now, flying')
  BY DEF TrxInv, Sound, OwnTracks
<1> QED BY <1>1, <1>2 DEF TrxInv, Sound

LEMMA CrashInv == ASSUME TrxInv, NEW f \in Flows, RoundCrashes(f) PROVE TrxInv'
  BY FlyingInv, InvFacts DEF RoundCrashes

LEMMA LoseInv == ASSUME TrxInv, NEW w \in flying, Lose(w) PROVE TrxInv'
  BY FlyingInv, InvFacts DEF Lose, TrxInv

LEMMA ArriveInv == ASSUME TrxInv, NEW w \in flying, Arrive(w) PROVE TrxInv'
<1> DEFINE copy(f) == [w EXCEPT !.at = "rx", !.queue = flow[f].lm_q]
<1>1. w \in Copies /\ w.at = "wire" /\ flying \subseteq Copies
  BY InvFacts DEF Arrive
<1>2. w \in [at : {"wire"}, vlan : {None}, queue : {None}, track : Tracks, offset : Offsets, by : Flows]
  BY <1>1 DEF Copies
<1>3. ASSUME NEW f \in Flows, flow[f].lm
      PROVE  copy(f) \in Copies /\ copy(f).track = w.track /\ copy(f).by = w.by
  <2> DEFINE q == flow[f].lm_q
             c == [w EXCEPT !.at = "rx", !.queue = q]
  <2>1. q \in Queues
    BY <1>3, InvFacts DEF Coherent, FlowRec
  <2> HIDE DEF q
  <2>2. c \in [at : {"rx"}, vlan : {None}, queue : Queues, track : Tracks, offset : Offsets, by : Flows]
    BY <1>2, <2>1
  <2>3. c.track = w.track /\ c.by = w.by
    BY <1>2
  <2>4. c \in Copies
    BY <2>2 DEF Copies
  <2> QED BY <2>3, <2>4 DEF q
<1>4. \A x \in flying' : x \in flying \/ \E f \in Flows : flow[f].lm /\ x = copy(f)
  BY DEF Arrive
<1> HIDE DEF copy
<1>5. flying' \subseteq Copies /\ \A x \in flying' : \E u \in flying : x.track = u.track /\ x.by = u.by
  BY <1>1, <1>3, <1>4
<1>6. UNCHANGED <<flow, free_cell, vid_free, db_rx>> /\ aborted' \in BOOLEAN
  BY DEF Arrive, TrxInv
<1> QED BY <1>5, <1>6, FlyingInv

\* A copy is a timestamp only to the flow that measures and whose track it
\* carries: the one that sent it.
LEMMA StampIsOwn ==
  ASSUME TrxInv, NEW w \in flying, NEW f \in Flows, NEW o, flow[f].lm, Takes(f, w, o)
  PROVE  Stamp(w) \in Stamps /\ Stamp(w).by = f /\ Stamp(w).track = flow[f].track
<1>1. w \in Copies
  BY InvFacts
<1>2. w.track \in Tracks /\ w.by \in Flows
  BY <1>1 DEF Copies
<1>3. flow[f].track = w.track
  BY DEF Takes
<1>4. w.by = f
  BY <1>3 DEF TrxInv, Sound, OwnTracks, Now
<1> QED BY <1>2, <1>3, <1>4 DEF Stamp, Stamps

\* Times that are stamped, and packets that are gone.
LEMMA StampInv ==
  ASSUME TrxInv, NEW w \in flying, flying' = flying \ {w}, UNCHANGED <<free_cell, vid_free, db_rx, aborted>>,
         flow' \in [Flows -> FlowRec],
         \A f \in Flows :
           LET m == flow[f]
               g == flow'[f]
           IN  /\ g.trx = m.trx /\ g.track = m.track /\ g.cosq = m.cosq /\ g.pkt = m.pkt /\ g.snooping = m.snooping
               /\ g.snoop_q = m.snoop_q /\ g.lm = m.lm /\ g.vid = m.vid /\ g.lm_q = m.lm_q /\ g.timer = m.timer
               /\ OwnTimes(f, g)
  PROVE  TrxInv'
<1> DEFINE t == Now'
<1>1. t \in StateRec /\ t.flow = flow' /\ t.vids = vid_free /\ t.db = db_rx
  BY InvFacts DEF Now, StateRec, TrxInv, Sound
<1> HIDE DEF t
<1>2. \A f \in Flows : Coherent(t.flow[f]) /\ OwnTimes(f, t.flow[f])
  BY <1>1, InvFacts DEF Coherent
<1>3. Owners(t)
  BY <1>1 DEF TrxInv, Sound, Owners, Apart, Now
<1>4. OwnTracks(t, flying')
  BY <1>1 DEF TrxInv, Sound, OwnTracks, Now
<1>5. Observers(t)
  <2> SUFFICES ASSUME NEW d \in Cosqs, NEW u \in Vids
      PROVE  /\ t.db[<<d, u>>] = None <=> u \in Range(t.vids[d])
             /\ \A h \in Flows : t.db[<<d, u>>] = h <=> t.flow[h].lm /\ t.flow[h].cosq = d /\ t.flow[h].vid = u
    BY DEF Observers
  <2>1. /\ db_rx[<<d, u>>] = None <=> u \in Range(vid_free[d])
        /\ \A h \in Flows : db_rx[<<d, u>>] = h <=> flow[h].lm /\ flow[h].cosq = d /\ flow[h].vid = u
    BY DEF TrxInv, Sound, Observers, Now
  <2> QED BY <1>1, <2>1
<1>6. \A c \in Cosqs : Distinct(t.vids[c])
  BY <1>1 DEF TrxInv, Sound, Now
<1>7. flying' \subseteq Copies
  BY InvFacts
<1>8. Sound(t, flying')
  BY <1>1, <1>2, <1>3, <1>4, <1>5, <1>6, <1>7 DEF Sound
<1> QED BY <1>8 DEF TrxInv, t

LEMMA DeliverTxInv == ASSUME TrxInv, NEW w \in flying, DeliverTx(w) PROVE TrxInv'
<1> DEFINE f == db_rx[w.vlan]
           z == Stamp(w)
<1>1. w.at = "tx" /\ w \in Copies /\ flow \in [Flows -> FlowRec]
      /\ flying' = flying \ {w} /\ UNCHANGED <<free_cell, vid_free, db_rx, aborted>>
  BY InvFacts DEF DeliverTx
<1>2. PICK c \in Cosqs, v \in Vids : w.vlan = <<c, v>>
  BY <1>1 DEF Copies
<1>3. CASE f = None \/ ~Takes(f, w, flow[f].pkt.offset)
  <2>1. flow' = flow
    BY <1>3 DEF DeliverTx
  <2> QED BY <1>1, <2>1, InvFacts, StampInv
<1>4. CASE f # None /\ Takes(f, w, flow[f].pkt.offset)
  <2>1. f \in Flows
    BY <1>2, <1>4, InvFacts
  <2>2. flow[f].lm
    BY <1>2, <2>1 DEF TrxInv, Sound, Observers, Now
  <2>3. z \in Stamps /\ z.by = f /\ z.track = flow[f].track
    BY <1>4, <2>1, <2>2, StampIsOwn
  <2>4. flow' = [flow EXCEPT ![f].tx_time = z]
    BY <1>4 DEF DeliverTx
  <2> DEFINE m == flow[f]
             g == [m EXCEPT !.tx_time = z]
  <2> HIDE DEF z, f
  <2>5. m \in FlowRec /\ OwnTimes(f, m)
    BY <2>1, InvFacts
  <2>6. g \in FlowRec
    BY <2>3, <2>5 DEF FlowRec
  <2>7. /\ g.trx = m.trx /\ g.track = m.track /\ g.cosq = m.cosq /\ g.pkt = m.pkt /\ g.snooping = m.snooping
        /\ g.snoop_q = m.snoop_q /\ g.lm = m.lm /\ g.vid = m.vid /\ g.lm_q = m.lm_q /\ g.timer = m.timer
        /\ g.tx_time = z /\ g.rx_time = m.rx_time
    BY <2>5 DEF FlowRec
  <2>8. flow' = [flow EXCEPT ![f] = g]
    BY <2>4
  <2> HIDE DEF g
  <2>9. OwnTimes(f, g)
    BY <2>2, <2>3, <2>5, <2>7 DEF OwnTimes
  <2>10. flow' \in [Flows -> FlowRec] /\ flow'[f] = g /\ \A h \in Flows \ {f} : flow'[h] = flow[h]
    BY <1>1, <2>1, <2>6, <2>8
  <2> QED BY <1>1, <2>7, <2>9, <2>10, InvFacts, StampInv
<1> QED BY <1>3, <1>4

LEMMA DeliverRxInv == ASSUME TrxInv, NEW w \in flying, DeliverRx(w) PROVE TrxInv'
<1> DEFINE z == Stamp(w)
<1>1. w.at = "rx" /\ w \in Copies /\ flying' = flying \ {w} /\ UNCHANGED <<free_cell, vid_free, db_rx, aborted>>
  BY InvFacts DEF DeliverRx
<1>2. w.queue \in Queues /\ w.queue # None
  BY <1>1 DEF Copies
<1>3. ASSUME NEW f \in Flows
      PROVE  LET m == flow[f]
                 g == flow'[f]
             IN  /\ g \in FlowRec
                 /\ g.trx = m.trx /\ g.track = m.track /\ g.cosq = m.cosq /\ g.pkt = m.pkt /\ g.snooping = m.snooping
                 /\ g.snoop_q = m.snoop_q /\ g.lm = m.lm /\ g.vid = m.vid /\ g.lm_q = m.lm_q /\ g.timer = m.timer
                 /\ OwnTimes(f, g)
  <2> DEFINE m == flow[f]
             g == [m EXCEPT !.rx_time = z]
  <2>1. m \in FlowRec /\ Coherent(m) /\ OwnTimes(f, m)
    BY InvFacts
  <2>2. CASE m.lm_q = w.queue /\ Takes(f, w, m.rx_offset)
    <3>1. m.lm
      BY <1>2, <2>1, <2>2 DEF Coherent
    <3>2. z \in Stamps /\ z.by = f /\ z.track = m.track
      BY <2>2, <3>1, StampIsOwn
    <3>3. flow'[f] = g
      BY <2>2 DEF DeliverRx
    <3> HIDE DEF z, m
    <3>4. g \in FlowRec
      BY <2>1, <3>2 DEF FlowRec
    <3>5. /\ g.trx = m.trx /\ g.track = m.track /\ g.cosq = m.cosq /\ g.pkt = m.pkt /\ g.snooping = m.snooping
          /\ g.snoop_q = m.snoop_q /\ g.lm = m.lm /\ g.vid = m.vid /\ g.lm_q = m.lm_q /\ g.timer = m.timer
          /\ g.tx_time = m.tx_time /\ g.rx_time = z
      BY <2>1 DEF FlowRec
    <3> HIDE DEF g
    <3>6. OwnTimes(f, g)
      BY <2>1, <3>1, <3>2, <3>5 DEF OwnTimes
    <3> QED BY <3>3, <3>4, <3>5, <3>6 DEF m
  <2>3. CASE ~(m.lm_q = w.queue /\ Takes(f, w, m.rx_offset))
    <3>1. flow'[f] = m
      BY <2>3 DEF DeliverRx
    <3> QED BY <2>1, <3>1
  <2> QED BY <2>2, <2>3
<1>4. flow' \in [Flows -> FlowRec]
  BY <1>3 DEF DeliverRx
<1> QED BY <1>1, <1>3, <1>4, StampInv
-----------------------------------------------------------------------------
(* The cells: what a step takes from the free ones it adds to a flow.      *)

\* One flow's cells changed, and the free ones by as much the other way.
LEMMA LedgerKeeps ==
  ASSUME NEW s \in StateRec, NEW t \in StateRec, Ledger(s), NEW f \in Flows,
         \A h \in Flows \ {f} : t.flow[h] = s.flow[h], Backed(t.flow[f]),
         t.free + (t.flow[f].cells + t.flow[f].lm_cells) = s.free + (s.flow[f].cells + s.flow[f].lm_cells)
  PROVE  Ledger(t)
<1> DEFINE r == Reserved(s)
           u == Reserved(t)
<1>1. DOMAIN r = Flows /\ DOMAIN u = Flows /\ IsFiniteSet(Flows)
  BY DEF Reserved
<1>2. \A h \in Flows : s.flow[h] \in FlowRec /\ t.flow[h] \in FlowRec
  BY DEF StateRec
<1>3. \A h \in Flows : r[h] \in Nat /\ u[h] \in Nat
  BY <1>2 DEF Reserved, FlowRec
<1>4. \A h \in Flows \ {f} : r[h] = u[h]
  BY DEF Reserved
<1>5. t.free + u[f] = s.free + r[f]
  BY DEF Reserved
<1>6. s.free \in Nat /\ t.free \in Nat
  BY DEF StateRec
<1>7. s.free + SumFunctionOnSet(r, Flows) = Cells
  BY <1>1 DEF Ledger, SumFunction
<1> HIDE DEF r, u
<1>8. SumFunctionOnSet(u, Flows) + r[f] = SumFunctionOnSet(r, Flows) + u[f]
  BY <1>1, <1>3, <1>4, SumChanges
<1>9. SumFunctionOnSet(r, Flows) \in Nat /\ SumFunctionOnSet(u, Flows) \in Nat
  BY <1>1, <1>3, SumNat
<1>10. t.free + SumFunctionOnSet(u, Flows) = Cells
  BY <1>3, <1>5, <1>6, <1>7, <1>8, <1>9
<1>11. t.free + SumFunction(Reserved(t)) = Cells
  BY <1>1, <1>10 DEF SumFunction, u
<1>12. \A h \in Flows : Backed(t.flow[h])
  BY DEF Ledger
<1> QED
  BY <1>11, <1>12 DEF Ledger

\* A state in which no flow's cells changed.
LEMMA LedgerSame ==
  ASSUME NEW s, NEW t, Ledger(s), t.free = s.free,
         \A h \in Flows : /\ t.flow[h].cells = s.flow[h].cells /\ t.flow[h].lm_cells = s.flow[h].lm_cells
                          /\ t.flow[h].trx = s.flow[h].trx
                          /\ t.flow[h].lm = s.flow[h].lm \/ t.flow[h].lm
  PROVE  Ledger(t)
<1>1. Reserved(t) = Reserved(s)
  BY DEF Reserved
<1>2. \A h \in Flows : Backed(t.flow[h])
  BY DEF Ledger, Backed
<1> QED
  BY <1>1, <1>2 DEF Ledger

LEMMA LmStoppedLedger ==
  ASSUME NEW s, NEW fl, Sound(s, fl), Ledger(s), NEW f \in Flows
  PROVE  LET t == LmStopped(s, f)
         IN  /\ Ledger(t) /\ t.flow[f].lm_cells = 0 /\ t.flow[f].cells = s.flow[f].cells
             /\ \A h \in Flows \ {f} : t.flow[h] = s.flow[h]
<1> DEFINE m == s.flow[f]
           g == NoLm(m)
           t == LmStopped(s, f)
           n == s.free + m.lm_cells
<1>1. s \in StateRec /\ m \in FlowRec /\ Coherent(m) /\ Backed(m)
  BY DEF Sound, StateRec, Ledger
<1>2. CASE ~m.lm
  BY <1>1, <1>2 DEF LmStopped, Backed
<1>3. CASE m.lm
  <2>1. t \in StateRec
    BY LmStoppedSound DEF Sound
  <2>2. g.cells = m.cells /\ g.lm_cells = 0 /\ g.trx = m.trx
    BY <1>1 DEF NoLm, FlowRec
  <2>3. t = [s EXCEPT !.flow[f] = g, !.free = n, !.vids[m.cosq] = Append(@, m.vid), !.db[<<m.cosq, m.vid>>] = None]
    BY <1>3 DEF LmStopped
  <2>4. m.cells \in Nat /\ m.lm_cells \in Nat /\ s.free \in Nat
    BY <1>1 DEF FlowRec, StateRec
  <2> HIDE DEF g
  <2>5. t.flow[f] = g /\ t.free = n /\ \A h \in Flows \ {f} : t.flow[h] = s.flow[h]
    BY <1>1, <2>3 DEF StateRec
  <2> HIDE DEF t, m
  <2>6. Backed(g)
    BY <1>1, <2>2 DEF Backed
  <2>7. t.free + (t.flow[f].cells + t.flow[f].lm_cells) = s.free + (m.cells + m.lm_cells)
    BY <2>2, <2>4, <2>5
  <2>8. Ledger(t)
    BY <1>1, <2>1, <2>5, <2>6, <2>7, LedgerKeeps DEF m
  <2> QED BY <2>2, <2>5, <2>8 DEF t, m
<1> QED BY <1>2, <1>3

LEMMA SnoopStoppedLedger ==
  ASSUME NEW s, NEW fl, Sound(s, fl), Ledger(s), NEW f \in Flows
  PROVE  LET t == SnoopStopped(s, f)
         IN  /\ Ledger(t) /\ t.free = s.free /\ t.flow[f].lm_cells = s.flow[f].lm_cells
             /\ t.flow[f].cells = s.flow[f].cells
             /\ \A h \in Flows \ {f} : t.flow[h] = s.flow[h]
<1> DEFINE m == s.flow[f]
           g == NoSnoop(m)
           t == SnoopStopped(s, f)
<1>0. CASE ~m.snooping
  BY <1>0 DEF SnoopStopped
<1> SUFFICES ASSUME m.snooping
             PROVE  /\ Ledger(t) /\ t.free = s.free /\ t.flow[f].lm_cells = m.lm_cells
                    /\ t.flow[f].cells = m.cells
                    /\ \A h \in Flows \ {f} : t.flow[h] = s.flow[h]
  BY <1>0
<1>1. s \in StateRec /\ m \in FlowRec /\ t = [s EXCEPT !.flow[f] = g]
  BY DEF Sound, StateRec, SnoopStopped
<1>2. g.cells = m.cells /\ g.lm_cells = m.lm_cells /\ g.trx = m.trx /\ g.lm = m.lm
  BY <1>1 DEF NoSnoop, FlowRec
<1> HIDE DEF g
<1>3. t.flow[f] = g /\ t.free = s.free /\ \A h \in Flows \ {f} : t.flow[h] = s.flow[h]
  BY <1>1 DEF StateRec
<1> HIDE DEF t
<1>4. Ledger(t)
  BY <1>2, <1>3, LedgerSame
<1> QED BY <1>2, <1>3, <1>4 DEF t

LEMMA TrxStoppedLedger ==
  ASSUME NEW s, NEW fl, Sound(s, fl), Ledger(s), NEW f \in Flows
  PROVE  LET t == TrxStopped(s, f)
         IN  Ledger(t) /\ t.flow[f].cells = 0 /\ t.flow[f].lm_cells = 0
<1> DEFINE m == s.flow[f]
           l == LmStopped(s, f)
           u == SnoopStopped(l, f)
           g == NoTrx(u.flow[f])
           n == u.free + m.cells
           t == TrxStopped(s, f)
<1>1. s \in StateRec /\ m \in FlowRec /\ Coherent(m) /\ Backed(m)
  BY DEF Sound, StateRec, Ledger
<1>2. CASE ~m.trx
  BY <1>1, <1>2 DEF TrxStopped, Backed, Coherent
<1>3. CASE m.trx
  <2>1. Sound(l, fl) /\ ~l.flow[f].lm /\ Ledger(l) /\ l.flow[f].lm_cells = 0 /\ l.flow[f].cells = m.cells
    BY LmStoppedSound, LmStoppedLedger
  <2> HIDE DEF l
  <2>2. Sound(u, fl) /\ Ledger(u) /\ u.flow[f].lm_cells = 0 /\ u.flow[f].cells = m.cells
    BY <2>1, SnoopStoppedSound, SnoopStoppedLedger
  <2>3. t = [u EXCEPT !.flow[f] = g, !.free = n]
    BY <1>3 DEF TrxStopped, l
  <2>4. t \in StateRec
    BY TrxStoppedSound DEF Sound
  <2> HIDE DEF u
  <2>5. u \in StateRec /\ u.flow[f] \in FlowRec
    BY <2>2 DEF Sound, StateRec
  <2>6. g.cells = 0 /\ g.lm_cells = 0
    BY <2>2, <2>5 DEF NoTrx, FlowRec
  <2>7. n = u.free + m.cells /\ m.cells \in Nat /\ u.free \in Nat
    BY <1>1, <2>5 DEF FlowRec, StateRec
  <2> HIDE DEF g, n, m
  <2>8. t.flow[f] = g /\ t.free = n /\ \A h \in Flows \ {f} : t.flow[h] = u.flow[h]
    BY <2>3, <2>5 DEF StateRec
  <2> HIDE DEF t
  <2>9. Backed(g)
    BY <2>6 DEF Backed
  <2>10. t.free + (t.flow[f].cells + t.flow[f].lm_cells) = u.free + (u.flow[f].cells + u.flow[f].lm_cells)
    BY <2>2, <2>6, <2>7, <2>8
  <2>11. Ledger(t)
    BY <2>2, <2>4, <2>5, <2>8, <2>9, <2>10, LedgerKeeps
  <2> QED BY <2>6, <2>8, <2>11 DEF t
<1> QED BY <1>2, <1>3

\* A handler that passes on a state with its cells counted.
LEMMA BecomesLedger ==
  ASSUME NEW s \in StateRec, Ledger(s), Becomes(s)
  PROVE  LedgerInv'
<1>1. Now' = [flow |-> s.flow, free |-> s.free, vids |-> s.vids, db |-> s.db]
  BY DEF Becomes, Now
<1>2. Now' = s
  BY <1>1 DEF StateRec
<1> QED BY <1>2 DEF LedgerInv

\* A handler or a packet that leaves the cells alone.
LEMMA CellsStay ==
  ASSUME TrxInv, LedgerInv, free_cell' = free_cell,
         \A h \in Flows : /\ flow'[h].cells = flow[h].cells /\ flow'[h].lm_cells = flow[h].lm_cells
                          /\ flow'[h].trx = flow[h].trx /\ flow'[h].lm = flow[h].lm
  PROVE  LedgerInv'
<1> DEFINE s == Now
           t == Now'
<1>1. s.free = free_cell /\ t.free = free_cell' /\ s.flow = flow /\ t.flow = flow'
  BY DEF Now
<1>2. Ledger(s)
  BY DEF LedgerInv
<1> HIDE DEF s, t
<1>3. Ledger(t)
  BY <1>1, <1>2, LedgerSame
<1> QED BY <1>3 DEF LedgerInv, t

\* Becoming a state with another record of one flow.
LEMMA OneFlow ==
  ASSUME TrxInv, NEW f \in Flows, NEW g, Becomes([Now EXCEPT !.flow[f] = g])
  PROVE  free_cell' = free_cell /\ flow'[f] = g /\ \A h \in Flows \ {f} : flow'[h] = flow[h]
<1> DEFINE s == Now
           t == [s EXCEPT !.flow[f] = g]
<1>1. s \in StateRec /\ s.flow = flow /\ s.free = free_cell
  BY InvFacts DEF Now
<1>2. flow' = t.flow /\ free_cell' = t.free
  BY DEF Becomes
<1> HIDE DEF s
<1>3. t.flow = [s.flow EXCEPT ![f] = g] /\ t.free = s.free /\ s.flow \in [Flows -> FlowRec]
  BY <1>1 DEF StateRec
<1> QED BY <1>1, <1>2, <1>3

LEMMA SettingLedger ==
  ASSUME TrxInv, LedgerInv, NEW f \in Flows,
         \/ \E p \in Pkts : SetTx(f, p)
         \/ \E o \in Offsets : SetRx(f, o)
         \/ SnoopStart(f) \/ Publish(f)
  PROVE  LedgerInv'
<1> DEFINE m == Now.flow[f]
           P(p) == [m EXCEPT !.pkt = p]
           O(o) == [m EXCEPT !.rx_offset = o]
           Q(ok, q) == [m EXCEPT !.snooping = ok, !.snoop_q = q]
           W == [m EXCEPT !.waiting = FALSE]
<1>1. m \in FlowRec /\ m = flow[f]
  BY InvFacts DEF Now
<1>2. PICK g : Becomes([Now EXCEPT !.flow[f] = g])
               /\ ((\E x : g = P(x) \/ g = O(x)) \/ (\E x, y : g = Q(x, y)) \/ g = W)
  <2>1. ASSUME NEW p \in Pkts, SetTx(f, p) PROVE Becomes([Now EXCEPT !.flow[f] = P(p)])
    BY <2>1 DEF SetTx
  <2>2. ASSUME NEW o \in Offsets, SetRx(f, o) PROVE Becomes([Now EXCEPT !.flow[f] = O(o)])
    BY <2>2 DEF SetRx
  <2>3. ASSUME SnoopStart(f) 
        PROVE  \E ok \in BOOLEAN : Becomes([Now EXCEPT !.flow[f] = Q(ok, Min(CpuQueues(Now)))])
    BY <2>3 DEF SnoopStart
  <2>4. ASSUME Publish(f) PROVE Becomes([Now EXCEPT !.flow[f] = W])
    BY <2>4 DEF Publish
  <2> HIDE DEF P, O, Q, W
  <2> QED BY <2>1, <2>2, <2>3, <2>4
<1> HIDE DEF m
<1>3. g.cells = m.cells /\ g.lm_cells = m.lm_cells /\ g.trx = m.trx /\ g.lm = m.lm
  BY ZenonT(60), <1>1, <1>2 DEF FlowRec
<1>4. free_cell' = free_cell /\ flow'[f] = g /\ \A h \in Flows \ {f} : flow'[h] = flow[h]
  BY <1>2, OneFlow
<1> QED BY <1>1, <1>3, <1>4, CellsStay

LEMMA StopLedger ==
  ASSUME TrxInv, LedgerInv, NEW f \in Flows,
         Stop(f) \/ StartFails(f) \/ StopFails(f) \/ SnoopStop(f) \/ LmStop(f)
  PROVE  LedgerInv'
<1> DEFINE s == Now
           u == LmStopped(s, f)
<1>1. Sound(s, flying) /\ Ledger(s)
  BY DEF TrxInv, LedgerInv
<1> HIDE DEF s
<1>2. Sound(u, flying) /\ Ledger(u)
  BY <1>1, LmStoppedSound, LmStoppedLedger
<1>3. Sound(SnoopStopped(s, f), flying) /\ Ledger(SnoopStopped(s, f))
  BY <1>1, SnoopStoppedSound, SnoopStoppedLedger
<1>4. Sound(TrxStopped(s, f), flying) /\ Ledger(TrxStopped(s, f))
  BY <1>1, TrxStoppedSound, TrxStoppedLedger
<1> HIDE DEF u
<1>5. Sound(SnoopStopped(u, f), flying) /\ Ledger(SnoopStopped(u, f))
  BY <1>2, SnoopStoppedSound, SnoopStoppedLedger
<1>6. PICK t \in {u, SnoopStopped(s, f), TrxStopped(s, f), SnoopStopped(u, f)} : Becomes(t)
  <2>1. ASSUME StopFails(f) PROVE \E t \in {u, SnoopStopped(u, f)} : Becomes(t)
    BY <2>1 DEF StopFails, StopFailures, u, s
  <2>2. ASSUME Stop(f) \/ StartFails(f) PROVE Becomes(TrxStopped(s, f))
    BY <2>2 DEF Stop, StartFails, s
  <2>3. ASSUME SnoopStop(f) PROVE Becomes(SnoopStopped(s, f))
    BY <2>3 DEF SnoopStop, s
  <2>4. ASSUME LmStop(f) PROVE Becomes(u)
    BY <2>4 DEF LmStop, u, s
  <2> QED BY <2>1, <2>2, <2>3, <2>4
<1>7. Sound(t, flying) /\ Ledger(t)
  BY <1>2, <1>3, <1>4, <1>5, <1>6
<1>8. t \in StateRec
  BY <1>7 DEF Sound
<1> QED BY <1>6, <1>7, <1>8, BecomesLedger

LEMMA DestroyLedger ==
  ASSUME TrxInv, LedgerInv, NEW f \in Flows, NEW o \in Offsets, Destroy(f, o)
  PROVE  LedgerInv'
<1> DEFINE s == TrxStopped(Now, f)
           g == New(o)
           t == [s EXCEPT !.flow[f] = g]
<1>1. Sound(s, flying) /\ Ledger(s) /\ ~s.flow[f].trx /\ s.flow[f].cells = 0 /\ s.flow[f].lm_cells = 0
  BY TrxStoppedSound, TrxStoppedLedger DEF TrxInv, LedgerInv
<1>2. Becomes(t)
  BY DEF Destroy
<1> HIDE DEF s
<1>3. s \in StateRec /\ g \in FlowRec /\ g.cells = 0 /\ g.lm_cells = 0 /\ s.flow[f] \in FlowRec
  BY <1>1, NewRec DEF Sound, New, StateRec
<1> HIDE DEF g
<1>4. /\ t \in StateRec /\ t.free = s.free
      /\ t.flow[f] = g /\ \A h \in Flows \ {f} : t.flow[h] = s.flow[h]
  BY <1>3 DEF StateRec
<1> HIDE DEF t
<1>5. Backed(t.flow[f])
  BY <1>3, <1>4 DEF Backed
<1>6. t.free + (t.flow[f].cells + t.flow[f].lm_cells) = s.free + (s.flow[f].cells + s.flow[f].lm_cells)
  BY <1>1, <1>3, <1>4
<1>7. Ledger(t)
  BY <1>1, <1>3, <1>4, <1>5, <1>6, LedgerKeeps
<1> QED BY <1>2, <1>4, <1>7, BecomesLedger

\* A start takes the cells of the packets from the free ones.
LEMMA StartLedger ==
  ASSUME TrxInv, LedgerInv, NEW f \in Flows, Start(f)
  PROVE  LedgerInv'
<1> DEFINE s == TrxStopped(Now, f)
           m == s.flow[f]
           k == LineRate * m.pkt.cells
           n == s.free - k
           Rec(cosq, track) == [m EXCEPT !.trx = TRUE, !.cosq = cosq, !.cells = k, !.track = track]
<1>1. Sound(s, flying) /\ Ledger(s) /\ m.cells = 0 /\ m.lm_cells = 0 /\ ~m.trx /\ m.pkt = flow[f].pkt
  BY TrxStoppedSound, TrxStoppedLedger DEF TrxInv, LedgerInv, Now
<1>2. PICK cosq \in Free(s, Cosqs, "cosq"), track \in FreeTracks(s) : Becomes(Started(s, f, cosq, track))
  BY DEF Start
<1>3. m.pkt # None /\ k <= s.free
  BY <1>1 DEF Start
<1> DEFINE t == Started(s, f, cosq, track)
           g == Rec(cosq, track)
<1>4. t = [s EXCEPT !.free = n, !.flow[f] = g]
  BY DEF Started
<1> HIDE DEF s
<1>5. s \in StateRec /\ m \in FlowRec /\ s.free \in Nat
  BY <1>1 DEF Sound, StateRec
<1>6. k \in Nat
  BY <1>3, <1>5 DEF FlowRec, Pkt, LineRate
<1>7. Sound(t, flying)
  <2>1. track \in Tracks /\ track \notin Held(s, "track") /\ \A w \in flying : w.track # track
    BY DEF FreeTracks, Free
  <2> QED BY <1>1, <1>3, <2>1, StartedSound
<1>8. t \in StateRec
  BY <1>7 DEF Sound
<1> HIDE DEF k
<1>9. g.cells = k /\ g.lm_cells = m.lm_cells /\ g.lm = m.lm /\ g.trx
  BY <1>5 DEF FlowRec
<1> HIDE DEF g
<1>10. t.free = n /\ t.flow[f] = g /\ \A h \in Flows \ {f} : t.flow[h] = s.flow[h]
  BY <1>4, <1>5 DEF StateRec
<1> HIDE DEF t
<1>11. Backed(t.flow[f])
  BY <1>1, <1>9, <1>10 DEF Backed
<1>12. t.free + (t.flow[f].cells + t.flow[f].lm_cells) = s.free + (s.flow[f].cells + s.flow[f].lm_cells)
  BY <1>1, <1>5, <1>6, <1>9, <1>10
<1>13. Ledger(t)
  BY <1>1, <1>5, <1>8, <1>10, <1>11, <1>12, LedgerKeeps
<1> QED BY <1>2, <1>8, <1>13, BecomesLedger DEF t

LEMMA LmStartLedger ==
  ASSUME TrxInv, LedgerInv, NEW f \in Flows, LmStart(f)
  PROVE  LedgerInv'
<1> DEFINE s == LmStopped(Now, f)
           t == Measuring(s, f)
           m == s.flow[f]
           Rec(v, q) == [m EXCEPT !.lm = TRUE, !.vid = v, !.lm_q = q, !.lm_filter = m.rx_offset, !.timer = TRUE]
           g == Rec(Head(s.vids[m.cosq]), Min(CpuQueues(s)))
<1>1. Sound(s, flying) /\ Ledger(s) /\ ~m.lm /\ m.trx = flow[f].trx /\ m.cosq = flow[f].cosq
  BY LmStoppedSound, LmStoppedLedger DEF TrxInv, LedgerInv, Now
<1>2. flow[f].trx /\ CpuQueues(s) # {} /\ s.vids[flow[f].cosq] # <<>> /\ Becomes(t)
  BY DEF LmStart
<1> HIDE DEF s
<1>3. s \in StateRec /\ m \in FlowRec
  BY <1>1 DEF Sound, StateRec
<1>4. t \in StateRec
  BY <1>1, <1>2, MeasuringSound DEF Sound
<1>5. g.cells = m.cells /\ g.lm_cells = m.lm_cells /\ g.lm /\ g.trx = m.trx
  BY <1>3 DEF FlowRec
<1>6. t.flow[f] = g /\ t.free = s.free /\ \A h \in Flows \ {f} : t.flow[h] = s.flow[h]
  BY <1>3 DEF StateRec, Measuring
<1> HIDE DEF t, g
<1>7. Ledger(t)
  BY <1>1, <1>5, <1>6, LedgerSame
<1> QED BY <1>2, <1>4, <1>7, BecomesLedger

\* A round takes the cells of its packet and gives those of the last one back.
LEMMA RoundLedger ==
  ASSUME TrxInv, TrxInv', LedgerInv, NEW f \in Flows, Round(f)
  PROVE  LedgerInv'
<1> DEFINE m == flow[f]
           k == m.pkt.cells
           g == [m EXCEPT !.tx_time = None, !.rx_time = None, !.waiting = TRUE, !.lm_cells = k]
           h == [m EXCEPT !.tx_time = None, !.rx_time = None, !.timer = FALSE]
<1>1. m \in FlowRec /\ Coherent(m) /\ flow \in [Flows -> FlowRec] /\ m.lm /\ free_cell \in Nat
      /\ Now \in StateRec /\ Now' \in StateRec /\ Ledger(Now)
  BY InvFacts DEF TrxInv, Sound, Round, TimerOn, LedgerInv
<1>2. k \in Nat /\ m.lm_cells \in Nat /\ m.cells \in Nat /\ m.trx
  BY <1>1 DEF Coherent, FlowRec, Pkt
<1>3. CASE Affords(f)
  <2>1. flow' = [flow EXCEPT ![f] = g] /\ free_cell' = free_cell + m.lm_cells - k
    BY <1>3 DEF Round
  <2> HIDE DEF m, k
  <2>2. g.cells = m.cells /\ g.lm_cells = k /\ g.trx = m.trx /\ g.lm = m.lm
    BY <1>1 DEF FlowRec
  <2> HIDE DEF g
  <2> DEFINE s == Now
             t == Now'
  <2>3. s.flow = flow /\ s.free = free_cell /\ t.flow = flow' /\ t.free = free_cell'
    BY DEF Now
  <2>4. flow'[f] = g /\ \A i \in Flows \ {f} : flow'[i] = flow[i]
    BY <1>1, <2>1
  <2> HIDE DEF s, t
  <2>5. Backed(t.flow[f])
    BY <1>1, <1>2, <2>2, <2>3, <2>4 DEF Backed
  <2>6. t.free + (t.flow[f].cells + t.flow[f].lm_cells) = s.free + (s.flow[f].cells + s.flow[f].lm_cells)
    BY <1>1, <1>2, <2>1, <2>2, <2>3, <2>4 DEF m
  <2>7. s \in StateRec /\ t \in StateRec /\ Ledger(s)
    BY <1>1 DEF s, t
  <2>8. Ledger(t)
    BY <2>3, <2>4, <2>5, <2>6, <2>7, LedgerKeeps
  <2> QED BY <2>8 DEF LedgerInv, t
<1>4. CASE ~Affords(f)
  <2>1. flow' = [flow EXCEPT ![f] = h] /\ free_cell' = free_cell
    BY <1>4 DEF Round
  <2> HIDE DEF m
  <2>2. h.cells = m.cells /\ h.lm_cells = m.lm_cells /\ h.trx = m.trx /\ h.lm = m.lm
    BY <1>1 DEF FlowRec
  <2> HIDE DEF h
  <2>3. flow'[f] = h /\ \A i \in Flows \ {f} : flow'[i] = flow[i]
    BY <1>1, <2>1
  <2> QED BY <2>1, <2>2, <2>3, CellsStay DEF m
<1> QED BY <1>3, <1>4

LEMMA DeliverLedger ==
  ASSUME TrxInv, LedgerInv, NEW w \in flying, DeliverTx(w) \/ DeliverRx(w)
  PROVE  LedgerInv'
<1> DEFINE z == Stamp(w)
<1>1. free_cell' = free_cell /\ flow \in [Flows -> FlowRec]
  BY InvFacts DEF DeliverTx, DeliverRx
<1>2. ASSUME NEW f \in Flows
      PROVE  flow'[f] \in {flow[f], [flow[f] EXCEPT !.tx_time = z], [flow[f] EXCEPT !.rx_time = z]}
  BY <1>1 DEF DeliverTx, DeliverRx
<1> HIDE DEF z
<1>3. ASSUME NEW f \in Flows
      PROVE  /\ flow'[f].cells = flow[f].cells /\ flow'[f].lm_cells = flow[f].lm_cells
             /\ flow'[f].trx = flow[f].trx /\ flow'[f].lm = flow[f].lm
  BY <1>1, <1>2 DEF FlowRec
<1> QED BY <1>1, <1>3, CellsStay

LEMMA InitLedger == Init => LedgerInv
<1> SUFFICES ASSUME Init PROVE LedgerInv
  OBVIOUS
<1> DEFINE r == Reserved(Now)
<1>1. \A f \in Flows : flow[f].cells = 0 /\ flow[f].lm_cells = 0
  <2>1. \A f \in Flows : \E o \in Offsets : flow[f] = New(o)
    BY DEF Init
  <2>2. \A o \in Offsets : New(o).cells = 0 /\ New(o).lm_cells = 0
    BY DEF New
  <2> QED BY <2>1, <2>2
<1>2. DOMAIN r = Flows /\ IsFiniteSet(Flows) /\ \A f \in Flows : r[f] = 0
  BY <1>1 DEF Reserved, Now
<1>3. \A f \in Flows : Backed(Now.flow[f])
  BY <1>1 DEF Backed, Now
<1>4. Now.free = Cells
  BY DEF Init, Now
<1> HIDE DEF r
<1>5. SumFunctionOnSet(r, Flows) \in Nat
  BY <1>2, SumNat
<1>6. SumFunctionOnSet(r, Flows) <= 0 * Cardinality(Flows)
  BY <1>2, SumAtMost
<1>7. 0 * Cardinality(Flows) = 0
  BY <1>2, FS_CardinalityType
<1>8. Now.free + SumFunction(r) = Cells
  BY <1>2, <1>4, <1>5, <1>6, <1>7 DEF SumFunction
<1> QED BY <1>3, <1>8 DEF LedgerInv, Ledger, r
-----------------------------------------------------------------------------
(* The invariant, and what follows from it.                                *)

\* After any calls, stops, failures, losses and late copies a flow holds what
\* its parts say, nobody else holds it, and its times are its own.
THEOREM TrxInvariant == Spec => []TrxInv
<1>1. ASSUME TrxInv, Next PROVE TrxInv'
  <2>1. ASSUME NEW f \in Flows, Call(f) PROVE TrxInv'
    BY <1>1, <2>1, SetTxInv, SetRxInv, DestroyInv, StartInv, StopInv, StopFailsInv, SnoopStartInv,
       SnoopStopInv, LmStartInv, LmStopInv, RoundInv, CrashInv, PublishInv DEF Call
  <2>2. ASSUME NEW w \in flying, Arrive(w) \/ Lose(w) \/ DeliverTx(w) \/ DeliverRx(w) PROVE TrxInv'
    BY <1>1, <2>2, ArriveInv, LoseInv, DeliverTxInv, DeliverRxInv
  <2> QED BY <1>1, <2>1, <2>2 DEF Next
<1>2. ASSUME TrxInv, UNCHANGED vars PROVE TrxInv'
  <2>1. Now' = Now
    BY <1>2 DEF vars, Now
  <2> QED BY <1>2, <2>1 DEF vars, TrxInv
<1> QED BY <1>1, <1>2, InitInv, PTL DEF Spec

\* A flow's parts run only while it does, and free cells never go below zero.
THEOREM Trx_TypeOK == Spec => []TypeOK
<1>1. TrxInv => TypeOK
  BY InvFacts DEF TypeOK, TrxInv
<1> QED BY <1>1, TrxInvariant, PTL

\* Identifiers, engine queues, CPU queues and VLANs have one owner, and each
\* measurement is observed once.
THEOREM Trx_NothingShared == Spec => []NothingShared
<1>1. TrxInv => NothingShared
  BY DEF NothingShared, TrxInv, Sound, Owners, Observers, Now
<1> QED BY <1>1, TrxInvariant, PTL

\* Whatever fails, stops or is destroyed, each cell is free or reserved by one
\* part of a flow that runs, and what a part holds has one owner.
THEOREM Trx_Accounted == Spec => []Accounted
<1>1. ASSUME TrxInv, TrxInv', LedgerInv, Next PROVE LedgerInv'
  <2>1. ASSUME NEW f \in Flows, Call(f) PROVE LedgerInv'
    <3>1. ASSUME RoundCrashes(f) PROVE LedgerInv'
      BY <1>1, <3>1, CellsStay DEF RoundCrashes
    <3> QED
      BY <1>1, <2>1, <3>1, SettingLedger, StopLedger, DestroyLedger, StartLedger, LmStartLedger, RoundLedger DEF Call
  <2>2. ASSUME NEW w \in flying, Arrive(w) \/ Lose(w) PROVE LedgerInv'
    BY <1>1, <2>2, CellsStay DEF Arrive, Lose
  <2>3. ASSUME NEW w \in flying, DeliverTx(w) \/ DeliverRx(w) PROVE LedgerInv'
    BY <1>1, <2>3, DeliverLedger
  <2> QED BY <1>1, <2>1, <2>2, <2>3 DEF Next
<1>2. ASSUME LedgerInv, UNCHANGED vars PROVE LedgerInv'
  <2>1. Now' = Now
    BY <1>2 DEF vars, Now
  <2> QED BY <1>2, <2>1 DEF LedgerInv
<1>3. TrxInv /\ LedgerInv => Accounted
  <2> SUFFICES ASSUME TrxInv, LedgerInv PROVE Accounted
    OBVIOUS
  <2> DEFINE r == Reserved(Now)
  <2>1. free_cell + SumFunction(r) = Cells
    BY DEF LedgerInv, Ledger, Now
  <2>2. DOMAIN r = Flows /\ \A f \in Flows : r[f] \in Nat
    BY InvFacts DEF Reserved, Now, FlowRec
  <2> HIDE DEF r
  <2>3. SumFunction(r) \in Nat
    BY <2>2, SumNat DEF SumFunction
  <2>4. free_cell = Cells - SumFunction(r)
    BY <2>1, <2>3, InvFacts
  <2>5. NothingShared
    BY DEF NothingShared, TrxInv, Sound, Owners, Observers, Now
  <2> QED BY <2>4, <2>5 DEF Accounted, r
<1> QED BY <1>1, <1>2, <1>3, InitLedger, TrxInvariant, PTL DEF Spec

\* A measurement uses only timestamps of packets its own flow sent since it
\* was started.
THEOREM Trx_StampsAreOwn == Spec => []StampsAreOwn
<1>1. TrxInv => StampsAreOwn
  BY InvFacts DEF StampsAreOwn, OwnTimes
<1> QED BY <1>1, TrxInvariant, PTL
=============================================================================
