----------------------------- MODULE TxFlowProofs -----------------------------
(***************************************************************************)
(* Proofs about TxFlow for every value of its constants: its types, that   *)
(* each queue is free or owned by one flow whichever SDK call fails, and,  *)
(* when the calls of stop and of the notifiers do not fail, that a pair    *)
(* change and a lost link reach every flow they must and that TxFlow       *)
(* implements TxService.                                                   *)
(***************************************************************************)
EXTENDS TxFlowProperties, NatLemmas, SequenceTheorems

\* Where RemoveFirst cuts.
LEMMA FirstIndex ==
  ASSUME NEW s, NEW f, Len(s) \in Nat, \E i \in 1..Len(s) : s[i] = f
  PROVE  \E k \in 1..Len(s) : s[k] = f /\ RemoveFirst(s, f) = RemoveAt(s, k)
<1> DEFINE I == {i \in 1..Len(s) : s[i] = f}
<1>1. I # {} /\ I \subseteq Nat
  OBVIOUS
<1>2. \E x \in I : \A y \in I : x <= y
  <2> HIDE DEF I
  <2> QED BY <1>1, NatMin
<1>3. Min(I) \in I
  <2> HIDE DEF I
  <2> QED BY <1>2 DEF Min
<1>4. RemoveFirst(s, f) = RemoveAt(s, Min(I))
  BY <1>1 DEF RemoveFirst, SelectInSeq
<1> QED BY <1>3, <1>4

\* Removing the callback at k.
LEMMA RemoveAtIndex ==
  ASSUME NEW S, NEW s \in Seq(S), NEW k \in 1..Len(s)
  PROVE  /\ RemoveAt(s, k) \in Seq(S)
         /\ Len(RemoveAt(s, k)) = Len(s) - 1
         /\ \A i \in 1..(Len(s) - 1) :
              RemoveAt(s, k)[i] = IF i < k THEN s[i] ELSE s[i + 1]
<1> DEFINE a == SubSeq(s, 1, k - 1)
           b == SubSeq(s, k + 1, Len(s))
<1>1. /\ a \in Seq(S) /\ Len(a) = k - 1
      /\ \A i \in 1..(k - 1) : a[i] = s[i]
  BY SubSeqProperties
<1>2. /\ b \in Seq(S) /\ Len(b) = Len(s) - k
      /\ \A i \in 1..(Len(s) - k) : b[i] = s[k + i]
  BY SubSeqProperties
<1>3. RemoveAt(s, k) = a \o b
  BY DEF RemoveAt
<1> HIDE DEF a, b
<1>4. /\ a \o b \in Seq(S) /\ Len(a \o b) = Len(a) + Len(b)
      /\ \A i \in 1..(Len(a) + Len(b)) :
           (a \o b)[i] = IF i <= Len(a) THEN a[i] ELSE b[i - Len(a)]
  BY <1>1, <1>2, ConcatProperties
<1>5. ASSUME NEW i \in 1..(Len(s) - 1)
      PROVE  (a \o b)[i] = IF i < k THEN s[i] ELSE s[i + 1]
  <2>1. CASE i < k
    BY <1>1, <1>2, <1>4, <2>1
  <2>2. CASE ~(i < k)
    <3>1. i - (k - 1) \in 1..(Len(s) - k) /\ k + (i - (k - 1)) = i + 1
      BY <2>2
    <3>2. (a \o b)[i] = b[i - (k - 1)]
      BY <1>1, <1>2, <1>4, <2>2
    <3> QED BY <1>2, <2>2, <3>1, <3>2
  <2> QED BY <2>1, <2>2
<1> QED BY <1>1, <1>2, <1>3, <1>4, <1>5

\* The callbacks that are left when the one of f goes (Unbind): f is gone and
\* nobody else, provided f was there once.
LEMMA RemoveFirstCallback ==
  ASSUME NEW s \in Seq(Flows), NEW f
  PROVE  /\ RemoveFirst(s, f) \in Seq(Flows)
         /\ IsInjective(s) => IsInjective(RemoveFirst(s, f))
                              /\ Range(RemoveFirst(s, f)) = Range(s) \ {f}
<1> DEFINE r == RemoveFirst(s, f)
<1>1. CASE ~\E i \in 1..Len(s) : s[i] = f
  <2>1. r = s
    BY <1>1 DEF RemoveFirst
  <2>2. f \notin Range(s)
    BY <1>1 DEF Range
  <2> QED BY <2>1, <2>2
<1>2. CASE \E i \in 1..Len(s) : s[i] = f
  <2>1. PICK k \in 1..Len(s) : s[k] = f /\ r = RemoveAt(s, k)
    BY <1>2, FirstIndex
  <2>2. /\ r \in Seq(Flows) /\ Len(r) = Len(s) - 1
        /\ \A i \in 1..(Len(s) - 1) : r[i] = IF i < k THEN s[i] ELSE s[i + 1]
    BY <2>1, RemoveAtIndex
  <2> HIDE DEF r
  <2>3. DOMAIN r = 1..(Len(s) - 1) /\ DOMAIN s = 1..Len(s)
    BY <2>2
  <2>4. ASSUME IsInjective(s) PROVE IsInjective(r)
    <3> SUFFICES ASSUME NEW i \in 1..(Len(s) - 1), NEW j \in 1..(Len(s) - 1), r[i] = r[j]
                 PROVE  i = j
      BY <2>3 DEF IsInjective
    <3> DEFINE at(x) == IF x < k THEN x ELSE x + 1
    <3>1. r[i] = s[at(i)] /\ r[j] = s[at(j)] /\ at(i) \in 1..Len(s) /\ at(j) \in 1..Len(s)
      BY <2>2
    <3>2. at(i) = at(j)
      BY <3>1, <2>3, <2>4 DEF IsInjective
    <3> QED BY <3>2
  <2>5. ASSUME IsInjective(s) PROVE Range(r) = Range(s) \ {f}
    <3>1. ASSUME NEW x \in Range(r) PROVE x \in Range(s) \ {f}
      <4>1. PICK i \in 1..(Len(s) - 1) : r[i] = x
        BY <2>3, <3>1 DEF Range
      <4>2. PICK j \in 1..Len(s) : j # k /\ s[j] = x
        BY <2>2, <4>1
      <4> QED BY <2>1, <2>3, <2>5, <4>2 DEF IsInjective, Range
    <3>2. ASSUME NEW x \in Range(s), x # f PROVE x \in Range(r)
      <4>1. PICK j \in 1..Len(s) : s[j] = x
        BY <2>3 DEF Range
      <4>2. j # k
        BY <2>1, <3>2, <4>1
      <4>3. CASE j < k
        <5>1. j \in 1..(Len(s) - 1) /\ r[j] = x
          BY <2>2, <4>1, <4>3
        <5> QED BY <2>3, <5>1 DEF Range
      <4>4. CASE j > k
        <5>1. j - 1 \in 1..(Len(s) - 1) /\ ~(j - 1 < k) /\ (j - 1) + 1 = j
          BY <4>4
        <5>2. r[j - 1] = x
          BY <2>2, <4>1, <5>1
        <5> QED BY <2>3, <5>1, <5>2 DEF Range
      <4> QED BY <4>2, <4>3, <4>4
    <3> QED BY <3>1, <3>2
  <2> QED BY <2>2, <2>4, <2>5 DEF r
<1> QED BY <1>1, <1>2
-----------------------------------------------------------------------------
\* A flow is started exactly as long as it owns a TX.
StartedOwnsTx == \A f \in Flows : flow[f].is_started <=> tx[f] # NoTx

\* A start is the last job of a call that stopped the flow before.
StartsAlone ==
  \A j \in 1..Len(todo), f \in Flows : todo[j] = <<"start", f>> =>
    \/ todo = <<<<"stop", f>>, <<"start", f>>>>
    \/ todo = <<<<"start", f>>>> /\ ~flow[f].is_started

TypeInv == TypeOK /\ StartedOwnsTx /\ StartsAlone

\* The steps, as one flat disjunction.
LEMMA NextCases ==
  ASSUME Next
  PROVE  \/ \E f \in Flows :
              \/ Create(f) \/ Destroy(f) \/ CallStart(f) \/ CallStop(f) \/ AutoStop(f)
              \/ StopIdle(f) \/ StopStarted(f) \/ StopFails(f) \/ StopAsserts(f)
              \/ StartRefused(f) \/ StartNoCells(f) \/ StartFails(f) \/ StartAsserts(f)
              \/ StartOk(f) \/ BurstEnds(f) \/ Hold(f)
         \/ \E f \in Flows, p \in Ports : SetPort(f, p)
         \/ \E f \in Flows, l \in Loads : SetLoad(f, l)
         \/ \E p \in Ports : Fork(p) \/ Quota(p) \/ Clear(p) \/ ReconfigureFails(p)
         \/ \E p \in Ports : \E i \in Itfs(p) : SetItf(p, i)
         \/ \E d \in Pids : LinkChange(d) \/ Resume(d)
         \/ Dispatch
BY DEF Next, FlowCall, RunJob

\* A port's physical ports.
LEMMA PairType ==
  ASSUME TypeOK, NEW p \in Ports
  PROVE  front(p) \in Pids /\ engine(p) \in Pids /\ front(p) \in PidsOf(p)
<1>1. itf[p] \in Itfs(p)
  BY DEF TypeOK, ItfChoices
<1> QED BY <1>1, TxFlowAssumption DEF front, engine, PidsOf, Itfs

\* The free queues after a queue of two ports is taken.
LEMMA TakenQueues ==
  ASSUME NEW free \in [Pids -> SUBSET Queues], NEW d \in Pids, NEW e \in Pids, NEW q
  PROVE  LET left == [free EXCEPT ![d] = @ \ {q}, ![e] = @ \ {q}]
         IN  /\ left \in [Pids -> SUBSET Queues]
             /\ \A c \in Pids : left[c] = IF c \in {d, e} THEN free[c] \ {q} ELSE free[c]
<1> DEFINE one == [free EXCEPT ![d] = @ \ {q}]
           left == [one EXCEPT ![e] = @ \ {q}]
<1>1. one \in [Pids -> SUBSET Queues] /\ \A c \in Pids : one[c] = IF c = d THEN free[c] \ {q} ELSE free[c]
  OBVIOUS
<1>2. left = [free EXCEPT ![d] = @ \ {q}, ![e] = @ \ {q}]
  OBVIOUS
<1> HIDE DEF one
<1>3. left \in [Pids -> SUBSET Queues] /\ \A c \in Pids : left[c] = IF c = e THEN one[c] \ {q} ELSE one[c]
  BY <1>1
<1>4. \A c \in Pids : left[c] = IF c \in {d, e} THEN free[c] \ {q} ELSE free[c]
  BY <1>1, <1>3
<1> HIDE DEF left
<1> QED BY <1>2, <1>3, <1>4

\* The free queues after a queue of two ports is given back.
LEMMA ReturnedQueues ==
  ASSUME NEW free \in [Pids -> SUBSET Queues], NEW d \in Pids, NEW e \in Pids, NEW q \in Queues
  PROVE  LET more == [free EXCEPT ![d] = @ \cup {q}, ![e] = @ \cup {q}]
         IN  /\ more \in [Pids -> SUBSET Queues]
             /\ \A c \in Pids : more[c] = IF c \in {d, e} THEN free[c] \cup {q} ELSE free[c]
<1> DEFINE one == [free EXCEPT ![d] = @ \cup {q}]
           more == [one EXCEPT ![e] = @ \cup {q}]
<1>1. one \in [Pids -> SUBSET Queues] /\ \A c \in Pids : one[c] = IF c = d THEN free[c] \cup {q} ELSE free[c]
  OBVIOUS
<1>2. more = [free EXCEPT ![d] = @ \cup {q}, ![e] = @ \cup {q}]
  OBVIOUS
<1> HIDE DEF one
<1>3. more \in [Pids -> SUBSET Queues] /\ \A c \in Pids : more[c] = IF c = e THEN one[c] \cup {q} ELSE one[c]
  BY <1>1
<1>4. \A c \in Pids : more[c] = IF c \in {d, e} THEN free[c] \cup {q} ELSE free[c]
  BY <1>1, <1>3
<1> HIDE DEF more
<1> QED BY <1>2, <1>3, <1>4

\* Emptying a queue.
LEMMA DrainType ==
  ASSUME hwq \in [Pids -> [Queues -> Content]], NEW d \in Pids, NEW q \in Queues
  PROVE  Drained(d, q) \in [Pids -> [Queues -> Content]]
BY DEF Drained, Content

\* What a TX gives back when it goes has its type.
LEMMA ReleaseType ==
  ASSUME TypeOK, NEW f \in Flows, tx[f] # NoTx
  PROVE  /\ Released(f) \in [Pids -> SUBSET Queues] /\ Refunded(f) \in Nat
         /\ \A d \in Pids : Released(f)[d] = IF Holds(f, d) THEN db_port_q[d] \cup {tx[f].cosq}
                                             ELSE db_port_q[d]
         /\ Drained(tx[f].engine, tx[f].cosq)
              \in [Pids -> [Queues -> Content]]
<1>1. tx[f] \in Tx /\ db_port_q \in [Pids -> SUBSET Queues] /\ free_cell \in Nat
  BY DEF TypeOK
<1>2. /\ tx[f].engine \in Pids /\ tx[f].front \in Pids /\ tx[f].cosq \in Queues
      /\ tx[f].cells \in Nat
  BY <1>1 DEF Tx
<1>3. hwq \in [Pids -> [Queues -> Content]]
  BY DEF TypeOK
<1>4. /\ Released(f) \in [Pids -> SUBSET Queues]
      /\ \A d \in Pids : Released(f)[d] = IF d \in {tx[f].engine, tx[f].front}
                                           THEN db_port_q[d] \cup {tx[f].cosq} ELSE db_port_q[d]
  <2> DEFINE e == tx[f].engine
             d == tx[f].front
             q == tx[f].cosq
  <2>1. e \in Pids /\ d \in Pids /\ q \in Queues /\ db_port_q \in [Pids -> SUBSET Queues]
    BY <1>1, <1>2
  <2>2. Released(f) = [db_port_q EXCEPT ![e] = @ \cup {q}, ![d] = @ \cup {q}]
    BY DEF Released
  <2> HIDE DEF e, d, q
  <2>3. LET more == [db_port_q EXCEPT ![e] = @ \cup {q}, ![d] = @ \cup {q}]
        IN  /\ more \in [Pids -> SUBSET Queues]
            /\ \A c \in Pids : more[c] = IF c \in {e, d} THEN db_port_q[c] \cup {q} ELSE db_port_q[c]
    BY <2>1, ReturnedQueues, Zenon
  <2> QED BY <2>2, <2>3 DEF e, d, q
<1>5. Drained(tx[f].engine, tx[f].cosq)
        \in [Pids -> [Queues -> Content]]
  BY <1>2, <1>3, DrainType
<1> QED BY <1>1, <1>2, <1>4, <1>5 DEF Refunded, Holds

\* Dropping the callbacks of a flow leaves lists of flows.
LEMMA UnbindType ==
  ASSUME TypeOK, NEW f \in Flows, Unbind(f)
  PROVE  bound' \in [Ports -> Seq(Flows)]
BY RemoveFirstCallback DEF TypeOK, Unbind

\* The jobs that are left.
LEMMA ProceedType ==
  ASSUME TypeOK, todo # <<>>
  PROVE  /\ Tail(todo) \in Seq(Jobs) /\ Len(Tail(todo)) = Len(todo) - 1
         /\ Len(todo) > 0 /\ Head(todo) = todo[1]
         /\ \A i \in 1..(Len(todo) - 1) : Tail(todo)[i] = todo[i + 1]
BY DEF TypeOK

\* The stops of a list of flows.
LEMMA StopsType ==
  ASSUME NEW s \in Seq(Flows)
  PROVE  /\ Stops(s) \in Seq(Jobs) /\ Len(Stops(s)) = Len(s)
         /\ \A i \in 1..Len(s) : Stops(s)[i] = <<"stop", s[i]>>
<1>1. \A i \in 1..Len(s) : <<"stop", s[i]>> \in Jobs
  BY DEF Jobs
<1> QED BY <1>1, IsASeq DEF Stops

\* Three jobs after others.
LEMMA ThreeMore ==
  ASSUME NEW a \in Seq(Jobs), NEW x \in Jobs, NEW y \in Jobs, NEW z \in Jobs
  PROVE  LET b == a \o <<x, y, z>>
             n == Len(a)
         IN  /\ b \in Seq(Jobs) /\ Len(b) = n + 3
             /\ \A i \in 1..n : b[i] = a[i]
             /\ b[n + 1] = x /\ b[n + 2] = y /\ b[n + 3] = z
<1> DEFINE t == <<x, y, z>>
<1>1. t \in Seq(Jobs) /\ Len(t) = 3 /\ t[1] = x /\ t[2] = y /\ t[3] = z
  OBVIOUS
<1> HIDE DEF t
<1>2. /\ a \o t \in Seq(Jobs) /\ Len(a \o t) = Len(a) + Len(t)
      /\ \A i \in 1..(Len(a) + Len(t)) : (a \o t)[i] = IF i <= Len(a) THEN a[i] ELSE t[i - Len(a)]
  BY <1>1, ConcatProperties
<1>3. Len(a) \in Nat
  OBVIOUS
<1>4. \A i \in 1..Len(a) : (a \o t)[i] = a[i]
  BY <1>1, <1>2, <1>3
<1>5. \A k \in 1..3 : (a \o t)[Len(a) + k] = t[k]
  <2> TAKE k \in 1..3
  <2>1. Len(a) + k \in 1..(Len(a) + 3) /\ ~(Len(a) + k <= Len(a)) /\ Len(a) + k - Len(a) = k
    BY <1>3
  <2> QED BY <1>1, <1>2, <2>1
<1> QED BY <1>1, <1>2, <1>3, <1>4, <1>5 DEF t

\* The jobs of a pair change: the flows first.
LEMMA PairJobsType ==
  ASSUME TypeOK, NEW p \in Ports
  PROVE  LET n == Len(bound[p])
         IN  /\ n \in Nat /\ PairJobs(p) \in Seq(Jobs) /\ Len(PairJobs(p)) = n + 3
             /\ \A i \in 1..n : PairJobs(p)[i] = <<"stop", bound[p][n - i + 1]>>
             /\ PairJobs(p)[n + 1] = <<"fork", p>>
             /\ PairJobs(p)[n + 2] = <<"quota", p>>
             /\ PairJobs(p)[n + 3] = <<"clear", p>>
<1> DEFINE s == bound[p]
           n == Len(s)
<1>1. s \in Seq(Flows) /\ n \in Nat
  BY DEF TypeOK
<1>2. Reverse(s) \in Seq(Flows) /\ Len(Reverse(s)) = n /\ \A i \in 1..n : Reverse(s)[i] = s[n - i + 1]
  <2>1. \A i \in 1..n : s[n - i + 1] \in Flows
    <3> HIDE DEF s
    <3> QED BY <1>1
  <2> HIDE DEF s
  <2> QED BY <1>1, <2>1, IsASeq DEF Reverse
<1>3. /\ Stops(Reverse(s)) \in Seq(Jobs) /\ Len(Stops(Reverse(s))) = n
      /\ \A i \in 1..n : Stops(Reverse(s))[i] = <<"stop", s[n - i + 1]>>
  <2> HIDE DEF s
  <2> QED BY <1>2, StopsType
<1>4. <<"fork", p>> \in Jobs /\ <<"quota", p>> \in Jobs /\ <<"clear", p>> \in Jobs
  BY DEF Jobs
<1>5. PairJobs(p) = Stops(Reverse(s)) \o <<<<"fork", p>>, <<"quota", p>>, <<"clear", p>>>>
  BY DEF PairJobs
<1> DEFINE a == Stops(Reverse(s))
<1>6. LET b == a \o <<<<"fork", p>>, <<"quota", p>>, <<"clear", p>>>>
      IN  /\ b \in Seq(Jobs) /\ Len(b) = Len(a) + 3
          /\ \A i \in 1..Len(a) : b[i] = a[i]
          /\ b[Len(a) + 1] = <<"fork", p>> /\ b[Len(a) + 2] = <<"quota", p>>
          /\ b[Len(a) + 3] = <<"clear", p>>
  <2>1. a \in Seq(Jobs)
    BY <1>3
  <2> HIDE DEF a
  <2> QED BY <2>1, <1>4, ThreeMore
<1> QED BY <1>1, <1>3, <1>5, <1>6

\* The jobs of a link event.
LEMMA LinkJobsType ==
  ASSUME TypeOK, NEW e
  PROVE  /\ LinkJobs(e) \in Seq(Jobs)
         /\ \A i \in 1..Len(LinkJobs(e)) : \E f \in Flows : LinkJobs(e)[i] = <<"stop", f>>
<1> DEFINE named == {p \in Ports : front(p) = e.pid}
<1>1. CASE e.link \/ named = {}
  BY <1>1 DEF LinkJobs
<1>2. CASE ~(e.link \/ named = {})
  <2>1. LinkJobs(e) = Stops(bound[CHOOSE p \in named : TRUE])
    BY <1>2 DEF LinkJobs
  <2>2. (CHOOSE p \in named : TRUE) \in Ports
    BY <1>2
  <2>3. bound[CHOOSE p \in named : TRUE] \in Seq(Flows)
    BY <2>2 DEF TypeOK
  <2> DEFINE s == bound[CHOOSE p \in named : TRUE]
  <2> HIDE DEF s
  <2>4. s \in Seq(Flows) /\ LinkJobs(e) = Stops(s)
    BY <2>1, <2>3 DEF s
  <2>5. /\ Stops(s) \in Seq(Jobs) /\ Len(Stops(s)) = Len(s)
        /\ \A i \in 1..Len(s) : Stops(s)[i] = <<"stop", s[i]>> /\ s[i] \in Flows
    BY <2>4, StopsType
  <2> QED BY <2>4, <2>5
<1> QED BY <1>1, <1>2

\* Assigning a field of a flow keeps its type.
LEMMA FlowField ==
  ASSUME TypeOK, NEW f \in Flows
  PROVE  /\ \A b \in BOOLEAN : /\ [flow EXCEPT ![f].created = b] \in [Flows -> TxImpl]
                              /\ [flow EXCEPT ![f].is_started = b] \in [Flows -> TxImpl]
         /\ \A p \in Ports : [flow EXCEPT ![f].port = p] \in [Flows -> TxImpl]
         /\ \A l \in Loads : [flow EXCEPT ![f].load = l] \in [Flows -> TxImpl]
         /\ [flow EXCEPT ![f] = Absent] \in [Flows -> TxImpl]
<1>1. flow \in [Flows -> TxImpl]
  BY DEF TypeOK
<1>2. \A b \in BOOLEAN : [flow EXCEPT ![f].created = b] \in [Flows -> TxImpl]
  BY <1>1 DEF TxImpl
<1>3. \A b \in BOOLEAN : [flow EXCEPT ![f].is_started = b] \in [Flows -> TxImpl]
  BY <1>1 DEF TxImpl
<1>4. \A p \in Ports : [flow EXCEPT ![f].port = p] \in [Flows -> TxImpl]
  BY <1>1 DEF TxImpl
<1>5. \A l \in Loads : [flow EXCEPT ![f].load = l] \in [Flows -> TxImpl]
  BY <1>1 DEF TxImpl
<1>6. [flow EXCEPT ![f] = Absent] \in [Flows -> TxImpl]
  BY <1>1 DEF TxImpl, Absent
<1> QED BY <1>2, <1>3, <1>4, <1>5, <1>6

\* The types hold initially.
LEMMA TypeInit ==
  ASSUME Init PROVE TypeInv
<1>1. itf \in ItfChoices /\ fork \in ItfChoices /\ quota \in ItfChoices
  BY DEF Init
<1>2. db_port_q \in [Pids -> SUBSET Queues] /\ free_cell \in Nat
  BY TxFlowAssumption DEF Init
<1>3. /\ flow \in [Flows -> TxImpl]
      /\ tx \in [Flows -> Tx \cup {NoTx}]
  BY DEF Init, Absent, TxImpl
<1>4. StartedOwnsTx /\ StartsAlone
  BY DEF Init, Absent, StartedOwnsTx, StartsAlone
<1>5. hwq \in [Pids -> [Queues -> Content]]
  BY DEF Init, Content
<1>6. events \in Seq([pid : Pids, link : BOOLEAN]) /\ bound \in [Ports -> Seq(Flows)] /\ todo \in Seq(Jobs)
  BY DEF Init
<1> QED BY <1>1, <1>2, <1>3, <1>4, <1>5, <1>6 DEF TypeInv, TypeOK, Init

\* Calls that change a flow's settings, or hand jobs to the mutex.
LEMMA TypeCalls ==
  ASSUME TypeInv, NEW f \in Flows,
         \/ Create(f) \/ CallStart(f) \/ CallStop(f) \/ AutoStop(f)
         \/ \E p \in Ports : SetPort(f, p)
         \/ \E l \in Loads : SetLoad(f, l)
  PROVE  TypeInv'
<1>1. CASE Create(f)
  <2>1. TypeOK'
    BY <1>1, FlowField DEF TypeInv, TypeOK, Create, ports, wires, resources
  <2>2. StartedOwnsTx' /\ StartsAlone'
    BY <1>1 DEF TypeInv, TypeOK, StartedOwnsTx, StartsAlone, Create
  <2> QED BY <2>1, <2>2 DEF TypeInv
<1>2. ASSUME NEW p \in Ports, SetPort(f, p) PROVE TypeInv'
  <2>1. TypeOK'
    BY <1>2, FlowField DEF TypeInv, TypeOK, SetPort, ports, wires, resources
  <2>2. StartedOwnsTx' /\ StartsAlone'
    BY <1>2 DEF TypeInv, TypeOK, StartedOwnsTx, StartsAlone, SetPort
  <2> QED BY <2>1, <2>2 DEF TypeInv
<1>3. ASSUME NEW l \in Loads, SetLoad(f, l) PROVE TypeInv'
  <2>1. TypeOK'
    BY <1>3, FlowField DEF TypeInv, TypeOK, SetLoad, ports, wires, resources
  <2>2. StartedOwnsTx' /\ StartsAlone'
    BY <1>3 DEF TypeInv, TypeOK, StartedOwnsTx, StartsAlone, SetLoad
  <2> QED BY <2>1, <2>2 DEF TypeInv
<1>4. CASE CallStart(f)
  <2>1. todo' \in Seq(Jobs)
    <3>1. <<"stop", f>> \in Jobs /\ <<"start", f>> \in Jobs
      BY DEF Jobs
    <3> QED BY <1>4, <3>1 DEF CallStart
  <2>2. TypeOK'
    BY <1>4, <2>1 DEF TypeInv, TypeOK, CallStart, ports, wires, resources
  <2>3. StartsAlone'
    BY <1>4 DEF StartsAlone, CallStart
  <2>4. StartedOwnsTx'
    BY <1>4 DEF TypeInv, StartedOwnsTx, CallStart
  <2> QED BY <2>2, <2>3, <2>4 DEF TypeInv
<1>5. CASE CallStop(f) \/ AutoStop(f)
  <2>1. todo' = <<<<"stop", f>>>>
    BY <1>5 DEF CallStop, AutoStop
  <2>2. todo' \in Seq(Jobs)
    BY <2>1 DEF Jobs
  <2>3. TypeOK'
    BY <1>5, <2>2 DEF TypeInv, TypeOK, CallStop, AutoStop, ports, wires, resources
  <2>4. StartsAlone'
    BY <2>1 DEF StartsAlone
  <2>5. StartedOwnsTx'
    BY <1>5 DEF TypeInv, StartedOwnsTx, CallStop, AutoStop
  <2> QED BY <2>3, <2>4, <2>5 DEF TypeInv
<1> QED BY <1>1, <1>2, <1>3, <1>4, <1>5

\* The jobs that are left after the first still start only what is stopped.
LEMMA StartsAloneTail ==
  ASSUME TypeInv, todo # <<>>, todo' = Tail(todo),
         \A f \in Flows : flow'[f].is_started => flow[f].is_started,
         \A f \in Flows : Head(todo) = <<"stop", f>> => ~flow'[f].is_started
  PROVE  StartsAlone'
<1> SUFFICES ASSUME NEW j \in 1..Len(todo'), NEW f \in Flows, todo'[j] = <<"start", f>>
             PROVE  todo' = <<<<"start", f>>>> /\ ~flow'[f].is_started
  BY DEF StartsAlone
<1>1. j + 1 \in 1..Len(todo) /\ todo[j + 1] = <<"start", f>> /\ Head(todo) = todo[1]
  BY ProceedType DEF TypeInv
<1>2. todo = <<<<"stop", f>>, <<"start", f>>>>
  <2>1. todo # <<<<"start", f>>>>
    BY <1>1
  <2> QED BY <1>1, <2>1 DEF TypeInv, StartsAlone
<1>3. todo' = <<<<"start", f>>>>
  BY <1>2
<1>4. ~flow'[f].is_started
  BY <1>1, <1>2
<1> QED BY <1>3, <1>4

\* The stops of a call.
LEMMA TypeStops ==
  ASSUME TypeInv, NEW f \in Flows,
         StopIdle(f) \/ StopStarted(f) \/ StopFails(f) \/ StopAsserts(f)
  PROVE  TypeInv'
<1>0. Tail(todo) \in Seq(Jobs)
  BY ProceedType DEF TypeInv, StopIdle, StopStarted, StopFails, StopAsserts, Job
<1>1. CASE StopIdle(f)
  <2>1. TypeOK'
    BY <1>0, <1>1 DEF TypeInv, TypeOK, StopIdle, Proceed, ports, wires, resources
  <2>2. StartsAlone'
    BY <1>1, StartsAloneTail DEF StopIdle, Proceed, Job
  <2> QED BY <1>1, <2>1, <2>2 DEF TypeInv, StartedOwnsTx, StopIdle
<1>2. CASE StopStarted(f)
  <2>0. tx[f] # NoTx
    BY <1>2 DEF TypeInv, StartedOwnsTx, StopStarted
  <2>1. bound' \in [Ports -> Seq(Flows)]
    BY <1>2, UnbindType DEF TypeInv, StopStarted
  <2>2. /\ db_port_q' \in [Pids -> SUBSET Queues] /\ free_cell' \in Nat
        /\ hwq' \in [Pids -> [Queues -> Content]]
    BY <1>2, <2>0, ReleaseType DEF TypeInv, StopStarted
  <2>3. tx' = [tx EXCEPT ![f] = NoTx] /\ flow' = [flow EXCEPT ![f].is_started = FALSE]
    BY <1>2 DEF StopStarted
  <2>4. /\ tx' \in [Flows -> Tx \cup {NoTx}]
        /\ flow' \in [Flows -> TxImpl]
    BY <2>3, FlowField DEF TypeInv, TypeOK
  <2>5. TypeOK'
    BY <1>0, <1>2, <2>1, <2>2, <2>4 DEF TypeInv, TypeOK, StopStarted, Proceed, ports, wires
  <2>6. ~flow'[f].is_started /\ \A g \in Flows : g # f => flow'[g] = flow[g]
    BY <2>3 DEF TypeInv, TypeOK, TxImpl
  <2>7. StartedOwnsTx'
    BY <2>3, <2>6 DEF TypeInv, TypeOK, StartedOwnsTx
  <2>8. StartsAlone'
    <3>1. todo # <<>> /\ todo' = Tail(todo) /\ Head(todo) = <<"stop", f>>
      BY <1>2 DEF StopStarted, Proceed, Job
    <3>2. \A g \in Flows : Head(todo) = <<"stop", g>> => ~flow'[g].is_started
      <4>1. \A g \in Flows : Head(todo) = <<"stop", g>> => g = f
        BY <3>1
      <4> QED BY <2>6, <4>1
    <3>3. \A g \in Flows : flow'[g].is_started => flow[g].is_started
      BY <2>6
    <3> QED BY <3>1, <3>2, <3>3, StartsAloneTail
  <2> QED BY <2>5, <2>7, <2>8 DEF TypeInv
<1>3. CASE StopFails(f)
  <2>0. tx[f] # NoTx
    BY <1>3 DEF TypeInv, StartedOwnsTx, StopFails
  <2>1. bound' \in [Ports -> Seq(Flows)]
    BY <1>3, UnbindType DEF TypeInv, StopFails
  <2>2. hwq' \in [Pids -> [Queues -> Content]]
    BY <1>3, <2>0, ReleaseType DEF TypeInv, TypeOK, StopFails
  <2>3. TypeOK'
    BY <1>3, <2>1, <2>2 DEF TypeInv, TypeOK, StopFails, Throw, ports, wires, resources
  <2> QED BY <1>3, <2>3 DEF TypeInv, StartedOwnsTx, StartsAlone, StopFails, Throw
<1>4. CASE StopAsserts(f)
  <2>1. TypeOK'
    BY <1>4 DEF TypeInv, TypeOK, StopAsserts, ports, wires, resources
  <2> QED BY <1>4, <2>1 DEF TypeInv, StartedOwnsTx, StartsAlone, StopAsserts
<1> QED BY <1>1, <1>2, <1>3, <1>4

\* A start that ends in an exception leaves the hardware at most.
LEMMA StartDropped ==
  ASSUME TypeInv, hwq' \in [Pids -> [Queues -> Content]], todo' = <<>>,
         UNCHANGED <<ports, wires, resources, flow, tx, bound, aborted>>
  PROVE  TypeInv'
<1>1. TypeOK'
  BY DEF TypeInv, TypeOK, ports, wires, resources
<1> QED BY <1>1 DEF TypeInv, StartedOwnsTx, StartsAlone

\* The starts of a call.
LEMMA TypeStarts ==
  ASSUME TypeInv, NEW f \in Flows,
         \/ StartRefused(f) \/ StartNoCells(f) \/ StartFails(f) \/ StartAsserts(f)
         \/ StartOk(f)
  PROVE  TypeInv'
<1>1. CASE StartRefused(f)
  <2>1. TypeOK'
    BY <1>1 DEF TypeInv, TypeOK, StartRefused, Throw, ports, wires, resources
  <2> QED BY <1>1, <2>1 DEF TypeInv, StartedOwnsTx, StartsAlone, StartRefused, Throw
<1>2. CASE StartAsserts(f)
  <2>1. TypeOK'
    BY <1>2 DEF TypeInv, TypeOK, StartAsserts, ports, wires, resources
  <2> QED BY <1>2, <2>1 DEF TypeInv, StartedOwnsTx, StartsAlone, StartAsserts
<1>3. ASSUME StartNoCells(f) \/ StartFails(f) \/ StartOk(f)
      PROVE  /\ flow[f].port \in Ports /\ engine(flow[f].port) \in Pids
             /\ front(flow[f].port) \in Pids
             /\ flow[f].load \in Loads /\ flow[f].load \in Load
             /\ Grants(flow[f].port) \subseteq Queues
             /\ hwq \in [Pids -> [Queues -> Content]]
  <2>1. flow[f].port # None /\ flow[f].load # None
    BY <1>3 DEF StartNoCells, StartFails, StartOk, Ready
  <2>2. flow[f] \in TxImpl
    BY DEF TypeInv, TypeOK
  <2>3. flow[f].port \in Ports /\ flow[f].load \in Loads
    BY <2>1, <2>2 DEF TxImpl
  <2>4. flow[f].load \in Load
    BY <2>3, TxFlowAssumption
  <2>5. engine(flow[f].port) \in Pids /\ front(flow[f].port) \in Pids
    BY <2>3, PairType DEF TypeInv
  <2>6. Grants(flow[f].port) \subseteq Queues
    BY <2>5 DEF TypeInv, TypeOK, Grants
  <2> QED BY <2>3, <2>4, <2>5, <2>6 DEF TypeInv, TypeOK
<1>4. CASE StartNoCells(f)
  <2>1. hwq' \in [Pids -> [Queues -> Content]]
    <3>1. PICK q \in Grants(flow[f].port) : hwq' = Drained(engine(flow[f].port), q)
      BY <1>4 DEF StartNoCells
    <3>2. /\ engine(flow[f].port) \in Pids /\ q \in Queues
          /\ hwq \in [Pids -> [Queues -> Content]]
      BY <1>3, <1>4
    <3> QED BY <3>1, <3>2, DrainType
  <2>2. todo' = <<>> /\ UNCHANGED <<ports, wires, resources, flow, tx, bound, aborted>>
    BY <1>4 DEF StartNoCells, Throw
  <2> QED BY <2>1, <2>2, StartDropped
<1>5. CASE StartFails(f)
  <2> DEFINE d == engine(flow[f].port)
             l == flow[f].load
  <2>0. Speed(l) \in {"stopped", "slow", "normal"} /\ l.cells \in Nat
    BY <1>3, <1>5 DEF Speed, Load
  <2>1. hwq' \in [Pids -> [Queues -> Content]]
    <3>1. PICK q \in Grants(flow[f].port) :
            \/ hwq' = hwq
            \/ \E r \in {hwq[d][q].rate, Speed(l)} :
                 hwq' = [hwq EXCEPT ![d][q] = [cells |-> 0, rate |-> r]]
            \/ \E k \in 0..l.cells :
                 hwq' = [hwq EXCEPT ![d][q] = [cells |-> k, rate |-> "stopped"]]
      BY <1>5 DEF StartFails
    <3>2. d \in Pids /\ q \in Queues /\ hwq[d][q].rate \in {"stopped", "slow", "normal"}
      BY <1>3, <1>5 DEF Content
    <3> HIDE DEF d, l
    <3>3. CASE hwq' = hwq
      BY <1>3, <1>5, <3>3
    <3>4. ASSUME NEW r \in {hwq[d][q].rate, Speed(l)},
                 hwq' = [hwq EXCEPT ![d][q] = [cells |-> 0, rate |-> r]]
          PROVE  hwq' \in [Pids -> [Queues -> Content]]
      <4>1. [cells |-> 0, rate |-> r] \in Content
        BY <2>0, <3>2, <3>4 DEF Content
      <4> QED BY <1>3, <1>5, <3>2, <3>4, <4>1
    <3>5. ASSUME NEW k \in 0..l.cells,
                 hwq' = [hwq EXCEPT ![d][q] = [cells |-> k, rate |-> "stopped"]]
          PROVE  hwq' \in [Pids -> [Queues -> Content]]
      <4>1. [cells |-> k, rate |-> "stopped"] \in Content
        BY <2>0, <3>5 DEF Content
      <4> QED BY <1>3, <1>5, <3>2, <3>5, <4>1
    <3> QED BY <3>1, <3>3, <3>4, <3>5
  <2>2. todo' = <<>> /\ UNCHANGED <<ports, wires, resources, flow, tx, bound, aborted>>
    BY <1>5 DEF StartFails, Throw
  <2> QED BY <2>1, <2>2, StartDropped
<1>6. CASE StartOk(f)
  <2> DEFINE p == flow[f].port
             l == flow[f].load
             t(q) == [port |-> p, front |-> front(p), engine |-> engine(p),
                      cosq |-> q, cells |-> l.cells, burst |-> l.burst]
  <2>1. PICK q \in Grants(p) :
          /\ db_port_q' = [db_port_q EXCEPT ![engine(p)] = @ \ {q}, ![front(p)] = @ \ {q}]
          /\ hwq' = [hwq EXCEPT ![engine(p)][q] = [cells |-> l.cells, rate |-> Speed(l)]]
          /\ tx' = [tx EXCEPT ![f] = t(q)]
    BY <1>6 DEF StartOk
  <2>2. p \in Ports /\ engine(p) \in Pids /\ front(p) \in Pids /\ q \in Queues
    BY <1>3, <1>6
  <2>3. l.cells \in Nat \ {0} /\ l.burst \in BOOLEAN /\ Speed(l) \in {"stopped", "slow", "normal"}
    BY <1>3, <1>6 DEF Load, Speed
  <2>4. t(q) \in Tx /\ t(q) # NoTx
    <3>1. t(q) \in Tx
      BY <2>2, <2>3 DEF Tx
    <3>2. t(q).port # NoTx.port
      BY <2>2, TxFlowAssumption DEF NoTx
    <3> QED BY <3>1, <3>2
  <2>5. l.cells <= free_cell /\ free_cell' = free_cell - l.cells
    BY <1>6 DEF StartOk, Fits
  <2>6. /\ bound' = [bound EXCEPT ![p] = Append(@, f)]
        /\ flow' = [flow EXCEPT ![f].is_started = TRUE]
        /\ UNCHANGED <<ports, wires, aborted>> /\ todo' = Tail(todo)
        /\ todo # <<>> /\ Head(todo) = <<"start", f>>
    BY <1>6 DEF StartOk, Proceed, Job
  <2> HIDE DEF p, l, t
  <2>7. db_port_q' \in [Pids -> SUBSET Queues] /\ free_cell' \in Nat
    <3>1. db_port_q \in [Pids -> SUBSET Queues] /\ free_cell \in Nat
      BY DEF TypeInv, TypeOK
    <3>2. free_cell' \in Nat
      BY <2>3, <2>5, <3>1
    <3>3. db_port_q' \in [Pids -> SUBSET Queues]
      BY <2>1, <2>2, <3>1, TakenQueues
    <3> QED BY <3>2, <3>3
  <2>8. hwq' \in [Pids -> [Queues -> Content]]
    <3>1. [cells |-> l.cells, rate |-> Speed(l)] \in Content
      BY <2>3 DEF Content
    <3> QED BY <2>1, <2>2, <3>1 DEF TypeInv, TypeOK
  <2>9. tx' \in [Flows -> Tx \cup {NoTx}]
    BY <2>1, <2>4 DEF TypeInv, TypeOK
  <2>10. bound' \in [Ports -> Seq(Flows)]
    BY <2>2, <2>6 DEF TypeInv, TypeOK
  <2>11. flow' \in [Flows -> TxImpl]
    BY <2>6, FlowField DEF TypeInv
  <2>12. todo' = <<>>
    <3>1. todo[1] = <<"start", f>> /\ 1 \in 1..Len(todo)
      BY <2>6, ProceedType DEF TypeInv
    <3>2. todo = <<<<"start", f>>>>
      <4>1. todo # <<<<"stop", f>>, <<"start", f>>>>
        BY <3>1
      <4> QED BY <3>1, <4>1 DEF TypeInv, StartsAlone
    <3> QED BY <2>6, <3>2
  <2>13. TypeOK'
    BY <2>6, <2>7, <2>8, <2>9, <2>10, <2>11, <2>12 DEF TypeInv, TypeOK, ports, wires
  <2>14. StartedOwnsTx'
    <3> SUFFICES ASSUME NEW g \in Flows PROVE flow'[g].is_started <=> tx'[g] # NoTx
      BY DEF StartedOwnsTx
    <3>1. CASE g = f
      BY <2>1, <2>4, <2>6, <3>1 DEF TypeInv, TypeOK, TxImpl
    <3>2. CASE g # f
      BY <2>1, <2>6, <3>2 DEF TypeInv, TypeOK, StartedOwnsTx
    <3> QED BY <3>1, <3>2
  <2> QED BY <2>12, <2>13, <2>14 DEF TypeInv, StartsAlone
<1> QED BY <1>1, <1>2, <1>4, <1>5, <1>6

\* ~TX_FLOW.
LEMMA TypeDestroy ==
  ASSUME TypeInv, NEW f \in Flows, Destroy(f)
  PROVE  TypeInv'
<1>1. bound' \in [Ports -> Seq(Flows)]
  BY UnbindType DEF TypeInv, Destroy
<1>2. db_port_q' \in [Pids -> SUBSET Queues] /\ free_cell' \in Nat
  <2>1. CASE tx[f] = NoTx
    <3>1. UNCHANGED resources
      BY <2>1 DEF Destroy
    <3> QED BY <3>1 DEF TypeInv, TypeOK, resources
  <2>2. CASE tx[f] # NoTx
    <3>1. db_port_q' = Released(f) /\ free_cell' = Refunded(f)
      BY <2>2 DEF Destroy
    <3> QED BY <2>2, <3>1, ReleaseType DEF TypeInv
  <2> QED BY <2>1, <2>2
<1>3. /\ tx' = [tx EXCEPT ![f] = NoTx] /\ flow' = [flow EXCEPT ![f] = Absent]
      /\ todo = <<>> /\ todo' = todo
  BY DEF Destroy, Idle
<1>4. tx' \in [Flows -> Tx \cup {NoTx}] /\ flow' \in [Flows -> TxImpl]
  BY <1>3, FlowField DEF TypeInv, TypeOK
<1>5. TypeOK'
  BY <1>1, <1>2, <1>4 DEF TypeInv, TypeOK, Destroy, ports, wires
<1>6. StartedOwnsTx'
  BY <1>3 DEF TypeInv, TypeOK, StartedOwnsTx, Absent
<1> QED BY <1>3, <1>5, <1>6 DEF TypeInv, StartsAlone

\* Packets that leave the queues of a pair leave contents.
LEMMA UnloopedType ==
  ASSUME TypeInv, NEW p \in Ports
  PROVE  Unlooped(p) \in [Pids -> [Queues -> Content]]
<1>1. \A d \in Pids, q \in Queues : hwq[d][q] \in Content
  BY DEF TypeInv, TypeOK
<1>2. \A d \in Pids, q \in Queues : [hwq[d][q] EXCEPT !.cells = 0] \in Content
  BY <1>1 DEF Content
<1> QED BY <1>1, <1>2 DEF Unlooped

\* Pair and link changes.
LEMMA TypeNotify ==
  ASSUME TypeInv,
         \/ \E p \in Ports : Fork(p) \/ Quota(p) \/ Clear(p) \/ ReconfigureFails(p)
         \/ \E p \in Ports : \E i \in Itfs(p) : SetItf(p, i)
         \/ Dispatch
  PROVE  TypeInv'
<1>1. ASSUME NEW p \in Ports, Fork(p) PROVE TypeInv'
  <2>1. fork' \in ItfChoices
    BY <1>1 DEF TypeInv, TypeOK, Fork, ItfChoices
  <2>2. hwq' \in [Pids -> [Queues -> Content]]
    BY <1>1, UnloopedType DEF Fork
  <2>3. todo' \in Seq(Jobs) /\ todo' = Tail(todo) /\ todo # <<>> /\ Head(todo) = <<"fork", p>>
    BY <1>1, ProceedType DEF TypeInv, Fork, Proceed, Job
  <2>4. TypeOK'
    BY <1>1, <2>1, <2>2, <2>3 DEF TypeInv, TypeOK, Fork, wires, resources
  <2>5. StartsAlone'
    BY <1>1, <2>3, StartsAloneTail DEF Fork
  <2> QED BY <1>1, <2>4, <2>5 DEF TypeInv, StartedOwnsTx, Fork
<1>2. ASSUME NEW p \in Ports, Quota(p) PROVE TypeInv'
  <2>1. quota' \in ItfChoices
    BY <1>2 DEF TypeInv, TypeOK, Quota, ItfChoices
  <2>3. todo' \in Seq(Jobs) /\ todo' = Tail(todo) /\ todo # <<>> /\ Head(todo) = <<"quota", p>>
    BY <1>2, ProceedType DEF TypeInv, Quota, Proceed, Job
  <2>4. TypeOK'
    BY <1>2, <2>1, <2>3 DEF TypeInv, TypeOK, Quota, wires, resources
  <2>5. StartsAlone'
    BY <1>2, <2>3, StartsAloneTail DEF Quota
  <2> QED BY <1>2, <2>4, <2>5 DEF TypeInv, StartedOwnsTx, Quota
<1>3. ASSUME NEW p \in Ports, Clear(p) PROVE TypeInv'
  <2>3. todo' \in Seq(Jobs) /\ todo' = Tail(todo) /\ todo # <<>> /\ Head(todo) = <<"clear", p>>
    BY <1>3, ProceedType DEF TypeInv, Clear, Proceed, Job
  <2>4. TypeOK'
    BY <1>3, <2>3 DEF TypeInv, TypeOK, Clear, ports, wires, resources
  <2>5. StartsAlone'
    BY <1>3, <2>3, StartsAloneTail DEF Clear
  <2> QED BY <1>3, <2>4, <2>5 DEF TypeInv, StartedOwnsTx, Clear
<1>4. ASSUME NEW p \in Ports, ReconfigureFails(p) PROVE TypeInv'
  <2>1. hwq' \in [Pids -> [Queues -> Content]]
    BY <1>4, UnloopedType DEF TypeInv, TypeOK, ReconfigureFails
  <2>2. TypeOK'
    BY <1>4, <2>1 DEF TypeInv, TypeOK, ReconfigureFails, Throw, ports, wires, resources
  <2> QED BY <1>4, <2>2 DEF TypeInv, StartedOwnsTx, StartsAlone, ReconfigureFails, Throw
<1>5. ASSUME NEW p \in Ports, NEW i \in Itfs(p), SetItf(p, i) PROVE TypeInv'
  <2>1. itf' \in ItfChoices
    BY <1>5 DEF TypeInv, TypeOK, SetItf, ItfChoices
  <2>2. todo' = PairJobs(p)
    BY <1>5 DEF SetItf
  <2>3. todo' \in Seq(Jobs) /\ \A j \in 1..Len(todo'), f \in Flows : todo'[j] # <<"start", f>>
    <3> DEFINE n == Len(bound[p])
    <3>1. /\ n \in Nat /\ PairJobs(p) \in Seq(Jobs) /\ Len(PairJobs(p)) = n + 3
          /\ \A k \in 1..n : PairJobs(p)[k] = <<"stop", bound[p][n - k + 1]>>
          /\ PairJobs(p)[n + 1] = <<"fork", p>>
          /\ PairJobs(p)[n + 2] = <<"quota", p>>
          /\ PairJobs(p)[n + 3] = <<"clear", p>>
      BY PairJobsType DEF TypeInv
    <3> HIDE DEF n
    <3>2. ASSUME NEW j \in 1..(n + 3), NEW f \in Flows PROVE PairJobs(p)[j] # <<"start", f>>
      <4>1. j \in 1..n \/ j = n + 1 \/ j = n + 2 \/ j = n + 3
        BY <3>1
      <4> QED BY <3>1, <4>1
    <3> QED BY <2>2, <3>1, <3>2
  <2>4. TypeOK'
    BY <1>5, <2>1, <2>3 DEF TypeInv, TypeOK, SetItf, wires, resources
  <2> QED BY <1>5, <2>3, <2>4 DEF TypeInv, StartedOwnsTx, StartsAlone, SetItf
<1>6. CASE Dispatch
  <2>1. todo' \in Seq(Jobs) /\ \A j \in 1..Len(todo'), f \in Flows : todo'[j] # <<"start", f>>
    <3>1. todo' = LinkJobs(Head(events))
      BY <1>6 DEF Dispatch
    <3> QED BY <3>1, LinkJobsType DEF TypeInv
  <2>2. events' \in Seq([pid : Pids, link : BOOLEAN])
    BY <1>6 DEF TypeInv, TypeOK, Dispatch
  <2>3. TypeOK'
    BY <1>6, <2>1, <2>2 DEF TypeInv, TypeOK, Dispatch, ports, resources
  <2> QED BY <1>6, <2>1, <2>3 DEF TypeInv, StartedOwnsTx, StartsAlone, Dispatch
<1> QED BY <1>1, <1>2, <1>3, <1>4, <1>5, <1>6

\* The hardware.
LEMMA TypeHardware ==
  ASSUME TypeInv,
         \/ \E d \in Pids : LinkChange(d) \/ Resume(d)
         \/ \E f \in Flows : BurstEnds(f) \/ Hold(f)
  PROVE  TypeInv'
<1>1. ASSUME NEW d \in Pids, LinkChange(d) PROVE TypeInv'
  <2>1. events' \in Seq([pid : Pids, link : BOOLEAN]) /\ link' \in [Pids -> BOOLEAN]
    BY <1>1 DEF TypeInv, TypeOK, LinkChange
  <2>2. TypeOK'
    BY <1>1, <2>1 DEF TypeInv, TypeOK, LinkChange, ports, resources
  <2> QED BY <1>1, <2>2 DEF TypeInv, StartedOwnsTx, StartsAlone, LinkChange
<1>2. ASSUME NEW f \in Flows, BurstEnds(f) PROVE TypeInv'
  <2>1. hwq' \in [Pids -> [Queues -> Content]]
    BY <1>2, ReleaseType DEF TypeInv, BurstEnds
  <2>2. TypeOK'
    BY <1>2, <2>1 DEF TypeInv, TypeOK, BurstEnds, ports, wires, resources
  <2> QED BY <1>2, <2>2 DEF TypeInv, StartedOwnsTx, StartsAlone, BurstEnds
<1>3. ASSUME NEW f \in Flows, Hold(f) PROVE TypeInv'
  <2>1. tx[f].front \in Pids /\ tx[f].cosq \in Queues
    BY <1>3 DEF TypeInv, TypeOK, Tx, Hold
  <2>2. held' \subseteq Pids \X Queues
    BY <1>3, <2>1 DEF TypeInv, TypeOK, Hold
  <2>3. TypeOK'
    BY <1>3, <2>2 DEF TypeInv, TypeOK, Hold, ports, resources
  <2> QED BY <1>3, <2>3 DEF TypeInv, StartedOwnsTx, StartsAlone, Hold
<1>4. ASSUME NEW d \in Pids, Resume(d) PROVE TypeInv'
  <2>1. TypeOK'
    BY <1>4 DEF TypeInv, TypeOK, Resume, ports, resources
  <2> QED BY <1>4, <2>1 DEF TypeInv, StartedOwnsTx, StartsAlone, Resume
<1> QED BY <1>1, <1>2, <1>3, <1>4

\* Every step keeps the types.
LEMMA TypeStep ==
  ASSUME TypeInv, [Next]_vars PROVE TypeInv'
<1>1. CASE Next
  BY <1>1, NextCases, TypeCalls, TypeDestroy, TypeStops, TypeStarts, TypeNotify, TypeHardware
<1>2. CASE UNCHANGED vars
  BY <1>2 DEF vars, ports, wires, resources, TypeInv, TypeOK, StartedOwnsTx, StartsAlone
<1> QED BY <1>1, <1>2

\* Every variable of the model keeps its type, whichever SDK calls fail; free
\* cells never go below zero, and a started flow always has the TX that its
\* stop takes apart (flow.cpp:85-102).
THEOREM TypeCorrect == Spec => []TypeOK
<1>1. ASSUME TypeInv PROVE TypeOK
  BY <1>1 DEF TypeInv
<1> QED BY <1>1, TypeInit, TypeStep, PTL DEF Spec
-----------------------------------------------------------------------------
\* The flow of a start is stopped, so it owns no TX, and its start is the only
\* job.
LEMMA StartsStopped ==
  ASSUME TypeInv, NEW f \in Flows, Job("start", f)
  PROVE  todo = <<<<"start", f>>>> /\ ~flow[f].is_started /\ tx[f] = NoTx
<1>1. todo[1] = <<"start", f>> /\ 1 \in 1..Len(todo)
  BY ProceedType DEF TypeInv, Job
<1>2. todo # <<<<"stop", f>>, <<"start", f>>>>
  BY <1>1
<1> QED BY <1>1, <1>2 DEF TypeInv, StartsAlone, StartedOwnsTx

\* The TX that StartOk makes, and what it takes.
LEMMA StartOkTakes ==
  ASSUME TypeInv, NEW f \in Flows, StartOk(f)
  PROVE  LET p == flow[f].port
         IN  /\ p \in Ports /\ front(p) \in Pids /\ engine(p) \in Pids
             /\ tx' = [tx EXCEPT ![f] = tx'[f]]
             /\ tx'[f] \in Tx /\ tx'[f] # NoTx
             /\ tx'[f].port = p /\ tx'[f].front = front(p) /\ tx'[f].engine = engine(p)
             /\ tx'[f].cosq \in Grants(p)
             /\ \A d \in Pids : db_port_q'[d] = IF d \in {front(p), engine(p)}
                                               THEN db_port_q[d] \ {tx'[f].cosq} ELSE db_port_q[d]
<1> DEFINE p == flow[f].port
           l == flow[f].load
           t(q) == [port |-> p, front |-> front(p), engine |-> engine(p),
                    cosq |-> q, cells |-> l.cells, burst |-> l.burst]
<1>1. PICK q \in Grants(p) :
        /\ db_port_q' = [db_port_q EXCEPT ![engine(p)] = @ \ {q}, ![front(p)] = @ \ {q}]
        /\ tx' = [tx EXCEPT ![f] = t(q)]
  BY DEF StartOk
<1>2. p \in Ports /\ p # None
  BY TxFlowAssumption DEF TypeInv, TypeOK, TxImpl, StartOk, Ready
<1>3. front(p) \in Pids /\ engine(p) \in Pids
  BY <1>2, PairType DEF TypeInv
<1>4. tx'[f] = t(q)
  BY <1>1 DEF TypeInv, TypeOK
<1>5. tx' = [tx EXCEPT ![f] = tx'[f]]
  BY <1>1, <1>4
<1>6. tx'[f] # NoTx
  <2>1. t(q).port # NoTx.port
    BY <1>2 DEF NoTx
  <2> QED BY <1>4, <2>1
<1>7. tx'[f] \in Tx
  <2>1. tx' \in [Flows -> Tx \cup {NoTx}]
    BY TypeStarts DEF TypeInv, TypeOK
  <2> QED BY <1>6, <2>1
<1>8. \A d \in Pids : db_port_q'[d] = IF d \in {front(p), engine(p)}
                                     THEN db_port_q[d] \ {q} ELSE db_port_q[d]
  <2>1. db_port_q \in [Pids -> SUBSET Queues]
    BY DEF TypeInv, TypeOK
  <2> DEFINE a == engine(p)
             b == front(p)
  <2>2. a \in Pids /\ b \in Pids /\ db_port_q' = [db_port_q EXCEPT ![a] = @ \ {q}, ![b] = @ \ {q}]
    BY <1>1, <1>3
  <2> HIDE DEF a, b
  <2>3. LET left == [db_port_q EXCEPT ![a] = @ \ {q}, ![b] = @ \ {q}]
        IN  \A c \in Pids : left[c] = IF c \in {a, b} THEN db_port_q[c] \ {q} ELSE db_port_q[c]
    BY <2>1, <2>2, TakenQueues, Zenon
  <2> QED BY <2>2, <2>3 DEF a, b
<1>9. tx'[f].port = p /\ tx'[f].front = front(p) /\ tx'[f].engine = engine(p) /\ tx'[f].cosq = q
  BY <1>4
<1> QED BY <1>1, <1>2, <1>3, <1>5, <1>6, <1>7, <1>8, <1>9

\* A TX that goes gives its two queues back, and nobody else's.
LEMMA QueuesReleased ==
  ASSUME TypeInv, QueuesOwned, NEW f \in Flows, tx[f] # NoTx,
         tx' = [tx EXCEPT ![f] = NoTx], db_port_q' = Released(f)
  PROVE  QueuesOwned'
<1> SUFFICES ASSUME NEW d \in Pids
             PROVE  /\ db_port_q'[d] = QueuesOf[d] \ QueuesHeld(d)'
                    /\ QueuesHeld(d)' \subseteq QueuesOf[d]
                    /\ \A g, h \in Flows :
                         Holds(g, d)' /\ Holds(h, d)' /\ tx'[g].cosq = tx'[h].cosq => g = h
  BY DEF QueuesOwned
<1>1. /\ db_port_q[d] = QueuesOf[d] \ QueuesHeld(d) /\ QueuesHeld(d) \subseteq QueuesOf[d]
      /\ \A g, h \in Flows : Holds(g, d) /\ Holds(h, d) /\ tx[g].cosq = tx[h].cosq => g = h
  BY DEF QueuesOwned
<1>2. db_port_q'[d] = IF Holds(f, d) THEN db_port_q[d] \cup {tx[f].cosq} ELSE db_port_q[d]
  BY ReleaseType DEF TypeInv
<1>3. \A g \in Flows : /\ Holds(g, d)' <=> Holds(g, d) /\ g # f
                       /\ g # f => tx'[g] = tx[g]
  BY DEF TypeInv, TypeOK, Holds
<1>4. QueuesHeld(d)' = IF Holds(f, d) THEN QueuesHeld(d) \ {tx[f].cosq} ELSE QueuesHeld(d)
  <2>2. ASSUME NEW q
        PROVE  q \in QueuesHeld(d)' <=> \E g \in Flows : Holds(g, d) /\ g # f /\ tx[g].cosq = q
    BY <1>3 DEF QueuesHeld
  <2>3. ASSUME NEW q
        PROVE  q \in QueuesHeld(d) <=> \E g \in Flows : Holds(g, d) /\ tx[g].cosq = q
    BY DEF QueuesHeld
  <2>4. CASE Holds(f, d)
    <3>1. ASSUME NEW q PROVE q \in QueuesHeld(d)' <=> q \in QueuesHeld(d) /\ q # tx[f].cosq
      BY <1>1, <2>2, <2>3, <2>4
    <3> QED BY <2>4, <3>1
  <2>5. CASE ~Holds(f, d)
    <3>1. ASSUME NEW q PROVE q \in QueuesHeld(d)' <=> q \in QueuesHeld(d)
      BY <2>2, <2>3, <2>5
    <3> QED BY <2>5, <3>1
  <2> QED BY <2>4, <2>5
<1>5. Holds(f, d) => tx[f].cosq \in QueuesHeld(d)
  BY DEF QueuesHeld
<1>6. db_port_q'[d] = QueuesOf[d] \ QueuesHeld(d)' /\ QueuesHeld(d)' \subseteq QueuesOf[d]
  BY <1>1, <1>2, <1>4, <1>5
<1>7. ASSUME NEW g \in Flows, NEW h \in Flows, Holds(g, d)', Holds(h, d)',
             tx'[g].cosq = tx'[h].cosq
      PROVE  g = h
  <2>1. Holds(g, d) /\ Holds(h, d) /\ tx'[g] = tx[g] /\ tx'[h] = tx[h]
    BY <1>3, <1>7
  <2> QED BY <1>1, <1>7, <2>1
<1> QED BY <1>6, <1>7 DEF Holds

\* A start takes two queues nobody holds.
LEMMA QueuesTaken ==
  ASSUME TypeInv, QueuesOwned, NEW f \in Flows, StartOk(f)
  PROVE  QueuesOwned'
<1> DEFINE p == flow[f].port
           q == tx'[f].cosq
<1>0. tx[f] = NoTx
  BY StartsStopped DEF StartOk
<1> SUFFICES ASSUME NEW d \in Pids
             PROVE  /\ db_port_q'[d] = QueuesOf[d] \ QueuesHeld(d)'
                    /\ QueuesHeld(d)' \subseteq QueuesOf[d]
                    /\ \A g, h \in Flows :
                         Holds(g, d)' /\ Holds(h, d)' /\ tx'[g].cosq = tx'[h].cosq => g = h
  BY DEF QueuesOwned
<1>1. /\ db_port_q[d] = QueuesOf[d] \ QueuesHeld(d) /\ QueuesHeld(d) \subseteq QueuesOf[d]
      /\ \A g, h \in Flows : Holds(g, d) /\ Holds(h, d) /\ tx[g].cosq = tx[h].cosq => g = h
  BY DEF QueuesOwned
<1>2. db_port_q'[d] = IF Holds(f, d)' THEN db_port_q[d] \ {q} ELSE db_port_q[d]
  BY StartOkTakes DEF Holds
<1>3. Holds(f, d)' => q \in db_port_q[d]
  BY StartOkTakes DEF Holds, Grants
<1>4. \A g \in Flows : /\ g # f => (Holds(g, d)' <=> Holds(g, d)) /\ tx'[g] = tx[g]
                       /\ ~Holds(f, d)
  BY <1>0, StartOkTakes DEF TypeInv, TypeOK, Holds
<1>5. QueuesHeld(d)' = IF Holds(f, d)' THEN QueuesHeld(d) \cup {q} ELSE QueuesHeld(d)
  <2>1. ASSUME NEW x
        PROVE  x \in QueuesHeld(d)' <=> \E g \in Flows : Holds(g, d)' /\ tx'[g].cosq = x
    BY DEF QueuesHeld
  <2>2. ASSUME NEW x
        PROVE  x \in QueuesHeld(d) <=> \E g \in Flows : Holds(g, d) /\ tx[g].cosq = x
    BY DEF QueuesHeld
  <2>3. CASE Holds(f, d)'
    <3>1. ASSUME NEW x PROVE x \in QueuesHeld(d)' <=> x \in QueuesHeld(d) \/ x = q
      BY <1>4, <2>1, <2>2, <2>3
    <3> QED BY <2>3, <3>1
  <2>4. CASE ~Holds(f, d)'
    <3>1. ASSUME NEW x PROVE x \in QueuesHeld(d)' <=> x \in QueuesHeld(d)
      BY <1>4, <2>1, <2>2, <2>4
    <3> QED BY <2>4, <3>1
  <2> QED BY <2>3, <2>4
<1>6. db_port_q'[d] = QueuesOf[d] \ QueuesHeld(d)' /\ QueuesHeld(d)' \subseteq QueuesOf[d]
  BY <1>1, <1>2, <1>3, <1>5
<1>7. ASSUME NEW g \in Flows, NEW h \in Flows, Holds(g, d)', Holds(h, d)',
             tx'[g].cosq = tx'[h].cosq
      PROVE  g = h
  <2>1. ASSUME NEW k \in Flows, k # f, Holds(k, d)', Holds(f, d)' PROVE tx'[k].cosq # q
    <3>1. tx[k].cosq \in QueuesHeld(d) /\ tx'[k] = tx[k]
      BY <1>4, <2>1 DEF QueuesHeld
    <3> QED BY <1>1, <1>3, <2>1, <3>1
  <2>2. CASE g # f /\ h # f
    BY <1>1, <1>4, <1>7, <2>2
  <2>3. CASE g = f \/ h = f
    BY <1>7, <2>1, <2>3
  <2> QED BY <2>2, <2>3
<1> QED BY <1>6, <1>7 DEF Holds

\* Every step keeps the queues owned.
LEMMA QueuesStep ==
  ASSUME TypeInv, QueuesOwned, [Next]_vars PROVE QueuesOwned'
<1>1. ASSUME UNCHANGED <<tx, db_port_q>> PROVE QueuesOwned'
  BY <1>1 DEF QueuesOwned, QueuesHeld, Holds
<1>2. ASSUME NEW f \in Flows, Destroy(f) PROVE QueuesOwned'
  <2>1. CASE tx[f] = NoTx
    <3>1. tx' = tx
      BY <1>2, <2>1 DEF TypeInv, TypeOK, Destroy
    <3>2. db_port_q' = db_port_q
      BY <1>2, <2>1 DEF Destroy, resources
    <3> QED BY <1>1, <3>1, <3>2
  <2>2. CASE tx[f] # NoTx
    <3>1. tx' = [tx EXCEPT ![f] = NoTx] /\ db_port_q' = Released(f)
      BY <1>2, <2>2 DEF Destroy
    <3> QED BY <2>2, <3>1, QueuesReleased
  <2> QED BY <2>1, <2>2
<1>3. ASSUME NEW f \in Flows, StopStarted(f) PROVE QueuesOwned'
  <2>1. tx[f] # NoTx /\ tx' = [tx EXCEPT ![f] = NoTx] /\ db_port_q' = Released(f)
    BY <1>3 DEF TypeInv, StartedOwnsTx, StopStarted
  <2> QED BY <2>1, QueuesReleased
<1>4. ASSUME NEW f \in Flows, StartOk(f) PROVE QueuesOwned'
  BY <1>4, QueuesTaken
<1>5. ASSUME NEW f \in Flows,
             \/ Create(f) \/ CallStart(f) \/ CallStop(f) \/ AutoStop(f)
             \/ StopIdle(f) \/ StopFails(f) \/ StopAsserts(f)
             \/ StartRefused(f) \/ StartNoCells(f) \/ StartFails(f) \/ StartAsserts(f)
             \/ BurstEnds(f) \/ Hold(f)
             \/ \E p \in Ports : SetPort(f, p)
             \/ \E l \in Loads : SetLoad(f, l)
      PROVE  UNCHANGED <<tx, db_port_q>>
  BY <1>5 DEF Create, CallStart, CallStop, AutoStop, StopIdle, StopFails, StopAsserts, StartRefused,
              StartNoCells, StartFails, StartAsserts, BurstEnds, Hold, SetPort, SetLoad, resources
<1>6. ASSUME \/ \E p \in Ports : Fork(p) \/ Quota(p) \/ Clear(p) \/ ReconfigureFails(p)
             \/ \E p \in Ports : \E i \in Itfs(p) : SetItf(p, i)
             \/ \E d \in Pids : LinkChange(d) \/ Resume(d)
             \/ Dispatch
             \/ UNCHANGED vars
      PROVE  UNCHANGED <<tx, db_port_q>>
  BY <1>6 DEF Fork, Quota, Clear, ReconfigureFails, SetItf, LinkChange, Resume, Dispatch, vars, resources
<1> QED BY <1>1, <1>2, <1>3, <1>4, <1>5, <1>6, NextCases

\* "in case of failure, resource would be free automatically" (flow.cpp:52),
\* for any number of flows, ports and queues and whichever SDK calls fail:
\* every queue of a port is free or held by exactly one flow.
THEOREM QueuesAreOwned == Spec => []QueuesOwned
<1>1. ASSUME Init PROVE QueuesOwned
  BY <1>1 DEF Init, QueuesOwned, QueuesHeld, Holds
<1> QED BY <1>1, TypeInit, TypeStep, QueuesStep, PTL DEF Spec
-----------------------------------------------------------------------------
\* Cells.

\* What the flows have reserved after one TX came or went.
LEMMA ReservedChanges ==
  ASSUME TypeInv, TypeInv', NEW f \in Flows, \A g \in Flows \ {f} : tx'[g] = tx[g]
  PROVE  /\ SumFunction(Reserved) \in Nat /\ SumFunction(Reserved)' \in Nat
         /\ SumFunction(Reserved)' + Reserved[f] = SumFunction(Reserved) + Reserved'[f]
<1>1. DOMAIN Reserved = Flows /\ DOMAIN Reserved' = Flows /\ IsFiniteSet(Flows)
  BY TxFlowAssumption DEF Reserved
<1>2. \A g \in Flows : Reserved[g] \in Nat /\ Reserved'[g] \in Nat
  BY DEF Reserved, TypeInv, TypeOK, Tx
<1>3. \A g \in Flows \ {f} : Reserved[g] = Reserved'[g]
  BY DEF Reserved
<1> HIDE DEF Reserved
<1>4. SumFunctionOnSet(Reserved', Flows) + Reserved[f]
        = SumFunctionOnSet(Reserved, Flows) + Reserved'[f]
  BY <1>1, <1>2, <1>3, SumChanges
<1>5. SumFunctionOnSet(Reserved, Flows) \in Nat /\ SumFunctionOnSet(Reserved', Flows) \in Nat
  BY <1>1, <1>2, SumNat
<1> QED
  BY <1>1, <1>4, <1>5 DEF SumFunction

\* Every step keeps the cells counted.
LEMMA CellsStep ==
  ASSUME TypeInv, TypeInv', CellsCounted, [Next]_vars
  PROVE  CellsCounted'
<1>1. Cells \in Nat /\ free_cell \in Nat /\ free_cell' \in Nat
  BY TxFlowAssumption DEF TypeInv, TypeOK
<1>2. ASSUME UNCHANGED <<tx, free_cell>> PROVE CellsCounted'
  BY <1>2 DEF CellsCounted, Reserved
<1>3. ASSUME NEW f \in Flows, tx[f] # NoTx, tx' = [tx EXCEPT ![f] = NoTx],
             free_cell' = Refunded(f)
      PROVE  CellsCounted'
  <2>1. (\A g \in Flows \ {f} : tx'[g] = tx[g]) /\ tx'[f] = NoTx
    BY <1>3 DEF TypeInv, TypeOK
  <2>2. Reserved[f] = tx[f].cells /\ Reserved'[f] = 0 /\ tx[f].cells \in Nat
    BY <1>3, <2>1 DEF Reserved, TypeInv, TypeOK, Tx
  <2>3. free_cell' = free_cell + Reserved[f]
    BY <1>3, <2>2 DEF Refunded
  <2>4. SumFunction(Reserved) \in Nat
        /\ SumFunction(Reserved)' + Reserved[f] = SumFunction(Reserved) + Reserved'[f]
    BY <2>1, ReservedChanges
  <2>5. SumFunction(Reserved)' + Reserved[f] = SumFunction(Reserved)
    BY <2>2, <2>4
  <2>6. SumFunction(Reserved)' = SumFunction(Reserved) - Reserved[f]
    <3>1. SumFunction(Reserved)' \in Nat
      BY <2>1, ReservedChanges
    <3> QED
      BY <2>2, <2>4, <2>5, <3>1
  <2> QED
    BY <1>1, <2>2, <2>3, <2>4, <2>6 DEF CellsCounted
<1>4. ASSUME NEW f \in Flows, Destroy(f) PROVE CellsCounted'
  <2>1. CASE tx[f] = NoTx
    <3>1. UNCHANGED <<tx, free_cell>>
      BY <1>4, <2>1 DEF TypeInv, TypeOK, Destroy, resources
    <3> QED
      BY <1>2, <3>1
  <2>2. CASE tx[f] # NoTx
    <3>1. tx' = [tx EXCEPT ![f] = NoTx] /\ free_cell' = Refunded(f)
      BY <1>4, <2>2 DEF Destroy
    <3> QED
      BY <1>3, <2>2, <3>1
  <2> QED
    BY <2>1, <2>2
<1>5. ASSUME NEW f \in Flows, StopStarted(f) PROVE CellsCounted'
  <2>1. tx[f] # NoTx /\ tx' = [tx EXCEPT ![f] = NoTx] /\ free_cell' = Refunded(f)
    BY <1>5 DEF TypeInv, StartedOwnsTx, StopStarted
  <2> QED
    BY <1>3, <2>1
<1>6. ASSUME NEW f \in Flows, StartOk(f) PROVE CellsCounted'
  <2>1. tx[f] = NoTx
    BY <1>6, StartsStopped DEF StartOk
  <2>2. tx'[f] # NoTx /\ tx'[f] \in Tx /\ \A g \in Flows \ {f} : tx'[g] = tx[g]
    <3>1. tx' = [tx EXCEPT ![f] = tx'[f]] /\ tx'[f] # NoTx /\ tx'[f] \in Tx
      BY <1>6, StartOkTakes
    <3> QED
      BY <3>1 DEF TypeInv, TypeOK
  <2>3. tx'[f].cells = flow[f].load.cells
    BY <1>6 DEF StartOk, TypeInv, TypeOK
  <2>4. free_cell' = free_cell - tx'[f].cells
    BY <1>6, <2>3 DEF StartOk
  <2>5. Reserved[f] = 0 /\ Reserved'[f] = tx'[f].cells /\ tx'[f].cells \in Nat
    BY <2>1, <2>2 DEF Reserved, Tx
  <2>6. /\ SumFunction(Reserved) \in Nat /\ SumFunction(Reserved)' \in Nat
        /\ SumFunction(Reserved)' + Reserved[f] = SumFunction(Reserved) + Reserved'[f]
    BY <2>2, ReservedChanges
  <2>7. SumFunction(Reserved)' = SumFunction(Reserved) + tx'[f].cells
    BY <2>5, <2>6
  <2> QED
    BY <1>1, <2>4, <2>5, <2>6, <2>7 DEF CellsCounted
<1>7. ASSUME NEW f \in Flows,
             \/ Create(f) \/ CallStart(f) \/ CallStop(f) \/ AutoStop(f)
             \/ StopIdle(f) \/ StopFails(f) \/ StopAsserts(f)
             \/ StartRefused(f) \/ StartNoCells(f) \/ StartFails(f) \/ StartAsserts(f)
             \/ BurstEnds(f) \/ Hold(f)
             \/ \E p \in Ports : SetPort(f, p)
             \/ \E l \in Loads : SetLoad(f, l)
      PROVE  UNCHANGED <<tx, free_cell>>
  BY <1>7 DEF Create, CallStart, CallStop, AutoStop, StopIdle, StopFails, StopAsserts, StartRefused,
              StartNoCells, StartFails, StartAsserts, BurstEnds, Hold, SetPort, SetLoad, resources
<1>8. ASSUME \/ \E p \in Ports : Fork(p) \/ Quota(p) \/ Clear(p) \/ ReconfigureFails(p)
             \/ \E p \in Ports : \E i \in Itfs(p) : SetItf(p, i)
             \/ \E d \in Pids : LinkChange(d) \/ Resume(d)
             \/ Dispatch
             \/ UNCHANGED vars
      PROVE  UNCHANGED <<tx, free_cell>>
  BY <1>8 DEF Fork, Quota, Clear, ReconfigureFails, SetItf, LinkChange, Resume, Dispatch, vars, resources
<1> QED
  BY <1>2, <1>4, <1>5, <1>6, <1>7, <1>8, NextCases

\* Before any flow runs all cells are free.
LEMMA CellsInit == Init => CellsCounted
<1> SUFFICES ASSUME Init PROVE CellsCounted
  OBVIOUS
<1>1. DOMAIN Reserved = Flows /\ IsFiniteSet(Flows) /\ \A f \in Flows : Reserved[f] = 0
  BY TxFlowAssumption DEF Init, Reserved
<1> HIDE DEF Reserved
<1>2. SumFunctionOnSet(Reserved, Flows) \in Nat
  BY <1>1, SumNat
<1>3. SumFunctionOnSet(Reserved, Flows) <= 0 * Cardinality(Flows)
  BY <1>1, SumAtMost
<1>4. 0 * Cardinality(Flows) = 0
  BY <1>1, FS_CardinalityType
<1> QED
  BY <1>1, <1>2, <1>3, <1>4, TxFlowAssumption DEF Init, CellsCounted, SumFunction

\* No cell is lost and none is given twice (db_free_cell of mmu.cpp), whichever
\* SDK calls fail and with started flows destroyed.
THEOREM CellsAreCounted == Spec => []CellsCounted
<1>1. TypeInv /\ CellsCounted /\ [Next]_vars => TypeInv' /\ CellsCounted'
  BY TypeStep, CellsStep
<1> QED
  BY <1>1, TypeInit, CellsInit, PTL DEF Spec
-----------------------------------------------------------------------------
\* What the hardware queues hold.

\* Emptying one queue leaves the others alone.
LEMMA DrainedContent ==
  ASSUME TypeOK, NEW d \in Pids, NEW q \in Queues, hwq' = Drained(d, q)
  PROVE  \A e \in Pids, r \in Queues :
           /\ hwq'[e][r].rate = hwq[e][r].rate
           /\ hwq'[e][r].cells = IF e = d /\ r = q THEN 0 ELSE hwq[e][r].cells
<1>1. hwq \in [Pids -> [Queues -> Content]]
  BY DEF TypeOK
<1> QED
  BY <1>1 DEF Drained, Content

\* A start puts its load in its queue; one that fails puts what it leaves in a
\* queue of the pair.
LEMMA StartContent ==
  ASSUME TypeInv, NEW f \in Flows, StartOk(f)
  PROVE  \A e \in Pids, r \in Queues :
           hwq'[e][r] = IF e = tx'[f].engine /\ r = tx'[f].cosq
                        THEN [cells |-> tx'[f].cells, rate |-> Speed(flow[f].load)]
                        ELSE hwq[e][r]
<1> DEFINE p == flow[f].port
           l == flow[f].load
<1>1. PICK q \in Grants(p) :
        /\ hwq' = [hwq EXCEPT ![engine(p)][q] = [cells |-> l.cells, rate |-> Speed(l)]]
        /\ tx' = [tx EXCEPT ![f] = [port |-> p, front |-> front(p), engine |-> engine(p),
                                    cosq |-> q, cells |-> l.cells, burst |-> l.burst]]
  BY DEF StartOk
<1>2. tx'[f].engine = engine(p) /\ tx'[f].cosq = q /\ tx'[f].cells = l.cells
  BY <1>1 DEF TypeInv, TypeOK
<1>3. hwq \in [Pids -> [Queues -> Content]]
  BY DEF TypeInv, TypeOK
<1> QED
  BY <1>1, <1>2, <1>3

\* The other steps, as far as the queues go: most leave them alone, or empty
\* some; StartFails may write to one, and with no failure among the insertions
\* it leaves that empty.
LEMMA ContentSteps ==
  ASSUME TypeInv, [Next]_vars, "insert" \notin Faults, \A f \in Flows : ~StartOk(f)
  PROVE  \A e \in Pids, r \in Queues :
           \/ hwq'[e][r] = hwq[e][r]
           \/ hwq'[e][r].cells = 0
<1>1. hwq \in [Pids -> [Queues -> Content]]
  BY DEF TypeInv, TypeOK
<1>2. ASSUME NEW d \in Pids, NEW q \in Queues, hwq' = Drained(d, q)
      PROVE  \A e \in Pids, r \in Queues : hwq'[e][r] = hwq[e][r] \/ hwq'[e][r].cells = 0
  BY <1>1, <1>2 DEF Drained, Content
<1>3. ASSUME NEW f \in Flows, Job("start", f), Ready(f)
      PROVE  flow[f].port \in Ports /\ engine(flow[f].port) \in Pids
             /\ Grants(flow[f].port) \subseteq Queues
  <2>1. flow[f].port \in Ports
    BY <1>3, TxFlowAssumption DEF TypeInv, TypeOK, TxImpl, Ready
  <2>2. engine(flow[f].port) \in Pids
    BY <2>1, PairType DEF TypeInv
  <2> QED
    BY <2>1, <2>2 DEF Grants, TypeInv, TypeOK
<1>4. ASSUME NEW f \in Flows, StopStarted(f) \/ StopFails(f) \/ BurstEnds(f)
      PROVE  \A e \in Pids, r \in Queues : hwq'[e][r] = hwq[e][r] \/ hwq'[e][r].cells = 0
  <2>1. tx[f] # NoTx
    BY <1>4 DEF TypeInv, StartedOwnsTx, StopStarted, StopFails, BurstEnds
  <2>2. tx[f].engine \in Pids /\ tx[f].cosq \in Queues
    BY <2>1 DEF TypeInv, TypeOK, Tx
  <2>3. hwq' = hwq \/ hwq' = Drained(tx[f].engine, tx[f].cosq)
    BY <1>4 DEF StopStarted, StopFails, BurstEnds
  <2> QED
    BY <1>2, <2>2, <2>3
<1>5. ASSUME NEW f \in Flows, StartNoCells(f)
      PROVE  \A e \in Pids, r \in Queues : hwq'[e][r] = hwq[e][r] \/ hwq'[e][r].cells = 0
  <2>1. PICK q \in Grants(flow[f].port) : hwq' = Drained(engine(flow[f].port), q)
    BY <1>5 DEF StartNoCells
  <2>2. q \in Queues /\ engine(flow[f].port) \in Pids
    BY <1>3, <1>5 DEF StartNoCells
  <2> QED
    BY <1>2, <2>1, <2>2
<1>6. ASSUME NEW f \in Flows, StartFails(f)
      PROVE  \A e \in Pids, r \in Queues : hwq'[e][r] = hwq[e][r] \/ hwq'[e][r].cells = 0
  <2>1. PICK q \in Grants(flow[f].port) :
          \/ hwq' = hwq
          \/ \E r \in {hwq[engine(flow[f].port)][q].rate, Speed(flow[f].load)} :
               hwq' = [hwq EXCEPT ![engine(flow[f].port)][q] = [cells |-> 0, rate |-> r]]
    BY <1>6 DEF StartFails
  <2>2. q \in Queues /\ engine(flow[f].port) \in Pids
    BY <1>3, <1>6 DEF StartFails
  <2> QED
    BY <1>1, <2>1, <2>2
<1>7. ASSUME NEW p \in Ports, hwq' = Unlooped(p)
      PROVE  \A e \in Pids, r \in Queues : hwq'[e][r] = hwq[e][r] \/ hwq'[e][r].cells = 0
  <2>1. \A e \in Pids, r \in Queues :
          hwq'[e][r] = IF e \in PidsOf(p) /\ hwq[e][r].rate # "stopped"
                       THEN [hwq[e][r] EXCEPT !.cells = 0] ELSE hwq[e][r]
    BY <1>7 DEF Unlooped
  <2>2. ASSUME NEW e \in Pids, NEW r \in Queues
        PROVE  hwq'[e][r] = hwq[e][r] \/ hwq'[e][r].cells = 0
    <3>1. [hwq[e][r] EXCEPT !.cells = 0].cells = 0
      BY <1>1 DEF Content
    <3> QED
      BY <2>1, <3>1
  <2> QED
    BY <2>2
<1>8. ASSUME NEW f \in Flows,
             \/ Create(f) \/ Destroy(f) \/ CallStart(f) \/ CallStop(f) \/ AutoStop(f)
             \/ StopIdle(f) \/ StopAsserts(f) \/ StartRefused(f) \/ StartAsserts(f) \/ Hold(f)
             \/ \E p \in Ports : SetPort(f, p)
             \/ \E l \in Loads : SetLoad(f, l)
      PROVE  hwq' = hwq
  BY <1>8 DEF Create, Destroy, CallStart, CallStop, AutoStop, StopIdle, StopAsserts, StartRefused,
              StartAsserts, Hold, SetPort, SetLoad
<1>9. ASSUME \/ \E p \in Ports : Quota(p) \/ Clear(p)
             \/ \E p \in Ports : \E i \in Itfs(p) : SetItf(p, i)
             \/ \E d \in Pids : LinkChange(d) \/ Resume(d)
             \/ Dispatch
             \/ UNCHANGED vars
      PROVE  hwq' = hwq
  BY <1>9 DEF Quota, Clear, SetItf, LinkChange, Resume, Dispatch, vars
<1>10. CASE hwq' = hwq
  BY <1>10
<1>11. ASSUME \E p \in Ports : Fork(p) \/ ReconfigureFails(p)
       PROVE  \A e \in Pids, r \in Queues : hwq'[e][r] = hwq[e][r] \/ hwq'[e][r].cells = 0
  BY <1>7, <1>10, <1>11 DEF Fork, ReconfigureFails
<1> QED
  BY <1>4, <1>5, <1>6, <1>8, <1>9, <1>10, <1>11, NextCases

\* Who has a TX after a step other than a start has had it before, and nobody
\* but a stop takes it away.
LEMMA TxSteps ==
  ASSUME TypeInv, [Next]_vars, ~DestroyAny, NEW g \in Flows, ~StartOk(g)
  PROVE  tx'[g] = tx[g] \/ (tx[g] # NoTx /\ tx'[g] = NoTx /\ StopStarted(g))
<1>1. ASSUME NEW f \in Flows, StartOk(f) PROVE tx'[g] = tx[g]
  <2>1. tx' = [tx EXCEPT ![f] = tx'[f]] /\ f # g
    BY <1>1, StartOkTakes
  <2> QED
    BY <2>1 DEF TypeInv, TypeOK
<1>2. ASSUME NEW f \in Flows, Destroy(f) PROVE tx'[g] = tx[g]
  <2>1. tx[f] = NoTx /\ tx' = [tx EXCEPT ![f] = NoTx]
    BY <1>2 DEF Destroy, TypeInv, StartedOwnsTx
  <2> QED
    BY <2>1 DEF TypeInv, TypeOK
<1>3. ASSUME NEW f \in Flows, StopStarted(f)
      PROVE  tx'[g] = tx[g] \/ (tx[g] # NoTx /\ tx'[g] = NoTx /\ StopStarted(g))
  BY <1>3 DEF StopStarted, TypeInv, TypeOK, StartedOwnsTx
<1>4. ASSUME NEW f \in Flows,
             \/ Create(f) \/ CallStart(f) \/ CallStop(f) \/ AutoStop(f)
             \/ StopIdle(f) \/ StopFails(f) \/ StopAsserts(f)
             \/ StartRefused(f) \/ StartNoCells(f) \/ StartFails(f) \/ StartAsserts(f)
             \/ BurstEnds(f) \/ Hold(f)
             \/ \E p \in Ports : SetPort(f, p)
             \/ \E l \in Loads : SetLoad(f, l)
      PROVE  tx' = tx
  BY <1>4 DEF Create, CallStart, CallStop, AutoStop, StopIdle, StopFails, StopAsserts, StartRefused,
              StartNoCells, StartFails, StartAsserts, BurstEnds, Hold, SetPort, SetLoad
<1>5. ASSUME \/ \E p \in Ports : Fork(p) \/ Quota(p) \/ Clear(p) \/ ReconfigureFails(p)
             \/ \E p \in Ports : \E i \in Itfs(p) : SetItf(p, i)
             \/ \E d \in Pids : LinkChange(d) \/ Resume(d)
             \/ Dispatch
             \/ UNCHANGED vars
      PROVE  tx' = tx
  BY <1>5 DEF Fork, Quota, Clear, ReconfigureFails, SetItf, LinkChange, Resume, Dispatch, vars
<1> QED
  BY <1>1, <1>2, <1>3, <1>4, <1>5, NextCases

\* Every step keeps what waits covered.
LEMMA CoveredStep ==
  ASSUME "insert" \notin Faults, ~DestroyAny, TypeInv, TypeInv', Covered, [Next]_vars
  PROVE  Covered'
<1> SUFFICES ASSUME NEW d \in Pids, NEW q \in Queues, hwq'[d][q].cells > 0
             PROVE  \E f \in Flows : /\ tx'[f] # NoTx
                                     /\ tx'[f].engine = d /\ tx'[f].cosq = q
                                     /\ hwq'[d][q].cells <= tx'[f].cells
  BY DEF Covered, Live
<1>1. ASSUME NEW f \in Flows, StartOk(f), d = tx'[f].engine, q = tx'[f].cosq
      PROVE  tx'[f] # NoTx /\ hwq'[d][q].cells <= tx'[f].cells
  <2>1. tx'[f] # NoTx /\ tx'[f] \in Tx
    BY <1>1, StartOkTakes
  <2>2. hwq'[d][q] = [cells |-> tx'[f].cells, rate |-> Speed(flow[f].load)]
    BY <1>1, StartContent
  <2> QED
    BY <2>1, <2>2 DEF Tx
<1>2. ASSUME \A f \in Flows : StartOk(f) => ~(d = tx'[f].engine /\ q = tx'[f].cosq)
      PROVE  hwq'[d][q] = hwq[d][q] \/ hwq'[d][q].cells = 0
  <2>1. ASSUME NEW f \in Flows, StartOk(f) PROVE hwq'[d][q] = hwq[d][q]
    <3>1. ~(d = tx'[f].engine /\ q = tx'[f].cosq)
      BY <1>2, <2>1
    <3>2. \A e \in Pids, r \in Queues :
            hwq'[e][r] = IF e = tx'[f].engine /\ r = tx'[f].cosq
                         THEN [cells |-> tx'[f].cells, rate |-> Speed(flow[f].load)]
                         ELSE hwq[e][r]
      BY <2>1, StartContent
    <3> QED
      BY <3>1, <3>2
  <2>2. CASE \A f \in Flows : ~StartOk(f)
    <3>1. \A e \in Pids, r \in Queues : hwq'[e][r] = hwq[e][r] \/ hwq'[e][r].cells = 0
      BY <2>2, ContentSteps
    <3> QED
      BY <3>1
  <2> QED
    BY <2>1, <2>2
<1>3. ASSUME \A f \in Flows : StartOk(f) => ~(d = tx'[f].engine /\ q = tx'[f].cosq)
      PROVE  \E f \in Flows : /\ tx'[f] # NoTx
                              /\ tx'[f].engine = d /\ tx'[f].cosq = q
                              /\ hwq'[d][q].cells <= tx'[f].cells
  <2>1. hwq'[d][q] = hwq[d][q] /\ hwq[d][q].cells > 0
    BY <1>2, <1>3
  <2>2. PICK g \in Flows : /\ tx[g] # NoTx /\ tx[g].engine = d /\ tx[g].cosq = q
                           /\ hwq[d][q].cells <= tx[g].cells
    BY <2>1 DEF Covered, Live
  <2>3. ~StartOk(g)
    BY <2>2, StartsStopped DEF StartOk
  <2>4. ~StopStarted(g)
    <3>1. SUFFICES ASSUME hwq' = Drained(d, q) PROVE FALSE
      BY <2>2 DEF StopStarted
    <3>2. hwq'[d][q].cells = 0
      BY <3>1, DrainedContent DEF TypeInv
    <3> QED
      BY <3>2
  <2>5. tx'[g] = tx[g]
    BY <2>3, <2>4, TxSteps
  <2> QED
    BY <2>1, <2>2, <2>5
<1> QED
  BY <1>1, <1>3

\* "MMU designed to check if there's enough cell available for pkts pending in
\* engine port queue" (mmu.cpp:19): packets wait only where a flow has reserved
\* cells for them, for any calls that fail but the insertion of packets, which
\* leaves those inserted behind, unless a started flow is destroyed.
THEOREM PacketsAreCovered ==
  ASSUME "insert" \notin Faults, ~DestroyAny
  PROVE  Spec => []Covered
<1>1. Init => Covered
  BY DEF Init, Covered
<1>2. TypeInv /\ Covered /\ [Next]_vars => TypeInv' /\ Covered'
  BY TypeStep, CoveredStep
<1> QED
  BY <1>1, <1>2, TypeInit, PTL DEF Spec
-----------------------------------------------------------------------------
\* Every queue the link partner holds back is the front queue of a running flow.
HeldOwned == \A h \in held : \E f \in Live : h = <<tx[f].front, tx[f].cosq>>

\* A flow runs from one physical port to another, and its packets never wait in
\* a queue that gets no tokens.
Shaped ==
  \A f \in Live :
    /\ tx[f].front # tx[f].engine
    /\ hwq[tx[f].engine][tx[f].cosq].cells > 0
         => hwq[tx[f].engine][tx[f].cosq].rate # "stopped"

\* What is behind AbortsHaveCause.
AbortInv == HeldOwned /\ Shaped /\ AbortsHaveCause

\* A flow that runs on has its TX of before.
LEMMA LiveBefore ==
  ASSUME TypeInv, [Next]_vars, ~DestroyAny, NEW f \in Flows, tx'[f] # NoTx, ~StartOk(f)
  PROVE  f \in Live /\ tx'[f] = tx[f]
BY TxSteps DEF Live

\* The flow of a held queue stays until the queue is held no more.
LEMMA HeldStep ==
  ASSUME TypeInv, HeldOwned, [Next]_vars, ~DestroyAny
  PROVE  HeldOwned'
<1> SUFFICES ASSUME NEW h \in held'
             PROVE  \E f \in Flows : tx'[f] # NoTx /\ h = <<tx'[f].front, tx'[f].cosq>>
  BY DEF HeldOwned, Live
<1>1. CASE h \in held
  <2>1. PICK f \in Flows : tx[f] # NoTx /\ h = <<tx[f].front, tx[f].cosq>>
    BY <1>1 DEF HeldOwned, Live
  <2>2. ~StartOk(f)
    BY <2>1, StartsStopped DEF StartOk
  <2>3. ~StopStarted(f)
    BY <1>1, <2>1 DEF StopStarted, Empties, FrontDrains
  <2> QED BY <2>1, <2>2, <2>3, TxSteps
<1>2. CASE h \notin held
  <2>1. \E f \in Flows : Hold(f) /\ h = <<tx[f].front, tx[f].cosq>>
    <3>1. ASSUME \E d \in Pids : LinkChange(d) \/ Resume(d) PROVE held' \subseteq held
      BY <3>1 DEF LinkChange, Resume
    <3>2. ASSUME NEW f \in Flows, Hold(f) PROVE h = <<tx[f].front, tx[f].cosq>>
      BY <1>2, <3>2 DEF Hold
    <3>3. ASSUME NEW f \in Flows,
                 \/ Create(f) \/ Destroy(f) \/ CallStart(f) \/ CallStop(f) \/ AutoStop(f)
                 \/ StopIdle(f) \/ StopStarted(f) \/ StopFails(f) \/ StopAsserts(f)
                 \/ StartRefused(f) \/ StartNoCells(f) \/ StartFails(f) \/ StartAsserts(f)
                 \/ StartOk(f) \/ BurstEnds(f)
                 \/ \E p \in Ports : SetPort(f, p)
                 \/ \E l \in Loads : SetLoad(f, l)
          PROVE  held' = held
      BY <3>3 DEF Create, Destroy, CallStart, CallStop, AutoStop, StopIdle, StopStarted, StopFails,
           StopAsserts, StartRefused, StartNoCells, StartFails, StartAsserts, StartOk, BurstEnds,
           SetPort, SetLoad, wires
    <3>4. ASSUME \/ \E p \in Ports : Fork(p) \/ Quota(p) \/ Clear(p) \/ ReconfigureFails(p)
                 \/ \E p \in Ports : \E i \in Itfs(p) : SetItf(p, i)
                 \/ Dispatch
                 \/ UNCHANGED vars
          PROVE  held' = held
      BY <3>4 DEF Fork, Quota, Clear, ReconfigureFails, SetItf, Dispatch, vars, wires
    <3> QED BY <1>2, <3>1, <3>2, <3>3, <3>4, NextCases
  <2>2. PICK f \in Flows : Hold(f) /\ h = <<tx[f].front, tx[f].cosq>>
    BY <2>1
  <2> QED BY <2>2 DEF Hold
<1> QED BY <1>1, <1>2

\* A start gives its queue tokens once the packets are in, and nothing takes
\* them away while packets wait.
LEMMA ShapedStep ==
  ASSUME TypeInv, Shaped, [Next]_vars, "insert" \notin Faults, ~DestroyAny
  PROVE  Shaped'
<1> SUFFICES ASSUME NEW f \in Flows, tx'[f] # NoTx
             PROVE  /\ tx'[f].front # tx'[f].engine
                    /\ hwq'[tx'[f].engine][tx'[f].cosq].cells > 0
                         => hwq'[tx'[f].engine][tx'[f].cosq].rate # "stopped"
  BY DEF Shaped, Live
<1>0. \A l : Speed(l) # "stopped"
  BY DEF Speed
<1>1. CASE StartOk(f)
  <2>1. PICK p \in Ports, q \in Queues :
          tx'[f].front = front(p) /\ tx'[f].engine = engine(p) /\ tx'[f].cosq = q
    <3>1. flow[f].port \in Ports
      BY <1>1, TxFlowAssumption DEF TypeInv, TypeOK, TxImpl, StartOk, Ready
    <3>2. Grants(flow[f].port) \subseteq Queues
      BY <3>1, PairType DEF TypeInv, TypeOK, Grants
    <3> QED BY <1>1, <3>1, <3>2 DEF StartOk, TypeInv, TypeOK
  <2>2. front(p) # engine(p) /\ engine(p) \in Pids
    <3>1. itf[p] \in Itfs(p)
      BY DEF TypeInv, TypeOK, ItfChoices
    <3> QED BY <3>1, PairType, TxFlowAssumption DEF TypeInv, front, engine
  <2>3. hwq'[tx'[f].engine][tx'[f].cosq].rate = Speed(flow[f].load)
    <3>1. hwq'[tx'[f].engine][tx'[f].cosq]
            = [cells |-> tx'[f].cells, rate |-> Speed(flow[f].load)]
      BY <1>1, <2>1, <2>2, StartContent
    <3> QED BY <3>1
  <2> QED BY <1>0, <2>1, <2>2, <2>3
<1>2. CASE ~StartOk(f)
  <2>1. f \in Live /\ tx'[f] = tx[f]
    BY <1>2, LiveBefore
  <2>2. tx[f].engine \in Pids /\ tx[f].cosq \in Queues
    BY <2>1 DEF TypeInv, TypeOK, Tx, Live
  <2> DEFINE d == tx[f].engine
             q == tx[f].cosq
  <2>3. hwq'[d][q] = hwq[d][q] \/ hwq'[d][q].cells = 0 \/ hwq'[d][q].rate # "stopped"
    <3>1. ASSUME NEW g \in Flows, StartOk(g)
          PROVE  hwq'[d][q] = hwq[d][q] \/ hwq'[d][q].rate # "stopped"
      <4>1. \/ hwq'[d][q] = hwq[d][q]
            \/ hwq'[d][q] = [cells |-> tx'[g].cells, rate |-> Speed(flow[g].load)]
        BY <2>2, <3>1, StartContent
      <4> QED BY <1>0, <4>1
    <3>2. CASE \A g \in Flows : ~StartOk(g)
      BY <2>2, <3>2, ContentSteps
    <3> QED BY <3>1, <3>2
  <2> QED BY <2>1, <2>3 DEF Shaped
<1> QED BY <1>1, <1>2

\* A queue that is free holds nothing and nothing holds it back.
LEMMA FreeIsEmpty ==
  ASSUME TypeInv, QueuesOwned, Covered, HeldOwned, NEW d \in Pids, NEW q \in db_port_q[d]
  PROVE  hwq[d][q].cells = 0 /\ <<d, q>> \notin held
<1>0. q \in Queues /\ q \notin QueuesHeld(d)
  BY DEF TypeInv, TypeOK, QueuesOwned
<1>1. \A f \in Live : ~(d \in {tx[f].front, tx[f].engine} /\ tx[f].cosq = q)
  BY <1>0 DEF QueuesHeld, Holds, Live
<1>2. ~(hwq[d][q].cells > 0)
  <2>1. SUFFICES ASSUME hwq[d][q].cells > 0 PROVE FALSE
    OBVIOUS
  <2>2. PICK f \in Live : tx[f].engine = d /\ tx[f].cosq = q
    BY <1>0, <2>1 DEF Covered
  <2>3. d \in {tx[f].front, tx[f].engine}
    BY <2>2
  <2> QED BY <1>1, <2>2, <2>3
<1>3. hwq[d][q].cells \in Nat
  BY <1>0 DEF TypeInv, TypeOK, Content
<1>4. <<d, q>> \notin held
  BY <1>1 DEF HeldOwned
<1> QED BY <1>2, <1>3, <1>4

\* So the waits of a start end, and those of a stop unless the flow's own
\* packets are too slow or held back.
LEMMA AbortStep ==
  ASSUME TypeInv, QueuesOwned, Covered, AbortInv, [Next]_vars
  PROVE  AbortsHaveCause'
<1>1. CASE aborted
  <2>1. UNCHANGED vars
    BY <1>1, NextCases DEF Create, Destroy, CallStart, CallStop, AutoStop, StopIdle, StopStarted,
       StopFails, StopAsserts, StartRefused, StartNoCells, StartFails, StartAsserts, StartOk,
       BurstEnds, Hold, SetPort, SetLoad, Fork, Quota, Clear, ReconfigureFails, SetItf, LinkChange,
       Resume, Dispatch, Job, Idle, Running
  <2> QED
    BY <2>1 DEF AbortInv, AbortsHaveCause, TooSlow, Paused, Live, vars, wires
<1>2. ASSUME NEW f \in Flows, StopAsserts(f) PROVE AbortsHaveCause'
  <2>1. tx[f] # NoTx /\ tx[f] \in Tx /\ Head(todo) = <<"stop", f>>
    BY <1>2 DEF TypeInv, TypeOK, StartedOwnsTx, StopAsserts, Job
  <2> DEFINE e == tx[f].engine
             d == tx[f].front
             q == tx[f].cosq
  <2>2. e \in Pids /\ d \in Pids /\ q \in Queues /\ d # e /\ f \in Live
    BY <2>1 DEF Tx, AbortInv, Shaped, Live
  <2>3. ASSUME NEW g \in Live, {tx[g].front, tx[g].engine} \cap {d, e} # {}, tx[g].cosq = q
        PROVE  g = f
    BY <2>1, <2>2, <2>3 DEF QueuesOwned, Holds, Live
  <2>4. <<e, q>> \notin held
    BY <2>2, <2>3 DEF AbortInv, HeldOwned
  <2>5. hwq[d][q].cells = 0
    <3>1. ~(hwq[d][q].cells > 0)
      <4>1. SUFFICES ASSUME hwq[d][q].cells > 0 PROVE FALSE
        OBVIOUS
      <4>2. PICK g \in Live : tx[g].engine = d /\ tx[g].cosq = q
        BY <2>2, <4>1 DEF Covered
      <4>3. g = f
        BY <2>3, <4>2
      <4> QED BY <2>2, <4>2, <4>3
    <3> QED BY <2>2, <3>1 DEF TypeInv, TypeOK, Content
  <2>6. TooSlow(f) \/ Paused(f)
    <3>1. \/ hwq[e][q].cells # 0 /\ hwq[e][q].rate # "normal"
          \/ <<d, q>> \in held
      BY <1>2, <2>4, <2>5 DEF StopAsserts, Empties, Drains, FrontDrains
    <3>2. hwq[e][q] \in Content
      BY <2>2 DEF TypeInv, TypeOK
    <3>3. hwq[e][q].cells > 0 => hwq[e][q].rate # "stopped"
      BY <2>2 DEF AbortInv, Shaped
    <3> QED BY <3>1, <3>2, <3>3 DEF Content, TooSlow, Paused
  <2>7. UNCHANGED <<todo, tx, hwq, held>>
    BY <1>2 DEF StopAsserts, wires
  <2> QED BY <2>1, <2>2, <2>6, <2>7 DEF AbortsHaveCause, TooSlow, Paused, Live
<1>3. ASSUME NEW f \in Flows, StartAsserts(f) PROVE FALSE
  <2>1. flow[f].port \in Ports
    BY <1>3, TxFlowAssumption DEF TypeInv, TypeOK, TxImpl, Ready, StartAsserts
  <2> DEFINE e == engine(flow[f].port)
             d == front(flow[f].port)
  <2>2. e \in Pids /\ d \in Pids
    BY <2>1, PairType DEF TypeInv
  <2>3. PICK q \in db_port_q[e] \cap db_port_q[d] : ~Empties(d, e, q)
    BY <1>3 DEF StartAsserts, Grants
  <2>4. \A p \in {d, e} : hwq[p][q].cells = 0 /\ <<p, q>> \notin held
    BY <2>2, <2>3, FreeIsEmpty DEF AbortInv
  <2> QED BY <2>3, <2>4 DEF Empties, Drains, FrontDrains
<1>4. CASE ~aborted /\ \A f \in Flows : ~StopAsserts(f) /\ ~StartAsserts(f)
  <2>1. aborted' = aborted
    BY <1>4, NextCases DEF Create, Destroy, CallStart, CallStop, AutoStop, StopIdle, StopStarted,
       StopFails, StartRefused, StartNoCells, StartFails, StartOk, BurstEnds, Hold, SetPort,
       SetLoad, Fork, Quota, Clear, ReconfigureFails, SetItf, LinkChange, Resume, Dispatch, vars
  <2> QED BY <1>4, <2>1 DEF AbortsHaveCause
<1> QED BY <1>1, <1>2, <1>3, <1>4

\* The assertions of TX::stop (tx.cpp:101, 106) end the program only in the stop
\* of a flow whose own packets are too many for its rate or are held back by the
\* link partner: no start finds anything in the queues it takes, whichever calls
\* failed before, but for an insertion that failed half way and unless a started
\* flow is destroyed.
THEOREM AbortsAreExplained ==
  ASSUME "insert" \notin Faults, ~DestroyAny
  PROVE  Spec => []AbortsHaveCause
<1>1. Init => AbortInv
  BY DEF Init, AbortInv, HeldOwned, Shaped, AbortsHaveCause, Live
<1>2. TypeInv /\ QueuesOwned /\ Covered /\ AbortInv /\ [Next]_vars => AbortInv'
  BY HeldStep, ShapedStep, AbortStep DEF AbortInv
<1>3. AbortInv => AbortsHaveCause
  BY DEF AbortInv
<1>4. Spec => []TypeInv
  BY TypeInit, TypeStep, PTL DEF Spec
<1> QED
  BY <1>1, <1>2, <1>3, <1>4, QueuesAreOwned, PacketsAreCovered, PTL DEF Spec
-----------------------------------------------------------------------------
(* Notifications, provided the SDK calls of TX_FLOW::IMPL::stop and of the *)
(* three notifiers do not throw: whatever the flows do and in whatever     *)
(* order link events and calls come, the flows of a port stop before its   *)
(* pair is reconfigured, none runs on an old pair, and no lost link is     *)
(* overlooked.                                                             *)

\* The calls of stop and of the notifiers succeed; those of start may fail.
NotifiersSucceed == Faults \cap {"drop", "counter", "reconfigure"} = {}

Reconfiguring(p) == {"fork", "quota", "clear"} \X {p}
StopsIn(s, f, n) == \E i \in 1..n : s[i] = <<"stop", f>>
OnPair(f) == tx[f].front = front(tx[f].port) /\ tx[f].engine = engine(tx[f].port)

\* Before a job that reconfigures a port come the stops of the flows that
\* still run on it.
FlowsFirst ==
  \A p \in Ports, j \in 1..Len(todo) : todo[j] \in Reconfiguring(p) =>
    \A f \in Flows : flow[f].is_started /\ tx[f].port = p => StopsIn(todo, f, j - 1)

\* Fork entries and thresholds are those of the pair, or about to be set.
ChangePending ==
  \A p \in Ports :
    /\ fork[p] # itf[p] => \E j \in 1..Len(todo) : todo[j] = <<"fork", p>>
    /\ quota[p] # itf[p] => \E j \in 1..Len(todo) : todo[j] = <<"quota", p>>

\* A flow runs on the pair of its port, or is about to be stopped.
PairPending ==
  \A f \in Flows : flow[f].is_started => OnPair(f) \/ StopsIn(todo, f, Len(todo))

OrderInv == TypeInv /\ StartedIsBound /\ FlowsFirst /\ ChangePending /\ PairPending
            /\ LinkDownIsNoticed

\* Neither a stop nor a notifier waits its turn.
NoneWaits == \A j \in 1..Len(todo) : todo[j][1] = "start"

\* The stop of f that was not at the head is still to come.
LEMMA TailStops ==
  ASSUME NEW s \in Seq(Jobs), s # <<>>, NEW f, NEW n \in Nat, n <= Len(s),
         StopsIn(s, f, n), Head(s) # <<"stop", f>>
  PROVE  StopsIn(Tail(s), f, n - 1)
<1>1. PICK i \in 1..n : s[i] = <<"stop", f>>
  BY DEF StopsIn
<1>2. i # 1
  BY <1>1
<1>3. i - 1 \in 1..(n - 1) /\ Tail(s)[i - 1] = s[i]
  BY <1>2
<1> QED BY <1>1, <1>3 DEF StopsIn

\* A list that holds a stop, as a set.
LEMMA StopsInRange ==
  ASSUME NEW s \in Seq(Jobs), NEW f
  PROVE  StopsIn(s, f, Len(s)) <=> <<"stop", f>> \in Range(s)
<1>1. DOMAIN s = 1..Len(s)
  OBVIOUS
<1> QED BY <1>1 DEF StopsIn, Range

\* Without waiting jobs every table and every flow is on the pair in force, and
\* every lost link has its event.
LEMMA Settled ==
  ASSUME OrderInv, NoneWaits
  PROVE  /\ \A p \in Ports : fork[p] = itf[p] /\ quota[p] = itf[p]
         /\ \A f \in Flows : flow[f].is_started => OnPair(f)
         /\ \A f \in Flows : flow[f].is_started /\ ~link[tx[f].front] =>
              \E i \in 1..Len(events) : events[i] = [pid |-> tx[f].front, link |-> FALSE]
<1>1. \A j \in 1..Len(todo) : \A x : todo[j] # <<"fork", x>> /\ todo[j] # <<"quota", x>> /\ todo[j] # <<"stop", x>>
  BY DEF NoneWaits
<1>2. \A f \in Flows : ~StopsIn(todo, f, Len(todo))
  BY <1>1 DEF StopsIn
<1>3. \A f \in Flows : <<"stop", f>> \notin Range(todo)
  BY <1>2, StopsInRange DEF OrderInv, TypeInv, TypeOK
<1> QED BY <1>1, <1>2, <1>3 DEF OrderInv, ChangePending, PairPending, LinkDownIsNoticed

\* A job is done: its flow runs no more, or its table is set.
LEMMA Advance ==
  ASSUME OrderInv, todo # <<>>, todo' = Tail(todo), UNCHANGED <<itf, wires>>,
         \A f \in Flows : flow'[f].is_started =>
           flow[f].is_started /\ tx'[f] = tx[f] /\ Head(todo) # <<"stop", f>>,
         \A p \in Ports : fork'[p] = itf[p] \/ (fork'[p] = fork[p] /\ Head(todo) # <<"fork", p>>),
         \A p \in Ports : quota'[p] = itf[p] \/ (quota'[p] = quota[p] /\ Head(todo) # <<"quota", p>>)
  PROVE  FlowsFirst' /\ ChangePending' /\ PairPending' /\ LinkDownIsNoticed'
<1>0. todo \in Seq(Jobs) /\ todo' \in Seq(Jobs) /\ Len(todo') = Len(todo) - 1 /\ Len(todo) \in Nat
      /\ Head(todo) = todo[1] /\ \A i \in 1..(Len(todo) - 1) : todo'[i] = todo[i + 1]
  BY ProceedType DEF OrderInv, TypeInv, TypeOK
<1>1. FlowsFirst'
  <2> SUFFICES ASSUME NEW p \in Ports, NEW j \in 1..Len(todo'), todo'[j] \in Reconfiguring(p),
                      NEW f \in Flows, flow'[f].is_started, tx'[f].port = p
               PROVE  StopsIn(todo', f, j - 1)
    BY DEF FlowsFirst, Reconfiguring
  <2>1. j + 1 \in 1..Len(todo) /\ todo[j + 1] = todo'[j] /\ j \in Nat /\ (j + 1) - 1 = j
    BY <1>0
  <2>2. StopsIn(todo, f, j)
    BY <2>1 DEF OrderInv, FlowsFirst
  <2>3. j <= Len(todo) /\ Head(todo) # <<"stop", f>>
    BY <1>0, <2>1
  <2>4. StopsIn(Tail(todo), f, j - 1)
    BY <1>0, <2>1, <2>2, <2>3, TailStops
  <2> QED BY <2>4
<1>2. ChangePending'
  <2>1. ASSUME NEW p \in Ports, fork'[p] # itf'[p]
        PROVE  \E j \in 1..Len(todo') : todo'[j] = <<"fork", p>>
    <3>1. PICK j \in 1..Len(todo) : todo[j] = <<"fork", p>>
      BY <2>1 DEF OrderInv, ChangePending
    <3>2. j # 1
      BY <1>0, <2>1, <3>1
    <3>3. j - 1 \in 1..Len(todo') /\ todo'[j - 1] = todo[j]
      BY <1>0, <3>2
    <3> QED BY <3>1, <3>3
  <2>2. ASSUME NEW p \in Ports, quota'[p] # itf'[p]
        PROVE  \E j \in 1..Len(todo') : todo'[j] = <<"quota", p>>
    <3>1. PICK j \in 1..Len(todo) : todo[j] = <<"quota", p>>
      BY <2>2 DEF OrderInv, ChangePending
    <3>2. j # 1
      BY <1>0, <2>2, <3>1
    <3>3. j - 1 \in 1..Len(todo') /\ todo'[j - 1] = todo[j]
      BY <1>0, <3>2
    <3> QED BY <3>1, <3>3
  <2> QED BY <2>1, <2>2 DEF ChangePending
<1>3. ASSUME NEW f \in Flows, flow'[f].is_started, StopsIn(todo, f, Len(todo))
      PROVE  StopsIn(todo', f, Len(todo'))
  BY <1>0, <1>3, TailStops
<1>4. PairPending'
  <2> SUFFICES ASSUME NEW f \in Flows, flow'[f].is_started
               PROVE  OnPair(f)' \/ StopsIn(todo', f, Len(todo'))
    BY DEF PairPending, StopsIn
  <2>1. OnPair(f) \/ StopsIn(todo, f, Len(todo))
    BY DEF OrderInv, PairPending
  <2>2. OnPair(f) => OnPair(f)'
    BY DEF OnPair, front, engine
  <2> QED BY <1>3, <2>1, <2>2
<1>5. LinkDownIsNoticed'
  <2> SUFFICES ASSUME NEW f \in Flows, flow'[f].is_started, ~link'[tx'[f].front]
               PROVE  \/ \E i \in 1..Len(events') : events'[i] = [pid |-> tx'[f].front, link |-> FALSE]
                      \/ <<"stop", f>> \in Range(todo')
    BY DEF LinkDownIsNoticed
  <2>1. UNCHANGED <<link, events>> /\ tx'[f] = tx[f] /\ flow[f].is_started
    BY DEF wires
  <2>2. \/ \E i \in 1..Len(events) : events[i] = [pid |-> tx[f].front, link |-> FALSE]
        \/ <<"stop", f>> \in Range(todo)
    BY <2>1 DEF OrderInv, LinkDownIsNoticed
  <2>3. <<"stop", f>> \in Range(todo) => <<"stop", f>> \in Range(todo')
    BY <1>0, <1>3, StopsInRange
  <2> QED BY <2>1, <2>2, <2>3
<1> QED BY <1>1, <1>2, <1>4, <1>5

\* While nothing waits a flow may go or start on the pair in force, over a link
\* that is up.
LEMMA Unhurried ==
  ASSUME OrderInv, NoneWaits, UNCHANGED <<ports, wires>>,
         \A j \in 1..Len(todo') : todo'[j][1] \in {"start", "stop"},
         \A f \in Flows : flow'[f].is_started =>
           \/ flow[f].is_started /\ tx'[f] = tx[f]
           \/ /\ tx'[f].front = front(tx'[f].port) /\ tx'[f].engine = engine(tx'[f].port)
              /\ link[tx'[f].front]
  PROVE  FlowsFirst' /\ ChangePending' /\ PairPending' /\ LinkDownIsNoticed'
<1>0. UNCHANGED <<itf, fork, quota, link, events>>
  BY DEF ports, wires
<1>1. FlowsFirst'
  <2>1. \A p, j \in 1..Len(todo') : todo'[j] \notin Reconfiguring(p)
    BY DEF Reconfiguring
  <2> QED BY <2>1 DEF FlowsFirst, Reconfiguring
<1>2. ChangePending'
  BY <1>0, Settled DEF ChangePending
<1>3. PairPending'
  <2> SUFFICES ASSUME NEW f \in Flows, flow'[f].is_started PROVE OnPair(f)'
    BY DEF PairPending, StopsIn
  <2>1. CASE flow[f].is_started /\ tx'[f] = tx[f]
    BY <1>0, <2>1, Settled DEF OnPair, front, engine
  <2>2. CASE tx'[f].front = front(tx'[f].port) /\ tx'[f].engine = engine(tx'[f].port)
    BY <1>0, <2>2 DEF OnPair, front, engine
  <2> QED BY <2>1, <2>2
<1>4. LinkDownIsNoticed'
  <2> SUFFICES ASSUME NEW f \in Flows, flow'[f].is_started, ~link'[tx'[f].front]
               PROVE  \E i \in 1..Len(events') : events'[i] = [pid |-> tx'[f].front, link |-> FALSE]
    BY DEF LinkDownIsNoticed
  <2>1. flow[f].is_started /\ tx'[f] = tx[f]
    BY <1>0
  <2> QED BY <1>0, <2>1, Settled
<1> QED BY <1>1, <1>2, <1>3, <1>4

\* Unbinding a flow that goes keeps the callbacks those of the started flows.
LEMMA BoundGone ==
  ASSUME TypeInv, StartedIsBound, NEW f \in Flows, Unbind(f),
         tx' = [tx EXCEPT ![f] = NoTx], ~flow'[f].is_started,
         \A g \in Flows : g # f => flow'[g].is_started = flow[g].is_started
  PROVE  StartedIsBound'
<1>1. /\ bound \in [Ports -> Seq(Flows)]
      /\ \A p \in Ports : bound'[p] = RemoveFirst(bound[p], f)
  BY DEF TypeInv, TypeOK, Unbind
<1>2. tx'[f] = NoTx /\ \A g \in Flows : g # f => tx'[g] = tx[g]
  BY DEF TypeInv, TypeOK
<1>3. ASSUME NEW g \in Flows PROVE flow'[g].is_started <=> tx'[g] # NoTx
  <2>1. CASE g = f
    BY <1>2, <2>1
  <2>2. CASE g # f
    BY <1>2, <2>2 DEF StartedIsBound
  <2> QED BY <2>1, <2>2
<1>4. ASSUME NEW p \in Ports
      PROVE  IsInjective(bound'[p]) /\ Range(bound'[p]) = {g \in Live' : tx'[g].port = p}
  <2>1. /\ bound[p] \in Seq(Flows) /\ IsInjective(bound[p])
        /\ Range(bound[p]) = {g \in Live : tx[g].port = p}
    BY <1>1 DEF StartedIsBound
  <2>2. IsInjective(bound'[p]) /\ Range(bound'[p]) = Range(bound[p]) \ {f}
    BY <1>1, <2>1, RemoveFirstCallback
  <2>3. {g \in Live' : tx'[g].port = p} = {g \in Live : tx[g].port = p} \ {f}
    BY <1>2 DEF Live
  <2> QED BY <2>1, <2>2, <2>3
<1> QED BY <1>3, <1>4 DEF StartedIsBound

\* A start binds a flow that was not bound.
LEMMA BoundStarted ==
  ASSUME TypeInv, StartedIsBound, NEW f \in Flows, StartOk(f)
  PROVE  StartedIsBound'
<1> DEFINE r == flow[f].port
<1>1. tx[f] = NoTx /\ ~flow[f].is_started
  BY StartsStopped DEF StartOk
<1>2. /\ r \in Ports /\ tx' = [tx EXCEPT ![f] = tx'[f]] /\ tx'[f] # NoTx /\ tx'[f].port = r
  BY StartOkTakes
<1>3. bound' = [bound EXCEPT ![r] = Append(@, f)] /\ flow' = [flow EXCEPT ![f].is_started = TRUE]
  BY DEF StartOk
<1>4. /\ bound \in [Ports -> Seq(Flows)] /\ flow'[f].is_started
      /\ \A g \in Flows : g # f => flow'[g] = flow[g] /\ tx'[g] = tx[g]
  BY <1>2, <1>3 DEF TypeInv, TypeOK, TxImpl
<1> HIDE DEF r
<1>5. ASSUME NEW g \in Flows PROVE flow'[g].is_started <=> tx'[g] # NoTx
  <2>1. CASE g = f
    BY <1>2, <1>4, <2>1
  <2>2. CASE g # f
    BY <1>4, <2>2 DEF StartedIsBound
  <2> QED BY <2>1, <2>2
<1>6. ASSUME NEW p \in Ports
      PROVE  IsInjective(bound'[p]) /\ Range(bound'[p]) = {g \in Live' : tx'[g].port = p}
  <2>1. /\ bound[p] \in Seq(Flows) /\ IsInjective(bound[p])
        /\ Range(bound[p]) = {g \in Live : tx[g].port = p}
    BY <1>4 DEF StartedIsBound
  <2>2. {g \in Live' : tx'[g].port = p}
          = {g \in Live : tx[g].port = p} \cup (IF p = r THEN {f} ELSE {})
    BY <1>1, <1>2, <1>4 DEF Live
  <2>3. CASE p # r
    <3>1. bound'[p] = bound[p]
      BY <1>3, <1>4, <2>3
    <3> QED BY <2>1, <2>2, <2>3, <3>1
  <2>4. CASE p = r
    <3> DEFINE s == bound[p]
               n == Len(s)
               t == bound'[p]
    <3>1. /\ n \in Nat /\ t \in Seq(Flows) /\ Len(t) = n + 1 /\ t[n + 1] = f
          /\ \A i \in 1..n : t[i] = s[i]
      BY <1>2, <1>3, <1>4, <2>1, <2>4
    <3>2. f \notin Range(s)
      BY <1>1, <2>1 DEF Live
    <3>3. DOMAIN s = 1..n /\ DOMAIN t = 1..(n + 1)
      BY <2>1, <3>1
    <3> HIDE DEF s, n, t
    <3>4. \A i \in 1..n : s[i] # f
      BY <3>2, <3>3 DEF Range
    <3>5. IsInjective(t)
      <4> SUFFICES ASSUME NEW i \in 1..(n + 1), NEW j \in 1..(n + 1), t[i] = t[j] PROVE i = j
        BY <3>3 DEF IsInjective
      <4>1. CASE i \in 1..n /\ j \in 1..n
        BY <2>1, <3>1, <3>3, <4>1 DEF IsInjective, s
      <4>2. CASE i = n + 1 \/ j = n + 1
        BY <3>1, <3>4, <4>2
      <4> QED BY <3>1, <4>1, <4>2
    <3>6. Range(t) = Range(s) \cup {f}
      <4>1. ASSUME NEW x \in Range(t) PROVE x \in Range(s) \cup {f}
        <5>1. PICK i \in 1..(n + 1) : t[i] = x
          BY <3>3, <4>1 DEF Range
        <5> QED BY <3>1, <3>3, <5>1 DEF Range
      <4>2. ASSUME NEW x \in Range(s) PROVE x \in Range(t)
        <5>1. PICK i \in 1..n : s[i] = x
          BY <3>3, <4>2 DEF Range
        <5>2. i \in 1..(n + 1) /\ t[i] = x
          BY <3>1, <5>1
        <5> QED BY <3>3, <5>2 DEF Range
      <4>3. f \in Range(t)
        <5>1. n + 1 \in 1..(n + 1)
          BY <3>1
        <5> QED BY <3>1, <3>3, <5>1 DEF Range
      <4> QED BY <4>1, <4>2, <4>3
    <3> QED BY <2>1, <2>2, <2>4, <3>5, <3>6 DEF s, t
  <2> QED BY <2>3, <2>4
<1> QED BY <1>5, <1>6 DEF StartedIsBound

\* The stop of a bound flow is among those of its port.
LEMMA BoundStops ==
  ASSUME TypeInv, NEW p \in Ports, NEW f \in Range(bound[p])
  PROVE  /\ StopsIn(PairJobs(p), f, Len(bound[p]))
         /\ StopsIn(Stops(bound[p]), f, Len(bound[p]))
<1> DEFINE s == bound[p]
           n == Len(s)
<1>1. s \in Seq(Flows) /\ n \in Nat /\ DOMAIN s = 1..n
  BY DEF TypeInv, TypeOK
<1>2. PICK k \in 1..n : s[k] = f
  BY <1>1 DEF Range
<1>3. Stops(s)[k] = <<"stop", f>>
  <2> HIDE DEF s
  <2> QED BY <1>1, <1>2, StopsType
<1>4. \A i \in 1..n : PairJobs(p)[i] = <<"stop", s[n - i + 1]>>
  BY PairJobsType DEF TypeInv
<1> HIDE DEF s, n
<1>5. n - k + 1 \in 1..n /\ n - (n - k + 1) + 1 = k
  BY <1>1
<1>6. PairJobs(p)[n - k + 1] = <<"stop", f>>
  BY <1>2, <1>4, <1>5
<1>7. StopsIn(PairJobs(p), f, n) /\ StopsIn(Stops(s), f, n)
  BY <1>3, <1>5, <1>6 DEF StopsIn
<1> QED BY <1>7 DEF s, n

\* A pair change: its stops wait before its notifiers.
LEMMA OrderSetItf ==
  ASSUME OrderInv, NEW p \in Ports, NEW k \in Itfs(p), SetItf(p, k)
  PROVE  FlowsFirst' /\ ChangePending' /\ PairPending' /\ LinkDownIsNoticed'
<1> DEFINE n == Len(bound[p])
<1>0. /\ todo = <<>> /\ todo' = PairJobs(p) /\ itf' = [itf EXCEPT ![p] = k]
      /\ UNCHANGED <<fork, quota, link, events, flow, tx, bound>>
  BY DEF SetItf, Idle, wires
<1>1. /\ n \in Nat /\ PairJobs(p) \in Seq(Jobs) /\ Len(PairJobs(p)) = n + 3
      /\ \A i \in 1..n : PairJobs(p)[i] = <<"stop", bound[p][n - i + 1]>>
      /\ PairJobs(p)[n + 1] = <<"fork", p>>
      /\ PairJobs(p)[n + 2] = <<"quota", p>>
      /\ PairJobs(p)[n + 3] = <<"clear", p>>
  BY PairJobsType DEF OrderInv, TypeInv
<1>2. ASSUME NEW f \in Flows, flow[f].is_started, tx[f].port = p PROVE StopsIn(PairJobs(p), f, n)
  <2>1. f \in Range(bound[p])
    BY <1>2 DEF OrderInv, StartedIsBound, Live
  <2> QED BY <2>1, BoundStops DEF OrderInv
<1>3. /\ \A r \in Ports : fork[r] = itf[r] /\ quota[r] = itf[r]
      /\ \A f \in Flows : flow[f].is_started => OnPair(f)
      /\ \A f \in Flows : flow[f].is_started /\ ~link[tx[f].front] =>
           \E i \in 1..Len(events) : events[i] = [pid |-> tx[f].front, link |-> FALSE]
  BY <1>0, Settled DEF NoneWaits
<1>4. \A r \in Ports : r # p => itf'[r] = itf[r]
  BY <1>0 DEF OrderInv, TypeInv, TypeOK, ItfChoices
<1> HIDE DEF n
<1>5. FlowsFirst'
  <2> SUFFICES ASSUME NEW r \in Ports, NEW j \in 1..(n + 3), PairJobs(p)[j] \in Reconfiguring(r),
                      NEW f \in Flows, flow[f].is_started, tx[f].port = r
               PROVE  StopsIn(PairJobs(p), f, j - 1)
    BY <1>0, <1>1 DEF FlowsFirst, Reconfiguring
  <2>1. j \in {n + 1, n + 2, n + 3}
    <3>1. j \notin 1..n
      BY <1>1 DEF Reconfiguring
    <3> QED BY <1>1, <3>1
  <2>2. r = p
    BY <1>1, <2>1 DEF Reconfiguring
  <2>3. StopsIn(PairJobs(p), f, n)
    BY <1>2, <2>2
  <2> QED BY <1>1, <2>1, <2>3 DEF StopsIn
<1>6. ChangePending'
  <2>1. n + 1 \in 1..(n + 3) /\ n + 2 \in 1..(n + 3)
    BY <1>1
  <2>2. ASSUME NEW r \in Ports
        PROVE  /\ fork'[r] # itf'[r] => \E j \in 1..(n + 3) : PairJobs(p)[j] = <<"fork", r>>
               /\ quota'[r] # itf'[r] => \E j \in 1..(n + 3) : PairJobs(p)[j] = <<"quota", r>>
    <3>1. CASE r = p
      BY <1>1, <2>1, <3>1
    <3>2. CASE r # p
      BY <1>0, <1>3, <1>4, <3>2
    <3> QED BY <3>1, <3>2
  <2> QED BY <1>0, <1>1, <2>2 DEF ChangePending
<1>7. PairPending'
  <2> SUFFICES ASSUME NEW f \in Flows, flow[f].is_started
               PROVE  OnPair(f)' \/ StopsIn(PairJobs(p), f, n + 3)
    BY <1>0, <1>1 DEF PairPending, StopsIn
  <2>1. CASE tx[f].port = p
    BY <1>1, <1>2, <2>1 DEF StopsIn
  <2>2. CASE tx[f].port # p
    <3>1. tx[f].port \in Ports
      BY DEF OrderInv, TypeInv, StartedOwnsTx, TypeOK, Tx
    <3>2. itf'[tx[f].port] = itf[tx[f].port]
      BY <1>4, <2>2, <3>1
    <3>3. OnPair(f)
      BY <1>3
    <3> QED BY <1>0, <3>2, <3>3 DEF OnPair, front, engine
  <2> QED BY <2>1, <2>2
<1>8. LinkDownIsNoticed'
  BY <1>0, <1>3 DEF LinkDownIsNoticed
<1> QED BY <1>5, <1>6, <1>7, <1>8

\* A link event reaches the flows of the port that is named after the front
\* port, and no other port is.
LEMMA OrderDispatch ==
  ASSUME OrderInv, Dispatch
  PROVE  FlowsFirst' /\ ChangePending' /\ PairPending' /\ LinkDownIsNoticed'
<1> DEFINE e == Head(events)
<1>0. /\ todo = <<>> /\ todo' = LinkJobs(e) /\ events # <<>> /\ events' = Tail(events)
      /\ UNCHANGED <<itf, fork, quota, link, flow, tx, bound>>
  BY DEF Dispatch, Idle, ports
<1>1. todo' \in Seq(Jobs) /\ \A i \in 1..Len(todo') : \E f \in Flows : todo'[i] = <<"stop", f>>
  BY <1>0, LinkJobsType DEF OrderInv, TypeInv
<1>2. /\ \A r \in Ports : fork[r] = itf[r] /\ quota[r] = itf[r]
      /\ \A f \in Flows : flow[f].is_started => OnPair(f)
      /\ \A f \in Flows : flow[f].is_started /\ ~link[tx[f].front] =>
           \E i \in 1..Len(events) : events[i] = [pid |-> tx[f].front, link |-> FALSE]
  BY <1>0, Settled DEF NoneWaits
<1>3. FlowsFirst'
  BY <1>1 DEF FlowsFirst, Reconfiguring
<1>4. ChangePending'
  BY <1>0, <1>2 DEF ChangePending
<1>5. PairPending'
  BY <1>0, <1>2 DEF PairPending, OnPair, front, engine
<1>6. LinkDownIsNoticed'
  <2> SUFFICES ASSUME NEW f \in Flows, flow[f].is_started, ~link[tx[f].front]
               PROVE  \/ \E i \in 1..Len(events') : events'[i] = [pid |-> tx[f].front, link |-> FALSE]
                      \/ <<"stop", f>> \in Range(todo')
    BY <1>0 DEF LinkDownIsNoticed
  <2>1. PICK i \in 1..Len(events) : events[i] = [pid |-> tx[f].front, link |-> FALSE]
    BY <1>2
  <2>2. /\ Len(events) \in Nat /\ Len(events') = Len(events) - 1 /\ e = events[1]
        /\ \A k \in 1..(Len(events) - 1) : events'[k] = events[k + 1]
    BY <1>0 DEF OrderInv, TypeInv, TypeOK
  <2>3. CASE i # 1
    <3>1. i - 1 \in 1..Len(events') /\ events'[i - 1] = events[i]
      BY <2>2, <2>3
    <3> QED BY <2>1, <3>1
  <2>4. CASE i = 1
    <3> DEFINE r == tx[f].port
               named == {p \in Ports : front(p) = e.pid}
    <3>1. e.pid = tx[f].front /\ ~e.link
      BY <2>1, <2>2, <2>4
    <3>2. r \in Ports /\ front(r) = e.pid /\ tx[f] # NoTx
      <4>1. tx[f] # NoTx /\ tx[f] \in Tx
        BY DEF OrderInv, TypeInv, StartedOwnsTx, TypeOK
      <4> QED BY <1>2, <3>1, <4>1 DEF OnPair, Tx
    <3>3. named = {r}
      <4>1. ASSUME NEW p \in Ports, front(p) = front(r) PROVE p = r
        BY <3>2, <4>1, PairType, TxFlowAssumption DEF OrderInv, TypeInv
      <4> QED BY <3>2, <4>1
    <3>4. (CHOOSE p \in named : TRUE) = r
      BY <3>3
    <3>5. todo' = Stops(bound[r])
      BY <1>0, <3>1, <3>3, <3>4 DEF LinkJobs
    <3>6. f \in Range(bound[r])
      BY <3>2 DEF OrderInv, StartedIsBound, Live
    <3>7. StopsIn(todo', f, Len(bound[r])) /\ Len(todo') = Len(bound[r])
      <4>1. bound[r] \in Seq(Flows)
        BY <3>2 DEF OrderInv, TypeInv, TypeOK
      <4> HIDE DEF r
      <4> QED BY <3>2, <3>5, <3>6, <4>1, BoundStops, StopsType DEF OrderInv
    <3> QED BY <1>1, <3>7, StopsInRange
  <2> QED BY <2>3, <2>4
<1> QED BY <1>3, <1>4, <1>5, <1>6

\* A link that goes down sends its event.
LEMMA OrderLinkChange ==
  ASSUME OrderInv, NEW d \in Pids, LinkChange(d)
  PROVE  FlowsFirst' /\ ChangePending' /\ PairPending' /\ LinkDownIsNoticed'
<1>0. /\ link' = [link EXCEPT ![d] = ~@]
      /\ events' = Append(events, [pid |-> d, link |-> ~link[d]])
      /\ UNCHANGED <<itf, fork, quota, flow, tx, todo>>
  BY DEF LinkChange, ports
<1>1. FlowsFirst' /\ ChangePending' /\ PairPending'
  <2>1. FlowsFirst'
    BY <1>0 DEF OrderInv, FlowsFirst, StopsIn
  <2>2. ChangePending'
    BY <1>0 DEF OrderInv, ChangePending
  <2>3. PairPending'
    BY <1>0 DEF OrderInv, PairPending, OnPair, front, engine, StopsIn
  <2> QED BY <2>1, <2>2, <2>3
<1>2. /\ Len(events) \in Nat /\ Len(events') = Len(events) + 1
      /\ \A i \in 1..Len(events) : events'[i] = events[i]
      /\ events'[Len(events) + 1] = [pid |-> d, link |-> ~link[d]]
  <2>1. [pid |-> d, link |-> ~link[d]] \in [pid : Pids, link : BOOLEAN]
    OBVIOUS
  <2> QED BY <1>0, <2>1 DEF OrderInv, TypeInv, TypeOK
<1>3. LinkDownIsNoticed'
  <2> SUFFICES ASSUME NEW f \in Flows, flow[f].is_started, ~link'[tx[f].front]
               PROVE  \/ \E i \in 1..Len(events') : events'[i] = [pid |-> tx[f].front, link |-> FALSE]
                      \/ <<"stop", f>> \in Range(todo)
    BY <1>0 DEF LinkDownIsNoticed
  <2>0. tx[f].front \in Pids /\ link \in [Pids -> BOOLEAN]
    BY DEF OrderInv, TypeInv, StartedOwnsTx, TypeOK, Tx
  <2>1. CASE tx[f].front = d
    <3>1. link[d] = TRUE
      BY <1>0, <2>0, <2>1
    <3>2. events'[Len(events) + 1] = [pid |-> tx[f].front, link |-> FALSE]
      BY <1>2, <2>1, <3>1
    <3>3. Len(events) + 1 \in 1..Len(events')
      BY <1>2
    <3> QED BY <3>2, <3>3
  <2>2. CASE tx[f].front # d
    <3>1. ~link[tx[f].front]
      BY <1>0, <2>0, <2>2
    <3>2. \/ \E i \in 1..Len(events) : events[i] = [pid |-> tx[f].front, link |-> FALSE]
          \/ <<"stop", f>> \in Range(todo)
      BY <3>1 DEF OrderInv, LinkDownIsNoticed
    <3>3. \A i \in 1..Len(events) : i \in 1..Len(events') /\ events'[i] = events[i]
      BY <1>2
    <3> QED BY <3>2, <3>3
  <2> QED BY <2>1, <2>2
<1> QED BY <1>1, <1>3

\* The flows' own calls and stops, and the notifiers.
LEMMA OrderCalls ==
  ASSUME OrderInv, NotifiersSucceed,
         \E f \in Flows : \/ CallStart(f) \/ CallStop(f) \/ AutoStop(f) \/ Destroy(f)
                         \/ StopIdle(f) \/ StopStarted(f) \/ StopFails(f)
                         \/ StartRefused(f) \/ StartNoCells(f) \/ StartFails(f) \/ StartOk(f)
  PROVE  StartedIsBound' /\ FlowsFirst' /\ ChangePending' /\ PairPending' /\ LinkDownIsNoticed'
<1> PICK f \in Flows :
      \/ CallStart(f) \/ CallStop(f) \/ AutoStop(f) \/ Destroy(f)
      \/ StopIdle(f) \/ StopStarted(f) \/ StopFails(f)
      \/ StartRefused(f) \/ StartNoCells(f) \/ StartFails(f) \/ StartOk(f)
  OBVIOUS
<1>0. TypeInv /\ StartedIsBound
  BY DEF OrderInv
<1>1. CASE CallStart(f) \/ CallStop(f) \/ AutoStop(f)
  <2>1. /\ todo = <<>> /\ todo' \in {<<<<"stop", f>>>>, <<<<"stop", f>>, <<"start", f>>>>}
        /\ UNCHANGED <<ports, wires, flow, tx, bound>>
    BY <1>1 DEF CallStart, CallStop, AutoStop, Idle
  <2>2. NoneWaits /\ \A j \in 1..Len(todo') : todo'[j][1] \in {"start", "stop"}
    BY <2>1 DEF NoneWaits
  <2>3. StartedIsBound'
    BY <1>0, <2>1 DEF StartedIsBound, Live
  <2> QED BY <2>1, <2>2, <2>3, Unhurried
<1>2. CASE Destroy(f)
  <2>1. /\ todo = <<>> /\ todo' = <<>> /\ UNCHANGED <<ports, wires>> /\ Unbind(f)
        /\ flow' = [flow EXCEPT ![f] = Absent] /\ tx' = [tx EXCEPT ![f] = NoTx]
    BY <1>2 DEF Destroy, Idle
  <2>2. ~flow'[f].is_started /\ \A g \in Flows : g # f => flow'[g] = flow[g] /\ tx'[g] = tx[g]
    BY <1>0, <2>1 DEF TypeInv, TypeOK, Absent
  <2>3. \A g \in Flows : flow'[g].is_started => flow[g].is_started /\ tx'[g] = tx[g]
    BY <2>2
  <2>4. StartedIsBound'
    BY <1>0, <2>1, <2>2, BoundGone
  <2>5. NoneWaits /\ \A j \in 1..Len(todo') : todo'[j][1] \in {"start", "stop"}
    BY <2>1 DEF NoneWaits
  <2> QED BY <2>1, <2>3, <2>4, <2>5, Unhurried
<1>3. CASE StopIdle(f)
  <2>1. /\ todo # <<>> /\ todo' = Tail(todo) /\ Head(todo) = <<"stop", f>> /\ ~flow[f].is_started
        /\ UNCHANGED <<ports, wires, flow, tx, bound>>
    BY <1>3 DEF StopIdle, Job, Proceed
  <2>2. \A g \in Flows : flow'[g].is_started =>
          flow[g].is_started /\ tx'[g] = tx[g] /\ Head(todo) # <<"stop", g>>
    BY <2>1
  <2>3. \A p : Head(todo) # <<"fork", p>> /\ Head(todo) # <<"quota", p>>
    BY <2>1
  <2>4. StartedIsBound'
    BY <1>0, <2>1 DEF StartedIsBound, Live
  <2> QED BY <2>1, <2>2, <2>3, <2>4, Advance DEF ports
<1>4. CASE StopStarted(f)
  <2>1. /\ todo # <<>> /\ todo' = Tail(todo) /\ Head(todo) = <<"stop", f>> /\ Unbind(f)
        /\ UNCHANGED <<ports, wires>>
        /\ flow' = [flow EXCEPT ![f].is_started = FALSE] /\ tx' = [tx EXCEPT ![f] = NoTx]
    BY <1>4 DEF StopStarted, Job, Proceed
  <2>2. ~flow'[f].is_started /\ \A g \in Flows : g # f => flow'[g] = flow[g] /\ tx'[g] = tx[g]
    BY <1>0, <2>1 DEF TypeInv, TypeOK, TxImpl
  <2>3. \A g \in Flows : flow'[g].is_started =>
          flow[g].is_started /\ tx'[g] = tx[g] /\ Head(todo) # <<"stop", g>>
    BY <2>1, <2>2
  <2>4. \A p : Head(todo) # <<"fork", p>> /\ Head(todo) # <<"quota", p>>
    BY <2>1
  <2>5. StartedIsBound'
    BY <1>0, <2>1, <2>2, BoundGone
  <2> QED BY <2>1, <2>3, <2>4, <2>5, Advance DEF ports
<1>5. CASE StopFails(f)
  BY <1>5 DEF StopFails, NotifiersSucceed
<1>6. CASE StartRefused(f) \/ StartNoCells(f) \/ StartFails(f)
  <2>1. Job("start", f) /\ todo' = <<>> /\ UNCHANGED <<ports, wires, flow, tx, bound>>
    BY <1>6 DEF StartRefused, StartNoCells, StartFails, Throw
  <2>2. NoneWaits /\ \A j \in 1..Len(todo') : todo'[j][1] \in {"start", "stop"}
    BY <1>0, <2>1, StartsStopped DEF NoneWaits
  <2>3. StartedIsBound'
    BY <1>0, <2>1 DEF StartedIsBound, Live
  <2> QED BY <2>1, <2>2, <2>3, Unhurried
<1>7. CASE StartOk(f)
  <2>1. Job("start", f) /\ todo' = Tail(todo) /\ UNCHANGED <<ports, wires>>
        /\ flow' = [flow EXCEPT ![f].is_started = TRUE] /\ link[front(flow[f].port)]
    BY <1>7 DEF StartOk, Proceed, Ready
  <2>2. NoneWaits /\ \A j \in 1..Len(todo') : todo'[j][1] \in {"start", "stop"}
    <3>1. todo = <<<<"start", f>>>>
      BY <1>0, <2>1, StartsStopped
    <3>2. todo' = <<>>
      BY <2>1, <3>1
    <3> QED BY <3>1, <3>2 DEF NoneWaits
  <2>3. \A g \in Flows : g # f => flow'[g] = flow[g] /\ tx'[g] = tx[g]
    BY <1>0, <1>7, <2>1, StartOkTakes DEF TypeInv, TypeOK
  <2>4. /\ tx'[f].front = front(tx'[f].port) /\ tx'[f].engine = engine(tx'[f].port)
        /\ link[tx'[f].front]
    BY <1>0, <1>7, <2>1, StartOkTakes
  <2>5. StartedIsBound'
    BY <1>0, <1>7, BoundStarted
  <2>6. \A g \in Flows : flow'[g].is_started =>
          \/ flow[g].is_started /\ tx'[g] = tx[g]
          \/ /\ tx'[g].front = front(tx'[g].port) /\ tx'[g].engine = engine(tx'[g].port)
             /\ link[tx'[g].front]
    BY <2>3, <2>4
  <2> QED BY <2>1, <2>2, <2>5, <2>6, Unhurried
<1> QED BY <1>1, <1>2, <1>3, <1>4, <1>5, <1>6, <1>7

\* The notifiers of a pair change.
LEMMA OrderNotifiers ==
  ASSUME OrderInv, NotifiersSucceed,
         \E p \in Ports : Fork(p) \/ Quota(p) \/ Clear(p) \/ ReconfigureFails(p)
  PROVE  FlowsFirst' /\ ChangePending' /\ PairPending' /\ LinkDownIsNoticed'
<1> PICK p \in Ports : Fork(p) \/ Quota(p) \/ Clear(p) \/ ReconfigureFails(p)
  OBVIOUS
<1>0. fork \in [Ports -> UNION {Itfs(r) : r \in Ports}] /\ quota \in [Ports -> UNION {Itfs(r) : r \in Ports}]
  BY DEF OrderInv, TypeInv, TypeOK, ItfChoices
<1>1. ~ReconfigureFails(p)
  BY DEF ReconfigureFails, NotifiersSucceed
<1>2. /\ todo # <<>> /\ todo' = Tail(todo)
      /\ Head(todo) \in {<<"fork", p>>, <<"quota", p>>, <<"clear", p>>}
      /\ UNCHANGED <<itf, wires, flow, tx>>
  BY <1>1 DEF Fork, Quota, Clear, Job, Proceed, ports
<1>3. \A f \in Flows : flow'[f].is_started =>
        flow[f].is_started /\ tx'[f] = tx[f] /\ Head(todo) # <<"stop", f>>
  BY <1>2
<1>4. ASSUME NEW r \in Ports
      PROVE  /\ fork'[r] = itf[r] \/ (fork'[r] = fork[r] /\ Head(todo) # <<"fork", r>>)
             /\ quota'[r] = itf[r] \/ (quota'[r] = quota[r] /\ Head(todo) # <<"quota", r>>)
  <2>1. CASE Fork(p)
    BY <1>0, <2>1 DEF Fork, Job
  <2>2. CASE Quota(p)
    BY <1>0, <2>2 DEF Quota, Job
  <2>3. CASE Clear(p)
    BY <2>3 DEF Clear, Job, ports
  <2> QED BY <1>1, <2>1, <2>2, <2>3
<1> QED BY <1>2, <1>3, <1>4, Advance

\* Steps that touch neither the flows that run nor the jobs.
LEMMA OrderQuiet ==
  ASSUME OrderInv, UNCHANGED <<ports, link, events, tx, bound, todo>>,
         \A f \in Flows : flow'[f].is_started = flow[f].is_started
  PROVE  StartedIsBound' /\ FlowsFirst' /\ ChangePending' /\ PairPending' /\ LinkDownIsNoticed'
<1>0. UNCHANGED <<itf, fork, quota, link, events, tx, bound, todo>>
  BY DEF ports
<1>1. StartedIsBound'
  BY <1>0 DEF OrderInv, StartedIsBound, Live
<1>2. FlowsFirst'
  <2> SUFFICES ASSUME NEW p \in Ports, NEW j \in 1..Len(todo'), todo'[j] \in Reconfiguring(p),
                      NEW f \in Flows, flow'[f].is_started, tx'[f].port = p
               PROVE  StopsIn(todo', f, j - 1)
    BY DEF FlowsFirst, Reconfiguring
  <2>1. flow[f].is_started /\ tx[f].port = p /\ j \in 1..Len(todo) /\ todo[j] \in Reconfiguring(p)
    BY <1>0
  <2>2. StopsIn(todo, f, j - 1)
    BY <2>1 DEF OrderInv, FlowsFirst
  <2> QED BY <1>0, <2>2
<1>4. ChangePending'
  BY <1>0 DEF OrderInv, ChangePending
<1>3. PairPending' /\ LinkDownIsNoticed'
  BY <1>0 DEF OrderInv, PairPending, LinkDownIsNoticed, OnPair, front, engine, StopsIn
<1> QED BY <1>1, <1>2, <1>3, <1>4

\* Those steps.
LEMMA QuietSteps ==
  ASSUME TypeInv,
         \/ \E f \in Flows :
              Create(f) \/ StopAsserts(f) \/ StartAsserts(f) \/ BurstEnds(f) \/ Hold(f)
         \/ \E d \in Pids : Resume(d)
         \/ \E f \in Flows, p \in Ports : SetPort(f, p)
         \/ \E f \in Flows, l \in Loads : SetLoad(f, l)
         \/ UNCHANGED vars
  PROVE  /\ UNCHANGED <<ports, link, events, tx, bound, todo>>
         /\ \A f \in Flows : flow'[f].is_started = flow[f].is_started
<1>0. flow \in [Flows -> TxImpl]
  BY DEF TypeInv, TypeOK
<1>1. ASSUME NEW f \in Flows, Create(f) PROVE \A g \in Flows : flow'[g].is_started = flow[g].is_started
  BY <1>0, <1>1 DEF Create, TxImpl
<1>2. ASSUME NEW f \in Flows, NEW p \in Ports, SetPort(f, p)
      PROVE  \A g \in Flows : flow'[g].is_started = flow[g].is_started
  BY <1>0, <1>2 DEF SetPort, TxImpl
<1>3. ASSUME NEW f \in Flows, NEW l \in Loads, SetLoad(f, l)
      PROVE  \A g \in Flows : flow'[g].is_started = flow[g].is_started
  BY <1>0, <1>3 DEF SetLoad, TxImpl
<1>4. ASSUME \/ \E f \in Flows : StopAsserts(f) \/ StartAsserts(f) \/ BurstEnds(f) \/ Hold(f)
             \/ \E d \in Pids : Resume(d)
             \/ UNCHANGED vars
      PROVE  \A g \in Flows : flow'[g].is_started = flow[g].is_started
  BY <1>4 DEF StopAsserts, StartAsserts, BurstEnds, Hold, Resume, vars
<1>5. UNCHANGED <<ports, link, events, tx, bound, todo>>
  BY DEF Create, SetPort, SetLoad, StopAsserts, StartAsserts, BurstEnds, Hold, Resume, vars, wires
<1> QED BY <1>1, <1>2, <1>3, <1>4, <1>5

\* The invariant holds initially.
LEMMA OrderInit ==
  ASSUME Init PROVE OrderInv
<1>1. /\ todo = <<>> /\ fork = itf /\ quota = itf
      /\ \A f \in Flows : ~flow[f].is_started /\ tx[f] = NoTx
      /\ \A p \in Ports : bound[p] = <<>>
  BY DEF Init, Absent
<1>2. StartedIsBound
  <2>1. \A p \in Ports : Range(bound[p]) = {} /\ IsInjective(bound[p])
    BY <1>1 DEF Range, IsInjective
  <2> QED BY <1>1, <2>1 DEF StartedIsBound, Live
<1>3. FlowsFirst /\ ChangePending /\ PairPending /\ LinkDownIsNoticed
  BY <1>1 DEF FlowsFirst, ChangePending, PairPending, LinkDownIsNoticed
<1> QED BY <1>2, <1>3, TypeInit DEF OrderInv

\* Every step keeps the invariant.
LEMMA OrderStep ==
  ASSUME OrderInv, NotifiersSucceed, [Next]_vars PROVE OrderInv'
<1>0. TypeInv'
  BY TypeStep DEF OrderInv
<1>1. ASSUME UNCHANGED <<flow, tx, bound>> PROVE StartedIsBound'
  BY <1>1 DEF OrderInv, StartedIsBound, Live
<1>2. ASSUME NEW p \in Ports, NEW i \in Itfs(p), SetItf(p, i) PROVE OrderInv'
  <2>1. StartedIsBound'
    BY <1>1, <1>2 DEF SetItf
  <2> QED BY <1>0, <1>2, <2>1, OrderSetItf DEF OrderInv
<1>3. CASE Dispatch
  <2>1. StartedIsBound'
    BY <1>1, <1>3 DEF Dispatch
  <2> QED BY <1>0, <1>3, <2>1, OrderDispatch DEF OrderInv
<1>4. ASSUME NEW d \in Pids, LinkChange(d) PROVE OrderInv'
  <2>1. StartedIsBound'
    BY <1>1, <1>4 DEF LinkChange
  <2> QED BY <1>0, <1>4, <2>1, OrderLinkChange DEF OrderInv
<1>5. ASSUME NEW p \in Ports, Fork(p) \/ Quota(p) \/ Clear(p) \/ ReconfigureFails(p) PROVE OrderInv'
  <2>1. StartedIsBound'
    BY <1>1, <1>5 DEF Fork, Quota, Clear, ReconfigureFails
  <2> QED BY <1>0, <1>5, <2>1, OrderNotifiers DEF OrderInv
<1>6. ASSUME \E f \in Flows : \/ CallStart(f) \/ CallStop(f) \/ AutoStop(f) \/ Destroy(f)
                             \/ StopIdle(f) \/ StopStarted(f) \/ StopFails(f)
                             \/ StartRefused(f) \/ StartNoCells(f) \/ StartFails(f) \/ StartOk(f)
      PROVE  OrderInv'
  BY <1>0, <1>6, OrderCalls DEF OrderInv
<1>7. ASSUME \/ \E f \in Flows :
                  Create(f) \/ StopAsserts(f) \/ StartAsserts(f) \/ BurstEnds(f) \/ Hold(f)
             \/ \E d \in Pids : Resume(d)
             \/ \E f \in Flows, p \in Ports : SetPort(f, p)
             \/ \E f \in Flows, l \in Loads : SetLoad(f, l)
             \/ UNCHANGED vars
      PROVE  OrderInv'
  <2>1. TypeInv
    BY DEF OrderInv
  <2>2. /\ UNCHANGED <<ports, link, events, tx, bound, todo>>
        /\ \A f \in Flows : flow'[f].is_started = flow[f].is_started
    BY <1>7, <2>1, QuietSteps
  <2> QED BY <1>0, <2>2, OrderQuiet DEF OrderInv
<1> QED BY <1>2, <1>3, <1>4, <1>5, <1>6, <1>7, NextCases

\* The inductive invariant behind the theorems below.
THEOREM OrderInvariant == ASSUME NotifiersSucceed PROVE Spec => []OrderInv
BY OrderInit, OrderStep, PTL DEF Spec

\* A started flow is bound, once, to the notifications of the port its TX was
\* made for, and nobody else is (flow.cpp:59-65, 89-90).
THEOREM StartedFlowsAreBound == ASSUME NotifiersSucceed PROVE Spec => []StartedIsBound
<1>1. ASSUME OrderInv PROVE StartedIsBound
  BY <1>1 DEF OrderInv
<1> QED BY <1>1, OrderInvariant, PTL

\* When set_itf has returned, no flow runs on the pair the port had before, and
\* fork entries and thresholds serve the new one (tx.cpp:226, mmu.cpp:24).
THEOREM PairsAreInForce == ASSUME NotifiersSucceed PROVE Spec => []PairInForce
<1>1. ASSUME OrderInv PROVE PairInForce
  <2> SUFFICES ASSUME todo = <<>>
               PROVE  /\ fork = itf /\ quota = itf
                      /\ \A f \in Flows : flow[f].is_started =>
                           tx[f].front = front(tx[f].port) /\ tx[f].engine = engine(tx[f].port)
    BY DEF PairInForce
  <2>1. /\ \A p \in Ports : fork[p] = itf[p] /\ quota[p] = itf[p]
        /\ \A f \in Flows : flow[f].is_started => OnPair(f)
    BY <1>1, Settled DEF NoneWaits
  <2>2. itf \in ItfChoices /\ fork \in ItfChoices /\ quota \in ItfChoices
    BY <1>1 DEF OrderInv, TypeInv, TypeOK
  <2> QED BY <2>1, <2>2 DEF ItfChoices, OnPair
<1> QED BY <1>1, OrderInvariant, PTL

\* A flow runs on without link only while the event is on its way or its stop
\* waits its turn: no order of flaps, pair changes and restarts loses it
\* (notify.cpp:24-85, hal_port.cpp:204-228).
THEOREM LostLinksAreNoticed == ASSUME NotifiersSucceed PROVE Spec => []LinkDownIsNoticed
<1>1. ASSUME OrderInv PROVE LinkDownIsNoticed
  BY <1>1 DEF OrderInv
<1> QED BY <1>1, OrderInvariant, PTL

\* When a port is reconfigured its flows are gone.
LEMMA FlowsGone ==
  ASSUME OrderInv, NEW p \in Ports, todo # <<>>, Head(todo) \in Reconfiguring(p),
         NEW f \in Flows, flow[f].is_started
  PROVE  tx[f].port # p
<1> SUFFICES ASSUME tx[f].port = p PROVE FALSE
  OBVIOUS
<1>1. todo \in Seq(Jobs)
  BY DEF OrderInv, TypeInv, TypeOK
<1>2. 1 \in 1..Len(todo) /\ todo[1] \in Reconfiguring(p)
  BY <1>1, ProceedType
<1>3. StopsIn(todo, f, 1 - 1)
  BY <1>2 DEF OrderInv, FlowsFirst
<1> QED BY <1>3 DEF StopsIn

\* "it need to be notified after flow ones" (notify.cpp:137): a step that
\* reconfigures a port finds no flow running on it.
THEOREM FlowsStopFirst == ASSUME NotifiersSucceed PROVE Spec => ReconfiguredAfterFlows
<1> DEFINE Late(p) == todo # <<>> /\ Head(todo) \in {"fork", "quota", "clear"} \X {p} /\ todo' # todo
           Ordered == \A p \in Ports : Late(p) => \A f \in Flows : flow[f].is_started => tx[f].port # p
<1>1. ASSUME OrderInv PROVE Ordered
  BY <1>1, FlowsGone DEF Reconfiguring
<1>2. ReconfiguredAfterFlows <=> [][Ordered]_vars
  BY DEF ReconfiguredAfterFlows
<1> HIDE DEF Ordered
<1> QED BY <1>1, <1>2, OrderInvariant, PTL
-----------------------------------------------------------------------------
(* The refinement of TxService.                                            *)

\* What the service sees of each flow.
On == [f \in Flows |-> IF tx[f] = NoTx THEN NoTx ELSE Visible(tx[f])]

\* A flow is off for the service when it has no TX.
LEMMA OnOrOff ==
  ASSUME TypeOK, NEW f \in Flows
  PROVE  /\ On[f] = Service!Off <=> tx[f] = NoTx
         /\ tx[f] = NoTx => On[f].port \notin Ports
         /\ tx[f] # NoTx => /\ tx[f] \in Tx /\ On[f].port = tx[f].port
                            /\ On[f].front = tx[f].front /\ On[f].engine = tx[f].engine
                            /\ On[f].cosq = tx[f].cosq /\ On[f].cells = tx[f].cells
<1>1. CASE tx[f] = NoTx
  BY <1>1, TxFlowAssumption DEF On, NoTx, Service!Off
<1>2. CASE tx[f] # NoTx
  <2>1. tx[f] \in Tx /\ On[f] = Visible(tx[f])
    BY <1>2 DEF On, TypeOK
  <2>2. tx[f].port \in Ports
    BY <2>1 DEF Tx
  <2>3. Visible(tx[f]).port = tx[f].port /\ Service!Off.port = None
    BY DEF Visible, Service!Off
  <2> QED BY <1>2, <2>1, <2>2, <2>3, TxFlowAssumption DEF Visible
<1> QED BY <1>1, <1>2

\* The queues that are not free are those the service knows as taken.
LEMMA ServiceTaken ==
  ASSUME TypeOK, NEW d \in Pids PROVE Service!Taken(d) = QueuesHeld(d)
<1>1. ASSUME NEW q
      PROVE  q \in Service!Taken(d) <=> \E f \in Flows :
               /\ On[f] # Service!Off /\ d \in {On[f].front, On[f].engine} /\ On[f].cosq = q
  BY DEF Service!Taken, On
<1>2. ASSUME NEW q
      PROVE  q \in QueuesHeld(d) <=> \E f \in Flows :
               /\ tx[f] # NoTx /\ d \in {tx[f].front, tx[f].engine} /\ tx[f].cosq = q
  BY DEF QueuesHeld, Holds
<1>3. ASSUME NEW q PROVE q \in Service!Taken(d) <=> q \in QueuesHeld(d)
  BY <1>1, <1>2, OnOrOff
<1> QED BY <1>3

\* So are the cells.
LEMMA ServiceUsed ==
  ASSUME TypeOK PROVE Service!Used = SumFunction(Reserved)
<1>1. \A f \in Flows : (IF On[f] = Service!Off THEN 0 ELSE On[f].cells)
                         = IF tx[f] = NoTx THEN 0 ELSE tx[f].cells
  BY OnOrOff
<1>2. [f \in Flows |-> IF On[f] = Service!Off THEN 0 ELSE On[f].cells] = Reserved
  BY <1>1 DEF Reserved
<1>3. Service!Used = Service!SumFunction(Reserved)
  BY <1>2 DEF Service!Used, On
<1>4. Service!SumFunction(Reserved) = SumFunction(Reserved)
  <2> HIDE DEF Reserved
  <2> QED BY DEF Service!SumFunction, SumFunction, Service!SumFunctionOnSet, SumFunctionOnSet,
                 Service!FoldFunctionOnSet, FoldFunctionOnSet, Service!MapThenFoldSet, MapThenFoldSet
<1> QED BY <1>3, <1>4

\* Nothing the service sees changes.
LEMMA ServiceStutter ==
  ASSUME UNCHANGED <<tx, fork, quota>> PROVE UNCHANGED Service!vars
BY DEF Service!vars

\* A TX that goes is a flow that goes off.
LEMMA ServiceEnds ==
  ASSUME TypeInv, NEW f \in Flows, tx[f] # NoTx, tx' = [tx EXCEPT ![f] = NoTx],
         UNCHANGED <<fork, quota>>
  PROVE  Service!End(f)
<1>1. On[f] # Service!Off
  BY OnOrOff DEF TypeInv
<1>2. tx'[f] = NoTx /\ \A g \in Flows \ {f} : tx'[g] = tx[g]
  BY DEF TypeInv, TypeOK
<1>3. On' = [On EXCEPT ![f] = Service!Off]
  <2>1. \A g \in Flows : On'[g] = IF g = f THEN NoTx ELSE On[g]
    BY <1>2 DEF On
  <2>2. On = [g \in Flows |-> On[g]] /\ On' = [g \in Flows |-> On'[g]]
    BY DEF On
  <2>3. On' = [On EXCEPT ![f] = NoTx]
    BY ONLY <2>1, <2>2, f \in Flows
  <2> QED BY <2>3 DEF NoTx, Service!Off
<1> QED BY <1>1, <1>3 DEF Service!End, On

\* A start is a flow that goes on.
LEMMA ServiceBegins ==
  ASSUME OrderInv, TypeInv', QueuesOwned, CellsCounted, CellsCounted', NEW f \in Flows, StartOk(f),
         NEW p \in Ports, p = flow[f].port
  PROVE  Service!Begin(f, p)
<1> DEFINE q == tx'[f].cosq
           k == tx'[f].cells
           pair == Pair[p][fork[p]]
<1>0. TypeInv /\ TypeOK /\ TypeOK'
  BY DEF OrderInv, TypeInv
<1>1. /\ front(p) \in Pids /\ engine(p) \in Pids
      /\ tx' = [tx EXCEPT ![f] = tx'[f]] /\ tx'[f] \in Tx /\ tx'[f] # NoTx
      /\ tx'[f].port = p /\ tx'[f].front = front(p) /\ tx'[f].engine = engine(p)
      /\ q \in Grants(p)
  BY <1>0, StartOkTakes
<1>2. tx[f] = NoTx /\ todo = <<<<"start", f>>>>
  BY <1>0, StartsStopped DEF StartOk
<1>3. fork[p] = itf[p] /\ quota[p] = itf[p]
  BY <1>1, <1>2, Settled DEF NoneWaits
<1>4. pair.front = front(p) /\ pair.engine = engine(p)
  BY <1>3 DEF front, engine
<1>5. On[f] = Service!Off
  BY <1>0, <1>2, OnOrOff
<1>6. \A d \in {pair.front, pair.engine} : q \in QueuesOf[d] \ Service!Taken(d)
  <2> SUFFICES ASSUME NEW d \in {front(p), engine(p)} PROVE q \in QueuesOf[d] \ QueuesHeld(d)
    BY <1>0, <1>1, <1>4, ServiceTaken
  <2>1. d \in Pids /\ q \in db_port_q[d]
    BY <1>1 DEF Grants
  <2> QED BY <2>1 DEF QueuesOwned
<1>7. q \in Queues /\ k \in Nat \ {0}
  BY <1>1 DEF Tx
<1>8. Service!Used + k <= Cells
  <2>1. \A g \in Flows \ {f} : tx'[g] = tx[g]
    BY <1>0, <1>1 DEF TypeOK
  <2>2. /\ SumFunction(Reserved) \in Nat /\ SumFunction(Reserved)' \in Nat
        /\ SumFunction(Reserved)' + Reserved[f] = SumFunction(Reserved) + Reserved'[f]
    BY <1>0, <2>1, ReservedChanges
  <2>3. Reserved[f] = 0 /\ Reserved'[f] = k
    BY <1>1, <1>2 DEF Reserved
  <2>4. free_cell' \in Nat /\ free_cell' + SumFunction(Reserved)' = Cells /\ Cells \in Nat
    BY <1>0, TxFlowAssumption DEF TypeOK, CellsCounted
  <2> HIDE DEF k
  <2>5. SumFunction(Reserved) + k <= Cells
    BY <1>7, <2>2, <2>3, <2>4
  <2> QED BY <1>0, <2>5, ServiceUsed
<1>9. k \in 1..Cells
  <2>1. Service!Used \in Nat /\ Cells \in Nat
    <3>1. \A g \in Flows \ {f} : tx'[g] = tx[g]
      BY <1>0, <1>1 DEF TypeOK
    <3> QED BY <1>0, <3>1, ReservedChanges, ServiceUsed, TxFlowAssumption
  <2> HIDE DEF k
  <2> QED BY <1>7, <1>8, <2>1
<1>10. On' = [On EXCEPT ![f] = [port |-> p, front |-> pair.front, engine |-> pair.engine,
                                cosq |-> q, cells |-> k]]
  <2>1. Visible(tx'[f]) = [port |-> p, front |-> pair.front, engine |-> pair.engine,
                           cosq |-> q, cells |-> k]
    BY <1>1, <1>4 DEF Visible
  <2>2. \A g \in Flows \ {f} : tx'[g] = tx[g]
    BY <1>0, <1>1 DEF TypeOK
  <2>3. On' = [On EXCEPT ![f] = Visible(tx'[f])]
    BY <1>1, <2>2 DEF On
  <2> QED BY <2>1, <2>3
<1>11. UNCHANGED <<fork, quota>>
  BY DEF StartOk, ports
<1> QED
  BY <1>1, <1>3, <1>5, <1>6, <1>7, <1>8, <1>9, <1>10, <1>11 DEF Service!Begin, On

\* Fork entries and thresholds are set when all flows of the port are off.
LEMMA ServiceReconfigures ==
  ASSUME OrderInv, NEW p \in Ports, Fork(p) \/ Quota(p)
  PROVE  Service!Rewire(p) \/ Service!Relimit(p)
<1>0. TypeInv /\ TypeOK
  BY DEF OrderInv, TypeInv
<1>1. todo # <<>> /\ Head(todo) \in Reconfiguring(p)
  BY DEF Fork, Quota, Job, Reconfiguring
<1>2. \A f \in Flows : tx[f] # NoTx => tx[f].port # p
  BY <1>0, <1>1, FlowsGone DEF TypeInv, StartedOwnsTx
<1>3. Service!OnAt(p) = {}
  <2>1. \A f \in Flows : On[f].port # p
    BY <1>0, <1>2, OnOrOff
  <2> QED BY <2>1 DEF Service!OnAt, On
<1>4. itf[p] \in DOMAIN Pair[p]
  BY <1>0 DEF TypeOK, ItfChoices, Itfs
<1>5. CASE Fork(p)
  <2>1. fork' = [fork EXCEPT ![p] = itf[p]] /\ UNCHANGED <<tx, quota>>
    BY <1>5 DEF Fork
  <2> QED BY <1>3, <1>4, <2>1 DEF Service!Rewire
<1>6. CASE Quota(p)
  <2>1. quota' = [quota EXCEPT ![p] = itf[p]] /\ UNCHANGED <<tx, fork>>
    BY <1>6 DEF Quota
  <2> QED BY <1>3, <1>4, <2>1 DEF Service!Relimit
<1> QED BY <1>5, <1>6

\* The first states agree.
LEMMA ServiceInit == Init => Service!Init
<1> SUFFICES ASSUME Init PROVE Service!Init
  OBVIOUS
<1>1. On = [f \in Flows |-> Service!Off]
  BY DEF Init, On, NoTx, Service!Off
<1>2. fork \in ItfChoices /\ quota = fork
  BY DEF Init
<1> QED BY <1>1, <1>2 DEF Service!Init, ItfChoices, Itfs, On

\* Each step is one of the service or none.
LEMMA ServiceStep ==
  ASSUME OrderInv, TypeInv', QueuesOwned, CellsCounted, CellsCounted', [Next]_vars
  PROVE  Service!Next \/ UNCHANGED Service!vars
<1>0. TypeInv
  BY DEF OrderInv
<1>1. ASSUME NEW f \in Flows, Destroy(f) PROVE Service!Next \/ UNCHANGED Service!vars
  <2>1. tx' = [tx EXCEPT ![f] = NoTx] /\ UNCHANGED <<fork, quota>>
    BY <1>1 DEF Destroy, ports
  <2>2. CASE tx[f] = NoTx
    <3>1. tx' = tx
      BY <1>0, <2>1, <2>2 DEF TypeInv, TypeOK
    <3> QED BY <2>1, <3>1, ServiceStutter
  <2>3. CASE tx[f] # NoTx
    BY <1>0, <2>1, <2>3, ServiceEnds DEF Service!Next
  <2> QED BY <2>2, <2>3
<1>2. ASSUME NEW f \in Flows, StopStarted(f) PROVE Service!Next
  <2>1. tx[f] # NoTx /\ tx' = [tx EXCEPT ![f] = NoTx] /\ UNCHANGED <<fork, quota>>
    BY <1>0, <1>2 DEF StopStarted, ports, TypeInv, StartedOwnsTx
  <2> QED BY <1>0, <2>1, ServiceEnds DEF Service!Next
<1>3. ASSUME NEW f \in Flows, StartOk(f) PROVE Service!Next
  <2>1. PICK p \in Ports : p = flow[f].port
    BY <1>0, <1>3, StartOkTakes
  <2>2. Service!Begin(f, p)
    BY <1>3, <2>1, ServiceBegins
  <2> QED BY <2>2 DEF Service!Next
<1>4. ASSUME NEW p \in Ports, Fork(p) \/ Quota(p) PROVE Service!Next
  BY <1>4, ServiceReconfigures DEF Service!Next
<1>5. ASSUME NEW f \in Flows,
             \/ Create(f) \/ CallStart(f) \/ CallStop(f) \/ AutoStop(f)
             \/ StopIdle(f) \/ StopFails(f) \/ StopAsserts(f)
             \/ StartRefused(f) \/ StartNoCells(f) \/ StartFails(f) \/ StartAsserts(f)
             \/ BurstEnds(f) \/ Hold(f)
             \/ \E p \in Ports : SetPort(f, p)
             \/ \E l \in Loads : SetLoad(f, l)
      PROVE  UNCHANGED <<tx, fork, quota>>
  BY <1>5 DEF Create, CallStart, CallStop, AutoStop, StopIdle, StopFails, StopAsserts, StartRefused,
              StartNoCells, StartFails, StartAsserts, BurstEnds, Hold, SetPort, SetLoad, ports
<1>6. ASSUME \/ \E p \in Ports : Clear(p) \/ ReconfigureFails(p)
             \/ \E p \in Ports : \E i \in Itfs(p) : SetItf(p, i)
             \/ \E d \in Pids : LinkChange(d) \/ Resume(d)
             \/ Dispatch
             \/ UNCHANGED vars
      PROVE  UNCHANGED <<tx, fork, quota>>
  BY <1>6 DEF Clear, ReconfigureFails, SetItf, LinkChange, Resume, Dispatch, vars, ports
<1> QED BY <1>1, <1>2, <1>3, <1>4, <1>5, <1>6, NextCases, ServiceStutter

\* Whatever flows, calls, link events and refused starts there are: if the SDK
\* calls of stop and of the notifiers succeed, a TX_FLOW is what its owner
\* counts on (flow.h:12-46) - on with a queue and cells of its own on the pair in
\* force, or off, and off whenever that pair is rewired.
THEOREM Tx_ImplementsService == ASSUME NotifiersSucceed PROVE Spec => ImplementsService
<1>1. OrderInv /\ TypeInv' /\ QueuesOwned /\ CellsCounted /\ CellsCounted' /\ [Next]_vars
        => [Service!Next]_(Service!vars)
  BY ServiceStep
<1>2. OrderInv => TypeInv
  BY DEF OrderInv
<1> QED
  BY <1>1, <1>2, ServiceInit, OrderInvariant, QueuesAreOwned, CellsAreCounted, PTL
     DEF Spec, ImplementsService, Service!Spec
=============================================================================
