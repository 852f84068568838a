----------------------------- MODULE RxFlowProofs -----------------------------
(***************************************************************************)
(* Proofs for RxFlow, with any number of flows, ports and queues: who owns *)
(* a queue of the CPU port, whose packets a flow keeps and which ports its *)
(* filter is on.  Calls are functions of a state, and each keeps a Sound   *)
(* state sound; what the tables of the filters hold plays no part.         *)
(***************************************************************************)
EXTENDS RxFlowProperties, NatLemmas, SequenceTheorems

USE RxAssumption
-----------------------------------------------------------------------------
(* The ports of a filter.                                                  *)

LEMMA HasLast ==
  ASSUME NEW T, IsFiniteSet(T), T # {}, T \subseteq Int
  PROVE  \E x \in T : \A y \in T : y <= x
<1> DEFINE Good == {U \in SUBSET T : U = {} \/ \E x \in U : \A y \in U : y <= x}
<1>1. {} \in Good
  OBVIOUS
<1>2. ASSUME NEW U \in SUBSET T, U # {}, \A z \in U : U \ {z} \in Good PROVE U \in Good
  <2>1. PICK z \in U : TRUE
    BY <1>2
  <2>2. CASE U \ {z} = {}
    <3>1. \A y \in U : y <= z
      BY <2>1, <2>2
    <3> QED BY <3>1, <2>1
  <2>3. CASE U \ {z} # {}
    <3>1. PICK x \in U \ {z} : \A y \in U \ {z} : y <= x
      BY <1>2, <2>1, <2>3
    <3>2. x \in Int /\ z \in Int /\ U \subseteq Int
      BY <2>1, <3>1
    <3>3. CASE z <= x
      <4>1. \A y \in U : y <= x
        BY <3>1, <3>3
      <4> QED BY <3>1, <4>1
    <3>4. CASE ~(z <= x)
      <4>1. \A y \in U : y <= z
        BY <3>1, <3>2, <3>4
      <4> QED BY <2>1, <4>1
    <3> QED BY <3>3, <3>4
  <2> QED BY <2>2, <2>3
<1> HIDE DEF Good
<1>3. \A U \in SUBSET T : U # {} /\ (\A z \in U : U \ {z} \in Good) => U \in Good
  BY <1>2
<1>4. T \in Good
  BY <1>1, <1>3, SetInduction
<1> QED BY <1>4 DEF Good

Orders(s, T) ==
  s \in [1..Cardinality(T) -> T] /\ \A i, j \in DOMAIN s : i < j => s[i] < s[j]

\* Names can be put in order.
LEMMA SortedNames ==
  ASSUME NEW names, names \subseteq Ports
  PROVE  Orders(Sorted(names), names) /\ Cardinality(names) \in Nat
<1> DEFINE Good == {T \in SUBSET Ports : \E s : Orders(s, T)}
<1>1. {} \in Good
  <2>1. Cardinality({}) = 0
    BY FS_EmptySet
  <2>2. Orders(<<>>, {})
    BY <2>1 DEF Orders
  <2> QED BY <2>2
<1>2. ASSUME NEW T \in SUBSET Ports, T # {}, \A z \in T : T \ {z} \in Good PROVE T \in Good
  <2>0. IsFiniteSet(T) /\ T \subseteq Int
    BY FS_Subset
  <2>1. PICK x \in T : \A y \in T : y <= x
    BY <1>2, <2>0, HasLast
  <2>2. PICK s : Orders(s, T \ {x})
    BY <1>2, <2>1
  <2> DEFINE n == Cardinality(T \ {x})
             r == [i \in 1..(n + 1) |-> IF i = n + 1 THEN x ELSE s[i]]
  <2>3. n \in Nat /\ Cardinality(T) = n + 1
    <3>1. Cardinality(T \ {x}) = Cardinality(T) - 1 /\ Cardinality(T) \in Nat /\ IsFiniteSet(T \ {x})
      BY <2>0, <2>1, FS_RemoveElement, FS_CardinalityType
    <3>2. Cardinality(T \ {x}) \in Nat
      BY <3>1, FS_CardinalityType
    <3> QED BY <3>1, <3>2
  <2> HIDE DEF n
  <2>4. s \in [1..n -> T \ {x}] /\ \A i, j \in 1..n : i < j => s[i] < s[j]
    BY <2>2 DEF Orders, n
  <2>5. r \in [1..(n + 1) -> T]
    BY <2>3, <2>4
  <2>6. ASSUME NEW i \in 1..(n + 1), NEW j \in 1..(n + 1), i < j PROVE r[i] < r[j]
    <3>1. i \in 1..n /\ r[i] = s[i] /\ s[i] \in T \ {x}
      BY <2>3, <2>4, <2>6
    <3>2. CASE j = n + 1
      <4>1. r[j] = x /\ s[i] \in Int /\ x \in Int /\ s[i] <= x /\ s[i] # x
        BY <2>0, <2>1, <3>1, <3>2
      <4> QED BY <3>1, <4>1
    <3>3. CASE j # n + 1
      <4>1. j \in 1..n /\ r[j] = s[j]
        BY <2>3, <3>3
      <4> QED BY <2>4, <2>6, <3>1, <4>1
    <3> QED BY <3>2, <3>3
  <2>7. Orders(r, T)
    BY <2>3, <2>5, <2>6 DEF Orders
  <2> QED BY <2>7
<1> HIDE DEF Good
<1>3. \A T \in SUBSET Ports : T # {} /\ (\A z \in T : T \ {z} \in Good) => T \in Good
  BY <1>2
<1>4. names \in Good
  BY <1>1, <1>3, SetInduction
<1>5. \E s : Orders(s, names)
  BY <1>4 DEF Good
<1>6. Sorted(names) = CHOOSE s \in [1..Cardinality(names) -> names] : \A i, j \in DOMAIN s : i < j => s[i] < s[j]
  BY DEF Sorted
<1>7. Orders(Sorted(names), names)
  BY <1>5, <1>6 DEF Orders
<1>8. Cardinality(names) \in Nat
  BY FS_Subset, FS_CardinalityType
<1> QED BY <1>7, <1>8

\* extract_ports, when the fronts are fr.
PortsOf(fr, names) == [i \in 1..Cardinality(names) |-> fr[Sorted(names)[i]]]

\* A filter's ports are fronts of its names, in a sequence.
LEMMA ExtractedPorts ==
  ASSUME NEW names, names \subseteq Ports, NEW fr \in [Ports -> Pids]
  PROVE  PortsOf(fr, names) \in Seq(Pids)
<1> DEFINE n == Cardinality(names)
           s == Sorted(names)
<1>1. n \in Nat /\ s \in [1..n -> names]
  BY SortedNames DEF Orders
<1>2. PortsOf(fr, names) = [i \in 1..n |-> fr[s[i]]]
  BY DEF PortsOf
<1> HIDE DEF n, s
<1>3. [i \in 1..n |-> fr[s[i]]] \in [1..n -> Pids]
  BY <1>1
<1>4. [i \in 1..n |-> fr[s[i]]] \in Seq(Pids)
  BY <1>1, <1>3
<1> QED BY <1>2, <1>4

\* They change only with the front of one of the names.
LEMMA SamePorts ==
  ASSUME NEW names, names \subseteq Ports, NEW fr, NEW gr, \A p \in names : gr[p] = fr[p]
  PROVE  PortsOf(gr, names) = PortsOf(fr, names)
<1> DEFINE n == Cardinality(names)
           s == Sorted(names)
<1>1. n \in Nat /\ s \in [1..n -> names]
  BY SortedNames DEF Orders
<1>2. PortsOf(fr, names) = [i \in 1..n |-> fr[s[i]]] /\ PortsOf(gr, names) = [i \in 1..n |-> gr[s[i]]]
  BY DEF PortsOf
<1> HIDE DEF n, s
<1>3. \A i \in 1..n : gr[s[i]] = fr[s[i]]
  BY <1>1
<1> QED BY <1>2, <1>3
-----------------------------------------------------------------------------
(* Queues.                                                                 *)

LEMMA PreferFactor ==
  ASSUME NEW c \in C!CpuTypes, NEW q
  PROVE  C!prefer_factor(c, q) \in 0..Cardinality(Pids)
<1> DEFINE U == {p \in Pids : <<p, q>> \in c.used}
<1>1. IsFiniteSet(U) /\ Cardinality(U) <= Cardinality(Pids)
  BY FS_Subset
<1>2. Cardinality(U) \in Nat /\ Cardinality(Pids) \in Nat
  BY <1>1, FS_CardinalityType
<1>3. C!prefer_factor(c, q) = Cardinality(U)
  BY DEF C!prefer_factor, C!Cardinality, Cardinality
<1> HIDE DEF U
<1> QED BY <1>1, <1>2, <1>3

\* db_alloc finds a queue if there is one.
LEMMA ChosenIsAvailable ==
  ASSUME NEW c \in C!CpuTypes, NEW ports, C!Available(c, ports) # {}
  PROVE  C!Chosen(c, ports) \in C!Available(c, ports)
<1> DEFINE A == C!Available(c, ports)
           n == Cardinality(Pids)
           pf(q) == C!prefer_factor(c, q)
           Free == {n - pf(q) : q \in A}
<1>1. n \in Nat /\ \A q : pf(q) \in 0..n
  BY PreferFactor, FS_CardinalityType
<1>2. A \subseteq Nat
  BY DEF C!Available
<1>3. \E q \in A : \A r \in A : pf(r) < pf(q) \/ (pf(r) = pf(q) /\ q <= r)
  <2> HIDE DEF A, n, pf
  <2>1. Free \subseteq Nat /\ Free # {}
    <3>1. A # {}
      BY DEF A
    <3>2. \A q \in A : n - pf(q) \in Nat
      BY <1>1
    <3> QED BY <3>1, <3>2
  <2> HIDE DEF Free
  <2>2. PICK x \in Free : \A y \in Free : x <= y
    BY <2>1, NatMin
  <2>3. PICK q0 \in A : x = n - pf(q0)
    BY <2>2 DEF Free
  <2> DEFINE Best == {q \in A : pf(q) = pf(q0)}
  <2>4. Best # {} /\ Best \subseteq Nat
    BY <1>2, <2>3
  <2>5. PICK q \in Best : \A r \in Best : q <= r
    <3> HIDE DEF Best
    <3> QED BY <2>4, NatMin
  <2>6. ASSUME NEW r \in A PROVE pf(r) < pf(q) \/ (pf(r) = pf(q) /\ q <= r)
    <3>1. n - pf(r) \in Free
      BY DEF Free
    <3>2. n - pf(q0) <= n - pf(r)
      BY <2>2, <2>3, <3>1
    <3>3. pf(r) <= pf(q) /\ pf(q) = pf(q0)
      BY <1>1, <2>5, <3>2
    <3>4. CASE pf(r) = pf(q)
      BY <2>5, <3>3, <3>4
    <3> QED BY <1>1, <3>3, <3>4
  <2> QED BY <2>5, <2>6
<1>4. C!Chosen(c, ports) = CHOOSE q \in A : \A r \in A : pf(r) < pf(q) \/ (pf(r) = pf(q) /\ q <= r)
  BY DEF C!Chosen
<1> HIDE DEF A, pf
<1>5. C!Chosen(c, ports) \in A
  BY <1>3, <1>4
<1> QED BY <1>5 DEF A

\* Freeing one.
LEMMA FreedQueue ==
  ASSUME NEW c \in C!CpuTypes, NEW m
  PROVE  /\ FreeQueue(c, m) \in C!CpuTypes
         /\ FreeQueue(c, m).used = c.used \ Own(m)
         /\ \A x \in C!Pairs : FreeQueue(c, m).dispatch[x] =
                              IF x \in Own(m) THEN None ELSE c.dispatch[x]
<1>1. c.used \subseteq C!Pairs /\ \A x \in C!Pairs : c.dispatch[x] \in Flows \cup {None}
  BY DEF C!CpuTypes
<1>2. CASE m.cpu_rx = NoQ
  BY <1>2 DEF FreeQueue, Own
<1>3. CASE m.cpu_rx # NoQ
  <2> DEFINE o == Elements(m.rx.ports) \X {m.cpu_rx}
             d == [x \in C!Pairs |-> IF x \in o THEN None ELSE c.dispatch[x]]
  <2>1. Own(m) = o
    BY <1>3 DEF Own
  <2>2. FreeQueue(c, m) = [used |-> c.used \ o, dispatch |-> d]
    BY <1>3 DEF FreeQueue, C!Freed
  <2> HIDE DEF o
  <2>3. d \in [C!Pairs -> Flows \cup {None}]
    BY <1>1
  <2>4. c.used \ o \in SUBSET C!Pairs
    BY <1>1
  <2> QED BY <2>1, <2>2, <2>3, <2>4 DEF C!CpuTypes
<1> QED BY <1>2, <1>3
-----------------------------------------------------------------------------
(* The order of binding.                                                   *)

Removed(s, f, r, k) ==
  /\ r \in Seq(Flows) /\ s[k] = f /\ Len(r) = Len(s) - 1
  /\ \A i \in 1..(Len(s) - 1) : r[i] = IF i < k THEN s[i] ELSE s[i + 1]

\* The callback at k is the one that goes.
LEMMA RemovedAt ==
  ASSUME NEW s \in Seq(Flows), NEW f, \E i \in 1..Len(s) : s[i] = f
  PROVE  \E k \in 1..Len(s) : Removed(s, f, RemoveFirst(s, f), k)
<1> DEFINE I == {i \in 1..Len(s) : s[i] = f}
           k == Min(I)
           a == SubSeq(s, 1, k - 1)
           b == SubSeq(s, k + 1, Len(s))
<1>1. I # {} /\ I \subseteq Nat
  OBVIOUS
<1>2. RemoveFirst(s, f) = a \o b
  BY <1>1 DEF RemoveFirst, SelectInSeq, RemoveAt
<1>3. \E x \in I : \A y \in I : x <= y
  <2> HIDE DEF I
  <2> QED BY <1>1, NatMin
<1>4. k \in I
  <2> HIDE DEF I
  <2> QED BY <1>3 DEF Min
<1>5. k \in 1..Len(s) /\ s[k] = f
  BY <1>4
<1> HIDE DEF k, I
<1>6. /\ a \in Seq(Flows) /\ Len(a) = k - 1 /\ \A i \in 1..(k - 1) : a[i] = s[i]
  BY <1>5, SubSeqProperties
<1>7. /\ b \in Seq(Flows) /\ Len(b) = Len(s) - k /\ \A i \in 1..(Len(s) - k) : b[i] = s[k + i]
  BY <1>5, SubSeqProperties
<1> HIDE DEF a, b
<1>8. a \in Seq(Flows) /\ b \in Seq(Flows)
  BY <1>6, <1>7
<1>9. /\ a \o b \in Seq(Flows) /\ Len(a \o b) = Len(a) + Len(b)
      /\ \A i \in 1..(Len(a) + Len(b)) :
           (a \o b)[i] = IF i <= Len(a) THEN a[i] ELSE b[i - Len(a)]
  BY ONLY <1>8, ConcatProperties
<1>10. ASSUME NEW i \in 1..(Len(s) - 1)
       PROVE  (a \o b)[i] = IF i < k THEN s[i] ELSE s[i + 1]
  <2>1. CASE i < k
    BY <1>5, <1>6, <1>7, <1>9, <2>1
  <2>2. CASE ~(i < k)
    <3>1. i - (k - 1) \in 1..(Len(s) - k) /\ k + (i - (k - 1)) = i + 1
      BY <1>5, <2>2
    <3>2. (a \o b)[i] = b[i - (k - 1)]
      BY <1>5, <1>6, <1>7, <1>9, <2>2
    <3> QED BY <1>7, <2>2, <3>1, <3>2
  <2> QED BY <2>1, <2>2
<1>11. Removed(s, f, a \o b, k)
  BY <1>5, <1>6, <1>7, <1>9, <1>10 DEF Removed
<1> QED BY <1>2, <1>5, <1>11

\* A callback that goes leaves the others bound.
LEMMA OthersStay ==
  ASSUME NEW s \in Seq(Flows), NEW f
  PROVE  /\ RemoveFirst(s, f) \in Seq(Flows)
         /\ \A g \in Elements(s) \ {f} : g \in Elements(RemoveFirst(s, f))
<1> DEFINE r == RemoveFirst(s, f)
<1>1. CASE ~\E i \in 1..Len(s) : s[i] = f
  BY <1>1 DEF RemoveFirst
<1>2. CASE \E i \in 1..Len(s) : s[i] = f
  <2>1. PICK k \in 1..Len(s) : Removed(s, f, r, k)
    BY <1>2, RemovedAt
  <2> HIDE DEF r
  <2>2. /\ r \in Seq(Flows) /\ s[k] = f /\ DOMAIN r = 1..(Len(s) - 1)
        /\ \A i \in 1..(Len(s) - 1) : r[i] = IF i < k THEN s[i] ELSE s[i + 1]
    BY <2>1 DEF Removed
  <2>3. ASSUME NEW g \in Elements(s) \ {f} PROVE g \in Elements(r)
    <3>1. PICK i \in 1..Len(s) : s[i] = g
      BY <2>3 DEF Elements
    <3>2. i # k
      BY <2>2, <2>3, <3>1
    <3>3. CASE i < k
      <4>1. i \in 1..(Len(s) - 1)
        BY <3>1, <3>3
      <4>2. r[i] = g
        BY <2>2, <3>1, <3>3, <4>1
      <4> QED BY <2>2, <4>1, <4>2 DEF Elements
    <3>4. CASE i > k
      <4>1. i - 1 \in 1..(Len(s) - 1) /\ ~(i - 1 < k) /\ (i - 1) + 1 = i
        BY <3>1, <3>4
      <4>2. r[i - 1] = g
        BY <2>2, <3>1, <4>1
      <4> QED BY <2>2, <4>1, <4>2 DEF Elements
    <3> QED BY <3>1, <3>2, <3>3, <3>4
  <2> QED BY <2>2, <2>3 DEF r
<1> QED BY <1>1, <1>2

Once(s) == \A i, j \in DOMAIN s : s[i] = s[j] => i = j

\* Bound once, it is bound no more, and nobody twice.
LEMMA OnceRemoved ==
  ASSUME NEW s \in Seq(Flows), Once(s), NEW f, NEW r, r = RemoveFirst(s, f)
  PROVE  Once(r) /\ \A g \in Elements(r) : g # f /\ g \in Elements(s)
<1>1. CASE ~\E i \in 1..Len(s) : s[i] = f
  <2>1. r = s /\ DOMAIN s = 1..Len(s)
    BY <1>1 DEF RemoveFirst
  <2> QED BY <1>1, <2>1 DEF Elements
<1>2. CASE \E i \in 1..Len(s) : s[i] = f
  <2>1. PICK k \in 1..Len(s) : Removed(s, f, r, k)
    BY <1>2, RemovedAt
  <2>2. /\ s[k] = f /\ DOMAIN r = 1..(Len(s) - 1) /\ DOMAIN s = 1..Len(s)
        /\ \A i \in 1..(Len(s) - 1) : r[i] = IF i < k THEN s[i] ELSE s[i + 1]
    BY <2>1 DEF Removed
  <2> DEFINE at(x) == IF x < k THEN x ELSE x + 1
  <2>3. \A i \in DOMAIN r : r[i] = s[at(i)] /\ at(i) \in DOMAIN s /\ at(i) # k
    BY <2>2
  <2>4. ASSUME NEW i \in DOMAIN r, NEW j \in DOMAIN r, r[i] = r[j] PROVE i = j
    <3>1. at(i) = at(j)
      <4> HIDE DEF at
      <4> QED BY <2>3, <2>4 DEF Once
    <3> QED BY <2>2, <3>1
  <2>5. ASSUME NEW i \in DOMAIN r PROVE r[i] # f /\ r[i] \in Elements(s)
    <3> HIDE DEF at
    <3> QED BY <2>2, <2>3 DEF Once, Elements
  <2> QED BY <2>4, <2>5 DEF Once, Elements
<1> QED BY <1>1, <1>2

\* A callback bound last is bound, and those before it still are.
LEMMA BoundLast ==
  ASSUME NEW s \in Seq(Flows), NEW f \in Flows
  PROVE  /\ Append(s, f) \in Seq(Flows) /\ f \in Elements(Append(s, f))
         /\ \A g \in Elements(s) : g \in Elements(Append(s, f))
<1> DEFINE o == Append(s, f)
           n == Len(s)
<1>1. /\ o \in Seq(Flows) /\ Len(o) = n + 1 /\ o[n + 1] = f
      /\ \A i \in 1..n : o[i] = s[i]
  OBVIOUS
<1>2. n \in Nat /\ DOMAIN s = 1..n
  OBVIOUS
<1> HIDE DEF o, n
<1>3. DOMAIN o = 1..(n + 1)
  BY <1>1
<1>4. n + 1 \in DOMAIN o
  BY <1>2, <1>3
<1>5. f \in Elements(o)
  BY <1>1, <1>4 DEF Elements
<1>6. ASSUME NEW g \in Elements(s) PROVE g \in Elements(o)
  <2>1. PICK i \in 1..n : s[i] = g
    BY <1>2, <1>6 DEF Elements
  <2>2. i \in DOMAIN o
    BY <1>2, <1>3
  <2> QED BY <1>1, <2>1, <2>2 DEF Elements
<1> QED BY <1>1, <1>5, <1>6 DEF o
-----------------------------------------------------------------------------
(* The members of one flow.                                                *)

LEMMA OwnPairs ==
  ASSUME NEW m, NEW e, Coherent(m, e)
  PROVE  Own(m) \subseteq C!Pairs
<1>1. CASE m.cpu_rx = NoQ
  BY <1>1 DEF Own
<1>2. CASE m.cpu_rx # NoQ
  <2>1. m.rx.ports \in Seq(Pids) /\ m.cpu_rx \in Queues
    BY <1>2 DEF Coherent
  <2>2. Elements(m.rx.ports) \subseteq Pids
    BY <2>1 DEF Elements
  <2> QED BY <1>2, <2>1, <2>2 DEF Own, C!Pairs
<1> QED BY <1>1, <1>2

LEMMA NewMember ==
  ASSUME NEW e \in [q : Queues \cup {NoQ}, tokens : Nat], e.q = NoQ
  PROVE  Coherent(NewFlow, e) /\ Own(NewFlow) = {} /\ ~NewFlow.is_started
<1>1. NoQ \notin Queues
  BY DEF NoQ
<1> QED BY <1>1 DEF NewFlow, Coherent, Own

LEMMA IdleMember ==
  ASSUME NEW m, NEW e, Coherent(m, e)
  PROVE  /\ Coherent(Idle(m), NoEntry) /\ Own(Idle(m)) = {}
         /\ ~Idle(m).is_started
<1> DEFINE g == Idle(m)
<1>1. m \in [is_started : BOOLEAN, is_snooping : BOOLEAN, rx : {m.rx},
             cpu_rx : Queues \cup {NoQ}, snoop_pkts : Seq(Pids), max_snoop_pkt : Nat]
  BY DEF Coherent
<1>2. g \in [is_started : BOOLEAN, is_snooping : BOOLEAN, rx : {None},
             cpu_rx : Queues \cup {NoQ}, snoop_pkts : Seq(Pids), max_snoop_pkt : Nat]
  BY ONLY <1>1 DEF g, Idle
<1>3. /\ g.is_started = FALSE /\ g.is_snooping = FALSE /\ g.rx = None /\ g.cpu_rx = NoQ
      /\ g.snoop_pkts = m.snoop_pkts /\ g.max_snoop_pkt = m.max_snoop_pkt
  BY ONLY <1>1 DEF g, Idle
<1> HIDE DEF g
<1>4. NoEntry \in [q : Queues \cup {NoQ}, tokens : Nat] /\ NoEntry.q = NoQ
  BY DEF NoEntry
<1>5. Coherent(g, NoEntry)
  BY <1>2, <1>3, <1>4 DEF Coherent
<1> QED BY <1>3, <1>5 DEF Own, g
-----------------------------------------------------------------------------
(* A call changes the members of one flow, and the queue it has.           *)

\* The state s with new members m and entry e of f, and tables c, r and o.
With(s, f, m, e, c, r, o, ms) ==
  [flow |-> [s.flow EXCEPT ![f] = m], entry |-> [s.entry EXCEPT ![f] = e],
   cpu |-> c, res |-> r, order |-> o, missed |-> ms]

\* The queues when f has what is Own(m), and no longer what it had.
Regiven(s, f, m, c) ==
  /\ c \in C!CpuTypes
  /\ c.used = (s.cpu.used \ Own(s.flow[f])) \cup Own(m)
  /\ Own(m) \cap (s.cpu.used \ Own(s.flow[f])) = {}
  /\ \A x \in C!Pairs : c.dispatch[x] = IF x \in Own(m) THEN f
                                       ELSE IF x \in Own(s.flow[f]) THEN None
                                       ELSE s.cpu.dispatch[x]

LEMMA MemberChange ==
  ASSUME NEW s, Sound(s), NEW f \in Flows, NEW m, NEW e, Coherent(m, e),
         NEW c, Regiven(s, f, m, c), NEW r, NEW ms, NEW o \in Seq(Flows),
         \A g \in Flows : g # f /\ g \in Elements(s.order) => g \in Elements(o),
         m.is_started => f \in Elements(o)
  PROVE  /\ Sound(With(s, f, m, e, c, r, o, ms))
         /\ With(s, f, m, e, c, r, o, ms).flow[f] = m
         /\ \A g \in Flows \ {f} : With(s, f, m, e, c, r, o, ms).flow[g] = s.flow[g]
<1> DEFINE t == With(s, f, m, e, c, r, o, ms)
<1>1. /\ t.flow = [s.flow EXCEPT ![f] = m] /\ t.entry = [s.entry EXCEPT ![f] = e]
      /\ t.cpu = c /\ t.res = r /\ t.order = o /\ t.missed = ms
  BY DEF With
<1>2. /\ s.flow = [g \in Flows |-> s.flow[g]] /\ s.entry = [g \in Flows |-> s.entry[g]]
      /\ \A g \in Flows : Coherent(s.flow[g], s.entry[g])
  BY DEF Sound
<1>3. /\ t.flow[f] = m /\ t.entry[f] = e
      /\ \A g \in Flows \ {f} : t.flow[g] = s.flow[g] /\ t.entry[g] = s.entry[g]
      /\ t.flow = [g \in Flows |-> t.flow[g]] /\ t.entry = [g \in Flows |-> t.entry[g]]
  BY <1>1, <1>2
<1>4. t = [flow |-> t.flow, entry |-> t.entry, cpu |-> t.cpu, res |-> t.res,
           order |-> t.order, missed |-> t.missed]
  BY DEF With
<1> HIDE DEF t
<1>5. \A g \in Flows : Coherent(t.flow[g], t.entry[g])
  BY <1>2, <1>3
<1>6. Owners(t)
  <2>1. /\ \A g \in Flows : \A x \in Own(s.flow[g]) : x \in s.cpu.used /\ s.cpu.dispatch[x] = g
        /\ \A x \in s.cpu.used : \E g \in Flows : x \in Own(s.flow[g])
        /\ \A x \in C!Pairs \ s.cpu.used : s.cpu.dispatch[x] = None
    BY DEF Sound, Owners
  <2>2. /\ t.cpu = c /\ c \in C!CpuTypes /\ c.used = (s.cpu.used \ Own(s.flow[f])) \cup Own(m)
        /\ Own(m) \cap (s.cpu.used \ Own(s.flow[f])) = {}
        /\ \A x \in C!Pairs : c.dispatch[x] = IF x \in Own(m) THEN f
                                             ELSE IF x \in Own(s.flow[f]) THEN None
                                             ELSE s.cpu.dispatch[x]
    BY <1>1 DEF Regiven
  <2>3. ASSUME NEW g \in Flows, NEW x \in Own(t.flow[g]) PROVE x \in c.used /\ c.dispatch[x] = g
    <3>1. x \in C!Pairs
      BY <1>5, <2>3, OwnPairs
    <3>2. CASE g = f
      BY <1>3, <2>2, <3>1, <3>2
    <3>3. CASE g # f
      <4>1. x \in Own(s.flow[g]) /\ x \in s.cpu.used /\ s.cpu.dispatch[x] = g
        BY <1>3, <2>1, <2>3, <3>3
      <4>2. x \notin Own(s.flow[f])
        BY <2>1, <3>3, <4>1
      <4>3. x \notin Own(m)
        BY <2>2, <4>1, <4>2
      <4> QED BY <2>2, <3>1, <4>1, <4>2, <4>3
    <3> QED BY <3>2, <3>3
  <2>4. ASSUME NEW x \in c.used PROVE \E g \in Flows : x \in Own(t.flow[g])
    <3>1. CASE x \in Own(m)
      BY <1>3, <3>1
    <3>2. CASE x \in s.cpu.used \ Own(s.flow[f])
      <4>1. PICK g \in Flows : x \in Own(s.flow[g])
        BY <2>1, <3>2
      <4>2. g # f
        BY <3>2, <4>1
      <4> QED BY <1>3, <4>1, <4>2
    <3> QED BY <2>2, <2>4, <3>1, <3>2
  <2>5. ASSUME NEW x \in C!Pairs \ c.used PROVE c.dispatch[x] = None
    BY <2>1, <2>2, <2>5
  <2> QED BY <2>2, <2>3, <2>4, <2>5 DEF Owners
<1>7. BoundOnes(t)
  <2>1. \A g \in Flows : s.flow[g].is_started => g \in Elements(s.order)
    BY DEF Sound, BoundOnes
  <2> QED BY <1>1, <1>3, <2>1 DEF BoundOnes
<1> QED BY <1>3, <1>4, <1>5, <1>6, <1>7 DEF Sound, t

\* A flow whose queue stays as it is.
LEMMA SameQueue ==
  ASSUME NEW s, Sound(s), NEW f \in Flows, NEW m, Own(m) = Own(s.flow[f])
  PROVE  Regiven(s, f, m, s.cpu)
<1>1. /\ s.cpu \in C!CpuTypes
      /\ \A x \in Own(s.flow[f]) : x \in s.cpu.used /\ s.cpu.dispatch[x] = f
  BY DEF Sound, Owners
<1> QED BY <1>1 DEF Regiven
-----------------------------------------------------------------------------
(* Stops and starts.                                                       *)

\* PairInForce of the state s, when the fronts are fr.
InForce(s, fr) ==
  \A f \in Flows \ s.missed : s.flow[f].is_started =>
    s.flow[f].rx.ports = PortsOf(fr, s.flow[f].rx.in_ports)

LEMMA NotStartedOwnsNothing ==
  ASSUME NEW m, NEW e, Coherent(m, e), ~m.is_started
  PROVE  Own(m) = {}
BY DEF Coherent, Own

\* RX_FLOW::IMPL::stop ends one flow and leaves the others alone.
LEMMA ReleaseSound ==
  ASSUME NEW s, Sound(s), NEW f \in Flows
  PROVE  /\ Sound(Release(s, f))
         /\ ~Release(s, f).flow[f].is_started
         /\ \A g \in Flows \ {f} : Release(s, f).flow[g] = s.flow[g]
         /\ s.missed \subseteq Release(s, f).missed \cup {f}
<1> DEFINE m == s.flow[f]
<1>1. Coherent(m, s.entry[f])
  BY DEF Sound
<1>2. CASE ~m.is_started
  BY <1>2 DEF Release
<1>3. CASE m.is_started
  <2> DEFINE c == FreeQueue(s.cpu, m)
             r == DropFilter(s.res, m.rx)
             o == RemoveFirst(s.order, f)
             ms == s.missed \ {f}
  <2>1. Release(s, f) = With(s, f, Idle(m), NoEntry, c, r, o, ms)
    BY <1>3 DEF Release, With
  <2>2. Coherent(Idle(m), NoEntry) /\ Own(Idle(m)) = {} /\ ~Idle(m).is_started
    BY <1>1, IdleMember
  <2>3. s.cpu \in C!CpuTypes /\ s.order \in Seq(Flows)
    BY DEF Sound, Owners, BoundOnes
  <2>4. Regiven(s, f, Idle(m), c)
    <3>1. /\ c \in C!CpuTypes /\ c.used = s.cpu.used \ Own(m)
          /\ \A x \in C!Pairs : c.dispatch[x] = IF x \in Own(m) THEN None ELSE s.cpu.dispatch[x]
      BY <2>3, FreedQueue
    <3> HIDE DEF c
    <3> QED BY <2>2, <3>1 DEF Regiven
  <2>5. o \in Seq(Flows) /\ \A g \in Flows : g # f /\ g \in Elements(s.order) => g \in Elements(o)
    BY <2>3, OthersStay
  <2>6. With(s, f, Idle(m), NoEntry, c, r, o, ms).missed = ms
    BY DEF With
  <2>7. \A g \in Flows \ {f} : With(s, f, Idle(m), NoEntry, c, r, o, ms).flow[g] = s.flow[g]
    <3> HIDE DEF c, r, o, m, ms
    <3> QED BY <2>2, <2>4, <2>5, MemberChange
  <2>8. /\ Sound(With(s, f, Idle(m), NoEntry, c, r, o, ms))
        /\ With(s, f, Idle(m), NoEntry, c, r, o, ms).flow[f] = Idle(m)
    <3> HIDE DEF c, r, o, m, ms
    <3> QED BY <2>2, <2>4, <2>5, MemberChange
  <2> QED BY <2>1, <2>2, <2>6, <2>7, <2>8
<1> QED BY <1>2, <1>3

LEMMA ReleaseInForce ==
  ASSUME NEW s, NEW fr, Sound(s), InForce(s, fr), NEW f \in Flows
  PROVE  InForce(Release(s, f), fr)
<1> DEFINE r == Release(s, f)
<1>1. /\ ~r.flow[f].is_started /\ \A g \in Flows \ {f} : r.flow[g] = s.flow[g]
      /\ s.missed \subseteq r.missed \cup {f}
  BY ReleaseSound
<1> HIDE DEF r
<1>2. ASSUME NEW g \in Flows \ r.missed, r.flow[g].is_started
      PROVE  r.flow[g].rx.ports = PortsOf(fr, r.flow[g].rx.in_ports)
  <2>1. g # f /\ g \notin s.missed /\ r.flow[g] = s.flow[g]
    BY <1>1, <1>2
  <2> QED BY <1>2, <2>1 DEF InForce
<1> QED BY <1>2 DEF InForce, r

\* What a call leaves behind is what the invariant says.
LEMMA NowIs ==
  ASSUME OwnInv
  PROVE  /\ Sound(Now) /\ InForce(Now, front)
         /\ Now.flow = flow /\ Now.entry = entry /\ Now.cpu = cpu
         /\ Now.res = res /\ Now.order = order /\ Now.missed = missed
         /\ front \in [Ports -> Pids]
<1>1. /\ Now.flow = flow /\ Now.entry = entry /\ Now.cpu = cpu
      /\ Now.res = res /\ Now.order = order /\ Now.missed = missed
  BY DEF Now
<1>2. InForce(Now, front)
  BY <1>1 DEF OwnInv, PairInForce, Filtering, InForce, extract_ports, PortsOf
<1> QED BY <1>1, <1>2 DEF OwnInv

LEMMA Closing ==
  ASSUME OwnInv, NEW t, Sound(t), InForce(t, front'), Becomes(t), UNCHANGED use,
         front' \in [Ports -> Pids], copies' \in [Queues -> Seq(Pids)]
  PROVE  OwnInv'
<1>1. /\ flow' = t.flow /\ entry' = t.entry /\ cpu' = t.cpu
      /\ res' = t.res /\ order' = t.order /\ missed' = t.missed
  BY DEF Becomes
<1>2. t = [flow |-> t.flow, entry |-> t.entry, cpu |-> t.cpu, res |-> t.res,
           order |-> t.order, missed |-> t.missed]
  BY DEF Sound
<1>3. Now' = t
  <2>1. Now' = [flow |-> flow', entry |-> entry', cpu |-> cpu', res |-> res',
                order |-> order', missed |-> missed']
    BY DEF Now
  <2> QED BY ONLY <1>1, <1>2, <2>1
<1>4. Sound(Now')
  BY <1>3
<1>5. PairInForce'
  BY <1>1 DEF PairInForce, Filtering, InForce, extract_ports, PortsOf
<1> QED BY <1>4, <1>5 DEF OwnInv

\* A change of one flow's members which leaves a filter on its ports.
LEMMA MemberInForce ==
  ASSUME NEW s, NEW fr, InForce(s, fr), NEW f \in Flows, NEW t, s.missed \ {f} \subseteq t.missed,
         \A g \in Flows \ {f} : t.flow[g] = s.flow[g],
         t.flow[f].is_started => \/ t.flow[f].rx.ports = PortsOf(fr, t.flow[f].rx.in_ports)
                                \/ /\ s.flow[f].is_started /\ t.flow[f].rx = s.flow[f].rx
                                   /\ s.missed \subseteq t.missed
  PROVE  InForce(t, fr)
<1> SUFFICES ASSUME NEW g \in Flows \ t.missed, t.flow[g].is_started
             PROVE  t.flow[g].rx.ports = PortsOf(fr, t.flow[g].rx.in_ports)
  BY DEF InForce
<1>1. CASE g = f
  BY <1>1 DEF InForce
<1>2. CASE g # f
  BY <1>2 DEF InForce
<1> QED BY <1>1, <1>2

LEMMA StopInv ==
  ASSUME OwnInv, NEW f \in Flows, Stop(f)
  PROVE  OwnInv'
<1>1. Sound(Release(Now, f)) /\ InForce(Release(Now, f), front)
  BY NowIs, ReleaseSound, ReleaseInForce
<1> QED BY <1>1, Closing DEF Stop, OwnInv

\* Writing a member back as it is changes nothing.
LEMMA SameEntry ==
  ASSUME NEW s, Sound(s), NEW f \in Flows
  PROVE  [s.entry EXCEPT ![f] = s.entry[f]] = s.entry
BY DEF Sound

LEMMA DestroyInv ==
  ASSUME OwnInv, NEW f \in Flows, Destroy(f)
  PROVE  OwnInv'
<1> DEFINE s == Release(Now, f)
           u == With(s, f, NewFlow, s.entry[f], s.cpu, s.res, s.order, s.missed)
<1>1. /\ Sound(s) /\ InForce(s, front) /\ ~s.flow[f].is_started
  BY NowIs, ReleaseSound, ReleaseInForce
<1>2. Becomes([s EXCEPT !.flow[f] = NewFlow]) /\ UNCHANGED <<use, front, copies>>
  BY DEF Destroy
<1> HIDE DEF s
<1>3. Coherent(s.flow[f], s.entry[f]) /\ s.order \in Seq(Flows)
  BY <1>1 DEF Sound, BoundOnes
<1>4. Own(s.flow[f]) = {}
  BY <1>1, <1>3, NotStartedOwnsNothing
<1>5. s.entry[f] \in [q : Queues \cup {NoQ}, tokens : Nat] /\ s.entry[f].q = NoQ
  BY <1>1, <1>3 DEF Coherent
<1>6. Coherent(NewFlow, s.entry[f]) /\ Own(NewFlow) = {} /\ ~NewFlow.is_started
  BY <1>5, NewMember
<1>7. Regiven(s, f, NewFlow, s.cpu)
  BY <1>1, <1>4, <1>6, SameQueue
<1>8. Sound(u) /\ u.flow[f] = NewFlow /\ \A g \in Flows \ {f} : u.flow[g] = s.flow[g]
  BY <1>1, <1>3, <1>6, <1>7, MemberChange
<1>9. InForce(u, front)
  <2>1. u.missed = s.missed
    BY DEF With
  <2> HIDE DEF u
  <2> QED BY <1>1, <1>6, <1>8, <2>1, MemberInForce
<1>10. Becomes(u)
  <2>1. s = [flow |-> s.flow, entry |-> s.entry, cpu |-> s.cpu, res |-> s.res,
             order |-> s.order, missed |-> s.missed]
    BY <1>1 DEF Sound
  <2>2. /\ flow' = [s.flow EXCEPT ![f] = NewFlow] /\ entry' = s.entry /\ cpu' = s.cpu
        /\ res' = s.res /\ order' = s.order /\ missed' = s.missed
    BY <1>2, <2>1 DEF Becomes
  <2> QED BY <1>1, <2>2, SameEntry DEF Becomes, With
<1> QED BY <1>2, <1>8, <1>9, <1>10, Closing DEF OwnInv

\* The members of a flow with a new filter.
Filters(m, x) == [m EXCEPT !.is_started = TRUE, !.rx = x]

LEMMA StartedMember ==
  ASSUME NEW m, NEW e, Coherent(m, e), ~m.is_started, NEW x,
         x.in_ports \subseteq Ports, x.ports \in Seq(Pids)
  PROVE  Coherent(Filters(m, x), e) /\ Own(Filters(m, x)) = {} /\ Filters(m, x).rx = x
<1> DEFINE g == Filters(m, x)
<1>1. m \in [is_started : BOOLEAN, is_snooping : BOOLEAN, rx : {m.rx},
             cpu_rx : Queues \cup {NoQ}, snoop_pkts : Seq(Pids), max_snoop_pkt : Nat]
  BY DEF Coherent
<1>2. g \in [is_started : BOOLEAN, is_snooping : BOOLEAN, rx : {x},
             cpu_rx : Queues \cup {NoQ}, snoop_pkts : Seq(Pids), max_snoop_pkt : Nat]
  BY ONLY <1>1 DEF g, Filters
<1>3. /\ g.is_started = TRUE /\ g.is_snooping = m.is_snooping /\ g.rx = x /\ g.cpu_rx = m.cpu_rx
      /\ g.snoop_pkts = m.snoop_pkts /\ g.max_snoop_pkt = m.max_snoop_pkt
  BY ONLY <1>1 DEF g, Filters
<1> HIDE DEF g
<1>4. ~m.is_snooping /\ m.cpu_rx = NoQ
  BY DEF Coherent
<1>5. Coherent(g, e)
  BY <1>2, <1>3, <1>4 DEF Coherent
<1> QED BY <1>3, <1>4, <1>5 DEF Own, g

LEMMA StartInv ==
  ASSUME OwnInv, NEW f \in Flows, NEW q \in use.quals, NEW room \in BOOLEAN, Start(f, q, room)
  PROVE  OwnInv'
<1> DEFINE s == Release(Now, f)
           ports == extract_ports(q.in_ports)
           h == HoldFilter(s.res, q, ports, room)
           x == FilterOf(h.r, q, ports)
           m == Filters(s.flow[f], x)
           o == Append(s.order, f)
           u == With(s, f, m, s.entry[f], s.cpu, h.r, o, s.missed)
           v == With(s, f, s.flow[f], s.entry[f], s.cpu, h.r, s.order, s.missed)
<1>1. /\ Sound(s) /\ InForce(s, front) /\ ~s.flow[f].is_started /\ front \in [Ports -> Pids]
  BY NowIs, ReleaseSound, ReleaseInForce
<1>2. UNCHANGED <<use, front, copies>>
  BY DEF Start
<1>3. \/ Becomes([s EXCEPT !.res = h.r, !.order = Append(@, f),
                         !.flow[f] = [@ EXCEPT !.is_started = TRUE, !.rx = x]])
      \/ Becomes([s EXCEPT !.res = h.r])
  BY DEF Start
<1> HIDE DEF s
<1>4. Coherent(s.flow[f], s.entry[f]) /\ s.order \in Seq(Flows)
  BY <1>1 DEF Sound, BoundOnes
<1>5. q.in_ports \subseteq Ports
  BY DEF OwnInv
<1>6. ports = PortsOf(front, q.in_ports) /\ ports \in Seq(Pids)
  <2>1. ports = PortsOf(front, q.in_ports)
    BY DEF extract_ports, PortsOf
  <2> QED BY <1>1, <1>5, <2>1, ExtractedPorts
<1> HIDE DEF ports, h
<1>7. x.in_ports = q.in_ports /\ x.ports = ports
  BY DEF FilterOf
<1> HIDE DEF x
<1>8. Coherent(m, s.entry[f]) /\ Own(m) = {} /\ m.rx = x
  BY <1>1, <1>4, <1>5, <1>6, <1>7, StartedMember
<1>9. Own(s.flow[f]) = {}
  BY <1>1, <1>4, NotStartedOwnsNothing
<1>10. /\ s.flow = [g \in Flows |-> s.flow[g]]
       /\ s = [flow |-> s.flow, entry |-> s.entry, cpu |-> s.cpu, res |-> s.res,
               order |-> s.order, missed |-> s.missed]
  BY <1>1 DEF Sound
<1>11. ASSUME Becomes([s EXCEPT !.res = h.r, !.order = Append(@, f),
                              !.flow[f] = [@ EXCEPT !.is_started = TRUE, !.rx = x]])
       PROVE  OwnInv'
  <2>1. /\ flow' = [s.flow EXCEPT ![f] = m] /\ entry' = s.entry /\ cpu' = s.cpu
        /\ res' = h.r /\ order' = o /\ missed' = s.missed
    BY <1>10, <1>11 DEF Becomes, Filters
  <2> HIDE DEF m
  <2>2. Becomes(u)
    BY <1>1, <2>1, SameEntry DEF Becomes, With
  <2>3. Regiven(s, f, m, s.cpu)
    BY <1>1, <1>8, <1>9, SameQueue
  <2>4. /\ o \in Seq(Flows) /\ f \in Elements(o)
        /\ \A g \in Elements(s.order) : g \in Elements(o)
    BY <1>4, BoundLast
  <2> HIDE DEF o
  <2>5. Sound(u) /\ u.flow[f] = m /\ \A g \in Flows \ {f} : u.flow[g] = s.flow[g]
    BY <1>1, <1>8, <2>3, <2>4, MemberChange
  <2>6. InForce(u, front)
    <3>1. u.missed = s.missed
      BY DEF With
    <3>2. u.flow[f].rx.ports = PortsOf(front, u.flow[f].rx.in_ports)
      BY <1>6, <1>7, <1>8, <2>5
    <3> HIDE DEF u
    <3> QED BY <1>1, <2>5, <3>1, <3>2, MemberInForce
  <2> QED BY <1>1, <1>2, <2>2, <2>5, <2>6, Closing DEF OwnInv
<1>12. ASSUME Becomes([s EXCEPT !.res = h.r]) PROVE OwnInv'
  <2>1. /\ flow' = s.flow /\ entry' = s.entry /\ cpu' = s.cpu
        /\ res' = h.r /\ order' = s.order /\ missed' = s.missed
    BY <1>10, <1>12 DEF Becomes
  <2>2. [s.flow EXCEPT ![f] = s.flow[f]] = s.flow
    BY <1>10
  <2>3. Becomes(v)
    BY <1>1, <2>1, <2>2, SameEntry DEF Becomes, With
  <2>4. Regiven(s, f, s.flow[f], s.cpu)
    BY <1>1, SameQueue
  <2>5. Sound(v) /\ v.flow[f] = s.flow[f] /\ \A g \in Flows \ {f} : v.flow[g] = s.flow[g]
    BY <1>1, <1>4, <2>4, MemberChange
  <2>6. InForce(v, front)
    <3>1. v.missed = s.missed
      BY DEF With
    <3> HIDE DEF v
    <3> QED BY <1>1, <2>5, <3>1, MemberInForce
  <2> QED BY <1>1, <1>2, <2>3, <2>5, <2>6, Closing DEF OwnInv
<1> QED BY <1>3, <1>11, <1>12
-----------------------------------------------------------------------------
(* Snooping.                                                               *)

\* A step that changes nothing but the members of one flow and its queue, and
\* leaves its filter alone.
LEMMA OneMember ==
  ASSUME OwnInv, NEW f \in Flows, NEW m, NEW e, Coherent(m, e),
         m.is_started => flow[f].is_started /\ m.rx = flow[f].rx,
         NEW c, Regiven(Now, f, m, c),
         flow' = [flow EXCEPT ![f] = m], entry' = [entry EXCEPT ![f] = e], cpu' = c,
         UNCHANGED <<use, res, order, missed, front>>, copies' \in [Queues -> Seq(Pids)]
  PROVE  OwnInv'
<1> DEFINE t == With(Now, f, m, e, c, res, order, missed)
<1>1. /\ Sound(Now) /\ InForce(Now, front) /\ front \in [Ports -> Pids]
      /\ Now.flow = flow /\ Now.entry = entry /\ Now.cpu = cpu
      /\ Now.order = order /\ Now.missed = missed
  BY NowIs
<1>2. order \in Seq(Flows) /\ (flow[f].is_started => f \in Elements(order))
  BY <1>1 DEF Sound, BoundOnes
<1>3. Sound(t) /\ t.flow[f] = m /\ \A g \in Flows \ {f} : t.flow[g] = Now.flow[g]
  BY <1>1, <1>2, MemberChange
<1>4. t.missed = missed /\ Becomes(t)
  BY <1>1 DEF With, Becomes
<1> HIDE DEF t
<1>5. InForce(t, front)
  BY <1>1, <1>3, <1>4, MemberInForce
<1> QED BY <1>1, <1>3, <1>4, <1>5, Closing

\* Its members now.
LEMMA MemberNow ==
  ASSUME OwnInv, NEW f \in Flows
  PROVE  /\ Coherent(flow[f], entry[f])
         /\ flow[f] \in [is_started : BOOLEAN, is_snooping : BOOLEAN, rx : {flow[f].rx},
                         cpu_rx : Queues \cup {NoQ}, snoop_pkts : Seq(Pids), max_snoop_pkt : Nat]
         /\ [flow EXCEPT ![f] = flow[f]] = flow /\ [entry EXCEPT ![f] = entry[f]] = entry
<1>1. Sound(Now) /\ Now.flow = flow /\ Now.entry = entry
  BY NowIs
<1>2. Coherent(flow[f], entry[f])
  BY <1>1 DEF Sound
<1>3. [flow EXCEPT ![f] = flow[f]] = flow /\ [entry EXCEPT ![f] = entry[f]] = entry
  BY <1>1 DEF Sound
<1> QED BY <1>2, <1>3 DEF Coherent

LEMMA NoneKept ==
  /\ <<>> \in Seq(Pids) /\ Len(<<>>) = 0 /\ Elements(<<>>) = {}
BY DEF Elements

LEMMA TokensAreNat ==
  ASSUME NEW n \in Nat
  PROVE  Tokens(n) \in Nat
<1>1. Byte \in Nat \ {0}
  OBVIOUS
<1>2. n % Byte \in Nat
  BY <1>1
<1> QED BY <1>1, <1>2 DEF Tokens, Unlimited

\* The members of a flow that asks for n packets, with a queue and without.
Asks(m, n) == [m EXCEPT !.snoop_pkts = <<>>, !.max_snoop_pkt = n]
Snoops(m, n, q, room) == [Asks(m, n) EXCEPT !.cpu_rx = q, !.is_snooping = room]

LEMMA AsksMember ==
  ASSUME NEW m, NEW e, Coherent(m, e), NEW n \in Nat
  PROVE  /\ Coherent(Asks(m, n), e) /\ Own(Asks(m, n)) = Own(m)
         /\ Asks(m, n).rx = m.rx /\ Asks(m, n).is_started = m.is_started
<1> DEFINE g == Asks(m, n)
<1>1. m \in [is_started : BOOLEAN, is_snooping : BOOLEAN, rx : {m.rx},
             cpu_rx : Queues \cup {NoQ}, snoop_pkts : Seq(Pids), max_snoop_pkt : Nat]
  BY DEF Coherent
<1>2. g \in [is_started : BOOLEAN, is_snooping : BOOLEAN, rx : {m.rx},
             cpu_rx : Queues \cup {NoQ}, snoop_pkts : Seq(Pids), max_snoop_pkt : Nat]
  BY ONLY <1>1, NoneKept, n \in Nat DEF g, Asks
<1>3. /\ g.is_started = m.is_started /\ g.is_snooping = m.is_snooping /\ g.rx = m.rx
      /\ g.cpu_rx = m.cpu_rx /\ g.snoop_pkts = <<>> /\ g.max_snoop_pkt = n
  BY ONLY <1>1 DEF g, Asks
<1> HIDE DEF g
<1>4. Coherent(g, e)
  BY <1>2, <1>3, NoneKept DEF Coherent
<1> QED BY <1>3, <1>4 DEF Own, g

LEMMA SnoopsMember ==
  ASSUME NEW m, NEW e, Coherent(m, e), m.is_started, ~m.is_snooping,
         NEW n \in Nat, NEW q \in Queues, NEW room \in BOOLEAN
  PROVE  /\ Coherent(Snoops(m, n, q, room), IF room THEN [q |-> q, tokens |-> Tokens(n)] ELSE e)
         /\ Own(Snoops(m, n, q, room)) = Elements(m.rx.ports) \X {q}
         /\ Snoops(m, n, q, room).rx = m.rx
<1> DEFINE g == Snoops(m, n, q, room)
           d == IF room THEN [q |-> q, tokens |-> Tokens(n)] ELSE e
<1>1. m \in [is_started : BOOLEAN, is_snooping : BOOLEAN, rx : {m.rx},
             cpu_rx : Queues \cup {NoQ}, snoop_pkts : Seq(Pids), max_snoop_pkt : Nat]
  BY DEF Coherent
<1>2. g \in [is_started : BOOLEAN, is_snooping : BOOLEAN, rx : {m.rx},
             cpu_rx : Queues \cup {NoQ}, snoop_pkts : Seq(Pids), max_snoop_pkt : Nat]
  BY ONLY <1>1, NoneKept, n \in Nat, q \in Queues, room \in BOOLEAN DEF g, Asks, Snoops
<1>3. /\ g.is_started = m.is_started /\ g.is_snooping = room /\ g.rx = m.rx
      /\ g.cpu_rx = q /\ g.snoop_pkts = <<>> /\ g.max_snoop_pkt = n
  BY ONLY <1>1 DEF g, Asks, Snoops
<1>4. q # NoQ
  BY DEF NoQ
<1>5. /\ d \in [q : Queues \cup {NoQ}, tokens : Nat]
      /\ d.q = IF room THEN q ELSE NoQ
  <2>1. CASE room
    BY <2>1, TokensAreNat
  <2>2. CASE ~room
    BY <2>2 DEF Coherent
  <2> QED BY <2>1, <2>2
<1> HIDE DEF g, d
<1>6. Coherent(g, d)
  BY <1>2, <1>3, <1>4, <1>5, NoneKept DEF Coherent
<1>7. Own(g) = Elements(m.rx.ports) \X {q}
  BY <1>3, <1>4 DEF Own
<1> QED BY <1>3, <1>6, <1>7 DEF g, d

\* The queue of a flow that asks for packets, taken before the old one is freed.
LEMMA NewQueueRegiven ==
  ASSUME NEW s, Sound(s), NEW f \in Flows, NEW ports, ports \subseteq Pids,
         NEW q \in Queues, \A p \in ports : <<p, q>> \notin s.cpu.used,
         NEW m, Own(m) = ports \X {q}
  PROVE  Regiven(s, f, m, FreeQueue(C!Bound(s.cpu, ports, q, f), s.flow[f]))
<1> DEFINE b == C!Bound(s.cpu, ports, q, f)
           c == FreeQueue(b, s.flow[f])
           old == Own(s.flow[f])
<1>1. s.cpu \in C!CpuTypes /\ old \subseteq s.cpu.used
  BY DEF Sound, Owners
<1>2. /\ b \in C!CpuTypes /\ b.used = s.cpu.used \cup Own(m)
      /\ \A x \in C!Pairs : b.dispatch[x] = IF x \in Own(m) THEN f ELSE s.cpu.dispatch[x]
  <2> DEFINE o == Own(m)
             d == s.cpu
  <2>1. d.used \subseteq C!Pairs /\ \A x \in C!Pairs : d.dispatch[x] \in Flows \cup {None}
    BY <1>1 DEF C!CpuTypes
  <2>2. o \subseteq C!Pairs
    BY DEF C!Pairs
  <2>3. b = [used |-> d.used \cup o, dispatch |-> [x \in C!Pairs |-> IF x \in o THEN f ELSE d.dispatch[x]]]
    BY DEF C!Bound
  <2> HIDE DEF b, o, d
  <2>4. /\ b \in C!CpuTypes /\ b.used = d.used \cup o
        /\ \A x \in C!Pairs : b.dispatch[x] = IF x \in o THEN f ELSE d.dispatch[x]
    BY <2>1, <2>2, <2>3 DEF C!CpuTypes
  <2> QED BY <2>4 DEF o, d
<1> HIDE DEF b
<1>3. /\ c \in C!CpuTypes /\ c.used = b.used \ old
      /\ \A x \in C!Pairs : c.dispatch[x] = IF x \in old THEN None ELSE b.dispatch[x]
  BY <1>2, FreedQueue
<1> HIDE DEF c
<1>4. Own(m) \cap s.cpu.used = {}
  OBVIOUS
<1>5. Own(m) \cap old = {}
  BY <1>1, <1>4
<1>6. c.used = (s.cpu.used \ old) \cup Own(m)
  BY <1>2, <1>3, <1>5
<1>7. \A x \in C!Pairs : c.dispatch[x] = IF x \in Own(m) THEN f
                                        ELSE IF x \in old THEN None
                                        ELSE s.cpu.dispatch[x]
  BY <1>2, <1>3, <1>5
<1>8. c \in C!CpuTypes /\ Own(m) \cap (s.cpu.used \ old) = {}
  BY <1>3, <1>4
<1>9. Regiven(s, f, m, c)
  <2> HIDE DEF old
  <2>1. old = Own(s.flow[f])
    BY DEF old
  <2> QED BY <1>6, <1>7, <1>8, <2>1 DEF Regiven
<1> QED BY <1>9 DEF c, b

LEMMA SnoopStartInv ==
  ASSUME OwnInv, NEW f \in Flows, NEW n \in use.asks, NEW room \in BOOLEAN, SnoopStart(f, n, room)
  PROVE  OwnInv'
<1> DEFINE ports == Elements(flow[f].rx.ports)
           q == C!Chosen(cpu, ports)
           e == IF room THEN [q |-> q, tokens |-> Tokens(n)] ELSE entry[f]
           c == FreeQueue(C!Bound(cpu, ports, q, f), flow[f])
<1>1. /\ Coherent(flow[f], entry[f])
      /\ [entry EXCEPT ![f] = entry[f]] = entry
  BY MemberNow
<1>2. Sound(Now) /\ Now.flow = flow /\ Now.cpu = cpu
  BY NowIs
<1>3. n \in Nat
  BY DEF OwnInv
<1>4. /\ flow[f].is_started /\ ~flow[f].is_snooping
      /\ UNCHANGED <<use, res, order, missed, front, copies>>
  BY DEF SnoopStart
<1>5. copies \in [Queues -> Seq(Pids)]
  BY DEF OwnInv
<1>6. CASE C!Available(cpu, ports) = {}
  <2>1. /\ flow' = [flow EXCEPT ![f] = Asks(flow[f], n)] /\ UNCHANGED <<cpu, entry>>
    BY <1>6 DEF SnoopStart, Asks
  <2>2. /\ Coherent(Asks(flow[f], n), entry[f]) /\ Own(Asks(flow[f], n)) = Own(flow[f])
        /\ Asks(flow[f], n).rx = flow[f].rx
    BY <1>1, <1>3, AsksMember
  <2>3. Regiven(Now, f, Asks(flow[f], n), cpu)
    BY <1>2, <2>2, SameQueue
  <2>4. entry' = [entry EXCEPT ![f] = entry[f]] /\ cpu' = cpu
    BY <1>1, <2>1
  <2> QED BY <1>4, <1>5, <2>1, <2>2, <2>3, <2>4, OneMember
<1>7. CASE C!Available(cpu, ports) # {}
  <2> DEFINE m == Snoops(flow[f], n, q, room)
  <2>1. /\ flow' = [flow EXCEPT ![f] = m] /\ cpu' = c
        /\ entry' = IF room THEN [entry EXCEPT ![f] = [q |-> q, tokens |-> Tokens(n)]] ELSE entry
    BY <1>7 DEF SnoopStart, NewQueue, Asks, Snoops
  <2>2. /\ cpu \in C!CpuTypes
        /\ \A x \in Own(flow[f]) : x \in cpu.used /\ cpu.dispatch[x] = f
    BY <1>2 DEF Sound, Owners
  <2>3. q \in Queues /\ \A p \in ports : <<p, q>> \notin cpu.used
    <3>1. q \in C!Available(cpu, ports)
      BY <1>7, <2>2, ChosenIsAvailable
    <3> HIDE DEF q, ports
    <3> QED BY <3>1 DEF C!Available
  <2>4. ports \subseteq Pids
    BY <1>1, <1>4 DEF Coherent, Elements
  <2> HIDE DEF q
  <2>5. Coherent(m, e) /\ Own(m) = ports \X {q} /\ m.rx = flow[f].rx
    BY <1>1, <1>3, <1>4, <2>3, SnoopsMember
  <2> HIDE DEF m, ports
  <2>6. Regiven(Now, f, m, c)
    BY <1>2, <2>3, <2>4, <2>5, NewQueueRegiven
  <2>7. entry' = [entry EXCEPT ![f] = e]
    BY <1>1, <2>1
  <2> HIDE DEF e
  <2> QED BY <1>4, <1>5, <2>1, <2>5, <2>6, <2>7, OneMember
<1> QED BY <1>6, <1>7

\* The members of a flow that no longer snoops.
Quiet(m) == [m EXCEPT !.cpu_rx = NoQ, !.is_snooping = FALSE]

LEMMA QuietMember ==
  ASSUME NEW m, NEW e, Coherent(m, e)
  PROVE  Coherent(Quiet(m), NoEntry) /\ Own(Quiet(m)) = {} /\ Quiet(m).rx = m.rx
<1> DEFINE g == Quiet(m)
<1>1. m \in [is_started : BOOLEAN, is_snooping : BOOLEAN, rx : {m.rx},
             cpu_rx : Queues \cup {NoQ}, snoop_pkts : Seq(Pids), max_snoop_pkt : Nat]
  BY DEF Coherent
<1>2. g \in [is_started : BOOLEAN, is_snooping : BOOLEAN, rx : {m.rx},
             cpu_rx : Queues \cup {NoQ}, snoop_pkts : Seq(Pids), max_snoop_pkt : Nat]
  BY ONLY <1>1 DEF g, Quiet
<1>3. /\ g.is_started = m.is_started /\ g.is_snooping = FALSE /\ g.rx = m.rx
      /\ g.cpu_rx = NoQ /\ g.snoop_pkts = m.snoop_pkts /\ g.max_snoop_pkt = m.max_snoop_pkt
  BY ONLY <1>1 DEF g, Quiet
<1> HIDE DEF g
<1>4. NoEntry \in [q : Queues \cup {NoQ}, tokens : Nat] /\ NoEntry.q = NoQ
  BY DEF NoEntry
<1>5. Coherent(g, NoEntry)
  BY <1>2, <1>3, <1>4 DEF Coherent
<1> QED BY <1>3, <1>5 DEF Own, g

LEMMA SnoopStopInv ==
  ASSUME OwnInv, NEW f \in Flows, SnoopStop(f)
  PROVE  OwnInv'
<1> DEFINE c == FreeQueue(cpu, flow[f])
           m == Quiet(flow[f])
<1>1. Coherent(flow[f], entry[f])
  BY MemberNow
<1>2. Sound(Now) /\ Now.flow = flow /\ Now.cpu = cpu
  BY NowIs
<1>3. /\ flow[f].is_snooping /\ entry' = [entry EXCEPT ![f] = NoEntry] /\ cpu' = c
      /\ UNCHANGED <<use, res, order, missed, front, copies>>
  BY DEF SnoopStop
<1>4. flow' = [flow EXCEPT ![f] = m]
  <2>1. flow = [g \in Flows |-> flow[g]]
    BY <1>2 DEF Sound
  <2>2. flow' = [flow EXCEPT ![f].cpu_rx = NoQ, ![f].is_snooping = FALSE]
    BY DEF SnoopStop
  <2> QED BY <2>1, <2>2 DEF Quiet
<1>5. copies \in [Queues -> Seq(Pids)]
  BY DEF OwnInv
<1>6. flow[f].is_started
  BY <1>1, <1>3 DEF Coherent
<1>7. Coherent(m, NoEntry) /\ Own(m) = {} /\ m.rx = flow[f].rx
  BY <1>1, QuietMember
<1> HIDE DEF m
<1>8. /\ c \in C!CpuTypes /\ c.used = cpu.used \ Own(flow[f])
      /\ \A x \in C!Pairs : c.dispatch[x] = IF x \in Own(flow[f]) THEN None ELSE cpu.dispatch[x]
  <2>1. cpu \in C!CpuTypes
    BY <1>2 DEF Sound, Owners
  <2> QED BY <2>1, FreedQueue
<1> HIDE DEF c
<1>9. Regiven(Now, f, m, c)
  BY <1>2, <1>7, <1>8 DEF Regiven
<1> QED BY <1>3, <1>4, <1>5, <1>6, <1>7, <1>9, OneMember
-----------------------------------------------------------------------------
(* Packets.                                                                *)

\* The members of a flow that keeps the packets k.
Keeps(m, k) == [m EXCEPT !.snoop_pkts = k]

LEMMA KeepsMember ==
  ASSUME NEW m, NEW e, Coherent(m, e), NEW k \in Seq(Pids),
         m.is_snooping => Elements(k) \subseteq Elements(m.rx.ports) /\ Len(k) <= m.max_snoop_pkt
  PROVE  Coherent(Keeps(m, k), e) /\ Own(Keeps(m, k)) = Own(m) /\ Keeps(m, k).rx = m.rx
         /\ Keeps(m, k).is_started = m.is_started
<1> DEFINE g == Keeps(m, k)
<1>1. m \in [is_started : BOOLEAN, is_snooping : BOOLEAN, rx : {m.rx},
             cpu_rx : Queues \cup {NoQ}, snoop_pkts : Seq(Pids), max_snoop_pkt : Nat]
  BY DEF Coherent
<1>2. g \in [is_started : BOOLEAN, is_snooping : BOOLEAN, rx : {m.rx},
             cpu_rx : Queues \cup {NoQ}, snoop_pkts : Seq(Pids), max_snoop_pkt : Nat]
  BY ONLY <1>1, k \in Seq(Pids) DEF g, Keeps
<1>3. /\ g.is_started = m.is_started /\ g.is_snooping = m.is_snooping /\ g.rx = m.rx
      /\ g.cpu_rx = m.cpu_rx /\ g.snoop_pkts = k /\ g.max_snoop_pkt = m.max_snoop_pkt
  BY ONLY <1>1 DEF g, Keeps
<1> HIDE DEF g
<1>4. Coherent(g, e)
  BY <1>2, <1>3 DEF Coherent
<1> QED BY <1>3, <1>4 DEF Own, g

LEMMA DumpInv ==
  ASSUME OwnInv, NEW f \in Flows, Dump(f)
  PROVE  OwnInv'
<1> DEFINE m == Keeps(flow[f], <<>>)
<1>1. /\ Coherent(flow[f], entry[f]) /\ [entry EXCEPT ![f] = entry[f]] = entry
      /\ flow[f].max_snoop_pkt \in Nat
  <2>1. Coherent(flow[f], entry[f]) /\ [entry EXCEPT ![f] = entry[f]] = entry
    BY MemberNow
  <2> QED BY <2>1 DEF Coherent
<1>2. Sound(Now) /\ Now.flow = flow /\ Now.cpu = cpu
  BY NowIs
<1>3. /\ flow[f].is_started /\ entry' = entry /\ cpu' = cpu
      /\ UNCHANGED <<use, res, order, missed, front, copies>>
  BY DEF Dump
<1>4. flow' = [flow EXCEPT ![f] = m]
  <2>1. flow = [g \in Flows |-> flow[g]]
    BY <1>2 DEF Sound
  <2> QED BY <2>1 DEF Dump, Keeps
<1>5. copies \in [Queues -> Seq(Pids)]
  BY DEF OwnInv
<1>6. Coherent(m, entry[f]) /\ Own(m) = Own(flow[f]) /\ m.rx = flow[f].rx
  <2> DEFINE k == <<>>
  <2>1. k \in Seq(Pids) /\ Elements(k) \subseteq Elements(flow[f].rx.ports) /\ Len(k) <= flow[f].max_snoop_pkt
    BY <1>1, NoneKept
  <2>2. m = Keeps(flow[f], k)
    OBVIOUS
  <2> HIDE DEF k, m
  <2> QED BY <1>1, <2>1, <2>2, KeepsMember
<1> HIDE DEF m
<1>7. Regiven(Now, f, m, cpu)
  BY <1>2, <1>6, SameQueue
<1>8. entry' = [entry EXCEPT ![f] = entry[f]]
  BY <1>1, <1>3
<1> QED BY <1>3, <1>4, <1>5, <1>6, <1>7, <1>8, OneMember

LEMMA CopyInv ==
  ASSUME OwnInv, NEW f \in Flows, NEW p \in Pids, Copy(f, p)
  PROVE  OwnInv'
<1> DEFINE e == IF entry[f].tokens = Unlimited THEN entry[f]
                ELSE [entry[f] EXCEPT !.tokens = @ - 1]
<1>1. /\ Coherent(flow[f], entry[f])
      /\ [flow EXCEPT ![f] = flow[f]] = flow /\ [entry EXCEPT ![f] = entry[f]] = entry
  BY MemberNow
<1>2. Sound(Now) /\ Now.flow = flow /\ Now.entry = entry /\ Now.cpu = cpu
  BY NowIs
<1>3. /\ entry[f].q # NoQ /\ entry[f].tokens > 0
      /\ UNCHANGED <<use, flow, cpu, res, order, missed, front>>
  BY DEF Copy
<1>4. entry[f] \in [q : Queues \cup {NoQ}, tokens : Nat]
      /\ entry[f].q = (IF flow[f].is_snooping THEN flow[f].cpu_rx ELSE NoQ)
  BY <1>1 DEF Coherent
<1>5. e \in [q : Queues \cup {NoQ}, tokens : Nat] /\ e.q = entry[f].q
  <2>1. CASE entry[f].tokens = Unlimited
    BY <1>4, <2>1
  <2>2. CASE entry[f].tokens # Unlimited
    <3>1. entry[f].tokens - 1 \in Nat
      BY <1>3, <1>4
    <3> QED BY <1>4, <2>2, <3>1
  <2> QED BY <2>1, <2>2
<1>6. entry' = [entry EXCEPT ![f] = e]
  <2>1. entry = [g \in Flows |-> entry[g]]
    BY <1>2 DEF Sound
  <2> QED BY <1>1, <2>1 DEF Copy
<1> HIDE DEF e
<1>7. Coherent(flow[f], e)
  BY <1>1, <1>4, <1>5 DEF Coherent
<1>8. copies' \in [Queues -> Seq(Pids)]
  <2>1. copies \in [Queues -> Seq(Pids)]
    BY DEF OwnInv
  <2>2. copies' = copies \/ copies' = [copies EXCEPT ![entry[f].q] = Append(@, p)]
    BY DEF Copy
  <2>3. copies[entry[f].q] \in Seq(Pids)
    BY <1>3, <1>4, <2>1
  <2>4. Append(copies[entry[f].q], p) \in Seq(Pids)
    BY <2>3
  <2> QED BY <1>3, <1>4, <2>1, <2>2, <2>4
<1>9. Regiven(Now, f, flow[f], cpu)
  BY <1>2, SameQueue
<1>10. flow' = [flow EXCEPT ![f] = flow[f]] /\ cpu' = cpu
  BY <1>1, <1>3
<1> QED BY <1>3, <1>6, <1>7, <1>8, <1>9, <1>10, OneMember

\* What on_pkt_rx keeps of a packet from one of the flow's ports.
LEMMA KeptMember ==
  ASSUME NEW m, NEW e, Coherent(m, e), NEW p \in Pids, p \in Elements(m.rx.ports)
  PROVE  Coherent(Kept(m, p), e) /\ Own(Kept(m, p)) = Own(m) /\ Kept(m, p).rx = m.rx
         /\ Kept(m, p).is_started = m.is_started
<1> DEFINE k == Append(m.snoop_pkts, p)
<1>1. m.snoop_pkts \in Seq(Pids) /\ m.max_snoop_pkt \in Nat /\ Len(m.snoop_pkts) \in Nat
  BY DEF Coherent
<1>2. CASE m.is_snooping /\ Len(m.snoop_pkts) < m.max_snoop_pkt
  <2>1. Kept(m, p) = Keeps(m, k)
    BY <1>2 DEF Kept, Keeps
  <2>2. k \in Seq(Pids) /\ Len(k) <= m.max_snoop_pkt
    BY <1>1, <1>2
  <2>3. Elements(k) \subseteq Elements(m.rx.ports)
    <3>1. \A i \in DOMAIN m.snoop_pkts : m.snoop_pkts[i] \in Elements(m.rx.ports)
      BY <1>2 DEF Coherent, Elements
    <3>2. \A i \in DOMAIN k : k[i] \in Elements(m.rx.ports)
      BY <1>1, <3>1
    <3> HIDE DEF k
    <3> QED BY <3>2 DEF Elements
  <2> HIDE DEF k
  <2> QED BY <2>1, <2>2, <2>3, KeepsMember
<1>3. CASE ~(m.is_snooping /\ Len(m.snoop_pkts) < m.max_snoop_pkt)
  BY <1>3 DEF Kept
<1> QED BY <1>2, <1>3

LEMMA DeliverInv ==
  ASSUME OwnInv, NEW q \in Queues, Deliver(q)
  PROVE  OwnInv'
<1> DEFINE p == Head(copies[q])
           f == cpu.dispatch[<<p, q>>]
           m == Kept(flow[f], p)
<1>1. /\ copies[q] # <<>> /\ copies' = [copies EXCEPT ![q] = Tail(@)]
      /\ flow' = (IF f = None THEN flow ELSE [flow EXCEPT ![f] = m])
      /\ UNCHANGED <<use, entry, cpu, res, order, missed, front>>
  BY DEF Deliver
<1>2. copies \in [Queues -> Seq(Pids)] /\ copies[q] \in Seq(Pids)
  BY DEF OwnInv
<1>3. p \in Pids /\ Tail(copies[q]) \in Seq(Pids)
  BY <1>1, <1>2
<1>4. copies' \in [Queues -> Seq(Pids)]
  BY <1>1, <1>2, <1>3
<1>5. /\ Sound(Now) /\ InForce(Now, front) /\ front \in [Ports -> Pids]
      /\ Now.flow = flow /\ Now.entry = entry /\ Now.cpu = cpu
      /\ Now.res = res /\ Now.order = order /\ Now.missed = missed
  BY NowIs
<1>6. <<p, q>> \in C!Pairs
  BY <1>3 DEF C!Pairs
<1> HIDE DEF p
<1>7. CASE f = None
  <2>1. Becomes(Now)
    BY <1>1, <1>5, <1>7 DEF Becomes
  <2> QED BY <1>1, <1>4, <1>5, <2>1, Closing
<1>8. CASE f # None
  <2>1. /\ \A g \in Flows : \A x \in Own(flow[g]) : cpu.dispatch[x] = g
        /\ \A x \in cpu.used : \E g \in Flows : x \in Own(flow[g])
        /\ \A x \in C!Pairs \ cpu.used : cpu.dispatch[x] = None
    BY <1>5 DEF Sound, Owners
  <2>2. PICK g \in Flows : <<p, q>> \in Own(flow[g])
    BY <1>6, <1>8, <2>1
  <2>3. f = g
    BY <2>1, <2>2
  <2>4. p \in Elements(flow[f].rx.ports)
    BY <2>2, <2>3 DEF Own
  <2>5. f \in Flows
    BY <2>3
  <2>6. flow' = [flow EXCEPT ![f] = m]
    BY <1>1, <1>8
  <2> HIDE DEF f
  <2>7. /\ Coherent(flow[f], entry[f]) /\ [entry EXCEPT ![f] = entry[f]] = entry
    BY <2>5, MemberNow
  <2>8. Coherent(m, entry[f]) /\ Own(m) = Own(flow[f]) /\ m.rx = flow[f].rx
        /\ m.is_started = flow[f].is_started
    BY <1>3, <2>4, <2>7, KeptMember
  <2> HIDE DEF m
  <2>9. Regiven(Now, f, m, cpu)
    BY <1>5, <2>5, <2>8, SameQueue
  <2>10. entry' = [entry EXCEPT ![f] = entry[f]] /\ cpu' = cpu
    BY <1>1, <2>7
  <2> QED BY <1>1, <1>4, <2>5, <2>6, <2>8, <2>9, <2>10, OneMember
<1> QED BY <1>7, <1>8
-----------------------------------------------------------------------------
(* Pair changes: the callbacks are called one by one.                      *)

\* g[i] is the state after the i latest callbacks, for i up to n.
Steps(g, n, p, full) ==
  g = [i \in 0..n |-> IF i = 0 THEN [s |-> Now, ok |-> TRUE]
                      ELSE Told(g[i - 1], Reverse(order)[i], p, full)]

\* There is such a function.
LEMMA StepsExist ==
  ASSUME NEW p, NEW full
  PROVE  \A n \in Nat : \E g : Steps(g, n, p, full)
<1> DEFINE Bad == {n \in Nat : ~ \E g : Steps(g, n, p, full)}
           first == [s |-> Now, ok |-> TRUE]
           Next1(a, i) == Told(a, Reverse(order)[i], p, full)
<1>1. SUFFICES ASSUME Bad # {} PROVE FALSE
  OBVIOUS
<1>2. PICK n \in Bad : \A m \in Bad : n <= m
  <2>1. Bad \subseteq Nat
    OBVIOUS
  <2> HIDE DEF Bad
  <2> QED BY <1>1, <2>1, NatMin
<1>3. n \in Nat /\ ~ \E g : Steps(g, n, p, full)
  BY <1>2
<1>4. n # 0
  <2> DEFINE z == [i \in 0..0 |-> first]
  <2>1. z = [i \in 0..0 |-> IF i = 0 THEN first ELSE Next1(z[i - 1], i)]
    <3> HIDE DEF first, Next1
    <3> QED OBVIOUS
  <2>2. Steps(z, 0, p, full)
    BY <2>1 DEF Steps
  <2> HIDE DEF z
  <2> QED BY <1>3, <2>2
<1>5. PICK g : Steps(g, n - 1, p, full)
  <2>1. n - 1 \in Nat /\ ~(n <= n - 1)
    BY <1>3, <1>4
  <2>2. n - 1 \notin Bad
    <3> HIDE DEF Bad
    <3> QED BY <1>2, <2>1
  <2> QED BY <2>1, <2>2
<1>6. g = [i \in 0..(n - 1) |-> IF i = 0 THEN first ELSE Next1(g[i - 1], i)]
  BY <1>5 DEF Steps
<1> DEFINE h == [i \in 0..n |-> IF i = 0 THEN first ELSE Next1(g[i - 1], i)]
<1> HIDE DEF first, Next1
<1>7. \A i \in 0..(n - 1) : h[i] = g[i]
  <2>1. \A i \in 0..(n - 1) : g[i] = IF i = 0 THEN first ELSE Next1(g[i - 1], i)
    <3> DEFINE D == 0..(n - 1)
    <3>1. g = [i \in D |-> IF i = 0 THEN first ELSE Next1(g[i - 1], i)]
      BY <1>6
    <3> HIDE DEF D
    <3>2. \A i \in D : g[i] = IF i = 0 THEN first ELSE Next1(g[i - 1], i)
      BY ONLY <3>1
    <3> QED BY <3>2 DEF D
  <2>2. \A i \in 0..(n - 1) : i \in 0..n
    BY <1>3
  <2>3. \A i \in 0..n : h[i] = IF i = 0 THEN first ELSE Next1(g[i - 1], i)
    OBVIOUS
  <2> HIDE DEF h
  <2> QED BY ONLY <2>1, <2>2, <2>3
<1>8. \A i \in 0..n : i # 0 => h[i - 1] = g[i - 1]
  <2> HIDE DEF h
  <2> QED BY <1>3, <1>7
<1>9. h = [i \in 0..n |-> IF i = 0 THEN first ELSE Next1(h[i - 1], i)]
  BY <1>8
<1>10. Steps(h, n, p, full)
  <2> HIDE DEF h
  <2> QED BY <1>9 DEF Steps, first, Next1
<1> HIDE DEF h
<1> QED BY <1>3, <1>10

LEMMA NotifiedIs ==
  ASSUME NEW p, NEW full, Len(order) \in Nat
  PROVE  \E g : Steps(g, Len(order), p, full) /\ Notified(p, full) = g[Len(order)].s
<1> DEFINE latest[i \in 0..Len(order)] ==
             IF i = 0 THEN [s |-> Now, ok |-> TRUE]
             ELSE Told(latest[i - 1], Reverse(order)[i], p, full)
<1>1. \E g : Steps(g, Len(order), p, full)
  BY StepsExist
<1>2. latest = CHOOSE g : g = [i \in 0..Len(order) |-> IF i = 0 THEN [s |-> Now, ok |-> TRUE]
                                 ELSE Told(g[i - 1], Reverse(order)[i], p, full)]
  OBVIOUS
<1>3. Notified(p, full) = latest[Len(order)].s
  BY DEF Notified
<1> HIDE DEF latest
<1>4. Steps(latest, Len(order), p, full)
  BY <1>1, <1>2 DEF Steps
<1> QED BY <1>3, <1>4

\* After some of the callbacks the members and tables s are sound, and a flow
\* still started is as it was; each that was called and asked about p is
\* stopped or missed.
Onward(s) ==
  /\ Sound(s)
  /\ \A f \in Flows : s.flow[f].is_started => s.flow[f] = flow[f] /\ (f \in missed => f \in s.missed)

Handled(s, f, p) == p \in flow[f].rx.in_ports => ~s.flow[f].is_started \/ f \in s.missed

\* A flow missed is so noted, and nothing else.
LEMMA MissedSound ==
  ASSUME NEW s, Sound(s), NEW ms
  PROVE  /\ Sound([s EXCEPT !.missed = ms])
         /\ [s EXCEPT !.missed = ms].flow = s.flow /\ [s EXCEPT !.missed = ms].missed = ms
<1> DEFINE t == [s EXCEPT !.missed = ms]
<1>1. s = [flow |-> s.flow, entry |-> s.entry, cpu |-> s.cpu, res |-> s.res,
           order |-> s.order, missed |-> s.missed]
  BY DEF Sound
<1>2. /\ t = [flow |-> s.flow, entry |-> s.entry, cpu |-> s.cpu, res |-> s.res,
              order |-> s.order, missed |-> ms]
  BY <1>1
<1> HIDE DEF t
<1>3. /\ t.flow = s.flow /\ t.entry = s.entry /\ t.cpu = s.cpu /\ t.res = s.res
      /\ t.order = s.order /\ t.missed = ms
  BY <1>2
<1>4. Owners(t)
  BY <1>3 DEF Sound, Owners
<1>5. BoundOnes(t)
  BY <1>3 DEF Sound, BoundOnes
<1>6. /\ s.flow = [f \in Flows |-> s.flow[f]] /\ s.entry = [f \in Flows |-> s.entry[f]]
      /\ \A f \in Flows : Coherent(s.flow[f], s.entry[f])
  BY DEF Sound
<1>7. Sound(t)
  BY ONLY <1>2, <1>3, <1>4, <1>5, <1>6 DEF Sound
<1> QED BY <1>3, <1>7 DEF t

\* One callback.
LEMMA ToldOnward ==
  ASSUME NEW a, Onward(a.s), NEW f \in Flows, NEW p, NEW full
  PROVE  /\ Onward(Told(a, f, p, full).s) /\ Handled(Told(a, f, p, full).s, f, p)
         /\ \A g \in Flows : Handled(a.s, g, p) => Handled(Told(a, f, p, full).s, g, p)
<1> DEFINE t == Told(a, f, p, full)
           r == Release(a.s, f)
           u == [a.s EXCEPT !.missed = @ \cup {f}]
<1>1. CASE p \notin flow[f].rx.in_ports
  <2>1. t = a
    BY <1>1 DEF Told
  <2> HIDE DEF t
  <2> QED BY <1>1, <2>1 DEF Handled, t
<1>2. CASE p \in flow[f].rx.in_ports /\ t.s = r
  <2>1. /\ Sound(r) /\ ~r.flow[f].is_started
        /\ \A g \in Flows \ {f} : r.flow[g] = a.s.flow[g]
        /\ a.s.missed \subseteq r.missed \cup {f}
    BY ReleaseSound DEF Onward
  <2> HIDE DEF r, t
  <2>2. Onward(r)
    <3>1. ASSUME NEW g \in Flows, r.flow[g].is_started
          PROVE  r.flow[g] = flow[g] /\ (g \in missed => g \in r.missed)
      <4>1. g # f
        BY <2>1, <3>1
      <4>2. r.flow[g] = a.s.flow[g]
        BY <2>1, <4>1
      <4> QED BY <2>1, <3>1, <4>1, <4>2 DEF Onward
    <3> QED BY <2>1, <3>1 DEF Onward
  <2>3. ASSUME NEW g \in Flows, g = f \/ Handled(a.s, g, p) PROVE Handled(r, g, p)
    <3>1. CASE g = f
      BY <2>1, <3>1 DEF Handled
    <3>2. CASE g # f
      BY <2>1, <2>3, <3>2 DEF Handled
    <3> QED BY <3>1, <3>2
  <2> QED BY <1>2, <2>2, <2>3 DEF t
<1>3. CASE p \in flow[f].rx.in_ports /\ t.s = u
  <2>1. Sound(u) /\ u.flow = a.s.flow /\ u.missed = a.s.missed \cup {f}
    <3> DEFINE ms == a.s.missed \cup {f}
    <3>1. u = [a.s EXCEPT !.missed = ms]
      BY DEF Onward, Sound
    <3> HIDE DEF ms, u
    <3>2. Sound(u) /\ u.flow = a.s.flow /\ u.missed = ms
      BY <3>1, MissedSound DEF Onward
    <3> QED BY <3>2 DEF ms
  <2> HIDE DEF u, t
  <2>2. Onward(u)
    BY <2>1 DEF Onward
  <2>3. \A g \in Flows : g = f \/ Handled(a.s, g, p) => Handled(u, g, p)
    BY <2>1 DEF Handled
  <2> QED BY <1>3, <2>2, <2>3 DEF t
<1>4. p \notin flow[f].rx.in_ports \/ t.s = r \/ t.s = u
  BY DEF Told
<1> QED BY <1>1, <1>2, <1>3, <1>4

\* All of them.
LEMMA NotifiedOnward ==
  ASSUME OwnInv, NEW p, NEW full
  PROVE  /\ Onward(Notified(p, full))
         /\ \A f \in Elements(order) : Handled(Notified(p, full), f, p)
<1> DEFINE n == Len(order)
           o == Reverse(order)
<1>1. Sound(Now) /\ Now.flow = flow /\ Now.missed = missed /\ Now.order = order
  BY NowIs
<1>2. order \in Seq(Flows) /\ n \in Nat /\ DOMAIN order = 1..n
  BY <1>1 DEF Sound, BoundOnes
<1>3. PICK g : Steps(g, n, p, full) /\ Notified(p, full) = g[n].s
  BY <1>2, NotifiedIs
<1>4. \A i \in 1..n : o[i] = order[(n - i) + 1] /\ o[i] \in Flows
  <2>1. ASSUME NEW i \in 1..n PROVE o[i] = order[(n - i) + 1] /\ o[i] \in Flows
    <3>1. o[i] = order[(n - i) + 1]
      BY <2>1 DEF Reverse
    <3>2. (n - i) + 1 \in 1..n
      BY <1>2
    <3> HIDE DEF n, o
    <3>3. order[(n - i) + 1] \in Flows
      BY <1>2, <3>2
    <3> QED BY <3>1, <3>3
  <2> QED BY <2>1
<1>5. g = [i \in 0..n |-> IF i = 0 THEN [s |-> Now, ok |-> TRUE] ELSE Told(g[i - 1], o[i], p, full)]
  BY <1>3 DEF Steps
<1> HIDE DEF n, o
<1>6. g[0].s = Now /\ \A i \in 1..n : g[i] = Told(g[i - 1], o[i], p, full)
  <2>1. g[0] = [s |-> Now, ok |-> TRUE]
    BY <1>2, <1>5
  <2>2. ASSUME NEW i \in 1..n PROVE g[i] = Told(g[i - 1], o[i], p, full)
    <3>1. i \in 0..n /\ i # 0
      BY <1>2
    <3> QED BY <1>5, <3>1
  <2> QED BY <2>1, <2>2
<1> DEFINE Good(i) == Onward(g[i].s) /\ \A j \in 1..i : Handled(g[i].s, o[j], p)
           Bad == {i \in 0..n : ~Good(i)}
<1>7. Bad = {}
  <2>1. SUFFICES ASSUME Bad # {} PROVE FALSE
    OBVIOUS
  <2>2. PICK i \in Bad : \A j \in Bad : i <= j
    <3>1. Bad \subseteq Nat
      BY <1>2
    <3> HIDE DEF Bad
    <3> QED BY <2>1, <3>1, NatMin
  <2>3. i \in 0..n /\ ~Good(i)
    BY <2>2
  <2>4. i # 0
    <3>1. Onward(Now)
      BY <1>1 DEF Onward
    <3>2. Good(0)
      BY <1>6, <3>1
    <3> QED BY <2>3, <3>2
  <2>5. i \in 1..n /\ i - 1 \in 0..n /\ ~(i <= i - 1)
    BY <1>2, <2>3, <2>4
  <2>6. Good(i - 1)
    <3>1. i - 1 \notin Bad
      <4> HIDE DEF Bad
      <4> QED BY <2>2, <2>5
    <3> HIDE DEF Good
    <3> QED BY <2>5, <3>1
  <2>7. g[i] = Told(g[i - 1], o[i], p, full) /\ o[i] \in Flows
    BY <1>4, <1>6, <2>5
  <2>8. /\ Onward(g[i].s) /\ Handled(g[i].s, o[i], p)
        /\ \A f \in Flows : Handled(g[i - 1].s, f, p) => Handled(g[i].s, f, p)
    BY <2>6, <2>7, ToldOnward
  <2>9. ASSUME NEW j \in 1..i PROVE Handled(g[i].s, o[j], p)
    <3>1. CASE j = i
      BY <2>8, <3>1
    <3>2. CASE j # i
      <4>1. j \in 1..(i - 1) /\ j \in 1..n
        <5>1. n \in Nat /\ i \in 1..n /\ j \in 1..i /\ j # i
          BY <1>2, <2>5, <3>2
        <5> QED BY ONLY <5>1
      <4> QED BY <1>4, <2>6, <2>8, <4>1
    <3> QED BY <3>1, <3>2
  <2> QED BY <2>3, <2>8, <2>9
<1>8. Good(n)
  BY <1>2, <1>7
<1>9. ASSUME NEW f \in Elements(order) PROVE Handled(g[n].s, f, p)
  <2>1. PICK k \in 1..n : order[k] = f
    BY <1>2 DEF Elements
  <2>2. (n - k) + 1 \in 1..n /\ (n - ((n - k) + 1)) + 1 = k
    BY <1>2
  <2>3. o[(n - k) + 1] = f
    BY <1>4, <2>1, <2>2
  <2> QED BY <1>8, <2>2, <2>3
<1> QED BY <1>3, <1>8, <1>9

LEMMA SwapPairInv ==
  ASSUME OwnInv, NEW p \in Ports, NEW full, SwapPair(p, full)
  PROVE  OwnInv'
<1> DEFINE s == Notified(p, full)
<1>1. /\ Sound(Now) /\ InForce(Now, front) /\ front \in [Ports -> Pids]
      /\ Now.flow = flow /\ Now.missed = missed /\ Now.order = order
  BY NowIs
<1>2. Becomes(s) /\ UNCHANGED <<use, copies>>
  BY DEF SwapPair
<1>3. Onward(s) /\ \A f \in Elements(order) : Handled(s, f, p)
  BY NotifiedOnward
<1> HIDE DEF s
<1>4. front' \in [Ports -> Pids] /\ \A r \in Ports \ {p} : front'[r] = front[r]
  <2>1. PICK d \in PidsOf[p] : front' = [front EXCEPT ![p] = d]
    BY DEF SwapPair
  <2>2. d \in Pids
    OBVIOUS
  <2> QED BY <1>1, <2>1, <2>2
<1>5. ASSUME NEW f \in Flows \ s.missed, s.flow[f].is_started
      PROVE  s.flow[f].rx.ports = PortsOf(front', s.flow[f].rx.in_ports)
  <2>1. s.flow[f] = flow[f] /\ f \notin missed
    BY <1>3, <1>5 DEF Onward
  <2>2. flow[f].rx.ports = PortsOf(front, flow[f].rx.in_ports)
    BY <1>1, <1>5, <2>1 DEF InForce
  <2>3. f \in Elements(order) /\ flow[f].rx.in_ports \subseteq Ports
    BY <1>1, <1>5, <2>1 DEF Sound, BoundOnes, Coherent
  <2>4. p \notin flow[f].rx.in_ports
    BY <1>3, <1>5, <2>3 DEF Handled
  <2> DEFINE names == flow[f].rx.in_ports
  <2>5. \A r \in names : front'[r] = front[r]
    BY <1>4, <2>3, <2>4
  <2>6. PortsOf(front', names) = PortsOf(front, names)
    <3> HIDE DEF names
    <3>1. names \subseteq Ports
      BY <2>3 DEF names
    <3> QED BY <2>5, <3>1, SamePorts
  <2> QED BY <2>1, <2>2, <2>6
<1>6. InForce(s, front')
  BY <1>5 DEF InForce
<1>7. copies' \in [Queues -> Seq(Pids)]
  BY <1>2 DEF OwnInv
<1> QED BY <1>2, <1>3, <1>4, <1>6, <1>7, Closing DEF Onward
-----------------------------------------------------------------------------
LEMMA InitInv ==
  ASSUME Init
  PROVE  OwnInv
<1>1. /\ use \in Uses /\ order = <<>> /\ missed = {} /\ cpu = C!NewCpu
      /\ flow = [f \in Flows |-> NewFlow] /\ entry = [f \in Flows |-> NoEntry]
      /\ front \in [Ports -> Pids] /\ copies = [q \in Queues |-> <<>>]
  BY DEF Init
<1>2. copies \in [Queues -> Seq(Pids)]
  BY <1>1
<1>3. ASSUME NEW f \in Flows
      PROVE  Coherent(flow[f], entry[f]) /\ Own(flow[f]) = {} /\ ~flow[f].is_started
  <2>1. NoEntry \in [q : Queues \cup {NoQ}, tokens : Nat] /\ NoEntry.q = NoQ
    BY DEF NoEntry
  <2> QED BY <1>1, <2>1, NewMember
<1>4. /\ Now.flow = flow /\ Now.entry = entry /\ Now.cpu = cpu /\ Now.order = order
      /\ Now.res = res /\ Now.missed = missed
      /\ Now = [flow |-> flow, entry |-> entry, cpu |-> cpu, res |-> res,
                order |-> order, missed |-> missed]
  BY DEF Now
<1>5. Owners(Now)
  <2>1. C!NewCpu = [used |-> {}, dispatch |-> [x \in C!Pairs |-> None]]
    BY DEF C!NewCpu
  <2>2. cpu \in C!CpuTypes /\ cpu.used = {} /\ \A x \in C!Pairs : cpu.dispatch[x] = None
    BY <1>1, <2>1 DEF C!CpuTypes
  <2> QED BY <1>3, <1>4, <2>2 DEF Owners
<1>6. BoundOnes(Now)
  BY <1>1, <1>3, <1>4 DEF BoundOnes
<1>7. flow = [f \in Flows |-> flow[f]] /\ entry = [f \in Flows |-> entry[f]]
  BY <1>1
<1>8. Sound(Now)
  BY <1>3, <1>4, <1>5, <1>6, <1>7 DEF Sound
<1>9. PairInForce
  BY <1>3 DEF PairInForce, Filtering
<1> QED BY <1>1, <1>2, <1>8, <1>9 DEF OwnInv

\* Nothing else changes what the invariant is about.
LEMMA StutterInv ==
  ASSUME OwnInv, UNCHANGED vars
  PROVE  OwnInv'
<1>1. Becomes(Now) /\ UNCHANGED <<use, front, copies>>
  BY NowIs DEF Becomes, vars
<1> QED BY <1>1, NowIs, Closing DEF OwnInv

\* The members of the flows, the queues of the CPU port and the copies agree,
\* whatever is called, dispatched and copied (flow.cpp, rx.cpp, cpu.cpp).
THEOREM OwnInvariant == Spec => []OwnInv
<1>1. Init => OwnInv
  BY InitInv
<1>2. OwnInv /\ [Next]_vars => OwnInv'
  <2> SUFFICES ASSUME OwnInv, [Next]_vars PROVE OwnInv'
    OBVIOUS
  <2>1. ASSUME NEW f \in Flows, NEW q \in use.quals, NEW room \in BOOLEAN, Start(f, q, room)
        PROVE  OwnInv'
    BY <2>1, StartInv
  <2>2. ASSUME NEW f \in Flows, Stop(f) PROVE OwnInv'
    BY <2>2, StopInv
  <2>3. ASSUME NEW f \in Flows, Destroy(f) PROVE OwnInv'
    BY <2>3, DestroyInv
  <2>4. ASSUME NEW f \in Flows, NEW n \in use.asks, NEW room \in BOOLEAN, SnoopStart(f, n, room)
        PROVE  OwnInv'
    BY <2>4, SnoopStartInv
  <2>5. ASSUME NEW f \in Flows, SnoopStop(f) PROVE OwnInv'
    BY <2>5, SnoopStopInv
  <2>6. ASSUME NEW f \in Flows, Dump(f) PROVE OwnInv'
    BY <2>6, DumpInv
  <2>7. ASSUME NEW f \in Flows, NEW p \in Pids, Copy(f, p) PROVE OwnInv'
    BY <2>7, CopyInv
  <2>8. ASSUME NEW q \in Queues, Deliver(q) PROVE OwnInv'
    BY <2>8, DeliverInv
  <2>9. ASSUME NEW p \in Ports, NEW full \in SUBSET Snooping, SwapPair(p, full) PROVE OwnInv'
    BY <2>9, SwapPairInv
  <2>10. ASSUME UNCHANGED vars PROVE OwnInv'
    BY <2>10, StutterInv
  <2> QED BY <2>1, <2>2, <2>3, <2>4, <2>5, <2>6, <2>7, <2>8, <2>9, <2>10 DEF Next
<1> QED BY <1>1, <1>2, PTL DEF Spec

LEMMA OwnersAreOwned ==
  ASSUME OwnInv
  PROVE  QueuesAreOwned
<1> DEFINE own == [f \in Flows |-> Own(flow[f])]
<1>1. Sound(Now) /\ Now.flow = flow /\ Now.entry = entry /\ Now.cpu = cpu
  BY NowIs
<1>2. /\ cpu \in C!CpuTypes
      /\ \A f \in Flows : \A x \in own[f] : x \in cpu.used /\ cpu.dispatch[x] = f
      /\ \A x \in cpu.used : \E f \in Flows : x \in own[f]
      /\ \A x \in C!Pairs \ cpu.used : cpu.dispatch[x] = None
  BY <1>1 DEF Sound, Owners
<1>3. \A f \in Flows : entry[f].q # NoQ => entry[f].q = flow[f].cpu_rx
  BY <1>1 DEF Sound, Coherent
<1>4. own = [f \in Flows |-> own[f]]
  OBVIOUS
<1> HIDE DEF own
<1>5. cpu.used = UNION {own[f] : f \in Flows}
  BY <1>2
<1>6. \A f, g \in Flows : f # g => own[f] \cap own[g] = {}
  BY <1>2
<1>7. ASSUME NEW x \in C!Pairs
      PROVE  cpu.dispatch[x] = (IF x \in cpu.used THEN CHOOSE f \in Flows : x \in own[f] ELSE None)
  <2>1. CASE x \in cpu.used
    <3>1. PICK f \in Flows : x \in own[f]
      BY <1>2, <2>1
    <3>2. \A g \in Flows : x \in own[g] => g = cpu.dispatch[x]
      BY <1>2
    <3>3. (CHOOSE g \in Flows : x \in own[g]) = cpu.dispatch[x]
      BY <3>1, <3>2
    <3> QED BY <2>1, <3>3
  <2>2. CASE x \notin cpu.used
    BY <1>2, <2>2
  <2> QED BY <2>1, <2>2
<1> QED BY <1>3, <1>5, <1>6, <1>7 DEF QueuesAreOwned, own

\* A pair of port and queue has one owner, which gets its packets: the bitmap,
\* the callbacks and the flows agree, for any ports and queues (cpu.cpp).
THEOREM Rx_QueuesAreOwned == Spec => []QueuesAreOwned
<1>1. OwnInv => QueuesAreOwned
  BY OwnersAreOwned
<1> QED BY <1>1, OwnInvariant, PTL

\* What a flow keeps comes from its own ports, and is no more than it asked
\* for, though copies wait for owners of before (rx_dispatch, on_pkt_rx).
THEOREM Rx_KeepsOwnPorts == Spec => []KeepsOwnPorts
<1>1. OwnInv => KeepsOwnPorts
  <2> SUFFICES ASSUME OwnInv PROVE KeepsOwnPorts
    OBVIOUS
  <2>1. \A f \in Flows : Coherent(flow[f], entry[f])
    BY MemberNow
  <2> QED BY <2>1 DEF Coherent, KeepsOwnPorts, FilterPids
<1> QED BY <1>1, OwnInvariant, PTL

\* After a pair change each filter is on the fronts its ports have now, but for
\* those whose callback was not reached (pair_notify_dispatch).
THEOREM Rx_PairInForce == Spec => []PairInForce
<1>1. OwnInv => PairInForce
  BY DEF OwnInv
<1> QED BY <1>1, OwnInvariant, PTL
=============================================================================
