----------------------------- MODULE TimerProofs -----------------------------
(***************************************************************************)
(* Proofs about TimerThread for every value of its constants: what its     *)
(* delta list holds after each operation and when it is due, its types     *)
(* (hence the absence of underflow in the list), and, when the guard is    *)
(* there, that the list is sound and the callback thread never reaches a   *)
(* destroyed timer, that a started timer stays on its way to its callback, *)
(* that no callback comes early, and that the threads implement            *)
(* TimerService.                                                           *)
(***************************************************************************)
EXTENDS TimerProperties, NatLemmas, SequenceTheorems

(* The delta list.                                                         *)

\* UINT32 arithmetic stays in the width of UINT32.
LEMMA WrapRange ==
  ASSUME MaxMs \in Nat, NEW x \in Nat
  PROVE  Wrap(x) \in Ms
BY DEF Wrap, Ms

\* The sums of the first i deltas, for i up to n.
Sums(s, n, f) == f = [i \in 0..n |-> IF i = 0 THEN 0 ELSE f[i-1] + s[i].delta_ms]

\* A list of elements has its sums: by induction on the length, in the form
\* of a least length without them.
LEMMA SumsExist ==
  ASSUME NEW s, NEW n \in Nat
  PROVE  \E f : Sums(s, n, f)
<1> DEFINE Bad == {m \in Nat : \A f : ~Sums(s, m, f)}
<1>1. SUFFICES ASSUME Bad # {} PROVE FALSE
  OBVIOUS
<1>2. PICK m \in Bad : \A y \in Bad : m <= y
  <2> Bad \subseteq Nat
    OBVIOUS
  <2> HIDE DEF Bad
  <2> QED BY <1>1, NatMin
<1>3. m # 0
  <2>1. Sums(s, 0, [i \in 0..0 |-> 0])
    BY DEF Sums
  <2> QED
    BY <2>1
<1>4. m \in Nat /\ m - 1 \in Nat
  BY <1>3
<1>5. PICK f : Sums(s, m - 1, f)
  <2>1. m - 1 \notin Bad
    <3>1. ~(m <= m - 1)
      BY <1>4
    <3> HIDE DEF Bad
    <3> QED BY <1>2, <3>1
  <2> QED BY <2>1, <1>4
<1> DEFINE g == [i \in 0..m |-> IF i = m THEN f[m-1] + s[m].delta_ms ELSE f[i]]
<1>6. Sums(s, m, g)
  <2>1. ASSUME NEW i \in 0..m
        PROVE  g[i] = IF i = 0 THEN 0 ELSE g[i-1] + s[i].delta_ms
    <3>1. CASE i = 0
      BY <1>3, <1>4, <1>5, <3>1 DEF Sums
    <3>2. CASE i = m
      <4>1. m - 1 \in 0..m /\ m - 1 # m
        BY <1>4
      <4> QED BY <1>3, <3>2, <4>1
    <3>3. CASE i # 0 /\ i # m
      <4>1. i \in 0..m-1 /\ i - 1 \in 0..m /\ i - 1 # m
        BY <1>4, <3>3
      <4>2. f[i] = f[i-1] + s[i].delta_ms
        BY <1>5, <3>3, <4>1 DEF Sums
      <4> QED BY <3>3, <4>1, <4>2
    <3> QED BY <3>1, <3>2, <3>3
  <2> HIDE DEF g
  <2>2. g = [i \in 0..m |-> g[i]]
    BY DEF g
  <2> QED BY <2>1, <2>2 DEF Sums
<1> QED BY <1>2, <1>6

\* Offset is those sums.
LEMMA OffsetDef ==
  ASSUME NEW s \in Seq(Element)
  PROVE  /\ Offset(s)[0] = 0
         /\ \A i \in 1..Len(s) : Offset(s)[i] = Offset(s)[i-1] + s[i].delta_ms
<1>1. Len(s) \in Nat
  OBVIOUS
<1>2. PICK f : Sums(s, Len(s), f)
  BY <1>1, SumsExist
<1>3. Sums(s, Len(s), Offset(s))
  BY <1>2 DEF Sums, Offset
<1> HIDE DEF Offset
<1>4. \A i \in 0..Len(s) :
        Offset(s)[i] = IF i = 0 THEN 0 ELSE Offset(s)[i-1] + s[i].delta_ms
  BY <1>3 DEF Sums
<1> QED
  BY <1>1, <1>4

\* The sums are naturals and grow along the list.
LEMMA OffsetType ==
  ASSUME NEW s \in Seq(Element), MaxMs \in Nat
  PROVE  \A i \in 0..Len(s) : Offset(s)[i] \in Nat
<1> DEFINE Bad == {i \in 0..Len(s) : Offset(s)[i] \notin Nat}
<1>1. SUFFICES ASSUME Bad # {} PROVE FALSE
  OBVIOUS
<1>2. PICK m \in Bad : \A y \in Bad : m <= y
  <2>1. Bad \subseteq Nat
    OBVIOUS
  <2> HIDE DEF Bad
  <2> QED
    BY <1>1, <2>1, NatMin
<1>3. m \in 1..Len(s) /\ m - 1 \in 0..Len(s)
  BY <1>2, OffsetDef
<1>4. Offset(s)[m-1] \in Nat
  <2>1. m - 1 \notin Bad
    <3>1. ~(m <= m - 1)
      BY <1>3
    <3> HIDE DEF Bad
    <3> QED
      BY <1>2, <3>1
  <2> QED
    BY <2>1, <1>3
<1>5. s[m].delta_ms \in Nat
  <2>1. s[m] \in Element
    BY <1>3
  <2> QED
    BY <2>1 DEF Element, Ms
<1>6. Offset(s)[m] \in Nat
  BY <1>3, <1>4, <1>5, OffsetDef
<1> QED
  BY <1>2, <1>6

\* The same, step by step along the list.
LEMMA OffsetStep ==
  ASSUME NEW s \in Seq(Element), MaxMs \in Nat
  PROVE  \A k \in 1..Len(s) : /\ s[k] \in Element /\ s[k].delta_ms \in Nat
                              /\ Offset(s)[k] = Offset(s)[k-1] + s[k].delta_ms
                              /\ Offset(s)[k] \in Nat /\ Offset(s)[k-1] \in Nat
<1> SUFFICES ASSUME NEW k \in 1..Len(s)
             PROVE  /\ s[k] \in Element /\ s[k].delta_ms \in Nat
                    /\ Offset(s)[k] = Offset(s)[k-1] + s[k].delta_ms
                    /\ Offset(s)[k] \in Nat /\ Offset(s)[k-1] \in Nat
  OBVIOUS
<1>1. k \in 0..Len(s) /\ k - 1 \in 0..Len(s) /\ s[k] \in Element
  OBVIOUS
<1>2. s[k].delta_ms \in Nat
  BY <1>1 DEF Element, Ms
<1>3. Offset(s)[k] \in Nat /\ Offset(s)[k-1] \in Nat
  BY <1>1, OffsetType
<1> QED
  BY <1>1, <1>2, <1>3, OffsetDef

\* Place is a position of the list or the one after its end; everything
\* before it is due no later than d, and what stands there is due later.
LEMMA PlaceRange ==
  ASSUME NEW s \in Seq(Element), NEW d \in Nat, MaxMs \in Nat
  PROVE  /\ Place(s, d) \in 1..Len(s)+1
         /\ Offset(s)[Place(s, d) - 1] <= d
         /\ Place(s, d) <= Len(s) => d < Offset(s)[Place(s, d)]
<1>1. Len(s) \in Nat
  OBVIOUS
<1>2. ASSUME NEW i \in 0..Len(s), i \notin Later(s, d)
      PROVE  Offset(s)[i] <= d
  BY <1>1, <1>2, OffsetDef, OffsetType DEF Later
<1>3. CASE Later(s, d) = {}
  <2>1. Place(s, d) = Len(s) + 1
    BY <1>3 DEF Place
  <2> QED
    BY <1>1, <1>2, <1>3, <2>1
<1>4. CASE Later(s, d) # {}
  <2>1. Later(s, d) \subseteq Nat
    BY <1>1 DEF Later
  <2>2. /\ Place(s, d) \in Later(s, d)
        /\ \A j \in Later(s, d) : Place(s, d) <= j
    BY <1>4, <2>1, NatMin DEF Place
  <2>3. /\ Place(s, d) \in 1..Len(s)
        /\ d < Offset(s)[Place(s, d)]
    BY <1>1, <2>2, OffsetType DEF Later
  <2>4. Place(s, d) - 1 \notin Later(s, d) /\ Place(s, d) - 1 \in 0..Len(s)
    BY <1>1, <2>2, <2>3
  <2> QED
    BY <1>1, <1>2, <2>3, <2>4
<1> QED
  BY <1>3, <1>4
-----------------------------------------------------------------------------
\* Linking an element that is due no later than its successor: the deltas
\* stay naturals, and the timers keep their order.
LEMMA LinkAtList ==
  ASSUME NEW s \in Seq(Element), NEW i \in 1..Len(s)+1, NEW e \in Element,
         MaxMs \in Nat, i <= Len(s) => e.delta_ms <= s[i].delta_ms
  PROVE  /\ LinkAt(s, i, e) \in Seq(Element)
         /\ Len(LinkAt(s, i, e)) = Len(s) + 1
         /\ \A k \in 1..Len(s)+1 :
              LinkAt(s, i, e)[k].timer = IF k < i THEN s[k].timer
                                         ELSE IF k = i THEN e.timer ELSE s[k-1].timer
<1>1. Len(s) \in Nat
  OBVIOUS
<1> DEFINE c(k) == IF k < i THEN s[k]
                   ELSE IF k = i THEN e
                   ELSE IF k = i+1 THEN [s[i] EXCEPT !.delta_ms = @ - e.delta_ms]
                   ELSE s[k-1]
<1>2. LinkAt(s, i, e) = [k \in 1..Len(s)+1 |-> c(k)]
  BY DEF LinkAt
<1>3. ASSUME NEW k \in 1..Len(s)+1
      PROVE  /\ c(k) \in Element
             /\ c(k).timer = IF k < i THEN s[k].timer
                             ELSE IF k = i THEN e.timer ELSE s[k-1].timer
  <2>1. CASE k < i
    <3>1. s[k] \in Element
      BY <1>1, <2>1
    <3> QED
      BY <2>1, <3>1
  <2>2. CASE k = i
    BY <2>2
  <2>3. CASE k = i + 1
    <3>1. i <= Len(s) /\ s[i] \in Element
      BY <1>1, <2>3
    <3>2. s[i].delta_ms - e.delta_ms \in Ms
      BY <3>1 DEF Element, Ms
    <3>3. /\ [s[i] EXCEPT !.delta_ms = @ - e.delta_ms] \in Element
          /\ [s[i] EXCEPT !.delta_ms = @ - e.delta_ms].timer = s[i].timer
      BY <3>1, <3>2 DEF Element
    <3>4. k - 1 = i /\ ~(k < i) /\ k # i
      BY <2>3
    <3> QED
      BY <2>3, <3>3, <3>4
  <2>4. CASE k > i + 1
    <3>1. s[k-1] \in Element /\ ~(k < i) /\ k # i /\ k # i + 1
      BY <1>1, <2>4
    <3> QED
      BY <3>1
  <2> QED
    BY <1>1, <2>1, <2>2, <2>3, <2>4
<1> HIDE DEF c
<1>4. [k \in 1..Len(s)+1 |-> c(k)] \in [1..Len(s)+1 -> Element]
  BY <1>3
<1>5. /\ LinkAt(s, i, e) \in Seq(Element)
      /\ Len(LinkAt(s, i, e)) = Len(s) + 1
  BY <1>1, <1>2, <1>4, ElementOfSeq, SeqDef
<1> QED
  BY <1>2, <1>3, <1>5

\* Unlinking: the successor takes over the delta, the others keep theirs.
LEMMA UnlinkAtList ==
  ASSUME NEW s \in Seq(Element), NEW i \in 1..Len(s), MaxMs \in Nat
  PROVE  /\ UnlinkAt(s, i) \in Seq(Element)
         /\ Len(UnlinkAt(s, i)) = Len(s) - 1
         /\ \A k \in 1..Len(s)-1 :
              UnlinkAt(s, i)[k].timer = IF k < i THEN s[k].timer ELSE s[k+1].timer
<1>1. Len(s) \in Nat /\ Len(s) - 1 \in Nat
  OBVIOUS
<1> DEFINE c(k) == IF k < i THEN s[k]
                   ELSE IF k = i THEN [s[i+1] EXCEPT !.delta_ms = Wrap(@ + s[i].delta_ms)]
                   ELSE s[k+1]
<1>2. UnlinkAt(s, i) = [k \in 1..Len(s)-1 |-> c(k)]
  BY DEF UnlinkAt
<1>3. ASSUME NEW k \in 1..Len(s)-1
      PROVE  /\ c(k) \in Element
             /\ c(k).timer = IF k < i THEN s[k].timer ELSE s[k+1].timer
  <2>1. s[k] \in Element /\ s[k+1] \in Element
    BY <1>1
  <2>2. CASE k = i
    <3>1. s[i+1].delta_ms + s[i].delta_ms \in Nat
      BY <2>1, <2>2 DEF Element, Ms
    <3>2. Wrap(s[i+1].delta_ms + s[i].delta_ms) \in Ms
      BY <3>1, WrapRange
    <3>3. /\ [s[i+1] EXCEPT !.delta_ms = Wrap(@ + s[i].delta_ms)] \in Element
          /\ [s[i+1] EXCEPT !.delta_ms = Wrap(@ + s[i].delta_ms)].timer = s[i+1].timer
      BY <2>1, <2>2, <3>2 DEF Element
    <3> QED
      BY <2>2, <3>3
  <2>3. CASE k # i
    BY <2>1, <2>3
  <2> QED
    BY <2>2, <2>3
<1> HIDE DEF c
<1>4. [k \in 1..Len(s)-1 |-> c(k)] \in [1..Len(s)-1 -> Element]
  BY <1>3
<1>5. /\ UnlinkAt(s, i) \in Seq(Element)
      /\ Len(UnlinkAt(s, i)) = Len(s) - 1
  BY <1>1, <1>2, <1>4, ElementOfSeq, SeqDef
<1> QED
  BY <1>2, <1>3, <1>5

\* Unlinking one element takes its timer, and only its timer, off the list.
LEMMA UnlinkAtTimers ==
  ASSUME NEW s \in Seq(Element), NEW i \in 1..Len(s), MaxMs \in Nat, Unique(s)
  PROVE  /\ UnlinkAt(s, i) \in Seq(Element)
         /\ Unique(UnlinkAt(s, i))
         /\ \A u : Listed(UnlinkAt(s, i), u) <=> Listed(s, u) /\ u # s[i].timer
<1> DEFINE r == UnlinkAt(s, i)
<1>1. Len(s) \in Nat /\ Len(s) - 1 \in Nat
  OBVIOUS
<1>2. /\ r \in Seq(Element) /\ Len(r) = Len(s) - 1
      /\ \A k \in 1..Len(s)-1 : r[k].timer = IF k < i THEN s[k].timer ELSE s[k+1].timer
  BY UnlinkAtList
<1> HIDE DEF r
<1>3. Unique(r)
  BY SMTT(40), <1>1, <1>2 DEF Unique
<1>4. ASSUME NEW u, Listed(r, u) PROVE Listed(s, u) /\ u # s[i].timer
  <2>1. PICK k \in 1..Len(s)-1 : r[k].timer = u
    BY <1>2, <1>4 DEF Listed
  <2>2. CASE k < i
    BY <1>1, <1>2, <2>1, <2>2 DEF Listed, Unique
  <2>3. CASE ~(k < i)
    <3>1. k + 1 \in 1..Len(s) /\ k + 1 # i /\ s[k+1].timer = u
      BY <1>1, <1>2, <2>1, <2>3
    <3> QED
      BY <3>1 DEF Listed, Unique
  <2> QED
    BY <2>2, <2>3
<1>5. ASSUME NEW u, Listed(s, u), u # s[i].timer PROVE Listed(r, u)
  <2>1. PICK k \in 1..Len(s) : s[k].timer = u /\ k # i
    BY <1>5 DEF Listed
  <2>2. CASE k < i
    <3>1. k \in 1..Len(r) /\ r[k].timer = u
      BY <1>1, <1>2, <2>1, <2>2
    <3> QED
      BY <3>1 DEF Listed
  <2>3. CASE k > i
    <3>1. k - 1 \in 1..Len(r) /\ ~(k - 1 < i) /\ (k - 1) + 1 = k
      BY <1>1, <1>2, <2>1, <2>3
    <3>2. r[k-1].timer = u
      BY <1>1, <1>2, <2>1, <3>1
    <3> QED
      BY <3>1, <3>2 DEF Listed
  <2> QED
    BY <1>1, <2>1, <2>2, <2>3
<1> QED
  BY <1>2, <1>3, <1>4, <1>5 DEF r

\* What insert does to the list: the timer is listed, once.
LEMMA InsertList ==
  ASSUME NEW s \in Seq(Element), NEW t \in Timers, NEW d \in Ms,
         MaxMs \in Nat, Unique(s)
  PROVE  /\ Insert(s, t, d) \in Seq(Element)
         /\ Unique(Insert(s, t, d))
         /\ \A u : Listed(Insert(s, t, d), u) <=> Listed(s, u) \/ u = t
<1>1. CASE Listed(s, t)
  BY <1>1 DEF Insert
<1>2. CASE ~Listed(s, t)
  <2> DEFINE i == Place(s, d)
             e == [timer |-> t, delta_ms |-> d - Offset(s)[i-1]]
             r == LinkAt(s, i, e)
  <2>1. Insert(s, t, d) = r
    BY <1>2 DEF Insert
  <2>2. Len(s) \in Nat /\ d \in Nat /\ d <= MaxMs
    BY DEF Ms
  <2>3. /\ i \in 1..Len(s)+1
        /\ Offset(s)[i - 1] <= d
        /\ i <= Len(s) => d < Offset(s)[i]
    BY <2>2, PlaceRange
  <2> HIDE DEF i
  <2>4. i - 1 \in 0..Len(s)
    BY <2>2, <2>3
  <2>5. Offset(s)[i - 1] \in Nat
    BY <2>4, OffsetType
  <2>6. e \in Element
    <3>1. d - Offset(s)[i-1] \in Ms
      BY <2>2, <2>3, <2>5 DEF Ms
    <3> QED
      BY <3>1 DEF Element
  <2>7. i <= Len(s) => e.delta_ms <= s[i].delta_ms
    <3> SUFFICES ASSUME i <= Len(s) PROVE d - Offset(s)[i-1] <= s[i].delta_ms
      OBVIOUS
    <3>1. i \in 1..Len(s) /\ i \in 0..Len(s)
      BY <2>2, <2>3
    <3>2. s[i] \in Element
      BY <3>1
    <3>3. s[i].delta_ms \in Nat
      BY <3>2 DEF Element, Ms
    <3>4. Offset(s)[i] = Offset(s)[i-1] + s[i].delta_ms /\ d < Offset(s)[i]
      BY <2>3, <3>1, OffsetDef
    <3> QED
      BY <2>2, <2>5, <3>3, <3>4
  <2>8. e.timer = t
    OBVIOUS
  <2> HIDE DEF e
  <2>9. /\ r \in Seq(Element) /\ Len(r) = Len(s) + 1
        /\ \A k \in 1..Len(s)+1 :
              r[k].timer = IF k < i THEN s[k].timer ELSE IF k = i THEN t ELSE s[k-1].timer
    BY <2>3, <2>6, <2>7, <2>8, LinkAtList
  <2> HIDE DEF r
  <2>10. Unique(r)
    <3> DEFINE from(k) == IF k < i THEN k ELSE k - 1
    <3>1. ASSUME NEW k \in 1..Len(r), k # i
          PROVE  from(k) \in 1..Len(s) /\ r[k].timer = s[from(k)].timer /\ r[k].timer # t
      <4>1. from(k) \in 1..Len(s) /\ r[k].timer = s[from(k)].timer
        BY <2>2, <2>3, <2>9, <3>1
      <4> HIDE DEF from
      <4> QED
        BY <1>2, <4>1 DEF Listed
    <3>2. i \in 1..Len(r) /\ r[i].timer = t
      BY <2>2, <2>3, <2>9
    <3>3. ASSUME NEW k \in 1..Len(r), NEW m \in 1..Len(r), k # i, m # i, from(k) = from(m)
          PROVE  k = m
      BY <2>2, <2>3, <2>9, <3>3
    <3> HIDE DEF from
    <3> QED
      BY <3>1, <3>2, <3>3 DEF Unique
  <2>11. ASSUME NEW u, Listed(r, u) PROVE Listed(s, u) \/ u = t
    <3>1. PICK k \in 1..(Len(s) + 1) : r[k].timer = u
      BY <2>9, <2>11 DEF Listed
    <3>2. CASE k < i
      <4>1. k \in 1..Len(s) /\ s[k].timer = u
        BY <2>2, <2>3, <2>9, <3>1, <3>2
      <4> QED
        BY <4>1 DEF Listed
    <3>3. CASE k = i
      BY <2>9, <3>1, <3>3
    <3>4. CASE k > i
      <4>1. k - 1 \in 1..Len(s) /\ s[k-1].timer = u
        BY <2>2, <2>3, <2>9, <3>1, <3>4
      <4> QED
        BY <4>1 DEF Listed
    <3> QED
      BY <2>2, <2>3, <3>1, <3>2, <3>3, <3>4
  <2>12. Listed(r, t)
    BY <2>2, <2>3, <2>9 DEF Listed
  <2>13. ASSUME NEW u, Listed(s, u) PROVE Listed(r, u)
    <3>1. PICK k \in 1..Len(s) : s[k].timer = u
      BY <2>13 DEF Listed
    <3>2. CASE k < i
      <4>1. k \in 1..Len(r) /\ r[k].timer = u
        BY <2>2, <2>9, <3>1, <3>2
      <4> QED
        BY <4>1 DEF Listed
    <3>3. CASE ~(k < i)
      <4>1. k + 1 \in 1..Len(r) /\ ~(k + 1 < i) /\ k + 1 # i /\ (k + 1) - 1 = k
        BY <2>2, <2>3, <2>9, <3>3
      <4>2. r[k+1].timer = u
        BY <2>9, <3>1, <4>1
      <4> QED
        BY <4>1, <4>2 DEF Listed
    <3> QED
      BY <3>2, <3>3
  <2> QED
    BY <2>1, <2>9, <2>10, <2>11, <2>12, <2>13
<1> QED
  BY <1>1, <1>2

\* What remove does to the list: the timer is not listed any more.
LEMMA RemoveList ==
  ASSUME NEW s \in Seq(Element), NEW t, MaxMs \in Nat, Unique(s)
  PROVE  /\ Remove(s, t) \in Seq(Element)
         /\ Unique(Remove(s, t))
         /\ \A u : Listed(Remove(s, t), u) <=> Listed(s, u) /\ u # t
<1>1. CASE Listed(s, t)
  <2> DEFINE i == CHOOSE i \in 1..Len(s) : s[i].timer = t
  <2>1. i \in 1..Len(s) /\ s[i].timer = t
    BY <1>1 DEF Listed
  <2>2. Remove(s, t) = UnlinkAt(s, i)
    BY <1>1 DEF Remove
  <2> HIDE DEF i
  <2> QED
    BY <2>1, <2>2, UnlinkAtTimers
<1>2. CASE ~Listed(s, t)
  BY <1>2 DEF Remove
<1> QED
  BY <1>1, <1>2
-----------------------------------------------------------------------------
\* Whatever adds up the deltas of a list is its Offset: at the least position
\* where they differed, they would agree on the one before.
LEMMA OffsetIs ==
  ASSUME NEW s \in Seq(Element), NEW g, g[0] = 0,
         \A k \in 1..Len(s) : g[k] = g[k-1] + s[k].delta_ms
  PROVE  \A k \in 0..Len(s) : Offset(s)[k] = g[k]
<1> DEFINE Bad == {k \in 0..Len(s) : Offset(s)[k] # g[k]}
<1>1. SUFFICES ASSUME Bad # {} PROVE FALSE
  OBVIOUS
<1>2. PICK m \in Bad : \A y \in Bad : m <= y
  <2>1. Bad \subseteq Nat
    OBVIOUS
  <2> HIDE DEF Bad
  <2> QED
    BY <1>1, <2>1, NatMin
<1>3. m \in 1..Len(s) /\ m - 1 \in 0..Len(s)
  BY <1>2, OffsetDef
<1>4. Offset(s)[m-1] = g[m-1]
  <2>1. m - 1 \notin Bad
    <3>1. ~(m <= m - 1)
      BY <1>3
    <3> HIDE DEF Bad
    <3> QED
      BY <1>2, <3>1
  <2> QED
    BY <2>1, <1>3
<1>5. Offset(s)[m] = g[m]
  BY <1>3, <1>4, OffsetDef
<1> QED
  BY <1>2, <1>5

\* An inserted timer is due after the delay given, and nobody else's due time
\* changes.
LEMMA InsertDues ==
  ASSUME NEW s \in Seq(Element), NEW t \in Timers, NEW d \in Ms,
         MaxMs \in Nat, ~Listed(s, t), NEW r, r = Insert(s, t, d)
  PROVE  /\ Len(r) \in Nat
         /\ \A k \in 1..Len(r) :
              \/ r[k].timer = t /\ Offset(r)[k] = d
              \/ \E j \in 1..Len(s) :
                   r[k].timer = s[j].timer /\ Offset(r)[k] = Offset(s)[j]
<1> DEFINE i == Place(s, d)
           x == d - Offset(s)[i-1]
           e == [timer |-> t, delta_ms |-> x]
<1>1. r = LinkAt(s, i, e)
  BY DEF Insert
<1>2. Len(s) \in Nat /\ d \in Nat /\ d <= MaxMs
  BY DEF Ms
<1>3. /\ i \in 1..Len(s)+1
      /\ Offset(s)[i - 1] <= d
      /\ i <= Len(s) => d < Offset(s)[i]
  BY <1>2, PlaceRange
<1> HIDE DEF i
<1>4. i - 1 \in 0..Len(s) /\ Offset(s)[i - 1] \in Nat
  <2>1. i - 1 \in 0..Len(s)
    BY <1>2, <1>3
  <2> QED
    BY <2>1, OffsetType
<1>5. /\ e \in Element /\ x \in Nat /\ Offset(s)[i-1] + x = d
      /\ e.timer = t /\ e.delta_ms = x
  <2>1. x \in Ms /\ x \in Nat /\ Offset(s)[i-1] + x = d
    BY <1>2, <1>3, <1>4 DEF Ms
  <2> QED
    BY <2>1 DEF Element
<1> HIDE DEF x
<1>6. \A k \in 1..Len(s) : /\ s[k] \in Element /\ s[k].delta_ms \in Nat
                           /\ Offset(s)[k] = Offset(s)[k-1] + s[k].delta_ms
                           /\ Offset(s)[k] \in Nat /\ Offset(s)[k-1] \in Nat
  BY OffsetStep
<1>7. i <= Len(s) => e.delta_ms <= s[i].delta_ms
  <2> SUFFICES ASSUME i <= Len(s) PROVE x <= s[i].delta_ms
    BY <1>5
  <2>1. i \in 1..Len(s)
    BY <1>2, <1>3
  <2> QED
    BY <1>2, <1>3, <1>4, <1>5, <1>6, <2>1
<1> HIDE DEF e
<1>8. /\ r \in Seq(Element) /\ Len(r) = Len(s) + 1
      /\ \A k \in 1..Len(s)+1 :
            r[k].timer = IF k < i THEN s[k].timer ELSE IF k = i THEN t ELSE s[k-1].timer
  <2>1. /\ LinkAt(s, i, e) \in Seq(Element) /\ Len(LinkAt(s, i, e)) = Len(s) + 1
        /\ \A k \in 1..Len(s)+1 :
             LinkAt(s, i, e)[k].timer = IF k < i THEN s[k].timer
                                        ELSE IF k = i THEN e.timer ELSE s[k-1].timer
    BY <1>3, <1>5, <1>7, LinkAtList
  <2> QED
    BY <1>1, <1>5, <2>1
<1>9. \A k \in 1..Len(s)+1 :
        r[k].delta_ms = IF k < i THEN s[k].delta_ms ELSE IF k = i THEN x
                        ELSE IF k = i+1 THEN s[i].delta_ms - x ELSE s[k-1].delta_ms
  <2> SUFFICES ASSUME NEW k \in 1..Len(s)+1
               PROVE  r[k].delta_ms = IF k < i THEN s[k].delta_ms ELSE IF k = i THEN x
                        ELSE IF k = i+1 THEN s[i].delta_ms - x ELSE s[k-1].delta_ms
    OBVIOUS
  <2>1. r[k] = IF k < i THEN s[k] ELSE IF k = i THEN e
               ELSE IF k = i+1 THEN [s[i] EXCEPT !.delta_ms = @ - x] ELSE s[k-1]
    BY <1>1, <1>5 DEF LinkAt
  <2>2. ASSUME k = i + 1 PROVE [s[i] EXCEPT !.delta_ms = @ - x].delta_ms = s[i].delta_ms - x
    <3>1. s[i] \in Element
      BY <1>2, <1>3, <1>6, <2>2
    <3> QED
      BY <3>1 DEF Element
  <2> QED
    BY <1>3, <1>5, <2>1, <2>2
<1> DEFINE g == [k \in 0..Len(s)+1 |-> IF k < i THEN Offset(s)[k]
                                       ELSE IF k = i THEN d ELSE Offset(s)[k-1]]
<1>10. g[0] = 0
  BY <1>2, <1>3, OffsetDef
<1>11. \A k \in 1..Len(r) : g[k] = g[k-1] + r[k].delta_ms
  <2> SUFFICES ASSUME NEW k \in 1..Len(s)+1 PROVE g[k] = g[k-1] + r[k].delta_ms
    BY <1>8
  <2>0. k \in 0..Len(s)+1 /\ k - 1 \in 0..Len(s)+1
    BY <1>2
  <2>1. CASE k < i
    <3>1. k \in 1..Len(s) /\ k - 1 < i
      BY <1>2, <1>3, <2>1
    <3> QED
      BY <1>6, <1>9, <2>0, <2>1, <3>1
  <2>2. CASE k = i
    <3>1. k - 1 < i /\ ~(k < i)
      BY <1>3, <2>2
    <3>2. g[k] = d /\ g[k-1] = Offset(s)[i-1]
      BY <2>0, <2>2, <3>1
    <3> QED
      BY <1>5, <1>9, <2>2, <3>1, <3>2
  <2>3. CASE k = i + 1
    <3>1. /\ i \in 1..Len(s) /\ ~(k < i) /\ k # i /\ k - 1 = i
      BY <1>2, <1>3, <2>3
    <3>2. g[k] = Offset(s)[i] /\ g[k-1] = d /\ r[k].delta_ms = s[i].delta_ms - x
      BY <1>9, <2>0, <2>3, <3>1
    <3>3. /\ Offset(s)[i] = Offset(s)[i-1] + s[i].delta_ms /\ s[i].delta_ms \in Nat
          /\ Offset(s)[i-1] \in Nat
      BY <1>6, <3>1
    <3> HIDE DEF g
    <3> QED
      BY <1>5, <3>2, <3>3
  <2>4. CASE k > i + 1
    <3>1. /\ k - 1 \in 1..Len(s) /\ ~(k < i) /\ k # i /\ k # i + 1
          /\ ~(k - 1 < i) /\ k - 1 # i
      BY <1>2, <1>3, <2>4
    <3>2. g[k] = Offset(s)[k-1] /\ g[k-1] = Offset(s)[k-1-1] /\ r[k].delta_ms = s[k-1].delta_ms
      BY <1>9, <2>0, <3>1
    <3> HIDE DEF g
    <3> QED
      BY <1>6, <3>1, <3>2
  <2> QED
    BY <1>2, <1>3, <2>1, <2>2, <2>3, <2>4
<1> HIDE DEF g
<1>12. \A k \in 0..Len(r) : Offset(r)[k] = g[k]
  BY <1>8, <1>10, <1>11, OffsetIs
<1>13. ASSUME NEW k \in 1..Len(r)
       PROVE  \/ r[k].timer = t /\ Offset(r)[k] = d
              \/ \E j \in 1..Len(s) : r[k].timer = s[j].timer /\ Offset(r)[k] = Offset(s)[j]
  <2>1. k \in 1..Len(s)+1 /\ k \in 0..Len(s)+1 /\ Offset(r)[k] = g[k]
    BY <1>2, <1>8, <1>12
  <2>2. CASE k < i
    <3>1. k \in 1..Len(s)
      BY <1>2, <1>3, <2>1, <2>2
    <3>2. r[k].timer = s[k].timer /\ Offset(r)[k] = Offset(s)[k]
      BY <1>8, <2>1, <2>2 DEF g
    <3> QED
      BY <3>1, <3>2
  <2>3. CASE k = i
    <3>1. ~(k < i)
      BY <1>3, <2>3
    <3> QED
      BY <1>8, <2>1, <2>3, <3>1 DEF g
  <2>4. CASE k > i
    <3>1. k - 1 \in 1..Len(s) /\ ~(k < i) /\ k # i
      BY <1>2, <1>3, <2>1, <2>4
    <3>2. r[k].timer = s[k-1].timer /\ Offset(r)[k] = Offset(s)[k-1]
      BY <1>8, <2>1, <3>1 DEF g
    <3> QED
      BY <3>1, <3>2
  <2> QED
    BY <1>2, <1>3, <2>1, <2>2, <2>3, <2>4
<1> QED
  BY <1>2, <1>8, <1>13

\* What stays behind when an element is taken out keeps its due time: no
\* delta the successor takes over leaves UINT32.
LEMMA UnlinkDues ==
  ASSUME NEW s \in Seq(Element), NEW i \in 1..Len(s), MaxMs \in Nat, Unique(s),
         \A k \in 1..Len(s) : Offset(s)[k] <= MaxMs, NEW r, r = UnlinkAt(s, i)
  PROVE  /\ Len(r) \in Nat
         /\ \A k \in 1..Len(r) :
              /\ r[k].timer # s[i].timer
              /\ \E j \in 1..Len(s) :
                   r[k].timer = s[j].timer /\ Offset(r)[k] = Offset(s)[j]
<1>1. Len(s) \in Nat /\ Len(s) - 1 \in Nat
  OBVIOUS
<1>2. /\ r \in Seq(Element) /\ Len(r) = Len(s) - 1
      /\ \A k \in 1..Len(s)-1 : r[k].timer = IF k < i THEN s[k].timer ELSE s[k+1].timer
  <2>1. /\ UnlinkAt(s, i) \in Seq(Element) /\ Len(UnlinkAt(s, i)) = Len(s) - 1
        /\ \A k \in 1..Len(s)-1 :
             UnlinkAt(s, i)[k].timer = IF k < i THEN s[k].timer ELSE s[k+1].timer
    BY UnlinkAtList
  <2> QED
    BY <2>1
<1>3. \A k \in 1..Len(s) : /\ s[k] \in Element /\ s[k].delta_ms \in Nat
                           /\ Offset(s)[k] = Offset(s)[k-1] + s[k].delta_ms
                           /\ Offset(s)[k] \in Nat /\ Offset(s)[k-1] \in Nat
  BY OffsetStep
<1>4. \A k \in 1..Len(s)-1 :
        r[k].delta_ms = IF k < i THEN s[k].delta_ms
                        ELSE IF k = i THEN s[i+1].delta_ms + s[i].delta_ms
                        ELSE s[k+1].delta_ms
  <2> SUFFICES ASSUME NEW k \in 1..Len(s)-1
               PROVE  r[k].delta_ms = IF k < i THEN s[k].delta_ms
                        ELSE IF k = i THEN s[i+1].delta_ms + s[i].delta_ms
                        ELSE s[k+1].delta_ms
    OBVIOUS
  <2>1. r[k] = IF k < i THEN s[k]
               ELSE IF k = i THEN [s[i+1] EXCEPT !.delta_ms = Wrap(@ + s[i].delta_ms)]
               ELSE s[k+1]
    BY DEF UnlinkAt
  <2>2. ASSUME k = i PROVE r[k].delta_ms = s[i+1].delta_ms + s[i].delta_ms
    <3>1. i \in 1..Len(s) /\ i + 1 \in 1..Len(s) /\ i + 1 - 1 = i /\ ~(k < i)
      BY <1>1, <2>2
    <3>2. s[i+1] \in Element /\ r[k] = [s[i+1] EXCEPT !.delta_ms = Wrap(@ + s[i].delta_ms)]
      BY <1>3, <2>1, <2>2, <3>1
    <3>3. r[k].delta_ms = Wrap(s[i+1].delta_ms + s[i].delta_ms)
      BY <3>2 DEF Element
    <3>4. \A a, b, x, y, z \in Nat :
            y = x + a /\ z = y + b /\ z <= MaxMs => b + a \in Nat /\ b + a <= MaxMs
      OBVIOUS
    <3>5. \A a \in Nat : a <= MaxMs => Wrap(a) = a
      BY DEF Wrap
    <3>6. Offset(s)[i+1] = Offset(s)[i] + s[i+1].delta_ms
      <4>1. Offset(s)[i+1] = Offset(s)[i+1-1] + s[i+1].delta_ms
        BY <1>3, <3>1
      <4> QED
        BY <3>1, <4>1
    <3>7. s[i+1].delta_ms + s[i].delta_ms \in Nat /\ s[i+1].delta_ms + s[i].delta_ms <= MaxMs
      <4>1. /\ Offset(s)[i-1] \in Nat /\ Offset(s)[i] \in Nat /\ Offset(s)[i+1] \in Nat
            /\ s[i].delta_ms \in Nat /\ s[i+1].delta_ms \in Nat
            /\ Offset(s)[i] = Offset(s)[i-1] + s[i].delta_ms
        BY <1>3, <3>1
      <4>2. Offset(s)[i+1] <= MaxMs
        BY <3>1
      <4> QED
        BY <3>4, <3>6, <4>1, <4>2
    <3> QED
      BY <3>3, <3>5, <3>7
  <2> QED
    BY <2>1, <2>2
<1> DEFINE g == [k \in 0..Len(s)-1 |-> IF k < i THEN Offset(s)[k] ELSE Offset(s)[k+1]]
<1>5. g[0] = 0
  BY <1>1, OffsetDef
<1>6. \A k \in 1..Len(r) : g[k] = g[k-1] + r[k].delta_ms
  <2> SUFFICES ASSUME NEW k \in 1..Len(s)-1 PROVE g[k] = g[k-1] + r[k].delta_ms
    BY <1>2
  <2>0. k \in 0..Len(s)-1 /\ k - 1 \in 0..Len(s)-1
    BY <1>1
  <2>1. CASE k < i
    <3>1. k \in 1..Len(s) /\ k - 1 < i
      BY <1>1, <2>1
    <3> QED
      BY <1>3, <1>4, <2>0, <2>1, <3>1
  <2>2. CASE k = i
    <3>1. k - 1 < i /\ ~(k < i) /\ i + 1 \in 1..Len(s) /\ i + 1 - 1 = i
      BY <1>1, <2>2
    <3>2. /\ g[k] = Offset(s)[i+1] /\ g[k-1] = Offset(s)[i-1]
          /\ r[k].delta_ms = s[i+1].delta_ms + s[i].delta_ms
      BY <1>4, <2>0, <2>2, <3>1
    <3>3. Offset(s)[i+1] = Offset(s)[i] + s[i+1].delta_ms
      <4>1. Offset(s)[i+1] = Offset(s)[i+1-1] + s[i+1].delta_ms
        BY <1>3, <3>1
      <4> QED
        BY <3>1, <4>1
    <3>4. /\ Offset(s)[i] = Offset(s)[i-1] + s[i].delta_ms
          /\ Offset(s)[i-1] \in Nat /\ s[i].delta_ms \in Nat
      BY <1>3
    <3>5. s[i+1].delta_ms \in Nat
      BY <1>3, <3>1
    <3> HIDE DEF g
    <3> QED
      BY SMTT(40), <3>1, <3>2, <3>3, <3>4, <3>5
  <2>3. CASE k > i
    <3>1. k + 1 \in 1..Len(s) /\ ~(k < i) /\ k # i /\ ~(k - 1 < i) /\ k - 1 + 1 = k /\ k + 1 - 1 = k
      BY <1>1, <2>3
    <3>2. g[k] = Offset(s)[k+1] /\ g[k-1] = Offset(s)[k] /\ r[k].delta_ms = s[k+1].delta_ms
      BY <1>4, <2>0, <3>1
    <3>3. Offset(s)[k+1] = Offset(s)[k+1-1] + s[k+1].delta_ms
      BY SMTT(40), <1>3, <3>1
    <3> HIDE DEF g
    <3> QED
      BY <3>1, <3>2, <3>3
  <2> QED
    BY <1>1, <2>1, <2>2, <2>3
<1> HIDE DEF g
<1>7. \A k \in 0..Len(r) : Offset(r)[k] = g[k]
  BY <1>2, <1>5, <1>6, OffsetIs
<1>8. ASSUME NEW k \in 1..Len(r)
      PROVE  /\ r[k].timer # s[i].timer
             /\ \E j \in 1..Len(s) : r[k].timer = s[j].timer /\ Offset(r)[k] = Offset(s)[j]
  <2>1. k \in 1..Len(s)-1 /\ k \in 0..Len(s)-1 /\ Offset(r)[k] = g[k]
    BY <1>1, <1>2, <1>7
  <2>2. CASE k < i
    <3>1. k \in 1..Len(s) /\ k # i
      BY <1>1, <2>1, <2>2
    <3>2. r[k].timer = s[k].timer /\ Offset(r)[k] = Offset(s)[k]
      BY <1>2, <2>1, <2>2 DEF g
    <3> QED
      BY <3>1, <3>2 DEF Unique
  <2>3. CASE ~(k < i)
    <3>1. k + 1 \in 1..Len(s) /\ k + 1 # i
      BY <1>1, <2>1, <2>3
    <3>2. r[k].timer = s[k+1].timer /\ Offset(r)[k] = Offset(s)[k+1]
      BY <1>2, <2>1, <2>3 DEF g
    <3> QED
      BY <3>1, <3>2 DEF Unique
  <2> QED
    BY <2>2, <2>3
<1> QED
  BY <1>1, <1>2, <1>8

\* The same for remove, which looks the timer up first.
LEMMA RemoveDues ==
  ASSUME NEW s \in Seq(Element), NEW t, MaxMs \in Nat, Unique(s),
         \A k \in 1..Len(s) : Offset(s)[k] <= MaxMs, NEW r, r = Remove(s, t)
  PROVE  /\ Len(r) \in Nat
         /\ \A k \in 1..Len(r) :
              /\ r[k].timer # t
              /\ \E j \in 1..Len(s) :
                   r[k].timer = s[j].timer /\ Offset(r)[k] = Offset(s)[j]
<1>1. CASE Listed(s, t)
  <2>1. PICK i \in 1..Len(s) : s[i].timer = t /\ r = UnlinkAt(s, i)
    <3> DEFINE i == CHOOSE i \in 1..Len(s) : s[i].timer = t
    <3>1. i \in 1..Len(s) /\ s[i].timer = t
      BY <1>1 DEF Listed
    <3>2. r = UnlinkAt(s, i)
      BY <1>1 DEF Remove
    <3> HIDE DEF i
    <3> QED
      BY <3>1, <3>2
  <2>3. /\ Len(r) \in Nat
        /\ \A k \in 1..Len(r) :
             /\ r[k].timer # s[i].timer
             /\ \E j \in 1..Len(s) : r[k].timer = s[j].timer /\ Offset(r)[k] = Offset(s)[j]
    BY <2>1, UnlinkDues, Z3
  <2> QED
    BY <2>1, <2>3
<1>2. CASE ~Listed(s, t)
  <2>1. r = s /\ Len(r) \in Nat
    BY <1>2 DEF Remove
  <2> QED
    BY <1>2, <2>1 DEF Listed
<1> QED
  BY <1>1, <1>2

\* The list rebased on a clock that is n milliseconds later.
Rebased(s, n) == [s EXCEPT ![1].delta_ms = @ - n]

\* Rebasing the list on a later clock brings every due time as much nearer.
LEMMA RebaseDues ==
  ASSUME NEW s \in Seq(Element), NEW n \in Nat, MaxMs \in Nat, s # <<>>,
         n <= s[1].delta_ms, NEW r, r = Rebased(s, n)
  PROVE  /\ Len(r) \in Nat /\ Len(r) = Len(s)
         /\ \A k \in 1..Len(r) :
              r[k].timer = s[k].timer /\ Offset(r)[k] = Offset(s)[k] - n
<1>1. Len(s) \in Nat /\ 1 \in 1..Len(s) /\ s[1] \in Element
  OBVIOUS
<1>2. s[1].delta_ms \in Nat /\ s[1].delta_ms - n \in Ms
  BY <1>1 DEF Element, Ms
<1> DEFINE e == [s[1] EXCEPT !.delta_ms = @ - n]
<1>3. e \in Element /\ e.timer = s[1].timer /\ e.delta_ms = s[1].delta_ms - n
  BY <1>1, <1>2 DEF Element
<1>4. r = [s EXCEPT ![1] = e]
  BY DEF Rebased
<1> HIDE DEF e
<1>5. /\ r \in Seq(Element) /\ Len(r) = Len(s)
      /\ \A k \in 1..Len(s) : r[k] = IF k = 1 THEN e ELSE s[k]
  BY <1>1, <1>3, <1>4, ExceptSeq
<1>6. \A k \in 1..Len(s) : /\ s[k].delta_ms \in Nat
                           /\ Offset(s)[k] = Offset(s)[k-1] + s[k].delta_ms
                           /\ Offset(s)[k] \in Nat /\ Offset(s)[k-1] \in Nat
  BY OffsetStep
<1> DEFINE g == [k \in 0..Len(s) |-> IF k = 0 THEN 0 ELSE Offset(s)[k] - n]
<1>7. g[0] = 0
  BY <1>1
<1>8. \A k \in 1..Len(r) : g[k] = g[k-1] + r[k].delta_ms
  <2> SUFFICES ASSUME NEW k \in 1..Len(s) PROVE g[k] = g[k-1] + r[k].delta_ms
    BY <1>5
  <2>1. k \in 0..Len(s) /\ k - 1 \in 0..Len(s)
    BY <1>1
  <2>2. CASE k = 1
    <3>1. g[k] = Offset(s)[1] - n /\ g[k-1] = 0 /\ r[k].delta_ms = s[1].delta_ms - n
      BY <1>1, <1>3, <1>5, <2>1, <2>2
    <3>2. Offset(s)[1] = Offset(s)[1-1] + s[1].delta_ms /\ Offset(s)[0] = 0 /\ 1 - 1 = 0
      BY <1>1, OffsetDef
    <3> HIDE DEF g
    <3> QED
      BY <1>2, <3>1, <3>2
  <2>3. CASE k # 1
    <3>1. k - 1 # 0
      BY <2>3
    <3>2. g[k] = Offset(s)[k] - n /\ g[k-1] = Offset(s)[k-1] - n /\ r[k].delta_ms = s[k].delta_ms
      BY <1>5, <2>1, <2>3, <3>1
    <3> HIDE DEF g
    <3> QED
      BY <1>6, <3>2
  <2> QED
    BY <2>2, <2>3
<1> HIDE DEF g
<1>9. \A k \in 0..Len(r) : Offset(r)[k] = g[k]
  <2>1. r \in Seq(Element)
    BY <1>5
  <2> QED
    BY <1>7, <1>8, <2>1, OffsetIs
<1>10. ASSUME NEW k \in 1..Len(s)
       PROVE  r[k].timer = s[k].timer /\ Offset(r)[k] = Offset(s)[k] - n
  <2>1. k \in 0..Len(s) /\ k # 0
    BY <1>1
  <2> QED
    BY <1>3, <1>5, <1>9, <2>1 DEF g
<1> QED
  BY <1>1, <1>5, <1>10
-----------------------------------------------------------------------------
(* The steps of the threads.                                               *)

\* The steps, as one flat disjunction.
LEMMA NextCases ==
  ASSUME Next
  PROVE  \/ Tick
         \/ \E p \in Threads : InsertRead(p) \/ InsertLink(p) \/ Mark(p) \/ Unlink(p) \/ Free(p)
         \/ \E p \in Threads, t \in Timers, d \in Delays, per \in BOOLEAN : Start(p, t, d, per)
         \/ \E p \in Threads, t \in Timers :
              Stop(p, t, "stop") \/ (p # Thread /\ Stop(p, t, "destroy"))
         \/ \E p \in Clients, t \in Timers : Construct(p, t)
         \/ Wake \/ EnterRound \/ Pop \/ Rebase \/ StandDown
         \/ PlainCallback \/ AfterOp \/ ThrowOp
BY TimerAssumption DEF Next, ClientStep, ThreadStep, CallbackCall, InCall, Threads

\* The elapsed time of insert and thread_run is a natural, whichever of the
\* two clock values is the larger.
LEMMA ElapsedType ==
  ASSUME NEW last \in Ms, NEW t \in Ms
  PROVE  Elapsed(last, t) \in Nat
BY TimerAssumption DEF Elapsed, Ms

\* Assigning a field of a call or of a timer keeps its type.
LEMMA JobField ==
  ASSUME NEW j \in Job, NEW x \in Ms
  PROVE  /\ [j EXCEPT !.stamp = x] \in Job /\ [j EXCEPT !.togo = x] \in Job
         /\ [j EXCEPT !.stamp = x].timer = j.timer /\ [j EXCEPT !.stamp = x].op = j.op
         /\ [j EXCEPT !.togo = x].timer = j.timer /\ [j EXCEPT !.togo = x].op = j.op
BY DEF Job

LEMMA ImplField ==
  ASSUME NEW m \in [Timers -> Impl], NEW t \in Timers, NEW b \in BOOLEAN, NEW x \in Ms,
         NEW l \in {"absent", "ready"}
  PROVE  /\ [m EXCEPT ![t].is_started = b] \in [Timers -> Impl]
         /\ [m EXCEPT ![t].life = l] \in [Timers -> Impl]
         /\ [m EXCEPT ![t].after_ms = x, ![t].is_periodical = b] \in [Timers -> Impl]
<1>1. m[t] \in Impl
  OBVIOUS
<1>2. [m[t] EXCEPT !.is_started = b] \in Impl /\ [m[t] EXCEPT !.life = l] \in Impl
  BY <1>1 DEF Impl
<1>3. [[m[t] EXCEPT !.after_ms = x] EXCEPT !.is_periodical = b] \in Impl
  BY <1>1 DEF Impl
<1>4. [m EXCEPT ![t].is_started = b] = [m EXCEPT ![t] = [m[t] EXCEPT !.is_started = b]]
  OBVIOUS
<1>5. [m EXCEPT ![t].life = l] = [m EXCEPT ![t] = [m[t] EXCEPT !.life = l]]
  OBVIOUS
<1>6. [m EXCEPT ![t].after_ms = x, ![t].is_periodical = b]
        = [m EXCEPT ![t] = [[m[t] EXCEPT !.after_ms = x] EXCEPT !.is_periodical = b]]
  OBVIOUS
<1> QED
  BY <1>2, <1>3, <1>4, <1>5, <1>6

\* The variables are typed initially.
LEMMA TypeInit == Init => TypeInv
<1> SUFFICES ASSUME Init PROVE TypeInv
  OBVIOUS
<1> USE TimerAssumption
<1>1. 0 \in Ms
  BY DEF Ms
<1>2. db = <<>> /\ db \in Seq(Element) /\ Len(db) = 0
  BY DEF Init
<1>3. Idle \in Job
  BY <1>1 DEF Idle, Job
<1>4. TypeOK
  <2>1. tm \in [Timers -> Impl]
    BY <1>1 DEF Init, Impl
  <2> QED
    BY <1>1, <1>2, <1>3, <2>1 DEF Init, TypeOK, Threads, Locations, Ms
<1>5. Unique(db) /\ CallsTyped
  BY <1>2 DEF Init, Unique, CallsTyped, CallSites, Threads
<1> QED
  BY <1>4, <1>5 DEF TypeInv
-----------------------------------------------------------------------------
\* Every step keeps the types, one timer per element, and the timers of the
\* calls under way.
LEMMA TypeStep == TypeInv /\ [Next]_vars => TypeInv'
<1> SUFFICES ASSUME TypeInv, [Next]_vars PROVE TypeInv'
  OBVIOUS
<1> USE TimerAssumption DEF TypeInv
<1>t. 0 \in Ms /\ \A x \in Ms : x \in Nat /\ Less(x) \in Ms
  BY DEF Ms, Less
<1>i. Idle \in Job /\ Idle.timer = None
  BY <1>t DEF Idle, Job
<1>e. \A i \in 1..Len(db) : db[i].timer \in Timers /\ db[i].delta_ms \in Ms
  <2> SUFFICES ASSUME NEW i \in 1..Len(db) PROVE db[i] \in Element
    BY DEF Element
  <2> QED
    BY DEF TypeOK
<1>1. CASE Tick
  <2>1. now' \in Ms
    <3>1. now + 1 \in Nat
      BY DEF TypeOK, Ms
    <3> QED
      BY <1>1, <3>1, WrapRange DEF Tick
  <2>2. wait' \in Ms \cup 0..StandBy
    BY <1>1 DEF Tick, TypeOK, Less, Ms
  <2>3. left' \in [Timers -> Ms]
    BY <1>1, <1>t DEF Tick, TypeOK
  <2>4. job' \in [Threads -> Job] /\ \A p \in Threads : job'[p].timer = job[p].timer /\ job'[p].op = job[p].op
    <3>1. ASSUME NEW p \in Threads
          PROVE  /\ [job[p] EXCEPT !.togo = Less(@)] \in Job
                 /\ [job[p] EXCEPT !.togo = Less(@)].timer = job[p].timer
                 /\ [job[p] EXCEPT !.togo = Less(@)].op = job[p].op
      <4>1. job[p] \in Job /\ Less(job[p].togo) \in Ms
        BY <1>t DEF TypeOK, Job
      <4> QED
        BY <4>1, JobField
    <3> QED
      BY <1>1, <3>1 DEF Tick
  <2>5. TypeOK'
    BY <1>1, <2>1, <2>2, <2>3, <2>4 DEF Tick, TypeOK
  <2>6. Unique(db)' /\ CallsTyped'
    BY <1>1, <2>4 DEF Tick, CallsTyped, Unique, Threads
  <2> QED
    BY <2>5, <2>6
<1>2. ASSUME NEW p \in Threads, InsertRead(p) PROVE TypeInv'
  <2>1. job[p].timer \in Timers
    BY <1>2 DEF InsertRead, CallsTyped, CallSites
  <2> DEFINE j == [[job[p] EXCEPT !.stamp = now] EXCEPT !.togo = tm[job[p].timer].after_ms]
  <2>4. job' = [job EXCEPT ![p] = j] /\ j \in Job
    <3>1. tm[job[p].timer] \in Impl /\ job[p] \in Job /\ now \in Ms
      BY <2>1 DEF TypeOK
    <3>2. tm[job[p].timer].after_ms \in Ms
      BY <3>1 DEF Impl
    <3>3. j \in Job
      BY <3>1, <3>2, JobField
    <3> QED
      BY ZenonT(60), <1>2, <3>1, <3>3 DEF InsertRead, Job
  <2> HIDE DEF j
  <2>5. job' \in [Threads -> Job] /\ pc' \in [Threads -> Locations]
    <3>1. job \in [Threads -> Job] /\ pc \in [Threads -> Locations] /\ "link" \in Locations
      BY DEF TypeOK, Locations
    <3>2. pc' = [pc EXCEPT ![p] = "link"]
      BY <1>2 DEF InsertRead, Goto
    <3> QED
      BY <2>4, <3>1, <3>2
  <2>2. TypeOK'
    BY <1>2, <2>5 DEF InsertRead, TypeOK
  <2>3. Unique(db)' /\ CallsTyped'
    BY <1>2, <2>1 DEF InsertRead, Goto, TypeOK, Job, CallsTyped, CallSites, Unique, Threads
  <2> QED
    BY <2>2, <2>3
<1>3. ASSUME NEW p \in Threads, InsertLink(p) PROVE TypeInv'
  <2> DEFINE t == job[p].timer
             d == Wrap(Elapsed(time_last, job[p].stamp) + tm[t].after_ms)
  <2>1. t \in Timers
    BY <1>3 DEF InsertLink, CallsTyped, CallSites
  <2>2. d \in Ms
    <3>1. Elapsed(time_last, job[p].stamp) \in Nat
      BY ElapsedType DEF TypeOK, Job
    <3>2. tm[t].after_ms \in Nat
      BY <1>t, <2>1 DEF TypeOK, Impl
    <3>3. Elapsed(time_last, job[p].stamp) + tm[t].after_ms \in Nat
      BY <3>1, <3>2
    <3> QED
      BY <3>3, WrapRange
  <2>3. db' = Insert(db, t, d)
    BY <1>3 DEF InsertLink
  <2> HIDE DEF d
  <2>4. db' \in Seq(Element) /\ Unique(db)'
    <3>1. db \in Seq(Element) /\ MaxMs \in Nat /\ Unique(db)
      BY DEF TypeOK
    <3>2. Insert(db, t, d) \in Seq(Element) /\ Unique(Insert(db, t, d))
      BY <2>1, <2>2, <3>1, InsertList
    <3> QED
      BY <2>3, <3>2 DEF Unique
  <2>5. left' \in [Timers -> Ms] /\ m_sync' \in {0, 1}
    BY <1>3, <2>1 DEF InsertLink, TypeOK, Job
  <2>9. job' \in [Threads -> Job]
    <3>1. [[job[p] EXCEPT !.togo = 0] EXCEPT !.stamp = 0] \in Job
      <4>1. job[p] \in Job
        BY DEF TypeOK
      <4> QED
        BY <1>t, <4>1, JobField
    <3>2. job' = [job EXCEPT ![p] = IF job[p].op = "again" THEN Idle
                                    ELSE [[job[p] EXCEPT !.togo = 0] EXCEPT !.stamp = 0]]
      BY <1>3 DEF InsertLink
    <3> QED
      BY <1>i, <3>1, <3>2 DEF TypeOK
  <2>6. pc' \in [Threads -> Locations] /\ guard' \in SUBSET Threads
    BY <1>3 DEF InsertLink, TypeOK, Goto, Give, Locations
  <2>7. TypeOK'
    BY <1>3, <2>4, <2>5, <2>6, <2>9 DEF InsertLink, TypeOK
  <2>8. CallsTyped'
    BY <1>3, <2>1 DEF InsertLink, TypeOK, Job, Goto, CallsTyped, CallSites, Threads
  <2> QED
    BY <2>4, <2>7, <2>8
<1>4. ASSUME NEW p \in Threads, Mark(p) PROVE TypeInv'
  <2>1. job[p].timer \in Timers /\ (p = Thread => pc[p] \in CallSites)
    BY <1>4 DEF Mark, CallsTyped, CallSites
  <2>4. tm' \in [Timers -> Impl]
    BY <1>4, <2>1, ImplField DEF Mark, TypeOK
  <2>5. guard' \in SUBSET Threads /\ pc' \in [Threads -> Locations]
    BY <1>4 DEF Mark, Return, Goto, Give, TypeOK, Locations
  <2>2. TypeOK'
    BY <1>4, <1>i, <2>4, <2>5 DEF Mark, TypeOK
  <2>3. Unique(db)' /\ CallsTyped'
    <3>1. pc' = [pc EXCEPT ![p] = IF p = Thread THEN "ret" ELSE "idle"]
      BY <1>4 DEF Mark, Return, Goto
    <3>2. job' = [job EXCEPT ![p] = Idle] /\ UNCHANGED <<db, cur>>
      BY <1>4 DEF Mark
    <3>3. pc[p] = "mark"
      BY <1>4 DEF Mark
    <3> QED
      BY <3>1, <3>2, <3>3 DEF TypeOK, CallsTyped, CallSites, Unique, Threads
  <2> QED
    BY <2>2, <2>3
<1>5. ASSUME NEW p \in Threads, Unlink(p) PROVE TypeInv'
  <2>1. job[p].timer \in Timers
    BY <1>5 DEF Unlink, CallsTyped, CallSites
  <2>2. db' \in Seq(Element) /\ Unique(db)'
    <3>1. db \in Seq(Element) /\ MaxMs \in Nat /\ Unique(db)
      BY DEF TypeOK
    <3>2. Remove(db, job[p].timer) \in Seq(Element) /\ Unique(Remove(db, job[p].timer))
      BY <3>1, RemoveList
    <3> QED
      BY <1>5, <3>2 DEF Unlink, Unique
  <2>3. TypeOK'
    BY <1>5, <1>t, <2>1, <2>2 DEF Unlink, Goto, TypeOK, Locations
  <2>4. CallsTyped'
    BY <1>5, <2>1 DEF Unlink, Goto, TypeOK, CallsTyped, CallSites, Threads
  <2> QED
    BY <2>2, <2>3, <2>4
<1>6. ASSUME NEW p \in Threads, Free(p) PROVE TypeInv'
  <2>1. job[p].timer \in Timers
    BY <1>6 DEF Free, CallsTyped, CallSites
  <2>4. tm' \in [Timers -> Impl]
    BY <1>6, <2>1, ImplField DEF Free, TypeOK
  <2>5. guard' \in SUBSET Threads /\ pc' \in [Threads -> Locations]
    BY <1>6 DEF Free, Return, Goto, Give, TypeOK, Locations
  <2>2. TypeOK'
    BY <1>6, <1>i, <2>4, <2>5 DEF Free, TypeOK
  <2>3. Unique(db)' /\ CallsTyped'
    <3>1. pc' = [pc EXCEPT ![p] = IF p = Thread THEN "ret" ELSE "idle"]
      BY <1>6 DEF Free, Return, Goto
    <3>2. job' = [job EXCEPT ![p] = Idle] /\ UNCHANGED <<db, cur>>
      BY <1>6 DEF Free
    <3>3. pc[p] = "free"
      BY <1>6 DEF Free
    <3> QED
      BY <3>1, <3>2, <3>3 DEF TypeOK, CallsTyped, CallSites, Unique, Threads
  <2> QED
    BY <2>2, <2>3
<1>7. ASSUME NEW p \in Threads, NEW t \in Timers, NEW d \in Delays, NEW per \in BOOLEAN,
             Start(p, t, d, per)
      PROVE  TypeInv'
  <2>1. d \in Ms /\ guard' \in SUBSET Threads
    BY <1>7 DEF Start, MayCall, Take, TypeOK, Ms
  <2>2. [Idle EXCEPT !.op = "start", !.timer = t] \in Job
    BY <1>i DEF Idle, Job
  <2>5. tm' \in [Timers -> Impl]
    BY <1>7, <2>1, ImplField DEF Start, TypeOK
  <2>3. TypeOK'
    BY <1>7, <2>1, <2>2, <2>5 DEF Start, Goto, TypeOK, Locations
  <2>4. Unique(db)' /\ CallsTyped'
    BY <1>7 DEF Start, MayCall, Goto, TypeOK, Idle, CallsTyped, CallSites, Unique, Threads
  <2> QED
    BY <2>3, <2>4
<1>8. ASSUME NEW p \in Threads, NEW t \in Timers, NEW op \in {"stop", "destroy"}, Stop(p, t, op)
      PROVE  TypeInv'
  <2>1. guard' \in SUBSET Threads
    BY <1>8 DEF Stop, MayCall, Take, TypeOK
  <2>2. [Idle EXCEPT !.op = op, !.timer = t] \in Job
    BY <1>i DEF Idle, Job
  <2>5. tm' \in [Timers -> Impl]
    BY <1>8, ImplField DEF Stop, TypeOK
  <2>3. TypeOK'
    BY <1>8, <2>1, <2>2, <2>5 DEF Stop, Goto, TypeOK, Locations
  <2>4. Unique(db)' /\ CallsTyped'
    BY <1>8 DEF Stop, MayCall, Goto, TypeOK, Idle, CallsTyped, CallSites, Unique, Threads
  <2> QED
    BY <2>3, <2>4
<1>9. ASSUME NEW p \in Clients, NEW t \in Timers, Construct(p, t) PROVE TypeInv'
  <2>1. tm' \in [Timers -> Impl]
    BY <1>9, ImplField DEF Construct, TypeOK
  <2> QED
    BY <1>9, <2>1 DEF Construct, TypeOK, CallsTyped, Unique
<1>10. CASE Wake
  BY <1>10, <1>t DEF Wake, Goto, TypeOK, CallsTyped, CallSites, Unique, Threads, Locations
<1>11. CASE EnterRound
  <2>1. guard' \in SUBSET Threads
    BY <1>11 DEF EnterRound, Take, TypeOK, Threads
  <2>4. job' \in [Threads -> Job]
    BY <1>11, JobField DEF EnterRound, TypeOK, Threads
  <2>2. TypeOK'
    BY <1>11, <2>1, <2>4 DEF EnterRound, Goto, TypeOK, Locations
  <2>3. Unique(db)' /\ CallsTyped'
    BY <1>11 DEF EnterRound, Goto, TypeOK, Job, CallsTyped, CallSites, Unique, Threads
  <2> QED
    BY <2>2, <2>3
<1>12. CASE Pop
  <2> DEFINE t == db[1].timer
  <2>1. 1 \in 1..Len(db) /\ t \in Timers
    BY <1>12, <1>e DEF Pop, TypeOK
  <2>2. db' \in Seq(Element) /\ Unique(db)'
    <3>1. db \in Seq(Element) /\ MaxMs \in Nat /\ Unique(db)
      BY DEF TypeOK
    <3>2. UnlinkAt(db, 1) \in Seq(Element) /\ Unique(UnlinkAt(db, 1))
      BY <2>1, <3>1, UnlinkAtTimers
    <3> QED
      BY <1>12, <3>2 DEF Pop, Unique
  <2>3. tm' \in [Timers -> Impl]
    <3>1. tm[t] \in Impl /\ StaysStarted(t) \in BOOLEAN
      BY <2>1 DEF StaysStarted, TypeOK, Impl
    <3>2. [tm[t] EXCEPT !.is_started = StaysStarted(t)] \in Impl
      BY <3>1 DEF Impl
    <3>3. [tm EXCEPT ![t].is_started = StaysStarted(t)] \in [Timers -> Impl]
      BY <2>1, <3>2 DEF TypeOK
    <3> QED
      BY <1>12, <3>3 DEF Pop, TypeOK
  <2>4. /\ cur' \in Timers \cup {None} /\ left' \in [Timers -> Ms]
        /\ job' \in [Threads -> Job] /\ pc' \in [Threads -> Locations]
        /\ guard' \in SUBSET Threads
    BY <1>12, <1>t, <1>i, <2>1 DEF Pop, Goto, Give, TypeOK, Locations, Threads
  <2>5. TypeOK'
    BY <1>12, <2>2, <2>3, <2>4 DEF Pop, TypeOK
  <2>6. CallsTyped'
    BY <1>12, <2>1 DEF Pop, Goto, TypeOK, CallsTyped, CallSites, Threads
  <2> QED
    BY <2>2, <2>5, <2>6
<1>13. CASE Rebase
  <2>1. 1 \in 1..Len(db) /\ db[1] \in Element /\ Thread \in Threads
    BY <1>13 DEF Rebase, TypeOK, Threads
  <2>2. SinceLast \in Nat
    BY <2>1, ElapsedType DEF SinceLast, TypeOK, Job
  <2>3. db[1].delta_ms - SinceLast \in Ms
    BY <1>13, <2>1, <2>2 DEF Rebase, Due, Element, Ms
  <2> HIDE DEF SinceLast
  <2>4. db' \in Seq(Element)
    <3>1. [db[1] EXCEPT !.delta_ms = @ - SinceLast] \in Element
      BY <2>1, <2>3 DEF Element
    <3>2. db' = [db EXCEPT ![1] = [db[1] EXCEPT !.delta_ms = @ - SinceLast]]
      BY <1>13 DEF Rebase
    <3> QED
      BY <2>1, <3>1, <3>2, ExceptSeq DEF TypeOK
  <2>5. Unique(db)'
    <3>1. Len(db') = Len(db) /\ \A i \in 1..Len(db) : db'[i].timer = db[i].timer
      BY <1>13, <2>1 DEF Rebase, TypeOK, Element
    <3> QED
      BY <3>1 DEF Unique
  <2>6. TypeOK'
    BY <1>13, <1>i, <2>1, <2>3, <2>4 DEF Rebase, Sleep, Goto, Give, TypeOK, Job, Locations
  <2>7. CallsTyped'
    BY <1>13, <2>1 DEF Rebase, Sleep, Goto, TypeOK, CallsTyped, CallSites, Threads
  <2> QED
    BY <2>5, <2>6, <2>7
<1>14. CASE StandDown
  <2>1. Thread \in Threads
    BY DEF Threads
  <2>2. TypeOK'
    BY <1>14, <1>i, <2>1 DEF StandDown, Sleep, Goto, Give, TypeOK, Locations
  <2>3. Unique(db)' /\ CallsTyped'
    BY <1>14, <2>1 DEF StandDown, Sleep, Goto, TypeOK, CallsTyped, CallSites, Unique, Threads
  <2> QED
    BY <2>2, <2>3
<1>15. CASE PlainCallback
  BY <1>15 DEF PlainCallback, Goto, TypeOK, CallsTyped, CallSites, Unique, Threads, Locations
<1>16. CASE AfterOp
  <2>1. cur \in Timers /\ Thread \in Threads
    BY <1>16 DEF AfterOp, CallsTyped, Threads
  <2>2. [Idle EXCEPT !.op = "again", !.timer = cur] \in Job
    BY <1>i, <2>1 DEF Idle, Job
  <2>3. /\ job' \in [Threads -> Job] /\ pc' \in [Threads -> Locations]
        /\ guard' \in SUBSET Threads
    BY <1>16, <2>1, <2>2 DEF AfterOp, Goto, Give, TypeOK, Locations
  <2>4. TypeOK'
    BY <1>16, <2>3 DEF AfterOp, TypeOK
  <2>6. ASSUME tm[cur].is_started /\ tm[cur].is_periodical PROVE CallsTyped'
    <3>1. /\ pc' = [pc EXCEPT ![Thread] = "insert"]
          /\ job' = [job EXCEPT ![Thread] = [Idle EXCEPT !.op = "again", !.timer = cur]]
      BY <1>16, <2>6 DEF AfterOp, Goto
    <3>2. job'[Thread].op = "again" /\ job'[Thread].timer = cur
      BY <2>1, <3>1 DEF TypeOK, Idle
    <3> QED
      BY <2>1, <3>1, <3>2 DEF TypeOK, CallsTyped, CallSites
  <2>7. ASSUME ~(tm[cur].is_started /\ tm[cur].is_periodical) PROVE CallsTyped'
    <3>1. pc' = [pc EXCEPT ![Thread] = "guard"] /\ job' = job
      BY <1>16, <2>7 DEF AfterOp, Goto
    <3> QED
      BY <2>1, <3>1 DEF TypeOK, CallsTyped, CallSites
  <2>5. Unique(db)' /\ CallsTyped'
    BY <1>16, <2>6, <2>7 DEF AfterOp, Unique
  <2> QED
    BY <2>4, <2>5
<1>17. CASE ThrowOp
  BY <1>17 DEF ThrowOp, Goto, Give, TypeOK, CallsTyped, CallSites, Unique, Threads, Locations
<1>18. CASE UNCHANGED vars
  BY <1>18 DEF vars, TypeOK, CallsTyped, Unique
<1>19. CASE Next
  BY <1>1, <1>2, <1>3, <1>4, <1>5, <1>6, <1>7, <1>8, <1>9, <1>10, <1>11, <1>12, <1>13,
     <1>14, <1>15, <1>16, <1>17, <1>19, NextCases
<1> QED
  BY <1>18, <1>19

\* The types hold in every reachable state: no delta of the list and no
\* time-out underflows, whatever the clients and callbacks do
\* (timer.cpp:251, 344, 365), with or without the guard.
THEOREM TypeCorrect == Spec => []TypeOK
<1>1. Init => TypeInv
  BY TypeInit
<1>2. TypeInv /\ [Next]_vars => TypeInv'
  BY TypeStep
<1>3. TypeInv => TypeOK
  BY DEF TypeInv
<1> QED
  BY <1>1, <1>2, <1>3, PTL DEF Spec
-----------------------------------------------------------------------------
\* ListSound and NeverTouchesDestroyed, told of the listed timers.
ListedSound ==
  /\ \A t \in Timers : Listed(db, t) =>
       tm[t].life = "ready" /\ (tm[t].is_started \/ Changing(t))
  /\ cur # None => tm[cur].life = "ready"

LEMMA ListedForm ==
  ASSUME TypeInv
  PROVE  ListSound /\ NeverTouchesDestroyed <=> ListedSound
<1>1. \A i \in 1..Len(db) : db[i].timer \in Timers
  <2> SUFFICES ASSUME NEW i \in 1..Len(db) PROVE db[i] \in Element
    BY DEF Element
  <2> QED
    BY DEF TypeInv, TypeOK
<1>2. Unique(db)
  BY DEF TypeInv
<1>3. ASSUME ListSound, NeverTouchesDestroyed PROVE ListedSound
  BY <1>3 DEF ListSound, NeverTouchesDestroyed, ListedSound, Listed
<1>4. ASSUME ListedSound PROVE ListSound /\ NeverTouchesDestroyed
  <2>1. ASSUME NEW i \in 1..Len(db)
        PROVE  /\ tm[db[i].timer].life = "ready"
               /\ tm[db[i].timer].is_started \/ Changing(db[i].timer)
    <3>1. Listed(db, db[i].timer)
      BY DEF Listed
    <3> QED
      BY <1>1, <1>4, <3>1 DEF ListedSound
  <2> QED
    BY <1>2, <1>4, <2>1 DEF ListSound, NeverTouchesDestroyed, ListedSound
<1> QED
  BY <1>3, <1>4

\* A thread outside every call.
Quiet(q) == pc[q] \notin CallSites /\ job[q].op = "none" /\ job[q].timer = None

\* Under the guard only its holder is inside a call.
LEMMA OnlyHolder ==
  ASSUME GuardHeld, CallsKnown
  PROVE  /\ \A p \in Threads : pc[p] \in CallSites => guard = {p}
         /\ pc[Thread] \in {"db", "op", "ret"} => guard = {Thread}
         /\ \A q \in Threads : q \notin guard => Quiet(q)
         /\ \A q \in Threads : pc[q] \notin CallSites => Quiet(q)
BY TimerAssumption DEF GuardHeld, CallsKnown, Quiet, CallSites, Threads

\* What the invariant says before the first step.
LEMMA GuardedInit == Guarded /\ Init => GuardedInv
<1> SUFFICES ASSUME Guarded, Init PROVE GuardedInv
  OBVIOUS
<1> USE TimerAssumption
<1>1. TypeInv
  BY TypeInit
<1>2. GuardHeld /\ CallsKnown
  BY DEF Init, GuardHeld, CallsKnown, CallSites, Threads, Idle
<1>3. ListedSound
  <2>1. \A t : ~Listed(db, t)
    <3>1. Len(db) = 0
      BY DEF Init
    <3> QED
      BY <3>1 DEF Listed
  <2> QED
    BY <2>1 DEF Init, ListedSound
<1> QED
  BY <1>1, <1>2, <1>3, ListedForm DEF GuardedInv

\* Every step of a guarded thread and of its clients keeps the invariant.
LEMMA GuardedStep == Guarded /\ GuardedInv /\ [Next]_vars => GuardedInv'
<1> SUFFICES ASSUME Guarded, GuardedInv, [Next]_vars PROVE GuardedInv'
  OBVIOUS
<1> USE TimerAssumption
<1>g. TypeInv /\ GuardHeld /\ CallsKnown
  BY DEF GuardedInv
<1>l. ListedSound
  BY ListedForm DEF GuardedInv
<1>t. TypeInv'
  BY <1>g, TypeStep
<1> SUFFICES GuardHeld' /\ CallsKnown' /\ ListedSound'
  <2>1. TypeInv => (ListSound /\ NeverTouchesDestroyed <=> ListedSound)
    BY ListedForm
  <2>2. (TypeInv => (ListSound /\ NeverTouchesDestroyed <=> ListedSound))'
    BY ListedForm, PTL
  <2> QED
    BY <1>t, <2>2 DEF GuardedInv
<1> USE <1>g, <1>l
<1>h. /\ \A p \in Threads : pc[p] \in CallSites => guard = {p}
      /\ pc[Thread] \in {"db", "op", "ret"} => guard = {Thread}
      /\ \A q \in Threads : q \notin guard => Quiet(q)
      /\ \A q \in Threads : pc[q] \notin CallSites => Quiet(q)
  BY OnlyHolder
<1>c. \A p \in Threads : pc[p] \in CallSites => job[p].timer \in Timers
  BY DEF TypeInv, CallsTyped
<1>1. CASE Tick
  <2>1. \A p \in Threads : job'[p].op = job[p].op /\ job'[p].timer = job[p].timer
    BY <1>1 DEF Tick, TypeInv, TypeOK, Job
  <2>2. UNCHANGED <<db, tm, guard, pc, cur>>
    BY <1>1 DEF Tick
  <2>3. GuardHeld'
    BY <2>2 DEF GuardHeld
  <2>4. CallsKnown'
    BY <2>1, <2>2 DEF CallsKnown
  <2>5. ListedSound'
    BY <2>1, <2>2 DEF ListedSound, Changing
  <2> QED
    BY <2>3, <2>4, <2>5
<1>2. ASSUME NEW p \in Threads, InsertRead(p) PROVE GuardHeld' /\ CallsKnown' /\ ListedSound'
  <2>1. \A q \in Threads : job'[q].op = job[q].op /\ job'[q].timer = job[q].timer
    BY <1>2 DEF InsertRead, TypeInv, TypeOK, Job
  <2>2. pc' = [pc EXCEPT ![p] = "link"] /\ pc[p] = "insert" /\ UNCHANGED <<db, tm, guard, cur>>
    BY <1>2 DEF InsertRead, Goto
  <2>3. GuardHeld'
    BY <2>2 DEF GuardHeld, TypeInv, TypeOK, Threads
  <2>4. CallsKnown'
    BY <2>1, <2>2 DEF CallsKnown, CallSites, TypeInv, TypeOK
  <2>5. ListedSound'
    BY <2>1, <2>2 DEF ListedSound, Changing, Listed
  <2> QED
    BY <2>3, <2>4, <2>5
<1>3. ASSUME NEW p \in Threads, InsertLink(p) PROVE GuardHeld' /\ CallsKnown' /\ ListedSound'
  <2> DEFINE t == job[p].timer
  <2>1. /\ pc[p] = "link" /\ guard = {p} /\ t \in Timers
        /\ UNCHANGED <<tm, cur>> /\ tm[t].life = "ready"
    BY <1>3, <1>h, <1>c DEF InsertLink, CallSites, CallsKnown
  <2>2. \A u : Listed(db', u) <=> Listed(db, u) \/ u = t
    <3> DEFINE d == Wrap(Elapsed(time_last, job[p].stamp) + tm[t].after_ms)
    <3>1. d \in Ms
      <4>1. Elapsed(time_last, job[p].stamp) \in Nat
        BY ElapsedType DEF TypeInv, TypeOK, Job
      <4>2. tm[t].after_ms \in Nat
        BY <2>1 DEF TypeInv, TypeOK, Impl, Ms
      <4>3. Elapsed(time_last, job[p].stamp) + tm[t].after_ms \in Nat
        BY <4>1, <4>2
      <4> QED
        BY <4>3, WrapRange
    <3>2. db' = Insert(db, t, d)
      BY <1>3 DEF InsertLink
    <3>3. db \in Seq(Element) /\ MaxMs \in Nat /\ Unique(db)
      BY DEF TypeInv, TypeOK
    <3> HIDE DEF d
    <3> QED
      BY <2>1, <3>1, <3>2, <3>3, InsertList
  <2>3. CASE job[p].op = "again"
    <3>1. /\ p = Thread /\ tm[t].is_started
          /\ pc' = [pc EXCEPT ![p] = "guard"] /\ guard' = {}
          /\ job' = [job EXCEPT ![p] = Idle]
      BY <1>3, <2>1, <2>3 DEF InsertLink, CallsKnown, Goto, Give
    <3>2. cur = None
      BY <2>1, <2>3, <3>1 DEF CallsKnown
    <3>3. GuardHeld'
      BY <2>1, <3>1, <3>2 DEF GuardHeld, TypeInv, TypeOK, Threads
    <3>4. CallsKnown'
      BY <1>h, <2>1, <3>1, <3>2 DEF CallsKnown, CallSites, Quiet, TypeInv, TypeOK, Idle
    <3>5. ListedSound'
      <4>1. \A u : Changing(u) => u = t
        BY <1>h, <2>1 DEF Changing, Quiet
      <4> QED
        BY <2>1, <2>2, <3>1, <4>1 DEF ListedSound
    <3> QED
      BY <3>3, <3>4, <3>5
  <2>4. CASE job[p].op # "again"
    <3>1. /\ pc' = [pc EXCEPT ![p] = "mark"] /\ guard' = guard
          /\ job'[p].op = "start" /\ job'[p].timer = t
          /\ \A q \in Threads : q # p => job'[q] = job[q]
      BY <1>3, <2>1, <2>4 DEF InsertLink, CallsKnown, Goto, TypeInv, TypeOK, Job
    <3>2. GuardHeld'
      BY <2>1, <3>1 DEF GuardHeld, TypeInv, TypeOK, Threads
    <3>3. CallsKnown'
      BY <1>h, <2>1, <3>1 DEF CallsKnown, CallSites, Quiet, TypeInv, TypeOK
    <3>4. ListedSound'
      BY <2>1, <2>2, <3>1 DEF ListedSound, Changing
    <3> QED
      BY <3>2, <3>3, <3>4
  <2> QED
    BY <2>3, <2>4
<1>4. ASSUME NEW p \in Threads, Mark(p) PROVE GuardHeld' /\ CallsKnown' /\ ListedSound'
  <2> DEFINE t == job[p].timer
  <2>1. /\ pc[p] = "mark" /\ guard = {p} /\ t \in Timers /\ tm[t].life = "ready"
        /\ UNCHANGED <<db, cur>> /\ job' = [job EXCEPT ![p] = Idle]
        /\ tm' = [tm EXCEPT ![t].is_started = TRUE]
    BY <1>4, <1>h, <1>c DEF Mark, CallSites, CallsKnown
  <2>2. \A u \in Timers : /\ tm'[u].life = tm[u].life
                          /\ tm'[u].is_started <=> tm[u].is_started \/ u = t
    BY <2>1 DEF TypeInv, TypeOK, Impl
  <2>3. /\ pc' = [pc EXCEPT ![p] = IF p = Thread THEN "ret" ELSE "idle"]
        /\ guard' = IF p = Thread THEN guard ELSE {}
    BY <1>4, <2>1 DEF Mark, Return, Goto, Give
  <2>4. GuardHeld'
    BY <1>h, <2>1, <2>3 DEF GuardHeld, TypeInv, TypeOK, Threads
  <2>5. CallsKnown'
    BY <1>h, <2>1, <2>3 DEF CallsKnown, CallSites, Quiet, TypeInv, TypeOK, Idle
  <2>6. ListedSound'
    <3>1. \A u : Changing(u) => u = t
      BY <1>h, <2>1 DEF Changing, Quiet
    <3>2. cur \in Timers \cup {None}
      BY DEF TypeInv, TypeOK
    <3> QED
      BY <2>1, <2>2, <3>1, <3>2 DEF ListedSound
  <2> QED
    BY <2>4, <2>5, <2>6
<1>5. ASSUME NEW p \in Threads, Unlink(p) PROVE GuardHeld' /\ CallsKnown' /\ ListedSound'
  <2> DEFINE t == job[p].timer
  <2>1. /\ pc[p] = "unlink" /\ guard = {p} /\ t \in Timers
        /\ UNCHANGED <<tm, job, guard, cur>> /\ pc' = [pc EXCEPT ![p] = "free"]
    BY <1>5, <1>h, <1>c DEF Unlink, Goto, CallSites
  <2>2. \A u : Listed(db', u) <=> Listed(db, u) /\ u # t
    <3>1. db \in Seq(Element) /\ MaxMs \in Nat /\ Unique(db) /\ db' = Remove(db, t)
      BY <1>5 DEF TypeInv, TypeOK, Unlink
    <3> QED
      BY <3>1, RemoveList
  <2>3. GuardHeld'
    BY <2>1 DEF GuardHeld, TypeInv, TypeOK, Threads
  <2>4. CallsKnown'
    BY <1>h, <2>1, <2>2 DEF CallsKnown, CallSites, Quiet, TypeInv, TypeOK
  <2>5. ListedSound'
    BY <2>1, <2>2 DEF ListedSound, Changing
  <2> QED
    BY <2>3, <2>4, <2>5
<1>6. ASSUME NEW p \in Threads, Free(p) PROVE GuardHeld' /\ CallsKnown' /\ ListedSound'
  <2> DEFINE t == job[p].timer
  <2>1. /\ pc[p] = "free" /\ guard = {p} /\ t \in Timers /\ ~Listed(db, t)
        /\ UNCHANGED <<db, cur>> /\ job' = [job EXCEPT ![p] = Idle]
        /\ p = Thread => job[p].op # "destroy"
    BY <1>6, <1>h, <1>c DEF Free, CallSites, CallsKnown
  <2>2. /\ \A u \in Timers : u # t => tm'[u] = tm[u]
        /\ p = Thread => tm' = tm
    BY <1>6, <2>1 DEF Free, TypeInv, TypeOK
  <2>3. /\ pc' = [pc EXCEPT ![p] = IF p = Thread THEN "ret" ELSE "idle"]
        /\ guard' = IF p = Thread THEN guard ELSE {}
    BY <1>6, <2>1 DEF Free, Return, Goto, Give
  <2>4. GuardHeld'
    BY <1>h, <2>1, <2>3 DEF GuardHeld, TypeInv, TypeOK, Threads
  <2>5. CallsKnown'
    BY <1>h, <2>1, <2>3 DEF CallsKnown, CallSites, Quiet, TypeInv, TypeOK, Idle
  <2>6. ListedSound'
    <3>1. \A u : Changing(u) => u = t
      BY <1>h, <2>1 DEF Changing, Quiet
    <3>2. p # Thread => cur = None
      BY <2>1 DEF GuardHeld
    <3> QED
      BY <2>1, <2>2, <3>1, <3>2 DEF ListedSound
  <2> QED
    BY <2>4, <2>5, <2>6
<1>7. ASSUME NEW p \in Threads, NEW t \in Timers, NEW d \in Delays, NEW per \in BOOLEAN,
             Start(p, t, d, per)
      PROVE  GuardHeld' /\ CallsKnown' /\ ListedSound'
  <2>1. /\ pc[p] = IF p = Thread THEN "op" ELSE "idle"
        /\ guard' = {p} /\ (p # Thread => guard = {})
        /\ tm[t].life = "ready"
        /\ UNCHANGED <<db, cur>> /\ pc' = [pc EXCEPT ![p] = "insert"]
    BY <1>7, <1>h DEF Start, MayCall, Take, Goto
  <2>2. /\ job'[p].op = "start" /\ job'[p].timer = t
        /\ \A q \in Threads : q # p => job'[q] = job[q]
        /\ \A u \in Timers : tm'[u].life = tm[u].life /\ tm'[u].is_started = tm[u].is_started
    BY <1>7 DEF Start, TypeInv, TypeOK, Idle, Impl
  <2>3. GuardHeld'
    BY <2>1 DEF GuardHeld, TypeInv, TypeOK, Threads
  <2>4. CallsKnown'
    BY <1>h, <2>1, <2>2 DEF CallsKnown, CallSites, Quiet, GuardHeld, TypeInv, TypeOK
  <2>5. ListedSound'
    <3>1. \A u : ~Changing(u)
      BY <1>h, <2>1 DEF Changing, Quiet, CallSites
    <3>2. cur \in Timers \cup {None}
      BY DEF TypeInv, TypeOK
    <3> QED
      BY <2>1, <2>2, <3>1, <3>2 DEF ListedSound
  <2> QED
    BY <2>3, <2>4, <2>5
<1>8. ASSUME NEW p \in Threads, NEW t \in Timers, NEW op \in {"stop", "destroy"},
             Stop(p, t, op), op = "destroy" => p # Thread
      PROVE  GuardHeld' /\ CallsKnown' /\ ListedSound'
  <2>1. /\ pc[p] = IF p = Thread THEN "op" ELSE "idle"
        /\ guard' = {p} /\ (p # Thread => guard = {})
        /\ tm[t].life = "ready"
        /\ UNCHANGED <<db, cur>>
        /\ pc' = [pc EXCEPT ![p] = IF tm[t].is_started THEN "unlink" ELSE "free"]
    BY <1>8, <1>h DEF Stop, MayCall, Take, Goto
  <2>2. /\ job'[p].op = op /\ job'[p].timer = t
        /\ \A q \in Threads : q # p => job'[q] = job[q]
        /\ \A u \in Timers : /\ tm'[u].life = tm[u].life
                             /\ tm'[u].is_started <=> tm[u].is_started /\ u # t
    BY <1>8 DEF Stop, TypeInv, TypeOK, Idle, Impl
  <2>3. \A u : ~Changing(u)
    BY <1>h, <2>1 DEF Changing, Quiet, CallSites
  <2>4. GuardHeld'
    BY <2>1 DEF GuardHeld, TypeInv, TypeOK, Threads
  <2>5. CallsKnown'
    <3>1. ~tm[t].is_started => ~Listed(db, t)
      BY <2>3 DEF ListedSound
    <3>2. \A q \in Threads : q # p => Quiet(q)
      BY <1>h, <2>1 DEF GuardHeld, CallSites
    <3> QED
      BY <1>8, <2>1, <2>2, <3>1, <3>2 DEF CallsKnown, CallSites, Quiet, TypeInv, TypeOK
  <2>6. ListedSound'
    <3>1. cur \in Timers \cup {None}
      BY DEF TypeInv, TypeOK
    <3> QED
      BY <2>1, <2>2, <2>3, <3>1 DEF ListedSound, Changing
  <2> QED
    BY <2>4, <2>5, <2>6
<1>9. ASSUME NEW p \in Clients, NEW t \in Timers, Construct(p, t)
      PROVE  GuardHeld' /\ CallsKnown' /\ ListedSound'
  <2>1. /\ guard = {} /\ UNCHANGED <<db, guard, pc, job, cur>>
        /\ \A u \in Timers : /\ tm'[u].is_started = tm[u].is_started
                             /\ tm[u].life = "ready" => tm'[u].life = "ready"
    BY <1>9 DEF Construct, TypeInv, TypeOK, Impl
  <2>2. GuardHeld'
    BY <2>1 DEF GuardHeld
  <2>3. CallsKnown'
    BY <1>c, <2>1 DEF CallsKnown, CallSites
  <2>4. ListedSound'
    <3>1. cur = None
      BY <2>1 DEF GuardHeld
    <3> QED
      BY <2>1, <3>1 DEF ListedSound, Changing
  <2> QED
    BY <2>2, <2>3, <2>4
<1>10. CASE Wake
  <2>1. /\ UNCHANGED <<db, tm, guard, job, cur>> /\ pc[Thread] = "wait"
        /\ pc' = [pc EXCEPT ![Thread] = "guard"] /\ Thread \in Threads
    BY <1>10 DEF Wake, Goto, Threads
  <2>2. GuardHeld' /\ CallsKnown' /\ ListedSound'
    BY <2>1 DEF GuardHeld, CallsKnown, CallSites, ListedSound, Changing, TypeInv, TypeOK, Threads
  <2> QED
    BY <2>2
<1>11. CASE EnterRound
  <2>1. /\ UNCHANGED <<db, tm, cur>> /\ pc[Thread] = "guard" /\ guard = {} /\ guard' = {Thread}
        /\ pc' = [pc EXCEPT ![Thread] = "db"] /\ Thread \in Threads
    BY <1>11 DEF EnterRound, Take, Goto, Threads
  <2>2. \A q \in Threads : job'[q].op = job[q].op /\ job'[q].timer = job[q].timer
    BY <1>11 DEF EnterRound, TypeInv, TypeOK, Job
  <2>3. GuardHeld'
    BY <2>1 DEF GuardHeld, TypeInv, TypeOK, Threads
  <2>4. CallsKnown'
    BY <2>1, <2>2 DEF CallsKnown, CallSites, TypeInv, TypeOK
  <2>5. ListedSound'
    BY <2>1, <2>2 DEF ListedSound, Changing
  <2> QED
    BY <2>3, <2>4, <2>5
<1>12. CASE Pop
  <2> DEFINE t == db[1].timer
  <2>1. /\ pc[Thread] = "db" /\ guard = {Thread} /\ 1 \in 1..Len(db) /\ Thread \in Threads
        /\ job' = [job EXCEPT ![Thread] = Idle]
    BY <1>12, <1>h DEF Pop, TypeInv, TypeOK, Threads
  <2>2. t \in Timers /\ Listed(db, t)
    <3>1. db[1] \in Element
      BY <2>1 DEF TypeInv, TypeOK
    <3> QED
      BY <2>1, <3>1 DEF Element, Listed
  <2>3. \A u : Listed(db', u) <=> Listed(db, u) /\ u # t
    <3>1. db \in Seq(Element) /\ MaxMs \in Nat /\ Unique(db) /\ db' = UnlinkAt(db, 1)
      BY <1>12 DEF TypeInv, TypeOK, Pop
    <3> QED
      BY <2>1, <3>1, UnlinkAtTimers
  <2>4. \A u : ~Changing(u)
    BY <1>h, <2>1 DEF Changing, Quiet, CallSites
  <2>5. tm[t].life = "ready" /\ tm[t].is_started
    BY <2>2, <2>4 DEF ListedSound
  <2>6. /\ pc' = [pc EXCEPT ![Thread] = "op"] /\ guard' = guard /\ cur' = t
        /\ \A u \in Timers : u # t => tm'[u] = tm[u]
        /\ tm'[t].life = "ready"
    BY <1>12, <2>2, <2>5 DEF Pop, Goto, TypeInv, TypeOK, Impl
  <2>7. GuardHeld'
    BY <2>1, <2>6 DEF GuardHeld, TypeInv, TypeOK, Threads
  <2>8. CallsKnown'
    BY <1>h, <2>1, <2>6 DEF CallsKnown, CallSites, Quiet, TypeInv, TypeOK, Idle
  <2>9. ListedSound'
    BY <2>3, <2>4, <2>6 DEF ListedSound
  <2> QED
    BY <2>7, <2>8, <2>9
<1>13. ASSUME Rebase \/ StandDown PROVE GuardHeld' /\ CallsKnown' /\ ListedSound'
  <2>1. /\ pc[Thread] = "db" /\ guard = {Thread} /\ Thread \in Threads
        /\ job' = [job EXCEPT ![Thread] = Idle]
        /\ pc' = [pc EXCEPT ![Thread] = "wait"] /\ guard' = {} /\ UNCHANGED <<tm, cur>>
    BY <1>13, <1>h DEF Rebase, StandDown, Sleep, Goto, Give, Threads
  <2>2. \A u : Listed(db', u) => Listed(db, u)
    <3>1. ASSUME Rebase PROVE Len(db') = Len(db) /\ \A i \in 1..Len(db) : db'[i].timer = db[i].timer
      <4>1. 1 \in 1..Len(db) /\ db[1] \in Element
        BY <3>1 DEF Rebase, TypeInv, TypeOK
      <4> QED
        BY <3>1, <4>1 DEF Rebase, TypeInv, TypeOK, Element
    <3> QED
      BY <1>13, <3>1 DEF StandDown, Listed
  <2>3. \A u : ~Changing(u)
    BY <1>h, <2>1 DEF Changing, Quiet, CallSites
  <2>4. cur = None
    BY <2>1 DEF GuardHeld
  <2>5. GuardHeld'
    BY <2>1, <2>4 DEF GuardHeld, TypeInv, TypeOK, Threads
  <2>6. CallsKnown'
    BY <1>h, <2>1, <2>4 DEF CallsKnown, CallSites, Quiet, TypeInv, TypeOK, Idle
  <2>7. ListedSound'
    BY <2>1, <2>2, <2>3 DEF ListedSound
  <2> QED
    BY <2>5, <2>6, <2>7
<1>14. CASE PlainCallback
  <2>1. /\ UNCHANGED <<db, tm, guard, job, cur>> /\ pc[Thread] = "op"
        /\ pc' = [pc EXCEPT ![Thread] = "ret"] /\ Thread \in Threads
    BY <1>14 DEF PlainCallback, Goto, Threads
  <2> QED
    BY <2>1 DEF GuardHeld, CallsKnown, CallSites, ListedSound, Changing, TypeInv, TypeOK, Threads
<1>15. ASSUME AfterOp \/ ThrowOp PROVE GuardHeld' /\ CallsKnown' /\ ListedSound'
  <2>1. /\ pc[Thread] = "ret" /\ guard = {Thread} /\ Thread \in Threads
        /\ UNCHANGED <<db, tm>> /\ cur' = None
    BY <1>15, <1>h DEF AfterOp, ThrowOp, Threads
  <2>2. \A u : ~Changing(u)
    BY <1>h, <2>1 DEF Changing, Quiet, CallSites
  <2>3. ListedSound'
    BY <2>1, <2>2 DEF ListedSound
  <2>4. CASE job' = job
    <3>1. pc' = [pc EXCEPT ![Thread] = "guard"] /\ guard' = {}
      <4>1. ASSUME AfterOp, tm[cur].is_started /\ tm[cur].is_periodical PROVE FALSE
        <5>1. job' = [job EXCEPT ![Thread] = [Idle EXCEPT !.op = "again", !.timer = cur]]
          BY <4>1 DEF AfterOp
        <5>2. job'[Thread].op = "again"
          BY <2>1, <5>1 DEF TypeInv, TypeOK, Idle
        <5> QED
          BY <1>h, <2>1, <2>4, <5>2 DEF Quiet, CallSites
      <4> QED
        BY <1>15, <2>1, <4>1 DEF AfterOp, ThrowOp, Goto, Give
    <3>2. GuardHeld'
      BY <2>1, <3>1 DEF GuardHeld, TypeInv, TypeOK, Threads
    <3>3. CallsKnown'
      BY <1>h, <2>1, <2>4, <3>1 DEF CallsKnown, CallSites, Quiet, TypeInv, TypeOK
    <3> QED
      BY <2>3, <3>2, <3>3
  <2>5. CASE job' # job
    <3>1. /\ tm[cur].is_started
          /\ pc' = [pc EXCEPT ![Thread] = "insert"] /\ guard' = guard
          /\ job' = [job EXCEPT ![Thread] = [Idle EXCEPT !.op = "again", !.timer = cur]]
      BY <1>15, <2>5 DEF AfterOp, ThrowOp, Goto
    <3>2. job'[Thread].op = "again" /\ job'[Thread].timer = cur
      BY <2>1, <3>1 DEF TypeInv, TypeOK, Idle
    <3>3. GuardHeld'
      BY <2>1, <3>1 DEF GuardHeld, TypeInv, TypeOK, Threads
    <3>4. tm[cur].life = "ready"
      BY <2>1 DEF ListedSound, TypeInv, CallsTyped
    <3>5. CallsKnown'
      BY <1>h, <2>1, <3>1, <3>2, <3>4 DEF CallsKnown, CallSites, Quiet, TypeInv, TypeOK
    <3> QED
      BY <2>3, <3>3, <3>5
  <2> QED
    BY <2>4, <2>5
<1>16. CASE UNCHANGED vars
  BY <1>16 DEF vars, GuardHeld, CallsKnown, ListedSound, Changing
<1>17. CASE Next
  BY <1>1, <1>2, <1>3, <1>4, <1>5, <1>6, <1>7, <1>8, <1>9, <1>10, <1>11, <1>12, <1>13,
     <1>14, <1>15, <1>17, NextCases
<1> QED
  BY <1>16, <1>17

\* With the guard, the inductive invariant holds in every reachable state.
THEOREM GuardedInvariant == ASSUME Guarded PROVE Spec => []GuardedInv
<1>1. Init => GuardedInv
  BY GuardedInit
<1>2. GuardedInv /\ [Next]_vars => GuardedInv'
  BY GuardedStep
<1> QED
  BY <1>1, <1>2, PTL DEF Spec

\* TIMER_SAFE: the list holds each timer once, and only timers that are
\* started or that a call under way is dealing with (timer.cpp:108-119, 226-233).
THEOREM GuardedListSound == ASSUME Guarded PROVE Spec => []ListSound
<1>1. GuardedInv => ListSound
  BY DEF GuardedInv
<1> QED
  BY <1>1, GuardedInvariant, PTL

\* TIMER_SAFE: the callback thread never runs or looks at a destroyed timer
\* (timer.cpp:24-25, timer.h:35-39).
THEOREM GuardedNeverTouchesDestroyed == ASSUME Guarded PROVE Spec => []NeverTouchesDestroyed
<1>1. GuardedInv => NeverTouchesDestroyed
  BY DEF GuardedInv
<1> QED
  BY <1>1, GuardedInvariant, PTL
-----------------------------------------------------------------------------
(* Guarded timers and true time.                                           *)

\* What the types say of the list.
LEMMA ListTypes ==
  ASSUME TypeInv
  PROVE  /\ db \in Seq(Element) /\ MaxMs \in Nat /\ Unique(db)
         /\ \A i \in 1..Len(db) : db[i].timer \in Timers /\ db[i].delta_ms \in Ms
<1>1. db \in Seq(Element) /\ MaxMs \in Nat /\ Unique(db)
  BY TimerAssumption DEF TypeInv, TypeOK
<1>2. ASSUME NEW i \in 1..Len(db) PROVE db[i].timer \in Timers /\ db[i].delta_ms \in Ms
  <2>1. db[i] \in Element
    BY <1>1
  <2> QED
    BY <2>1 DEF Element
<1> QED
  BY <1>1, <1>2

\* Which timers the list holds after each step that changes it.
LEMMA LinkLists ==
  ASSUME TypeInv, NEW p \in Threads, InsertLink(p)
  PROVE  \A u : Listed(db', u) <=> Listed(db, u) \/ u = job[p].timer
<1> DEFINE t == job[p].timer
           d == Wrap(Elapsed(time_last, job[p].stamp) + tm[t].after_ms)
<1>1. t \in Timers
  BY DEF InsertLink, TypeInv, CallsTyped, CallSites
<1>2. d \in Ms
  <2>1. Elapsed(time_last, job[p].stamp) \in Nat
    BY ElapsedType DEF TypeInv, TypeOK, Job
  <2>2. tm[t].after_ms \in Nat
    BY <1>1, TimerAssumption DEF TypeInv, TypeOK, Impl, Ms
  <2>3. Elapsed(time_last, job[p].stamp) + tm[t].after_ms \in Nat
    BY <2>1, <2>2
  <2> QED
    BY <2>3, WrapRange, TimerAssumption
<1>3. db' = Insert(db, t, d)
  BY DEF InsertLink
<1> HIDE DEF d
<1> QED
  BY <1>1, <1>2, <1>3, ListTypes, InsertList

LEMMA UnlinkLists ==
  ASSUME TypeInv, NEW p \in Threads, Unlink(p)
  PROVE  \A u : Listed(db', u) <=> Listed(db, u) /\ u # job[p].timer
<1>1. db' = Remove(db, job[p].timer)
  BY DEF Unlink
<1> QED
  BY <1>1, ListTypes, RemoveList

LEMMA PopLists ==
  ASSUME TypeInv, Pop
  PROVE  /\ 1 \in 1..Len(db) /\ db[1].timer \in Timers /\ Listed(db, db[1].timer)
         /\ \A u : Listed(db', u) <=> Listed(db, u) /\ u # db[1].timer
<1>1. 1 \in 1..Len(db) /\ db' = UnlinkAt(db, 1)
  BY ListTypes DEF Pop
<1>2. db[1].timer \in Timers /\ Listed(db, db[1].timer)
  BY <1>1, ListTypes DEF Listed
<1> QED
  BY <1>1, <1>2, ListTypes, UnlinkAtTimers

LEMMA RebaseLists ==
  ASSUME TypeInv, Rebase
  PROVE  \A u : Listed(db', u) <=> Listed(db, u)
<1>1. 1 \in 1..Len(db) /\ db[1] \in Element
  BY ListTypes DEF Rebase
<1>2. Len(db') = Len(db) /\ \A i \in 1..Len(db) : db'[i].timer = db[i].timer
  BY <1>1, ListTypes DEF Rebase, Element
<1> QED
  BY <1>2 DEF Listed

\* Under the guard, whoever is inside a call, past the reading of the clock or
\* in a callback is alone.
LEMMA Alone ==
  ASSUME GuardedInv
  PROVE  /\ \A p, q \in Threads : pc[p] \in CallSites /\ pc[q] \in CallSites => p = q
         /\ pc[Thread] \in {"db", "op", "ret"} => \A q \in Threads : pc[q] \notin CallSites
         /\ \A p \in Threads : p # Thread /\ pc[p] \in CallSites =>
              pc[Thread] \in {"wait", "guard"} /\ cur = None
         /\ \A q \in Threads : pc[q] \notin CallSites => Quiet(q)
         /\ guard = {} => \A q \in Threads : pc[q] \notin CallSites
<1>1. GuardHeld /\ CallsKnown
  BY DEF GuardedInv
<1> QED
  BY <1>1, OnlyHolder, TimerAssumption DEF GuardHeld, CallSites, Threads
-----------------------------------------------------------------------------
\* ScheduleInv, told of the timers.
LEMMA ScheduleInit == Init => ScheduleInv
<1> SUFFICES ASSUME Init PROVE ScheduleInv
  OBVIOUS
<1> QED
  BY TimerAssumption DEF Init, ScheduleInv, StartedIsScheduled, Threads

\* Every step of a guarded program whose callbacks do not throw keeps the
\* started timers scheduled.
LEMMA ScheduleStep ==
  Guarded /\ ~CanThrow /\ GuardedInv /\ ScheduleInv /\ [Next]_vars => ScheduleInv'
<1> SUFFICES ASSUME Guarded, ~CanThrow, GuardedInv, ScheduleInv, [Next]_vars
             PROVE  ScheduleInv'
  OBVIOUS
<1> USE TimerAssumption
<1>g. TypeInv /\ CallsKnown
  BY DEF GuardedInv
<1>a. /\ \A p, q \in Threads : pc[p] \in CallSites /\ pc[q] \in CallSites => p = q
      /\ pc[Thread] \in {"db", "op", "ret"} => \A q \in Threads : pc[q] \notin CallSites
      /\ \A p \in Threads : p # Thread /\ pc[p] \in CallSites => cur = None
      /\ \A q \in Threads : pc[q] \notin CallSites => Quiet(q)
  BY Alone
<1>c. /\ \A p \in Threads : pc[p] \in CallSites => job[p].timer \in Timers
      /\ pc[Thread] \in {"op", "ret", "mark", "unlink", "free"} => cur \in Timers
      /\ cur \in Timers \cup {None} /\ None \notin Timers
      /\ pc \in [Threads -> Locations] /\ Thread \in Threads
  BY <1>g DEF TypeInv, TypeOK, CallsTyped, Threads
<1>s. /\ \A t \in Timers : tm[t].is_started => Listed(db, t) \/ cur = t \/ Changing(t)
      /\ \A p \in Threads : pc[p] = "mark" => Listed(db, job[p].timer)
      /\ cur # None /\ tm[cur].is_started =>
           tm[cur].is_periodical \/ Listed(db, cur) \/ Changing(cur)
  BY DEF ScheduleInv, StartedIsScheduled
<1>1. CASE Tick
  <2>1. \A p \in Threads : job'[p].op = job[p].op /\ job'[p].timer = job[p].timer
    BY <1>1, <1>g DEF Tick, TypeInv, TypeOK, Job
  <2>2. UNCHANGED <<db, tm, pc, cur>>
    BY <1>1 DEF Tick
  <2> QED
    BY <1>s, <2>1, <2>2 DEF ScheduleInv, StartedIsScheduled, Changing
<1>2. ASSUME NEW p \in Threads, InsertRead(p) PROVE ScheduleInv'
  <2>1. \A q \in Threads : job'[q].op = job[q].op /\ job'[q].timer = job[q].timer
    BY <1>2, <1>g DEF InsertRead, TypeInv, TypeOK, Job
  <2>2. pc' = [pc EXCEPT ![p] = "link"] /\ UNCHANGED <<db, tm, cur>>
    BY <1>2 DEF InsertRead, Goto
  <2> QED
    BY <1>c, <1>s, <2>1, <2>2 DEF ScheduleInv, StartedIsScheduled, Changing
<1>3. ASSUME NEW p \in Threads, InsertLink(p) PROVE ScheduleInv'
  <2> DEFINE t == job[p].timer
  <2>1. \A u : Listed(db', u) <=> Listed(db, u) \/ u = t
    BY <1>3, <1>g, LinkLists
  <2>2. /\ pc[p] = "link" /\ t \in Timers /\ UNCHANGED <<tm, cur>>
        /\ pc' \in {[pc EXCEPT ![p] = "guard"], [pc EXCEPT ![p] = "mark"]}
        /\ job' = [job EXCEPT ![p] = IF @.op = "again" THEN Idle
                                     ELSE [@ EXCEPT !.togo = 0, !.stamp = 0]]
    BY <1>3, <1>c DEF InsertLink, Goto, CallSites
  <2>3. \A q \in Threads : q # p => job'[q] = job[q] /\ pc[q] \notin CallSites
    BY <1>a, <2>2 DEF CallSites
  <2>4. \A u : Changing(u) => Changing(u)' \/ u = t
    BY <2>2, <2>3 DEF Changing
  <2>5. \A q \in Threads : pc'[q] = "mark" => q = p /\ job'[q].timer = t
    <3>1. \A q \in Threads : pc'[q] = "mark" => q = p
      BY <1>c, <2>2, <2>3 DEF CallSites
    <3>2. pc'[p] = "mark" => job'[p].timer = t
      <4>1. ASSUME job[p].op = "again" PROVE pc'[p] = "guard"
        BY <1>3, <1>c, <4>1 DEF InsertLink, Goto
      <4>2. ASSUME job[p].op # "again" PROVE job'[p].timer = t
        BY <1>g, <2>2, <4>2 DEF TypeInv, TypeOK, Job
      <4> QED
        BY <4>1, <4>2
    <3> QED
      BY <3>1, <3>2
  <2> QED
    BY <1>s, <2>1, <2>2, <2>4, <2>5 DEF ScheduleInv, StartedIsScheduled
<1>4. ASSUME NEW p \in Threads, Mark(p) PROVE ScheduleInv'
  <2> DEFINE t == job[p].timer
  <2>1. /\ pc[p] = "mark" /\ t \in Timers /\ UNCHANGED <<db, cur>> /\ Listed(db, t)
        /\ job' = [job EXCEPT ![p] = Idle]
        /\ pc' = [pc EXCEPT ![p] = IF p = Thread THEN "ret" ELSE "idle"]
        /\ \A u \in Timers : u # t => tm'[u] = tm[u]
    BY <1>4, <1>c, <1>g, <1>s DEF Mark, Return, Goto, CallSites, TypeInv, TypeOK
  <2>2. \A q \in Threads : q # p => job'[q] = job[q] /\ pc[q] \notin CallSites
    BY <1>a, <2>1 DEF CallSites
  <2>3. \A u : Changing(u) => Changing(u)' \/ u = t
    BY <2>1, <2>2 DEF Changing
  <2>4. \A q \in Threads : pc'[q] # "mark"
    BY <1>c, <2>1, <2>2 DEF CallSites
  <2> QED
    BY <1>c, <1>s, <2>1, <2>3, <2>4 DEF ScheduleInv, StartedIsScheduled
<1>5. ASSUME NEW p \in Threads, Unlink(p) PROVE ScheduleInv'
  <2> DEFINE t == job[p].timer
  <2>1. /\ pc[p] = "unlink" /\ t \in Timers /\ ~tm[t].is_started
        /\ UNCHANGED <<tm, job, cur>> /\ pc' = [pc EXCEPT ![p] = "free"]
    BY <1>5, <1>c, <1>g DEF Unlink, Goto, CallSites, CallsKnown
  <2>2. \A u : Listed(db', u) <=> Listed(db, u) /\ u # t
    BY <1>5, <1>g, UnlinkLists
  <2>3. \A q \in Threads : pc'[q] # "mark"
    BY <1>a, <1>c, <2>1 DEF CallSites
  <2> QED
    BY <1>c, <1>s, <2>1, <2>2, <2>3 DEF ScheduleInv, StartedIsScheduled, Changing
<1>6. ASSUME NEW p \in Threads, Free(p) PROVE ScheduleInv'
  <2> DEFINE t == job[p].timer
  <2>1. /\ pc[p] = "free" /\ t \in Timers /\ ~tm[t].is_started
        /\ UNCHANGED <<db, cur>> /\ job' = [job EXCEPT ![p] = Idle]
        /\ pc' = [pc EXCEPT ![p] = IF p = Thread THEN "ret" ELSE "idle"]
    BY <1>6, <1>c, <1>g DEF Free, Return, Goto, CallSites, CallsKnown
  <2>2. /\ \A u \in Timers : u # t => tm'[u] = tm[u]
        /\ tm'[t].is_started = tm[t].is_started
    BY <1>6, <1>g, <2>1 DEF Free, TypeInv, TypeOK, Impl
  <2>3. \A q \in Threads : q # p => job'[q] = job[q] /\ pc[q] \notin CallSites
    BY <1>a, <2>1 DEF CallSites
  <2>4. \A u : Changing(u) => Changing(u)' \/ u = t
    BY <2>1, <2>3 DEF Changing
  <2>5. \A q \in Threads : pc'[q] # "mark"
    BY <1>c, <2>1, <2>3 DEF CallSites
  <2> QED
    BY <1>c, <1>s, <2>1, <2>2, <2>4, <2>5 DEF ScheduleInv, StartedIsScheduled
<1>7. ASSUME NEW p \in Threads, NEW t \in Timers, NEW d \in Delays, NEW per \in BOOLEAN,
             Start(p, t, d, per)
      PROVE  ScheduleInv'
  <2>1. /\ ~tm[t].is_started /\ UNCHANGED <<db, cur>>
        /\ pc' = [pc EXCEPT ![p] = "insert"]
        /\ pc[p] \in {"op", "idle"}
    BY <1>7 DEF Start, Goto, MayCall
  <2>2. /\ \A u \in Timers : u # t => tm'[u] = tm[u]
        /\ tm'[t].is_started = tm[t].is_started
        /\ \A q \in Threads : q # p => job'[q] = job[q]
    BY <1>7, <1>g DEF Start, TypeInv, TypeOK, Impl
  <2>3. \A u : Changing(u) => Changing(u)'
    <3>1. job[p].op = "none"
      BY <1>a, <2>1 DEF Quiet, CallSites
    <3> QED
      BY <2>2, <3>1 DEF Changing
  <2>4. \A q \in Threads : pc'[q] = "mark" => pc[q] = "mark" /\ job'[q] = job[q]
    BY <1>c, <2>1, <2>2
  <2> QED
    BY <1>c, <1>s, <2>1, <2>2, <2>3, <2>4 DEF ScheduleInv, StartedIsScheduled
<1>8. ASSUME NEW p \in Threads, NEW t \in Timers, NEW op \in {"stop", "destroy"},
             Stop(p, t, op)
      PROVE  ScheduleInv'
  <2>1. /\ UNCHANGED <<db, cur>> /\ pc[p] \in {"op", "idle"}
        /\ pc' = [pc EXCEPT ![p] = IF tm[t].is_started THEN "unlink" ELSE "free"]
    BY <1>8 DEF Stop, Goto, MayCall
  <2>2. /\ \A u \in Timers : u # t => tm'[u] = tm[u]
        /\ ~tm'[t].is_started
        /\ \A q \in Threads : q # p => job'[q] = job[q]
    BY <1>8, <1>g DEF Stop, TypeInv, TypeOK, Impl
  <2>3. \A u : Changing(u) => Changing(u)'
    <3>1. job[p].op = "none"
      BY <1>a, <2>1 DEF Quiet, CallSites
    <3> QED
      BY <2>2, <3>1 DEF Changing
  <2>4. \A q \in Threads : pc'[q] = "mark" => pc[q] = "mark" /\ job'[q] = job[q]
    BY <1>c, <2>1, <2>2
  <2> QED
    BY <1>c, <1>s, <2>1, <2>2, <2>3, <2>4 DEF ScheduleInv, StartedIsScheduled
<1>9. ASSUME NEW p \in Clients, NEW t \in Timers, Construct(p, t) PROVE ScheduleInv'
  <2>1. /\ UNCHANGED <<db, pc, job, cur>>
        /\ \A u \in Timers : /\ tm'[u].is_started = tm[u].is_started
                             /\ tm'[u].is_periodical = tm[u].is_periodical
    BY <1>9, <1>g DEF Construct, TypeInv, TypeOK, Impl
  <2> QED
    BY <1>c, <1>s, <2>1 DEF ScheduleInv, StartedIsScheduled, Changing
<1>10. ASSUME Wake \/ PlainCallback PROVE ScheduleInv'
  <2>1. /\ UNCHANGED <<db, tm, job, cur>>
        /\ pc' \in {[pc EXCEPT ![Thread] = "guard"], [pc EXCEPT ![Thread] = "ret"]}
    BY <1>10 DEF Wake, PlainCallback, Goto
  <2> QED
    BY <1>c, <1>s, <2>1 DEF ScheduleInv, StartedIsScheduled, Changing
<1>11. CASE EnterRound
  <2>1. UNCHANGED <<db, tm, cur>> /\ pc' = [pc EXCEPT ![Thread] = "db"]
    BY <1>11 DEF EnterRound, Goto
  <2>2. \A q \in Threads : job'[q].op = job[q].op /\ job'[q].timer = job[q].timer
    BY <1>11, <1>g DEF EnterRound, TypeInv, TypeOK, Job
  <2> QED
    BY <1>c, <1>s, <2>1, <2>2 DEF ScheduleInv, StartedIsScheduled, Changing
<1>12. CASE Pop
  <2> DEFINE t == db[1].timer
  <2>1. /\ t \in Timers /\ Listed(db, t)
        /\ \A u : Listed(db', u) <=> Listed(db, u) /\ u # t
    BY <1>12, <1>g, PopLists
  <2>2. /\ pc[Thread] = "db" /\ \A u : ~Changing(u)
        /\ \A q \in Threads : pc[q] \notin CallSites
    BY <1>12, <1>a DEF Pop, Changing, Quiet
  <2>3. cur = None
    BY <2>2 DEF GuardedInv, GuardHeld
  <2>4. tm[t].is_started
    <3>1. PICK i \in 1..Len(db) : db[i].timer = t
      BY <2>1 DEF Listed
    <3> QED
      BY <2>2, <3>1 DEF GuardedInv, ListSound
  <2>5. /\ cur' = t /\ pc' = [pc EXCEPT ![Thread] = "op"]
        /\ tm' = [tm EXCEPT ![t].is_started = tm[t].is_periodical]
    BY <1>12, <2>4 DEF Pop, Goto, StaysStarted
  <2>6. /\ \A u \in Timers : u # t => tm'[u] = tm[u]
        /\ tm'[t].is_started = tm[t].is_periodical /\ tm'[t].is_periodical = tm[t].is_periodical
    BY <1>g, <2>1, <2>5 DEF TypeInv, TypeOK, Impl
  <2>7. \A q \in Threads : pc'[q] # "mark"
    BY <1>c, <2>2, <2>5 DEF CallSites
  <2> QED
    BY <1>c, <1>s, <2>1, <2>2, <2>3, <2>5, <2>6, <2>7 DEF ScheduleInv, StartedIsScheduled
<1>13. ASSUME Rebase \/ StandDown PROVE ScheduleInv'
  <2>1. \A u : Listed(db', u) <=> Listed(db, u)
    BY <1>13, <1>g, RebaseLists DEF StandDown
  <2>2. /\ pc[Thread] = "db" /\ \A u : ~Changing(u)
        /\ \A q \in Threads : pc[q] \notin CallSites
    BY <1>13, <1>a DEF Rebase, StandDown, Changing, Quiet
  <2>3. pc' = [pc EXCEPT ![Thread] = "wait"] /\ UNCHANGED <<tm, cur>>
    BY <1>13 DEF Rebase, StandDown, Sleep, Goto
  <2>4. \A q \in Threads : pc'[q] # "mark"
    BY <1>c, <2>2, <2>3 DEF CallSites
  <2> QED
    BY <1>s, <2>1, <2>2, <2>3, <2>4 DEF ScheduleInv, StartedIsScheduled
<1>14. CASE AfterOp
  <2>1. /\ pc[Thread] = "ret" /\ \A u : ~Changing(u) /\ cur \in Timers
        /\ \A q \in Threads : pc[q] \notin CallSites
    BY <1>14, <1>a, <1>c DEF AfterOp, Changing, Quiet
  <2>2. UNCHANGED <<db, tm>> /\ cur' = None
    BY <1>14 DEF AfterOp
  <2>3. \A q \in Threads : pc'[q] # "mark"
    BY <1>14, <1>c, <2>1 DEF AfterOp, Goto, CallSites
  <2>4. CASE tm[cur].is_started /\ tm[cur].is_periodical
    <3>1. job' = [job EXCEPT ![Thread] = [Idle EXCEPT !.op = "again", !.timer = cur]]
      BY <1>14, <2>4 DEF AfterOp
    <3>2. job'[Thread].op = "again" /\ job'[Thread].timer = cur
      BY <1>c, <1>g, <3>1 DEF TypeInv, TypeOK, Idle
    <3>3. \E q \in Threads : job'[q].timer = cur /\ job'[q].op # "none"
      BY <1>c, <3>2
    <3> QED
      BY <1>c, <1>s, <2>1, <2>2, <2>3, <3>3 DEF ScheduleInv, StartedIsScheduled, Changing
  <2>5. CASE ~(tm[cur].is_started /\ tm[cur].is_periodical)
    <3>1. tm[cur].is_started => Listed(db, cur)
      BY <1>s, <1>c, <2>1, <2>5
    <3> QED
      BY <1>c, <1>s, <2>1, <2>2, <2>3, <3>1 DEF ScheduleInv, StartedIsScheduled
  <2> QED
    BY <2>4, <2>5
<1>15. CASE ThrowOp
  BY <1>15 DEF ThrowOp
<1>16. CASE UNCHANGED vars
  BY <1>16, <1>s DEF vars, ScheduleInv, StartedIsScheduled, Changing
<1>17. CASE Next
  BY <1>1, <1>2, <1>3, <1>4, <1>5, <1>6, <1>7, <1>8, <1>9, <1>10, <1>11, <1>12, <1>13,
     <1>14, <1>15, <1>17, NextCases
<1> QED
  BY <1>16, <1>17

\* TIMER_SAFE, with callbacks that do not throw: a started timer is always on
\* its way to its callback, listed, running or in a call (timer.cpp:139-150,
\* 206-222).  A periodic timer whose callback throws is not inserted again,
\* and stays started.
THEOREM Timer_StartedIsScheduled ==
  ASSUME Guarded, ~CanThrow PROVE Spec => []StartedIsScheduled
<1>1. GuardedInv /\ ScheduleInv /\ [Next]_vars => ScheduleInv'
  BY ScheduleStep
<1>2. ScheduleInv => StartedIsScheduled
  BY DEF ScheduleInv
<1> QED
  BY <1>1, <1>2, ScheduleInit, GuardedInvariant, PTL DEF Spec
-----------------------------------------------------------------------------
\* What is left of x milliseconds after y of them.
Remain(x, y) == IF x > y THEN x - y ELSE 0

\* ListExact, told with Remain.
DuesExact(s, due, since) ==
  \A i \in 1..Len(s) : due[s[i].timer] = Remain(Offset(s)[i], since)

LEMMA ListExactForm == ListExact <=> DuesExact(db, left, Elapsed(time_last, now))
BY DEF ListExact, DuesExact, Remain

\* Fresh and ReadingsKnown, with the times they are about.
FreshAt(x, l, t) == x <= t /\ (l <= t => l <= x)

LinkReading(j, m, l, t) ==
  FreshAt(j.stamp, l, t) /\ j.togo = Remain(m[j.timer].after_ms, t - j.stamp)

LEMMA ReadingsForm ==
  ReadingsKnown <=> /\ pc[Thread] = "db" => FreshAt(job[Thread].stamp, time_last, now)
                    /\ \A p \in Threads : pc[p] = "link" =>
                         LinkReading(job[p], tm, time_last, now)
BY DEF ReadingsKnown, Fresh, FreshAt, LinkReading, Remain

\* Time that passes makes what is left less, millisecond by millisecond.
LEMMA RemainTicks ==
  \A x, y \in Nat : Less(Remain(x, y)) = Remain(x, y + 1) /\ Remain(x, y) \in Nat
BY DEF Remain, Less

\* The elapsed time grows with the clock, as long as the clock does not pass
\* the time base.
LEMMA ElapsedGrows ==
  ASSUME NEW l \in Ms, NEW x \in Ms, NEW y \in Ms, x <= y, l <= y => l <= x
  PROVE  Elapsed(l, y) = Elapsed(l, x) + (y - x)
BY TimerAssumption DEF Elapsed, Ms

\* A step that leaves the clock and the list alone.
LEMMA ClockFrame ==
  ASSUME TimeBase, DuesKnown, ListExact, UNCHANGED <<now, time_last, db, left>>
  PROVE  TimeBase' /\ DuesKnown' /\ ListExact'
BY DEF TimeBase, DuesKnown, ListExact, Listed

\* What the types say of the times.
LEMMA ClockTypes ==
  ASSUME TypeInv
  PROVE  /\ now \in Ms /\ time_last \in Ms /\ 0 \in Ms /\ Ms \subseteq Nat
         /\ \A x \in Ms : x <= MaxMs
         /\ \A t \in Timers : left[t] \in Ms /\ tm[t].after_ms \in Ms
         /\ \A p \in Threads : job[p].stamp \in Ms /\ job[p].togo \in Ms
         /\ pc \in [Threads -> Locations] /\ Thread \in Threads
         /\ \A i \in 1..Len(db) : Offset(db)[i] \in Nat
<1>1. \A i \in 1..Len(db) : Offset(db)[i] \in Nat
  <2> SUFFICES ASSUME NEW i \in 1..Len(db) PROVE Offset(db)[i] \in Nat
    OBVIOUS
  <2>1. i \in 0..Len(db)
    BY ListTypes
  <2> QED
    BY <2>1, ListTypes, OffsetType
<1>2. \A p \in Threads : job[p].stamp \in Ms /\ job[p].togo \in Ms
  BY DEF TypeInv, TypeOK, Job
<1>3. \A t \in Timers : left[t] \in Ms /\ tm[t].after_ms \in Ms
  BY DEF TypeInv, TypeOK, Impl
<1> QED
  BY <1>1, <1>2, <1>3, TimerAssumption DEF TypeInv, TypeOK, Threads, Ms

LEMMA ClockInit == NoWrap /\ Init => ClockInv
<1> SUFFICES ASSUME NoWrap, Init PROVE ClockInv
  OBVIOUS
<1> USE TimerAssumption
<1>1. Len(db) = 0
  BY DEF Init
<1>2. TimeBase
  BY DEF NoWrap, Init, TimeBase
<1>3. DelaysKnown /\ DuesKnown /\ ListExact
  BY <1>1 DEF Init, DelaysKnown, DuesKnown, ListExact, Listed
<1>4. ReadingsKnown
  BY DEF Init, ReadingsKnown, Threads
<1> QED
  BY <1>2, <1>3, <1>4 DEF ClockInv

\* A reading not older than the time base is as far behind it as the clock is,
\* less what has passed since.
LEMMA FreshElapsed ==
  ASSUME TypeInv, TimeBase, NEW x \in Ms, Fresh(x)
  PROVE  /\ Elapsed(time_last, x) \in Nat
         /\ Elapsed(time_last, now) \in Nat
         /\ now - x \in Nat
         /\ Elapsed(time_last, now) = Elapsed(time_last, x) + (now - x)
<1>1. now \in Ms /\ time_last \in Ms /\ Ms \subseteq Nat
  BY ClockTypes
<1>2. x <= now /\ (time_last <= now => time_last <= x)
  BY DEF Fresh
<1> QED
  BY <1>1, <1>2, ElapsedGrows, ElapsedType

\* The delay insert computes is within UINT32, and stands for what is left.
LEMMA LinkDelay ==
  ASSUME NoWrap, TypeInv, ClockInv, NEW p \in Threads, InsertLink(p)
  PROVE  LET d == Wrap(Elapsed(time_last, job[p].stamp) + tm[job[p].timer].after_ms)
         IN  d \in Ms /\ Remain(d, Elapsed(time_last, now)) = job[p].togo
<1> DEFINE x == job[p].stamp
           after == tm[job[p].timer].after_ms
           e == Elapsed(time_last, x)
<1> USE TimerAssumption
<1>1. /\ x \in Ms /\ now \in Ms /\ time_last \in Ms /\ Ms \subseteq Nat
      /\ \A y \in Ms : y <= MaxMs
  BY ClockTypes
<1>2. job[p].timer \in Timers /\ pc[p] = "link"
  BY DEF InsertLink, TypeInv, CallsTyped, CallSites
<1>3. after \in Delays \cup {0} /\ after \in Nat
  BY <1>1, <1>2, ClockTypes DEF ClockInv, DelaysKnown
<1>4. /\ Fresh(x)
      /\ job[p].togo = Remain(after, now - x)
  BY <1>2 DEF ClockInv, ReadingsKnown, Remain
<1>5. /\ e \in Nat /\ now - x \in Nat /\ Elapsed(time_last, now) \in Nat
      /\ Elapsed(time_last, now) = e + (now - x)
  BY <1>1, <1>4, FreshElapsed DEF ClockInv
<1>6. e + after <= MaxMs
  <2>1. /\ now <= Horizon /\ x <= now
        /\ time_last <= now \/ (time_last \in LastInit /\ Horizon < time_last)
        /\ time_last <= now => time_last <= x
    BY <1>4 DEF ClockInv, TimeBase, Fresh
  <2>2. /\ Horizon + after <= MaxMs
        /\ \A l \in LastInit : l = 0 \/ Horizon + after < l
    BY <1>3 DEF NoWrap
  <2>3. CASE time_last <= now
    <3> HIDE DEF x, after
    <3>1. e = x - time_last
      BY <1>1, <2>1, <2>3 DEF Elapsed
    <3> HIDE DEF e
    <3> QED
      BY <1>1, <1>3, <2>1, <2>2, <2>3, <3>1
  <2>4. CASE ~(time_last <= now)
    <3>1. time_last # 0 /\ Horizon + after < time_last
      BY <1>1, <2>1, <2>2, <2>4
    <3> HIDE DEF x, after
    <3>2. e = MaxMs - time_last + x
      BY <1>1, <2>1, <2>4 DEF Elapsed
    <3> HIDE DEF e
    <3> QED
      BY <1>1, <1>3, <2>1, <3>1, <3>2
  <2> QED
    BY <2>3, <2>4
<1> HIDE DEF e, x, after
<1>7. Wrap(e + after) = e + after /\ e + after \in Ms
  BY <1>3, <1>5, <1>6 DEF Wrap, Ms
<1>8. Remain(e + after, Elapsed(time_last, now)) = job[p].togo
  BY <1>3, <1>4, <1>5 DEF Remain
<1> QED
  BY <1>7, <1>8 DEF e, x, after

\* Every step of a guarded program whose clock does not come round keeps the
\* list exact against true time.
LEMMA ClockStep == Guarded /\ NoWrap /\ GuardedInv /\ ClockInv /\ [Next]_vars => ClockInv'
<1> SUFFICES ASSUME Guarded, NoWrap, GuardedInv, ClockInv, [Next]_vars
             PROVE  ClockInv'
  OBVIOUS
<1> USE TimerAssumption
<1>g. TypeInv /\ CallsKnown
  BY DEF GuardedInv
<1>a. /\ \A p, q \in Threads : pc[p] \in CallSites /\ pc[q] \in CallSites => p = q
      /\ pc[Thread] \in {"db", "op", "ret"} => \A q \in Threads : pc[q] \notin CallSites
  BY Alone
<1>t. /\ now \in Ms /\ time_last \in Ms /\ 0 \in Ms /\ Ms \subseteq Nat
      /\ \A x \in Ms : x <= MaxMs
      /\ \A t \in Timers : left[t] \in Ms /\ tm[t].after_ms \in Ms
      /\ \A p \in Threads : job[p].stamp \in Ms /\ job[p].togo \in Ms
      /\ pc \in [Threads -> Locations] /\ Thread \in Threads
      /\ \A i \in 1..Len(db) : Offset(db)[i] \in Nat
  BY <1>g, ClockTypes
<1>d. /\ db \in Seq(Element) /\ Unique(db)
      /\ \A i \in 1..Len(db) : db[i].timer \in Timers /\ db[i].delta_ms \in Ms
  BY <1>g, ListTypes
<1>i. TimeBase /\ DelaysKnown /\ DuesKnown /\ ListExact /\ ReadingsKnown
  BY DEF ClockInv
<1>x. DuesExact(db, left, Elapsed(time_last, now))
  BY <1>i, ListExactForm
<1>y. DuesExact(db', left', Elapsed(time_last', now')) => ListExact'
  BY DEF ListExact, DuesExact, Remain
<1>r. /\ pc[Thread] = "db" => FreshAt(job[Thread].stamp, time_last, now)
      /\ \A p \in Threads : pc[p] = "link" => LinkReading(job[p], tm, time_last, now)
  BY <1>i, ReadingsForm
<1>z. ASSUME pc'[Thread] = "db" => FreshAt(job'[Thread].stamp, time_last', now'),
             \A p \in Threads : pc'[p] = "link" => LinkReading(job'[p], tm', time_last', now')
      PROVE  ReadingsKnown'
  BY <1>z DEF ReadingsKnown, Fresh, FreshAt, LinkReading, Remain
<1>c. \A p \in Threads : pc[p] \in CallSites => job[p].timer \in Timers
  BY <1>g DEF TypeInv, CallsTyped
<1>n. /\ now \in Nat /\ now <= MaxMs /\ time_last \in Nat /\ time_last <= MaxMs
      /\ now <= Horizon /\ Horizon <= MaxMs
      /\ time_last <= now \/ (time_last \in LastInit /\ Horizon < time_last)
  <2>1. Horizon + 0 <= MaxMs
    BY DEF NoWrap
  <2>2. Horizon <= MaxMs
    BY <2>1
  <2>3. /\ now <= Horizon
        /\ time_last <= now \/ (time_last \in LastInit /\ Horizon < time_last)
    BY <1>i DEF TimeBase
  <2> QED
    BY <1>t, <2>2, <2>3
<1> HIDE DEF Ms
<1>1. CASE Tick
  <2>1. /\ now # Horizon /\ now' = Wrap(now + 1) /\ UNCHANGED <<time_last, db, tm, pc>>
        /\ left' = [t \in Timers |-> Less(left[t])]
        /\ job' = [p \in Threads |-> [job[p] EXCEPT !.togo = Less(@)]]
    BY <1>1 DEF Tick
  <2>2. now' = now + 1 /\ now' <= Horizon /\ now' \in Ms
    BY <1>n, <2>1 DEF Wrap, Ms
  <2>3. \A p \in Threads : /\ job'[p].timer = job[p].timer /\ job'[p].stamp = job[p].stamp
                           /\ job'[p].togo = Less(job[p].togo)
    BY <1>g, <2>1 DEF TypeInv, TypeOK, Job
  <2>4. TimeBase'
    BY <1>n, <2>1, <2>2 DEF TimeBase
  <2>5. Elapsed(time_last', now') = Elapsed(time_last, now) + 1
        /\ Elapsed(time_last, now) \in Nat
    <3>1. now <= now + 1 /\ (time_last <= now + 1 => time_last <= now)
      BY <1>n, <2>2
    <3>2. Elapsed(time_last, now + 1) = Elapsed(time_last, now) + (now + 1 - now)
      BY <1>t, <2>2, <3>1, ElapsedGrows
    <3>3. Elapsed(time_last, now) \in Nat
      BY <1>t, ElapsedType
    <3> QED
      BY <1>n, <2>1, <2>2, <3>2, <3>3
  <2>6. DuesExact(db', left', Elapsed(time_last', now'))
    <3> SUFFICES ASSUME NEW i \in 1..Len(db)
                 PROVE  left'[db[i].timer] = Remain(Offset(db)[i], Elapsed(time_last, now) + 1)
      BY <2>1, <2>5 DEF DuesExact
    <3>1. left[db[i].timer] = Remain(Offset(db)[i], Elapsed(time_last, now))
      BY <1>x DEF DuesExact
    <3>2. left'[db[i].timer] = Less(left[db[i].timer]) /\ Offset(db)[i] \in Nat
      BY <1>d, <1>t, <2>1
    <3> QED
      BY <2>5, <3>1, <3>2, RemainTicks
  <2>7. DuesKnown' /\ DelaysKnown'
    BY <1>i, <2>1 DEF DuesKnown, DelaysKnown, Less
  <2>8. ReadingsKnown'
    <3>1. ASSUME NEW y \in Ms, FreshAt(y, time_last, now)
          PROVE  FreshAt(y, time_last, now + 1)
      <4>1. y \in Nat
        BY <1>t
      <4> QED
        BY <1>n, <2>2, <3>1, <4>1 DEF FreshAt
    <3>2. pc'[Thread] = "db" => FreshAt(job'[Thread].stamp, time_last', now')
      BY <1>r, <1>t, <2>1, <2>2, <2>3, <3>1
    <3>3. ASSUME NEW p \in Threads, pc'[p] = "link"
          PROVE  LinkReading(job'[p], tm', time_last', now')
      <4> DEFINE after == tm[job[p].timer].after_ms
                 x == job[p].stamp
      <4>1. FreshAt(x, time_last, now) /\ x \in Ms /\ job[p].togo = Remain(after, now - x)
        BY <1>r, <1>t, <2>1, <3>3 DEF LinkReading
      <4>2. job[p].timer \in Timers
        BY <1>c, <2>1, <3>3 DEF CallSites
      <4>3. after \in Nat
        BY <1>t, <4>2
      <4>4. /\ job'[p].stamp = x /\ job'[p].togo = Less(job[p].togo)
            /\ tm'[job'[p].timer].after_ms = after
        BY <2>1, <2>3
      <4>5. x \in Nat
        BY <1>t, <4>1
      <4> HIDE DEF after, x
      <4>6. now - x \in Nat /\ now' - x = (now - x) + 1
        BY <1>n, <2>2, <4>1, <4>5 DEF FreshAt
      <4>7. FreshAt(x, time_last', now')
        BY <2>1, <2>2, <3>1, <4>1
      <4> QED
        BY <4>1, <4>3, <4>4, <4>6, <4>7, RemainTicks DEF LinkReading
    <3> QED
      BY <1>z, <3>2, <3>3
  <2> QED
    BY <1>y, <2>4, <2>6, <2>7, <2>8 DEF ClockInv
<1>2. ASSUME NEW p \in Threads, InsertRead(p) PROVE ClockInv'
  <2> DEFINE after == tm[job[p].timer].after_ms
  <2>1. /\ pc[p] = "insert" /\ pc' = [pc EXCEPT ![p] = "link"]
        /\ UNCHANGED <<now, time_last, db, tm, left>>
        /\ job' = [job EXCEPT ![p].stamp = now, ![p].togo = after]
    BY <1>2 DEF InsertRead, Goto
  <2>2. job[p].timer \in Timers /\ after \in Nat
    BY <1>c, <1>t, <2>1 DEF CallSites
  <2>3. /\ job'[p].stamp = now /\ job'[p].togo = after /\ job'[p].timer = job[p].timer
        /\ \A q \in Threads : q # p => job'[q] = job[q]
    BY <1>g, <2>1 DEF TypeInv, TypeOK, Job
  <2>4. tm'[job'[p].timer].after_ms = after
    BY <2>1, <2>3
  <2> HIDE DEF after
  <2>5. LinkReading(job'[p], tm', time_last', now')
    BY <1>n, <2>1, <2>2, <2>3, <2>4 DEF LinkReading, FreshAt, Remain
  <2>6. ReadingsKnown'
    BY <1>r, <1>t, <1>z, <2>1, <2>3, <2>5
  <2> QED
    BY <1>i, <2>1, <2>6, ClockFrame DEF ClockInv, DelaysKnown
<1>3. ASSUME NEW p \in Threads, InsertLink(p) PROVE ClockInv'
  <2> DEFINE t == job[p].timer
             d == Wrap(Elapsed(time_last, job[p].stamp) + tm[t].after_ms)
  <2>1. /\ pc[p] = "link" /\ t \in Timers /\ UNCHANGED <<now, time_last, tm>>
        /\ pc' \in {[pc EXCEPT ![p] = "guard"], [pc EXCEPT ![p] = "mark"]}
        /\ db' = Insert(db, t, d)
        /\ left' = IF Listed(db, t) THEN left ELSE [left EXCEPT ![t] = job[p].togo]
    BY <1>3, <1>c DEF InsertLink, Goto, CallSites
  <2>2. d \in Ms /\ Remain(d, Elapsed(time_last, now)) = job[p].togo
    BY <1>3, <1>g, LinkDelay
  <2> HIDE DEF d
  <2>3. DuesExact(db', left', Elapsed(time_last', now')) /\ DuesKnown'
    <3>1. CASE Listed(db, t)
      <4>1. db' = db /\ left' = left
        BY <2>1, <3>1 DEF Insert
      <4> QED
        BY <1>i, <1>x, <2>1, <4>1 DEF DuesKnown
    <3>2. CASE ~Listed(db, t)
      <4>1. /\ Len(db') \in Nat
            /\ \A k \in 1..Len(db') :
                 \/ db'[k].timer = t /\ Offset(db')[k] = d
                 \/ \E j \in 1..Len(db) :
                      db'[k].timer = db[j].timer /\ Offset(db')[k] = Offset(db)[j]
        BY <1>d, <2>1, <2>2, <3>2, InsertDues
      <4>2. \A u : Listed(db', u) <=> Listed(db, u) \/ u = t
        BY <1>3, <1>g, LinkLists
      <4>3. /\ left'[t] = job[p].togo
            /\ \A u \in Timers : u # t => left'[u] = left[u]
        BY <1>g, <2>1, <3>2 DEF TypeInv, TypeOK
      <4>4. \A j \in 1..Len(db) : db[j].timer # t
        BY <3>2 DEF Listed
      <4>5. DuesExact(db', left', Elapsed(time_last', now'))
        <5> SUFFICES ASSUME NEW k \in 1..Len(db')
                     PROVE  left'[db'[k].timer] = Remain(Offset(db')[k], Elapsed(time_last, now))
          BY <2>1 DEF DuesExact
        <5>1. CASE db'[k].timer = t /\ Offset(db')[k] = d
          BY <2>2, <4>3, <5>1
        <5>2. ASSUME NEW j \in 1..Len(db),
                     db'[k].timer = db[j].timer /\ Offset(db')[k] = Offset(db)[j]
              PROVE  left'[db'[k].timer] = Remain(Offset(db')[k], Elapsed(time_last, now))
          BY <1>d, <1>x, <4>3, <4>4, <5>2 DEF DuesExact
        <5> QED
          BY <4>1, <5>1, <5>2
      <4>6. \A k \in 1..Len(db') : Offset(db')[k] <= MaxMs
        BY <1>i, <1>t, <2>2, <4>1 DEF DuesKnown
      <4>7. \A u \in Timers : ~Listed(db', u) => left'[u] = 0
        BY <1>i, <4>2, <4>3 DEF DuesKnown
      <4> QED
        BY <4>5, <4>6, <4>7 DEF DuesKnown
    <3> QED
      BY <3>1, <3>2
  <2>4. TimeBase' /\ DelaysKnown'
    BY <1>i, <2>1 DEF TimeBase, DelaysKnown
  <2>5. ReadingsKnown'
    <3>1. \A q \in Threads : pc'[q] # "link"
      BY <1>a, <1>t, <2>1 DEF CallSites
    <3>2. pc'[Thread] = "db" => Thread # p /\ pc[Thread] = "db" /\ job'[Thread] = job[Thread]
      BY <1>3, <1>t, <2>1 DEF InsertLink
    <3> QED
      BY <1>r, <1>z, <2>1, <3>1, <3>2
  <2> QED
    BY <1>y, <2>3, <2>4, <2>5 DEF ClockInv
<1>4. ASSUME NEW p \in Threads, Mark(p) \/ Free(p) PROVE ClockInv'
  <2> DEFINE t == job[p].timer
  <2>1. /\ pc[p] \in CallSites /\ t \in Timers
        /\ UNCHANGED <<now, time_last, db, left>>
        /\ pc' = [pc EXCEPT ![p] = IF p = Thread THEN "ret" ELSE "idle"]
        /\ job' = [job EXCEPT ![p] = Idle]
    BY <1>4, <1>c DEF Mark, Free, Return, Goto, CallSites
  <2>2. \A u \in Timers : tm'[u].after_ms = tm[u].after_ms
    BY SMTT(40), <1>4, <1>g, <2>1 DEF Mark, Free, TypeInv, TypeOK, Impl
  <2>3. \A q \in Threads : pc'[q] # "link"
    BY <1>a, <1>t, <2>1 DEF CallSites
  <2>4. pc'[Thread] = "db" => Thread # p /\ pc[Thread] = "db" /\ job'[Thread] = job[Thread]
    BY <1>t, <2>1
  <2> QED
    BY <1>i, <1>r, <1>z, <2>1, <2>2, <2>3, <2>4, ClockFrame DEF ClockInv, DelaysKnown
<1>5. ASSUME NEW p \in Threads, Unlink(p) PROVE ClockInv'
  <2> DEFINE t == job[p].timer
  <2>1. /\ pc[p] = "unlink" /\ t \in Timers /\ UNCHANGED <<now, time_last, tm, job>>
        /\ pc' = [pc EXCEPT ![p] = "free"] /\ db' = Remove(db, t)
        /\ left' = [left EXCEPT ![t] = 0]
    BY <1>5, <1>c DEF Unlink, Goto, CallSites
  <2>2. \A u : Listed(db', u) <=> Listed(db, u) /\ u # t
    BY <1>5, <1>g, UnlinkLists
  <2>3. /\ Len(db') \in Nat
        /\ \A k \in 1..Len(db') :
             /\ db'[k].timer # t
             /\ \E j \in 1..Len(db) :
                  db'[k].timer = db[j].timer /\ Offset(db')[k] = Offset(db)[j]
    <3>1. \A k \in 1..Len(db) : Offset(db)[k] <= MaxMs
      BY <1>i DEF DuesKnown
    <3> QED
      BY <1>d, <2>1, <3>1, RemoveDues, Z3
  <2>4. left'[t] = 0 /\ \A u \in Timers : u # t => left'[u] = left[u]
    BY <1>g, <2>1 DEF TypeInv, TypeOK
  <2>5. DuesExact(db', left', Elapsed(time_last', now'))
    BY <1>d, <1>x, <2>1, <2>3, <2>4 DEF DuesExact
  <2>6. DuesKnown'
    BY <1>i, <2>2, <2>3, <2>4 DEF DuesKnown
  <2>7. TimeBase' /\ DelaysKnown'
    BY <1>i, <2>1 DEF TimeBase, DelaysKnown
  <2>8. ReadingsKnown'
    BY <1>r, <1>t, <1>z, <2>1
  <2> QED
    BY <1>y, <2>5, <2>6, <2>7, <2>8 DEF ClockInv
<1>6. ASSUME NEW p \in Threads, NEW t \in Timers, NEW d \in Delays, NEW per \in BOOLEAN,
             Start(p, t, d, per)
      PROVE  ClockInv'
  <2>1. /\ UNCHANGED <<now, time_last, db, left>> /\ pc' = [pc EXCEPT ![p] = "insert"]
        /\ pc[p] = IF p = Thread THEN "op" ELSE "idle"
    BY <1>6 DEF Start, Goto, MayCall
  <2>2. /\ \A u \in Timers : u # t => tm'[u] = tm[u]
        /\ tm'[t].after_ms = d
        /\ \A q \in Threads : q # p => job'[q] = job[q]
    BY <1>6, <1>g DEF Start, TypeInv, TypeOK, Impl
  <2>3. \A q \in Threads : pc'[q] # "link"
    <3>1. p # Thread => guard = {}
      BY <1>6 DEF Start, MayCall, Take
    <3>2. \A q \in Threads : pc[q] \notin CallSites
      BY <1>a, <2>1, <3>1, Alone
    <3> QED
      BY <1>t, <2>1, <3>2 DEF CallSites
  <2>4. pc'[Thread] = "db" => Thread # p /\ pc[Thread] = "db" /\ job'[Thread] = job[Thread]
    BY <1>t, <2>1, <2>2
  <2> QED
    BY <1>i, <1>r, <1>z, <2>1, <2>2, <2>3, <2>4, ClockFrame DEF ClockInv, DelaysKnown
<1>7. ASSUME NEW p \in Threads, NEW t \in Timers, NEW op \in {"stop", "destroy"},
             Stop(p, t, op)
      PROVE  ClockInv'
  <2>1. /\ UNCHANGED <<now, time_last, db, left>>
        /\ pc' = [pc EXCEPT ![p] = IF tm[t].is_started THEN "unlink" ELSE "free"]
        /\ pc[p] = IF p = Thread THEN "op" ELSE "idle"
    BY <1>7 DEF Stop, Goto, MayCall
  <2>2. /\ \A u \in Timers : tm'[u].after_ms = tm[u].after_ms
        /\ \A q \in Threads : q # p => job'[q] = job[q]
    BY <1>7, <1>g DEF Stop, TypeInv, TypeOK, Impl
  <2>3. \A q \in Threads : pc'[q] # "link"
    <3>1. p # Thread => guard = {}
      BY <1>7 DEF Stop, MayCall, Take
    <3>2. \A q \in Threads : pc[q] \notin CallSites
      BY <1>a, <2>1, <3>1, Alone
    <3> QED
      BY <1>t, <2>1, <3>2 DEF CallSites
  <2>4. pc'[Thread] = "db" => Thread # p /\ pc[Thread] = "db" /\ job'[Thread] = job[Thread]
    BY <1>t, <2>1, <2>2
  <2> QED
    BY <1>i, <1>r, <1>z, <2>1, <2>2, <2>3, <2>4, ClockFrame DEF ClockInv, DelaysKnown
<1>8. ASSUME NEW p \in Clients, NEW t \in Timers, Construct(p, t) PROVE ClockInv'
  <2>1. /\ UNCHANGED <<now, time_last, db, left, pc, job>>
        /\ \A u \in Timers : tm'[u].after_ms = tm[u].after_ms
    BY <1>8, <1>g DEF Construct, TypeInv, TypeOK, Impl
  <2>2. ReadingsKnown'
    <3>1. \A q \in Threads : pc[q] = "link" => LinkReading(job'[q], tm', time_last', now')
      BY <1>c, <1>r, <2>1 DEF LinkReading, CallSites
    <3> QED
      BY <1>r, <1>z, <2>1, <3>1
  <2> QED
    BY <1>i, <2>1, <2>2, ClockFrame DEF ClockInv, DelaysKnown
<1>9. ASSUME Wake \/ PlainCallback PROVE ClockInv'
  <2>1. /\ UNCHANGED <<now, time_last, db, left, tm, job>>
        /\ pc' \in {[pc EXCEPT ![Thread] = "guard"], [pc EXCEPT ![Thread] = "ret"]}
    BY <1>9 DEF Wake, PlainCallback, Goto
  <2> QED
    BY <1>i, <1>r, <1>t, <1>z, <2>1, ClockFrame DEF ClockInv, DelaysKnown
<1>10. CASE EnterRound
  <2>1. /\ UNCHANGED <<now, time_last, db, left, tm>>
        /\ pc' = [pc EXCEPT ![Thread] = "db"] /\ job' = [job EXCEPT ![Thread].stamp = now]
    BY <1>10 DEF EnterRound, Goto
  <2>2. /\ job'[Thread].stamp = now
        /\ \A q \in Threads : q # Thread => job'[q] = job[q]
    BY <1>g, <1>t, <2>1 DEF TypeInv, TypeOK, Job
  <2>3. FreshAt(now, time_last, now)
    BY <1>n DEF FreshAt
  <2> QED
    BY <1>i, <1>r, <1>t, <1>z, <2>1, <2>2, <2>3, ClockFrame DEF ClockInv, DelaysKnown
<1>11. CASE Pop
  <2> DEFINE t == db[1].timer
  <2>1. /\ t \in Timers /\ 1 \in 1..Len(db)
        /\ \A u : Listed(db', u) <=> Listed(db, u) /\ u # t
    BY <1>11, <1>g, PopLists
  <2>2. /\ pc[Thread] = "db" /\ UNCHANGED <<now, time_last>> /\ db' = UnlinkAt(db, 1)
        /\ left' = [left EXCEPT ![t] = 0]
        /\ pc' \in {[pc EXCEPT ![Thread] = "op"], [pc EXCEPT ![Thread] = "guard"]}
    BY <1>11 DEF Pop, Goto
  <2>3. \A u \in Timers : tm'[u].after_ms = tm[u].after_ms
    BY <1>11, <1>g, <2>1 DEF Pop, TypeInv, TypeOK, Impl
  <2>4. /\ Len(db') \in Nat
        /\ \A k \in 1..Len(db') :
             /\ db'[k].timer # t
             /\ \E j \in 1..Len(db) :
                  db'[k].timer = db[j].timer /\ Offset(db')[k] = Offset(db)[j]
    <3>1. \A k \in 1..Len(db) : Offset(db)[k] <= MaxMs
      BY <1>i DEF DuesKnown
    <3> QED
      BY <1>d, <2>1, <2>2, <3>1, UnlinkDues, Z3
  <2>5. left'[t] = 0 /\ \A u \in Timers : u # t => left'[u] = left[u]
    BY <1>g, <2>1, <2>2 DEF TypeInv, TypeOK
  <2>6. DuesExact(db', left', Elapsed(time_last', now'))
    BY <1>d, <1>x, <2>2, <2>4, <2>5 DEF DuesExact
  <2>7. DuesKnown'
    BY <1>i, <2>1, <2>4, <2>5 DEF DuesKnown
  <2>8. TimeBase' /\ DelaysKnown'
    BY <1>i, <2>2, <2>3 DEF TimeBase, DelaysKnown
  <2>9. ReadingsKnown'
    <3>1. \A q \in Threads : pc'[q] # "link"
      BY <1>a, <1>t, <2>2 DEF CallSites
    <3> QED
      BY <1>t, <1>z, <2>2, <3>1
  <2> QED
    BY <1>y, <2>6, <2>7, <2>8, <2>9 DEF ClockInv
<1>12. CASE Rebase
  <2> DEFINE x == job[Thread].stamp
  <2>1. /\ pc[Thread] = "db" /\ db # <<>> /\ ~(db[1].delta_ms <= SinceLast)
        /\ time_last' = x /\ db' = Rebased(db, SinceLast)
        /\ pc' = [pc EXCEPT ![Thread] = "wait"] /\ UNCHANGED <<now, left, tm>>
    BY <1>12 DEF Rebase, Rebased, Due, Sleep, Goto
  <2>2. /\ x \in Ms /\ x \in Nat /\ Fresh(x) /\ x <= now
    <3>1. x \in Ms /\ x \in Nat
      BY <1>t
    <3>2. FreshAt(x, time_last, now)
      BY <1>r, <2>1
    <3> QED
      BY <3>1, <3>2 DEF FreshAt, Fresh
  <2>3. /\ SinceLast \in Nat /\ Elapsed(time_last, now) \in Nat
        /\ Elapsed(time_last, now) = SinceLast + (now - x)
    BY <1>g, <1>i, <2>2, FreshElapsed DEF SinceLast
  <2>4. Elapsed(time_last', now') = now - x
    BY <1>n, <2>1, <2>2 DEF Elapsed
  <2> HIDE DEF SinceLast, x
  <2>5. 1 \in 1..Len(db) /\ SinceLast <= db[1].delta_ms
    <3>1. 1 \in 1..Len(db)
      BY <1>d, <2>1
    <3>2. db[1].delta_ms \in Nat
      BY <1>d, <1>t, <3>1
    <3> QED
      BY <2>1, <2>3, <3>1, <3>2
  <2>6. /\ Len(db') \in Nat /\ Len(db') = Len(db)
        /\ \A k \in 1..Len(db') :
             db'[k].timer = db[k].timer /\ Offset(db')[k] = Offset(db)[k] - SinceLast
    BY <1>d, <2>1, <2>3, <2>5, RebaseDues, Z3
  <2>7. DuesExact(db', left', Elapsed(time_last', now'))
    <3> SUFFICES ASSUME NEW k \in 1..Len(db)
                 PROVE  left[db[k].timer] = Remain(Offset(db)[k] - SinceLast, now - x)
      BY <2>1, <2>4, <2>6 DEF DuesExact
    <3>1. left[db[k].timer] = Remain(Offset(db)[k], Elapsed(time_last, now))
      BY <1>x DEF DuesExact
    <3>2. Offset(db)[k] \in Nat
      BY <1>t
    <3> QED
      BY <1>n, <2>2, <2>3, <3>1, <3>2 DEF Remain
  <2>8. DuesKnown'
    <3>1. \A k \in 1..Len(db') : Offset(db')[k] <= MaxMs
      <4> SUFFICES ASSUME NEW k \in 1..Len(db) PROVE Offset(db)[k] - SinceLast <= MaxMs
        BY <2>6
      <4>1. Offset(db)[k] \in Nat /\ Offset(db)[k] <= MaxMs
        BY <1>i, <1>t DEF DuesKnown
      <4> QED
        BY <2>3, <4>1
    <3>2. \A u : Listed(db', u) <=> Listed(db, u)
      BY <1>12, <1>g, RebaseLists
    <3> QED
      BY <1>i, <2>1, <3>1, <3>2 DEF DuesKnown
  <2>9. TimeBase' /\ DelaysKnown'
    BY <1>i, <1>n, <2>1, <2>2 DEF TimeBase, DelaysKnown
  <2>10. ReadingsKnown'
    <3>1. \A q \in Threads : pc'[q] # "link"
      BY <1>a, <1>t, <2>1 DEF CallSites
    <3> QED
      BY <1>t, <1>z, <2>1, <3>1
  <2> QED
    BY <1>y, <2>7, <2>8, <2>9, <2>10 DEF ClockInv
<1>13. CASE StandDown
  <2>1. /\ pc[Thread] = "db" /\ UNCHANGED <<now, time_last, db, left, tm>>
        /\ pc' = [pc EXCEPT ![Thread] = "wait"]
    BY <1>13 DEF StandDown, Sleep, Goto
  <2>2. \A q \in Threads : pc'[q] # "link"
    BY <1>a, <1>t, <2>1 DEF CallSites
  <2> QED
    BY <1>i, <1>t, <1>z, <2>1, <2>2, ClockFrame DEF ClockInv, DelaysKnown
<1>14. ASSUME AfterOp \/ ThrowOp PROVE ClockInv'
  <2>1. /\ pc[Thread] = "ret" /\ UNCHANGED <<now, time_last, db, left, tm>>
        /\ pc' \in {[pc EXCEPT ![Thread] = "guard"], [pc EXCEPT ![Thread] = "insert"]}
    BY <1>14 DEF AfterOp, ThrowOp, Goto
  <2>2. \A q \in Threads : pc'[q] # "link"
    BY <1>a, <1>t, <2>1 DEF CallSites
  <2> QED
    BY <1>i, <1>t, <1>z, <2>1, <2>2, ClockFrame DEF ClockInv, DelaysKnown
<1>15. CASE UNCHANGED vars
  BY <1>15, <1>i, <1>r, <1>z, ClockFrame DEF vars, ClockInv, DelaysKnown
<1>16. CASE Next
  BY <1>1, <1>2, <1>3, <1>4, <1>5, <1>6, <1>7, <1>8, <1>9, <1>10, <1>11, <1>12, <1>13,
     <1>14, <1>16, NextCases
<1> QED
  BY <1>15, <1>16

\* TIMER_SAFE, while the clock does not come round: both inductive invariants
\* hold in every reachable state.
THEOREM ClockInvariant == ASSUME Guarded, NoWrap PROVE Spec => [](GuardedInv /\ ClockInv)
<1>1. GuardedInv /\ ClockInv /\ [Next]_vars => ClockInv'
  BY ClockStep
<1>2. Init => ClockInv
  BY ClockInit
<1> QED
  BY <1>1, <1>2, GuardedInvariant, PTL DEF Spec

\* The delta list is exact: whatever was inserted, popped, removed or rebased
\* before, the offset of a timer is its true time left (timer.cpp:183-191,
\* 247-261, 344, 365).
THEOREM Timer_ListExact == ASSUME Guarded, NoWrap PROVE Spec => []ListExact
<1>1. ClockInv => ListExact
  BY DEF ClockInv
<1> QED
  BY <1>1, ClockInvariant, PTL

\* A timer is popped only when nothing is left of its time: the thread goes by
\* a reading of the clock that can only have grown old (timer.cpp:183-191).
LEMMA PopIsDue ==
  ASSUME Guarded, NoWrap, GuardedInv, ClockInv, Pop
  PROVE  left[db[1].timer] = 0 /\ tm[db[1].timer].is_started
<1> DEFINE x == job[Thread].stamp
<1>g. TypeInv
  BY DEF GuardedInv
<1>1. /\ 1 \in 1..Len(db) /\ db[1].timer \in Timers /\ Listed(db, db[1].timer)
  BY <1>g, PopLists
<1>2. pc[Thread] = "db" /\ db[1].delta_ms <= SinceLast
  BY DEF Pop, Due
<1>3. left[db[1].timer] = Remain(Offset(db)[1], Elapsed(time_last, now))
  BY <1>1, ListExactForm DEF ClockInv, DuesExact
<1>4. /\ x \in Ms /\ Fresh(x) /\ Thread \in Threads
  BY <1>g, <1>2, ClockTypes DEF ClockInv, ReadingsKnown
<1>5. /\ SinceLast \in Nat /\ Elapsed(time_last, now) \in Nat /\ now - x \in Nat
      /\ Elapsed(time_last, now) = SinceLast + (now - x)
  BY <1>g, <1>4, FreshElapsed DEF SinceLast, ClockInv
<1>6. Offset(db)[1] = db[1].delta_ms /\ db[1].delta_ms \in Nat
  <2>1. Offset(db)[1] = Offset(db)[1-1] + db[1].delta_ms /\ db[1].delta_ms \in Nat
    BY <1>g, <1>1, ListTypes, OffsetStep
  <2>2. Offset(db)[1-1] = 0
    BY <1>g, ListTypes, OffsetDef
  <2> QED
    BY <2>1, <2>2
<1> HIDE DEF SinceLast, x
<1>7. left[db[1].timer] = 0
  BY <1>2, <1>3, <1>5, <1>6 DEF Remain
<1>8. tm[db[1].timer].is_started
  <2>1. \A u : ~Changing(u)
    BY <1>2, Alone DEF Changing, Quiet
  <2> QED
    BY <1>1, <2>1 DEF GuardedInv, ListSound
<1> QED
  BY <1>7, <1>8

\* The thread never fires a timer before its time, whatever its list went
\* through (timer.cpp:183-205).
THEOREM Timer_FiresOnTime == ASSUME Guarded, NoWrap PROVE Spec => FiresOnTime
<1>1. ASSUME GuardedInv, ClockInv, [Next]_vars, cur' # cur, cur' # None
      PROVE  left[cur'] = 0
  <2>1. Pop
    BY <1>1, NextCases DEF vars, Tick, InsertRead, InsertLink, Mark, Unlink, Free, Start,
       Stop, Construct, Wake, EnterRound, Rebase, StandDown, Sleep, PlainCallback, AfterOp, ThrowOp
  <2>2. cur' = db[1].timer
    BY <1>1, <2>1 DEF Pop
  <2> QED
    BY <1>1, <2>1, <2>2, PopIsDue
<1>2. GuardedInv /\ ClockInv /\ [Next]_vars => [cur' # cur /\ cur' # None => left[cur'] = 0]_vars
  BY <1>1
<1> QED
  BY <1>2, ClockInvariant, PTL DEF Spec, FiresOnTime
-----------------------------------------------------------------------------
\* What the list shows of the armed timers.
Armed == {t \in Timers : Listed(db, t)}

\* Under the guard there is at most one request on its way to the list.
LEMMA AskedForm ==
  GuardedInv =>
    /\ (\A p \in Threads : pc[p] # "link") => AskedOf = [timer |-> None, togo |-> 0]
    /\ \A p \in Threads : pc[p] = "link" =>
         AskedOf = [timer |-> job[p].timer, togo |-> job[p].togo]
<1> SUFFICES ASSUME GuardedInv
             PROVE  /\ (\A p \in Threads : pc[p] # "link") =>
                         AskedOf = [timer |-> None, togo |-> 0]
                    /\ \A p \in Threads : pc[p] = "link" =>
                         AskedOf = [timer |-> job[p].timer, togo |-> job[p].togo]
  OBVIOUS
<1>1. ASSUME \A p \in Threads : pc[p] # "link"
      PROVE  AskedOf = [timer |-> None, togo |-> 0]
  <2>1. Linking = {}
    BY <1>1 DEF Linking
  <2> QED
    BY <2>1 DEF AskedOf
<1>2. ASSUME NEW p \in Threads, pc[p] = "link"
      PROVE  AskedOf = [timer |-> job[p].timer, togo |-> job[p].togo]
  <2>1. Linking = {p}
    BY <1>2, Alone DEF Linking, CallSites
  <2>2. (CHOOSE q \in {p} : TRUE) = p
    OBVIOUS
  <2> QED
    BY <2>1, <2>2 DEF AskedOf
<1> QED
  BY <1>1, <1>2

\* The threads start as the service does.
LEMMA ServiceInit == Init => Service!Init
<1> SUFFICES ASSUME Init PROVE Service!Init
  OBVIOUS
<1>1. Len(db) = 0 /\ \A p \in Threads : pc[p] # "link"
  BY DEF Init
<1>2. Linking = {} /\ Armed = {}
  BY <1>1 DEF Linking, Armed, Listed
<1>3. AskedOf = [timer |-> None, togo |-> 0]
  BY <1>2 DEF AskedOf
<1> QED
  BY <1>2, <1>3 DEF Init, Armed, Service!Init, Service!Nobody

\* A step that shows nothing.
LEMMA ServiceStutter ==
  ASSUME Armed' = Armed, left' = left, AskedOf' = AskedOf, cur' = cur
  PROVE  UNCHANGED Service!vars
BY DEF Armed, Service!vars

\* Every step of the guarded threads is a step of the service, or shows
\* nothing: the clock ticks, a delay is asked for and armed, a timer is
\* disarmed, fires, and its callback ends.
LEMMA ServiceStep ==
  Guarded /\ NoWrap /\ GuardedInv /\ ClockInv /\ GuardedInv' /\ [Next]_vars
    => [Service!Next]_(Service!vars)
<1> SUFFICES ASSUME Guarded, NoWrap, GuardedInv, ClockInv, GuardedInv', [Next]_vars
             PROVE  Service!Next \/ UNCHANGED Service!vars
  OBVIOUS
<1> USE TimerAssumption
<1>g. TypeInv /\ CallsKnown
  BY DEF GuardedInv
<1>a. /\ \A p, q \in Threads : pc[p] \in CallSites /\ pc[q] \in CallSites => p = q
      /\ pc[Thread] \in {"db", "op", "ret"} => \A q \in Threads : pc[q] \notin CallSites
      /\ guard = {} => \A q \in Threads : pc[q] \notin CallSites
  BY Alone
<1>c. /\ \A p \in Threads : pc[p] \in CallSites => job[p].timer \in Timers
      /\ pc \in [Threads -> Locations] /\ Thread \in Threads
      /\ pc[Thread] = "ret" => cur \in Timers
      /\ pc[Thread] = "db" => cur = None
  BY <1>g DEF TypeInv, TypeOK, CallsTyped, Threads, GuardedInv, GuardHeld
<1>t. \A t \in Timers : left[t] \in Ms /\ tm[t].after_ms \in Ms
  BY <1>g, ClockTypes
<1>o. left \in [Timers -> Ms] /\ \A t \in Timers : ~Listed(db, t) => left[t] = 0
  BY <1>g DEF TypeInv, TypeOK, ClockInv, DuesKnown
<1>f. /\ (\A p \in Threads : pc[p] # "link") => AskedOf = Service!Nobody
      /\ \A p \in Threads : pc[p] = "link" =>
           AskedOf = [timer |-> job[p].timer, togo |-> job[p].togo]
  BY AskedForm DEF Service!Nobody
<1>h. /\ (\A p \in Threads : pc'[p] # "link") => AskedOf' = Service!Nobody
      /\ \A p \in Threads : pc'[p] = "link" =>
           AskedOf' = [timer |-> job'[p].timer, togo |-> job'[p].togo]
  <2>1. (GuardedInv =>
           /\ (\A p \in Threads : pc[p] # "link") => AskedOf = [timer |-> None, togo |-> 0]
           /\ \A p \in Threads : pc[p] = "link" =>
                AskedOf = [timer |-> job[p].timer, togo |-> job[p].togo])'
    BY AskedForm, PTL
  <2> QED
    BY <2>1 DEF Service!Nobody
<1>k. (\A p \in Threads : pc[p] # "link") /\ (\A p \in Threads : pc'[p] # "link")
        => AskedOf' = AskedOf
  BY <1>f, <1>h
\* A step of a thread that leaves the readings on their way alone.
<1>m. ASSUME \A p \in Threads : /\ pc'[p] = "link" <=> pc[p] = "link"
                                /\ pc[p] = "link" => job'[p] = job[p]
      PROVE  AskedOf' = AskedOf
  <2>1. CASE \A p \in Threads : pc[p] # "link"
    BY <1>k, <1>m, <2>1
  <2>2. ASSUME NEW p \in Threads, pc[p] = "link" PROVE AskedOf' = AskedOf
    BY <1>f, <1>h, <1>m, <2>2
  <2> QED
    BY <2>1, <2>2
<1>1. CASE Tick
  <2>1. /\ UNCHANGED <<db, cur, pc>> /\ left' = [t \in Timers |-> Less(left[t])]
        /\ job' = [p \in Threads |-> [job[p] EXCEPT !.togo = Less(@)]]
    BY <1>1 DEF Tick
  <2>2. AskedOf' = [AskedOf EXCEPT !.togo = Service!Less(@)]
    <3>1. CASE \A p \in Threads : pc[p] # "link"
      <4>1. AskedOf = Service!Nobody /\ AskedOf' = Service!Nobody
        BY <1>f, <1>h, <2>1, <3>1
      <4> QED
        BY <4>1 DEF Service!Nobody, Service!Less
    <3>2. ASSUME NEW p \in Threads, pc[p] = "link"
          PROVE  AskedOf' = [AskedOf EXCEPT !.togo = Service!Less(@)]
      <4>1. job'[p].timer = job[p].timer /\ job'[p].togo = Less(job[p].togo)
        BY <1>g, <2>1 DEF TypeInv, TypeOK, Job
      <4>2. /\ AskedOf = [timer |-> job[p].timer, togo |-> job[p].togo]
            /\ AskedOf' = [timer |-> job[p].timer, togo |-> Less(job[p].togo)]
        BY <1>f, <1>h, <2>1, <3>2, <4>1
      <4> QED
        BY <4>2 DEF Less, Service!Less
    <3> QED
      BY <3>1, <3>2
  <2>3. Service!Tick
    BY <2>1, <2>2 DEF Service!Tick, Less, Service!Less
  <2> QED
    BY <2>3 DEF Service!Next
<1>2. ASSUME NEW p \in Threads, InsertRead(p)
      PROVE  Service!Next \/ UNCHANGED Service!vars
  <2> DEFINE t == job[p].timer
             d == tm[t].after_ms
  <2>1. /\ pc[p] = "insert" /\ pc' = [pc EXCEPT ![p] = "link"] /\ UNCHANGED <<db, cur, left>>
        /\ job' = [job EXCEPT ![p].stamp = now, ![p].togo = d]
    BY <1>2 DEF InsertRead, Goto
  <2>2. t \in Timers /\ d \in Ms
    BY <1>c, <1>t, <2>1 DEF CallSites
  <2>3. job'[p].timer = t /\ job'[p].togo = d
    BY <1>g, <2>1 DEF TypeInv, TypeOK, Job
  <2>4. AskedOf = Service!Nobody
    BY <1>a, <1>f, <2>1 DEF CallSites
  <2>5. AskedOf' = [timer |-> t, togo |-> d]
    BY <1>c, <1>h, <2>1, <2>3
  <2>6. Service!Ask(t, d)
    BY <2>1, <2>4, <2>5 DEF Service!Ask, Listed
  <2> QED
    BY <2>2, <2>6 DEF Service!Next, Ms
<1>3. ASSUME NEW p \in Threads, InsertLink(p)
      PROVE  Service!Next \/ UNCHANGED Service!vars
  <2> DEFINE t == job[p].timer
  <2>1. /\ pc[p] = "link" /\ t \in Timers /\ UNCHANGED cur
        /\ pc' \in {[pc EXCEPT ![p] = "guard"], [pc EXCEPT ![p] = "mark"]}
        /\ left' = IF Listed(db, t) THEN left ELSE [left EXCEPT ![t] = job[p].togo]
    BY <1>3, <1>c DEF InsertLink, Goto, CallSites
  <2>2. \A u : Listed(db', u) <=> Listed(db, u) \/ u = t
    BY <1>3, <1>g, LinkLists
  <2>3. Armed' = Armed \cup {t}
    BY <2>1, <2>2 DEF Armed
  <2>4. /\ AskedOf = [timer |-> t, togo |-> job[p].togo] /\ AskedOf.timer = t
        /\ AskedOf.togo = job[p].togo
    BY <1>f, <2>1
  <2>5. AskedOf # Service!Nobody
    <3>1. Service!Nobody.timer = None /\ t # None
      BY <2>1 DEF Service!Nobody
    <3> QED
      BY <2>4, <3>1
  <2>6. AskedOf' = Service!Nobody
    BY <1>a, <1>c, <1>h, <2>1 DEF CallSites
  <2>7. Service!Arm
    BY <2>1, <2>3, <2>4, <2>5, <2>6 DEF Service!Arm, Armed
  <2> QED
    BY <2>7 DEF Service!Next
<1>4. ASSUME NEW p \in Threads, Mark(p) \/ Free(p)
      PROVE  Service!Next \/ UNCHANGED Service!vars
  <2>1. /\ pc[p] \in CallSites \ {"link"} /\ UNCHANGED <<db, cur, left>>
        /\ pc' = [pc EXCEPT ![p] = IF p = Thread THEN "ret" ELSE "idle"]
    BY <1>4 DEF Mark, Free, Return, Goto, CallSites
  <2>2. AskedOf' = AskedOf
    BY <1>a, <1>c, <1>k, <2>1 DEF CallSites
  <2> QED
    BY <2>1, <2>2, ServiceStutter DEF Armed
<1>5. ASSUME NEW p \in Threads, Unlink(p)
      PROVE  Service!Next \/ UNCHANGED Service!vars
  <2> DEFINE t == job[p].timer
  <2>1. /\ pc[p] = "unlink" /\ t \in Timers /\ UNCHANGED cur
        /\ pc' = [pc EXCEPT ![p] = "free"] /\ left' = [left EXCEPT ![t] = 0]
    BY <1>5, <1>c DEF Unlink, Goto, CallSites
  <2>2. \A u : Listed(db', u) <=> Listed(db, u) /\ u # t
    BY <1>5, <1>g, UnlinkLists
  <2>3. AskedOf' = AskedOf
    BY <1>a, <1>c, <1>k, <2>1 DEF CallSites
  <2>4. CASE Listed(db, t)
    <3>1. Armed' = Armed \ {t} /\ t \in Armed
      BY <2>1, <2>2, <2>4 DEF Armed
    <3>2. Service!Disarm(t)
      BY <2>1, <2>3, <3>1 DEF Service!Disarm, Armed
    <3> QED
      BY <2>1, <3>2 DEF Service!Next
  <2>5. CASE ~Listed(db, t)
    <3>1. Armed' = Armed
      BY <2>2, <2>5 DEF Armed
    <3>2. left' = left
      BY <1>o, <2>1, <2>5
    <3> QED
      BY <2>1, <2>3, <3>1, <3>2, ServiceStutter
  <2> QED
    BY <2>4, <2>5
<1>6. ASSUME NEW p \in Threads, NEW t \in Timers,
             \/ \E d \in Delays, per \in BOOLEAN : Start(p, t, d, per)
             \/ \E op \in {"stop", "destroy"} : Stop(p, t, op)
      PROVE  Service!Next \/ UNCHANGED Service!vars
  <2>1. /\ UNCHANGED <<db, cur, left>>
        /\ \E l \in {"insert", "unlink", "free"} : pc' = [pc EXCEPT ![p] = l]
        /\ \/ p = Thread /\ pc[Thread] = "op"
           \/ guard = {}
    BY <1>6 DEF Start, Stop, Goto, MayCall, Take
  <2>2. \A q \in Threads : pc[q] # "link"
    BY <1>a, <2>1 DEF CallSites
  <2>3. AskedOf' = AskedOf
    BY <1>c, <1>k, <2>1, <2>2
  <2> QED
    BY <2>1, <2>3, ServiceStutter DEF Armed
<1>7. ASSUME NEW p \in Clients, NEW t \in Timers, Construct(p, t)
      PROVE  Service!Next \/ UNCHANGED Service!vars
  <2>1. UNCHANGED <<db, pc, job, cur, left>>
    BY <1>7 DEF Construct
  <2>2. AskedOf' = AskedOf
    BY <1>m, <2>1
  <2> QED
    BY <2>1, <2>2, ServiceStutter DEF Armed
<1>8. ASSUME Wake \/ PlainCallback \/ EnterRound
      PROVE  Service!Next \/ UNCHANGED Service!vars
  <2>1. /\ UNCHANGED <<db, cur, left>> /\ pc[Thread] # "link"
        /\ \E l \in {"guard", "ret", "db"} : pc' = [pc EXCEPT ![Thread] = l]
    BY <1>8 DEF Wake, PlainCallback, EnterRound, Goto
  <2>2. \A q \in Threads : q # Thread => job'[q] = job[q]
    BY <1>8, <1>g DEF Wake, PlainCallback, EnterRound, TypeInv, TypeOK
  <2>3. AskedOf' = AskedOf
    BY <1>c, <1>m, <2>1, <2>2
  <2> QED
    BY <2>1, <2>3, ServiceStutter DEF Armed
<1>9. CASE Pop
  <2> DEFINE t == db[1].timer
  <2>1. /\ t \in Timers /\ Listed(db, t) /\ \A u : Listed(db', u) <=> Listed(db, u) /\ u # t
    BY <1>9, <1>g, PopLists
  <2>2. left[t] = 0 /\ tm[t].is_started
    BY <1>9, PopIsDue
  <2>3. /\ pc[Thread] = "db" /\ pc' = [pc EXCEPT ![Thread] = "op"] /\ cur' = t
        /\ left' = [left EXCEPT ![t] = 0]
    BY <1>9, <2>2 DEF Pop, Goto
  <2>4. AskedOf' = AskedOf
    BY <1>a, <1>c, <1>k, <2>3 DEF CallSites
  <2>5. Armed' = Armed \ {t} /\ t \in Armed
    BY <2>1 DEF Armed
  <2>6. left' = left
    BY <1>o, <2>1, <2>2, <2>3
  <2>7. Service!Fire(t)
    BY <1>c, <2>2, <2>3, <2>4, <2>5, <2>6 DEF Service!Fire, Armed
  <2> QED
    BY <2>1, <2>7 DEF Service!Next
<1>10. ASSUME Rebase \/ StandDown PROVE Service!Next \/ UNCHANGED Service!vars
  <2>1. /\ pc[Thread] = "db" /\ pc' = [pc EXCEPT ![Thread] = "wait"] /\ UNCHANGED <<cur, left>>
    BY <1>10 DEF Rebase, StandDown, Sleep, Goto
  <2>2. \A u : Listed(db', u) <=> Listed(db, u)
    BY <1>10, <1>g, RebaseLists DEF StandDown
  <2>3. Armed' = Armed
    BY <2>2 DEF Armed
  <2>4. AskedOf' = AskedOf
    BY <1>a, <1>c, <1>k, <2>1 DEF CallSites
  <2> QED
    BY <2>1, <2>3, <2>4, ServiceStutter
<1>11. ASSUME AfterOp \/ ThrowOp PROVE Service!Next \/ UNCHANGED Service!vars
  <2>1. /\ pc[Thread] = "ret" /\ UNCHANGED <<db, left>> /\ cur' = None
        /\ pc' \in {[pc EXCEPT ![Thread] = "guard"], [pc EXCEPT ![Thread] = "insert"]}
    BY <1>11 DEF AfterOp, ThrowOp, Goto
  <2>2. cur # None
    BY <1>c, <2>1
  <2>3. AskedOf' = AskedOf
    BY <1>a, <1>c, <1>k, <2>1 DEF CallSites
  <2>4. Service!Finish
    BY <2>1, <2>2, <2>3 DEF Service!Finish
  <2> QED
    BY <2>4 DEF Service!Next
<1>12. CASE UNCHANGED vars
  <2>1. UNCHANGED <<db, pc, job, cur, left>>
    BY <1>12 DEF vars
  <2>2. AskedOf' = AskedOf
    BY <1>m, <2>1
  <2> QED
    BY <2>1, <2>2, ServiceStutter DEF Armed
<1>13. CASE Next
  BY <1>1, <1>2, <1>3, <1>4, <1>5, <1>6, <1>7, <1>8, <1>9, <1>10, <1>11, <1>13, NextCases
<1> QED
  BY <1>12, <1>13

\* TIMER_SAFE, while the clock does not come round, is the service its owners
\* count on: no callback before its time, none after stop or a destructor, one
\* for each time a timer was armed (timer.h:10-17, 35-39).
THEOREM Timer_ImplementsService == ASSUME Guarded, NoWrap PROVE Spec => ImplementsService
<1>1. GuardedInv /\ ClockInv /\ GuardedInv' /\ [Next]_vars => [Service!Next]_(Service!vars)
  BY ServiceStep
<1> QED
  BY <1>1, ServiceInit, ClockInvariant, PTL DEF Spec, ImplementsService, Service!Spec
=============================================================================
