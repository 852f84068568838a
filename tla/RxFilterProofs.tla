---------------------------- MODULE RxFilterProofs ----------------------------
(***************************************************************************)
(* Proofs about the tables the filters of the receive flows share, with    *)
(* any number of flows, ports, windows, tag values and classes: a filter   *)
(* that is made or given back, whatever fails half way, keeps each use     *)
(* counted (FilterInv) and each table tidy (TidyInv).                      *)
(***************************************************************************)
EXTENDS RxFlowProofs

(* What holds along a fold.  StepOf is the step of every fold of RxFilter,   *)
(* chosen by its name: the lemmas about folds are stated and proved once.  *)

Began(r) == [r |-> r, ok |-> TRUE, n |-> 0]
\* One step of Each.
Tried(can, a, next) == IF a.ok /\ can THEN [a EXCEPT !.r = next, !.n = @ + 1] ELSE [a EXCEPT !.ok = FALSE]

TryChunk(a, c) == Tried(CanHoldChunk(a.r, c), a, HoldChunk(a.r, c))
TryUdf(a, c) == Tried(CanHoldUdf(a.r, c), a, HoldUdf(a.r, c))
TryTpid(a, c) == Tried(CanHoldTpid(a.r, c), a, HoldTpid(a.r, c))
TryEntry(a, c) == Tried(CanHoldEntry(a.r, c), a, HoldEntry(a.r, c))

StepOf(op, a, x) ==
  CASE op = "DropChunk" -> DropChunk(a, x)
    [] op = "TryChunk" -> TryChunk(a, x)
    [] op = "DropUdf" -> DropUdf(a, x)
    [] op = "TryUdf" -> TryUdf(a, x)
    [] op = "HoldTpid" -> HoldTpid(a, x)
    [] op = "DropTpid" -> DropTpid(a, x)
    [] op = "TryTpid" -> TryTpid(a, x)
    [] op = "DropEntry" -> DropEntry(a, x)
    [] op = "TryEntry" -> TryEntry(a, x)

Iterated(op, b, s, n, f) ==
  f = [t \in SUBSET (1..n) |->
         IF t = {} THEN b
         ELSE LET x == CHOOSE x \in t : \A y \in t : x >= y
              IN  StepOf(op, f[t \ {x}], s[x])]

\* The same up to sets of at most k elements.
Partly(op, b, s, n, k, f) ==
  f = [t \in UpTo(1..n, k) |->
         IF t = {} THEN b
         ELSE LET x == CHOOSE x \in t : \A y \in t : x >= y
              IN  StepOf(op, f[t \ {x}], s[x])]

LEMMA Highest ==
  ASSUME NEW n \in Nat, NEW t \in SUBSET (1..n), t # {}
  PROVE  (CHOOSE x \in t : \A y \in t : x >= y) \in t
<1> DEFINE T == {n - x : x \in t}
<1>1. T \subseteq Nat
  OBVIOUS
<1>5. T # {}
  OBVIOUS
<1>2. PICK m \in T : \A y \in T : m <= y
  <2> HIDE DEF T
  <2> QED BY <1>1, <1>5, NatMin
<1>3. PICK x \in t : m = n - x
  BY <1>2
<1>4. \A y \in t : x >= y
  <2>1. ASSUME NEW y \in t PROVE x >= y
    <3>1. m <= n - y
      BY <1>2
    <3> QED BY <1>3, <3>1
  <2> QED BY <2>1
<1> QED BY <1>3, <1>4

\* The function FoldLeft is defined by exists.
LEMMA IteratedExists ==
  ASSUME NEW op, NEW b, NEW s, NEW n \in Nat
  PROVE  \E f : Iterated(op, b, s, n, f)
<1> DEFINE S == 1..n
           Bad == {k \in Nat : ~ \E f : Partly(op, b, s, n, k, f)}
           Top(t) == CHOOSE x \in t : \A y \in t : x >= y
<1>0. IsFiniteSet(S) /\ Cardinality(S) = n
  BY FS_Interval
<1>1. \A T \in SUBSET S : IsFiniteSet(T) /\ Cardinality(T) \in Nat
  BY <1>0, FS_Subset, FS_CardinalityType
<1>2. Bad = {}
  <2>1. SUFFICES ASSUME Bad # {} PROVE FALSE
    OBVIOUS
  <2>2. PICK k \in Bad : \A m \in Bad : k <= m
    <3>1. Bad \subseteq Nat
      OBVIOUS
    <3> HIDE DEF Bad
    <3> QED BY <2>1, <3>1, NatMin
  <2>3. k \in Nat /\ ~ \E f : Partly(op, b, s, n, k, f)
    BY <2>2
  <2>4. k # 0
    <3>1. \A t \in UpTo(S, 0) : t = {}
      BY <1>1, FS_EmptySet DEF UpTo
    <3>2. Partly(op, b, s, n, 0, [t \in UpTo(S, 0) |-> b])
      BY <3>1 DEF Partly
    <3> QED BY <2>3, <3>2
  <2>5. PICK g : Partly(op, b, s, n, k - 1, g)
    <3>1. k - 1 \in Nat /\ ~(k <= k - 1)
      BY <2>3, <2>4
    <3>2. k - 1 \notin Bad
      <4> HIDE DEF Bad
      <4> QED BY <2>2, <3>1
    <3> QED BY <3>1, <3>2
  <2> DEFINE h == [t \in UpTo(S, k) |-> IF t = {} THEN b ELSE StepOf(op, g[t \ {Top(t)}], s[Top(t)])]
  <2>6. ASSUME NEW t \in UpTo(S, k - 1)
        PROVE  t \in UpTo(S, k) /\ h[t] = g[t]
    <3>1. t \in UpTo(S, k)
      BY <1>1, <2>3 DEF UpTo
    <3>2. g[t] = IF t = {} THEN b ELSE StepOf(op, g[t \ {Top(t)}], s[Top(t)])
      BY <2>5 DEF Partly
    <3> QED BY <3>1, <3>2
  <2>7. ASSUME NEW t \in UpTo(S, k), t # {}, NEW x \in t
        PROVE  t \ {x} \in UpTo(S, k - 1)
    <3>1. Cardinality(t \ {x}) = Cardinality(t) - 1
      BY <1>1, FS_RemoveElement DEF UpTo
    <3>2. t \ {x} \in SUBSET S /\ Cardinality(t) \in Nat /\ Cardinality(t) <= k
      BY <1>1 DEF UpTo
    <3> QED BY <2>3, <3>1, <3>2 DEF UpTo
  <2>8. \A t \in UpTo(S, k) :
          h[t] = IF t = {} THEN b ELSE StepOf(op, h[t \ {Top(t)}], s[Top(t)])
    <3>1. ASSUME NEW t \in UpTo(S, k), t # {}
          PROVE  h[t] = StepOf(op, h[t \ {Top(t)}], s[Top(t)])
      <4> DEFINE x == Top(t)
      <4>1. x \in t
        BY <3>1, Highest DEF UpTo
      <4>2. h[t] = StepOf(op, g[t \ {x}], s[x])
        BY <3>1
      <4> HIDE DEF x, h
      <4>3. h[t \ {x}] = g[t \ {x}]
        BY <2>6, <2>7, <3>1, <4>1
      <4>4. h[t] = StepOf(op, h[t \ {x}], s[x])
        BY <4>2, <4>3
      <4> QED BY <4>4 DEF x
    <3>2. ASSUME NEW t \in UpTo(S, k), t = {} PROVE h[t] = b
      BY <3>2
    <3> HIDE DEF h, Top
    <3> QED BY <3>1, <3>2
  <2>9. h = [t \in UpTo(S, k) |-> h[t]]
    OBVIOUS
  <2>10. Partly(op, b, s, n, k, h)
    <3> HIDE DEF h
    <3> QED BY <2>8, <2>9 DEF Partly
  <2> QED BY <2>3, <2>10
<1>3. n \notin Bad
  BY <1>2
<1>4. PICK f : Partly(op, b, s, n, n, f)
  BY <1>3
<1>5. UpTo(S, n) = SUBSET S
  <2>1. ASSUME NEW T \in SUBSET S PROVE Cardinality(T) <= n
    BY <1>0, FS_Subset
  <2> QED BY <2>1 DEF UpTo
<1>6. Iterated(op, b, s, n, f)
  BY <1>4, <1>5 DEF Partly, Iterated
<1> QED BY <1>6

\* What holds of the base and of each step from the prefix before holds of the
\* fold over s.
LEMMA FoldKeeps ==
  ASSUME NEW op, NEW b, NEW s, NEW n \in Nat, NEW g, Iterated(op, b, s, n, g), NEW I,
         <<0, b>> \in I,
         \A i \in 1..n : \A a : <<i - 1, a>> \in I => <<i, StepOf(op, a, s[i])>> \in I
  PROVE  <<n, g[1..n]>> \in I
<1> DEFINE Bad == {k \in 0..n : <<k, g[1..k]>> \notin I}
<1>1. Iterated(op, b, s, n, g)
  OBVIOUS
<1>2. g[1..0] = b
  BY <1>1 DEF Iterated
<1>3. ASSUME NEW k \in 1..n PROVE g[1..k] = StepOf(op, g[1..(k - 1)], s[k])
  <2> DEFINE t == 1..k
             x == CHOOSE x \in t : \A y \in t : x >= y
  <2>1. t \in SUBSET (1..n) /\ t # {}
    OBVIOUS
  <2>2. x = k
    <3>1. k \in t /\ \A y \in t : k >= y
      OBVIOUS
    <3>2. \A z \in t : (\A y \in t : z >= y) => z = k
      OBVIOUS
    <3> QED BY <3>1, <3>2
  <2>3. g[t] = StepOf(op, g[t \ {x}], s[x])
    <3> HIDE DEF t
    <3> QED BY <1>1, <2>1 DEF Iterated
  <2>4. t \ {k} = 1..(k - 1)
    OBVIOUS
  <2> HIDE DEF x
  <2>5. g[t] = StepOf(op, g[1..(k - 1)], s[k])
    BY <2>2, <2>3, <2>4
  <2> QED BY <2>5
<1>4. Bad = {}
  <2>1. SUFFICES ASSUME Bad # {} PROVE FALSE
    OBVIOUS
  <2>2. PICK k \in Bad : \A m \in Bad : k <= m
    <3>1. Bad \subseteq Nat
      OBVIOUS
    <3> HIDE DEF Bad
    <3> QED BY <2>1, <3>1, NatMin
  <2>3. k \in 0..n /\ <<k, g[1..k]>> \notin I
    BY <2>2
  <2>4. k # 0
    BY <1>2, <2>3
  <2>5. k - 1 \in 0..n /\ k \in 1..n
    BY <2>3, <2>4
  <2>6. k - 1 \notin Bad
    <3>1. ~(k <= k - 1)
      BY <2>3
    <3> HIDE DEF Bad
    <3> QED BY <2>2, <3>1
  <2>7. <<k - 1, g[1..(k - 1)]>> \in I
    BY <2>5, <2>6
  <2>8. <<k, StepOf(op, g[1..(k - 1)], s[k])>> \in I
    BY <2>5, <2>7
  <2> QED BY <1>3, <2>3, <2>5, <2>8
<1>5. <<n, g[1..n]>> \in I
  <2>1. n \in 0..n
    OBVIOUS
  <2> QED BY <1>4, <2>1
<1> QED BY <1>5

DropChunkRun(b, s, n, f) ==
  f = [t \in SUBSET (1..n) |->
         IF t = {} THEN b
         ELSE LET x == CHOOSE x \in t : \A y \in t : x >= y
              IN  DropChunk(f[t \ {x}], s[x])]

LEMMA DropChunkFold ==
  ASSUME NEW r, NEW ks, Len(ks) \in Nat, DOMAIN ks = 1..Len(ks), NEW I, <<0, r>> \in I,
         \A i \in 1..Len(ks) : \A q : <<i - 1, q>> \in I => <<i, DropChunk(q, ks[i])>> \in I
  PROVE  <<Len(ks), FoldLeft(DropChunk, r, ks)>> \in I
<1> DEFINE g == CHOOSE f : DropChunkRun(r, ks, Len(ks), f)
<1>1. FoldLeft(DropChunk, r, ks) = g[1..Len(ks)]
  BY DEF FoldLeft, MapThenFoldSet, Max, DropChunkRun
<1>2. \A a, x : StepOf("DropChunk", a, x) = DropChunk(a, x)
  BY DEF StepOf
<1>3. ASSUME NEW f
      PROVE  DropChunkRun(r, ks, Len(ks), f) <=> Iterated("DropChunk", r, ks, Len(ks), f)
  <2> DEFINE A(t) == LET x == CHOOSE x \in t : \A y \in t : x >= y
                     IN  DropChunk(f[t \ {x}], ks[x])
             B(t) == LET x == CHOOSE x \in t : \A y \in t : x >= y
                     IN  StepOf("DropChunk", f[t \ {x}], ks[x])
  <2>1. \A t : A(t) = B(t)
    BY <1>2
  <2> HIDE DEF A, B
  <2>2. [t \in SUBSET (1..Len(ks)) |-> IF t = {} THEN r ELSE A(t)] =
        [t \in SUBSET (1..Len(ks)) |-> IF t = {} THEN r ELSE B(t)]
    BY <2>1
  <2> QED BY <2>2 DEF DropChunkRun, Iterated, A, B
<1>4. Iterated("DropChunk", r, ks, Len(ks), g)
  BY <1>3, IteratedExists
<1> HIDE DEF g
<1>5. <<Len(ks), g[1..Len(ks)]>> \in I
  BY <1>2, <1>4, FoldKeeps
<1> QED BY <1>1, <1>5

TryChunkRun(b, s, n, f) ==
  f = [t \in SUBSET (1..n) |->
         IF t = {} THEN b
         ELSE LET x == CHOOSE x \in t : \A y \in t : x >= y
              IN  TryChunk(f[t \ {x}], s[x])]

LEMMA TryChunkFold ==
  ASSUME NEW r, NEW ks, Len(ks) \in Nat, DOMAIN ks = 1..Len(ks), NEW I, <<0, Began(r)>> \in I,
         \A i \in 1..Len(ks) : \A q : <<i - 1, q>> \in I => <<i, TryChunk(q, ks[i])>> \in I
  PROVE  <<Len(ks), Each(CanHoldChunk, HoldChunk, r, ks)>> \in I
<1> DEFINE g == CHOOSE f : TryChunkRun(Began(r), ks, Len(ks), f)
<1>1. Each(CanHoldChunk, HoldChunk, r, ks) = g[1..Len(ks)]
  BY DEF Each, FoldLeft, MapThenFoldSet, Max, TryChunk, Tried, Began, TryChunkRun
<1>2. \A a, x : StepOf("TryChunk", a, x) = TryChunk(a, x)
  BY DEF StepOf
<1>3. ASSUME NEW f
      PROVE  TryChunkRun(Began(r), ks, Len(ks), f) <=> Iterated("TryChunk", Began(r), ks, Len(ks), f)
  <2> DEFINE A(t) == LET x == CHOOSE x \in t : \A y \in t : x >= y
                     IN  TryChunk(f[t \ {x}], ks[x])
             B(t) == LET x == CHOOSE x \in t : \A y \in t : x >= y
                     IN  StepOf("TryChunk", f[t \ {x}], ks[x])
  <2>1. \A t : A(t) = B(t)
    BY <1>2
  <2> HIDE DEF A, B
  <2>2. [t \in SUBSET (1..Len(ks)) |-> IF t = {} THEN Began(r) ELSE A(t)] =
        [t \in SUBSET (1..Len(ks)) |-> IF t = {} THEN Began(r) ELSE B(t)]
    BY <2>1
  <2> QED BY <2>2 DEF TryChunkRun, Iterated, A, B
<1>4. Iterated("TryChunk", Began(r), ks, Len(ks), g)
  BY <1>3, IteratedExists
<1> HIDE DEF g
<1>5. <<Len(ks), g[1..Len(ks)]>> \in I
  BY <1>2, <1>4, FoldKeeps
<1> QED BY <1>1, <1>5

DropUdfRun(b, s, n, f) ==
  f = [t \in SUBSET (1..n) |->
         IF t = {} THEN b
         ELSE LET x == CHOOSE x \in t : \A y \in t : x >= y
              IN  DropUdf(f[t \ {x}], s[x])]

LEMMA DropUdfFold ==
  ASSUME NEW r, NEW ks, Len(ks) \in Nat, DOMAIN ks = 1..Len(ks), NEW I, <<0, r>> \in I,
         \A i \in 1..Len(ks) : \A q : <<i - 1, q>> \in I => <<i, DropUdf(q, ks[i])>> \in I
  PROVE  <<Len(ks), FoldLeft(DropUdf, r, ks)>> \in I
<1> DEFINE g == CHOOSE f : DropUdfRun(r, ks, Len(ks), f)
<1>1. FoldLeft(DropUdf, r, ks) = g[1..Len(ks)]
  BY DEF FoldLeft, MapThenFoldSet, Max, DropUdfRun
<1>2. \A a, x : StepOf("DropUdf", a, x) = DropUdf(a, x)
  BY DEF StepOf
<1>3. ASSUME NEW f
      PROVE  DropUdfRun(r, ks, Len(ks), f) <=> Iterated("DropUdf", r, ks, Len(ks), f)
  <2> DEFINE A(t) == LET x == CHOOSE x \in t : \A y \in t : x >= y
                     IN  DropUdf(f[t \ {x}], ks[x])
             B(t) == LET x == CHOOSE x \in t : \A y \in t : x >= y
                     IN  StepOf("DropUdf", f[t \ {x}], ks[x])
  <2>1. \A t : A(t) = B(t)
    BY <1>2
  <2> HIDE DEF A, B
  <2>2. [t \in SUBSET (1..Len(ks)) |-> IF t = {} THEN r ELSE A(t)] =
        [t \in SUBSET (1..Len(ks)) |-> IF t = {} THEN r ELSE B(t)]
    BY <2>1
  <2> QED BY <2>2 DEF DropUdfRun, Iterated, A, B
<1>4. Iterated("DropUdf", r, ks, Len(ks), g)
  BY <1>3, IteratedExists
<1> HIDE DEF g
<1>5. <<Len(ks), g[1..Len(ks)]>> \in I
  BY <1>2, <1>4, FoldKeeps
<1> QED BY <1>1, <1>5

TryUdfRun(b, s, n, f) ==
  f = [t \in SUBSET (1..n) |->
         IF t = {} THEN b
         ELSE LET x == CHOOSE x \in t : \A y \in t : x >= y
              IN  TryUdf(f[t \ {x}], s[x])]

LEMMA TryUdfFold ==
  ASSUME NEW r, NEW ks, Len(ks) \in Nat, DOMAIN ks = 1..Len(ks), NEW I, <<0, Began(r)>> \in I,
         \A i \in 1..Len(ks) : \A q : <<i - 1, q>> \in I => <<i, TryUdf(q, ks[i])>> \in I
  PROVE  <<Len(ks), Each(CanHoldUdf, HoldUdf, r, ks)>> \in I
<1> DEFINE g == CHOOSE f : TryUdfRun(Began(r), ks, Len(ks), f)
<1>1. Each(CanHoldUdf, HoldUdf, r, ks) = g[1..Len(ks)]
  BY DEF Each, FoldLeft, MapThenFoldSet, Max, TryUdf, Tried, Began, TryUdfRun
<1>2. \A a, x : StepOf("TryUdf", a, x) = TryUdf(a, x)
  BY DEF StepOf
<1>3. ASSUME NEW f
      PROVE  TryUdfRun(Began(r), ks, Len(ks), f) <=> Iterated("TryUdf", Began(r), ks, Len(ks), f)
  <2> DEFINE A(t) == LET x == CHOOSE x \in t : \A y \in t : x >= y
                     IN  TryUdf(f[t \ {x}], ks[x])
             B(t) == LET x == CHOOSE x \in t : \A y \in t : x >= y
                     IN  StepOf("TryUdf", f[t \ {x}], ks[x])
  <2>1. \A t : A(t) = B(t)
    BY <1>2
  <2> HIDE DEF A, B
  <2>2. [t \in SUBSET (1..Len(ks)) |-> IF t = {} THEN Began(r) ELSE A(t)] =
        [t \in SUBSET (1..Len(ks)) |-> IF t = {} THEN Began(r) ELSE B(t)]
    BY <2>1
  <2> QED BY <2>2 DEF TryUdfRun, Iterated, A, B
<1>4. Iterated("TryUdf", Began(r), ks, Len(ks), g)
  BY <1>3, IteratedExists
<1> HIDE DEF g
<1>5. <<Len(ks), g[1..Len(ks)]>> \in I
  BY <1>2, <1>4, FoldKeeps
<1> QED BY <1>1, <1>5

HoldTpidRun(b, s, n, f) ==
  f = [t \in SUBSET (1..n) |->
         IF t = {} THEN b
         ELSE LET x == CHOOSE x \in t : \A y \in t : x >= y
              IN  HoldTpid(f[t \ {x}], s[x])]

LEMMA HoldTpidFold ==
  ASSUME NEW r, NEW ks, Len(ks) \in Nat, DOMAIN ks = 1..Len(ks), NEW I, <<0, r>> \in I,
         \A i \in 1..Len(ks) : \A q : <<i - 1, q>> \in I => <<i, HoldTpid(q, ks[i])>> \in I
  PROVE  <<Len(ks), FoldLeft(HoldTpid, r, ks)>> \in I
<1> DEFINE g == CHOOSE f : HoldTpidRun(r, ks, Len(ks), f)
<1>1. FoldLeft(HoldTpid, r, ks) = g[1..Len(ks)]
  BY DEF FoldLeft, MapThenFoldSet, Max, HoldTpidRun
<1>2. \A a, x : StepOf("HoldTpid", a, x) = HoldTpid(a, x)
  BY DEF StepOf
<1>3. ASSUME NEW f
      PROVE  HoldTpidRun(r, ks, Len(ks), f) <=> Iterated("HoldTpid", r, ks, Len(ks), f)
  <2> DEFINE A(t) == LET x == CHOOSE x \in t : \A y \in t : x >= y
                     IN  HoldTpid(f[t \ {x}], ks[x])
             B(t) == LET x == CHOOSE x \in t : \A y \in t : x >= y
                     IN  StepOf("HoldTpid", f[t \ {x}], ks[x])
  <2>1. \A t : A(t) = B(t)
    BY <1>2
  <2> HIDE DEF A, B
  <2>2. [t \in SUBSET (1..Len(ks)) |-> IF t = {} THEN r ELSE A(t)] =
        [t \in SUBSET (1..Len(ks)) |-> IF t = {} THEN r ELSE B(t)]
    BY <2>1
  <2> QED BY <2>2 DEF HoldTpidRun, Iterated, A, B
<1>4. Iterated("HoldTpid", r, ks, Len(ks), g)
  BY <1>3, IteratedExists
<1> HIDE DEF g
<1>5. <<Len(ks), g[1..Len(ks)]>> \in I
  BY <1>2, <1>4, FoldKeeps
<1> QED BY <1>1, <1>5

DropTpidRun(b, s, n, f) ==
  f = [t \in SUBSET (1..n) |->
         IF t = {} THEN b
         ELSE LET x == CHOOSE x \in t : \A y \in t : x >= y
              IN  DropTpid(f[t \ {x}], s[x])]

LEMMA DropTpidFold ==
  ASSUME NEW r, NEW ks, Len(ks) \in Nat, DOMAIN ks = 1..Len(ks), NEW I, <<0, r>> \in I,
         \A i \in 1..Len(ks) : \A q : <<i - 1, q>> \in I => <<i, DropTpid(q, ks[i])>> \in I
  PROVE  <<Len(ks), FoldLeft(DropTpid, r, ks)>> \in I
<1> DEFINE g == CHOOSE f : DropTpidRun(r, ks, Len(ks), f)
<1>1. FoldLeft(DropTpid, r, ks) = g[1..Len(ks)]
  BY DEF FoldLeft, MapThenFoldSet, Max, DropTpidRun
<1>2. \A a, x : StepOf("DropTpid", a, x) = DropTpid(a, x)
  BY DEF StepOf
<1>3. ASSUME NEW f
      PROVE  DropTpidRun(r, ks, Len(ks), f) <=> Iterated("DropTpid", r, ks, Len(ks), f)
  <2> DEFINE A(t) == LET x == CHOOSE x \in t : \A y \in t : x >= y
                     IN  DropTpid(f[t \ {x}], ks[x])
             B(t) == LET x == CHOOSE x \in t : \A y \in t : x >= y
                     IN  StepOf("DropTpid", f[t \ {x}], ks[x])
  <2>1. \A t : A(t) = B(t)
    BY <1>2
  <2> HIDE DEF A, B
  <2>2. [t \in SUBSET (1..Len(ks)) |-> IF t = {} THEN r ELSE A(t)] =
        [t \in SUBSET (1..Len(ks)) |-> IF t = {} THEN r ELSE B(t)]
    BY <2>1
  <2> QED BY <2>2 DEF DropTpidRun, Iterated, A, B
<1>4. Iterated("DropTpid", r, ks, Len(ks), g)
  BY <1>3, IteratedExists
<1> HIDE DEF g
<1>5. <<Len(ks), g[1..Len(ks)]>> \in I
  BY <1>2, <1>4, FoldKeeps
<1> QED BY <1>1, <1>5

TryTpidRun(b, s, n, f) ==
  f = [t \in SUBSET (1..n) |->
         IF t = {} THEN b
         ELSE LET x == CHOOSE x \in t : \A y \in t : x >= y
              IN  TryTpid(f[t \ {x}], s[x])]

LEMMA TryTpidFold ==
  ASSUME NEW r, NEW ks, Len(ks) \in Nat, DOMAIN ks = 1..Len(ks), NEW I, <<0, Began(r)>> \in I,
         \A i \in 1..Len(ks) : \A q : <<i - 1, q>> \in I => <<i, TryTpid(q, ks[i])>> \in I
  PROVE  <<Len(ks), Each(CanHoldTpid, HoldTpid, r, ks)>> \in I
<1> DEFINE g == CHOOSE f : TryTpidRun(Began(r), ks, Len(ks), f)
<1>1. Each(CanHoldTpid, HoldTpid, r, ks) = g[1..Len(ks)]
  BY DEF Each, FoldLeft, MapThenFoldSet, Max, TryTpid, Tried, Began, TryTpidRun
<1>2. \A a, x : StepOf("TryTpid", a, x) = TryTpid(a, x)
  BY DEF StepOf
<1>3. ASSUME NEW f
      PROVE  TryTpidRun(Began(r), ks, Len(ks), f) <=> Iterated("TryTpid", Began(r), ks, Len(ks), f)
  <2> DEFINE A(t) == LET x == CHOOSE x \in t : \A y \in t : x >= y
                     IN  TryTpid(f[t \ {x}], ks[x])
             B(t) == LET x == CHOOSE x \in t : \A y \in t : x >= y
                     IN  StepOf("TryTpid", f[t \ {x}], ks[x])
  <2>1. \A t : A(t) = B(t)
    BY <1>2
  <2> HIDE DEF A, B
  <2>2. [t \in SUBSET (1..Len(ks)) |-> IF t = {} THEN Began(r) ELSE A(t)] =
        [t \in SUBSET (1..Len(ks)) |-> IF t = {} THEN Began(r) ELSE B(t)]
    BY <2>1
  <2> QED BY <2>2 DEF TryTpidRun, Iterated, A, B
<1>4. Iterated("TryTpid", Began(r), ks, Len(ks), g)
  BY <1>3, IteratedExists
<1> HIDE DEF g
<1>5. <<Len(ks), g[1..Len(ks)]>> \in I
  BY <1>2, <1>4, FoldKeeps
<1> QED BY <1>1, <1>5

DropEntryRun(b, s, n, f) ==
  f = [t \in SUBSET (1..n) |->
         IF t = {} THEN b
         ELSE LET x == CHOOSE x \in t : \A y \in t : x >= y
              IN  DropEntry(f[t \ {x}], s[x])]

LEMMA DropEntryFold ==
  ASSUME NEW r, NEW ks, Len(ks) \in Nat, DOMAIN ks = 1..Len(ks), NEW I, <<0, r>> \in I,
         \A i \in 1..Len(ks) : \A q : <<i - 1, q>> \in I => <<i, DropEntry(q, ks[i])>> \in I
  PROVE  <<Len(ks), FoldLeft(DropEntry, r, ks)>> \in I
<1> DEFINE g == CHOOSE f : DropEntryRun(r, ks, Len(ks), f)
<1>1. FoldLeft(DropEntry, r, ks) = g[1..Len(ks)]
  BY DEF FoldLeft, MapThenFoldSet, Max, DropEntryRun
<1>2. \A a, x : StepOf("DropEntry", a, x) = DropEntry(a, x)
  BY DEF StepOf
<1>3. ASSUME NEW f
      PROVE  DropEntryRun(r, ks, Len(ks), f) <=> Iterated("DropEntry", r, ks, Len(ks), f)
  <2> DEFINE A(t) == LET x == CHOOSE x \in t : \A y \in t : x >= y
                     IN  DropEntry(f[t \ {x}], ks[x])
             B(t) == LET x == CHOOSE x \in t : \A y \in t : x >= y
                     IN  StepOf("DropEntry", f[t \ {x}], ks[x])
  <2>1. \A t : A(t) = B(t)
    BY <1>2
  <2> HIDE DEF A, B
  <2>2. [t \in SUBSET (1..Len(ks)) |-> IF t = {} THEN r ELSE A(t)] =
        [t \in SUBSET (1..Len(ks)) |-> IF t = {} THEN r ELSE B(t)]
    BY <2>1
  <2> QED BY <2>2 DEF DropEntryRun, Iterated, A, B
<1>4. Iterated("DropEntry", r, ks, Len(ks), g)
  BY <1>3, IteratedExists
<1> HIDE DEF g
<1>5. <<Len(ks), g[1..Len(ks)]>> \in I
  BY <1>2, <1>4, FoldKeeps
<1> QED BY <1>1, <1>5

TryEntryRun(b, s, n, f) ==
  f = [t \in SUBSET (1..n) |->
         IF t = {} THEN b
         ELSE LET x == CHOOSE x \in t : \A y \in t : x >= y
              IN  TryEntry(f[t \ {x}], s[x])]

LEMMA TryEntryFold ==
  ASSUME NEW r, NEW ks, Len(ks) \in Nat, DOMAIN ks = 1..Len(ks), NEW I, <<0, Began(r)>> \in I,
         \A i \in 1..Len(ks) : \A q : <<i - 1, q>> \in I => <<i, TryEntry(q, ks[i])>> \in I
  PROVE  <<Len(ks), Each(CanHoldEntry, HoldEntry, r, ks)>> \in I
<1> DEFINE g == CHOOSE f : TryEntryRun(Began(r), ks, Len(ks), f)
<1>1. Each(CanHoldEntry, HoldEntry, r, ks) = g[1..Len(ks)]
  BY DEF Each, FoldLeft, MapThenFoldSet, Max, TryEntry, Tried, Began, TryEntryRun
<1>2. \A a, x : StepOf("TryEntry", a, x) = TryEntry(a, x)
  BY DEF StepOf
<1>3. ASSUME NEW f
      PROVE  TryEntryRun(Began(r), ks, Len(ks), f) <=> Iterated("TryEntry", Began(r), ks, Len(ks), f)
  <2> DEFINE A(t) == LET x == CHOOSE x \in t : \A y \in t : x >= y
                     IN  TryEntry(f[t \ {x}], ks[x])
             B(t) == LET x == CHOOSE x \in t : \A y \in t : x >= y
                     IN  StepOf("TryEntry", f[t \ {x}], ks[x])
  <2>1. \A t : A(t) = B(t)
    BY <1>2
  <2> HIDE DEF A, B
  <2>2. [t \in SUBSET (1..Len(ks)) |-> IF t = {} THEN Began(r) ELSE A(t)] =
        [t \in SUBSET (1..Len(ks)) |-> IF t = {} THEN Began(r) ELSE B(t)]
    BY <2>1
  <2> QED BY <2>2 DEF TryEntryRun, Iterated, A, B
<1>4. Iterated("TryEntry", Began(r), ks, Len(ks), g)
  BY <1>3, IteratedExists
<1> HIDE DEF g
<1>5. <<Len(ks), g[1..Len(ks)]>> \in I
  BY <1>2, <1>4, FoldKeeps
<1> QED BY <1>1, <1>5
-----------------------------------------------------------------------------
USE RxAssumption, FilterAssumption, StepAssumption

(* Shares.                                                                 *)

Plus(refs, k) == [refs EXCEPT ![k] = @ + 1]
Minus(refs, k) == [refs EXCEPT ![k] = @ - 1]
Counts(refs, K) == refs \in [K -> Nat]

\* One share more.
LEMMA OneMoreShare ==
  ASSUME NEW H, IsFiniteSet(H), NEW h, h \notin H
  PROVE  /\ IsFiniteSet(H \cup {h})
         /\ \A k : /\ IsFiniteSet(Users(H, k)) /\ Cardinality(Users(H, k)) \in Nat
                   /\ Cardinality(Users(H \cup {h}, k)) =
                        Cardinality(Users(H, k)) + (IF h[2] = k THEN 1 ELSE 0)
<1>1. IsFiniteSet(H \cup {h})
  BY FS_AddElement
<1>2. ASSUME NEW k
      PROVE  /\ IsFiniteSet(Users(H, k)) /\ Cardinality(Users(H, k)) \in Nat
             /\ Cardinality(Users(H \cup {h}, k)) =
                  Cardinality(Users(H, k)) + (IF h[2] = k THEN 1 ELSE 0)
  <2>1. IsFiniteSet(Users(H, k)) /\ h \notin Users(H, k)
    BY FS_Subset DEF Users
  <2>2. Cardinality(Users(H, k)) \in Nat
    BY <2>1, FS_CardinalityType
  <2>3. CASE h[2] = k
    <3>1. Users(H \cup {h}, k) = Users(H, k) \cup {h}
      BY <2>3 DEF Users
    <3>2. Cardinality(Users(H, k) \cup {h}) = Cardinality(Users(H, k)) + 1
      BY <2>1, FS_AddElement
    <3> QED BY <2>1, <2>2, <2>3, <3>1, <3>2
  <2>4. CASE h[2] # k
    <3>1. Users(H \cup {h}, k) = Users(H, k)
      BY <2>4 DEF Users
    <3> QED BY <2>1, <2>2, <2>4, <3>1
  <2> QED BY <2>3, <2>4
<1> QED BY <1>1, <1>2

\* One share less.
LEMMA OneLessShare ==
  ASSUME NEW H, IsFiniteSet(H), NEW h \in H
  PROVE  /\ IsFiniteSet(H \ {h})
         /\ \A k : /\ IsFiniteSet(Users(H, k)) /\ Cardinality(Users(H, k)) \in Nat
                   /\ Cardinality(Users(H \ {h}, k)) \in Nat
                   /\ Cardinality(Users(H \ {h}, k)) =
                        Cardinality(Users(H, k)) - (IF h[2] = k THEN 1 ELSE 0)
<1>1. IsFiniteSet(H \ {h}) /\ h \notin H \ {h} /\ (H \ {h}) \cup {h} = H
  BY FS_RemoveElement
<1> DEFINE G == H \ {h}
<1>2. IsFiniteSet(G) /\ h \notin G /\ G \cup {h} = H
  BY <1>1
<1> HIDE DEF G
<1>3. \A k : /\ Cardinality(Users(G, k)) \in Nat
             /\ Cardinality(Users(G \cup {h}, k)) =
                  Cardinality(Users(G, k)) + (IF h[2] = k THEN 1 ELSE 0)
  BY <1>2, OneMoreShare
<1>4. ASSUME NEW k
      PROVE  /\ IsFiniteSet(Users(H, k)) /\ Cardinality(Users(H, k)) \in Nat
             /\ Cardinality(Users(G, k)) \in Nat
             /\ Cardinality(Users(G, k)) =
                  Cardinality(Users(H, k)) - (IF h[2] = k THEN 1 ELSE 0)
  <2>1. IsFiniteSet(Users(H, k))
    BY FS_Subset DEF Users
  <2>2. /\ Cardinality(Users(G, k)) \in Nat
        /\ Cardinality(Users(H, k)) = Cardinality(Users(G, k)) + (IF h[2] = k THEN 1 ELSE 0)
    BY <1>2, <1>3
  <2> QED BY <2>1, <2>2
<1> QED BY <1>1, <1>4 DEF G

\* Who has a share is counted.
LEMMA SomeShare ==
  ASSUME NEW H, IsFiniteSet(H), NEW k
  PROVE  /\ Cardinality(Users(H, k)) \in Nat
         /\ Cardinality(Users(H, k)) = 0 <=> \A h \in H : h[2] # k
<1>1. IsFiniteSet(Users(H, k))
  BY FS_Subset DEF Users
<1>2. Cardinality(Users(H, k)) = 0 <=> Users(H, k) = {}
  BY <1>1, FS_EmptySet
<1>3. Cardinality(Users(H, k)) \in Nat
  BY <1>1, FS_CardinalityType
<1> QED BY <1>2, <1>3 DEF Users

\* A key no longer used after one share less had that one only.
LEMMA TwoShares ==
  ASSUME NEW H, IsFiniteSet(H), NEW h \in H, NEW g \in H, g # h, g[2] = h[2]
  PROVE  Cardinality(Users(H, h[2])) > 1
<1>1. IsFiniteSet(H \ {h}) /\ g \in H \ {h}
  BY OneLessShare
<1> DEFINE G == H \ {h}
<1>2. Cardinality(Users(G, h[2])) \in Nat /\ Cardinality(Users(G, h[2])) # 0
  <2> HIDE DEF G
  <2> QED BY <1>1, SomeShare DEF G
<1>3. /\ Cardinality(Users(H, h[2])) \in Nat
      /\ Cardinality(Users(G, h[2])) = Cardinality(Users(H, h[2])) - (IF h[2] = h[2] THEN 1 ELSE 0)
  BY OneLessShare
<1> HIDE DEF G
<1> QED BY <1>2, <1>3

\* Counting one more.
LEMMA BackedMore ==
  ASSUME NEW K, NEW refs, Counts(refs, K), NEW H, Backed(refs, H), NEW h, h \notin H, h[2] \in K,
         NEW more, more = Plus(refs, h[2])
  PROVE  Backed(more, H \cup {h}) /\ Counts(more, K)
<1>1. more \in [K -> Nat] /\ DOMAIN refs = K /\ refs \in [K -> Nat]
  BY DEF Plus, Counts
<1>2. ASSUME NEW k \in K
      PROVE  Cardinality(Users(H \cup {h}, k)) <= more[k]
  <2>1. /\ Cardinality(Users(H, k)) \in Nat
        /\ Cardinality(Users(H \cup {h}, k)) =
                        Cardinality(Users(H, k)) + (IF h[2] = k THEN 1 ELSE 0)
    BY OneMoreShare DEF Backed
  <2>2. Cardinality(Users(H, k)) <= refs[k] /\ refs[k] \in Nat
    BY <1>1 DEF Backed
  <2>3. more[k] = IF h[2] = k THEN refs[k] + 1 ELSE refs[k]
    BY <1>1 DEF Plus
  <2> QED BY ONLY <2>1, <2>2, <2>3
<1>3. IsFiniteSet(H \cup {h}) /\ IsFiniteSet(H) /\ \A g \in H \cup {h} : g[2] \in K
  BY <1>1, FS_AddElement DEF Backed
<1> QED BY <1>1, <1>2, <1>3 DEF Backed, Counts

\* Counting one more that nobody has.
LEMMA BackedIdle ==
  ASSUME NEW K, NEW refs, Counts(refs, K), NEW H, Backed(refs, H), NEW c \in K,
         NEW more, more = Plus(refs, c)
  PROVE  Backed(more, H) /\ Counts(more, K)
<1>1. more \in [K -> Nat] /\ DOMAIN refs = K /\ refs \in [K -> Nat]
  BY DEF Plus, Counts
<1>2. ASSUME NEW k \in K PROVE Cardinality(Users(H, k)) <= more[k]
  <2>1. Cardinality(Users(H, k)) \in Nat /\ Cardinality(Users(H, k)) <= refs[k] /\ refs[k] \in Nat
    BY <1>1, SomeShare DEF Backed
  <2>2. more[k] = IF c = k THEN refs[k] + 1 ELSE refs[k]
    BY <1>1 DEF Plus
  <2> QED BY ONLY <2>1, <2>2
<1> QED BY <1>1, <1>2 DEF Backed, Counts

\* Counting one less.
LEMMA BackedLess ==
  ASSUME NEW K, NEW refs, Counts(refs, K), NEW H, Backed(refs, H), NEW h \in H,
         NEW less, less = Minus(refs, h[2])
  PROVE  Backed(less, H \ {h}) /\ Counts(less, K)
<1>1. DOMAIN refs = K /\ h[2] \in K /\ refs \in [K -> Nat]
  BY DEF Backed, Counts
<1>2. ASSUME NEW k \in K
      PROVE  /\ Cardinality(Users(H \ {h}, k)) <= less[k] /\ less[k] \in Nat
  <2>1. /\ Cardinality(Users(H, k)) \in Nat /\ Cardinality(Users(H \ {h}, k)) \in Nat
        /\ Cardinality(Users(H \ {h}, k)) =
                        Cardinality(Users(H, k)) - (IF h[2] = k THEN 1 ELSE 0)
    BY OneLessShare DEF Backed
  <2>2. Cardinality(Users(H, k)) <= refs[k] /\ refs[k] \in Nat
    BY <1>1 DEF Backed
  <2>3. less[k] = IF h[2] = k THEN refs[k] - 1 ELSE refs[k]
    BY <1>1 DEF Minus
  <2> QED BY ONLY <2>1, <2>2, <2>3
<1>3. IsFiniteSet(H \ {h}) /\ \A g \in H \ {h} : g[2] \in K
  BY <1>1, OneLessShare DEF Backed
<1>4. less \in [K -> Nat]
  <2>1. less = [k \in K |-> less[k]]
    BY <1>1 DEF Minus
  <2> QED BY <1>2, <2>1
<1> QED BY <1>1, <1>2, <1>3, <1>4 DEF Backed, Counts
-----------------------------------------------------------------------------
(* Identifiers.                                                            *)

Bounds(lowest, highest) == lowest \in {0, 1} /\ highest \in Nat

Fields(t, refs, id, free, top) == t \in [refs : {refs}, id : {id}, free : {free}, top : {top}]

LEMMA TableFields ==
  ASSUME NEW K, NEW lowest, NEW highest, NEW t
  PROVE  t \in Tables(K, lowest, highest) <=>
           /\ Fields(t, t.refs, t.id, t.free, t.top)
           /\ t.refs \in [K -> Nat] /\ t.id \in [K -> lowest..highest \cup {NoId}]
           /\ t.free \in Seq(lowest..highest) /\ t.top \in (lowest - 1)..highest
BY DEF Tables, Fields

LEMMA TailOf ==
  ASSUME NEW S, NEW s \in Seq(S), s # <<>>
  PROVE  /\ Head(s) = s[1] /\ 1 \in DOMAIN s /\ Head(s) \in S
         /\ Tail(s) \in Seq(S)
         /\ \A i \in DOMAIN Tail(s) : i + 1 \in DOMAIN s /\ Tail(s)[i] = s[i + 1] /\ i \in Nat /\ i # 0
<1>1. Len(s) \in Nat /\ Len(s) # 0 /\ DOMAIN s = 1..Len(s)
  BY EmptySeq
<1>2. Head(s) = s[1] /\ Tail(s) \in Seq(S) /\ 1 \in DOMAIN s
  BY <1>1
<1>3. Len(Tail(s)) = Len(s) - 1 /\ DOMAIN Tail(s) = 1..(Len(s) - 1)
  BY <1>1
<1>4. \A i \in 1..(Len(s) - 1) : Tail(s)[i] = s[i + 1] /\ i + 1 \in 1..Len(s) /\ i \in Nat /\ i # 0
  BY <1>1
<1> QED BY <1>1, <1>2, <1>3, <1>4, ElementOfSeq

\* e is t with a free list that can serve.
Serves(t, K, lowest, highest, e) ==
  /\ Fields(e, t.refs, t.id, e.free, e.top)
  /\ e.free \in Seq(lowest..highest) /\ e.top \in (lowest - 1)..highest
  /\ e.free # <<>> /\ t.top <= e.top
  /\ \A i \in DOMAIN e.free : e.free[i] <= e.top /\ \A k \in K : t.id[k] # e.free[i]
  /\ \A i, j \in DOMAIN e.free : e.free[i] = e.free[j] => i = j

\* A table that can serve has something on its free list after expand_free.
LEMMA ExpandedServes ==
  ASSUME NEW K, NEW lowest, NEW highest, Bounds(lowest, highest), NEW t, Pool(t, K, lowest, highest),
         t.free # <<>> \/ t.top < highest
  PROVE  Serves(t, K, lowest, highest, Expanded(t, highest))
<1>1. /\ Fields(t, t.refs, t.id, t.free, t.top)
      /\ t.free \in Seq(lowest..highest) /\ t.top \in (lowest - 1)..highest
  BY TableFields DEF Pool
<1>2. CASE t.free # <<>>
  <2>1. Expanded(t, highest) = t
    BY <1>2 DEF Expanded
  <2>2. t.top <= t.top
    BY <1>1 DEF Bounds
  <2> QED BY <1>1, <1>2, <2>1, <2>2 DEF Pool, Serves
<1>3. CASE t.free = <<>>
  <2> DEFINE top == IF highest - t.top < Step THEN highest ELSE t.top + Step
             n == top - t.top
             free == [i \in 1..n |-> t.top + i]
  <2>0. t.top \in Int /\ highest \in Nat /\ Step \in Nat /\ Step > 0 /\ t.top < highest /\ lowest - 1 <= t.top
        /\ lowest \in Int
    BY <1>1, <1>3 DEF Bounds
  <2>1. top \in Int /\ t.top < top /\ top <= highest
    BY ONLY <2>0
  <2> HIDE DEF top
  <2>2. n \in Nat /\ n > 0 /\ top = t.top + n
    BY ONLY <2>0, <2>1
  <2>3. Expanded(t, highest) = [t EXCEPT !.free = free, !.top = top]
    BY <1>3 DEF Expanded, top
  <2> HIDE DEF n
  <2>4. Fields([t EXCEPT !.free = free, !.top = top], t.refs, t.id, free, top)
    <3> HIDE DEF free
    <3> QED BY ONLY <1>1 DEF Fields
  <2>5. DOMAIN free = 1..n /\ \A i \in 1..n : free[i] = t.top + i
    OBVIOUS
  <2>6. \A i \in 1..n : free[i] \in lowest..highest /\ free[i] <= top
    BY ONLY <2>0, <2>1, <2>2, <2>5
  <2>7. free \in Seq(lowest..highest)
    <3>1. free \in [1..n -> lowest..highest]
      BY <2>5, <2>6
    <3> QED BY <2>2, <3>1
  <2>8. free # <<>>
    <3>1. 1 \in 1..n
      BY <2>2
    <3>2. DOMAIN <<>> = {}
      OBVIOUS
    <3> QED BY <2>5, <3>1, <3>2
  <2>9. \A i, j \in 1..n : free[i] = free[j] => i = j
    BY ONLY <2>0, <2>5
  <2>10. ASSUME NEW i \in 1..n, NEW k \in K PROVE t.id[k] # free[i]
    <3>1. t.id[k] <= t.top
      BY DEF Pool
    <3>2. free[i] = t.top + i
      BY <2>5
    <3> HIDE DEF free
    <3>3. t.id[k] = t.top + i => FALSE
      BY ONLY <2>0, <3>1
    <3> QED BY <3>2, <3>3
  <2>11. top \in (lowest - 1)..highest /\ t.top <= top
    BY ONLY <2>0, <2>1
  <2> DEFINE e == Expanded(t, highest)
  <2> HIDE DEF free
  <2>12. Fields(e, t.refs, t.id, free, top)
    BY <2>3, <2>4
  <2> HIDE DEF e
  <2>13. e.free = free /\ e.top = top
    BY ONLY <2>12 DEF Fields
  <2>14. Serves(t, K, lowest, highest, e)
    BY <2>5, <2>6, <2>7, <2>8, <2>9, <2>10, <2>11, <2>12, <2>13 DEF Serves
  <2> QED BY <2>14 DEF e
<1> QED BY <1>2, <1>3

\* One more user of k: its identifier is its own.
Held(t, u, k, K, lowest, highest) ==
  /\ Pool(u, K, lowest, highest)
  /\ u.refs = Plus(t.refs, k)
  /\ u.id[k] \in lowest..highest
  /\ \A l \in K \ {k} : u.id[l] = t.id[l] /\ u.id[l] # u.id[k]
  /\ InUse(t, k) => u.id[k] = t.id[k]

\* One user less: the others keep their identifiers.
Dropped(t, u, k, K, lowest, highest) ==
  /\ Pool(u, K, lowest, highest)
  /\ u.refs = Minus(t.refs, k)
  /\ \A l \in K \ {k} : u.id[l] = t.id[l]
  /\ InUse(u, k) => u.id[k] = t.id[k]

LEMMA HoldPool ==
  ASSUME NEW K, NEW lowest, NEW highest, Bounds(lowest, highest), NEW t, Pool(t, K, lowest, highest),
         NEW k \in K, CanHold(t, k, highest), NEW u, u = Hold(t, k, highest)
  PROVE  Held(t, u, k, K, lowest, highest)
<1>1. /\ Fields(t, t.refs, t.id, t.free, t.top)
      /\ t.refs \in [K -> Nat] /\ t.id \in [K -> lowest..highest \cup {NoId}]
      /\ t.free \in Seq(lowest..highest) /\ t.top \in (lowest - 1)..highest
  BY TableFields DEF Pool
<1>0. lowest \in Nat /\ highest \in Nat /\ NoId = -1
  BY DEF Bounds, NoId
<1> DEFINE more == [t.refs EXCEPT ![k] = @ + 1]
<1>2. CASE InUse(t, k)
  <2>1. Fields(u, more, t.id, t.free, t.top)
    BY <1>1, <1>2 DEF Fields, Hold
  <2>2. more \in [K -> Nat] /\ \A l \in K : (more[l] > 0) = (t.refs[l] > 0)
    BY <1>1, <1>2 DEF InUse
  <2> HIDE DEF more, Plus
  <2>4. u.refs = more /\ u.id = t.id /\ u.free = t.free /\ u.top = t.top
    BY ONLY <2>1 DEF Fields
  <2>3. u \in Tables(K, lowest, highest)
    BY <1>1, <2>1, <2>2, <2>4, TableFields
  <2>5. Pool(u, K, lowest, highest)
    BY <2>2, <2>3, <2>4 DEF Pool, InUse
  <2>6. u.id[k] \in lowest..highest
    BY <1>0, <1>1, <1>2, <2>4 DEF Pool
  <2>7. \A l \in K \ {k} : u.id[l] = t.id[l] /\ u.id[l] # u.id[k]
    BY <1>2, <2>4 DEF Pool
  <2>8. u.refs = Plus(t.refs, k)
    BY <2>4 DEF more, Plus
  <2> QED BY <2>4, <2>5, <2>6, <2>7, <2>8 DEF Held
<1>3. CASE ~InUse(t, k)
  <2>1. t.free # <<>> \/ t.top < highest
    BY <1>3 DEF CanHold
  <2> DEFINE e == Expanded(t, highest)
             free == e.free
             top == e.top
  <2>17. Serves(t, K, lowest, highest, e)
    BY <2>1, ExpandedServes
  <2>2. /\ Fields(e, t.refs, t.id, free, top)
        /\ free \in Seq(lowest..highest) /\ top \in (lowest - 1)..highest
        /\ free # <<>> /\ t.top <= top
        /\ \A i \in DOMAIN free : free[i] <= top /\ \A l \in K : t.id[l] # free[i]
        /\ \A i, j \in DOMAIN free : free[i] = free[j] => i = j
    BY <2>17 DEF Serves
  <2>18. u = [e EXCEPT !.refs = [e.refs EXCEPT ![k] = 1], !.id = [e.id EXCEPT ![k] = Head(e.free)], !.free = Tail(e.free)]
    BY <1>3, <2>2 DEF Hold
  <2> HIDE DEF e
  <2>19. e.refs = t.refs /\ e.id = t.id
    BY ONLY <2>2 DEF Fields
  <2> HIDE DEF free, top
  <2> DEFINE x == Head(free)
             id == [t.id EXCEPT ![k] = x]
             rest == Tail(free)
             one == [t.refs EXCEPT ![k] = 1]
  <2>3. Fields(u, one, id, rest, top)
    <3>1. u = [e EXCEPT !.refs = one, !.id = id, !.free = rest]
      BY <2>18, <2>19 DEF free
    <3> HIDE DEF one, id, rest
    <3> QED BY ONLY <2>2, <3>1 DEF Fields
  <2>4. /\ x = free[1] /\ 1 \in DOMAIN free /\ x \in lowest..highest
        /\ rest \in Seq(lowest..highest)
        /\ \A i \in DOMAIN rest : i + 1 \in DOMAIN free /\ rest[i] = free[i + 1] /\ i \in Nat /\ i # 0
    BY <2>2, TailOf
  <2> HIDE DEF x, rest
  <2>5. t.refs[k] = 0
    BY <1>1, <1>3 DEF InUse
  <2>6. one = more /\ one \in [K -> Nat] /\ id \in [K -> lowest..highest \cup {NoId}]
    BY <1>1, <2>4, <2>5
  <2>7. id[k] = x /\ (\A l \in K \ {k} : id[l] = t.id[l] /\ one[l] = t.refs[l]) /\ one[k] = 1
    BY <1>1
  <2> HIDE DEF id, one
  <2>9. u.refs = one /\ u.id = id /\ u.free = rest /\ u.top = top
    BY ONLY <2>3 DEF Fields
  <2>8. u \in Tables(K, lowest, highest)
    BY ONLY <2>2, <2>3, <2>4, <2>6 DEF Tables, Fields
  <2>10. x # NoId /\ x <= top
    BY <1>0, <2>2, <2>4
  <2>11. \A l \in K \ {k} : id[l] # x
    <3>1. \A l \in K : t.id[l] # free[1]
      BY <2>2, <2>4
    <3> QED BY <2>4, <2>7, <3>1
  <2>12. ASSUME NEW l \in K PROVE (one[l] > 0) = (id[l] # NoId) /\ id[l] <= top
    <3>1. CASE l = k
      BY <2>7, <2>10, <3>1
    <3>2. CASE l # k
      <4>1. (t.refs[l] > 0) = (t.id[l] # NoId) /\ t.id[l] <= t.top
        BY DEF Pool, InUse
      <4>2. t.id[l] \in Int /\ t.top \in Int /\ top \in Int
        <5>1. t.id[l] \in lowest..highest \cup {NoId} /\ top \in (lowest - 1)..highest
          BY <1>1, <2>2
        <5>2. t.top \in (lowest - 1)..highest
          BY <1>1
        <5> QED BY ONLY <1>0, <5>1, <5>2
      <4>3. t.id[l] <= top
        BY ONLY <2>2, <4>1, <4>2
      <4> QED BY <2>7, <3>2, <4>1, <4>3
    <3> QED BY <3>1, <3>2
  <2>13. ASSUME NEW l \in K, NEW m \in K, one[l] > 0, id[l] = id[m] PROVE l = m
    <3>1. CASE l = k \/ m = k
      BY <2>7, <2>11, <2>13, <3>1
    <3>2. CASE l # k /\ m # k
      BY <2>7, <2>13, <3>2 DEF Pool, InUse
    <3> QED BY <3>1, <3>2
  <2>14. ASSUME NEW i \in DOMAIN rest PROVE rest[i] <= top /\ \A l \in K : id[l] # rest[i]
    <3>1. i + 1 \in DOMAIN free /\ rest[i] = free[i + 1] /\ i + 1 # 1
      BY <2>4
    <3>2. x # rest[i]
      BY <2>2, <2>4, <3>1
    <3> QED BY <2>2, <2>7, <3>1, <3>2
  <2>15. ASSUME NEW i \in DOMAIN rest, NEW j \in DOMAIN rest, rest[i] = rest[j] PROVE i = j
    <3>1. i + 1 = j + 1 /\ i \in Nat /\ j \in Nat
      BY <2>2, <2>4, <2>15
    <3> QED BY ONLY <3>1
  <2>16. Pool(u, K, lowest, highest)
    BY <2>8, <2>9, <2>12, <2>13, <2>14, <2>15 DEF Pool, InUse
  <2>20. u.refs = Plus(t.refs, k)
    BY <2>6, <2>9 DEF Plus
  <2>21. u.id[k] \in lowest..highest
    BY <2>4, <2>7, <2>9
  <2> QED BY <1>3, <2>7, <2>9, <2>11, <2>16, <2>20, <2>21 DEF Held
<1> QED BY <1>2, <1>3

LEMMA DropPool ==
  ASSUME NEW K, NEW lowest, NEW highest, Bounds(lowest, highest), NEW t, Pool(t, K, lowest, highest),
         NEW k \in K, InUse(t, k), NEW u, u = Drop(t, k)
  PROVE  Dropped(t, u, k, K, lowest, highest)
<1>1. /\ Fields(t, t.refs, t.id, t.free, t.top)
      /\ t.refs \in [K -> Nat] /\ t.id \in [K -> lowest..highest \cup {NoId}]
      /\ t.free \in Seq(lowest..highest) /\ t.top \in (lowest - 1)..highest
  BY TableFields DEF Pool
<1>0. lowest \in Nat /\ highest \in Nat /\ NoId = -1
  BY DEF Bounds, NoId
<1> DEFINE less == [t.refs EXCEPT ![k] = @ - 1]
<1>2. CASE t.refs[k] > 1
  <2>1. Fields(u, less, t.id, t.free, t.top)
    BY <1>1, <1>2 DEF Fields, Drop
  <2>2. less \in [K -> Nat] /\ \A l \in K : (less[l] > 0) = (t.refs[l] > 0)
    BY <1>1, <1>2
  <2> HIDE DEF less, Minus
  <2>4. u.refs = less /\ u.id = t.id /\ u.free = t.free /\ u.top = t.top
    BY ONLY <2>1 DEF Fields
  <2>3. u \in Tables(K, lowest, highest)
    BY <1>1, <2>1, <2>2, <2>4, TableFields
  <2>5. Pool(u, K, lowest, highest)
    BY <2>2, <2>3, <2>4 DEF Pool, InUse
  <2>6. u.refs = Minus(t.refs, k)
    BY <2>4 DEF less, Minus
  <2> QED BY <2>4, <2>5, <2>6 DEF Dropped
<1>3. CASE ~(t.refs[k] > 1)
  <2> DEFINE x == t.id[k]
             id == [t.id EXCEPT ![k] = NoId]
             free == Append(t.free, x)
             none == [t.refs EXCEPT ![k] = 0]
  <2>1. Fields(u, none, id, free, t.top)
    <3>1. u = [t EXCEPT !.refs = none, !.id = id, !.free = free]
      BY <1>3 DEF Drop
    <3> HIDE DEF none, id, free
    <3> QED BY ONLY <1>1, <3>1 DEF Fields
  <2>2. t.refs[k] = 1
    BY <1>1, <1>3 DEF InUse
  <2>3. none = less /\ none \in [K -> Nat] /\ id \in [K -> lowest..highest \cup {NoId}]
    BY <1>1, <2>2
  <2>4. x \in lowest..highest /\ x <= t.top
    BY <1>0, <1>1 DEF Pool
  <2>5. id[k] = NoId /\ (\A l \in K \ {k} : id[l] = t.id[l] /\ none[l] = t.refs[l]) /\ none[k] = 0
    BY <1>1
  <2>6. \A l \in K \ {k} : t.id[l] # x
    BY DEF Pool
  <2> HIDE DEF id, none, x
  <2>7. /\ free \in Seq(lowest..highest) /\ Len(free) = Len(t.free) + 1 /\ free[Len(free)] = x
        /\ Len(t.free) \in Nat /\ DOMAIN free = 1..Len(free) /\ DOMAIN t.free = 1..Len(t.free)
        /\ \A i \in DOMAIN t.free : free[i] = t.free[i]
    BY <1>1, <2>4
  <2> HIDE DEF free
  <2>8. \A i \in DOMAIN free : i = Len(free) \/ i \in DOMAIN t.free
    BY ONLY <2>7
  <2>10. u.refs = none /\ u.id = id /\ u.free = free /\ u.top = t.top
    BY ONLY <2>1 DEF Fields
  <2>9. u \in Tables(K, lowest, highest)
    BY ONLY <1>1, <2>1, <2>3, <2>7 DEF Tables, Fields
  <2>11. ASSUME NEW l \in K PROVE (none[l] > 0) = (id[l] # NoId) /\ id[l] <= t.top
    <3>1. CASE l = k
      <4>1. t.top \in lowest - 1..highest
        BY <1>1
      <4>2. -1 <= t.top
        BY ONLY <1>0, <4>1
      <4> QED BY <1>0, <2>5, <3>1, <4>2
    <3>2. CASE l # k
      BY <2>5, <3>2 DEF Pool, InUse
    <3> QED BY <3>1, <3>2
  <2>12. ASSUME NEW l \in K, NEW m \in K, none[l] > 0, id[l] = id[m] PROVE l = m
    <3>1. l # k /\ id[l] # NoId
      BY <2>5, <2>11, <2>12
    <3>2. m # k
      BY <2>5, <2>12, <3>1
    <3> QED BY <2>5, <2>12, <3>1, <3>2 DEF Pool, InUse
  <2>13. ASSUME NEW i \in DOMAIN free PROVE free[i] <= t.top /\ \A l \in K : id[l] # free[i]
    <3>1. free[i] # NoId /\ free[i] <= t.top
      <4>1. free[i] \in lowest..highest
        BY <2>7, ElementOfSeq
      <4>2. free[i] <= t.top
        BY <2>4, <2>7, <2>8 DEF Pool
      <4> QED BY <1>0, <4>1, <4>2
    <3>2. ASSUME NEW l \in K \ {k} PROVE id[l] # free[i]
      BY <2>5, <2>6, <2>7, <2>8 DEF Pool
    <3> QED BY <2>5, <3>1, <3>2
  <2>14. ASSUME NEW i \in DOMAIN free, NEW j \in DOMAIN free, free[i] = free[j] PROVE i = j
    <3>1. \A m \in DOMAIN t.free : free[m] # x
      BY <2>7 DEF Pool, x
    <3> QED BY <2>7, <2>8, <2>14, <3>1 DEF Pool
  <2>15. Pool(u, K, lowest, highest)
    BY <2>9, <2>10, <2>11, <2>12, <2>13, <2>14 DEF Pool, InUse
  <2>16. ~InUse(u, k)
    BY <2>5, <2>10 DEF InUse
  <2>17. u.refs = Minus(t.refs, k)
    BY <2>3, <2>10 DEF Minus
  <2> QED BY <2>5, <2>10, <2>15, <2>16, <2>17 DEF Dropped
<1> QED BY <1>2, <1>3
-----------------------------------------------------------------------------
(* The tables, field by field.                                             *)

Holding(r, c, w, t, n, g, b, k, v) ==
  r \in [chunk : {c}, window : {w}, tpid : {t}, port_tpid : {n}, tag : {g}, bmp : {b}, class : {k}, vfp : {v}]

WindowTargets == [0..ChunkMax -> Offsets \cup {NoId}]
PortTpids == [Pids \X Tpids -> Nat]
TagValues == [0..TpidMax -> Tpids \cup {None}]
PortRegisters == [Pids -> SUBSET (0..TpidMax)]
VfpEntries == [Pids \X Classes -> [refs : Nat, rules : Rules \cup {None}]]

LEMMA ResourceFields ==
  ASSUME NEW r
  PROVE  r \in Resources <=>
           /\ Holding(r, r.chunk, r.window, r.tpid, r.port_tpid, r.tag, r.bmp, r.class, r.vfp)
           /\ r.chunk \in Tables(Offsets, 0, ChunkMax) /\ r.window \in WindowTargets
           /\ r.tpid \in Tables(Tpids, 0, TpidMax) /\ r.port_tpid \in PortTpids
           /\ r.tag \in TagValues /\ r.bmp \in PortRegisters
           /\ r.class \in Tables(Rules, 1, ClassMax) /\ r.vfp \in VfpEntries
<1> DEFINE A == Tables(Offsets, 0, ChunkMax)
           B == Tables(Tpids, 0, TpidMax)
           D == Tables(Rules, 1, ClassMax)
<1>1. Resources = [chunk : A, window : WindowTargets, tpid : B, port_tpid : PortTpids,
                   tag : TagValues, bmp : PortRegisters, class : D, vfp : VfpEntries]
  BY DEF Resources, WindowTargets, PortTpids, TagValues, PortRegisters, VfpEntries
<1> HIDE DEF A, B, D
<1>2. r \in [chunk : A, window : WindowTargets, tpid : B, port_tpid : PortTpids,
             tag : TagValues, bmp : PortRegisters, class : D, vfp : VfpEntries] <=>
           /\ Holding(r, r.chunk, r.window, r.tpid, r.port_tpid, r.tag, r.bmp, r.class, r.vfp)
           /\ r.chunk \in A /\ r.window \in WindowTargets
           /\ r.tpid \in B /\ r.port_tpid \in PortTpids
           /\ r.tag \in TagValues /\ r.bmp \in PortRegisters
           /\ r.class \in D /\ r.vfp \in VfpEntries
  BY ONLY DEF Holding
<1> QED BY <1>1, <1>2 DEF A, B, D

SameChunks(r, q) == q.chunk = r.chunk /\ q.window = r.window
SameTags(r, q) == q.tpid = r.tpid /\ q.port_tpid = r.port_tpid /\ q.tag = r.tag /\ q.bmp = r.bmp
SameClasses(r, q) == q.class = r.class /\ q.vfp = r.vfp

\* A change of the windows only.
LEMMA ChunksChange ==
  ASSUME NEW r \in Resources, NEW t \in Tables(Offsets, 0, ChunkMax), NEW w \in WindowTargets,
         NEW q, Holding(q, t, w, r.tpid, r.port_tpid, r.tag, r.bmp, r.class, r.vfp)
  PROVE  q \in Resources /\ q.chunk = t /\ q.window = w /\ SameTags(r, q) /\ SameClasses(r, q)
<1>1. /\ q.chunk = t /\ q.window = w /\ q.tpid = r.tpid /\ q.port_tpid = r.port_tpid
      /\ q.tag = r.tag /\ q.bmp = r.bmp /\ q.class = r.class /\ q.vfp = r.vfp
  BY DEF Holding
<1> QED BY <1>1, ResourceFields DEF SameTags, SameClasses
-----------------------------------------------------------------------------
(* Windows.                                                                *)

\* The windows of H's users stay where they are, and other tables as they are.
SameIds(r, q, H) == \A h \in H : q.chunk.id[h[2]] = r.chunk.id[h[2]]
KeepsWindows(r, q, H) ==
  /\ SameTags(r, q) /\ SameClasses(r, q)
  /\ \A h \in H : q.chunk.id[h[2]] = r.chunk.id[h[2]]

LEMMA KeepsOnward ==
  ASSUME NEW r, NEW q, NEW p, NEW G, NEW H, G \subseteq H,
         KeepsWindows(r, q, G), KeepsWindows(q, p, H)
  PROVE  KeepsWindows(r, p, G)
BY DEF KeepsWindows, SameTags, SameClasses

\* Who counts less, counts.
LEMMA BackedSubset ==
  ASSUME NEW K, NEW refs, Counts(refs, K), NEW H, Backed(refs, H), NEW G, G \subseteq H
  PROVE  Backed(refs, G)
<1>1. IsFiniteSet(G) /\ IsFiniteSet(H) /\ DOMAIN refs = K /\ refs \in [K -> Nat]
  BY FS_Subset DEF Backed, Counts
<1>2. ASSUME NEW k \in K PROVE Cardinality(Users(G, k)) <= refs[k]
  <2>1. IsFiniteSet(Users(H, k)) /\ Users(G, k) \subseteq Users(H, k)
    BY <1>1, FS_Subset DEF Users
  <2>2. Cardinality(Users(G, k)) <= Cardinality(Users(H, k)) /\ IsFiniteSet(Users(G, k))
    BY <2>1, FS_Subset
  <2>3. Cardinality(Users(G, k)) \in Nat /\ Cardinality(Users(H, k)) \in Nat /\ refs[k] \in Nat
    BY <1>1, <2>1, <2>2, FS_CardinalityType
  <2>4. Cardinality(Users(H, k)) <= refs[k]
    BY <1>1 DEF Backed
  <2> QED BY ONLY <2>2, <2>3, <2>4
<1> QED BY <1>1, <1>2 DEF Backed

LEMMA WindowsSubset ==
  ASSUME NEW r, NEW H, Windows(r, H), NEW G, G \subseteq H
  PROVE  Windows(r, G)
<1>1. Counts(r.chunk.refs, Offsets)
  BY TableFields DEF Windows, Pool, Counts
<1> QED BY <1>1, BackedSubset DEF Windows

\* A user has a window.
LEMMA UsersInUse ==
  ASSUME NEW K, NEW refs, Counts(refs, K), NEW H, Backed(refs, H), NEW h \in H
  PROVE  h[2] \in K /\ refs[h[2]] > 0
<1>1. h[2] \in K /\ IsFiniteSet(H) /\ Cardinality(Users(H, h[2])) <= refs[h[2]]
  BY DEF Backed, Counts
<1>2. Cardinality(Users(H, h[2])) \in Nat /\ Cardinality(Users(H, h[2])) # 0
  BY <1>1, SomeShare
<1> QED BY <1>1, <1>2 DEF Counts

LEMMA HoldChunkKeeps ==
  ASSUME NEW r \in Resources, NEW H, Windows(r, H), NEW c \in Offsets, CanHoldChunk(r, c),
         NEW q, q = HoldChunk(r, c)
  PROVE  /\ q \in Resources /\ Windows(q, H) /\ KeepsWindows(r, q, H)
         /\ \A h : h \notin H /\ h[2] = c => Windows(q, H \cup {h})
<1> DEFINE t == Hold(r.chunk, c, ChunkMax)
           w == IF InUse(r.chunk, c) THEN r.window ELSE [r.window EXCEPT ![t.id[c]] = c]
<1>0. Bounds(0, ChunkMax) /\ CanHold(r.chunk, c, ChunkMax) /\ Pool(r.chunk, Offsets, 0, ChunkMax)
  BY DEF Bounds, CanHoldChunk, Windows
<1>1. Held(r.chunk, t, c, Offsets, 0, ChunkMax)
  BY <1>0, HoldPool
<1> HIDE DEF t
<1> USE DEF Held
<1>2. /\ r.chunk.refs \in [Offsets -> Nat] /\ r.window \in WindowTargets
      /\ Holding(r, r.chunk, r.window, r.tpid, r.port_tpid, r.tag, r.bmp, r.class, r.vfp)
      /\ t \in Tables(Offsets, 0, ChunkMax)
  BY <1>0, <1>1, ResourceFields, TableFields DEF Pool
<1>3. w \in WindowTargets
  BY <1>1, <1>2 DEF WindowTargets
<1>4. q = IF InUse(r.chunk, c) THEN [r EXCEPT !.chunk = t] ELSE [r EXCEPT !.chunk = t, !.window[t.id[c]] = c]
  BY DEF HoldChunk, t
<1>5. Holding(q, t, w, r.tpid, r.port_tpid, r.tag, r.bmp, r.class, r.vfp)
  BY ONLY <1>2, <1>4 DEF Holding
<1>6. q \in Resources /\ q.chunk = t /\ q.window = w /\ SameTags(r, q) /\ SameClasses(r, q)
  BY <1>2, <1>3, <1>5, ChunksChange
<1>7. ASSUME NEW d \in Offsets, InUse(t, d) PROVE w[t.id[d]] = d
  <2>1. CASE InUse(r.chunk, c)
    <3>1. t.id[d] = r.chunk.id[d] /\ InUse(r.chunk, d)
      BY <1>1, <1>2, <1>7, <2>1 DEF InUse, Plus
    <3> QED BY <2>1, <3>1 DEF Windows
  <2>2. CASE ~InUse(r.chunk, c) /\ d = c
    BY <1>1, <1>2, <2>2 DEF WindowTargets
  <2>3. CASE ~InUse(r.chunk, c) /\ d # c
    <3>1. t.id[d] = r.chunk.id[d] /\ t.id[d] # t.id[c] /\ InUse(r.chunk, d)
      BY <1>1, <1>2, <1>7, <2>3 DEF InUse, Plus
    <3>2. r.window[r.chunk.id[d]] = d
      BY <3>1 DEF Windows
    <3>3. w[t.id[d]] = r.window[t.id[d]]
      BY <1>2, <2>3, <3>1 DEF WindowTargets
    <3> QED BY <3>1, <3>2, <3>3
  <2> QED BY <2>1, <2>2, <2>3
<1> HIDE DEF w
<1>8. Backed(r.chunk.refs, H)
  BY DEF Windows
<1>9. ASSUME NEW h, h \notin H, h[2] = c
      PROVE  Backed(t.refs, H \cup {h})
  <2>1. Counts(r.chunk.refs, Offsets) /\ h[2] \in Offsets /\ t.refs = Plus(r.chunk.refs, h[2])
    BY <1>1, <1>2, <1>9 DEF Counts
  <2> QED BY <1>8, <1>9, <2>1, BackedMore
<1>10. Backed(t.refs, H)
  <2>1. Counts(r.chunk.refs, Offsets) /\ t.refs = Plus(r.chunk.refs, c)
    BY <1>1, <1>2 DEF Counts
  <2> QED BY <1>8, <2>1, BackedIdle
<1>11. Windows(q, H) /\ \A h : h \notin H /\ h[2] = c => Windows(q, H \cup {h})
  BY <1>1, <1>6, <1>7, <1>9, <1>10 DEF Windows
<1>12. ASSUME NEW h \in H PROVE q.chunk.id[h[2]] = r.chunk.id[h[2]]
  <2>1. h[2] \in Offsets /\ InUse(r.chunk, h[2])
    BY <1>2, <1>8, UsersInUse DEF InUse, Counts
  <2> QED BY <1>1, <1>6, <2>1
<1> QED BY <1>6, <1>11, <1>12 DEF KeepsWindows

LEMMA DropChunkKeeps ==
  ASSUME NEW r \in Resources, NEW H, Windows(r, H), NEW h \in H, NEW q, q = DropChunk(r, h[2])
  PROVE  /\ q \in Resources /\ Windows(q, H \ {h}) /\ KeepsWindows(r, q, H \ {h})
<1> DEFINE c == h[2]
           t == Drop(r.chunk, c)
<1>0. /\ Bounds(0, ChunkMax) /\ Pool(r.chunk, Offsets, 0, ChunkMax)
      /\ Backed(r.chunk.refs, H)
  BY DEF Bounds, Windows
<1>2. /\ r.chunk.refs \in [Offsets -> Nat] /\ r.window \in WindowTargets
      /\ Holding(r, r.chunk, r.window, r.tpid, r.port_tpid, r.tag, r.bmp, r.class, r.vfp)
  BY <1>0, ResourceFields, TableFields
<1>3. c \in Offsets /\ InUse(r.chunk, c)
  BY <1>0, <1>2, UsersInUse DEF InUse, Counts
<1> HIDE DEF c
<1>1. Dropped(r.chunk, t, c, Offsets, 0, ChunkMax)
  BY <1>0, <1>3, DropPool
<1> USE DEF Dropped
<1>4. q = [r EXCEPT !.chunk = t]
  BY DEF DropChunk, c
<1> HIDE DEF t
<1>5. Holding(q, t, r.window, r.tpid, r.port_tpid, r.tag, r.bmp, r.class, r.vfp)
  BY ONLY <1>2, <1>4 DEF Holding
<1>6. q \in Resources /\ q.chunk = t /\ q.window = r.window /\ SameTags(r, q) /\ SameClasses(r, q)
  <2>1. t \in Tables(Offsets, 0, ChunkMax)
    BY <1>1 DEF Pool
  <2> QED BY <1>2, <1>5, <2>1, ChunksChange
<1>7. ASSUME NEW d \in Offsets, InUse(t, d) PROVE InUse(r.chunk, d) /\ t.id[d] = r.chunk.id[d]
  BY <1>1, <1>2, <1>3, <1>7 DEF InUse, Minus
<1>8. Backed(t.refs, H \ {h}) /\ Counts(t.refs, Offsets)
  <2>1. Counts(r.chunk.refs, Offsets) /\ t.refs = Minus(r.chunk.refs, h[2])
    BY <1>1, <1>2 DEF c, Counts
  <2> QED BY <1>0, <2>1, BackedLess
<1>9. Windows(q, H \ {h})
  BY <1>1, <1>6, <1>7, <1>8 DEF Windows
<1>10. ASSUME NEW g \in H \ {h} PROVE q.chunk.id[g[2]] = r.chunk.id[g[2]]
  <2>1. g[2] \in Offsets /\ InUse(t, g[2])
    BY <1>8, UsersInUse DEF InUse
  <2> QED BY <1>6, <1>7, <2>1
<1> QED BY <1>6, <1>9, <1>10 DEF KeepsWindows
-----------------------------------------------------------------------------
(* Keys one after the other.                                               *)

LEMMA SharesGrow ==
  ASSUME NEW a, NEW ks, NEW i \in Nat
  PROVE  /\ Shares(a, ks, 0) = {}
         /\ i # 0 => /\ Shares(a, ks, i) = Shares(a, ks, i - 1) \cup {<<<<a, i>>, ks[i]>>}
                     /\ <<<<a, i>>, ks[i]>> \notin Shares(a, ks, i - 1)
         /\ \A j \in 0..i : Shares(a, ks, j) \subseteq Shares(a, ks, i)
         /\ \A h \in Shares(a, ks, i) : h[1][1] = a
<1>1. Shares(a, ks, 0) = {}
  BY DEF Shares
<1>2. ASSUME i # 0
      PROVE  /\ Shares(a, ks, i) = Shares(a, ks, i - 1) \cup {<<<<a, i>>, ks[i]>>}
             /\ <<<<a, i>>, ks[i]>> \notin Shares(a, ks, i - 1)
  <2>1. 1..i = 1..(i - 1) \cup {i} /\ i \notin 1..(i - 1)
    BY <1>2
  <2> QED BY <2>1 DEF Shares
<1>3. ASSUME NEW j \in 0..i PROVE Shares(a, ks, j) \subseteq Shares(a, ks, i)
  <2>1. 1..j \subseteq 1..i
    OBVIOUS
  <2> QED BY <2>1 DEF Shares
<1>4. \A h \in Shares(a, ks, i) : h[1][1] = a
  BY DEF Shares
<1> QED BY <1>1, <1>2, <1>3, <1>4

Attempts == [r : Resources, ok : BOOLEAN, n : Nat]

LEMMA TriedIs ==
  ASSUME NEW can \in BOOLEAN, NEW a \in Attempts, NEW next, a.ok /\ can => next \in Resources,
         NEW b, b = Tried(can, a, next)
  PROVE  /\ b \in Attempts
         /\ IF a.ok /\ can THEN b.r = next /\ b.n = a.n + 1 /\ b.ok
            ELSE b.r = a.r /\ b.n = a.n /\ ~b.ok
<1>1. CASE a.ok /\ can
  <2> DEFINE m == a.n + 1
  <2>2. a \in Attempts /\ m \in Nat
    BY DEF Attempts
  <2>1. b = [a EXCEPT !.r = next, !.n = m] /\ next \in Resources
    BY <1>1 DEF Tried
  <2> HIDE DEF m
  <2>3. b \in Attempts /\ b.r = next /\ b.n = m /\ b.ok = a.ok
    BY ONLY <2>1, <2>2 DEF Attempts
  <2> QED BY <1>1, <2>3 DEF m
<1>2. CASE ~(a.ok /\ can)
  <2>1. b = [a EXCEPT !.ok = FALSE]
    BY <1>2 DEF Tried
  <2>2. a \in Attempts
    OBVIOUS
  <2>3. b \in Attempts /\ b.r = a.r /\ b.n = a.n /\ ~b.ok
    BY ONLY <2>1, <2>2 DEF Attempts
  <2> QED BY <1>2, <2>3
<1> QED BY <1>1, <1>2

LEMMA BeganIs ==
  ASSUME NEW r \in Resources
  PROVE  Began(r) \in Attempts /\ Began(r).r = r /\ Began(r).ok /\ Began(r).n = 0
BY DEF Began, Attempts
-----------------------------------------------------------------------------
(* The windows of one UDF.                                                 *)

LEMMA DropChunksKeep ==
  ASSUME NEW r \in Resources, NEW H, Windows(r, H), NEW a, NEW ks \in Seq(Offsets),
         Shares(a, ks, Len(ks)) \subseteq H, NEW q, q = FoldLeft(DropChunk, r, ks)
  PROVE  /\ q \in Resources /\ Windows(q, H \ Shares(a, ks, Len(ks)))
         /\ KeepsWindows(r, q, H \ Shares(a, ks, Len(ks)))
<1> DEFINE n == Len(ks)
           G == H \ Shares(a, ks, n)
           I == {y \in (0..n) \X Resources :
                   Windows(y[2], H \ Shares(a, ks, y[1])) /\ KeepsWindows(r, y[2], G)}
<1>1. n \in Nat /\ DOMAIN ks = 1..n
  OBVIOUS
<1> HIDE DEF n, G
<1>2. <<0, r>> \in I
  <2>1. H \ Shares(a, ks, 0) = H
    BY SharesGrow
  <2>2. KeepsWindows(r, r, G)
    BY DEF KeepsWindows, SameTags, SameClasses
  <2>3. Windows(r, H \ Shares(a, ks, 0))
    BY <2>1
  <2>4. 0 \in 0..n
    BY <1>1
  <2> QED BY <2>2, <2>3, <2>4
<1>3. ASSUME NEW i \in 1..n, NEW p, <<i - 1, p>> \in I PROVE <<i, DropChunk(p, ks[i])>> \in I
  <2> DEFINE h == <<<<a, i>>, ks[i]>>
             F == H \ Shares(a, ks, i - 1)
             d == DropChunk(p, ks[i])
  <2>1. p \in Resources /\ Windows(p, F) /\ KeepsWindows(r, p, G)
    BY <1>3
  <2>2. i \in Nat /\ i # 0 /\ i \in 0..n
    BY <1>1
  <2>3. /\ Shares(a, ks, i) = Shares(a, ks, i - 1) \cup {h} /\ h \notin Shares(a, ks, i - 1)
        /\ Shares(a, ks, i) \subseteq Shares(a, ks, n)
    <3>1. /\ Shares(a, ks, i) = Shares(a, ks, i - 1) \cup {h} /\ h \notin Shares(a, ks, i - 1)
      BY <2>2, SharesGrow
    <3>2. \A j \in 0..n : Shares(a, ks, j) \subseteq Shares(a, ks, n)
      BY <1>1, SharesGrow
    <3> QED BY <2>2, <3>1, <3>2
  <2>4. h \in F /\ F \ {h} = H \ Shares(a, ks, i) /\ G \subseteq F \ {h}
    BY <2>3 DEF n, G
  <2>5. h[2] = ks[i]
    OBVIOUS
  <2> HIDE DEF F, h, I
  <2>6. d = DropChunk(p, h[2])
    BY <2>5
  <2> HIDE DEF d
  <2>7. d \in Resources /\ Windows(d, F \ {h}) /\ KeepsWindows(p, d, F \ {h})
    BY <2>1, <2>4, <2>6, DropChunkKeeps
  <2>8. KeepsWindows(r, d, G)
    BY <2>1, <2>4, <2>7, KeepsOnward
  <2>9. <<i, d>> \in I
    BY <2>2, <2>4, <2>7, <2>8 DEF I
  <2> QED BY <2>9 DEF d
<1>4. <<n, q>> \in I
  <2> HIDE DEF I
  <2> QED BY <1>1, <1>2, <1>3, DropChunkFold DEF n
<1> QED BY <1>4 DEF n, G

\* a has none of the shares yet.
NoneOf(a, H) == \A h \in H : h[1][1] # a

LEMMA HoldChunksKeep ==
  ASSUME NEW r \in Resources, NEW H, Windows(r, H), NEW a, NoneOf(a, H), NEW ks \in Seq(Offsets),
         NEW e, e = Each(CanHoldChunk, HoldChunk, r, ks)
  PROVE  /\ e \in Attempts /\ e.r \in Resources /\ KeepsWindows(r, e.r, H)
         /\ Windows(e.r, H)
         /\ e.ok => Windows(e.r, H \cup Shares(a, ks, Len(ks)))
<1> DEFINE n == Len(ks)
           I == {y \in (0..n) \X Attempts :
                   /\ KeepsWindows(r, y[2].r, H) /\ Windows(y[2].r, H)
                   /\ y[2].ok => Windows(y[2].r, H \cup Shares(a, ks, y[1]))}
<1>1. n \in Nat /\ DOMAIN ks = 1..n
  OBVIOUS
<1> HIDE DEF n
<1>2. <<0, Began(r)>> \in I
  <2>1. H \cup Shares(a, ks, 0) = H
    BY SharesGrow
  <2>2. KeepsWindows(r, r, H)
    BY DEF KeepsWindows, SameTags, SameClasses
  <2>3. Windows(r, H \cup Shares(a, ks, 0))
    BY <2>1
  <2>4. 0 \in 0..n
    BY <1>1
  <2>5. Began(r) \in Attempts /\ Began(r).r = r
    BY BeganIs
  <2> QED BY <2>2, <2>3, <2>4, <2>5
<1>3. ASSUME NEW i \in 1..n, NEW b, <<i - 1, b>> \in I PROVE <<i, TryChunk(b, ks[i])>> \in I
  <2> DEFINE h == <<<<a, i>>, ks[i]>>
             F == H \cup Shares(a, ks, i - 1)
             p == b.r
             d == HoldChunk(p, ks[i])
             can == CanHoldChunk(p, ks[i])
             t == TryChunk(b, ks[i])
  <2>1. b \in Attempts /\ KeepsWindows(r, p, H) /\ Windows(p, H) /\ (b.ok => Windows(p, F))
    BY <1>3
  <2>2. i \in Nat /\ i # 0 /\ i \in 0..n /\ ks[i] \in Offsets
    BY <1>1
  <2>3. /\ Shares(a, ks, i) = Shares(a, ks, i - 1) \cup {h} /\ h \notin Shares(a, ks, i - 1)
    BY <2>2, SharesGrow
  <2>11. h \notin H
    BY DEF NoneOf
  <2>4. h \notin F /\ F \cup {h} = H \cup Shares(a, ks, i) /\ h[2] = ks[i] /\ H \subseteq F \cup {h} /\ H \subseteq F
    BY <2>3, <2>11
  <2>5. p \in Resources
    BY <2>1 DEF Attempts
  <2>6. t = Tried(can, b, d) /\ can \in BOOLEAN
    BY DEF TryChunk, CanHoldChunk, CanHold, InUse
  <2>7. d = HoldChunk(p, ks[i]) /\ can = CanHoldChunk(p, ks[i])
    OBVIOUS
  <2> HIDE DEF F, h, p, d, can, t, I
  <2>8. ASSUME b.ok /\ can
        PROVE  d \in Resources /\ Windows(d, F \cup {h}) /\ KeepsWindows(r, d, H) /\ Windows(d, H)
    <3>1. /\ d \in Resources /\ KeepsWindows(p, d, F)
          /\ \A g : g \notin F /\ g[2] = ks[i] => Windows(d, F \cup {g})
      BY <2>1, <2>2, <2>5, <2>7, <2>8, HoldChunkKeeps
    <3>2. Windows(d, F \cup {h})
      BY <2>4, <3>1
    <3>3. KeepsWindows(r, d, H)
      BY <2>1, <2>4, <3>1, KeepsOnward
    <3>4. Windows(d, H)
      BY <2>4, <3>2, WindowsSubset
    <3> QED BY <3>1, <3>2, <3>3, <3>4
  <2>9. /\ t \in Attempts
        /\ IF b.ok /\ can THEN t.r = d /\ t.n = b.n + 1 /\ t.ok
           ELSE t.r = b.r /\ t.n = b.n /\ ~t.ok
    BY <2>1, <2>6, <2>8, TriedIs
  <2>10. <<i, t>> \in I
    <3>1. CASE b.ok /\ can
      BY <2>2, <2>4, <2>8, <2>9, <3>1 DEF I
    <3>2. CASE ~(b.ok /\ can)
      BY <2>1, <2>2, <2>9, <3>2 DEF I, p
    <3> QED BY <3>1, <3>2
  <2> QED BY <2>10 DEF t
<1>4. <<n, e>> \in I
  <2> HIDE DEF I
  <2> QED BY <1>1, <1>2, <1>3, TryChunkFold DEF n
<1>5. e \in Attempts
  BY <1>4
<1> QED BY <1>4, <1>5 DEF n, Attempts
-----------------------------------------------------------------------------
(* The pieces of a UDF.                                                    *)

LEMMA Aligned ==
  ASSUME NEW o \in Nat, o >= 2
  PROVE  /\ ALIGNED_OFFSET(o) \in Nat /\ ALIGNED_OFFSET(o) % 4 = 2 /\ ALIGNED_OFFSET(o) >= 2
         /\ ALIGNED_OFFSET(o) <= o /\ o < ALIGNED_OFFSET(o) + 4
<1> DEFINE q == o \div 4
           r == o % 4
<1>1. q \in Nat /\ r \in 0..3 /\ o = 4 * q + r
  BY DivMod
<1>2. ALIGNED_OFFSET(o) = IF r >= 2 THEN q * 4 + 2 ELSE q * 4 - 2
  BY DEF ALIGNED_OFFSET
<1> HIDE DEF q, r
<1>3. CASE r >= 2
  <2>1. (4 * q + 2) % 4 = 2
    BY <1>1, ModIs
  <2>2. q * 4 + 2 = 4 * q + 2
    BY <1>1
  <2> QED BY <1>1, <1>2, <1>3, <2>1, <2>2
<1>4. CASE ~(r >= 2)
  <2>1. q - 1 \in Nat
    BY <1>1, <1>4
  <2>2. (4 * (q - 1) + 2) % 4 = 2
    BY <2>1, ModIs
  <2>3. q * 4 - 2 = 4 * (q - 1) + 2
    BY <1>1
  <2> QED BY <1>1, <1>2, <1>4, <2>1, <2>2, <2>3
<1> QED BY <1>3, <1>4

PieceAt(from, length) == [base |-> ALIGNED_OFFSET(from), from |-> from, length |-> length]
Fits(from) == CHUNK_SIZE - (from - ALIGNED_OFFSET(from))

\* chunks of Split, for what is left up to k.
Chunked(offset, length, k, f) ==
  f = [left \in 0..k |->
         IF left > Fits(offset + length - left)
         THEN <<PieceAt(offset + length - left, Fits(offset + length - left))>>
                \o f[left - Fits(offset + length - left)]
         ELSE <<PieceAt(offset + length - left, left)>>]

LEMMA ChunksExist ==
  ASSUME NEW offset \in Nat, offset >= 2, NEW length \in Nat
  PROVE  \E f : Chunked(offset, length, length, f)
<1> DEFINE From(left) == offset + length - left
           Step1(g, left) == IF left > Fits(From(left))
                             THEN <<PieceAt(From(left), Fits(From(left)))>> \o g[left - Fits(From(left))]
                             ELSE <<PieceAt(From(left), left)>>
           Bad == {k \in 0..length : ~ \E f : Chunked(offset, length, k, f)}
<1>0. ASSUME NEW left \in 0..length PROVE Fits(From(left)) \in Nat /\ Fits(From(left)) >= 1
  <2> DEFINE o == From(left)
  <2>1. o \in Nat /\ o >= 2
    OBVIOUS
  <2> HIDE DEF o
  <2>2. ALIGNED_OFFSET(o) \in Nat /\ ALIGNED_OFFSET(o) <= o /\ o < ALIGNED_OFFSET(o) + 4
    BY <2>1, Aligned
  <2>3. Fits(o) = 4 - (o - ALIGNED_OFFSET(o))
    BY DEF Fits, CHUNK_SIZE
  <2>4. Fits(o) \in Nat /\ Fits(o) >= 1
    BY ONLY <2>1, <2>2, <2>3
  <2> QED BY <2>4 DEF o
<1>1. Bad = {}
  <2>1. SUFFICES ASSUME Bad # {} PROVE FALSE
    OBVIOUS
  <2>2. PICK k \in Bad : \A m \in Bad : k <= m
    <3>1. Bad \subseteq Nat
      OBVIOUS
    <3> HIDE DEF Bad
    <3> QED BY <2>1, <3>1, NatMin
  <2>3. k \in 0..length /\ ~ \E f : Chunked(offset, length, k, f)
    BY <2>2
  <2> SUFFICES \E f : Chunked(offset, length, k, f)
    BY <2>3
  <2>4. PICK g : \A left \in 0..(k - 1) : g[left] = Step1(g, left)
    <3>1. CASE k = 0
      <4>1. \A left \in 0..(k - 1) : FALSE
        BY <3>1
      <4> QED BY <4>1
    <3>2. CASE k # 0
      <4>1. k - 1 \in 0..length /\ ~(k <= k - 1)
        BY <2>3, <3>2
      <4>2. k - 1 \notin Bad
        <5> HIDE DEF Bad
        <5> QED BY <2>2, <4>1
      <4>3. PICK g : Chunked(offset, length, k - 1, g)
        BY <4>1, <4>2
      <4>4. \A left \in 0..(k - 1) : g[left] = Step1(g, left)
        <5> HIDE DEF Step1
        <5>1. g = [left \in 0..(k - 1) |-> Step1(g, left)]
          BY <4>3 DEF Chunked, Step1
        <5> QED BY <5>1
      <4> QED BY <4>4
    <3> QED BY <3>1, <3>2
  <2> DEFINE h == [left \in 0..k |-> Step1(g, left)]
  <2>5. ASSUME NEW left \in 0..(k - 1) PROVE left \in 0..k /\ h[left] = g[left]
    BY <2>3, <2>4
  <2>6. ASSUME NEW left \in 0..k PROVE h[left] = Step1(h, left)
    <3>1. h[left] = Step1(g, left)
      OBVIOUS
    <3> HIDE DEF h
    <3>2. CASE left > Fits(From(left))
      <4>1. left \in 0..length
        BY <2>3
      <4>2. Fits(From(left)) \in Nat /\ Fits(From(left)) >= 1
        BY <1>0, <4>1
      <4>3. left - Fits(From(left)) \in 0..(k - 1)
        BY <2>3, <3>2, <4>2
      <4>4. h[left - Fits(From(left))] = g[left - Fits(From(left))]
        BY <2>5, <4>3
      <4> QED BY <3>1, <3>2, <4>4
    <3>3. CASE ~(left > Fits(From(left)))
      BY <3>1, <3>3
    <3> QED BY <3>2, <3>3
  <2>7. h = [left \in 0..k |-> Step1(h, left)]
    <3>1. h = [left \in 0..k |-> h[left]]
      OBVIOUS
    <3> HIDE DEF h, Step1
    <3> QED BY <2>6, <3>1
  <2>8. Chunked(offset, length, k, h)
    <3> HIDE DEF h
    <3> QED BY <2>7 DEF Chunked
  <2> QED BY <2>8
<1>2. length \in 0..length
  OBVIOUS
<1>3. length \notin Bad
  <2> HIDE DEF Bad
  <2> QED BY <1>1
<1> QED BY <1>2, <1>3

\* Pieces lie within a window that starts where one can, before the end.
PiecesTo(end) ==
  {p \in [base : Nat, from : Nat, length : Nat] :
     /\ p.base >= 2 /\ p.base % 4 = 2 /\ p.base <= end
     /\ p.base <= p.from /\ p.from + p.length <= p.base + 4}

LEMMA SplitPieces ==
  ASSUME NEW offset \in Nat, offset >= 2, NEW length \in Nat, length # 0
  PROVE  Split(offset, length) \in Seq(PiecesTo(offset + length - 1))
<1> DEFINE f == CHOOSE f : Chunked(offset, length, length, f)
           From(left) == offset + length - left
           P == PiecesTo(offset + length - 1)
           Bad == {k \in 1..length : f[k] \notin Seq(P)}
<1>1. Split(offset, length) = f[length]
  BY DEF Split, Chunked, PieceAt, Fits
<1>2. Chunked(offset, length, length, f)
  BY ChunksExist
<1> HIDE DEF f
<1>3. ASSUME NEW left \in 1..length
      PROVE  f[left] = IF left > Fits(From(left))
                       THEN <<PieceAt(From(left), Fits(From(left)))>> \o f[left - Fits(From(left))]
                       ELSE <<PieceAt(From(left), left)>>
  <2>1. left \in 0..length
    OBVIOUS
  <2> DEFINE D == 0..length
  <2>2. left \in D
    BY <2>1
  <2>3. f = [l \in D |-> IF l > Fits(From(l))
                       THEN <<PieceAt(From(l), Fits(From(l)))>> \o f[l - Fits(From(l))]
                       ELSE <<PieceAt(From(l), l)>>]
    BY <1>2 DEF Chunked
  <2> HIDE DEF D, From
  <2> QED BY ONLY <2>2, <2>3
<1>4. ASSUME NEW left \in 1..length
      PROVE  /\ Fits(From(left)) \in Nat /\ Fits(From(left)) >= 1
             /\ PieceAt(From(left), Fits(From(left))) \in P
             /\ ~(left > Fits(From(left))) => PieceAt(From(left), left) \in P
  <2> DEFINE o == From(left)
             base == ALIGNED_OFFSET(o)
             end == offset + length - 1
             fits == Fits(o)
  <2>1. o \in Nat /\ o >= 2 /\ o <= end /\ end \in Nat /\ left \in Nat
    OBVIOUS
  <2> HIDE DEF o, end
  <2>2. base \in Nat /\ base % 4 = 2 /\ base >= 2 /\ base <= o /\ o < base + 4
    BY <2>1, Aligned
  <2>3. fits = 4 - (o - base)
    BY DEF Fits, CHUNK_SIZE
  <2>4. PieceAt(o, fits) = [base |-> base, from |-> o, length |-> fits]
    BY DEF PieceAt
  <2>5. PieceAt(o, left) = [base |-> base, from |-> o, length |-> left]
    BY DEF PieceAt
  <2> HIDE DEF base, fits
  <2>6. fits \in Nat /\ fits >= 1 /\ o + fits <= base + 4 /\ base <= end
    BY ONLY <2>1, <2>2, <2>3
  <2>7. PieceAt(o, fits) \in PiecesTo(end)
    BY <2>1, <2>2, <2>4, <2>6 DEF PiecesTo
  <2>8. ASSUME ~(left > fits) PROVE PieceAt(o, left) \in PiecesTo(end)
    <3>1. o + left <= base + 4
      BY ONLY <2>1, <2>2, <2>6, <2>8
    <3> QED BY <2>1, <2>2, <2>5, <2>6, <3>1 DEF PiecesTo
  <2> QED BY <2>6, <2>7, <2>8 DEF o, fits, end
<1> HIDE DEF P, From
<1>5. Bad = {}
  <2>1. SUFFICES ASSUME Bad # {} PROVE FALSE
    OBVIOUS
  <2>2. PICK k \in Bad : \A m \in Bad : k <= m
    <3>1. Bad \subseteq Nat
      OBVIOUS
    <3> HIDE DEF Bad
    <3> QED BY <2>1, <3>1, NatMin
  <2>3. k \in 1..length /\ f[k] \notin Seq(P)
    BY <2>2
  <2>4. CASE k > Fits(From(k))
    <3> DEFINE m == k - Fits(From(k))
               p == PieceAt(From(k), Fits(From(k)))
    <3>1. Fits(From(k)) \in Nat /\ Fits(From(k)) >= 1 /\ p \in P
      BY <1>4, <2>3
    <3>2. m \in 1..length /\ ~(k <= m)
      BY <2>3, <2>4, <3>1
    <3>3. f[k] = <<p>> \o f[m]
      BY <1>3, <2>3, <2>4
    <3> HIDE DEF m, p
    <3>4. f[m] \in Seq(P)
      <4>1. m \notin Bad
        <5> HIDE DEF Bad
        <5> QED BY <2>2, <3>2
      <4> QED BY <3>2, <4>1
    <3>5. <<p>> \in Seq(P)
      BY <3>1
    <3>6. <<p>> \o f[m] \in Seq(P)
      BY <3>4, <3>5, ConcatProperties
    <3> QED BY <2>3, <3>3, <3>6
  <2>5. CASE ~(k > Fits(From(k)))
    <3> DEFINE p == PieceAt(From(k), k)
    <3>1. p \in P
      BY <1>4, <2>3, <2>5
    <3>2. f[k] = <<p>>
      BY <1>3, <2>3, <2>5
    <3> HIDE DEF p
    <3> QED BY <2>3, <3>1, <3>2
  <2> QED BY <2>4, <2>5
<1>6. length \in 1..length
  OBVIOUS
<1>7. f[length] \in Seq(P)
  BY <1>5, <1>6
<1> QED BY <1>1, <1>7 DEF P

\* A UDF needs windows that exist, each for bytes of its own.
LEMMA UdfPieces ==
  ASSUME NEW u \in Udfs
  PROVE  /\ Pieces[u] \in Seq(PiecesTo(u.offset + u.length - 1))
         /\ Bases(u) \in Seq(Offsets) /\ Len(Bases(u)) = Len(Pieces[u])
         /\ \A i \in DOMAIN Pieces[u] : Bases(u)[i] = Pieces[u][i].base
<1> DEFINE end == u.offset + u.length - 1
           ps == Pieces[u]
<1>1. u.offset \in Nat /\ u.offset >= 2 /\ u.length \in Nat /\ u.length # 0
  BY DEF FilterAssumption
<1>2. ps \in Seq(PiecesTo(end))
  BY <1>1, SplitPieces DEF Pieces
<1>3. Bases(u) = [i \in DOMAIN ps |-> ps[i].base]
  BY DEF Bases
<1>4. \A o \in 2..end : o % CHUNK_SIZE = 2 => o \in Offsets
  BY DEF FilterAssumption
<1> HIDE DEF ps
<1>5. DOMAIN ps = 1..Len(ps) /\ Len(ps) \in Nat /\ \A i \in 1..Len(ps) : ps[i] \in PiecesTo(end)
  BY <1>2
<1>6. ASSUME NEW i \in 1..Len(ps) PROVE ps[i].base \in Offsets
  <2>1. ps[i] \in PiecesTo(end)
    BY <1>5
  <2>2. ps[i].base \in Nat /\ ps[i].base >= 2 /\ ps[i].base <= end /\ ps[i].base % 4 = 2
    BY <2>1 DEF PiecesTo
  <2>3. end \in Int
    BY SMTT(40), <1>1
  <2> HIDE DEF end
  <2>4. ps[i].base \in 2..end
    BY <2>2, <2>3
  <2> QED BY <1>4, <2>2, <2>4 DEF CHUNK_SIZE
<1>7. Bases(u) \in [1..Len(ps) -> Offsets]
  BY <1>3, <1>5, <1>6
<1>8. Bases(u) \in Seq(Offsets) /\ Len(Bases(u)) = Len(ps)
  BY <1>5, <1>7
<1> QED BY <1>2, <1>3, <1>5, <1>8 DEF ps
-----------------------------------------------------------------------------
(* UDFs.                                                                   *)

UdfUses(a, u) == Shares(a, Bases(u), Len(Bases(u)))

LEMMA HoldUdfKeeps ==
  ASSUME NEW r \in Resources, NEW H, Windows(r, H), NEW a, NoneOf(a, H), NEW u \in Udfs,
         NEW q, q = HoldUdf(r, u)
  PROVE  /\ q \in Resources /\ KeepsWindows(r, q, H) /\ Windows(q, H)
         /\ CanHoldUdf(r, u) \in BOOLEAN
         /\ CanHoldUdf(r, u) => Windows(q, H \cup UdfUses(a, u))
<1> DEFINE ks == Bases(u)
           e == Each(CanHoldChunk, HoldChunk, r, ks)
           short == Len(ks) <= ChunkMax + 1
<1>1. ks \in Seq(Offsets)
  BY UdfPieces
<1>2. q = (IF short THEN e.r ELSE r) /\ CanHoldUdf(r, u) = (short /\ e.ok) /\ UdfUses(a, u) = Shares(a, ks, Len(ks))
  BY DEF HoldUdf, CanHoldUdf, UdfUses
<1>3. short \in BOOLEAN
  OBVIOUS
<1>7. e = Each(CanHoldChunk, HoldChunk, r, ks)
  OBVIOUS
<1> HIDE DEF ks, e, short
<1>4. /\ e \in Attempts /\ e.r \in Resources /\ KeepsWindows(r, e.r, H) /\ Windows(e.r, H)
      /\ e.ok => Windows(e.r, H \cup Shares(a, ks, Len(ks)))
  BY <1>1, <1>7, HoldChunksKeep
<1>5. e.ok \in BOOLEAN
  BY <1>4 DEF Attempts
<1>6. KeepsWindows(r, r, H)
  BY DEF KeepsWindows, SameTags, SameClasses
<1> QED BY <1>2, <1>3, <1>4, <1>5, <1>6

LEMMA DropUdfKeeps ==
  ASSUME NEW r \in Resources, NEW H, Windows(r, H), NEW a, NEW u \in Udfs, UdfUses(a, u) \subseteq H,
         NEW q, q = DropUdf(r, u)
  PROVE  q \in Resources /\ Windows(q, H \ UdfUses(a, u)) /\ KeepsWindows(r, q, H \ UdfUses(a, u))
<1>1. Bases(u) \in Seq(Offsets)
  BY UdfPieces
<1> QED BY <1>1, DropChunksKeep DEF UdfUses, DropUdf

\* All the shares are f's; none is for a UDF after the first i; none is f's.
AllOf(f, H) == \A h \in H : h[1][1][1] = f
NotPast(f, i, H) == \A j \in Nat : j > i => NoneOf(<<f, j>>, H)
Absent(f, H) == \A h \in H : h[1][1][1] # f

LEMMA ChunkUsesGrow ==
  ASSUME NEW f, NEW us, NEW i \in Nat
  PROVE  /\ ChunkUses(f, us, 0) = {}
         /\ i # 0 => ChunkUses(f, us, i) = ChunkUses(f, us, i - 1) \cup UdfUses(<<f, i>>, us[i])
         /\ \A j \in 0..i : ChunkUses(f, us, j) \subseteq ChunkUses(f, us, i)
         /\ AllOf(f, ChunkUses(f, us, i)) /\ NotPast(f, i, ChunkUses(f, us, i))
<1>1. ChunkUses(f, us, 0) = {}
  BY DEF ChunkUses
<1>2. ASSUME i # 0
      PROVE  ChunkUses(f, us, i) = ChunkUses(f, us, i - 1) \cup UdfUses(<<f, i>>, us[i])
  <2>1. 1..i = 1..(i - 1) \cup {i} /\ i \notin 1..(i - 1)
    BY <1>2
  <2> QED BY <2>1 DEF ChunkUses, UdfUses
<1>3. ASSUME NEW j \in 0..i PROVE ChunkUses(f, us, j) \subseteq ChunkUses(f, us, i)
  <2>1. 1..j \subseteq 1..i
    OBVIOUS
  <2> QED BY <2>1 DEF ChunkUses
<1>4. ASSUME NEW h \in ChunkUses(f, us, i)
      PROVE  h[1][1][1] = f /\ \A j \in Nat : j > i => h[1][1] # <<f, j>>
  <2>1. PICK k \in 1..i : h \in Shares(<<f, k>>, Bases(us[k]), Len(Bases(us[k])))
    BY <1>4 DEF ChunkUses
  <2>2. h[1][1] = <<f, k>>
    BY <2>1 DEF Shares
  <2>3. \A j \in Nat : j > i => j # k
    OBVIOUS
  <2> QED BY <2>2, <2>3
<1> QED BY <1>1, <1>2, <1>3, <1>4 DEF AllOf, NotPast, NoneOf

\* The uses of each UDF are of its own.
LEMMA ChunkUsesApart ==
  ASSUME NEW f, NEW us, NEW i \in Nat, NEW k \in Nat, k > i
  PROVE  ChunkUses(f, us, i) \cap UdfUses(<<f, k>>, us[k]) = {}
<1>1. \A h \in UdfUses(<<f, k>>, us[k]) : h[1][1] = <<f, k>>
  BY DEF UdfUses, Shares
<1>2. NoneOf(<<f, k>>, ChunkUses(f, us, i))
  BY ChunkUsesGrow DEF NotPast
<1> QED BY <1>1, <1>2 DEF NoneOf

LEMMA DropUdfsKeep ==
  ASSUME NEW r \in Resources, NEW H, Windows(r, H), NEW f, NEW us \in Seq(Udfs),
         ChunkUses(f, us, Len(us)) \subseteq H, NEW q, q = FoldLeft(DropUdf, r, us)
  PROVE  /\ q \in Resources /\ Windows(q, H \ ChunkUses(f, us, Len(us)))
         /\ KeepsWindows(r, q, H \ ChunkUses(f, us, Len(us)))
<1> DEFINE n == Len(us)
           G == H \ ChunkUses(f, us, n)
           I == {y \in (0..n) \X Resources :
                   Windows(y[2], H \ ChunkUses(f, us, y[1])) /\ KeepsWindows(r, y[2], G)}
<1>1. n \in Nat /\ DOMAIN us = 1..n
  OBVIOUS
<1> HIDE DEF n, G
<1>2. <<0, r>> \in I
  <2>1. H \ ChunkUses(f, us, 0) = H
    BY ChunkUsesGrow
  <2>2. KeepsWindows(r, r, G)
    BY DEF KeepsWindows, SameTags, SameClasses
  <2>3. Windows(r, H \ ChunkUses(f, us, 0))
    BY <2>1
  <2>4. 0 \in 0..n
    BY <1>1
  <2> QED BY <2>2, <2>3, <2>4
<1>3. ASSUME NEW i \in 1..n, NEW p, <<i - 1, p>> \in I PROVE <<i, DropUdf(p, us[i])>> \in I
  <2> DEFINE a == <<f, i>>
             F == H \ ChunkUses(f, us, i - 1)
             u == us[i]
             d == DropUdf(p, u)
             U == UdfUses(a, u)
  <2>1. p \in Resources /\ Windows(p, F) /\ KeepsWindows(r, p, G)
    BY <1>3
  <2>2. i \in Nat /\ i # 0 /\ i \in 0..n /\ u \in Udfs /\ i - 1 \in Nat /\ i > i - 1
    BY <1>1
  <2>3. ChunkUses(f, us, i) = ChunkUses(f, us, i - 1) \cup U
    BY <2>2, ChunkUsesGrow
  <2>4. ChunkUses(f, us, i) \subseteq ChunkUses(f, us, n)
    BY <1>1, <2>2, ChunkUsesGrow
  <2>5. ChunkUses(f, us, i - 1) \cap U = {}
    BY <2>2, ChunkUsesApart
  <2>6. U \subseteq F /\ F \ U = H \ ChunkUses(f, us, i) /\ G \subseteq F \ U
    BY <2>3, <2>4, <2>5 DEF n, G
  <2> HIDE DEF F, a, U, I, u
  <2>7. d = DropUdf(p, u) /\ U = UdfUses(a, u)
    BY DEF U
  <2> HIDE DEF d
  <2>8. d \in Resources /\ Windows(d, F \ U) /\ KeepsWindows(p, d, F \ U)
    BY <2>1, <2>2, <2>6, <2>7, DropUdfKeeps
  <2>9. KeepsWindows(r, d, G)
    BY <2>1, <2>6, <2>8, KeepsOnward
  <2>10. <<i, d>> \in I
    BY <2>2, <2>6, <2>8, <2>9 DEF I
  <2> QED BY <2>10 DEF d, u
<1>4. <<n, q>> \in I
  <2> HIDE DEF I
  <2> QED BY <1>1, <1>2, <1>3, DropUdfFold DEF n
<1> QED BY <1>4 DEF n, G

\* The windows of the first n UDFs, whatever comes after.
LEMMA ChunkUsesOfPart ==
  ASSUME NEW us \in Seq(Udfs), NEW n \in 0..Len(us), NEW f
  PROVE  /\ SubSeq(us, 1, n) \in Seq(Udfs) /\ Len(SubSeq(us, 1, n)) = n
         /\ ChunkUses(f, SubSeq(us, 1, n), n) = ChunkUses(f, us, n)
<1>1. SubSeq(us, 1, n) = [i \in 1..n |-> us[i]] /\ Len(us) \in Nat
  BY DEF SubSeq
<1>2. [i \in 1..n |-> us[i]] \in Seq(Udfs) /\ Len([i \in 1..n |-> us[i]]) = n
  <2>1. [i \in 1..n |-> us[i]] \in [1..n -> Udfs] /\ n \in Nat
    OBVIOUS
  <2> QED BY SMTT(40), <2>1
<1>3. \A i \in 1..n : SubSeq(us, 1, n)[i] = us[i]
  BY <1>1
<1>4. SubSeq(us, 1, n) \in Seq(Udfs) /\ Len(SubSeq(us, 1, n)) = n
  BY <1>1, <1>2
<1> DEFINE vs == SubSeq(us, 1, n)
<1> HIDE DEF vs
<1>5. \A i \in 1..n : vs[i] = us[i]
  BY <1>3 DEF vs
<1>6. ChunkUses(f, vs, n) = ChunkUses(f, us, n)
  BY <1>5 DEF ChunkUses
<1> QED BY <1>4, <1>6 DEF vs

LEMMA HoldUdfsKeep ==
  ASSUME NEW r \in Resources, NEW H, Windows(r, H), NEW f, Absent(f, H),
         NEW us \in Seq(Udfs), NEW e, e = HoldUdfs(r, us)
  PROVE  /\ e \in Attempts /\ KeepsWindows(r, e.r, H)
         /\ IF e.ok THEN Windows(e.r, H \cup ChunkUses(f, us, Len(us))) ELSE Windows(e.r, H)
<1> DEFINE n == Len(us)
           I == {y \in (0..n) \X Attempts :
                   /\ KeepsWindows(r, y[2].r, H) /\ Windows(y[2].r, H \cup ChunkUses(f, us, y[2].n))
                   /\ IF y[2].ok THEN y[2].n = y[1] ELSE y[2].n \in 0..(n - 1)}
<1>1. n \in Nat /\ DOMAIN us = 1..n
  OBVIOUS
<1> HIDE DEF n
<1>0. ASSUME NEW i \in 1..n
      PROVE  NoneOf(<<f, i>>, H \cup ChunkUses(f, us, i - 1))
  <2>1. i - 1 \in Nat /\ i > i - 1 /\ i \in Nat
    BY <1>1
  <2>2. NoneOf(<<f, i>>, ChunkUses(f, us, i - 1))
    BY <2>1, ChunkUsesGrow DEF NotPast
  <2>3. <<f, i>>[1] = f
    OBVIOUS
  <2> QED BY <2>2, <2>3 DEF NoneOf, Absent
<1>2. <<0, Began(r)>> \in I
  <2>1. H \cup ChunkUses(f, us, 0) = H
    BY ChunkUsesGrow
  <2>2. KeepsWindows(r, r, H)
    BY DEF KeepsWindows, SameTags, SameClasses
  <2>3. Windows(r, H \cup ChunkUses(f, us, 0))
    BY <2>1
  <2>4. 0 \in 0..n
    BY <1>1
  <2>5. Began(r) \in Attempts /\ Began(r).r = r /\ Began(r).ok /\ Began(r).n = 0
    BY BeganIs
  <2> QED BY <2>2, <2>3, <2>4, <2>5
<1>3. ASSUME NEW i \in 1..n, NEW b, <<i - 1, b>> \in I PROVE <<i, TryUdf(b, us[i])>> \in I
  <2> DEFINE a == <<f, i>>
             F == H \cup ChunkUses(f, us, b.n)
             p == b.r
             u == us[i]
             d == HoldUdf(p, u)
             can == CanHoldUdf(p, u)
             t == TryUdf(b, u)
  <2>1. /\ b \in Attempts /\ KeepsWindows(r, p, H) /\ Windows(p, F)
        /\ IF b.ok THEN b.n = i - 1 ELSE b.n \in 0..(n - 1)
    BY <1>3
  <2>2. i \in Nat /\ i # 0 /\ i \in 0..n /\ u \in Udfs /\ i - 1 \in Nat /\ i - 1 \in 0..(n - 1)
    BY <1>1
  <2>3. p \in Resources /\ H \subseteq F
    BY <2>1 DEF Attempts
  <2>4. t = Tried(can, b, d)
    BY DEF TryUdf
  <2>5. b.ok => ChunkUses(f, us, i) = ChunkUses(f, us, b.n) \cup UdfUses(a, u)
    BY <2>1, <2>2, ChunkUsesGrow
  <2>6. b.ok => NoneOf(a, F)
    BY <1>0, <2>1
  <2>7. d = HoldUdf(p, u) /\ can = CanHoldUdf(p, u)
    OBVIOUS
  <2> HIDE DEF d, can, t, p, u, a, I
  <2>9. b.ok => F \cup UdfUses(a, u) = H \cup ChunkUses(f, us, i)
    BY <2>5
  <2> HIDE DEF F
  <2>8. ASSUME b.ok
        PROVE  /\ d \in Resources /\ KeepsWindows(r, d, H) /\ can \in BOOLEAN
               /\ can => Windows(d, H \cup ChunkUses(f, us, i))
    <3>1. /\ d \in Resources /\ KeepsWindows(p, d, F) /\ can \in BOOLEAN
          /\ can => Windows(d, F \cup UdfUses(a, u))
      BY <2>1, <2>2, <2>3, <2>6, <2>7, <2>8, HoldUdfKeeps
    <3>2. KeepsWindows(r, d, H)
      BY <2>1, <2>3, <3>1, KeepsOnward
    <3> QED BY <2>8, <2>9, <3>1, <3>2
  <2>10. can \in BOOLEAN
    BY DEF can, CanHoldUdf, Each
  <2>11. /\ t \in Attempts
         /\ IF b.ok /\ can THEN t.r = d /\ t.n = b.n + 1 /\ t.ok
            ELSE t.r = b.r /\ t.n = b.n /\ ~t.ok
    BY <2>1, <2>4, <2>8, <2>10, TriedIs
  <2>12. <<i, t>> \in I
    <3>1. CASE b.ok /\ can
      <4>1. t.n = i
        BY <2>1, <2>2, <2>11, <3>1
      <4> QED BY <2>2, <2>8, <2>11, <3>1, <4>1 DEF I
    <3>2. CASE ~(b.ok /\ can)
      BY <2>1, <2>2, <2>11, <3>2 DEF I, F, p
    <3> QED BY <3>1, <3>2
  <2> QED BY <2>12 DEF t, u
<1> DEFINE b == Each(CanHoldUdf, HoldUdf, r, us)
<1>4. <<n, b>> \in I
  <2> HIDE DEF I
  <2> QED BY <1>1, <1>2, <1>3, TryUdfFold DEF n
<1> HIDE DEF b
<1>5. /\ b \in Attempts /\ KeepsWindows(r, b.r, H) /\ Windows(b.r, H \cup ChunkUses(f, us, b.n))
      /\ IF b.ok THEN b.n = n ELSE b.n \in 0..(n - 1)
      /\ b.ok \in BOOLEAN /\ b.r \in Resources
  BY <1>4 DEF Attempts
<1>6. CASE b.ok
  <2>1. e = b
    BY <1>6 DEF HoldUdfs, b
  <2> QED BY <1>5, <1>6, <2>1 DEF n
<1>7. CASE ~b.ok
  <2> DEFINE m == b.n
             u == us[m + 1]
             p == HoldUdf(b.r, u)
             vs == SubSeq(us, 1, m)
             d == FoldLeft(DropUdf, p, vs)
             F == H \cup ChunkUses(f, us, m)
             a == <<f, m + 1>>
  <2>1. e = [b EXCEPT !.r = d]
    BY <1>7 DEF HoldUdfs, b
  <2>2. m \in 0..(n - 1) /\ m + 1 \in 1..n /\ m \in 0..n /\ m \in 0..Len(us) /\ m + 1 - 1 = m
    BY <1>1, <1>5, <1>7 DEF n
  <2>3. u \in Udfs
    BY <1>1, <2>2
  <2>4. NoneOf(a, F)
    BY <1>0, <2>2
  <2>5. b.r \in Resources /\ Windows(b.r, F) /\ KeepsWindows(r, b.r, H) /\ H \subseteq F
    BY <1>5
  <2>6. p = HoldUdf(b.r, u)
    OBVIOUS
  <2> HIDE DEF p, u, a
  <2>7. p \in Resources /\ Windows(p, F) /\ KeepsWindows(b.r, p, F)
    <3> HIDE DEF F
    <3> QED BY <2>3, <2>4, <2>5, <2>6, HoldUdfKeeps
  <2>8. vs \in Seq(Udfs) /\ Len(vs) = m /\ ChunkUses(f, vs, m) = ChunkUses(f, us, m)
    BY <2>2, ChunkUsesOfPart
  <2> HIDE DEF vs
  <2>9. ChunkUses(f, vs, Len(vs)) \subseteq F
    BY <2>8
  <2>10. F \ ChunkUses(f, vs, Len(vs)) = H
    <3>2. m \in Nat
      BY <2>2
    <3>1. AllOf(f, ChunkUses(f, us, m)) /\ m \in Nat
      <4> HIDE DEF m
      <4> QED BY <3>2, ChunkUsesGrow
    <3> QED BY <2>8, <3>1 DEF AllOf, Absent
  <2>11. d = FoldLeft(DropUdf, p, vs)
    OBVIOUS
  <2> HIDE DEF d
  <2>12. d \in Resources /\ Windows(d, H) /\ KeepsWindows(p, d, H)
    <3> HIDE DEF F
    <3>1. d \in Resources /\ Windows(d, F \ ChunkUses(f, vs, Len(vs)))
          /\ KeepsWindows(p, d, F \ ChunkUses(f, vs, Len(vs)))
      BY <2>7, <2>8, <2>9, <2>11, DropUdfsKeep
    <3> QED BY <2>10, <3>1
  <2> HIDE DEF F
  <2>13. KeepsWindows(b.r, d, H)
    <3>1. KeepsWindows(b.r, p, H)
      BY <2>5, <2>7 DEF KeepsWindows
    <3> QED BY <2>12, <3>1, KeepsOnward
  <2>14. KeepsWindows(r, d, H)
    BY <2>5, <2>13, KeepsOnward
  <2>15. e \in Attempts /\ e.r = d /\ e.ok = b.ok
    BY ONLY <1>5, <2>1, <2>12 DEF Attempts
  <2> QED BY <1>7, <2>12, <2>14, <2>15
<1> QED BY <1>5, <1>6, <1>7
-----------------------------------------------------------------------------
(* Where a filter compares.                                                *)

\* f's windows for us are among those of H.
Within(f, us, H) == ChunkUses(f, us, Len(us)) \subseteq H
SamePlaces(r, q, us) == Places(q, us) = Places(r, us)

\* Places do not move while the windows do not.
LEMMA PlacesStay ==
  ASSUME NEW r, NEW q, NEW H, SameIds(r, q, H), NEW f, NEW us \in Seq(Udfs), Within(f, us, H)
  PROVE  SamePlaces(r, q, us)
<1>0. ChunkUses(f, us, Len(us)) \subseteq H
  BY DEF Within
<1>1. ASSUME NEW i \in DOMAIN us, NEW j \in DOMAIN Pieces[us[i]]
      PROVE  PlacesOf(q, Pieces[us[i]][j]) = PlacesOf(r, Pieces[us[i]][j])
  <2> DEFINE u == us[i]
             c == Pieces[u][j]
             h == <<<<<<f, i>>, j>>, c.base>>
  <2>1. u \in Udfs
    OBVIOUS
  <2>2. /\ Pieces[u] \in Seq(PiecesTo(u.offset + u.length - 1)) /\ Bases(u) \in Seq(Offsets)
        /\ Len(Bases(u)) = Len(Pieces[u]) /\ Bases(u)[j] = c.base
    BY <2>1, UdfPieces
  <2>3. j \in 1..Len(Bases(u)) /\ i \in 1..Len(us)
    <3>1. DOMAIN Pieces[u] = 1..Len(Pieces[u]) /\ j \in DOMAIN Pieces[u] /\ i \in 1..Len(us)
      <4>1. j \in DOMAIN Pieces[u] /\ i \in 1..Len(us)
        OBVIOUS
      <4> HIDE DEF u
      <4> QED BY <2>2, <4>1
    <3> HIDE DEF u
    <3> QED BY <2>2, <3>1
  <2>4. h \in ChunkUses(f, us, Len(us))
    <3>1. h \in Shares(<<f, i>>, Bases(u), Len(Bases(u)))
      BY <2>2, <2>3 DEF Shares
    <3> QED BY <2>3, <3>1 DEF ChunkUses
  <2>5. q.chunk.id[c.base] = r.chunk.id[c.base]
    <3>1. h[2] = c.base /\ h \in H
      BY <1>0, <2>4
    <3> HIDE DEF c, h
    <3> QED BY <3>1 DEF SameIds
  <2> HIDE DEF c, u
  <2>6. PlacesOf(q, c) = PlacesOf(r, c)
    BY <2>5 DEF PlacesOf
  <2> QED BY <2>6 DEF c, u
<1> QED BY <1>1 DEF Places, SamePlaces

\* The window and the byte in it of a place.
Divides(y, id, o) == y \div CHUNK_SIZE = id /\ y % CHUNK_SIZE = o

LEMMA PlaceDivides ==
  ASSUME NEW base \in Nat, NEW from \in Nat, NEW length \in Nat, base <= from, from + length <= base + 4,
         NEW id \in Nat, NEW k \in 0..(length - 1)
  PROVE  Divides((id * CHUNK_SIZE + (from - base)) + k, id, (from - base) + k)
<1> DEFINE o == (from - base) + k
           y == (id * CHUNK_SIZE + (from - base)) + k
<1>1. o \in 0..3
  OBVIOUS
<1>2. y = 4 * id + o
  BY DEF CHUNK_SIZE
<1> HIDE DEF o, y
<1>3. (4 * id + o) % 4 = o
  BY <1>1, ModIs
<1>4. (4 * id + o) \div 4 = id
  BY <1>1
<1>5. Divides(y, id, o)
  BY <1>2, <1>3, <1>4 DEF Divides, CHUNK_SIZE
<1> QED BY <1>5 DEF o, y

\* At each place the window of a filter's bytes looks at the byte meant.
LooksAt(r, x) ==
  /\ x \in Nat \X Nat
  /\ r.window[x[2] \div CHUNK_SIZE] # NoId
  /\ r.window[x[2] \div CHUNK_SIZE] + (x[2] % CHUNK_SIZE) = x[1]

LEMMA PlacesMatch ==
  ASSUME NEW r \in Resources, NEW H, Windows(r, H), NEW f, NEW us \in Seq(Udfs),
         Within(f, us, H), NEW x \in Places(r, us)
  PROVE  LooksAt(r, x)
<1>0. PICK i \in DOMAIN us : x \in UNION {PlacesOf(r, Pieces[us[i]][j]) : j \in DOMAIN Pieces[us[i]]}
  BY DEF Places
<1>1. PICK j \in DOMAIN Pieces[us[i]] : x \in PlacesOf(r, Pieces[us[i]][j])
  BY <1>0
<1> DEFINE u == us[i]
           c == Pieces[u][j]
           h == <<<<<<f, i>>, j>>, c.base>>
           id == r.chunk.id[c.base]
<1>2. u \in Udfs
  OBVIOUS
<1>3. /\ Pieces[u] \in Seq(PiecesTo(u.offset + u.length - 1)) /\ Bases(u) \in Seq(Offsets)
      /\ Len(Bases(u)) = Len(Pieces[u]) /\ Bases(u)[j] = c.base
  BY <1>2, UdfPieces
<1>4. j \in 1..Len(Bases(u)) /\ i \in 1..Len(us)
  <2>1. j \in DOMAIN Pieces[u] /\ i \in 1..Len(us)
    OBVIOUS
  <2> HIDE DEF u, c
  <2>2. DOMAIN Pieces[u] = 1..Len(Pieces[u])
    BY <1>3
  <2> QED BY <1>3, <2>1, <2>2
<1>5. h \in ChunkUses(f, us, Len(us)) /\ h[2] = c.base
  <2>1. h \in Shares(<<f, i>>, Bases(u), Len(Bases(u)))
    BY <1>3, <1>4 DEF Shares
  <2> QED BY <1>4, <2>1 DEF ChunkUses
<1>6. /\ c.base \in Nat /\ c.from \in Nat /\ c.length \in Nat
      /\ c.base <= c.from /\ c.from + c.length <= c.base + 4
  <2>1. c \in PiecesTo(u.offset + u.length - 1)
    BY <1>3
  <2> HIDE DEF c
  <2> QED BY <2>1 DEF PiecesTo
<1>7. PICK k \in 0..(c.length - 1) : x = <<c.from + k, (id * CHUNK_SIZE + (c.from - c.base)) + k>>
  BY <1>1 DEF PlacesOf
<1> HIDE DEF h, c, u
<1>8. c.base \in Offsets /\ InUse(r.chunk, c.base)
  <2>1. h \in H /\ Counts(r.chunk.refs, Offsets) /\ Backed(r.chunk.refs, H)
    BY <1>5, TableFields DEF Windows, Pool, Counts, Within
  <2> QED BY <1>5, <2>1, UsersInUse DEF InUse
<1>9. r.window[id] = c.base /\ id \in Nat
  <2>1. r.chunk \in Tables(Offsets, 0, ChunkMax) /\ id # NoId
    BY <1>8 DEF Windows, Pool
  <2>2. id \in 0..ChunkMax \cup {NoId}
    <3>1. r.chunk.id \in [Offsets -> 0..ChunkMax \cup {NoId}]
      BY <2>1, TableFields
    <3> QED BY <1>8, <3>1
  <2>3. r.window[id] = c.base
    BY <1>8 DEF Windows
  <2> HIDE DEF id
  <2> QED BY <2>1, <2>2, <2>3
<1> HIDE DEF id
<1>10. Divides((id * CHUNK_SIZE + (c.from - c.base)) + k, id, (c.from - c.base) + k)
  BY <1>6, <1>7, <1>9, PlaceDivides
<1>11. Divides(x[2], id, (c.from - c.base) + k) /\ x[1] = c.from + k
  BY <1>7, <1>10
<1>12. r.window[x[2] \div CHUNK_SIZE] = c.base /\ x[2] % CHUNK_SIZE = (c.from - c.base) + k
  BY <1>9, <1>11 DEF Divides
<1> DEFINE base == c.base
           from == c.from
           length == c.length
<1>13. /\ base + ((from - base) + k) = from + k /\ base # NoId /\ from + k \in Nat
       /\ (id * CHUNK_SIZE + (from - base)) + k \in Nat
  <2>1. base \in Nat /\ from \in Nat /\ length \in Nat /\ k \in 0..(length - 1) /\ base <= from /\ id \in Nat
    BY <1>6, <1>7, <1>9
  <2> HIDE DEF base, from, length
  <2> QED BY <2>1 DEF NoId, CHUNK_SIZE
<1>14. x \in Nat \X Nat
  BY <1>7, <1>13
<1> QED BY <1>11, <1>12, <1>13, <1>14 DEF LooksAt
-----------------------------------------------------------------------------
(* Outer tag values.                                                       *)

\* A change of the tag values only.
LEMMA TagsChange ==
  ASSUME NEW r \in Resources, NEW t \in Tables(Tpids, 0, TpidMax), NEW n \in PortTpids,
         NEW g \in TagValues, NEW b \in PortRegisters,
         NEW q, Holding(q, r.chunk, r.window, t, n, g, b, r.class, r.vfp)
  PROVE  /\ q \in Resources /\ q.tpid = t /\ q.port_tpid = n /\ q.tag = g /\ q.bmp = b
         /\ SameChunks(r, q) /\ SameClasses(r, q)
<1>1. /\ q.chunk = r.chunk /\ q.window = r.window /\ q.tpid = t /\ q.port_tpid = n
      /\ q.tag = g /\ q.bmp = b /\ q.class = r.class /\ q.vfp = r.vfp
  BY DEF Holding
<1> QED BY <1>1, ResourceFields DEF SameChunks, SameClasses

\* Each user of a tag value is counted by its port.
Counted(n, H) == \A x \in Pids \X Tpids : n[x] = Cardinality(Users(H, x))

LEMMA CountedMore ==
  ASSUME NEW n \in PortTpids, NEW H, IsFiniteSet(H), Counted(n, H), NEW h, h \notin H,
         h[2] \in Pids \X Tpids, NEW m, m = Plus(n, h[2])
  PROVE  IsFiniteSet(H \cup {h}) /\ Counted(m, H \cup {h}) /\ m \in PortTpids
<1>1. IsFiniteSet(H \cup {h})
  BY FS_AddElement
<1> DEFINE K == Pids \X Tpids
<1>2. n \in [K -> Nat] /\ h[2] \in K
  BY DEF PortTpids
<1>3. \A k \in K : n[k] = Cardinality(Users(H, k))
  BY DEF Counted
<1> HIDE DEF K
<1>4. m \in [K -> Nat]
  BY <1>2 DEF Plus
<1>5. ASSUME NEW k \in K PROVE m[k] = Cardinality(Users(H \cup {h}, k))
  <2>1. /\ Cardinality(Users(H, k)) \in Nat
        /\ Cardinality(Users(H \cup {h}, k)) =
                        Cardinality(Users(H, k)) + (IF h[2] = k THEN 1 ELSE 0)
    BY OneMoreShare
  <2>2. m[k] = IF h[2] = k THEN n[k] + 1 ELSE n[k]
    BY <1>2 DEF Plus
  <2>3. n[k] = Cardinality(Users(H, k))
    BY <1>3
  <2> QED BY ONLY <2>1, <2>2, <2>3
<1> QED BY <1>1, <1>4, <1>5 DEF K, Counted, PortTpids

LEMMA CountedLess ==
  ASSUME NEW n \in PortTpids, NEW H, IsFiniteSet(H), Counted(n, H), NEW h \in H,
         h[2] \in Pids \X Tpids, NEW m, m = Minus(n, h[2])
  PROVE  IsFiniteSet(H \ {h}) /\ Counted(m, H \ {h}) /\ m \in PortTpids /\ n[h[2]] > 0
<1>1. IsFiniteSet(H \ {h})
  BY FS_RemoveElement
<1> DEFINE K == Pids \X Tpids
<1>2. n \in [K -> Nat] /\ h[2] \in K
  BY DEF PortTpids
<1>3. \A k \in K : n[k] = Cardinality(Users(H, k))
  BY DEF Counted
<1> HIDE DEF K
<1>5. ASSUME NEW k \in K PROVE m[k] = Cardinality(Users(H \ {h}, k)) /\ m[k] \in Nat
  <2>1. /\ Cardinality(Users(H, k)) \in Nat /\ Cardinality(Users(H \ {h}, k)) \in Nat
        /\ Cardinality(Users(H \ {h}, k)) =
                        Cardinality(Users(H, k)) - (IF h[2] = k THEN 1 ELSE 0)
    BY OneLessShare
  <2>2. m[k] = IF h[2] = k THEN n[k] - 1 ELSE n[k]
    BY <1>2 DEF Minus
  <2>3. n[k] = Cardinality(Users(H, k))
    BY <1>3
  <2> QED BY ONLY <2>1, <2>2, <2>3
<1>4. m \in [K -> Nat]
  <2>1. m = [k \in K |-> m[k]]
    BY <1>2 DEF Minus
  <2> QED BY <1>5, <2>1
<1>6. n[h[2]] > 0
  <2>1. Cardinality(Users(H, h[2])) \in Nat /\ Cardinality(Users(H, h[2])) # 0
    BY SomeShare
  <2> QED BY <1>2, <1>3, <2>1
<1> QED BY <1>1, <1>4, <1>5, <1>6 DEF K, Counted, PortTpids

\* A port's registers exist: the values it uses are in use on the unit.
LEMMA RegistersExist ==
  ASSUME NEW r, Pool(r.tpid, Tpids, 0, TpidMax), Backed(r.tpid.refs, OnPorts(r)), NEW p \in Pids
  PROVE  /\ Registers(r, p) \in SUBSET (0..TpidMax)
         /\ \A t \in Tpids : r.port_tpid[p, t] > 0 => InUse(r.tpid, t)
<1>1. Counts(r.tpid.refs, Tpids) /\ r.tpid.id \in [Tpids -> 0..TpidMax \cup {NoId}]
  BY TableFields DEF Pool, Counts
<1>2. ASSUME NEW t \in Tpids, r.port_tpid[p, t] > 0 PROVE InUse(r.tpid, t) /\ r.tpid.id[t] \in 0..TpidMax
  <2> DEFINE x == <<p, t>>
  <2>1. x \in OnPorts(r) /\ x[2] = t
    BY <1>2 DEF OnPorts
  <2> HIDE DEF x
  <2>2. InUse(r.tpid, t)
    BY <1>1, <2>1, UsersInUse DEF InUse
  <2>3. r.tpid.id[t] # NoId
    BY <2>2 DEF Pool
  <2> QED BY <1>1, <2>2, <2>3
<1> QED BY <1>2 DEF Registers

\* What Tags tells of the tables.
LEMMA TagFields ==
  ASSUME NEW r \in Resources, NEW H, Tags(r, H)
  PROVE  /\ Holding(r, r.chunk, r.window, r.tpid, r.port_tpid, r.tag, r.bmp, r.class, r.vfp)
         /\ r.tpid \in Tables(Tpids, 0, TpidMax) /\ r.port_tpid \in PortTpids
         /\ r.tag \in TagValues /\ r.bmp \in PortRegisters
         /\ Pool(r.tpid, Tpids, 0, TpidMax) /\ IsFiniteSet(H) /\ Counted(r.port_tpid, H)
         /\ Backed(r.tpid.refs, OnPorts(r)) /\ Counts(r.tpid.refs, Tpids)
         /\ \A t \in Tpids : InUse(r.tpid, t) => r.tag[r.tpid.id[t]] = t
         /\ \A p \in Pids : r.bmp[p] = Registers(r, p)
BY ResourceFields, TableFields DEF Tags, Counted, Counts

LEMMA HoldTpidKeeps ==
  ASSUME NEW r \in Resources, NEW H, Tags(r, H), NEW h, h \notin H, h[2] \in Pids \X Tpids,
         CanHoldTpid(r, h[2]), NEW q, q = HoldTpid(r, h[2])
  PROVE  /\ q \in Resources /\ Tags(q, H \cup {h}) /\ SameChunks(r, q) /\ SameClasses(r, q)
         /\ InUse(q.tpid, h[2][2])
<1> DEFINE x == h[2]
           p == x[1]
           v == x[2]
           t == Hold(r.tpid, v, TpidMax)
           n == Plus(r.port_tpid, x)
           G == H \cup {h}
<1>1. /\ Holding(r, r.chunk, r.window, r.tpid, r.port_tpid, r.tag, r.bmp, r.class, r.vfp)
      /\ r.tpid \in Tables(Tpids, 0, TpidMax) /\ r.port_tpid \in PortTpids
      /\ r.tag \in TagValues /\ r.bmp \in PortRegisters
      /\ Pool(r.tpid, Tpids, 0, TpidMax) /\ IsFiniteSet(H) /\ Counted(r.port_tpid, H)
      /\ Backed(r.tpid.refs, OnPorts(r)) /\ Counts(r.tpid.refs, Tpids)
      /\ \A u \in Tpids : InUse(r.tpid, u) => r.tag[r.tpid.id[u]] = u
      /\ \A i \in Pids : r.bmp[i] = Registers(r, i)
  BY TagFields
<1>2. IsFiniteSet(G) /\ Counted(n, G) /\ n \in PortTpids
  BY <1>1, CountedMore
<1>3. x \in Pids \X Tpids /\ x = <<p, v>> /\ p \in Pids /\ v \in Tpids
  OBVIOUS
<1>4. q = HoldTpid(r, x) /\ CanHoldTpid(r, x)
  OBVIOUS
<1> HIDE DEF x, p, v, n, G
<1>5. \A y \in Pids \X Tpids : n[y] = IF y = x THEN r.port_tpid[y] + 1 ELSE r.port_tpid[y]
  BY <1>1, <1>3 DEF n, Plus, PortTpids
<1>6. \A y \in Pids \X Tpids : r.port_tpid[y] \in Nat
  BY <1>1 DEF PortTpids
<1>7. CASE r.port_tpid[x] > 0
  <2>1. q = [r EXCEPT !.port_tpid = n]
    BY <1>4, <1>7 DEF HoldTpid, n, Plus
  <2>2. Holding(q, r.chunk, r.window, r.tpid, n, r.tag, r.bmp, r.class, r.vfp)
    BY ONLY <1>1, <2>1 DEF Holding
  <2>3. /\ q \in Resources /\ q.tpid = r.tpid /\ q.port_tpid = n /\ q.tag = r.tag /\ q.bmp = r.bmp
        /\ SameChunks(r, q) /\ SameClasses(r, q)
    BY <1>1, <1>2, <2>2, TagsChange
  <2>4. \A y \in Pids \X Tpids : (n[y] > 0) = (r.port_tpid[y] > 0)
    BY <1>5, <1>6, <1>7
  <2>5. OnPorts(q) = OnPorts(r)
    BY <2>3, <2>4 DEF OnPorts
  <2>6. \A i \in Pids : Registers(q, i) = Registers(r, i)
    BY <2>3, <2>4 DEF Registers
  <2>7. InUse(q.tpid, v)
    BY <1>1, <1>3, <1>7, <2>3, RegistersExist
  <2>8. Tags(q, G)
    BY <1>1, <1>2, <2>3, <2>5, <2>6 DEF Tags, Counted
  <2> QED BY <2>3, <2>7, <2>8 DEF G, v, x
<1>8. CASE ~(r.port_tpid[x] > 0)
  <2> DEFINE g == IF InUse(r.tpid, v) THEN r.tag ELSE [r.tag EXCEPT ![t.id[v]] = v]
             one == [r.port_tpid EXCEPT ![x] = 1]
             s == [r EXCEPT !.port_tpid = one, !.tpid = t, !.tag = g]
             b == [r.bmp EXCEPT ![p] = Registers(s, p)]
  <2>1. r.port_tpid[x] = 0 /\ n = one
    <3>1. r.port_tpid[x] = 0
      BY <1>3, <1>6, <1>8
    <3> QED BY <3>1 DEF n, Plus
  <2>2. Bounds(0, TpidMax) /\ CanHold(r.tpid, v, TpidMax)
    BY <1>4, <1>8 DEF Bounds, CanHoldTpid, v
  <2>3. Held(r.tpid, t, v, Tpids, 0, TpidMax)
    BY <1>1, <1>3, <2>2, HoldPool
  <2>4. s = [r EXCEPT !.port_tpid[x] = 1, !.tpid = t,
                     !.tag = IF InUse(r.tpid, v) THEN @ ELSE [@ EXCEPT ![t.id[v]] = v]]
    OBVIOUS
  <2>5. q = [s EXCEPT !.bmp = b]
    <3>1. s.bmp = r.bmp
      OBVIOUS
    <3> HIDE DEF t
    <3>2. q = [s EXCEPT !.bmp[p] = Registers(s, p)]
      BY <1>4, <1>8, <2>4 DEF HoldTpid, t, v, p
    <3> HIDE DEF s
    <3> QED BY <3>1, <3>2
  <2> HIDE DEF t
  <2>6. t \in Tables(Tpids, 0, TpidMax) /\ Pool(t, Tpids, 0, TpidMax) /\ t.id[v] \in 0..TpidMax
    BY <2>3 DEF Held, Pool
  <2>7. g \in TagValues
    BY <1>1, <1>3, <2>6 DEF TagValues
  <2> HIDE DEF g, one
  <2>8. Holding(s, r.chunk, r.window, t, n, g, r.bmp, r.class, r.vfp)
    <3>1. s = [r EXCEPT !.port_tpid = n, !.tpid = t, !.tag = g]
      BY <2>1
    <3> HIDE DEF s
    <3> QED BY ONLY <1>1, <3>1 DEF Holding
  <2> HIDE DEF s
  <2>9. /\ s \in Resources /\ s.tpid = t /\ s.port_tpid = n /\ s.tag = g /\ s.bmp = r.bmp
    BY <1>1, <1>2, <2>6, <2>7, <2>8, TagsChange
  <2>10. OnPorts(s) = OnPorts(r) \cup {x} /\ x \notin OnPorts(r)
    BY <1>3, <1>5, <1>6, <2>1, <2>9 DEF OnPorts
  <2>11. Backed(t.refs, OnPorts(s)) /\ Counts(t.refs, Tpids)
    <3>1. x[2] = v /\ t.refs = Plus(r.tpid.refs, v)
      BY <2>3 DEF v, Held
    <3> HIDE DEF v
    <3>2. x[2] \in Tpids /\ t.refs = Plus(r.tpid.refs, x[2])
      BY <1>3, <3>1
    <3> DEFINE P == OnPorts(r)
               refs == r.tpid.refs
    <3>3. Counts(refs, Tpids) /\ Backed(refs, P) /\ x \notin P /\ t.refs = Plus(refs, x[2])
      BY <1>1, <2>10, <3>2
    <3> HIDE DEF P, refs
    <3>4. Backed(t.refs, P \cup {x}) /\ Counts(t.refs, Tpids)
      BY <3>2, <3>3, BackedMore
    <3> QED BY <2>10, <3>4 DEF P
  <2>12. Registers(s, p) \in SUBSET (0..TpidMax)
    BY <1>3, <2>6, <2>9, <2>11, RegistersExist
  <2>13. b \in PortRegisters /\ b[p] = Registers(s, p) /\ \A i \in Pids \ {p} : b[i] = r.bmp[i]
    BY <1>1, <1>3, <2>12 DEF PortRegisters
  <2> HIDE DEF b
  <2>14. Holding(q, r.chunk, r.window, t, n, g, b, r.class, r.vfp)
    BY ONLY <2>5, <2>8 DEF Holding
  <2>15. /\ q \in Resources /\ q.tpid = t /\ q.port_tpid = n /\ q.tag = g /\ q.bmp = b
         /\ SameChunks(r, q) /\ SameClasses(r, q)
    BY <1>1, <1>2, <2>6, <2>7, <2>13, <2>14, TagsChange
  <2>16. OnPorts(q) = OnPorts(s)
    BY <2>9, <2>15 DEF OnPorts
  <2>17. ASSUME NEW i \in Pids PROVE q.bmp[i] = Registers(q, i)
    <3>1. CASE i = p
      <4>1. Registers(q, p) = Registers(s, p)
        BY <2>9, <2>15 DEF Registers
      <4> QED BY <2>13, <2>15, <3>1, <4>1
    <3>2. CASE i # p
      <4>1. \A u \in Tpids : <<i, u>> # x /\ <<i, u>> \in Pids \X Tpids
        BY <1>3, <3>2
      <4>2. \A u \in Tpids : n[i, u] = r.port_tpid[i, u]
        BY <1>5, <4>1
      <4>3. ASSUME NEW u \in Tpids, r.port_tpid[i, u] > 0 PROVE t.id[u] = r.tpid.id[u]
        <5>1. InUse(r.tpid, u)
          BY <1>1, <4>3, RegistersExist
        <5> QED BY <2>3, <5>1 DEF Held
      <4>4. Registers(q, i) = Registers(r, i)
        <5>1. \A u \in Tpids : /\ q.port_tpid[i, u] = r.port_tpid[i, u]
                               /\ r.port_tpid[i, u] > 0 => q.tpid.id[u] = r.tpid.id[u]
          BY <2>15, <4>2, <4>3
        <5> QED BY ONLY <5>1 DEF Registers
      <4> QED BY <1>1, <2>13, <2>15, <3>2, <4>4
    <3> QED BY <3>1, <3>2
  <2>18. ASSUME NEW u \in Tpids, InUse(t, u) PROVE g[t.id[u]] = u
    <3>1. CASE InUse(r.tpid, v)
      <4>1. t.id[u] = r.tpid.id[u] /\ InUse(r.tpid, u)
        BY <1>1, <2>3, <2>18, <3>1 DEF InUse, Plus, Held, Counts
      <4> QED BY <1>1, <3>1, <4>1 DEF g
    <3>2. CASE ~InUse(r.tpid, v) /\ u = v
      BY <1>1, <2>6, <3>2 DEF TagValues, g
    <3>3. CASE ~InUse(r.tpid, v) /\ u # v
      <4>1. t.id[u] = r.tpid.id[u] /\ t.id[u] # t.id[v] /\ InUse(r.tpid, u)
        BY <1>1, <2>3, <2>18, <3>3 DEF InUse, Plus, Held, Counts
      <4>2. r.tag[r.tpid.id[u]] = u
        BY <1>1, <4>1
      <4>3. g[t.id[u]] = r.tag[t.id[u]]
        <5>1. t.id[u] \in 0..TpidMax
          <6>1. t.id \in [Tpids -> 0..TpidMax \cup {NoId}] /\ t.id[u] # NoId
            BY <2>6, <2>18, TableFields DEF Pool
          <6> QED BY <6>1
        <5> QED BY <1>1, <3>3, <4>1, <5>1 DEF TagValues, g
      <4> QED BY <4>1, <4>2, <4>3
    <3> QED BY <3>1, <3>2, <3>3
  <2>19. Tags(q, G)
    BY <1>2, <2>6, <2>11, <2>15, <2>16, <2>17, <2>18 DEF Tags, Counted
  <2>20. InUse(t, v)
    BY SMTT(40), <1>1, <1>3, <2>3 DEF Held, InUse, Plus, Counts
  <2> QED BY <2>15, <2>19, <2>20 DEF G, v, x
<1> QED BY <1>7, <1>8

LEMMA DropTpidKeeps ==
  ASSUME NEW r \in Resources, NEW H, Tags(r, H), NEW h \in H, h[2] \in Pids \X Tpids,
         NEW q, q = DropTpid(r, h[2])
  PROVE  q \in Resources /\ Tags(q, H \ {h}) /\ SameChunks(r, q) /\ SameClasses(r, q)
<1> DEFINE x == h[2]
           p == x[1]
           v == x[2]
           t == Drop(r.tpid, v)
           n == Minus(r.port_tpid, x)
           G == H \ {h}
<1>1. /\ Holding(r, r.chunk, r.window, r.tpid, r.port_tpid, r.tag, r.bmp, r.class, r.vfp)
      /\ r.tpid \in Tables(Tpids, 0, TpidMax) /\ r.port_tpid \in PortTpids
      /\ r.tag \in TagValues /\ r.bmp \in PortRegisters
      /\ Pool(r.tpid, Tpids, 0, TpidMax) /\ IsFiniteSet(H) /\ Counted(r.port_tpid, H)
      /\ Backed(r.tpid.refs, OnPorts(r)) /\ Counts(r.tpid.refs, Tpids)
      /\ \A u \in Tpids : InUse(r.tpid, u) => r.tag[r.tpid.id[u]] = u
      /\ \A i \in Pids : r.bmp[i] = Registers(r, i)
  BY TagFields
<1>2. IsFiniteSet(G) /\ Counted(n, G) /\ n \in PortTpids /\ r.port_tpid[x] > 0
  BY <1>1, CountedLess
<1>3. x \in Pids \X Tpids /\ x = <<p, v>> /\ p \in Pids /\ v \in Tpids
  OBVIOUS
<1>4. q = DropTpid(r, x)
  OBVIOUS
<1> HIDE DEF x, p, v, n, G
<1>5. \A y \in Pids \X Tpids : n[y] = IF y = x THEN r.port_tpid[y] - 1 ELSE r.port_tpid[y]
  BY <1>1, <1>3 DEF n, Minus, PortTpids
<1>6. \A y \in Pids \X Tpids : r.port_tpid[y] \in Nat
  BY <1>1 DEF PortTpids
<1>7. CASE r.port_tpid[x] > 1
  <2>1. q = [r EXCEPT !.port_tpid = n]
    BY <1>4, <1>7 DEF DropTpid, n, Minus
  <2>2. Holding(q, r.chunk, r.window, r.tpid, n, r.tag, r.bmp, r.class, r.vfp)
    BY ONLY <1>1, <2>1 DEF Holding
  <2>3. /\ q \in Resources /\ q.tpid = r.tpid /\ q.port_tpid = n /\ q.tag = r.tag /\ q.bmp = r.bmp
        /\ SameChunks(r, q) /\ SameClasses(r, q)
    BY <1>1, <1>2, <2>2, TagsChange
  <2>4. \A y \in Pids \X Tpids : (n[y] > 0) = (r.port_tpid[y] > 0)
    BY <1>5, <1>6, <1>7
  <2>5. OnPorts(q) = OnPorts(r)
    BY <2>3, <2>4 DEF OnPorts
  <2>6. \A i \in Pids : Registers(q, i) = Registers(r, i)
    BY <2>3, <2>4 DEF Registers
  <2>8. Tags(q, G)
    BY <1>1, <1>2, <2>3, <2>5, <2>6 DEF Tags, Counted
  <2> QED BY <2>3, <2>8 DEF G
<1>8. CASE ~(r.port_tpid[x] > 1)
  <2> DEFINE none == [r.port_tpid EXCEPT ![x] = 0]
             s == [r EXCEPT !.port_tpid = none, !.tpid = t]
             b == [r.bmp EXCEPT ![p] = Registers(s, p)]
  <2>1. r.port_tpid[x] = 1 /\ n = none
    <3>1. r.port_tpid[x] = 1
      BY <1>2, <1>3, <1>6, <1>8
    <3> QED BY <3>1 DEF n, Minus
  <2>2. Bounds(0, TpidMax) /\ InUse(r.tpid, v) /\ x \in OnPorts(r)
    <3>1. x \in OnPorts(r) /\ x[2] = v
      BY <1>2, <1>3 DEF OnPorts, v
    <3> QED BY <1>1, <3>1, UsersInUse DEF Bounds, InUse
  <2>3. Dropped(r.tpid, t, v, Tpids, 0, TpidMax)
    BY <1>1, <1>3, <2>2, DropPool
  <2>4. s = [r EXCEPT !.port_tpid[x] = 0, !.tpid = Drop(@, v)]
    OBVIOUS
  <2>5. q = [s EXCEPT !.bmp = b]
    <3>1. s.bmp = r.bmp
      OBVIOUS
    <3> HIDE DEF t
    <3>2. q = [s EXCEPT !.bmp[p] = Registers(s, p)]
      BY <1>4, <1>8, <2>4 DEF DropTpid, t, v, p
    <3> HIDE DEF s
    <3> QED BY <3>1, <3>2
  <2> HIDE DEF t
  <2>6. t \in Tables(Tpids, 0, TpidMax) /\ Pool(t, Tpids, 0, TpidMax)
    BY <2>3 DEF Dropped, Pool
  <2> HIDE DEF none
  <2>8. Holding(s, r.chunk, r.window, t, n, r.tag, r.bmp, r.class, r.vfp)
    <3>1. s = [r EXCEPT !.port_tpid = n, !.tpid = t]
      BY <2>1
    <3> HIDE DEF s
    <3> QED BY ONLY <1>1, <3>1 DEF Holding
  <2> HIDE DEF s
  <2>9. /\ s \in Resources /\ s.tpid = t /\ s.port_tpid = n /\ s.tag = r.tag /\ s.bmp = r.bmp
    BY <1>1, <1>2, <2>6, <2>8, TagsChange
  <2>10. OnPorts(s) = OnPorts(r) \ {x}
    <3>1. \A y \in Pids \X Tpids : n[y] > 0 <=> y # x /\ r.port_tpid[y] > 0
      BY <1>5, <1>6, <2>1
    <3> QED BY <2>9, <3>1 DEF OnPorts
  <2>11. Backed(t.refs, OnPorts(s)) /\ Counts(t.refs, Tpids)
    <3> DEFINE P == OnPorts(r)
               refs == r.tpid.refs
    <3>1. x[2] = v /\ t.refs = Minus(refs, v)
      BY <2>3 DEF v, Dropped
    <3>3. Counts(refs, Tpids) /\ Backed(refs, P) /\ x \in P /\ t.refs = Minus(refs, x[2])
      BY <1>1, <2>2, <3>1
    <3> HIDE DEF P, refs, v
    <3>4. Backed(t.refs, P \ {x}) /\ Counts(t.refs, Tpids)
      BY <3>3, BackedLess
    <3> QED BY <2>10, <3>4 DEF P
  <2>12. Registers(s, p) \in SUBSET (0..TpidMax)
    BY <1>3, <2>6, <2>9, <2>11, RegistersExist
  <2>13. b \in PortRegisters /\ b[p] = Registers(s, p) /\ \A i \in Pids \ {p} : b[i] = r.bmp[i]
    BY <1>1, <1>3, <2>12 DEF PortRegisters
  <2> HIDE DEF b
  <2>14. Holding(q, r.chunk, r.window, t, n, r.tag, b, r.class, r.vfp)
    BY ONLY <2>5, <2>8 DEF Holding
  <2>15. /\ q \in Resources /\ q.tpid = t /\ q.port_tpid = n /\ q.tag = r.tag /\ q.bmp = b
         /\ SameChunks(r, q) /\ SameClasses(r, q)
    BY <1>1, <1>2, <2>6, <2>13, <2>14, TagsChange
  <2>16. OnPorts(q) = OnPorts(s)
    BY <2>9, <2>15 DEF OnPorts
  <2>20. ASSUME NEW u \in Tpids, InUse(t, u) PROVE t.id[u] = r.tpid.id[u] /\ InUse(r.tpid, u)
    BY <1>1, <1>3, <2>2, <2>3, <2>20 DEF InUse, Minus, Dropped, Counts
  <2>17. ASSUME NEW i \in Pids PROVE q.bmp[i] = Registers(q, i)
    <3>1. CASE i = p
      <4>1. Registers(q, p) = Registers(s, p)
        BY <2>9, <2>15 DEF Registers
      <4> QED BY <2>13, <2>15, <3>1, <4>1
    <3>2. CASE i # p
      <4>1. \A u \in Tpids : <<i, u>> # x /\ <<i, u>> \in Pids \X Tpids
        BY <1>3, <3>2
      <4>2. \A u \in Tpids : n[i, u] = r.port_tpid[i, u]
        BY <1>5, <4>1
      <4>3. ASSUME NEW u \in Tpids, r.port_tpid[i, u] > 0 PROVE t.id[u] = r.tpid.id[u]
        <5>1. InUse(q.tpid, u)
          BY <2>6, <2>11, <2>15, <2>16, <4>2, <4>3, RegistersExist
        <5> QED BY <2>15, <2>20, <5>1
      <4>4. Registers(q, i) = Registers(r, i)
        <5>1. \A u \in Tpids : /\ q.port_tpid[i, u] = r.port_tpid[i, u]
                               /\ r.port_tpid[i, u] > 0 => q.tpid.id[u] = r.tpid.id[u]
          BY <2>15, <4>2, <4>3
        <5> QED BY ONLY <5>1 DEF Registers
      <4> QED BY <1>1, <2>13, <2>15, <3>2, <4>4
    <3> QED BY <3>1, <3>2
  <2>18. ASSUME NEW u \in Tpids, InUse(t, u) PROVE r.tag[t.id[u]] = u
    BY <1>1, <2>18, <2>20
  <2>19. Tags(q, G)
    BY <1>2, <2>6, <2>11, <2>15, <2>16, <2>17, <2>18 DEF Tags, Counted
  <2> QED BY <2>15, <2>19 DEF G
<1> QED BY <1>7, <1>8
-----------------------------------------------------------------------------
(* The tag values of a filter.                                             *)

\* The windows, the classes and the entries are as they were.
TagsOnly(r, q) == SameChunks(r, q) /\ SameClasses(r, q)

LEMMA TagsOnward ==
  ASSUME NEW r, NEW q, NEW p, TagsOnly(r, q), TagsOnly(q, p)
  PROVE  TagsOnly(r, p)
BY DEF TagsOnly, SameChunks, SameClasses

TagKeys == Seq(Pids \X Tpids)

LEMMA DropTpidsKeep ==
  ASSUME NEW r \in Resources, NEW H, Tags(r, H), NEW a, NEW ks \in TagKeys,
         Shares(a, ks, Len(ks)) \subseteq H, NEW q, q = FoldLeft(DropTpid, r, ks)
  PROVE  q \in Resources /\ Tags(q, H \ Shares(a, ks, Len(ks))) /\ TagsOnly(r, q)
<1> DEFINE n == Len(ks)
           I == {y \in (0..n) \X Resources :
                   Tags(y[2], H \ Shares(a, ks, y[1])) /\ TagsOnly(r, y[2])}
<1>1. n \in Nat /\ DOMAIN ks = 1..n /\ \A i \in 1..n : ks[i] \in Pids \X Tpids
  BY DEF TagKeys
<1> HIDE DEF n
<1>2. <<0, r>> \in I
  <2>1. H \ Shares(a, ks, 0) = H
    BY SharesGrow
  <2>2. TagsOnly(r, r)
    BY DEF TagsOnly, SameChunks, SameClasses
  <2>3. Tags(r, H \ Shares(a, ks, 0))
    BY <2>1
  <2>4. 0 \in 0..n
    BY <1>1
  <2> QED BY <2>2, <2>3, <2>4
<1>3. ASSUME NEW i \in 1..n, NEW p, <<i - 1, p>> \in I PROVE <<i, DropTpid(p, ks[i])>> \in I
  <2> DEFINE h == <<<<a, i>>, ks[i]>>
             F == H \ Shares(a, ks, i - 1)
             d == DropTpid(p, ks[i])
  <2>1. p \in Resources /\ Tags(p, F) /\ TagsOnly(r, p)
    BY <1>3
  <2>2. i \in Nat /\ i # 0 /\ i \in 0..n /\ ks[i] \in Pids \X Tpids
    BY <1>1
  <2>3. /\ Shares(a, ks, i) = Shares(a, ks, i - 1) \cup {h} /\ h \notin Shares(a, ks, i - 1)
        /\ Shares(a, ks, i) \subseteq Shares(a, ks, n)
    <3>1. /\ Shares(a, ks, i) = Shares(a, ks, i - 1) \cup {h} /\ h \notin Shares(a, ks, i - 1)
      BY <2>2, SharesGrow
    <3>2. \A j \in 0..n : Shares(a, ks, j) \subseteq Shares(a, ks, n)
      BY <1>1, SharesGrow
    <3> QED BY <2>2, <3>1, <3>2
  <2>4. h \in F /\ F \ {h} = H \ Shares(a, ks, i)
    BY <2>3 DEF n
  <2>5. h[2] = ks[i]
    OBVIOUS
  <2> HIDE DEF F, h, I
  <2>6. d = DropTpid(p, h[2]) /\ h[2] \in Pids \X Tpids
    BY <2>2, <2>5
  <2> HIDE DEF d
  <2>7. d \in Resources /\ Tags(d, F \ {h}) /\ TagsOnly(p, d)
    BY <2>1, <2>4, <2>6, DropTpidKeeps DEF TagsOnly
  <2>8. TagsOnly(r, d)
    BY <2>1, <2>7, TagsOnward
  <2>9. <<i, d>> \in I
    BY <2>2, <2>4, <2>7, <2>8 DEF I
  <2> QED BY <2>9 DEF d
<1>4. <<n, q>> \in I
  <2> HIDE DEF I
  <2> QED BY <1>1, <1>2, <1>3, DropTpidFold DEF n
<1> QED BY <1>4 DEF n

\* The first n of the keys, whatever comes after.
LEMMA SharesOfPart ==
  ASSUME NEW S, NEW ks \in Seq(S), NEW n \in 0..Len(ks), NEW a
  PROVE  /\ SubSeq(ks, 1, n) \in Seq(S) /\ Len(SubSeq(ks, 1, n)) = n
         /\ Shares(a, SubSeq(ks, 1, n), n) = Shares(a, ks, n)
<1>1. SubSeq(ks, 1, n) = [i \in 1..n |-> ks[i]] /\ Len(ks) \in Nat
  BY DEF SubSeq
<1>2. [i \in 1..n |-> ks[i]] \in Seq(S) /\ Len([i \in 1..n |-> ks[i]]) = n
  <2>1. [i \in 1..n |-> ks[i]] \in [1..n -> S] /\ n \in Nat
    OBVIOUS
  <2> QED BY <2>1
<1>3. \A i \in 1..n : SubSeq(ks, 1, n)[i] = ks[i]
  BY <1>1
<1>4. SubSeq(ks, 1, n) \in Seq(S) /\ Len(SubSeq(ks, 1, n)) = n
  BY <1>1, <1>2
<1> DEFINE vs == SubSeq(ks, 1, n)
<1> HIDE DEF vs
<1>5. \A i \in 1..n : vs[i] = ks[i]
  BY <1>3 DEF vs
<1>6. Shares(a, vs, n) = Shares(a, ks, n)
  BY <1>5 DEF Shares
<1> QED BY <1>4, <1>6 DEF vs

LEMMA TagsOfFields ==
  ASSUME NEW ports \in Seq(Pids), NEW t \in Tpids \cup {None}
  PROVE  /\ TagsOf(ports, t) \in TagKeys
         /\ t # None => /\ Len(TagsOf(ports, t)) = Len(ports)
                        /\ \A i \in 1..Len(ports) : TagsOf(ports, t)[i] = <<ports[i], t>>
         /\ t = None => Len(TagsOf(ports, t)) = 0
<1>1. CASE t = None
  <2>1. TagsOf(ports, t) = <<>>
    BY <1>1 DEF TagsOf
  <2> QED BY <1>1, <2>1 DEF TagKeys
<1>2. CASE t # None
  <2> DEFINE n == Len(ports)
             s == [i \in 1..n |-> <<ports[i], t>>]
  <2>1. n \in Nat /\ DOMAIN ports = 1..n /\ \A i \in 1..n : ports[i] \in Pids
    OBVIOUS
  <2>2. TagsOf(ports, t) = s
    BY <1>2, <2>1 DEF TagsOf
  <2> HIDE DEF n
  <2>3. s \in [1..n -> Pids \X Tpids]
    BY <1>2, <2>1
  <2>4. s \in TagKeys /\ Len(s) = n /\ \A i \in 1..n : s[i] = <<ports[i], t>>
    BY <2>1, <2>3 DEF TagKeys
  <2> QED BY <1>2, <2>2, <2>4 DEF n
<1> QED BY <1>1, <1>2

LEMMA HoldTpidsKeep ==
  ASSUME NEW r \in Resources, NEW H, Tags(r, H), NEW a, NoneOf(a, H), NEW ports \in Seq(Pids),
         NEW v \in Tpids \cup {None}, NEW e, e = HoldTpids(r, ports, v),
         NEW ks, ks = TagsOf(ports, v)
  PROVE  /\ e \in Attempts /\ TagsOnly(r, e.r)
         /\ IF e.ok THEN Tags(e.r, H \cup Shares(a, ks, Len(ks))) ELSE Tags(e.r, H)
<1> DEFINE n == Len(ks)
           I == {y \in (0..n) \X Attempts :
                   /\ TagsOnly(r, y[2].r) /\ Tags(y[2].r, H \cup Shares(a, ks, y[2].n))
                   /\ y[2].n \in 0..n
                   /\ y[2].ok => y[2].n = y[1]}
<1>0. ks \in TagKeys
  BY TagsOfFields
<1>1. n \in Nat /\ DOMAIN ks = 1..n /\ \A i \in 1..n : ks[i] \in Pids \X Tpids
  BY <1>0 DEF TagKeys
<1> HIDE DEF n
<1>2. <<0, Began(r)>> \in I
  <2>1. H \cup Shares(a, ks, 0) = H
    BY SharesGrow
  <2>2. TagsOnly(r, r)
    BY DEF TagsOnly, SameChunks, SameClasses
  <2>3. Tags(r, H \cup Shares(a, ks, 0))
    BY <2>1
  <2>4. 0 \in 0..n
    BY <1>1
  <2>5. Began(r) \in Attempts /\ Began(r).r = r /\ Began(r).ok /\ Began(r).n = 0
    BY BeganIs
  <2> QED BY <2>2, <2>3, <2>4, <2>5
<1>3. ASSUME NEW i \in 1..n, NEW b, <<i - 1, b>> \in I PROVE <<i, TryTpid(b, ks[i])>> \in I
  <2> DEFINE F == H \cup Shares(a, ks, b.n)
             p == b.r
             x == ks[i]
             h == <<<<a, i>>, x>>
             d == HoldTpid(p, x)
             can == CanHoldTpid(p, x)
             t == TryTpid(b, x)
  <2>1. b \in Attempts /\ TagsOnly(r, p) /\ Tags(p, F) /\ (b.n \in 0..n) /\ (b.ok => b.n = i - 1)
    BY <1>3
  <2>2. i \in Nat /\ i # 0 /\ i \in 0..n /\ x \in Pids \X Tpids
    BY <1>1
  <2>3. p \in Resources
    BY <2>1 DEF Attempts
  <2>4. t = Tried(can, b, d) /\ can \in BOOLEAN
    BY DEF TryTpid, CanHoldTpid, CanHold, InUse
  <2>5. b.ok => h \notin F /\ F \cup {h} = H \cup Shares(a, ks, i)
    <3>1. Shares(a, ks, i) = Shares(a, ks, i - 1) \cup {h} /\ h \notin Shares(a, ks, i - 1)
      BY <2>2, SharesGrow
    <3>2. h \notin H
      BY DEF NoneOf
    <3> QED BY <2>1, <3>1, <3>2
  <2>6. h[2] = x
    OBVIOUS
  <2> HIDE DEF h, x
  <2>7. d = HoldTpid(p, h[2]) /\ can = CanHoldTpid(p, h[2])
    BY <2>6
  <2> HIDE DEF d, can, t, p, F, I
  <2>8. ASSUME b.ok, can
        PROVE  d \in Resources /\ TagsOnly(r, d) /\ Tags(d, H \cup Shares(a, ks, i))
    <3>1. d \in Resources /\ TagsOnly(p, d) /\ Tags(d, F \cup {h})
      BY <2>1, <2>2, <2>3, <2>5, <2>6, <2>7, <2>8, HoldTpidKeeps DEF TagsOnly
    <3>2. TagsOnly(r, d)
      BY <2>1, <3>1, TagsOnward
    <3> QED BY <2>5, <2>8, <3>1, <3>2
  <2>9. /\ t \in Attempts
        /\ IF b.ok /\ can THEN t.r = d /\ t.n = b.n + 1 /\ t.ok
           ELSE t.r = b.r /\ t.n = b.n /\ ~t.ok
    BY <2>1, <2>4, <2>8, TriedIs
  <2>10. <<i, t>> \in I
    <3>1. CASE b.ok /\ can
      <4>1. t.n = i
        BY <2>1, <2>2, <2>9, <3>1
      <4> QED BY <2>2, <2>8, <2>9, <3>1, <4>1 DEF I
    <3>2. CASE ~(b.ok /\ can)
      BY <2>1, <2>2, <2>9, <3>2 DEF I, F, p
    <3> QED BY <3>1, <3>2
  <2> QED BY <2>10 DEF t, x
<1> DEFINE b == Each(CanHoldTpid, HoldTpid, r, ks)
<1>4. <<n, b>> \in I
  <2> HIDE DEF I
  <2> QED BY <1>1, <1>2, <1>3, TryTpidFold DEF n
<1>9. e = IF b.ok THEN b ELSE [b EXCEPT !.r = FoldLeft(DropTpid, @, SubSeq(ks, 1, b.n))]
  BY DEF HoldTpids
<1> HIDE DEF b
<1>5. /\ b \in Attempts /\ TagsOnly(r, b.r) /\ Tags(b.r, H \cup Shares(a, ks, b.n))
      /\ b.n \in 0..n /\ (b.ok => b.n = n)
      /\ b.ok \in BOOLEAN /\ b.r \in Resources
  BY <1>4 DEF Attempts
<1>6. CASE b.ok
  <2>1. e = b
    BY <1>6, <1>9
  <2> QED BY <1>5, <1>6, <2>1 DEF n
<1>7. CASE ~b.ok
  <2> DEFINE m == b.n
             vs == SubSeq(ks, 1, m)
             d == FoldLeft(DropTpid, b.r, vs)
             F == H \cup Shares(a, ks, m)
             V == Shares(a, vs, Len(vs))
  <2>1. e = [b EXCEPT !.r = d]
    BY <1>7, <1>9
  <2>2. m \in 0..Len(ks) /\ m \in Nat
    BY <1>1, <1>5 DEF n
  <2>3. vs \in TagKeys /\ Len(vs) = m /\ Shares(a, vs, m) = Shares(a, ks, m)
    BY <1>0, <2>2, SharesOfPart DEF TagKeys
  <2> HIDE DEF vs
  <2>4. V \subseteq F /\ F \ V = H
    <3>1. \A h \in Shares(a, ks, m) : h[1][1] = a
      BY <2>2, SharesGrow
    <3> QED BY <2>3, <3>1 DEF NoneOf
  <2>5. Tags(b.r, F) /\ d = FoldLeft(DropTpid, b.r, vs)
    BY <1>5
  <2> HIDE DEF d, F
  <2>6. d \in Resources /\ Tags(d, F \ V) /\ TagsOnly(b.r, d)
    BY <1>5, <2>3, <2>4, <2>5, DropTpidsKeep
  <2>7. TagsOnly(r, d)
    BY <1>5, <2>6, TagsOnward
  <2>8. e \in Attempts /\ e.r = d /\ e.ok = b.ok
    BY ONLY <1>5, <2>1, <2>6 DEF Attempts
  <2>9. Tags(d, H)
    BY <2>4, <2>6
  <2> QED BY <1>7, <2>7, <2>8, <2>9
<1> QED BY <1>5, <1>6, <1>7
-----------------------------------------------------------------------------
TagsAre(r, p, H) ==
  {r.tag[i] : i \in r.bmp[p]} = {t \in Tpids : \E h \in H : h[2] = <<p, t>>}

\* A port's registers hold the values its users named.
LEMMA TagsNamed ==
  ASSUME NEW r \in Resources, NEW H, Tags(r, H), NEW p \in Pids
  PROVE  TagsAre(r, p, H)
<1>1. /\ r.port_tpid \in PortTpids
      /\ Pool(r.tpid, Tpids, 0, TpidMax) /\ IsFiniteSet(H) /\ Counted(r.port_tpid, H)
      /\ Backed(r.tpid.refs, OnPorts(r))
      /\ \A t \in Tpids : InUse(r.tpid, t) => r.tag[r.tpid.id[t]] = t
      /\ r.bmp[p] = Registers(r, p)
  BY TagFields
<1>2. \A t \in Tpids : r.port_tpid[p, t] > 0 => r.tag[r.tpid.id[t]] = t
  BY <1>1, RegistersExist
<1>3. {r.tag[i] : i \in r.bmp[p]} = {t \in Tpids : r.port_tpid[p, t] > 0}
  <2>1. ASSUME NEW i \in r.bmp[p] PROVE r.tag[i] \in {t \in Tpids : r.port_tpid[p, t] > 0}
    BY <1>1, <1>2 DEF Registers
  <2>2. ASSUME NEW t \in Tpids, r.port_tpid[p, t] > 0 PROVE \E i \in r.bmp[p] : r.tag[i] = t
    BY <1>1, <1>2, <2>2 DEF Registers
  <2> DEFINE Values == {r.tag[i] : i \in r.bmp[p]}
             On == {t \in Tpids : r.port_tpid[p, t] > 0}
  <2>3. Values \subseteq On
    BY <2>1
  <2>4. On \subseteq Values
    BY <2>2
  <2> QED BY <2>3, <2>4
<1>4. ASSUME NEW t \in Tpids
      PROVE  r.port_tpid[p, t] > 0 <=> \E h \in H : h[2] = <<p, t>>
  <2> DEFINE x == <<p, t>>
  <2>1. x \in Pids \X Tpids
    OBVIOUS
  <2> HIDE DEF x
  <2>2. r.port_tpid[x] = Cardinality(Users(H, x)) /\ r.port_tpid[x] \in Nat
    BY <1>1, <2>1 DEF Counted, PortTpids
  <2>3. Cardinality(Users(H, x)) = 0 <=> \A h \in H : h[2] # x
    BY <1>1, SomeShare
  <2>4. r.port_tpid[x] > 0 <=> \E h \in H : h[2] = x
    BY <2>2, <2>3
  <2> QED BY <2>4 DEF x
<1> QED BY <1>3, <1>4 DEF TagsAre
-----------------------------------------------------------------------------
(* The tables of a new unit.                                               *)

LEMMA EveryPid ==
  /\ SetToSeq(Pids) \in Seq(Pids)
  /\ \A p \in Pids : \E i \in 1..Len(SetToSeq(Pids)) : SetToSeq(Pids)[i] = p
<1> DEFINE n == Cardinality(Pids)
           F == [1..n -> Pids]
<1>1. n \in Nat /\ IsFiniteSet(1..n) /\ Cardinality(1..n) = n
  <2>1. n \in Nat
    BY FS_CardinalityType
  <2>2. \A m \in Nat : IsFiniteSet(1..m) /\ Cardinality(1..m) = m
    BY ONLY FS_Interval
  <2> HIDE DEF n
  <2> QED BY <2>1, <2>2
<1>2. PICK f \in F : IsInjective(f)
  <2>1. ExistsBijection(1..n, Pids)
    BY <1>1, FS_SameCardinalityBij
  <2> QED BY <2>1 DEF ExistsBijection, Bijection, Injection, IsInjective
<1> DEFINE s == SetToSeq(Pids)
<1>3. s \in F /\ IsInjective(s)
  BY <1>2 DEF SetToSeq
<1> HIDE DEF s
<1>4. s \in Injection(1..n, Pids)
  BY <1>3 DEF Injection, IsInjective
<1>5. s \in Surjection(1..n, Pids)
  BY <1>1, <1>4, FS_Injection
<1>6. s \in Seq(Pids) /\ Len(s) = n
  <2> HIDE DEF n
  <2> QED BY <1>1, <1>3
<1> QED BY <1>5, <1>6 DEF Surjection, s

\* The tables before tpid_init.
Bare ==
  [chunk |-> NewTable(Offsets, 0), window |-> [i \in 0..ChunkMax |-> NoId],
   tpid |-> NewTable(Tpids, 0), port_tpid |-> [x \in Pids \X Tpids |-> 0],
   tag |-> [i \in 0..TpidMax |-> None], bmp |-> [p \in Pids |-> {}],
   class |-> NewTable(Rules, 1),
   vfp |-> [x \in Pids \X Classes |-> [refs |-> 0, rules |-> None]]]

LEMMA NewPool ==
  ASSUME NEW K, NEW lowest, NEW highest, Bounds(lowest, highest), lowest - 1 <= highest,
         NEW t, t = NewTable(K, lowest)
  PROVE  /\ Pool(t, K, lowest, highest) /\ t.top = lowest - 1 /\ Backed(t.refs, {})
         /\ \A k \in K : ~InUse(t, k)
<1>1. /\ t.refs = [k \in K |-> 0] /\ t.id = [k \in K |-> NoId] /\ t.free = <<>> /\ t.top = lowest - 1
      /\ Fields(t, t.refs, t.id, t.free, t.top)
  BY DEF NewTable, Fields
<1>2. t.top \in (lowest - 1)..highest /\ NoId <= t.top
  BY <1>1 DEF Bounds, NoId
<1>7. t.refs \in [K -> Nat] /\ t.id \in [K -> lowest..highest \cup {NoId}] /\ t.free \in Seq(lowest..highest)
  BY <1>1
<1>3. t \in Tables(K, lowest, highest)
  BY <1>1, <1>2, <1>7, TableFields
<1>4. \A k \in K : ~InUse(t, k) /\ t.id[k] = NoId
  BY <1>1 DEF InUse
<1>8. DOMAIN t.free = {}
  BY <1>1
<1>9. \A k \in K : InUse(t, k) = (t.id[k] # NoId) /\ t.id[k] <= t.top
  BY <1>2, <1>4 DEF InUse
<1>5. Pool(t, K, lowest, highest)
  BY <1>3, <1>4, <1>8, <1>9 DEF Pool
<1>6. Backed(t.refs, {})
  <2>1. \A k : Users({}, k) = {}
    BY DEF Users
  <2>2. Cardinality({}) = 0 /\ IsFiniteSet({})
    BY FS_EmptySet
  <2>3. \A k \in DOMAIN t.refs : Cardinality(Users({}, k)) <= t.refs[k]
    <3>1. ASSUME NEW k \in K PROVE Cardinality(Users({}, k)) <= t.refs[k]
      <4>1. t.refs[k] = 0 /\ Cardinality(Users({}, k)) = 0
        BY <1>1, <2>1, <2>2
      <4> QED BY <4>1
    <3> QED BY <1>1, <3>1
  <2> QED BY <2>2, <2>3 DEF Backed
<1> QED BY <1>1, <1>4, <1>5, <1>6

LEMMA BareIs ==
  Tabled(Bare, {}, {}, {}, {}) /\ Bare.tpid.top = -1
<1> DEFINE c == NewTable(Offsets, 0)
           t == NewTable(Tpids, 0)
           k == NewTable(Rules, 1)
           w == [i \in 0..ChunkMax |-> NoId]
           n == [x \in Pids \X Tpids |-> 0]
           g == [i \in 0..TpidMax |-> None]
           b == [p \in Pids |-> {}]
           v == [x \in Pids \X Classes |-> [refs |-> 0, rules |-> None]]
<1>1. /\ Pool(c, Offsets, 0, ChunkMax) /\ Backed(c.refs, {}) /\ \A o \in Offsets : ~InUse(c, o)
  BY NewPool DEF Bounds
<1>2. /\ Pool(t, Tpids, 0, TpidMax) /\ t.top = 0 - 1 /\ Backed(t.refs, {}) /\ \A o \in Tpids : ~InUse(t, o)
  BY NewPool DEF Bounds
<1>3. /\ Pool(k, Rules, 1, ClassMax) /\ Backed(k.refs, {}) /\ \A o \in Rules : ~InUse(k, o)
  <2>1. Bounds(1, ClassMax) /\ 1 - 1 <= ClassMax
    BY DEF Bounds
  <2> QED BY <2>1, NewPool
<1>4. w \in WindowTargets /\ n \in PortTpids /\ g \in TagValues /\ b \in PortRegisters /\ v \in VfpEntries
  BY DEF WindowTargets, PortTpids, TagValues, PortRegisters, VfpEntries
<1>5. \A y : Users({}, y) = {} /\ Cardinality(Users({}, y)) = 0
  BY FS_EmptySet DEF Users
<1>6. Bare = [chunk |-> c, window |-> w, tpid |-> t, port_tpid |-> n, tag |-> g, bmp |-> b, class |-> k, vfp |-> v]
  BY DEF Bare
<1>7. \A x \in Pids \X Tpids : n[x] = 0
  OBVIOUS
<1>8. \A x \in Pids \X Classes : v[x].refs = 0 /\ v[x].rules = None
  OBVIOUS
<1>9. \A p \in Pids : b[p] = {}
  OBVIOUS
<1>10. [x \in Pids \X Classes |-> v[x].refs] = [x \in Pids \X Classes |-> 0]
  BY <1>8
<1> HIDE DEF c, t, k, w, n, g, b, v
<1>11. /\ Holding(Bare, c, w, t, n, g, b, k, v)
       /\ Bare.chunk = c /\ Bare.window = w /\ Bare.tpid = t /\ Bare.port_tpid = n
       /\ Bare.tag = g /\ Bare.bmp = b /\ Bare.class = k /\ Bare.vfp = v
  BY ONLY <1>6 DEF Holding
<1>12. Bare \in Resources
  BY <1>1, <1>2, <1>3, <1>4, <1>11, ResourceFields DEF Pool
<1>13. Windows(Bare, {})
  BY <1>1, <1>11 DEF Windows
<1>14. OnPorts(Bare) = {} /\ \A p \in Pids : Registers(Bare, p) = {}
  <2>1. \A x \in Pids \X Tpids : ~(Bare.port_tpid[x] > 0)
    BY <1>7, <1>11
  <2>2. OnPorts(Bare) = {}
    BY <2>1 DEF OnPorts
  <2>3. \A p \in Pids : {u \in Tpids : Bare.port_tpid[p, u] > 0} = {}
    BY <2>1
  <2> QED BY <2>2, <2>3 DEF Registers
<1>15. Tags(Bare, {})
  BY <1>2, <1>5, <1>7, <1>9, <1>11, <1>14, FS_EmptySet DEF Tags
<1>16. EntryRefs(Bare) = [x \in Pids \X Classes |-> 0]
  BY <1>10, <1>11 DEF EntryRefs
<1>17. Backed(EntryRefs(Bare), {})
  BY <1>5, <1>16, FS_EmptySet DEF Backed
<1>18. Classified(Bare, {}, {})
  BY <1>3, <1>8, <1>11, <1>17 DEF Classified
<1> QED BY <1>2, <1>11, <1>12, <1>13, <1>15, <1>18 DEF Tabled

LEMMA WindowsSame ==
  ASSUME NEW r, NEW q, SameChunks(r, q), NEW H, Windows(r, H)
  PROVE  Windows(q, H)
BY DEF Windows, SameChunks

LEMMA ClassesSame ==
  ASSUME NEW r, NEW q, SameClasses(r, q), NEW Cs, NEW Es, Classified(r, Cs, Es)
  PROVE  Classified(q, Cs, Es)
<1>1. EntryRefs(q) = EntryRefs(r)
  BY DEF EntryRefs, SameClasses
<1> QED BY <1>1 DEF Classified, SameClasses

LEMMA TagsSame ==
  ASSUME NEW r, NEW q, SameTags(r, q), NEW H, Tags(r, H)
  PROVE  Tags(q, H)
<1>1. OnPorts(q) = OnPorts(r) /\ \A p \in Pids : Registers(q, p) = Registers(r, p)
  BY DEF OnPorts, Registers, SameTags
<1> QED BY <1>1 DEF Tags, SameTags

LEMMA NewIs ==
  Tabled(NewResources, {}, ReservedUses, {}, {})
<1> DEFINE ks == TagsOf(SetToSeq(Pids), Reserved)
           n == Len(ks)
           q == FoldLeft(HoldTpid, Bare, ks)
           I == {y \in (0..n) \X Resources :
                   /\ Tags(y[2], Shares(None, ks, y[1])) /\ TagsOnly(Bare, y[2])
                   /\ y[1] = 0 => y[2] = Bare
                   /\ y[1] # 0 => InUse(y[2].tpid, Reserved)}
<1>0. NewResources = q /\ ReservedUses = Shares(None, ks, n)
  BY DEF NewResources, ReservedUses, Bare
<1>1. n \in Nat /\ DOMAIN ks = 1..n /\ \A i \in 1..n : ks[i] \in Pids \X Tpids /\ ks[i][2] = Reserved
  <2>1. SetToSeq(Pids) \in Seq(Pids) /\ Reserved \in Tpids \cup {None} /\ Reserved # None
    BY EveryPid
  <2> HIDE DEF ks
  <2>2. ks \in TagKeys /\ Len(ks) = Len(SetToSeq(Pids)) /\
        \A i \in 1..Len(SetToSeq(Pids)) : ks[i] = <<SetToSeq(Pids)[i], Reserved>>
    BY <2>1, TagsOfFields DEF ks
  <2> QED BY <2>2 DEF TagKeys
<1>2. Bare \in Resources /\ Tags(Bare, {}) /\ Bare.tpid.top = -1
  BY BareIs DEF Tabled
<1> HIDE DEF n, ks
<1>3. <<0, Bare>> \in I
  <2>1. Shares(None, ks, 0) = {}
    BY SharesGrow
  <2>2. TagsOnly(Bare, Bare)
    BY DEF TagsOnly, SameChunks, SameClasses
  <2>3. 0 \in 0..n
    BY <1>1
  <2> HIDE DEF Bare
  <2> QED BY <1>2, <2>1, <2>2, <2>3
<1> HIDE DEF Bare
<1>4. ASSUME NEW i \in 1..n, NEW p, <<i - 1, p>> \in I PROVE <<i, HoldTpid(p, ks[i])>> \in I
  <2> DEFINE x == ks[i]
             h == <<<<None, i>>, x>>
             F == Shares(None, ks, i - 1)
             d == HoldTpid(p, x)
  <2>1. p \in Resources /\ Tags(p, F) /\ TagsOnly(Bare, p)
    BY <1>4
  <2>2. i \in Nat /\ i # 0 /\ i \in 0..n /\ x \in Pids \X Tpids /\ x[2] = Reserved
    BY <1>1
  <2>3. Shares(None, ks, i) = F \cup {h} /\ h \notin F
    BY <2>2, SharesGrow
  <2>4. h[2] = x
    OBVIOUS
  <2>5. CanHoldTpid(p, x)
    <3>1. CASE i = 1
      <4>1. p = Bare
        BY <1>4, <3>1
      <4>2. CanHold(p.tpid, Reserved, TpidMax)
        BY <1>2, <4>1 DEF CanHold
      <4> QED BY <2>2, <4>2 DEF CanHoldTpid
    <3>2. CASE i # 1
      <4>1. i - 1 # 0
        BY <2>2, <3>2
      <4>2. InUse(p.tpid, Reserved)
        BY <1>4, <4>1
      <4> QED BY <2>2, <4>2 DEF CanHoldTpid, CanHold
    <3> QED BY <3>1, <3>2
  <2> HIDE DEF F, h, I, x
  <2>6. d = HoldTpid(p, h[2]) /\ h[2] \in Pids \X Tpids /\ CanHoldTpid(p, h[2])
    BY <2>2, <2>4, <2>5
  <2> HIDE DEF d
  <2>7. d \in Resources /\ Tags(d, F \cup {h}) /\ TagsOnly(p, d) /\ InUse(d.tpid, Reserved)
    BY <2>1, <2>2, <2>3, <2>4, <2>6, HoldTpidKeeps DEF TagsOnly
  <2>8. TagsOnly(Bare, d)
    BY <2>1, <2>7, TagsOnward
  <2>9. <<i, d>> \in I
    BY <2>2, <2>3, <2>7, <2>8 DEF I
  <2> QED BY <2>9 DEF d, x
<1>5. <<n, q>> \in I
  <2> HIDE DEF I
  <2> QED BY <1>1, <1>3, <1>4, HoldTpidFold DEF n
<1> HIDE DEF q
<1>6. q \in Resources /\ Tags(q, Shares(None, ks, n)) /\ TagsOnly(Bare, q)
  BY <1>5
<1>7. Windows(q, {}) /\ Classified(q, {}, {})
  BY <1>6, BareIs, WindowsSame, ClassesSame DEF TagsOnly, Tabled
<1> QED BY <1>0, <1>6, <1>7 DEF Tabled
-----------------------------------------------------------------------------
(* Classes and entries.                                                    *)

EntryIndex == Pids \X Classes

MoreUsers(H, h) ==
  \A k : /\ Cardinality(Users(H, k)) \in Nat
         /\ Cardinality(Users(H \cup {h}, k)) = Cardinality(Users(H, k)) + (IF h[2] = k THEN 1 ELSE 0)
LessUsers(H, h) ==
  \A k : /\ Cardinality(Users(H, k)) \in Nat /\ Cardinality(Users(H \ {h}, k)) \in Nat
         /\ Cardinality(Users(H \ {h}, k)) = Cardinality(Users(H, k)) - (IF h[2] = k THEN 1 ELSE 0)

LEMMA CountShares ==
  ASSUME NEW H, IsFiniteSet(H), NEW h
  PROVE  IF h \in H THEN LessUsers(H, h) ELSE MoreUsers(H, h)
<1>1. ASSUME h \in H PROVE LessUsers(H, h)
  BY <1>1, OneLessShare DEF LessUsers
<1>2. ASSUME h \notin H PROVE MoreUsers(H, h)
  BY <1>2, OneMoreShare DEF MoreUsers
<1> QED BY <1>1, <1>2

\* A change of the classes and entries only.
LEMMA ClassesChange ==
  ASSUME NEW r \in Resources, NEW t \in Tables(Rules, 1, ClassMax), NEW v \in VfpEntries,
         NEW q, Holding(q, r.chunk, r.window, r.tpid, r.port_tpid, r.tag, r.bmp, t, v)
  PROVE  q \in Resources /\ q.class = t /\ q.vfp = v /\ SameChunks(r, q) /\ SameTags(r, q)
<1>1. /\ q.chunk = r.chunk /\ q.window = r.window /\ q.tpid = r.tpid /\ q.port_tpid = r.port_tpid
      /\ q.tag = r.tag /\ q.bmp = r.bmp /\ q.class = t /\ q.vfp = v
  BY DEF Holding
<1> QED BY <1>1, ResourceFields DEF SameChunks, SameTags

\* What Classified tells of the tables.
Sets(r, k) ==
  IF r.vfp[k].refs = 0 THEN r.vfp[k].rules = None
  ELSE r.vfp[k].rules \in Rules /\ r.class.id[r.vfp[k].rules] = k[2]

Exact(r, Cs, Es, v) ==
  \A p \in Pids : r.vfp[p, r.class.id[v]].refs = Cardinality(Users(Es, <<p, r.class.id[v]>>))

Known(e, Cs) == \E h \in Cs : h[1] = <<e[1][1], e[2][2]>>

LEMMA ClassFields ==
  ASSUME NEW r \in Resources, NEW Cs, NEW Es
  PROVE  /\ Holding(r, r.chunk, r.window, r.tpid, r.port_tpid, r.tag, r.bmp, r.class, r.vfp)
         /\ r.class \in Tables(Rules, 1, ClassMax) /\ r.vfp \in VfpEntries
         /\ Counts(r.class.refs, Rules) /\ Counts(EntryRefs(r), EntryIndex)
         /\ r.class.id \in [Rules -> 1..ClassMax \cup {NoId}]
         /\ \A k \in EntryIndex : EntryRefs(r)[k] = r.vfp[k].refs /\ r.vfp[k].refs \in Nat
         /\ Classified(r, Cs, Es) <=>
              /\ Pool(r.class, Rules, 1, ClassMax)
              /\ Backed(r.class.refs, Cs) /\ Backed(EntryRefs(r), Es)
              /\ \A h \in Cs : r.class.id[h[2]] = h[1][2]
              /\ \A e \in Es : Known(e, Cs)
              /\ \A k \in EntryIndex : Sets(r, k)
              /\ \A v \in Rules : InUse(r.class, v) /\ r.class.refs[v] = Cardinality(Users(Cs, v)) =>
                   Exact(r, Cs, Es, v)
<1>1. /\ Holding(r, r.chunk, r.window, r.tpid, r.port_tpid, r.tag, r.bmp, r.class, r.vfp)
      /\ r.class \in Tables(Rules, 1, ClassMax) /\ r.vfp \in VfpEntries
  BY ResourceFields
<1>2. Counts(r.class.refs, Rules) /\ r.class.id \in [Rules -> 1..ClassMax \cup {NoId}]
  BY <1>1, TableFields DEF Counts
<1>3. \A k \in EntryIndex : EntryRefs(r)[k] = r.vfp[k].refs /\ r.vfp[k].refs \in Nat
  BY <1>1 DEF EntryRefs, VfpEntries, EntryIndex
<1>4. Counts(EntryRefs(r), EntryIndex)
  BY <1>3 DEF Counts, EntryRefs, EntryIndex
<1>5. Classified(r, Cs, Es) <=>
        /\ Pool(r.class, Rules, 1, ClassMax)
        /\ Backed(r.class.refs, Cs) /\ Backed(EntryRefs(r), Es)
        /\ \A h \in Cs : r.class.id[h[2]] = h[1][2]
        /\ \A e \in Es : Known(e, Cs)
        /\ \A k \in EntryIndex : Sets(r, k)
        /\ \A v \in Rules : InUse(r.class, v) /\ r.class.refs[v] = Cardinality(Users(Cs, v)) =>
             Exact(r, Cs, Es, v)
  BY Zenon DEF Classified, Known, Sets, Exact, EntryIndex
<1> QED BY <1>1, <1>2, <1>3, <1>4, <1>5

\* One user more of an entry, on a port of a filter with its class.
Entered(r, q, k) ==
  /\ q \in Resources /\ q.class = r.class /\ SameChunks(r, q) /\ SameTags(r, q)
  /\ EntryRefs(q) = Plus(EntryRefs(r), k)
  /\ \A l \in EntryIndex \ {k} : q.vfp[l] = r.vfp[l]
  /\ Sets(q, k)

LEMMA HoldEntryIs ==
  ASSUME NEW r \in Resources, NEW e, e.key \in EntryIndex, e.rules \in Rules,
         r.class.id[e.rules] = e.key[2], Sets(r, e.key), NEW q, q = HoldEntry(r, e)
  PROVE  Entered(r, q, e.key)
<1> DEFINE k == e.key
           old == r.vfp[k]
           new == IF old.refs > 0 THEN [old EXCEPT !.refs = @ + 1] ELSE [refs |-> 1, rules |-> e.rules]
           v == [r.vfp EXCEPT ![k] = new]
<1>1. /\ Holding(r, r.chunk, r.window, r.tpid, r.port_tpid, r.tag, r.bmp, r.class, r.vfp)
      /\ r.class \in Tables(Rules, 1, ClassMax) /\ r.vfp \in VfpEntries
      /\ k \in EntryIndex
  BY ResourceFields
<1>2. old \in [refs : Nat, rules : Rules \cup {None}]
  BY <1>1 DEF VfpEntries, EntryIndex
<1>3. q = [r EXCEPT !.vfp = v]
  BY DEF HoldEntry
<1>4. /\ new \in [refs : Nat, rules : Rules \cup {None}] /\ new.refs = old.refs + 1
      /\ new.rules = IF old.refs > 0 THEN old.rules ELSE e.rules
  <2> HIDE DEF old
  <2> QED BY <1>2
<1> HIDE DEF new, old
<1>5. v \in VfpEntries /\ v[k] = new /\ \A l \in EntryIndex \ {k} : v[l] = r.vfp[l]
  BY <1>1, <1>4 DEF VfpEntries, EntryIndex
<1> HIDE DEF v
<1>6. Holding(q, r.chunk, r.window, r.tpid, r.port_tpid, r.tag, r.bmp, r.class, v)
  BY ONLY <1>1, <1>3 DEF Holding
<1>7. q \in Resources /\ q.class = r.class /\ q.vfp = v /\ SameChunks(r, q) /\ SameTags(r, q)
  BY <1>1, <1>5, <1>6, ClassesChange
<1>8. EntryRefs(q) = Plus(EntryRefs(r), k)
  <2>1. EntryRefs(q) = [l \in EntryIndex |-> v[l].refs] /\ EntryRefs(r) = [l \in EntryIndex |-> r.vfp[l].refs]
    BY <1>7 DEF EntryRefs, EntryIndex
  <2>2. \A l \in EntryIndex : v[l].refs = IF l = k THEN r.vfp[l].refs + 1 ELSE r.vfp[l].refs
    BY <1>4, <1>5 DEF old
  <2> QED BY <1>1, <2>1, <2>2 DEF Plus
<1>9. Sets(q, k)
  <2>1. q.vfp[k].refs = old.refs + 1 /\ old.refs \in Nat /\ q.vfp[k].refs # 0
    BY <1>2, <1>4, <1>5, <1>7
  <2>2. q.vfp[k].rules = IF old.refs > 0 THEN old.rules ELSE e.rules
    BY <1>4, <1>5, <1>7
  <2>3. old.refs > 0 => old.rules \in Rules /\ r.class.id[old.rules] = k[2]
    BY DEF Sets, old
  <2> QED BY <1>7, <2>1, <2>2, <2>3 DEF Sets
<1> QED BY <1>5, <1>7, <1>8, <1>9 DEF Entered

\* One user less.
Left(r, q, k) ==
  /\ q \in Resources /\ q.class = r.class /\ SameChunks(r, q) /\ SameTags(r, q)
  /\ EntryRefs(q) = Minus(EntryRefs(r), k)
  /\ \A l \in EntryIndex \ {k} : q.vfp[l] = r.vfp[l]
  /\ Sets(q, k)

LEMMA DropEntryIs ==
  ASSUME NEW r \in Resources, NEW k \in EntryIndex, r.vfp[k].refs > 0, Sets(r, k),
         NEW q, q = DropEntry(r, k)
  PROVE  Left(r, q, k)
<1> DEFINE old == r.vfp[k]
           new == IF old.refs > 1 THEN [old EXCEPT !.refs = @ - 1] ELSE [refs |-> 0, rules |-> None]
           v == [r.vfp EXCEPT ![k] = new]
<1>1. /\ Holding(r, r.chunk, r.window, r.tpid, r.port_tpid, r.tag, r.bmp, r.class, r.vfp)
      /\ r.class \in Tables(Rules, 1, ClassMax) /\ r.vfp \in VfpEntries
  BY ResourceFields
<1>2. old \in [refs : Nat, rules : Rules \cup {None}] /\ old.refs > 0
  BY <1>1 DEF VfpEntries, EntryIndex
<1>3. q = [r EXCEPT !.vfp = v]
  BY DEF DropEntry
<1>4. /\ new \in [refs : Nat, rules : Rules \cup {None}] /\ new.refs = old.refs - 1
      /\ new.rules = IF old.refs > 1 THEN old.rules ELSE None
  <2> HIDE DEF old
  <2> QED BY <1>2
<1> HIDE DEF new, old
<1>5. v \in VfpEntries /\ v[k] = new /\ \A l \in EntryIndex \ {k} : v[l] = r.vfp[l]
  BY <1>1, <1>4 DEF VfpEntries, EntryIndex
<1> HIDE DEF v
<1>6. Holding(q, r.chunk, r.window, r.tpid, r.port_tpid, r.tag, r.bmp, r.class, v)
  BY ONLY <1>1, <1>3 DEF Holding
<1>7. q \in Resources /\ q.class = r.class /\ q.vfp = v /\ SameChunks(r, q) /\ SameTags(r, q)
  BY <1>1, <1>5, <1>6, ClassesChange
<1>8. EntryRefs(q) = Minus(EntryRefs(r), k)
  <2>1. EntryRefs(q) = [l \in EntryIndex |-> v[l].refs] /\ EntryRefs(r) = [l \in EntryIndex |-> r.vfp[l].refs]
    BY <1>7 DEF EntryRefs, EntryIndex
  <2>2. \A l \in EntryIndex : v[l].refs = IF l = k THEN r.vfp[l].refs - 1 ELSE r.vfp[l].refs
    BY <1>4, <1>5 DEF old
  <2> QED BY <1>1, <2>1, <2>2 DEF Minus
<1>9. Sets(q, k)
  <2>1. q.vfp[k].refs = old.refs - 1 /\ old.refs \in Nat
    BY <1>2, <1>4, <1>5, <1>7
  <2>2. q.vfp[k].rules = IF old.refs > 1 THEN old.rules ELSE None
    BY <1>4, <1>5, <1>7
  <2>3. old.refs > 0 => old.rules \in Rules /\ r.class.id[old.rules] = k[2]
    BY DEF Sets, old
  <2> QED BY <1>2, <1>7, <2>1, <2>2, <2>3 DEF Sets
<1> QED BY <1>5, <1>7, <1>8, <1>9 DEF Left

\* The windows and the tag values are as they were.
ClassesOnly(r, q) == SameChunks(r, q) /\ SameTags(r, q)

\* So is which rules have which class.
ClassStays(r, q) == q \in Resources /\ q.class = r.class /\ ClassesOnly(r, q)

LEMMA ClassesOnward ==
  ASSUME NEW r, NEW q, NEW p, ClassesOnly(r, q), ClassesOnly(q, p)
  PROVE  ClassesOnly(r, p)
BY DEF ClassesOnly, SameChunks, SameTags

LEMMA HoldEntryKeeps ==
  ASSUME NEW r \in Resources, NEW Cs, NEW Es, Classified(r, Cs, Es), NEW e,
         e.key \in EntryIndex, e.rules \in Rules, r.class.id[e.rules] = e.key[2],
         NEW h, h \notin Es, h[2] = e.key, Known(h, Cs), NEW q, q = HoldEntry(r, e)
  PROVE  ClassStays(r, q) /\ Classified(q, Cs, Es \cup {h})
<1> DEFINE k == e.key
           G == Es \cup {h}
<1>1. /\ Counts(EntryRefs(r), EntryIndex)
      /\ r.class.id \in [Rules -> 1..ClassMax \cup {NoId}]
      /\ \A l \in EntryIndex : EntryRefs(r)[l] = r.vfp[l].refs /\ r.vfp[l].refs \in Nat
      /\ Pool(r.class, Rules, 1, ClassMax)
      /\ Backed(r.class.refs, Cs) /\ Backed(EntryRefs(r), Es)
      /\ \A g \in Cs : r.class.id[g[2]] = g[1][2]
      /\ \A g \in Es : Known(g, Cs)
      /\ \A l \in EntryIndex : Sets(r, l)
      /\ \A v \in Rules : InUse(r.class, v) /\ r.class.refs[v] = Cardinality(Users(Cs, v)) =>
           Exact(r, Cs, Es, v)
  BY ClassFields
<1>2. Entered(r, q, k) /\ k \in EntryIndex
  BY <1>1, HoldEntryIs
<1> HIDE DEF k, G
<1>3. q \in Resources /\ q.class = r.class /\ ClassesOnly(r, q)
  BY <1>2 DEF Entered, ClassesOnly
<1>4. Backed(EntryRefs(q), G)
  <2>1. h[2] = k /\ EntryRefs(q) = Plus(EntryRefs(r), k)
    BY <1>2 DEF Entered, k
  <2>2. EntryRefs(q) = Plus(EntryRefs(r), h[2]) /\ h[2] \in EntryIndex
    BY <1>2, <2>1
  <2> QED BY <1>1, <2>2, BackedMore DEF G
<1>5. \A g \in G : Known(g, Cs)
  BY <1>1 DEF G
<1>6. ASSUME NEW l \in EntryIndex PROVE Sets(q, l)
  BY SMTT(40), <1>1, <1>2 DEF Entered, Sets
<1>7. ASSUME NEW v \in Rules, InUse(r.class, v), r.class.refs[v] = Cardinality(Users(Cs, v))
      PROVE  Exact(q, Cs, G, v)
  <2> DEFINE c == r.class.id[v]
  <2>1. Exact(r, Cs, Es, v)
    BY <1>1, <1>7
  <2>2. c \in Classes
    <3>1. c \in 1..ClassMax \cup {NoId}
      BY <1>1
    <3>2. c # NoId
      BY <1>1, <1>7 DEF Pool
    <3> QED BY <3>1, <3>2 DEF Classes
  <2>3. ASSUME NEW p \in Pids PROVE q.vfp[p, c].refs = Cardinality(Users(G, <<p, c>>))
    <3> DEFINE l == <<p, c>>
    <3>1. l \in EntryIndex
      BY <2>2 DEF EntryIndex
    <3> HIDE DEF l, c
    <3>2. r.vfp[l].refs = Cardinality(Users(Es, l))
      BY <2>1 DEF Exact, c, l
    <3>3. /\ Cardinality(Users(Es, l)) \in Nat
          /\ Cardinality(Users(Es \cup {h}, l)) =
                        Cardinality(Users(Es, l)) + (IF h[2] = l THEN 1 ELSE 0)
      <4>1. IsFiniteSet(Es)
        BY <1>1 DEF Backed
      <4>2. MoreUsers(Es, h)
        BY <4>1, CountShares
      <4> QED BY <4>2 DEF MoreUsers
    <3>4. EntryRefs(q)[l] = IF h[2] = l THEN r.vfp[l].refs + 1 ELSE r.vfp[l].refs
      <4>1. EntryRefs(q) = Plus(EntryRefs(r), k) /\ h[2] = k
        BY <1>2 DEF Entered, k
      <4> QED BY <1>1, <1>2, <3>1, <4>1 DEF Plus, Counts
    <3>5. EntryRefs(q)[l] = q.vfp[l].refs
      BY <1>3, <3>1, ClassFields
    <3>6. q.vfp[l].refs = Cardinality(Users(G, l))
      BY <3>2, <3>3, <3>4, <3>5 DEF G
    <3> QED BY <3>6 DEF l
  <2> QED BY <1>3, <2>3 DEF Exact
<1>8. Classified(q, Cs, G)
  BY <1>1, <1>3, <1>4, <1>5, <1>6, <1>7, ClassFields
<1> QED BY <1>3, <1>8 DEF G, ClassStays

LEMMA DropEntryKeeps ==
  ASSUME NEW r \in Resources, NEW Cs, NEW Es, Classified(r, Cs, Es), NEW h \in Es,
         NEW q, q = DropEntry(r, h[2])
  PROVE  ClassStays(r, q) /\ Classified(q, Cs, Es \ {h})
<1> DEFINE k == h[2]
           G == Es \ {h}
<1>1. /\ Counts(EntryRefs(r), EntryIndex)
      /\ r.class.id \in [Rules -> 1..ClassMax \cup {NoId}]
      /\ \A l \in EntryIndex : EntryRefs(r)[l] = r.vfp[l].refs /\ r.vfp[l].refs \in Nat
      /\ Pool(r.class, Rules, 1, ClassMax)
      /\ Backed(r.class.refs, Cs) /\ Backed(EntryRefs(r), Es)
      /\ \A g \in Cs : r.class.id[g[2]] = g[1][2]
      /\ \A g \in Es : Known(g, Cs)
      /\ \A l \in EntryIndex : Sets(r, l)
      /\ \A v \in Rules : InUse(r.class, v) /\ r.class.refs[v] = Cardinality(Users(Cs, v)) =>
           Exact(r, Cs, Es, v)
  BY ClassFields
<1>2. k \in EntryIndex /\ r.vfp[k].refs > 0
  <2>1. k \in EntryIndex /\ EntryRefs(r)[k] > 0
    BY <1>1, UsersInUse
  <2> QED BY <1>1, <2>1
<1>9. Left(r, q, k)
  BY <1>1, <1>2, DropEntryIs
<1> HIDE DEF k, G
<1>3. q \in Resources /\ q.class = r.class /\ ClassesOnly(r, q)
  BY <1>9 DEF Left, ClassesOnly
<1>4. Backed(EntryRefs(q), G)
  <2>1. EntryRefs(q) = Minus(EntryRefs(r), h[2])
    BY <1>9 DEF Left, k
  <2> QED BY <1>1, <2>1, BackedLess DEF G
<1>5. \A g \in G : Known(g, Cs)
  BY <1>1 DEF G
<1>6. ASSUME NEW l \in EntryIndex PROVE Sets(q, l)
  <2>1. CASE l = k
    BY <1>9, <2>1 DEF Left
  <2>2. CASE l # k
    <3>1. q.vfp[l] = r.vfp[l] /\ q.class = r.class
      BY <1>3, <1>9, <2>2 DEF Left
    <3>2. Sets(r, l)
      BY <1>1
    <3> QED BY ONLY <3>1, <3>2 DEF Sets
  <2> QED BY <2>1, <2>2
<1>7. ASSUME NEW v \in Rules, InUse(r.class, v), r.class.refs[v] = Cardinality(Users(Cs, v))
      PROVE  Exact(q, Cs, G, v)
  <2> DEFINE c == r.class.id[v]
  <2>1. Exact(r, Cs, Es, v)
    BY <1>1, <1>7
  <2>2. c \in Classes
    <3>1. c \in 1..ClassMax \cup {NoId}
      BY <1>1
    <3>2. c # NoId
      BY <1>1, <1>7 DEF Pool
    <3> QED BY <3>1, <3>2 DEF Classes
  <2>3. ASSUME NEW p \in Pids PROVE q.vfp[p, c].refs = Cardinality(Users(G, <<p, c>>))
    <3> DEFINE l == <<p, c>>
    <3>1. l \in EntryIndex
      BY <2>2 DEF EntryIndex
    <3> HIDE DEF l, c
    <3>2. r.vfp[l].refs = Cardinality(Users(Es, l))
      BY <2>1 DEF Exact, c, l
    <3>3. /\ Cardinality(Users(Es, l)) \in Nat
          /\ Cardinality(Users(Es \ {h}, l)) =
                        Cardinality(Users(Es, l)) - (IF h[2] = l THEN 1 ELSE 0)
      <4>1. IsFiniteSet(Es)
        BY <1>1 DEF Backed
      <4>2. LessUsers(Es, h)
        BY <4>1, CountShares
      <4> QED BY <4>2 DEF LessUsers
    <3>4. EntryRefs(q)[l] = IF h[2] = l THEN r.vfp[l].refs - 1 ELSE r.vfp[l].refs
      <4>1. EntryRefs(q) = Minus(EntryRefs(r), k) /\ h[2] = k
        BY <1>9 DEF Left, k
      <4> QED BY <1>1, <1>2, <3>1, <4>1 DEF Minus, Counts
    <3>5. EntryRefs(q)[l] = q.vfp[l].refs
      BY <1>3, <3>1, ClassFields
    <3>6. q.vfp[l].refs = Cardinality(Users(G, l))
      BY <3>2, <3>3, <3>4, <3>5 DEF G
    <3> QED BY <3>6 DEF l
  <2> QED BY <1>3, <2>3 DEF Exact
<1>8. Classified(q, Cs, G)
  BY <1>1, <1>3, <1>4, <1>5, <1>6, <1>7, ClassFields
<1> QED BY <1>3, <1>8 DEF G, ClassStays

WithClass(r, v) == [r EXCEPT !.class = Hold(@, v, ClassMax)]
ClassHeld(r, q, v, Cs, Es) ==
  /\ q \in Resources /\ Classified(q, Cs, Es) /\ ClassesOnly(r, q)
  /\ q.class.id[v] \in Classes

\* A filter's class: an identifier of its rules' own.
LEMMA HoldClassKeeps ==
  ASSUME NEW r \in Resources, NEW Cs, NEW Es, Classified(r, Cs, Es), NEW v \in Rules,
         CanHold(r.class, v, ClassMax), NEW h, h \notin Cs, h[2] = v,
         NEW q, q = WithClass(r, v), h[1][2] = q.class.id[v]
  PROVE  ClassHeld(r, q, v, Cs \cup {h}, Es)
<1> DEFINE t == Hold(r.class, v, ClassMax)
           G == Cs \cup {h}
<1>1. /\ Holding(r, r.chunk, r.window, r.tpid, r.port_tpid, r.tag, r.bmp, r.class, r.vfp)
      /\ r.vfp \in VfpEntries /\ Counts(r.class.refs, Rules)
      /\ r.class.id \in [Rules -> 1..ClassMax \cup {NoId}]
      /\ \A l \in EntryIndex : EntryRefs(r)[l] = r.vfp[l].refs /\ r.vfp[l].refs \in Nat
      /\ Pool(r.class, Rules, 1, ClassMax)
      /\ Backed(r.class.refs, Cs) /\ Backed(EntryRefs(r), Es)
      /\ \A g \in Cs : r.class.id[g[2]] = g[1][2]
      /\ \A g \in Es : Known(g, Cs)
      /\ \A l \in EntryIndex : Sets(r, l)
      /\ \A w \in Rules : InUse(r.class, w) /\ r.class.refs[w] = Cardinality(Users(Cs, w)) =>
           Exact(r, Cs, Es, w)
  BY ClassFields
<1>2. Bounds(1, ClassMax)
  BY DEF Bounds
<1>3. Held(r.class, t, v, Rules, 1, ClassMax)
  BY <1>1, <1>2, HoldPool
<1>4. q = [r EXCEPT !.class = t]
  BY DEF WithClass
<1> HIDE DEF t, G
<1>5. Holding(q, r.chunk, r.window, r.tpid, r.port_tpid, r.tag, r.bmp, t, r.vfp)
  BY ONLY <1>1, <1>4 DEF Holding
<1>6. q \in Resources /\ q.class = t /\ q.vfp = r.vfp /\ ClassesOnly(r, q)
  <2>1. t \in Tables(Rules, 1, ClassMax)
    BY <1>3 DEF Held, Pool
  <2>2. q \in Resources /\ q.class = t /\ q.vfp = r.vfp /\ SameChunks(r, q) /\ SameTags(r, q)
    <3>1. r.vfp \in VfpEntries /\ r \in Resources
      BY <1>1
    <3> QED BY ONLY <1>5, <2>1, <3>1, ClassesChange
  <2> QED BY <2>2 DEF ClassesOnly
<1>7. /\ Pool(t, Rules, 1, ClassMax) /\ t.refs = Plus(r.class.refs, v) /\ t.id[v] \in Classes
      /\ \A w \in Rules \ {v} : t.id[w] = r.class.id[w] /\ t.id[w] # t.id[v]
      /\ InUse(r.class, v) => t.id[v] = r.class.id[v]
  BY <1>3 DEF Held, Classes
<1>8. Backed(t.refs, G)
  <2>1. t.refs = Plus(r.class.refs, h[2]) /\ h[2] \in Rules
    BY <1>7
  <2> QED BY <1>1, <2>1, BackedMore DEF G
<1>9. ASSUME NEW g \in G PROVE t.id[g[2]] = g[1][2]
  <2>1. CASE g = h
    BY <1>6, <2>1
  <2>2. CASE g # h
    <3>1. g \in Cs
      BY <2>2 DEF G
    <3>2. g[2] \in Rules /\ InUse(r.class, g[2])
      BY <1>1, <3>1, UsersInUse DEF InUse
    <3> QED BY <1>1, <1>7, <3>1, <3>2
  <2> QED BY <2>1, <2>2
<1>10. \A g \in Es : Known(g, G)
  BY <1>1 DEF Known, G
\* Rules that set a class are in use.
<1>11. ASSUME NEW l \in EntryIndex, r.vfp[l].refs # 0
       PROVE  r.vfp[l].rules \in Rules /\ InUse(r.class, r.vfp[l].rules) /\ r.class.id[r.vfp[l].rules] = l[2]
  <2>1. r.vfp[l].rules \in Rules /\ r.class.id[r.vfp[l].rules] = l[2]
    BY <1>1, <1>11 DEF Sets
  <2>2. l[2] # NoId
    <3>1. l[2] \in 1..ClassMax
      BY DEF EntryIndex, Classes
    <3> QED BY <3>1 DEF NoId
  <2> QED BY <1>1, <2>1, <2>2 DEF Pool
<1>12. ASSUME NEW l \in EntryIndex PROVE Sets(q, l)
  <2>1. CASE r.vfp[l].refs = 0
    BY <1>1, <1>6, <2>1 DEF Sets
  <2>2. CASE r.vfp[l].refs # 0
    <3>1. t.id[r.vfp[l].rules] = r.class.id[r.vfp[l].rules]
      BY <1>7, <1>11, <2>2
    <3> QED BY <1>6, <1>11, <2>2, <3>1 DEF Sets
  <2> QED BY <2>1, <2>2
<1>13. ASSUME NEW w \in Rules, InUse(t, w), t.refs[w] = Cardinality(Users(G, w))
       PROVE  Exact(q, G, Es, w)
  <2>1. /\ Cardinality(Users(Cs, w)) \in Nat
        /\ Cardinality(Users(G, w)) = Cardinality(Users(Cs, w)) + (IF h[2] = w THEN 1 ELSE 0)
    <3>1. IsFiniteSet(Cs)
      BY <1>1 DEF Backed
    <3>2. MoreUsers(Cs, h)
      BY <3>1, CountShares
    <3> QED BY <3>2 DEF G, MoreUsers
  <2>2. t.refs[w] = IF w = v THEN r.class.refs[w] + 1 ELSE r.class.refs[w]
    BY <1>1, <1>7 DEF Plus, Counts
  <2>3. r.class.refs[w] = Cardinality(Users(Cs, w))
    <3> DEFINE now == t.refs[w]
               was == r.class.refs[w]
               many == Cardinality(Users(G, w))
               some == Cardinality(Users(Cs, w))
    <3>1. was \in Nat
      BY <1>1 DEF Counts
    <3>2. now = many /\ some \in Nat /\ many = some + (IF w = v THEN 1 ELSE 0)
      BY <1>13, <2>1
    <3>3. now = IF w = v THEN was + 1 ELSE was
      BY <2>2
    <3> HIDE DEF now, was, many, some
    <3>4. was = some
      BY ONLY <3>1, <3>2, <3>3
    <3> QED BY <3>4 DEF was, some
  <2>4. CASE InUse(r.class, w)
    <3>1. t.id[w] = r.class.id[w] /\ Exact(r, Cs, Es, w)
      BY <1>1, <1>7, <2>3, <2>4
    <3> QED BY <1>6, <3>1 DEF Exact
  <2>5. CASE ~InUse(r.class, w)
    <3>1. w = v
      BY <1>13, <2>2, <2>5 DEF InUse
    <3>2. ASSUME NEW p \in Pids
          PROVE  q.vfp[p, t.id[v]].refs = Cardinality(Users(Es, <<p, t.id[v]>>))
      <4> DEFINE l == <<p, t.id[v]>>
      <4>1. l \in EntryIndex /\ l[2] = t.id[v]
        BY <1>7 DEF EntryIndex
      <4> HIDE DEF l
      <4>2. r.vfp[l].refs = 0
        <5>1. SUFFICES ASSUME r.vfp[l].refs # 0 PROVE FALSE
          OBVIOUS
        <5>2. r.vfp[l].rules \in Rules /\ InUse(r.class, r.vfp[l].rules) /\ r.class.id[r.vfp[l].rules] = t.id[v]
          BY <1>11, <4>1, <5>1
        <5>3. r.vfp[l].rules # v
          BY <2>5, <3>1, <5>2
        <5> QED BY <1>7, <5>2, <5>3
      <4>3. Cardinality(Users(Es, l)) <= EntryRefs(r)[l]
        <5>1. DOMAIN EntryRefs(r) = EntryIndex
          BY DEF EntryRefs, EntryIndex
        <5> QED BY <1>1, <4>1, <5>1 DEF Backed
      <4>4. Cardinality(Users(Es, l)) \in Nat
        <5>1. IsFiniteSet(Es)
          BY <1>1 DEF Backed
        <5> QED BY <5>1, SomeShare
      <4>5. q.vfp[l].refs = Cardinality(Users(Es, l))
        BY <1>1, <1>6, <4>1, <4>2, <4>3, <4>4
      <4> QED BY <4>5 DEF l
    <3> QED BY <1>6, <3>1, <3>2 DEF Exact
  <2> QED BY <2>4, <2>5
<1>14. Classified(q, G, Es)
  <2>1. EntryRefs(q) = EntryRefs(r)
    BY <1>6 DEF EntryRefs
  <2> QED BY <1>1, <1>6, <1>7, <1>8, <1>9, <1>10, <1>12, <1>13, <2>1, ClassFields
<1> QED BY <1>6, <1>7, <1>14 DEF G, ClassHeld

\* A filter without entries leaves its class.
LEMMA DropClassKeeps ==
  ASSUME NEW r \in Resources, NEW Cs, NEW Es, Classified(r, Cs, Es), NEW h \in Cs, NoneOf(h[1][1], Es),
         NEW q, q = [r EXCEPT !.class = Drop(@, h[2])]
  PROVE  q \in Resources /\ Classified(q, Cs \ {h}, Es) /\ ClassesOnly(r, q)
<1> DEFINE v == h[2]
           t == Drop(r.class, v)
           G == Cs \ {h}
<1>1. /\ Holding(r, r.chunk, r.window, r.tpid, r.port_tpid, r.tag, r.bmp, r.class, r.vfp)
      /\ r.vfp \in VfpEntries /\ Counts(r.class.refs, Rules)
      /\ r.class.id \in [Rules -> 1..ClassMax \cup {NoId}]
      /\ \A l \in EntryIndex : EntryRefs(r)[l] = r.vfp[l].refs /\ r.vfp[l].refs \in Nat
      /\ Pool(r.class, Rules, 1, ClassMax)
      /\ Backed(r.class.refs, Cs) /\ Backed(EntryRefs(r), Es)
      /\ \A g \in Cs : r.class.id[g[2]] = g[1][2]
      /\ \A g \in Es : Known(g, Cs)
      /\ \A l \in EntryIndex : Sets(r, l)
      /\ \A w \in Rules : InUse(r.class, w) /\ r.class.refs[w] = Cardinality(Users(Cs, w)) =>
           Exact(r, Cs, Es, w)
  BY ClassFields
<1>2. Bounds(1, ClassMax) /\ v \in Rules /\ InUse(r.class, v)
  <2>1. v \in Rules /\ r.class.refs[v] > 0
    BY <1>1, UsersInUse
  <2> QED BY <2>1 DEF Bounds, InUse
<1>3. Dropped(r.class, t, v, Rules, 1, ClassMax)
  BY <1>1, <1>2, DropPool
<1>4. q = [r EXCEPT !.class = t]
  OBVIOUS
<1> HIDE DEF t, G
<1>5. Holding(q, r.chunk, r.window, r.tpid, r.port_tpid, r.tag, r.bmp, t, r.vfp)
  BY ONLY <1>1, <1>4 DEF Holding
<1>6. q \in Resources /\ q.class = t /\ q.vfp = r.vfp /\ ClassesOnly(r, q)
  <2>1. t \in Tables(Rules, 1, ClassMax)
    BY <1>3 DEF Dropped, Pool
  <2>2. q \in Resources /\ q.class = t /\ q.vfp = r.vfp /\ SameChunks(r, q) /\ SameTags(r, q)
    <3>1. r.vfp \in VfpEntries /\ r \in Resources
      BY <1>1
    <3> QED BY ONLY <1>5, <2>1, <3>1, ClassesChange
  <2> QED BY <2>2 DEF ClassesOnly
<1>8. Backed(t.refs, G) /\ Counts(t.refs, Rules)
  <2> DEFINE refs == r.class.refs
  <2>1. t.refs = Minus(refs, h[2]) /\ Counts(refs, Rules) /\ Backed(refs, Cs)
    BY <1>1, <1>3 DEF v, Dropped
  <2> HIDE DEF refs, v
  <2>2. Backed(t.refs, Cs \ {h}) /\ Counts(t.refs, Rules)
    BY <2>1, BackedLess
  <2> QED BY <2>2 DEF G
<1>15. IsFiniteSet(Cs) /\ IsFiniteSet(Es) /\ h[1][2] = r.class.id[v]
  BY <1>1 DEF Backed
<1>16. \A w \in Rules : t.refs[w] = IF w = v THEN r.class.refs[w] - 1 ELSE r.class.refs[w]
  BY SMTT(40), <1>1, <1>2, <1>3 DEF Dropped, Minus, Counts
<1>17. \A w : /\ Cardinality(Users(Cs, w)) \in Nat /\ Cardinality(Users(G, w)) \in Nat
              /\ Cardinality(Users(G, w)) = Cardinality(Users(Cs, w)) - (IF v = w THEN 1 ELSE 0)
  <2>1. LessUsers(Cs, h)
    BY <1>15, CountShares
  <2> QED BY <2>1 DEF G, LessUsers
<1> HIDE DEF v
<1>7. /\ Pool(t, Rules, 1, ClassMax) /\ t.refs = Minus(r.class.refs, v)
      /\ \A w \in Rules \ {v} : t.id[w] = r.class.id[w]
      /\ InUse(t, v) => t.id[v] = r.class.id[v]
  BY <1>3 DEF Dropped
<1>18. ASSUME NEW w \in Rules, InUse(t, w) PROVE t.id[w] = r.class.id[w] /\ InUse(r.class, w)
  <2>1. CASE w = v
    BY <1>2, <1>7, <1>18, <2>1
  <2>2. CASE w # v
    BY <1>7, <1>16, <1>18, <2>2 DEF InUse
  <2> QED BY <2>1, <2>2
<1>9. ASSUME NEW g \in G PROVE t.id[g[2]] = g[1][2]
  <2>1. g[2] \in Rules /\ InUse(t, g[2])
    BY <1>8, UsersInUse DEF InUse
  <2> QED BY <1>1, <1>18, <2>1 DEF G
<1>10. ASSUME NEW e \in Es PROVE Known(e, G)
  <2>1. PICK g \in Cs : g[1] = <<e[1][1], e[2][2]>>
    BY <1>1 DEF Known
  <2>2. g[1][1] = e[1][1] /\ e[1][1] # h[1][1]
    BY <2>1 DEF NoneOf
  <2>3. g \in G
    BY <2>2 DEF G
  <2> QED BY <2>1, <2>3 DEF Known
\* Rules that set a class are in use, also now.
<1>11. ASSUME NEW l \in EntryIndex, r.vfp[l].refs # 0
       PROVE  r.vfp[l].rules \in Rules /\ InUse(t, r.vfp[l].rules) /\ r.class.id[r.vfp[l].rules] = l[2]
  <2> DEFINE w == r.vfp[l].rules
  <2>1. w \in Rules /\ r.class.id[w] = l[2]
    BY <1>1, <1>11 DEF Sets
  <2>2. l[2] # NoId
    <3>1. l[2] \in 1..ClassMax
      BY DEF EntryIndex, Classes
    <3> QED BY <3>1 DEF NoId
  <2>3. InUse(r.class, w)
    BY <1>1, <2>1, <2>2 DEF Pool
  <2>4. CASE w # v
    BY <1>16, <2>1, <2>3, <2>4 DEF InUse
  <2>5. CASE w = v /\ r.class.refs[v] > 1
    <3>1. r.class.refs[v] \in Nat
      BY <1>1, <1>2 DEF Counts
    <3> QED BY SMTT(40), <1>2, <1>16, <2>1, <2>5, <3>1 DEF InUse
  <2>6. CASE w = v /\ ~(r.class.refs[v] > 1)
    <3>1. r.class.refs[v] = 1
      BY <1>1, <1>2, <2>6 DEF Counts, InUse
    <3>2. Cardinality(Users(Cs, v)) <= r.class.refs[v] /\ Cardinality(Users(Cs, v)) # 0
      <4>1. DOMAIN r.class.refs = Rules
        BY <1>1 DEF Counts
      <4>2. Cardinality(Users(Cs, v)) # 0
        BY <1>15, SomeShare DEF v
      <4> QED BY <1>1, <1>2, <4>1, <4>2 DEF Backed
    <3>3. r.class.refs[v] = Cardinality(Users(Cs, v))
      BY <1>17, <3>1, <3>2
    <3>4. Exact(r, Cs, Es, v)
      BY <1>1, <1>2, <3>3
    <3>5. l = <<l[1], r.class.id[v]>> /\ l[1] \in Pids
      BY <2>1, <2>6 DEF EntryIndex
    <3>6. r.vfp[l].refs = Cardinality(Users(Es, l))
      BY <3>4, <3>5 DEF Exact
    <3>7. PICK e \in Es : e[2] = l
      BY <1>11, <1>15, <3>6, SomeShare
    <3>8. PICK g \in Cs : g[1] = <<e[1][1], e[2][2]>>
      BY <1>1 DEF Known
    <3>9. g[1][1] = e[1][1] /\ e[1][1] # h[1][1] /\ g # h
      BY <3>8 DEF NoneOf
    <3>10. g[2] = v
      <4>1. r.class.id[g[2]] = r.class.id[v] /\ g[2] \in Rules
        <5>1. r.class.id[g[2]] = g[1][2] /\ g[1][2] = e[2][2]
          BY <1>1, <3>8
        <5>2. e[2][2] = r.class.id[v]
          BY <3>5, <3>7
        <5>3. g[2] \in Rules
          BY <1>1, UsersInUse
        <5> QED BY <5>1, <5>2, <5>3
      <4> QED BY <1>1, <1>2, <4>1 DEF Pool
    <3>11. Cardinality(Users(Cs, v)) > 1
      BY <1>15, <3>9, <3>10, TwoShares DEF v
    <3> QED BY <3>1, <3>3, <3>11
  <2> QED BY <2>1, <2>4, <2>5, <2>6
<1>12. ASSUME NEW l \in EntryIndex PROVE Sets(q, l)
  <2>1. CASE r.vfp[l].refs = 0
    BY <1>1, <1>6, <2>1 DEF Sets
  <2>2. CASE r.vfp[l].refs # 0
    <3>1. t.id[r.vfp[l].rules] = r.class.id[r.vfp[l].rules]
      BY <1>11, <1>18, <2>2
    <3> QED BY <1>6, <1>11, <2>2, <3>1 DEF Sets
  <2> QED BY <2>1, <2>2
<1>13. ASSUME NEW w \in Rules, InUse(t, w), t.refs[w] = Cardinality(Users(G, w))
       PROVE  Exact(q, G, Es, w)
  <2>1. t.id[w] = r.class.id[w] /\ InUse(r.class, w)
    BY <1>13, <1>18
  <2>3. r.class.refs[w] = Cardinality(Users(Cs, w))
    <3>1. r.class.refs[w] \in Nat
      BY <1>1 DEF Counts
    <3>2. /\ t.refs[w] = IF w = v THEN r.class.refs[w] - 1 ELSE r.class.refs[w]
          /\ t.refs[w] = Cardinality(Users(G, w))
          /\ Cardinality(Users(G, w)) = Cardinality(Users(Cs, w)) - (IF v = w THEN 1 ELSE 0)
          /\ Cardinality(Users(Cs, w)) \in Nat
      BY <1>13, <1>16, <1>17
    <3> DEFINE a == t.refs[w]
               b == r.class.refs[w]
               m == Cardinality(Users(Cs, w))
               n == Cardinality(Users(G, w))
    <3>3. a = (IF w = v THEN b - 1 ELSE b) /\ a = n /\ n = m - (IF v = w THEN 1 ELSE 0) /\ m \in Nat /\ b \in Nat
      BY <3>1, <3>2
    <3> HIDE DEF a, b, m, n
    <3>4. b = m
      BY ONLY <3>3
    <3> QED BY <3>4 DEF b, m
  <2>4. Exact(r, Cs, Es, w)
    BY <1>1, <2>1, <2>3
  <2> QED BY <1>6, <2>1, <2>4 DEF Exact
<1>14. Classified(q, G, Es)
  <2>1. EntryRefs(q) = EntryRefs(r)
    BY <1>6 DEF EntryRefs
  <2> QED BY <1>1, <1>6, <1>7, <1>8, <1>9, <1>10, <1>12, <1>13, <2>1, ClassFields
<1> QED BY <1>6, <1>14 DEF G
-----------------------------------------------------------------------------
(* The class and the entries of a filter.                                  *)

LEMMA KeysOfPorts ==
  ASSUME NEW ports \in Seq(Pids), NEW c \in Classes, NEW rules
  PROVE  /\ EntryKeys(ports, c) \in Seq(EntryIndex) /\ Len(EntryKeys(ports, c)) = Len(ports)
         /\ Len(Entries(ports, c, rules)) = Len(ports)
         /\ DOMAIN Entries(ports, c, rules) = 1..Len(ports) /\ Len(ports) \in Nat
         /\ \A i \in 1..Len(ports) :
              /\ EntryKeys(ports, c)[i] = <<ports[i], c>> /\ <<ports[i], c>> \in EntryIndex
              /\ Entries(ports, c, rules)[i].key = <<ports[i], c>>
              /\ Entries(ports, c, rules)[i].rules = rules
<1> DEFINE n == Len(ports)
<1>1. n \in Nat /\ DOMAIN ports = 1..n /\ \A i \in 1..n : ports[i] \in Pids
  OBVIOUS
<1>2. /\ EntryKeys(ports, c) = [i \in 1..n |-> <<ports[i], c>>]
      /\ Entries(ports, c, rules) = [i \in 1..n |-> [key |-> <<ports[i], c>>, rules |-> rules]]
  BY <1>1 DEF EntryKeys, Entries
<1> HIDE DEF n
<1> DEFINE s == [i \in 1..n |-> <<ports[i], c>>]
           t == [i \in 1..n |-> [key |-> <<ports[i], c>>, rules |-> rules]]
<1>3. s \in [1..n -> EntryIndex]
  BY <1>1 DEF EntryIndex
<1>4. s \in Seq(EntryIndex) /\ Len(s) = n
  BY <1>1, <1>3
<1> DEFINE T == [key : Pids \X Classes, rules : {rules}]
<1>5. t \in [1..n -> T]
  BY <1>1
<1>7. \A i \in 1..n : s[i] = <<ports[i], c>>
  OBVIOUS
<1>8. \A i \in 1..n : t[i].key = <<ports[i], c>> /\ t[i].rules = rules
  OBVIOUS
<1> HIDE DEF s, t, T
<1>6. Len(t) = n /\ DOMAIN t = 1..n
  BY <1>1, <1>5
<1>9. \A i \in 1..n : <<ports[i], c>> \in EntryIndex
  BY <1>1 DEF EntryIndex
<1> QED BY <1>1, <1>2, <1>4, <1>6, <1>7, <1>8, <1>9 DEF n, s, t

LEMMA DropEntriesKeep ==
  ASSUME NEW r \in Resources, NEW Cs, NEW Es, Classified(r, Cs, Es), NEW a, NEW ks \in Seq(EntryIndex),
         Shares(a, ks, Len(ks)) \subseteq Es, NEW q, q = FoldLeft(DropEntry, r, ks)
  PROVE  /\ q \in Resources /\ Classified(q, Cs, Es \ Shares(a, ks, Len(ks)))
         /\ q.class = r.class /\ ClassesOnly(r, q)
<1> DEFINE n == Len(ks)
           I == {y \in (0..n) \X Resources :
                   /\ Classified(y[2], Cs, Es \ Shares(a, ks, y[1]))
                   /\ y[2].class = r.class /\ ClassesOnly(r, y[2])}
<1>1. n \in Nat /\ DOMAIN ks = 1..n /\ \A i \in 1..n : ks[i] \in EntryIndex
  OBVIOUS
<1> HIDE DEF n
<1>2. <<0, r>> \in I
  <2>1. Es \ Shares(a, ks, 0) = Es
    BY SharesGrow
  <2>2. ClassesOnly(r, r)
    BY DEF ClassesOnly, SameChunks, SameTags
  <2>3. Classified(r, Cs, Es \ Shares(a, ks, 0))
    BY <2>1
  <2>4. 0 \in 0..n
    BY <1>1
  <2> QED BY <2>2, <2>3, <2>4
<1>3. ASSUME NEW i \in 1..n, NEW p, <<i - 1, p>> \in I PROVE <<i, DropEntry(p, ks[i])>> \in I
  <2> DEFINE h == <<<<a, i>>, ks[i]>>
             F == Es \ Shares(a, ks, i - 1)
             d == DropEntry(p, ks[i])
  <2>1. p \in Resources /\ Classified(p, Cs, F) /\ p.class = r.class /\ ClassesOnly(r, p)
    BY <1>3
  <2>2. i \in Nat /\ i # 0 /\ i \in 0..n
    BY <1>1
  <2>3. /\ Shares(a, ks, i) = Shares(a, ks, i - 1) \cup {h} /\ h \notin Shares(a, ks, i - 1)
        /\ Shares(a, ks, i) \subseteq Shares(a, ks, n)
    <3>1. /\ Shares(a, ks, i) = Shares(a, ks, i - 1) \cup {h} /\ h \notin Shares(a, ks, i - 1)
      BY <2>2, SharesGrow
    <3>2. \A j \in 0..n : Shares(a, ks, j) \subseteq Shares(a, ks, n)
      BY <1>1, SharesGrow
    <3> QED BY <2>2, <3>1, <3>2
  <2>4. h \in F /\ F \ {h} = Es \ Shares(a, ks, i)
    BY <2>3 DEF n
  <2>5. h[2] = ks[i]
    OBVIOUS
  <2> HIDE DEF F, h, I
  <2>6. d = DropEntry(p, h[2])
    BY <2>5
  <2> HIDE DEF d
  <2>10. p \in Resources /\ Classified(p, Cs, F) /\ h \in F
    BY <2>1, <2>4
  <2>11. ClassStays(p, d) /\ Classified(d, Cs, F \ {h})
    BY ONLY <2>6, <2>10, DropEntryKeeps
  <2>7. d \in Resources /\ Classified(d, Cs, F \ {h}) /\ d.class = p.class /\ ClassesOnly(p, d)
    BY <2>11 DEF ClassStays
  <2>8. ClassesOnly(r, d)
    BY <2>1, <2>7, ClassesOnward
  <2>9. <<i, d>> \in I
    BY <2>1, <2>2, <2>4, <2>7, <2>8 DEF I
  <2> QED BY <2>9 DEF d
<1>4. <<n, q>> \in I
  <2> HIDE DEF I
  <2> QED BY <1>1, <1>2, <1>3, DropEntryFold DEF n
<1> QED BY <1>4 DEF n

\* The entries made before one could not be had.
EntriesHeld(r, e, ports, Cs, Es, f, ks) ==
  /\ e \in Attempts /\ e.r.class = r.class /\ ClassesOnly(r, e.r)
  /\ e.n \in 0..Len(ports) /\ (e.ok => e.n = Len(ports))
  /\ Classified(e.r, Cs, Es \cup Shares(f, ks, e.n))

LEMMA HoldEntriesKeep ==
  ASSUME NEW r \in Resources, NEW Cs, NEW Es, Classified(r, Cs, Es), NEW f, NoneOf(f, Es),
         NEW ports \in Seq(Pids), NEW rules \in Rules, NEW c \in Classes, c = r.class.id[rules],
         <<<<f, c>>, rules>> \in Cs,
         NEW e, e = Each(CanHoldEntry, HoldEntry, r, Entries(ports, c, rules)),
         NEW ks, ks = EntryKeys(ports, c)
  PROVE  EntriesHeld(r, e, ports, Cs, Es, f, ks)
<1> DEFINE n == Len(ports)
           es == Entries(ports, c, rules)
           I == {y \in (0..n) \X Attempts :
                   /\ Classified(y[2].r, Cs, Es \cup Shares(f, ks, y[2].n))
                   /\ y[2].r.class = r.class /\ ClassesOnly(r, y[2].r)
                   /\ y[2].n \in 0..n
                   /\ y[2].ok => y[2].n = y[1]}
<1>1. /\ n \in Nat /\ DOMAIN es = 1..n /\ Len(es) = n
      /\ \A i \in 1..n : /\ ks[i] = <<ports[i], c>> /\ ks[i] \in EntryIndex
                         /\ es[i].key = ks[i] /\ es[i].rules = rules /\ ks[i][2] = c
  <2>1. \A i \in 1..n : /\ ks[i] = <<ports[i], c>> /\ <<ports[i], c>> \in EntryIndex
                        /\ es[i].key = <<ports[i], c>> /\ es[i].rules = rules
    BY KeysOfPorts
  <2>2. n \in Nat /\ DOMAIN es = 1..n /\ Len(es) = n
    BY KeysOfPorts
  <2> HIDE DEF es, n
  <2>3. ASSUME NEW i \in 1..n
        PROVE  /\ ks[i] = <<ports[i], c>> /\ ks[i] \in EntryIndex
               /\ es[i].key = ks[i] /\ es[i].rules = rules /\ ks[i][2] = c
    <3>1. ks[i] = <<ports[i], c>> /\ ks[i] \in EntryIndex /\ es[i].key = ks[i] /\ es[i].rules = rules
      BY ONLY <2>1, <2>3
    <3> QED BY ONLY <3>1
  <2> QED BY ONLY <2>2, <2>3
<1> HIDE DEF n, es
<1>2. <<0, Began(r)>> \in I
  <2>1. Es \cup Shares(f, ks, 0) = Es
    BY SharesGrow
  <2>2. ClassesOnly(r, r)
    BY DEF ClassesOnly, SameChunks, SameTags
  <2>3. Classified(r, Cs, Es \cup Shares(f, ks, 0))
    BY <2>1
  <2>4. 0 \in 0..n
    BY <1>1
  <2>5. Began(r) \in Attempts /\ Began(r).r = r /\ Began(r).ok /\ Began(r).n = 0
    BY BeganIs
  <2> QED BY <2>2, <2>3, <2>4, <2>5
<1>3. ASSUME NEW i \in 1..n, NEW b, <<i - 1, b>> \in I PROVE <<i, TryEntry(b, es[i])>> \in I
  <2> DEFINE F == Es \cup Shares(f, ks, b.n)
             p == b.r
             x == es[i]
             h == <<<<f, i>>, ks[i]>>
             d == HoldEntry(p, x)
             can == CanHoldEntry(p, x)
             t == TryEntry(b, x)
  <2>1. /\ b \in Attempts /\ ClassesOnly(r, p) /\ p.class = r.class /\ Classified(p, Cs, F)
        /\ (b.n \in 0..n) /\ (b.ok => b.n = i - 1)
    BY <1>3
  <2>2. i \in Nat /\ i # 0 /\ i \in 0..n /\ x.key = ks[i] /\ x.key \in EntryIndex /\ x.rules = rules /\ x.key[2] = c
    <3>1. x.key = ks[i] /\ x.key \in EntryIndex /\ x.rules = rules /\ ks[i][2] = c
      BY <1>1
    <3>2. i \in Nat /\ i # 0 /\ i \in 0..n
      BY <1>1
    <3> QED BY ONLY <3>1, <3>2
  <2>3. p \in Resources
    BY <2>1 DEF Attempts
  <2>4. t = Tried(can, b, d) /\ can \in BOOLEAN
    BY DEF TryEntry, CanHoldEntry
  <2>5. b.ok => h \notin F /\ F \cup {h} = Es \cup Shares(f, ks, i)
    <3>1. Shares(f, ks, i) = Shares(f, ks, i - 1) \cup {h} /\ h \notin Shares(f, ks, i - 1)
      BY <2>2, SharesGrow
    <3>2. h \notin Es
      BY DEF NoneOf
    <3> QED BY <2>1, <3>1, <3>2
  <2>6. h[2] = x.key /\ Known(h, Cs)
    <3>1. h[2] = ks[i] /\ h[1][1] = f
      OBVIOUS
    <3>2. h[2][2] = c
      BY <1>1, <3>1
    <3>3. \E g \in Cs : g[1] = <<f, c>>
      <4>1. <<<<f, c>>, rules>>[1] = <<f, c>>
        OBVIOUS
      <4> QED BY <4>1
    <3> HIDE DEF h
    <3> QED BY <2>2, <3>1, <3>2, <3>3 DEF Known
  <2> HIDE DEF h, x, d, can, t, p, F, I
  <2>8. ASSUME b.ok, can
        PROVE  /\ d \in Resources /\ ClassesOnly(r, d) /\ d.class = r.class
               /\ Classified(d, Cs, Es \cup Shares(f, ks, i))
    <3>1. d = HoldEntry(p, x)
      BY DEF d
    <3>2. x.rules \in Rules /\ p.class.id[x.rules] = x.key[2] /\ h \notin F
      BY <2>1, <2>2, <2>5, <2>8
    <3>5. Classified(p, Cs, F) /\ x.key \in EntryIndex
      BY <2>1, <2>2
    <3>3. d \in Resources /\ Classified(d, Cs, F \cup {h}) /\ d.class = p.class /\ ClassesOnly(p, d)
      <4>1. p.class.id[x.rules] = x.key[2]
        BY <3>2
      <4>2. ClassStays(p, d) /\ Classified(d, Cs, F \cup {h})
        BY ONLY <2>3, <2>6, <3>1, <3>2, <3>5, <4>1, HoldEntryKeeps
      <4> QED BY ONLY <4>2 DEF ClassStays
    <3>4. ClassesOnly(r, d)
      BY <2>1, <3>3, ClassesOnward
    <3> QED BY <2>1, <2>5, <2>8, <3>3, <3>4
  <2>9. /\ t \in Attempts
        /\ IF b.ok /\ can THEN t.r = d /\ t.n = b.n + 1 /\ t.ok
           ELSE t.r = b.r /\ t.n = b.n /\ ~t.ok
    BY <2>1, <2>4, <2>8, TriedIs
  <2>10. <<i, t>> \in I
    <3>1. CASE b.ok /\ can
      <4>1. t.n = i
        BY <2>1, <2>2, <2>9, <3>1
      <4> QED BY <2>2, <2>8, <2>9, <3>1, <4>1 DEF I
    <3>2. CASE ~(b.ok /\ can)
      BY <2>1, <2>2, <2>9, <3>2 DEF I, F, p
    <3> QED BY <3>1, <3>2
  <2> QED BY <2>10 DEF t, x
<1>4. <<n, e>> \in I
  <2>1. Len(es) \in Nat /\ DOMAIN es = 1..Len(es) /\ e = Each(CanHoldEntry, HoldEntry, r, es)
    BY <1>1 DEF es
  <2> HIDE DEF I
  <2>2. <<Len(es), Each(CanHoldEntry, HoldEntry, r, es)>> \in I
    BY <1>1, <1>2, <1>3, <2>1, TryEntryFold
  <2> QED BY <1>1, <2>1, <2>2
<1> QED BY <1>4 DEF n, EntriesHeld

\* A class nobody names, with entries nobody names, is just in use.
LEMMA ClassAbandoned ==
  ASSUME NEW r \in Resources, NEW Cs, NEW Es, NEW h, NEW F, Classified(r, Cs \cup {h}, Es \cup F),
         NEW f, NEW c, h[1] = <<f, c>>, NoneOf(f, Cs), NoneOf(f, Es), \A e \in F : e[2][2] = c
  PROVE  Classified(r, Cs, Es)
<1> DEFINE D == Cs \cup {h}
           G == Es \cup F
<1>1. /\ Counts(r.class.refs, Rules) /\ Counts(EntryRefs(r), EntryIndex)
      /\ Pool(r.class, Rules, 1, ClassMax)
      /\ Backed(r.class.refs, D) /\ Backed(EntryRefs(r), G)
      /\ \A g \in D : r.class.id[g[2]] = g[1][2]
      /\ \A g \in G : Known(g, D)
      /\ \A l \in EntryIndex : Sets(r, l)
      /\ \A v \in Rules : InUse(r.class, v) /\ r.class.refs[v] = Cardinality(Users(D, v)) =>
           Exact(r, D, G, v)
  BY ClassFields
<1>2. h \in D /\ Cs \subseteq D /\ Es \subseteq G /\ h[1][1] = f /\ h[1][2] = c
  OBVIOUS
<1>3. h \notin Cs
  BY <1>2 DEF NoneOf
<1> HIDE DEF D, G
<1>4. Backed(r.class.refs, Cs)
  BY <1>1, <1>2, BackedSubset
<1>5. Backed(EntryRefs(r), Es)
  BY <1>1, <1>2, BackedSubset
<1>6. ASSUME NEW e \in Es PROVE Known(e, Cs)
  <2>1. PICK g \in D : g[1] = <<e[1][1], e[2][2]>>
    BY <1>1, <1>2 DEF Known
  <2>2. e[1][1] # f
    BY DEF NoneOf
  <2>3. g # h
    BY <1>2, <2>1, <2>2
  <2> QED BY <2>1, <2>3 DEF Known, D
<1>7. ASSUME NEW v \in Rules, InUse(r.class, v), r.class.refs[v] = Cardinality(Users(Cs, v))
      PROVE  Exact(r, Cs, Es, v)
  <2>1. MoreUsers(Cs, h)
    BY <1>3, <1>4, CountShares DEF Backed
  <2>2. /\ Cardinality(Users(Cs, v)) \in Nat
        /\ Cardinality(Users(D, v)) = Cardinality(Users(Cs, v)) + (IF h[2] = v THEN 1 ELSE 0)
    BY <2>1 DEF MoreUsers, D
  <2>3. Cardinality(Users(D, v)) <= r.class.refs[v]
    <3>1. DOMAIN r.class.refs = Rules
      BY <1>1 DEF Counts
    <3> QED BY <1>1, <3>1 DEF Backed
  <2>4. h[2] # v
    BY <1>7, <2>2, <2>3
  <2>5. r.class.refs[v] = Cardinality(Users(D, v))
    BY <1>7, <2>2, <2>4
  <2>6. Exact(r, D, G, v)
    BY <1>1, <1>7, <2>5
  <2>7. r.class.id[v] # c
    <3>1. h[2] \in Rules /\ r.class.refs[h[2]] > 0
      BY <1>1, <1>2, UsersInUse
    <3>2. r.class.id[h[2]] = c
      BY <1>1, <1>2
    <3> QED BY <1>1, <1>7, <2>4, <3>1, <3>2 DEF Pool, InUse
  <2>8. ASSUME NEW p PROVE Users(G, <<p, r.class.id[v]>>) = Users(Es, <<p, r.class.id[v]>>)
    <3> DEFINE k == <<p, r.class.id[v]>>
    <3>1. \A e \in F : e[2] # k
      BY <2>7
    <3> HIDE DEF k
    <3>2. Users(G, k) = Users(Es, k)
      BY <3>1 DEF Users, G
    <3> QED BY <3>2 DEF k
  <2> QED BY <2>6, <2>8 DEF Exact
<1> QED BY <1>1, <1>2, <1>4, <1>5, <1>6, <1>7, ClassFields

LEMMA ClassOfUse ==
  ASSUME NEW r \in Resources, NEW Cs, NEW Es, Classified(r, Cs, Es), NEW h \in Cs
  PROVE  h[2] \in Rules /\ h[1][2] \in Classes /\ r.class.id[h[2]] = h[1][2] /\ InUse(r.class, h[2])
<1>1. /\ Counts(r.class.refs, Rules) /\ Backed(r.class.refs, Cs)
      /\ Pool(r.class, Rules, 1, ClassMax)
      /\ r.class.id \in [Rules -> 1..ClassMax \cup {NoId}]
      /\ \A g \in Cs : r.class.id[g[2]] = g[1][2]
  BY ClassFields
<1>2. h[2] \in Rules /\ r.class.refs[h[2]] > 0
  BY <1>1, UsersInUse
<1>3. r.class.id[h[2]] # NoId
  BY <1>1, <1>2 DEF Pool, InUse
<1>4. r.class.id[h[2]] \in 1..ClassMax
  BY <1>1, <1>2, <1>3
<1> QED BY <1>1, <1>2, <1>4 DEF InUse, Classes

\* What HoldVfp leaves.
VfpHeld(r, v, Cs, Es, f, x) ==
  /\ v.r \in Resources /\ ClassesOnly(r, v.r) /\ v.ok \in BOOLEAN
  /\ IF v.ok THEN Classified(v.r, Cs \cup ClassUses(f, x), Es \cup EntryUses(f, x))
     ELSE Classified(v.r, Cs, Es)

LEMMA HoldVfpKeeps ==
  ASSUME NEW r \in Resources, NEW Cs, NEW Es, Classified(r, Cs, Es), NEW f, NoneOf(f, Cs), NoneOf(f, Es),
         NEW x, Wanted(x), NEW v, v = HoldVfp(r, x.ports, x.rules), x.class = ClassOf(v.r, x.rules)
  PROVE  VfpHeld(r, v, Cs, Es, f, x)
<1> DEFINE ports == x.ports
           rules == x.rules
           s == WithClass(r, rules)
           c == s.class.id[rules]
           es == Entries(ports, c, rules)
           a == Each(CanHoldEntry, HoldEntry, s, es)
<1>0. ports \in Seq(Pids) /\ rules \in Rules \cup {None}
  BY DEF Wanted
<1>1. CASE rules = None
  <2>1. v = [r |-> r, ok |-> TRUE]
    BY <1>1 DEF HoldVfp
  <2>2. v.r = r /\ v.ok = TRUE
    BY <2>1
  <2>3. ClassUses(f, x) = {} /\ EntryUses(f, x) = {}
    BY <1>1 DEF ClassUses, EntryUses
  <2>4. Cs \cup ClassUses(f, x) = Cs /\ Es \cup EntryUses(f, x) = Es
    BY <2>3
  <2> QED BY <2>2, <2>4 DEF VfpHeld, ClassesOnly, SameChunks, SameTags
<1>2. CASE rules # None /\ ~CanHold(r.class, rules, ClassMax)
  <2>1. v = [r |-> r, ok |-> FALSE]
    BY <1>2 DEF HoldVfp
  <2>2. v.r = r /\ v.ok = FALSE
    BY <2>1
  <2> QED BY <2>2 DEF VfpHeld, ClassesOnly, SameChunks, SameTags
<1>3. CASE rules # None /\ CanHold(r.class, rules, ClassMax)
  <2> DEFINE h == <<<<f, c>>, rules>>
             D == Cs \cup {h}
             ks == EntryKeys(ports, c)
  <2>1. v = [r |-> a.r, ok |-> a.ok]
    BY <1>3 DEF HoldVfp, WithClass
  <2>2. v.r = a.r /\ v.ok = a.ok
    BY ONLY <2>1
  <2>3. h \notin Cs /\ h[2] = rules /\ h[1] = <<f, c>> /\ h[1][1] = f /\ h[1][2] = c
    BY DEF NoneOf
  <2>4. rules \in Rules
    BY <1>0, <1>3
  <2>5. s = WithClass(r, rules) /\ h[1][2] = s.class.id[rules]
    BY <2>3
  <2> HIDE DEF s, h, rules
  <2>6. s \in Resources /\ Classified(s, Cs \cup {h}, Es) /\ ClassesOnly(r, s) /\ s.class.id[rules] \in Classes
    <3>1. CanHold(r.class, rules, ClassMax)
      BY <1>3 DEF rules
    <3>2. ClassHeld(r, s, rules, Cs \cup {h}, Es)
      BY ONLY <2>3, <2>4, <2>5, <3>1, Classified(r, Cs, Es), r \in Resources, HoldClassKeeps
    <3> QED BY <3>2 DEF ClassHeld
  <2>7. c \in Classes /\ c = s.class.id[rules] /\ <<<<f, c>>, rules>> \in D
    BY <2>6 DEF h
  <2>8. Classified(s, D, Es) /\ a = Each(CanHoldEntry, HoldEntry, s, es)
    BY <2>6
  <2> HIDE DEF c, es, D, a, ports
  <2>9. a = Each(CanHoldEntry, HoldEntry, s, Entries(ports, c, rules)) /\ ks = EntryKeys(ports, c)
    BY <2>8 DEF es
  <2> HIDE DEF ks
  <2>10. /\ a \in Attempts /\ a.r.class = s.class /\ ClassesOnly(s, a.r)
         /\ a.n \in 0..Len(ports) /\ (a.ok => a.n = Len(ports))
         /\ Classified(a.r, D, Es \cup Shares(f, ks, a.n))
    <3>1. EntriesHeld(s, a, ports, D, Es, f, ks)
      BY <1>0, <2>4, <2>6, <2>7, <2>8, <2>9, HoldEntriesKeep DEF ports
    <3> QED BY <3>1 DEF EntriesHeld
  <2>11. ClassesOnly(r, a.r)
    BY <2>6, <2>10, ClassesOnward
  <2>12. a.r \in Resources /\ a.ok \in BOOLEAN
    BY <2>10 DEF Attempts
  <2>13. ASSUME a.ok
         PROVE  Classified(a.r, Cs \cup ClassUses(f, x), Es \cup EntryUses(f, x))
    <3>1. x.class = c
      BY <1>3, <2>2, <2>7, <2>10 DEF ClassOf, rules
    <3>2. ClassUses(f, x) = {h}
      BY <1>3, <3>1 DEF ClassUses, h, rules
    <3>3. EntryUses(f, x) = Shares(f, ks, Len(ports))
      BY <1>3, <3>1 DEF EntryUses, ks, rules, ports
    <3> QED BY <2>10, <2>13, <3>2, <3>3 DEF D
  <2>14. Classified(a.r, Cs, Es)
    <3> DEFINE F == Shares(f, ks, a.n)
    <3>1. Classified(a.r, Cs \cup {h}, Es \cup F)
      BY <2>10 DEF D
    <3>2. ASSUME NEW e \in F PROVE e[2][2] = c
      <4>1. PICK i \in 1..a.n : e = <<<<f, i>>, ks[i]>>
        BY <3>2 DEF Shares
      <4>2. \A j \in 1..Len(ports) : ks[j] = <<ports[j], c>>
        <5>1. \A j \in 1..Len(ports) : EntryKeys(ports, c)[j] = <<ports[j], c>>
          BY ONLY <1>0, <2>7, KeysOfPorts
        <5> QED BY ONLY <2>9, <5>1
      <4>3. i \in 1..Len(ports)
        <5>1. Len(ports) \in Nat
          BY <1>0 DEF ports
        <5> QED BY <2>10, <5>1
      <4>4. e[2] = <<ports[i], c>>
        BY <4>1, <4>2, <4>3
      <4> QED BY <4>4
    <3> HIDE DEF F
    <3>3. \A e \in F : e[2][2] = c
      BY <3>2
    <3> DEFINE p == a.r
    <3>4. p \in Resources /\ Classified(p, Cs \cup {h}, Es \cup F)
      BY <2>12, <3>1
    <3> HIDE DEF p
    <3>5. Classified(p, Cs, Es)
      BY ONLY <2>3, <3>3, <3>4, NoneOf(f, Cs), NoneOf(f, Es), ClassAbandoned
    <3> QED BY <3>5 DEF p
  <2> QED BY <2>2, <2>11, <2>12, <2>13, <2>14 DEF VfpHeld
<1> QED BY <1>1, <1>2, <1>3

\* The uses of f's filter x are among these, f has no other entries.
VfpUses(f, x, Cs, Es) ==
  /\ ClassUses(f, x) \subseteq Cs /\ EntryUses(f, x) \subseteq Es
  /\ NoneOf(f, Es \ EntryUses(f, x))
\* What DropVfp leaves.
VfpLeft(r, q, Cs, Es) == q \in Resources /\ ClassesOnly(r, q) /\ Classified(q, Cs, Es)

LEMMA DropVfpKeeps ==
  ASSUME NEW r \in Resources, NEW Cs, NEW Es, Classified(r, Cs, Es), NEW f,
         NEW x, Wanted(x), VfpUses(f, x, Cs, Es), NEW q, q = DropVfp(r, x.ports, x.rules, x.class)
  PROVE  VfpLeft(r, q, Cs \ ClassUses(f, x), Es \ EntryUses(f, x))
<1>9. /\ ClassUses(f, x) \subseteq Cs /\ EntryUses(f, x) \subseteq Es
      /\ NoneOf(f, Es \ EntryUses(f, x))
  BY DEF VfpUses
<1> DEFINE ports == x.ports
           rules == x.rules
           c == x.class
           ks == EntryKeys(ports, c)
           h == <<<<f, c>>, rules>>
           G == Es \ EntryUses(f, x)
           p == FoldLeft(DropEntry, r, ks)
<1>0. ports \in Seq(Pids)
  BY DEF Wanted
<1>1. CASE rules = None
  <2>1. q = r
    BY <1>1 DEF DropVfp
  <2>2. ClassUses(f, x) = {} /\ EntryUses(f, x) = {}
    BY <1>1 DEF ClassUses, EntryUses
  <2>3. Cs \ ClassUses(f, x) = Cs /\ Es \ EntryUses(f, x) = Es
    BY <2>2
  <2>4. ClassesOnly(r, r)
    BY DEF ClassesOnly, SameChunks, SameTags
  <2> QED BY <2>1, <2>3, <2>4 DEF VfpLeft
<1>2. CASE rules # None
  <2>1. q = [p EXCEPT !.class = Drop(@, rules)]
    BY <1>2 DEF DropVfp
  <2>2. ClassUses(f, x) = {h} /\ EntryUses(f, x) = Shares(f, ks, Len(ports))
    BY <1>2 DEF ClassUses, EntryUses
  <2>3. h \in Cs /\ h[2] = rules /\ h[1][1] = f /\ h[1][2] = c
    BY <1>9, <2>2
  <2> HIDE DEF h
  <2>4. c \in Classes
    BY <2>3, ClassOfUse
  <2>5. ks \in Seq(EntryIndex) /\ Len(ks) = Len(ports)
    BY <1>0, <2>4, KeysOfPorts
  <2>6. Shares(f, ks, Len(ks)) \subseteq Es /\ p = FoldLeft(DropEntry, r, ks)
    BY <1>9, <2>2, <2>5
  <2> HIDE DEF p, ks, ports, c, rules
  <2>7. p \in Resources /\ Classified(p, Cs, Es \ Shares(f, ks, Len(ks))) /\ ClassesOnly(r, p)
    BY <2>5, <2>6, DropEntriesKeep
  <2>8. Classified(p, Cs, G) /\ NoneOf(h[1][1], G) /\ q = [p EXCEPT !.class = Drop(@, h[2])]
    BY <1>9, <2>1, <2>2, <2>3, <2>5, <2>7
  <2> HIDE DEF G
  <2>9. q \in Resources /\ Classified(q, Cs \ {h}, G) /\ ClassesOnly(p, q)
    BY <2>3, <2>7, <2>8, DropClassKeeps
  <2>10. ClassesOnly(r, q)
    BY <2>7, <2>9, ClassesOnward
  <2> QED BY <2>2, <2>9, <2>10 DEF G, VfpLeft
<1> QED BY <1>1, <1>2
-----------------------------------------------------------------------------
(* A filter's members, one after the other.                                *)

LEMMA SameIdsOnward ==
  ASSUME NEW r, NEW q, NEW p, NEW G, NEW H, G \subseteq H, SameIds(r, q, G), SameIds(q, p, H)
  PROVE  SameIds(r, p, G)
BY DEF SameIds

LEMMA ChunksGiveIds ==
  ASSUME NEW r, NEW q, SameChunks(r, q), NEW H
  PROVE  SameIds(r, q, H)
BY DEF SameIds, SameChunks

CU(f, us) == ChunkUses(f, us, Len(us))
TU(f, ports, v) == Shares(f, TagsOf(ports, v), Len(TagsOf(ports, v)))

LEMMA UdfsDropped ==
  ASSUME NEW r, NEW Hs, NEW Ts, NEW Cs, NEW Es, Tabled(r, Hs, Ts, Cs, Es), NEW f, NEW us \in Seq(Udfs),
         CU(f, us) \subseteq Hs, NEW q, q = DropUdfs(r, us)
  PROVE  Tabled(q, Hs \ CU(f, us), Ts, Cs, Es) /\ SameIds(r, q, Hs \ CU(f, us))
<1>1. r \in Resources /\ Windows(r, Hs) /\ Tags(r, Ts) /\ Classified(r, Cs, Es)
  BY DEF Tabled
<1>2. q = FoldLeft(DropUdf, r, us) /\ ChunkUses(f, us, Len(us)) \subseteq Hs
  BY DEF DropUdfs, CU
<1>3. /\ q \in Resources /\ Windows(q, Hs \ ChunkUses(f, us, Len(us)))
      /\ KeepsWindows(r, q, Hs \ ChunkUses(f, us, Len(us)))
  BY <1>1, <1>2, DropUdfsKeep
<1>4. SameTags(r, q) /\ SameClasses(r, q)
  BY <1>3 DEF KeepsWindows
<1>5. Tags(q, Ts) /\ Classified(q, Cs, Es)
  BY <1>1, <1>4, TagsSame, ClassesSame
<1>6. SameIds(r, q, Hs \ ChunkUses(f, us, Len(us)))
  BY <1>3 DEF KeepsWindows, SameIds
<1> QED BY <1>3, <1>5, <1>6 DEF Tabled, CU

LEMMA TpidsDropped ==
  ASSUME NEW r, NEW Hs, NEW Ts, NEW Cs, NEW Es, Tabled(r, Hs, Ts, Cs, Es), NEW f,
         NEW ports \in Seq(Pids), NEW v \in Tpids \cup {None},
         TU(f, ports, v) \subseteq Ts, NEW q, q = DropTpids(r, ports, v)
  PROVE  Tabled(q, Hs, Ts \ TU(f, ports, v), Cs, Es) /\ SameChunks(r, q)
<1> DEFINE ks == TagsOf(ports, v)
<1>1. r \in Resources /\ Windows(r, Hs) /\ Tags(r, Ts) /\ Classified(r, Cs, Es)
  BY DEF Tabled
<1>2. q = FoldLeft(DropTpid, r, ks) /\ Shares(f, ks, Len(ks)) \subseteq Ts
  BY DEF DropTpids, TU
<1>3. ks \in TagKeys
  BY TagsOfFields
<1>7. TU(f, ports, v) = Shares(f, ks, Len(ks))
  BY DEF TU
<1> HIDE DEF ks
<1>4. q \in Resources /\ Tags(q, Ts \ Shares(f, ks, Len(ks))) /\ TagsOnly(r, q)
  BY <1>1, <1>2, <1>3, DropTpidsKeep
<1>5. SameChunks(r, q) /\ SameClasses(r, q)
  BY <1>4 DEF TagsOnly
<1>6. Windows(q, Hs) /\ Classified(q, Cs, Es)
  BY <1>1, <1>5, WindowsSame, ClassesSame
<1> QED BY <1>4, <1>5, <1>6, <1>7 DEF Tabled

LEMMA VfpDropped ==
  ASSUME NEW r, NEW Hs, NEW Ts, NEW Cs, NEW Es, Tabled(r, Hs, Ts, Cs, Es), NEW f,
         NEW x, Wanted(x), VfpUses(f, x, Cs, Es), NEW q, q = DropVfp(r, x.ports, x.rules, x.class)
  PROVE  Tabled(q, Hs, Ts, Cs \ ClassUses(f, x), Es \ EntryUses(f, x)) /\ SameChunks(r, q)
<1>1. r \in Resources /\ Windows(r, Hs) /\ Tags(r, Ts) /\ Classified(r, Cs, Es)
  BY DEF Tabled
<1>5. VfpLeft(r, q, Cs \ ClassUses(f, x), Es \ EntryUses(f, x))
  BY <1>1, DropVfpKeeps
<1>2. /\ q \in Resources /\ ClassesOnly(r, q)
      /\ Classified(q, Cs \ ClassUses(f, x), Es \ EntryUses(f, x))
  BY <1>5 DEF VfpLeft
<1>3. SameChunks(r, q) /\ SameTags(r, q)
  BY <1>2 DEF ClassesOnly
<1>4. Windows(q, Hs) /\ Tags(q, Ts)
  BY <1>1, <1>3, WindowsSame, TagsSame
<1> QED BY <1>1, <1>2, <1>3, <1>4 DEF Tabled

\* The uses of f's filter x are among these.
FilterUses(f, x, Hs, Ts, Cs, Es) ==
  CU(f, x.udfs) \subseteq Hs /\ TagUses(f, x) \subseteq Ts /\ VfpUses(f, x, Cs, Es)

LEMMA FilterDropped ==
  ASSUME NEW r, NEW Hs, NEW Ts, NEW Cs, NEW Es, Tabled(r, Hs, Ts, Cs, Es), NEW f,
         NEW x, Wanted(x), FilterUses(f, x, Hs, Ts, Cs, Es),
         NEW q, q = DropFilter(r, x)
  PROVE  /\ Tabled(q, Hs \ CU(f, x.udfs), Ts \ TagUses(f, x), Cs \ ClassUses(f, x), Es \ EntryUses(f, x))
         /\ SameIds(r, q, Hs \ CU(f, x.udfs))
<1> DEFINE p1 == DropVfp(r, x.ports, x.rules, x.class)
           p2 == DropTpids(p1, x.ports, x.tpid)
           Cr == Cs \ ClassUses(f, x)
           Er == Es \ EntryUses(f, x)
           Tr == Ts \ TagUses(f, x)
           Hr == Hs \ CU(f, x.udfs)
           ports == x.ports
           v == x.tpid
           us == x.udfs
<1>1. q = DropUdfs(p2, us) /\ p2 = DropTpids(p1, ports, v)
  BY DEF DropFilter
<1>2. Tabled(p1, Hs, Ts, Cr, Er) /\ SameChunks(r, p1)
  <2>1. VfpUses(f, x, Cs, Es) /\ p1 = DropVfp(r, x.ports, x.rules, x.class)
    BY DEF FilterUses
  <2> HIDE DEF p1
  <2> QED BY <2>1, VfpDropped
<1>3. /\ ports \in Seq(Pids) /\ v \in Tpids \cup {None} /\ us \in Seq(Udfs)
      /\ CU(f, us) \subseteq Hs /\ TU(f, ports, v) \subseteq Ts /\ TagUses(f, x) = TU(f, ports, v)
  BY DEF Wanted, FilterUses, TagUses, TU
<1>4. Tr = Ts \ TU(f, ports, v) /\ Hr = Hs \ CU(f, us)
  BY <1>3
<1> HIDE DEF p1, p2, Cr, Er, Tr, Hr, ports, v, us
<1>5. Tabled(p2, Hs, Tr, Cr, Er) /\ SameChunks(p1, p2)
  BY <1>1, <1>2, <1>3, <1>4, TpidsDropped
<1>6. Tabled(q, Hr, Tr, Cr, Er) /\ SameIds(p2, q, Hr)
  BY <1>1, <1>3, <1>4, <1>5, UdfsDropped
<1>7. SameIds(r, p2, Hr)
  <2>1. SameChunks(r, p2)
    BY <1>2, <1>5 DEF SameChunks
  <2> QED BY <2>1, ChunksGiveIds
<1>8. SameIds(r, q, Hr)
  BY <1>6, <1>7, SameIdsOnward
<1> QED BY <1>6, <1>8 DEF Hr, Tr, Cr, Er, us
-----------------------------------------------------------------------------
(* A new filter: its members in their order, and back when one throws.     *)

\* Nothing is f's yet.
Fresh(f, Hs, Ts, Cs, Es) == Absent(f, Hs) /\ NoneOf(f, Ts) /\ NoneOf(f, Cs) /\ NoneOf(f, Es)

LEMMA UsesAreOwn ==
  ASSUME NEW f, NEW Hs, NEW Ts, NEW Cs, NEW Es, Fresh(f, Hs, Ts, Cs, Es), NEW x, Wanted(x)
  PROVE  /\ (Hs \cup CU(f, x.udfs)) \ CU(f, x.udfs) = Hs
         /\ (Ts \cup TU(f, x.ports, x.tpid)) \ TU(f, x.ports, x.tpid) = Ts
         /\ (Cs \cup ClassUses(f, x)) \ ClassUses(f, x) = Cs
         /\ (Es \cup EntryUses(f, x)) \ EntryUses(f, x) = Es
<1>0. Len(x.udfs) \in Nat /\ x.ports \in Seq(Pids) /\ x.tpid \in Tpids \cup {None} /\ Len(x.ports) \in Nat
  BY DEF Wanted
<1>1. AllOf(f, CU(f, x.udfs))
  BY <1>0, ChunkUsesGrow DEF CU
<1>2. \A h \in TU(f, x.ports, x.tpid) : h[1][1] = f
  <2> DEFINE ks == TagsOf(x.ports, x.tpid)
  <2>1. ks \in TagKeys
    BY <1>0, TagsOfFields
  <2> HIDE DEF ks
  <2>2. Len(ks) \in Nat
    BY <2>1 DEF TagKeys
  <2>3. \A h \in Shares(f, ks, Len(ks)) : h[1][1] = f
    BY <2>2, SharesGrow
  <2> QED BY <2>3 DEF TU, ks
<1>3. \A h \in ClassUses(f, x) : h[1][1] = f
  BY DEF ClassUses
<1>4. \A h \in EntryUses(f, x) : h[1][1] = f
  <2> DEFINE ks == EntryKeys(x.ports, x.class)
             n == Len(x.ports)
  <2>2. n \in Nat
    BY <1>0
  <2> HIDE DEF ks, n
  <2>1. \A h \in Shares(f, ks, n) : h[1][1] = f
    BY <2>2, SharesGrow
  <2> QED BY <2>1 DEF EntryUses, ks, n
<1>5. \A h \in CU(f, x.udfs) : h \notin Hs
  BY <1>1 DEF Fresh, Absent, AllOf
<1>6. \A h \in TU(f, x.ports, x.tpid) : h \notin Ts
  BY <1>2 DEF Fresh, NoneOf
<1>7. \A h \in ClassUses(f, x) : h \notin Cs
  BY <1>3 DEF Fresh, NoneOf
<1>8. \A h \in EntryUses(f, x) : h \notin Es
  BY <1>4 DEF Fresh, NoneOf
<1> QED BY <1>5, <1>6, <1>7, <1>8

\* What there is after a member: with f's when nothing has thrown.
Rolled(r, a, Hs, Ts, Cs, Es, Hm, Tm, Cm, Em) ==
  /\ a \in Attempts /\ SameIds(r, a.r, Hs)
  /\ IF a.ok THEN Tabled(a.r, Hm, Tm, Cm, Em) ELSE Tabled(a.r, Hs, Ts, Cs, Es)

LEMMA FailedIs ==
  ASSUME NEW a \in Attempts, NEW d \in Resources
  PROVE  Failed(a, d) \in Attempts /\ Failed(a, d).r = d /\ Failed(a, d).ok = FALSE
BY DEF Attempts, Failed

LEMMA UdfsUndone ==
  ASSUME NEW r, NEW Hs, NEW Hm, NEW Ts, NEW Cs, NEW Es, NEW f, NEW us \in Seq(Udfs),
         Tabled(r, Hm, Ts, Cs, Es), CU(f, us) \subseteq Hm, Hm \ CU(f, us) = Hs,
         NEW d, d = DropUdfs(r, us)
  PROVE  Tabled(d, Hs, Ts, Cs, Es) /\ SameIds(r, d, Hs)
<1>1. Tabled(d, Hm \ CU(f, us), Ts, Cs, Es) /\ SameIds(r, d, Hm \ CU(f, us))
  BY UdfsDropped
<1> QED BY <1>1

\* Hm and Tm are Hs and Ts with the uses of f's UDFs and tag values.
Brings(f, x, Hs, Hm, Ts, Tm) ==
  /\ CU(f, x.udfs) \subseteq Hm /\ Hm \ CU(f, x.udfs) = Hs
  /\ TU(f, x.ports, x.tpid) \subseteq Tm /\ Tm \ TU(f, x.ports, x.tpid) = Ts

LEMMA MembersUndone ==
  ASSUME NEW r, NEW Hs, NEW Hm, NEW Ts, NEW Tm, NEW Cs, NEW Es, NEW f, NEW x, Wanted(x),
         Tabled(r, Hm, Tm, Cs, Es), Brings(f, x, Hs, Hm, Ts, Tm),
         NEW d, d = DropUdfs(DropTpids(r, x.ports, x.tpid), x.udfs)
  PROVE  Tabled(d, Hs, Ts, Cs, Es) /\ SameIds(r, d, Hs)
<1> DEFINE p == DropTpids(r, x.ports, x.tpid)
           us == x.udfs
           ports == x.ports
           v == x.tpid
<1>1. us \in Seq(Udfs) /\ ports \in Seq(Pids) /\ v \in Tpids \cup {None}
  BY DEF Wanted
<1>2. d = DropUdfs(p, us) /\ CU(f, us) \subseteq Hm /\ Hm \ CU(f, us) = Hs
  BY DEF Brings
<1>3. p = DropTpids(r, ports, v) /\ TU(f, ports, v) \subseteq Tm /\ Tm \ TU(f, ports, v) = Ts
  BY DEF Brings
<1> HIDE DEF us, ports, v, p
<1>4. Tabled(p, Hm, Tm \ TU(f, ports, v), Cs, Es) /\ SameChunks(r, p)
  BY <1>1, <1>3, TpidsDropped
<1>5. Tabled(p, Hm, Ts, Cs, Es)
  BY <1>3, <1>4
<1>8. Tabled(d, Hm \ CU(f, us), Ts, Cs, Es) /\ SameIds(p, d, Hm \ CU(f, us))
  BY <1>1, <1>2, <1>5, UdfsDropped
<1>6. Tabled(d, Hs, Ts, Cs, Es) /\ SameIds(p, d, Hs)
  BY <1>2, <1>8
<1>7. SameIds(r, p, Hs)
  BY <1>4, ChunksGiveIds
<1> QED BY <1>6, <1>7, SameIdsOnward

\* What a call makes a filter from.
Qualified(q) == q.udfs \in Seq(Udfs) /\ q.tpid \in Tpids \cup {None} /\ q.rules \in Rules \cup {None}

LEMMA FilterIs ==
  ASSUME NEW r, NEW q, Qualified(q), NEW ports \in Seq(Pids), NEW x, x = FilterOf(r, q, ports)
  PROVE  /\ Wanted(x) /\ x.ports = ports /\ x.udfs = q.udfs /\ x.tpid = q.tpid /\ x.rules = q.rules
         /\ x.class = ClassOf(r, q.rules) /\ x.places = Places(r, q.udfs) /\ x.in_ports = q.in_ports
<1>1. /\ x.ports = ports /\ x.udfs = q.udfs /\ x.tpid = q.tpid /\ x.rules = q.rules
      /\ x.class = ClassOf(r, q.rules) /\ x.places = Places(r, q.udfs) /\ x.in_ports = q.in_ports
  BY DEF FilterOf
<1> QED BY <1>1 DEF Wanted, Qualified

LEMMA UdfsHeld ==
  ASSUME NEW r, NEW Hs, NEW Ts, NEW Cs, NEW Es, Tabled(r, Hs, Ts, Cs, Es), NEW f, Absent(f, Hs),
         NEW us \in Seq(Udfs), NEW a, a = HoldUdfs(r, us)
  PROVE  Rolled(r, a, Hs, Ts, Cs, Es, Hs \cup CU(f, us), Ts, Cs, Es)
<1>1. r \in Resources /\ Windows(r, Hs) /\ Tags(r, Ts) /\ Classified(r, Cs, Es)
  BY DEF Tabled
<1>2. /\ a \in Attempts /\ KeepsWindows(r, a.r, Hs)
      /\ IF a.ok THEN Windows(a.r, Hs \cup ChunkUses(f, us, Len(us))) ELSE Windows(a.r, Hs)
  BY <1>1, HoldUdfsKeep
<1> DEFINE p == a.r
<1>3. SameTags(r, p) /\ SameClasses(r, p) /\ SameIds(r, p, Hs) /\ p \in Resources
  BY <1>2 DEF KeepsWindows, SameIds, Attempts
<1> HIDE DEF p
<1>4. Tags(p, Ts) /\ Classified(p, Cs, Es)
  BY <1>1, <1>3, TagsSame, ClassesSame
<1> QED BY <1>2, <1>3, <1>4 DEF Rolled, Tabled, CU, p

LEMMA TpidsHeld ==
  ASSUME NEW r, NEW Hs, NEW Ts, NEW Cs, NEW Es, NEW f, Fresh(f, Hs, Ts, Cs, Es),
         NEW q, Qualified(q), NEW ports \in Seq(Pids), NEW Hm, Hm = Hs \cup CU(f, q.udfs),
         NEW Tm, Tm = Ts \cup TU(f, ports, q.tpid),
         NEW a, Rolled(r, a, Hs, Ts, Cs, Es, Hm, Ts, Cs, Es), NEW b, b = WithTpids(a, q, ports)
  PROVE  Rolled(r, b, Hs, Ts, Cs, Es, Hm, Tm, Cs, Es)
<1> DEFINE p == a.r
           us == q.udfs
           v == q.tpid
           t == HoldTpids(p, ports, v)
           ks == TagsOf(ports, v)
           d == DropUdfs(t.r, us)
<1>1. us \in Seq(Udfs) /\ v \in Tpids \cup {None} /\ Hm = Hs \cup CU(f, us) /\ Tm = Ts \cup TU(f, ports, v)
  BY DEF Qualified
<1>2. b = IF ~a.ok THEN a ELSE IF t.ok THEN [a EXCEPT !.r = t.r] ELSE Failed(a, d)
  BY DEF WithTpids
<1>3. a \in Attempts /\ SameIds(r, p, Hs) /\ p \in Resources
  BY DEF Rolled, Attempts
<1>4. CASE ~a.ok
  <2>1. b = a
    BY <1>2, <1>4
  <2> QED BY <1>4, <2>1 DEF Rolled
<1>5. CASE a.ok
  <2>1. Tabled(p, Hm, Ts, Cs, Es)
    BY <1>5 DEF Rolled
  <2>2. t = HoldTpids(p, ports, v) /\ ks = TagsOf(ports, v) /\ TU(f, ports, v) = Shares(f, ks, Len(ks))
    BY DEF TU
  <2>9. d = DropUdfs(t.r, us)
    OBVIOUS
  <2> HIDE DEF p, us, v, t, ks, d
  <2>3. Windows(p, Hm) /\ Tags(p, Ts) /\ Classified(p, Cs, Es)
    BY <2>1 DEF Tabled
  <2>4. NoneOf(f, Ts)
    BY DEF Fresh
  <2>5. /\ t \in Attempts /\ TagsOnly(p, t.r)
        /\ IF t.ok THEN Tags(t.r, Ts \cup Shares(f, ks, Len(ks))) ELSE Tags(t.r, Ts)
    BY <1>1, <1>3, <2>2, <2>3, <2>4, HoldTpidsKeep
  <2>6. SameChunks(p, t.r) /\ SameClasses(p, t.r) /\ t.r \in Resources /\ t.ok \in BOOLEAN
    BY <2>5 DEF TagsOnly, Attempts
  <2>7. Windows(t.r, Hm) /\ Classified(t.r, Cs, Es)
    BY <2>3, <2>6, WindowsSame, ClassesSame
  <2>8. SameIds(r, t.r, Hs)
    <3>1. SameIds(p, t.r, Hs)
      BY <2>6, ChunksGiveIds
    <3> QED BY <1>3, <3>1, SameIdsOnward
  <2>10. CASE t.ok
    <3>1. b = [a EXCEPT !.r = t.r]
      BY <1>2, <1>5, <2>10
    <3>2. b \in Attempts /\ b.r = t.r /\ b.ok = a.ok
      BY ONLY <1>3, <2>6, <3>1 DEF Attempts
    <3>3. Tags(t.r, Tm)
      BY <1>1, <2>2, <2>5, <2>10
    <3> QED BY <1>5, <2>6, <2>7, <2>8, <3>2, <3>3 DEF Rolled, Tabled
  <2>11. CASE ~t.ok
    <3>1. b = Failed(a, d)
      BY <1>2, <1>5, <2>11
    <3>2. Tabled(t.r, Hm, Ts, Cs, Es)
      BY <2>5, <2>6, <2>7, <2>11 DEF Tabled
    <3>3. CU(f, us) \subseteq Hm /\ Hm \ CU(f, us) = Hs
      <4>1. \A h \in CU(f, us) : h \notin Hs
        <5>2. Len(us) \in Nat
          BY <1>1
        <5>1. AllOf(f, CU(f, us))
          BY <5>2, ChunkUsesGrow DEF CU
        <5> QED BY <5>1 DEF Fresh, Absent, AllOf
      <4> QED BY <1>1, <4>1
    <3> DEFINE e == t.r
    <3>4. Tabled(e, Hm, Ts, Cs, Es) /\ d = DropUdfs(e, us) /\ SameIds(r, e, Hs)
      BY <2>8, <2>9, <3>2
    <3> HIDE DEF e
    <3>7. Tabled(d, Hm \ CU(f, us), Ts, Cs, Es) /\ SameIds(e, d, Hm \ CU(f, us))
      BY <1>1, <3>3, <3>4, UdfsDropped
    <3>5. Tabled(d, Hs, Ts, Cs, Es) /\ SameIds(e, d, Hs)
      BY <3>3, <3>7
    <3>6. SameIds(r, d, Hs) /\ d \in Resources
      BY <3>4, <3>5, SameIdsOnward DEF Tabled
    <3>8. b \in Attempts /\ b.r = d /\ b.ok = FALSE
      <4>1. Failed(a, d) \in Attempts /\ Failed(a, d).r = d /\ Failed(a, d).ok = FALSE
        BY <1>3, <3>6, FailedIs
      <4> QED BY <3>1, <4>1
    <3> QED BY <3>5, <3>6, <3>8 DEF Rolled
  <2> QED BY <2>10, <2>11
<1> QED BY <1>4, <1>5

LEMMA VfpMade ==
  ASSUME NEW r, NEW Hs, NEW Ts, NEW Cs, NEW Es, NEW f, Fresh(f, Hs, Ts, Cs, Es),
         NEW q, Qualified(q), NEW ports \in Seq(Pids), NEW Hm, Hm = Hs \cup CU(f, q.udfs),
         NEW Tm, Tm = Ts \cup TU(f, ports, q.tpid),
         NEW a, Rolled(r, a, Hs, Ts, Cs, Es, Hm, Tm, Cs, Es), NEW b, b = WithVfp(a, q, ports),
         NEW x, x = FilterOf(b.r, q, ports)
  PROVE  Rolled(r, b, Hs, Ts, Cs, Es, Hm, Tm, Cs \cup ClassUses(f, x), Es \cup EntryUses(f, x))
<1> DEFINE p == a.r
           v == HoldVfp(p, ports, q.rules)
           Cm == Cs \cup ClassUses(f, x)
           Em == Es \cup EntryUses(f, x)
           d == DropUdfs(DropTpids(p, x.ports, x.tpid), x.udfs)
           e == DropUdfs(DropTpids(v.r, x.ports, x.tpid), x.udfs)
<1>1. /\ Wanted(x) /\ x.ports = ports /\ x.udfs = q.udfs /\ x.tpid = q.tpid /\ x.rules = q.rules
      /\ x.class = ClassOf(b.r, q.rules)
  BY FilterIs
<1>2. /\ b = IF ~a.ok THEN a ELSE IF Overlapped(q.udfs) THEN Failed(a, d)
             ELSE IF v.ok THEN [a EXCEPT !.r = v.r] ELSE Failed(a, e)
      /\ Overlapped(q.udfs) \in BOOLEAN
  BY <1>1 DEF WithVfp, Unwound, Overlapped
<1>3. a \in Attempts /\ SameIds(r, p, Hs) /\ p \in Resources
  BY DEF Rolled, Attempts
<1>4. Brings(f, x, Hs, Hm, Ts, Tm)
  BY <1>1, UsesAreOwn DEF Brings
<1> SUFFICES Rolled(r, b, Hs, Ts, Cs, Es, Hm, Tm, Cm, Em)
  OBVIOUS
<1>5. ASSUME NEW s, NEW k, Tabled(s, Hm, Tm, Cs, Es), SameIds(r, s, Hs), a.ok,
             k = DropUdfs(DropTpids(s, x.ports, x.tpid), x.udfs), b = Failed(a, k)
      PROVE  Rolled(r, b, Hs, Ts, Cs, Es, Hm, Tm, Cm, Em)
  <2> HIDE DEF Cm, Em, d, e, v, p
  <2>1. Tabled(k, Hs, Ts, Cs, Es) /\ SameIds(s, k, Hs)
    BY <1>1, <1>4, <1>5, MembersUndone
  <2>2. SameIds(r, k, Hs) /\ k \in Resources
    <3>1. Hs \subseteq Hs
      OBVIOUS
    <3>2. SameIds(r, k, Hs)
      BY ONLY <1>5, <2>1, <3>1, SameIdsOnward
    <3> QED BY <2>1, <3>2 DEF Tabled
  <2>3. Failed(a, k) \in Attempts /\ Failed(a, k).r = k /\ Failed(a, k).ok = FALSE
    BY <1>3, <2>2, FailedIs
  <2> QED BY <1>5, <2>1, <2>2, <2>3 DEF Rolled
<1>6. CASE ~a.ok
  <2>1. b = a
    BY <1>2, <1>6
  <2> QED BY <1>6, <2>1 DEF Rolled
<1>7. CASE a.ok /\ Overlapped(q.udfs)
  <2>1. b = Failed(a, d) /\ Tabled(p, Hm, Tm, Cs, Es)
    BY <1>2, <1>7 DEF Rolled
  <2>2. d = DropUdfs(DropTpids(p, x.ports, x.tpid), x.udfs)
    OBVIOUS
  <2> HIDE DEF d, p, Cm, Em
  <2> QED BY <1>3, <1>5, <1>7, <2>1, <2>2
<1>8. CASE a.ok /\ ~Overlapped(q.udfs)
  <2> DEFINE o == v.r
             g == IF v.ok THEN x ELSE [x EXCEPT !.class = ClassOf(o, q.rules)]
  <2>1. Tabled(p, Hm, Tm, Cs, Es)
    BY <1>8 DEF Rolled
  <2>2. b = IF v.ok THEN [a EXCEPT !.r = o] ELSE Failed(a, e)
    BY <1>2, <1>8
  <2>3. v.ok => b.r = o /\ b.ok /\ (o \in Resources => b \in Attempts)
    <3>1. ASSUME v.ok PROVE b = [a EXCEPT !.r = o]
      BY <2>2, <3>1
    <3> HIDE DEF o, v
    <3>2. ASSUME v.ok PROVE b.r = o /\ b.ok = a.ok /\ (o \in Resources => b \in Attempts)
      BY ONLY <1>3, <3>1, <3>2 DEF Attempts
    <3> QED BY <1>8, <3>2
  <2>4. /\ Wanted(g) /\ g.ports = ports /\ g.rules = q.rules /\ g.class = ClassOf(o, q.rules)
        /\ v.ok => g = x
    <3>1. CASE v.ok
      BY <1>1, <2>3, <3>1
    <3>2. CASE ~v.ok
      <4>1. g = [x EXCEPT !.class = ClassOf(o, q.rules)]
        BY <3>2
      <4>2. x = [in_ports |-> q.in_ports, ports |-> ports, udfs |-> q.udfs, tpid |-> q.tpid,
                 rules |-> q.rules, class |-> ClassOf(b.r, q.rules), places |-> Places(b.r, q.udfs)]
        BY DEF FilterOf
      <4> HIDE DEF g, o
      <4>3. /\ g.ports = ports /\ g.rules = q.rules /\ g.class = ClassOf(o, q.rules)
            /\ g.udfs = q.udfs /\ g.tpid = q.tpid
        BY ONLY <4>1, <4>2
      <4> QED BY <1>1, <3>2, <4>3 DEF Wanted
    <3> QED BY <3>1, <3>2
  <2>5. v = HoldVfp(p, g.ports, g.rules) /\ g.class = ClassOf(v.r, g.rules)
    BY <2>4
  <2>6. e = DropUdfs(DropTpids(o, x.ports, x.tpid), x.udfs)
    OBVIOUS
  <2>11. ClassUses(f, x) \cup Cs = Cm /\ EntryUses(f, x) \cup Es = Em
    OBVIOUS
  <2> HIDE DEF p, v, g, e
  <2>7. VfpHeld(p, v, Cs, Es, f, g)
    <3>1. Classified(p, Cs, Es) /\ NoneOf(f, Cs) /\ NoneOf(f, Es)
      BY <2>1 DEF Tabled, Fresh
    <3> QED BY <1>3, <2>4, <2>5, <3>1, HoldVfpKeeps
  <2>8. /\ o \in Resources /\ SameChunks(p, o) /\ SameTags(p, o) /\ v.ok \in BOOLEAN
        /\ IF v.ok THEN Classified(o, Cs \cup ClassUses(f, g), Es \cup EntryUses(f, g))
           ELSE Classified(o, Cs, Es)
    BY <2>7 DEF VfpHeld, ClassesOnly
  <2> HIDE DEF o, Cm, Em
  <2>9. Windows(o, Hm) /\ Tags(o, Tm)
    BY <2>1, <2>8, WindowsSame, TagsSame DEF Tabled
  <2>10. SameIds(r, o, Hs)
    <3>1. SameIds(p, o, Hs)
      BY <2>8, ChunksGiveIds
    <3> QED BY <1>3, <3>1, SameIdsOnward
  <2>12. CASE v.ok
    <3>1. Classified(o, Cm, Em)
      BY <2>4, <2>8, <2>12 DEF Cm, Em
    <3>2. Tabled(o, Hm, Tm, Cm, Em)
      BY <2>8, <2>9, <3>1 DEF Tabled
    <3> QED BY <2>3, <2>8, <2>10, <2>12, <3>2 DEF Rolled
  <2>13. CASE ~v.ok
    <3>1. Tabled(o, Hm, Tm, Cs, Es)
      BY <2>8, <2>9, <2>13 DEF Tabled
    <3>2. b = Failed(a, e)
      BY <2>2, <2>13
    <3> QED BY <1>5, <1>8, <2>6, <2>10, <3>1, <3>2
  <2> QED BY <2>12, <2>13
<1> QED BY <1>2, <1>6, <1>7, <1>8

LEMMA EntryMade ==
  ASSUME NEW r, NEW Hs, NEW Ts, NEW Cs, NEW Es, NEW f, Fresh(f, Hs, Ts, Cs, Es),
         NEW q, Qualified(q), NEW ports \in Seq(Pids), NEW Hm, Hm = Hs \cup CU(f, q.udfs),
         NEW Tm, Tm = Ts \cup TU(f, ports, q.tpid),
         NEW a, NEW y, y = FilterOf(a.r, q, ports),
         Rolled(r, a, Hs, Ts, Cs, Es, Hm, Tm, Cs \cup ClassUses(f, y), Es \cup EntryUses(f, y)),
         NEW room \in BOOLEAN, NEW b, b = WithEntry(a, q, ports, room),
         NEW x, x = FilterOf(b.r, q, ports)
  PROVE  Rolled(r, b, Hs, Ts, Cs, Es, Hm, Tm, Cs \cup ClassUses(f, x), Es \cup EntryUses(f, x))
<1> DEFINE p == a.r
           d == DropFilter(p, y)
           Cm == Cs \cup ClassUses(f, y)
           Em == Es \cup EntryUses(f, y)
<1>1. a \in Attempts /\ SameIds(r, p, Hs)
  BY DEF Rolled
<1>2. CASE ~a.ok \/ room
  <2>1. b = a
    BY <1>2 DEF WithEntry
  <2>2. x = y
    BY <2>1
  <2> QED BY <2>1, <2>2
<1>3. CASE a.ok /\ ~room
  <2>1. b = Failed(a, d)
    BY <1>3 DEF WithEntry
  <2>2. Tabled(p, Hm, Tm, Cm, Em)
    BY <1>3 DEF Rolled
  <2>3. Wanted(y) /\ y.ports = ports /\ y.udfs = q.udfs /\ y.tpid = q.tpid
    BY FilterIs
  <2>4. TagUses(f, y) = TU(f, y.ports, y.tpid)
    BY DEF TagUses, TU
  <2>5. /\ Hm \ CU(f, y.udfs) = Hs /\ Tm \ TagUses(f, y) = Ts
        /\ Cm \ ClassUses(f, y) = Cs /\ Em \ EntryUses(f, y) = Es
    BY <2>3, <2>4, UsesAreOwn
  <2>6. FilterUses(f, y, Hm, Tm, Cm, Em)
    <3>1. NoneOf(f, Em \ EntryUses(f, y))
      BY <2>5 DEF Fresh
    <3>2. CU(f, y.udfs) \subseteq Hm /\ TagUses(f, y) \subseteq Tm
      BY <2>3, <2>4
    <3>3. ClassUses(f, y) \subseteq Cm /\ EntryUses(f, y) \subseteq Em
      OBVIOUS
    <3> QED BY <3>1, <3>2, <3>3 DEF FilterUses, VfpUses
  <2>7. d = DropFilter(p, y)
    OBVIOUS
  <2> HIDE DEF p, d, Cm, Em
  <2>8. /\ Tabled(d, Hm \ CU(f, y.udfs), Tm \ TagUses(f, y), Cm \ ClassUses(f, y), Em \ EntryUses(f, y))
        /\ SameIds(p, d, Hm \ CU(f, y.udfs))
    BY <2>2, <2>3, <2>6, <2>7, FilterDropped
  <2>9. Tabled(d, Hs, Ts, Cs, Es) /\ SameIds(p, d, Hs)
    BY <2>5, <2>8
  <2>10. SameIds(r, d, Hs) /\ d \in Resources
    BY <1>1, <2>9, SameIdsOnward DEF Tabled
  <2>11. Failed(a, d) \in Attempts /\ Failed(a, d).r = d /\ Failed(a, d).ok = FALSE
    BY <1>1, <2>10, FailedIs
  <2> QED BY <2>1, <2>9, <2>10, <2>11 DEF Rolled
<1>4. a.ok \in BOOLEAN
  BY <1>1 DEF Attempts
<1> QED BY <1>2, <1>3, <1>4

LEMMA FilterHeld ==
  ASSUME NEW r, NEW Hs, NEW Ts, NEW Cs, NEW Es, Tabled(r, Hs, Ts, Cs, Es),
         NEW f, Fresh(f, Hs, Ts, Cs, Es),
         NEW q, Qualified(q), NEW ports \in Seq(Pids), NEW room \in BOOLEAN,
         NEW b, b = HoldFilter(r, q, ports, room), NEW x, x = FilterOf(b.r, q, ports)
  PROVE  Rolled(r, b, Hs, Ts, Cs, Es, Hs \cup CU(f, x.udfs), Ts \cup TagUses(f, x),
                Cs \cup ClassUses(f, x), Es \cup EntryUses(f, x))
<1> DEFINE a1 == HoldUdfs(r, q.udfs)
           a2 == WithTpids(a1, q, ports)
           a3 == WithVfp(a2, q, ports)
           y == FilterOf(a3.r, q, ports)
           Hm == Hs \cup CU(f, q.udfs)
           Tm == Ts \cup TU(f, ports, q.tpid)
           us == q.udfs
<1>1. b = WithEntry(a3, q, ports, room)
  BY DEF HoldFilter
<1>2. Rolled(r, a1, Hs, Ts, Cs, Es, Hm, Ts, Cs, Es)
  <2>1. us \in Seq(Udfs) /\ Absent(f, Hs) /\ a1 = HoldUdfs(r, us)
    BY DEF Qualified, Fresh
  <2>2. Hm = Hs \cup CU(f, us)
    OBVIOUS
  <2> HIDE DEF us, a1, Hm
  <2>3. Rolled(r, a1, Hs, Ts, Cs, Es, Hs \cup CU(f, us), Ts, Cs, Es)
    BY <2>1, UdfsHeld
  <2> QED BY <2>2, <2>3
<1>3. Hm = Hs \cup CU(f, q.udfs) /\ Tm = Ts \cup TU(f, ports, q.tpid)
  OBVIOUS
<1> HIDE DEF a1, Hm, Tm
<1>4. a2 = WithTpids(a1, q, ports)
  OBVIOUS
<1> HIDE DEF a2
<1>5. Rolled(r, a2, Hs, Ts, Cs, Es, Hm, Tm, Cs, Es)
  BY <1>2, <1>3, <1>4, TpidsHeld
<1>6. a3 = WithVfp(a2, q, ports)
  OBVIOUS
<1> HIDE DEF a3
<1>7. y = FilterOf(a3.r, q, ports)
  OBVIOUS
<1> HIDE DEF y
<1>8. Rolled(r, a3, Hs, Ts, Cs, Es, Hm, Tm, Cs \cup ClassUses(f, y), Es \cup EntryUses(f, y))
  BY <1>3, <1>5, <1>6, <1>7, VfpMade
<1>9. Rolled(r, b, Hs, Ts, Cs, Es, Hm, Tm, Cs \cup ClassUses(f, x), Es \cup EntryUses(f, x))
  BY <1>1, <1>3, <1>7, <1>8, EntryMade
<1>10. Hm = Hs \cup CU(f, x.udfs) /\ Tm = Ts \cup TagUses(f, x)
  <2>1. x.ports = ports /\ x.udfs = q.udfs /\ x.tpid = q.tpid
    BY FilterIs
  <2> QED BY <1>3, <2>1 DEF TagUses, TU
<1> QED BY <1>9, <1>10
-----------------------------------------------------------------------------
(* The users of a state, flow by flow.                                     *)

Right(r, x) == Wanted(x) /\ x.places = Places(r, x.udfs) /\ x.class = ClassOf(r, x.rules)

\* What one flow's filter uses.
LEMMA UsesAreOnes ==
  ASSUME NEW f, NEW x, Wanted(x)
  PROVE  /\ \A h \in CU(f, x.udfs) : h[1][1][1] = f
         /\ \A h \in TagUses(f, x) \cup ClassUses(f, x) \cup EntryUses(f, x) : h[1][1] = f
<1>0. Len(x.udfs) \in Nat /\ x.ports \in Seq(Pids) /\ x.tpid \in Tpids \cup {None} /\ Len(x.ports) \in Nat
  BY DEF Wanted
<1>1. \A h \in CU(f, x.udfs) : h[1][1][1] = f
  <2>1. AllOf(f, CU(f, x.udfs))
    BY <1>0, ChunkUsesGrow DEF CU
  <2> QED BY <2>1 DEF AllOf
<1>2. \A h \in TagUses(f, x) : h[1][1] = f
  <2> DEFINE ks == TagsOf(x.ports, x.tpid)
  <2>1. ks \in TagKeys
    BY <1>0, TagsOfFields
  <2> HIDE DEF ks
  <2>2. Len(ks) \in Nat
    BY <2>1 DEF TagKeys
  <2>3. \A h \in Shares(f, ks, Len(ks)) : h[1][1] = f
    BY <2>2, SharesGrow
  <2> QED BY <2>3 DEF TagUses, ks
<1>3. \A h \in ClassUses(f, x) : h[1][1] = f
  BY DEF ClassUses
<1>4. \A h \in EntryUses(f, x) : h[1][1] = f
  <2> DEFINE ks == EntryKeys(x.ports, x.class)
             n == Len(x.ports)
  <2>2. n \in Nat
    BY <1>0
  <2> HIDE DEF ks, n
  <2>1. \A h \in Shares(f, ks, n) : h[1][1] = f
    BY <2>2, SharesGrow
  <2> QED BY <2>1 DEF EntryUses, ks, n
<1> QED BY <1>1, <1>2, <1>3, <1>4

LEMMA ReservedAreNones ==
  \A h \in ReservedUses : h[1][1] = None
<1> DEFINE ks == TagsOf(SetToSeq(Pids), Reserved)
           ports == SetToSeq(Pids)
<1>1. ports \in Seq(Pids) /\ Reserved \in Tpids \cup {None}
  BY EveryPid
<1>2. ks = TagsOf(ports, Reserved)
  OBVIOUS
<1> HIDE DEF ks, ports
<1>3. ks \in TagKeys
  BY <1>1, <1>2, TagsOfFields
<1>4. Len(ks) \in Nat
  BY <1>3 DEF TagKeys
<1>5. \A h \in Shares(None, ks, Len(ks)) : h[1][1] = None
  BY <1>4, SharesGrow
<1> QED BY <1>5 DEF ReservedUses, ks

\* A flow without a filter uses nothing.
LEMMA NothingYet ==
  ASSUME NEW s, \A g \in Installed(s) : Wanted(s.flow[g].rx), NEW f \in Flows, f \notin Installed(s)
  PROVE  Fresh(f, ChunkUsers(s), TagUsers(s), ClassUsers(s), EntryUsers(s))
<1>1. ASSUME NEW h \in ChunkUsers(s) PROVE h[1][1][1] # f
  <2>1. PICK g \in Installed(s) : h \in CU(g, s.flow[g].rx.udfs)
    BY DEF ChunkUsers, CU
  <2> DEFINE x == s.flow[g].rx
  <2>2. Wanted(x) /\ h \in CU(g, x.udfs)
    BY <2>1
  <2> HIDE DEF x
  <2>3. h[1][1][1] = g
    BY <2>2, UsesAreOnes
  <2> QED BY <2>3
<1>2. ASSUME NEW h \in TagUsers(s) PROVE h[1][1] # f
  <2>1. CASE h \in ReservedUses
    BY <2>1, ReservedAreNones
  <2>2. CASE h \notin ReservedUses
    <3>1. PICK g \in Installed(s) : h \in TagUses(g, s.flow[g].rx)
      BY <2>2 DEF TagUsers
    <3> DEFINE x == s.flow[g].rx
    <3>2. Wanted(x) /\ h \in TagUses(g, x)
      BY <3>1
    <3> HIDE DEF x
    <3>3. h[1][1] = g
      BY <3>2, UsesAreOnes
    <3> QED BY <3>3
  <2> QED BY <2>1, <2>2
<1>3. ASSUME NEW h \in ClassUsers(s) \cup EntryUsers(s) PROVE h[1][1] # f
  <2>1. PICK g \in Installed(s) : h \in ClassUses(g, s.flow[g].rx) \cup EntryUses(g, s.flow[g].rx)
    BY DEF ClassUsers, EntryUsers
  <2> DEFINE x == s.flow[g].rx
  <2>2. Wanted(x) /\ h \in ClassUses(g, x) \cup EntryUses(g, x)
    BY <2>1
  <2> HIDE DEF x
  <2>3. h[1][1] = g
    BY <2>2, UsesAreOnes
  <2> QED BY <2>3
<1> QED BY <1>1, <1>2, <1>3 DEF Fresh, Absent, NoneOf

\* The filters of t and one of f.
Joins(t, s, f) ==
  /\ Installed(t) = Installed(s) \cup {f}
  /\ \A g \in Installed(s) : t.flow[g].rx = s.flow[g].rx

SameFilters(t, s) ==
  Installed(t) = Installed(s) /\ \A g \in Installed(s) : t.flow[g].rx = s.flow[g].rx

LEMMA UsersJoin ==
  ASSUME NEW t, NEW s, NEW f, f \notin Installed(s), Joins(t, s, f), NEW x, x = t.flow[f].rx
  PROVE  /\ ChunkUsers(t) = ChunkUsers(s) \cup CU(f, x.udfs)
         /\ TagUsers(t) = TagUsers(s) \cup TagUses(f, x)
         /\ ClassUsers(t) = ClassUsers(s) \cup ClassUses(f, x)
         /\ EntryUsers(t) = EntryUsers(s) \cup EntryUses(f, x)
<1>0. /\ Installed(t) = Installed(s) \cup {f}
      /\ \A g \in Installed(s) : t.flow[g].rx = s.flow[g].rx
  BY DEF Joins
<1>1. ChunkUsers(t) = ChunkUsers(s) \cup CU(f, x.udfs)
  <2> DEFINE U(g) == CU(g, t.flow[g].rx.udfs)
             W(g) == CU(g, s.flow[g].rx.udfs)
  <2>1. /\ ChunkUsers(t) = UNION {U(g) : g \in Installed(t)}
        /\ ChunkUsers(s) = UNION {W(g) : g \in Installed(s)}
        /\ U(f) = CU(f, x.udfs) /\ \A g \in Installed(s) : U(g) = W(g)
    BY <1>0 DEF ChunkUsers, CU
  <2> HIDE DEF U, W
  <2> QED BY <1>0, <2>1
<1>2. TagUsers(t) = TagUsers(s) \cup TagUses(f, x)
  <2> DEFINE U(g) == TagUses(g, t.flow[g].rx)
             W(g) == TagUses(g, s.flow[g].rx)
  <2>1. /\ TagUsers(t) = ReservedUses \cup UNION {U(g) : g \in Installed(t)}
        /\ TagUsers(s) = ReservedUses \cup UNION {W(g) : g \in Installed(s)}
        /\ U(f) = TagUses(f, x) /\ \A g \in Installed(s) : U(g) = W(g)
    BY <1>0 DEF TagUsers
  <2> HIDE DEF U, W
  <2> QED BY <1>0, <2>1
<1>3. ClassUsers(t) = ClassUsers(s) \cup ClassUses(f, x)
  <2> DEFINE U(g) == ClassUses(g, t.flow[g].rx)
             W(g) == ClassUses(g, s.flow[g].rx)
  <2>1. /\ ClassUsers(t) = UNION {U(g) : g \in Installed(t)}
        /\ ClassUsers(s) = UNION {W(g) : g \in Installed(s)}
        /\ U(f) = ClassUses(f, x) /\ \A g \in Installed(s) : U(g) = W(g)
    BY <1>0 DEF ClassUsers
  <2> HIDE DEF U, W
  <2> QED BY <1>0, <2>1
<1>4. EntryUsers(t) = EntryUsers(s) \cup EntryUses(f, x)
  <2> DEFINE U(g) == EntryUses(g, t.flow[g].rx)
             W(g) == EntryUses(g, s.flow[g].rx)
  <2>1. /\ EntryUsers(t) = UNION {U(g) : g \in Installed(t)}
        /\ EntryUsers(s) = UNION {W(g) : g \in Installed(s)}
        /\ U(f) = EntryUses(f, x) /\ \A g \in Installed(s) : U(g) = W(g)
    BY <1>0 DEF EntryUsers
  <2> HIDE DEF U, W
  <2> QED BY <1>0, <2>1
<1> QED BY <1>1, <1>2, <1>3, <1>4

LEMMA UsersStay ==
  ASSUME NEW t, NEW s, SameFilters(t, s)
  PROVE  /\ ChunkUsers(t) = ChunkUsers(s) /\ TagUsers(t) = TagUsers(s)
         /\ ClassUsers(t) = ClassUsers(s) /\ EntryUsers(t) = EntryUsers(s)
BY DEF SameFilters, ChunkUsers, TagUsers, ClassUsers, EntryUsers
-----------------------------------------------------------------------------
(* Calls keep the tables.                                                  *)

\* Tables that still have its windows and its class suit a filter.
Has(g, x, H, Cs) == CU(g, x.udfs) \subseteq H /\ ClassUses(g, x) \subseteq Cs

LEMMA RightStays ==
  ASSUME NEW r, NEW q, NEW Hs, NEW Ts, NEW Cs, NEW Es, Tabled(q, Hs, Ts, Cs, Es),
         NEW H, SameIds(r, q, H), NEW g, NEW x, Right(r, x), Has(g, x, H, Cs)
  PROVE  Right(q, x)
<1> DEFINE us == x.udfs
<1>1. us \in Seq(Udfs) /\ Within(g, us, H) /\ Wanted(x) /\ ClassUses(g, x) \subseteq Cs
  BY DEF Right, Wanted, CU, Within, Has
<1>2. x.places = Places(r, us) /\ x.class = ClassOf(r, x.rules)
  BY DEF Right
<1>3. Places(q, us) = Places(r, us)
  <2> HIDE DEF us
  <2>1. SamePlaces(r, q, us)
    BY <1>1, PlacesStay
  <2> QED BY <2>1 DEF SamePlaces
<1>4. x.class = ClassOf(q, x.rules)
  <2>1. CASE x.rules = None
    BY <1>2, <2>1 DEF ClassOf
  <2>2. CASE x.rules # None
    <3> DEFINE h == <<<<g, x.class>>, x.rules>>
    <3>1. h \in Cs /\ q \in Resources /\ Classified(q, Cs, Es)
      BY <1>1, <2>2 DEF ClassUses, Tabled
    <3>2. h[2] = x.rules /\ h[1][2] = x.class
      OBVIOUS
    <3> HIDE DEF h
    <3>3. q.class.id[h[2]] = h[1][2]
      BY <3>1, ClassOfUse
    <3> QED BY <2>2, <3>2, <3>3 DEF ClassOf
  <2> QED BY <2>1, <2>2
<1> QED BY <1>1, <1>2, <1>3, <1>4 DEF Right

LEMMA TablesAre ==
  ASSUME NEW s
  PROVE  TablesInv(s) <=> /\ Tabled(s.res, ChunkUsers(s), TagUsers(s), ClassUsers(s), EntryUsers(s))
                          /\ \A f \in Installed(s) : Right(s.res, s.flow[f].rx)
BY DEF TablesInv, Right

\* The uses of a filter installed.
LEMMA UsesOfInstalled ==
  ASSUME NEW s, NEW g \in Installed(s), NEW x, x = s.flow[g].rx
  PROVE  /\ CU(g, x.udfs) \subseteq ChunkUsers(s) /\ ClassUses(g, x) \subseteq ClassUsers(s)
         /\ TagUses(g, x) \subseteq TagUsers(s) /\ EntryUses(g, x) \subseteq EntryUsers(s)
BY DEF CU, ChunkUsers, ClassUsers, TagUsers, EntryUsers

\* New tables for the filters of s.
LEMMA FiltersStay ==
  ASSUME NEW s, TablesInv(s), NEW q, NEW Hs, NEW Ts, NEW Cs, NEW Es, Tabled(q, Hs, Ts, Cs, Es),
         SameIds(s.res, q, ChunkUsers(s)), ClassUsers(s) \subseteq Cs,
         NEW G, G \subseteq Installed(s)
  PROVE  \A g \in G : Right(q, s.flow[g].rx)
<1> SUFFICES ASSUME NEW g \in G PROVE Right(q, s.flow[g].rx)
  OBVIOUS
<1> DEFINE x == s.flow[g].rx
           H == ChunkUsers(s)
           r == s.res
<1>1. Right(r, x) /\ SameIds(r, q, H)
  BY TablesAre
<1>2. Has(g, x, H, Cs)
  BY UsesOfInstalled DEF Has
<1> HIDE DEF x, H, r
<1>3. Right(q, x)
  BY <1>1, <1>2, RightStays
<1> QED BY <1>3 DEF x

\* Nothing happened to the filters.
LEMMA TablesSame ==
  ASSUME NEW s, TablesInv(s), NEW t, t.res = s.res, SameFilters(t, s)
  PROVE  TablesInv(t)
<1>1. /\ Tabled(t.res, ChunkUsers(t), TagUsers(t), ClassUsers(t), EntryUsers(t))
      /\ \A f \in Installed(s) : Right(s.res, s.flow[f].rx)
  BY TablesAre, UsersStay
<1>2. \A f \in Installed(t) : Right(t.res, t.flow[f].rx)
  BY <1>1 DEF SameFilters
<1> QED BY <1>1, <1>2, TablesAre

\* A filter less.
LEMMA LessFilter ==
  ASSUME NEW s, TablesInv(s), NEW f \in Installed(s), NEW t, f \notin Installed(t), Joins(s, t, f),
         t.res = DropFilter(s.res, s.flow[f].rx)
  PROVE  TablesInv(t)
<1> DEFINE x == s.flow[f].rx
           r == s.res
           q == t.res
           Hs == ChunkUsers(t)
           Ts == TagUsers(t)
           Cs == ClassUsers(t)
           Es == EntryUsers(t)
           Hm == ChunkUsers(s)
           Tm == TagUsers(s)
           Cm == ClassUsers(s)
           Em == EntryUsers(s)
<1>1. Tabled(r, Hm, Tm, Cm, Em) /\ Right(r, x) /\ \A g \in Installed(s) : Wanted(s.flow[g].rx)
  BY TablesAre DEF Right
<1>2. /\ Installed(s) = Installed(t) \cup {f} /\ Installed(t) \subseteq Flows /\ f \in Flows
      /\ \A g \in Installed(t) : t.flow[g].rx = s.flow[g].rx
  BY DEF Joins, Installed
<1>3. /\ Hm = Hs \cup CU(f, x.udfs) /\ Tm = Ts \cup TagUses(f, x)
      /\ Cm = Cs \cup ClassUses(f, x) /\ Em = Es \cup EntryUses(f, x)
  BY UsersJoin
<1>4. Fresh(f, Hs, Ts, Cs, Es)
  <2>1. \A g \in Installed(t) : Wanted(t.flow[g].rx)
    BY <1>1, <1>2
  <2> QED BY <1>2, <2>1, NothingYet
<1>5. q = DropFilter(r, x)
  OBVIOUS
<1>6. Wanted(x) /\ TagUses(f, x) = TU(f, x.ports, x.tpid)
  BY <1>1 DEF Right, TagUses, TU
<1> HIDE DEF x, r, q, Hs, Ts, Cs, Es, Hm, Tm, Cm, Em
<1>7. /\ Hm \ CU(f, x.udfs) = Hs /\ Tm \ TagUses(f, x) = Ts
      /\ Cm \ ClassUses(f, x) = Cs /\ Em \ EntryUses(f, x) = Es
  BY <1>3, <1>4, <1>6, UsesAreOwn
<1>8. FilterUses(f, x, Hm, Tm, Cm, Em)
  <2>1. NoneOf(f, Em \ EntryUses(f, x))
    BY <1>4, <1>7 DEF Fresh
  <2> QED BY <1>3, <2>1 DEF FilterUses, VfpUses
<1>9. /\ Tabled(q, Hm \ CU(f, x.udfs), Tm \ TagUses(f, x), Cm \ ClassUses(f, x), Em \ EntryUses(f, x))
      /\ SameIds(r, q, Hm \ CU(f, x.udfs))
  BY <1>1, <1>5, <1>6, <1>8, FilterDropped
<1>10. Tabled(q, Hs, Ts, Cs, Es) /\ SameIds(r, q, Hs)
  BY <1>7, <1>9
<1>11. ASSUME NEW g \in Installed(t) PROVE Right(q, t.flow[g].rx)
  <2> DEFINE y == t.flow[g].rx
  <2>1. Right(r, y)
    <3>1. g \in Installed(s) /\ y = s.flow[g].rx
      BY <1>2
    <3> QED BY <3>1, TablesAre DEF r
  <2>2. Has(g, y, Hs, Cs)
    BY UsesOfInstalled DEF Hs, Cs, Has
  <2> HIDE DEF y
  <2>3. Right(q, y)
    BY <1>10, <2>1, <2>2, RightStays
  <2> QED BY <2>3 DEF y
<1>12. /\ Tabled(t.res, ChunkUsers(t), TagUsers(t), ClassUsers(t), EntryUsers(t))
       /\ \A g \in Installed(t) : Right(t.res, t.flow[g].rx)
  BY <1>10, <1>11 DEF q, Hs, Ts, Cs, Es
<1> QED BY <1>12, TablesAre

\* f has the filter x if b succeeded, and else the filters are as they were.
Outcome(s, t, f, b, x) ==
  IF b.ok THEN Joins(t, s, f) /\ t.flow[f].rx = x ELSE SameFilters(t, s)

\* A filter more, or one that could not be had.
LEMMA MoreFilter ==
  ASSUME NEW s, TablesInv(s), NEW f \in Flows, f \notin Installed(s),
         NEW q, Qualified(q), NEW ports \in Seq(Pids), NEW room \in BOOLEAN,
         NEW b, b = HoldFilter(s.res, q, ports, room), NEW x, x = FilterOf(b.r, q, ports),
         NEW t, t.res = b.r, Outcome(s, t, f, b, x)
  PROVE  TablesInv(t)
<1> DEFINE r == s.res
           Hs == ChunkUsers(s)
           Ts == TagUsers(s)
           Cs == ClassUsers(s)
           Es == EntryUsers(s)
<1>1. Tabled(r, Hs, Ts, Cs, Es) /\ \A g \in Installed(s) : Right(r, s.flow[g].rx)
  BY TablesAre
<1>2. Fresh(f, Hs, Ts, Cs, Es)
  <2>1. \A g \in Installed(s) : Wanted(s.flow[g].rx)
    BY <1>1 DEF Right
  <2> QED BY <2>1, NothingYet
<1>3. b = HoldFilter(r, q, ports, room)
  OBVIOUS
<1> HIDE DEF r, Hs, Ts, Cs, Es
<1>4. Rolled(r, b, Hs, Ts, Cs, Es, Hs \cup CU(f, x.udfs), Ts \cup TagUses(f, x),
             Cs \cup ClassUses(f, x), Es \cup EntryUses(f, x))
  BY <1>1, <1>2, <1>3, FilterHeld
<1>5. b.ok \in BOOLEAN /\ SameIds(r, b.r, Hs)
  BY <1>4 DEF Rolled, Attempts
<1> DEFINE p == b.r
<1>6. CASE b.ok
  <2> DEFINE Hm == Hs \cup CU(f, x.udfs)
             Tm == Ts \cup TagUses(f, x)
             Cm == Cs \cup ClassUses(f, x)
             Em == Es \cup EntryUses(f, x)
  <2>1. Tabled(p, Hm, Tm, Cm, Em) /\ Joins(t, s, f) /\ t.flow[f].rx = x
    BY <1>4, <1>6 DEF Rolled, Outcome
  <2>2. /\ ChunkUsers(t) = Hm /\ TagUsers(t) = Tm /\ ClassUsers(t) = Cm /\ EntryUsers(t) = Em
    BY <2>1, UsersJoin DEF Hs, Ts, Cs, Es
  <2>3. Cs \subseteq Cm
    OBVIOUS
  <2> HIDE DEF Hm, Tm, Cm, Em, p
  <2>4. ClassUsers(s) \subseteq Cm /\ SameIds(s.res, p, ChunkUsers(s))
    BY <1>5, <2>3 DEF Hs, Cs, r, p
  <2>5. \A g \in Installed(s) : Right(p, s.flow[g].rx)
    <3> DEFINE G == Installed(s)
    <3>1. G \subseteq Installed(s)
      OBVIOUS
    <3> HIDE DEF G
    <3>2. \A g \in G : Right(p, s.flow[g].rx)
      BY <2>1, <2>4, <3>1, FiltersStay
    <3> QED BY <3>2 DEF G
  <2>6. Right(p, x)
    <3>1. /\ Wanted(x) /\ x.udfs = q.udfs /\ x.rules = q.rules
          /\ x.class = ClassOf(p, q.rules) /\ x.places = Places(p, q.udfs)
      BY FilterIs DEF p
    <3> QED BY <3>1 DEF Right
  <2>7. \A g \in Installed(t) : Right(p, t.flow[g].rx)
    BY <2>1, <2>5, <2>6 DEF Joins
  <2>8. Tabled(t.res, ChunkUsers(t), TagUsers(t), ClassUsers(t), EntryUsers(t))
    BY <2>1, <2>2 DEF p
  <2> QED BY <2>7, <2>8, TablesAre DEF p
<1>7. CASE ~b.ok
  <2>1. Tabled(p, Hs, Ts, Cs, Es) /\ SameFilters(t, s)
    BY <1>4, <1>7 DEF Rolled, Outcome
  <2>2. /\ ChunkUsers(t) = Hs /\ TagUsers(t) = Ts /\ ClassUsers(t) = Cs /\ EntryUsers(t) = Es
    BY <2>1, UsersStay DEF Hs, Ts, Cs, Es
  <2> HIDE DEF p
  <2>3. ClassUsers(s) \subseteq Cs /\ SameIds(s.res, p, ChunkUsers(s))
    BY <1>5 DEF Hs, Cs, r, p
  <2>4. \A g \in Installed(s) : Right(p, s.flow[g].rx)
    <3> DEFINE G == Installed(s)
    <3>1. G \subseteq Installed(s)
      OBVIOUS
    <3> HIDE DEF G
    <3>2. \A g \in G : Right(p, s.flow[g].rx)
      BY <2>1, <2>3, <3>1, FiltersStay
    <3> QED BY <3>2 DEF G
  <2>5. \A g \in Installed(t) : Right(p, t.flow[g].rx)
    BY <2>1, <2>4 DEF SameFilters
  <2>6. Tabled(t.res, ChunkUsers(t), TagUsers(t), ClassUsers(t), EntryUsers(t))
    BY <2>1, <2>2 DEF p
  <2> QED BY <2>5, <2>6, TablesAre DEF p
<1> QED BY <1>5, <1>6, <1>7
-----------------------------------------------------------------------------
(* Every call keeps the tables.                                            *)

LEMMA ReleaseIs ==
  ASSUME NEW s, Sound(s), NEW f \in Flows
  PROVE  /\ f \notin Installed(Release(s, f))
         /\ s.flow[f].is_started => Joins(s, Release(s, f), f)
         /\ \A g \in Installed(Release(s, f)) : g \in Installed(s) /\ Release(s, f).flow[g] = s.flow[g]
<1> DEFINE t == Release(s, f)
<1>1. ~t.flow[f].is_started /\ \A g \in Flows \ {f} : t.flow[g] = s.flow[g]
  BY ReleaseSound
<1> HIDE DEF t
<1>2. f \notin Installed(t)
  BY <1>1 DEF Installed
<1>3. \A g \in Installed(t) : g \in Installed(s) /\ t.flow[g] = s.flow[g]
  BY <1>1, <1>2 DEF Installed
<1>4. s.flow[f].is_started => Joins(s, t, f)
  <2> SUFFICES ASSUME s.flow[f].is_started PROVE Joins(s, t, f)
    OBVIOUS
  <2>1. Installed(s) = Installed(t) \cup {f}
    BY <1>1, <1>2 DEF Installed
  <2> QED BY <1>3, <2>1 DEF Joins
<1> QED BY <1>2, <1>3, <1>4 DEF t

\* ~RX and the pair callback.
LEMMA ReleaseTables ==
  ASSUME NEW s, Sound(s), TablesInv(s), NEW f \in Flows
  PROVE  TablesInv(Release(s, f))
<1> DEFINE t == Release(s, f)
<1>1. CASE ~s.flow[f].is_started
  BY <1>1 DEF Release
<1>2. CASE s.flow[f].is_started
  <2>1. t.res = DropFilter(s.res, s.flow[f].rx)
    BY <1>2 DEF Release
  <2>2. f \notin Installed(t) /\ Joins(s, t, f) /\ f \in Installed(s)
    BY <1>2, ReleaseIs DEF Installed
  <2> HIDE DEF t
  <2>3. TablesInv(t)
    BY <2>1, <2>2, LessFilter
  <2> QED BY <2>3 DEF t
<1> QED BY <1>1, <1>2

\* What a call leaves behind is what the invariant says.
LEMMA TablesClosing ==
  ASSUME NEW t, Becomes(t), TablesInv(t)
  PROVE  FilterInv'
<1>1. Now'.res = t.res /\ Now'.flow = t.flow
  BY DEF Now, Becomes
<1>2. SameFilters(Now', t)
  BY <1>1 DEF SameFilters, Installed
<1>3. TablesInv(Now')
  <2> DEFINE n == Now'
  <2>1. n.res = t.res /\ SameFilters(n, t)
    BY <1>1, <1>2
  <2> HIDE DEF n
  <2>2. TablesInv(n)
    BY <2>1, TablesSame
  <2> QED BY <2>2 DEF n
<1> QED BY <1>3 DEF FilterInv

LEMMA StopTables ==
  ASSUME OwnInv, FilterInv, NEW f \in Flows, Stop(f)
  PROVE  FilterInv'
<1> DEFINE s == Now
           t == Release(Now, f)
<1>1. Sound(s) /\ TablesInv(s) /\ Becomes(t) /\ t = Release(s, f)
  BY NowIs DEF FilterInv, Stop
<1> HIDE DEF s, t
<1>2. TablesInv(t)
  BY <1>1, ReleaseTables
<1> QED BY <1>1, <1>2, TablesClosing

LEMMA DestroyTables ==
  ASSUME OwnInv, FilterInv, NEW f \in Flows, Destroy(f)
  PROVE  FilterInv'
<1> DEFINE s == Release(Now, f)
           t == [s EXCEPT !.flow[f] = NewFlow]
           n == Now
<1>1. Sound(n) /\ TablesInv(n) /\ s = Release(n, f) /\ Becomes(t)
  BY NowIs DEF FilterInv, Destroy
<1> HIDE DEF n, s
<1>2. TablesInv(s) /\ Sound(s) /\ ~s.flow[f].is_started
  BY <1>1, ReleaseTables, ReleaseSound
<1>3. /\ s = [flow |-> s.flow, entry |-> s.entry, cpu |-> s.cpu, res |-> s.res,
              order |-> s.order, missed |-> s.missed]
      /\ s.flow = [g \in Flows |-> s.flow[g]]
  BY <1>2 DEF Sound
<1>4. t.res = s.res /\ t.flow = [s.flow EXCEPT ![f] = NewFlow]
  BY <1>3
<1> HIDE DEF t
<1>5. SameFilters(t, s)
  <2>1. ~NewFlow.is_started
    BY DEF NewFlow
  <2>2. \A g \in Flows : IF g = f THEN ~t.flow[g].is_started ELSE t.flow[g] = s.flow[g]
    BY <1>3, <1>4, <2>1
  <2> QED BY <1>2, <2>2 DEF SameFilters, Installed
<1>6. TablesInv(t)
  BY <1>2, <1>4, <1>5, TablesSame
<1> QED BY <1>1, <1>6, TablesClosing

LEMMA StartTables ==
  ASSUME OwnInv, FilterInv, NEW f \in Flows, NEW q \in use.quals, NEW room \in BOOLEAN, Start(f, q, room)
  PROVE  FilterInv'
<1> DEFINE n == Now
           s == Release(Now, f)
           ports == extract_ports(q.in_ports)
           b == HoldFilter(s.res, q, ports, room)
           x == FilterOf(b.r, q, ports)
           m == Filters(s.flow[f], x)
           t == [s EXCEPT !.res = b.r, !.order = Append(@, f), !.flow[f] = [@ EXCEPT !.is_started = TRUE, !.rx = x]]
           u == [s EXCEPT !.res = b.r]
<1>1. Sound(n) /\ TablesInv(n) /\ s = Release(n, f) /\ front \in [Ports -> Pids]
  BY NowIs DEF FilterInv
<1>2. IF b.ok THEN Becomes(t) ELSE Becomes(u)
  BY DEF Start
<1>3. q.in_ports \subseteq Ports /\ Qualified(q)
  BY DEF OwnInv, Qualified
<1>4. ports \in Seq(Pids)
  <2>1. ports = PortsOf(front, q.in_ports)
    BY DEF extract_ports, PortsOf
  <2> QED BY <1>1, <1>3, <2>1, ExtractedPorts
<1> HIDE DEF n, s, ports
<1>5. TablesInv(s) /\ Sound(s) /\ ~s.flow[f].is_started
  BY <1>1, ReleaseTables, ReleaseSound
<1>6. b = HoldFilter(s.res, q, ports, room) /\ x = FilterOf(b.r, q, ports)
  OBVIOUS
<1> HIDE DEF b, x
<1>7. /\ s = [flow |-> s.flow, entry |-> s.entry, cpu |-> s.cpu, res |-> s.res,
              order |-> s.order, missed |-> s.missed]
      /\ s.flow = [g \in Flows |-> s.flow[g]]
  BY <1>5 DEF Sound
<1>8. f \notin Installed(s)
  BY <1>5 DEF Installed
<1>9. CASE b.ok
  <2>1. t.res = b.r /\ t.flow = [s.flow EXCEPT ![f] = m]
    BY <1>7 DEF Filters
  <2>2. m.is_started /\ m.rx = x
    <3>1. Coherent(s.flow[f], s.entry[f])
      BY <1>5 DEF Sound
    <3> DEFINE k == s.flow[f]
    <3>2. k \in [is_started : BOOLEAN, is_snooping : BOOLEAN, rx : {k.rx},
                 cpu_rx : Queues \cup {NoQ}, snoop_pkts : Seq(Pids), max_snoop_pkt : Nat]
      BY <3>1 DEF Coherent
    <3> HIDE DEF k
    <3>3. Filters(k, x).is_started /\ Filters(k, x).rx = x
      BY ONLY <3>2 DEF Filters
    <3> QED BY <3>3 DEF k
  <2> HIDE DEF m, t
  <2>3. t.flow[f] = m /\ \A g \in Flows \ {f} : t.flow[g] = s.flow[g]
    BY <1>7, <2>1
  <2>4. Joins(t, s, f) /\ t.flow[f].rx = x
    <3>1. Installed(t) = Installed(s) \cup {f}
      BY <2>2, <2>3 DEF Installed
    <3>2. \A g \in Installed(s) : t.flow[g].rx = s.flow[g].rx
      BY <1>8, <2>3 DEF Installed
    <3> QED BY <2>2, <2>3, <3>1, <3>2 DEF Joins
  <2>7. Outcome(s, t, f, b, x)
    BY <1>9, <2>4 DEF Outcome
  <2>5. TablesInv(t)
    BY <1>3, <1>4, <1>5, <1>6, <1>8, <2>1, <2>7, MoreFilter
  <2>6. Becomes(t)
    BY <1>2, <1>9
  <2> QED BY <2>5, <2>6, TablesClosing
<1>10. CASE ~b.ok
  <2>1. u.res = b.r /\ u.flow = s.flow
    BY <1>7
  <2>2. Becomes(u)
    BY <1>2, <1>10
  <2> HIDE DEF u
  <2>3. SameFilters(u, s)
    BY <2>1 DEF SameFilters, Installed
  <2>5. Outcome(s, u, f, b, x)
    BY <1>10, <2>3 DEF Outcome
  <2>4. TablesInv(u)
    BY <1>3, <1>4, <1>5, <1>6, <1>8, <2>1, <2>5, MoreFilter
  <2> QED BY <2>2, <2>4, TablesClosing
<1> QED BY <1>9, <1>10
-----------------------------------------------------------------------------
(* Steps that leave the filters alone.                                     *)

MembersStay ==
  /\ res' = res /\ order' = order /\ missed' = missed
  /\ \A f \in Flows : flow'[f].is_started = flow[f].is_started /\ flow'[f].rx = flow[f].rx

LEMMA OneStays ==
  ASSUME flow = [g \in Flows |-> flow[g]], NEW f \in Flows, NEW m, flow' = [flow EXCEPT ![f] = m],
         m.is_started = flow[f].is_started, m.rx = flow[f].rx, UNCHANGED <<res, order, missed>>
  PROVE  MembersStay
<1>1. \A g \in Flows : flow'[g] = IF g = f THEN m ELSE flow[g]
  OBVIOUS
<1> QED BY <1>1 DEF MembersStay

LEMMA SnoopStartStays ==
  ASSUME OwnInv, NEW f \in Flows, NEW n, NEW room \in BOOLEAN, SnoopStart(f, n, room)
  PROVE  MembersStay
<1> DEFINE k == flow[f]
           q == C!Chosen(cpu, Elements(flow[f].rx.ports))
           m == Asks(k, n)
           u == Snoops(k, n, q, room)
<1>1. k \in [is_started : BOOLEAN, is_snooping : BOOLEAN, rx : {k.rx},
             cpu_rx : Queues \cup {NoQ}, snoop_pkts : Seq(Pids), max_snoop_pkt : Nat]
  BY MemberNow
<1>2. flow = [g \in Flows |-> flow[g]]
  BY NowIs DEF Sound
<1>3. /\ UNCHANGED <<res, order, missed>>
      /\ flow' = [flow EXCEPT ![f] = m] \/ flow' = [flow EXCEPT ![f] = u]
  BY DEF SnoopStart, Asks, Snoops
<1> HIDE DEF q
<1>4. /\ m.is_started = k.is_started /\ m.rx = k.rx
      /\ u.is_started = k.is_started /\ u.rx = k.rx
  <2> HIDE DEF k
  <2> QED BY ONLY <1>1 DEF Asks, Snoops
<1> HIDE DEF m, u
<1> QED BY <1>2, <1>3, <1>4, OneStays

LEMMA SnoopStopStays ==
  ASSUME OwnInv, NEW f \in Flows, SnoopStop(f)
  PROVE  MembersStay
<1> DEFINE k == flow[f]
           m == Quiet(k)
<1>1. k \in [is_started : BOOLEAN, is_snooping : BOOLEAN, rx : {k.rx},
             cpu_rx : Queues \cup {NoQ}, snoop_pkts : Seq(Pids), max_snoop_pkt : Nat]
  BY MemberNow
<1>2. flow = [g \in Flows |-> flow[g]]
  BY NowIs DEF Sound
<1>3. UNCHANGED <<res, order, missed>> /\ flow' = [flow EXCEPT ![f] = m]
  <2>1. flow' = [flow EXCEPT ![f].cpu_rx = NoQ, ![f].is_snooping = FALSE] /\ UNCHANGED <<res, order, missed>>
    BY DEF SnoopStop
  <2> QED BY <1>2, <2>1 DEF Quiet
<1>4. m.is_started = k.is_started /\ m.rx = k.rx
  <2> HIDE DEF k
  <2> QED BY ONLY <1>1 DEF Quiet
<1> HIDE DEF m
<1> QED BY <1>2, <1>3, <1>4, OneStays

LEMMA KeepsStays ==
  ASSUME OwnInv, NEW f \in Flows, NEW p
  PROVE  /\ Keeps(flow[f], p).is_started = flow[f].is_started /\ Keeps(flow[f], p).rx = flow[f].rx
         /\ Kept(flow[f], p).is_started = flow[f].is_started /\ Kept(flow[f], p).rx = flow[f].rx
<1> DEFINE k == flow[f]
<1>1. k \in [is_started : BOOLEAN, is_snooping : BOOLEAN, rx : {k.rx},
             cpu_rx : Queues \cup {NoQ}, snoop_pkts : Seq(Pids), max_snoop_pkt : Nat]
  BY MemberNow
<1> HIDE DEF k
<1>2. \A a : Keeps(k, a).is_started = k.is_started /\ Keeps(k, a).rx = k.rx
  BY ONLY <1>1 DEF Keeps
<1>3. Kept(k, p) = k \/ Kept(k, p) = Keeps(k, Append(k.snoop_pkts, p))
  BY ONLY <1>1 DEF Kept, Keeps
<1> QED BY <1>2, <1>3 DEF k

LEMMA PacketsStay ==
  ASSUME OwnInv,
         \/ \E f \in Flows : Dump(f) \/ \E p \in Pids : Copy(f, p)
         \/ \E q \in Queues : Deliver(q)
         \/ UNCHANGED vars
  PROVE  MembersStay
<1>1. flow = [g \in Flows |-> flow[g]] /\ OwnInv
  BY NowIs DEF Sound
<1>2. ASSUME NEW f \in Flows, Dump(f) PROVE MembersStay
  <2>1. flow' = [flow EXCEPT ![f] = Keeps(flow[f], <<>>)] /\ UNCHANGED <<res, order, missed>>
    BY <1>1, <1>2 DEF Dump, Keeps
  <2> QED BY <1>1, <2>1, KeepsStays, OneStays
<1>3. ASSUME NEW f \in Flows, NEW p \in Pids, Copy(f, p) PROVE MembersStay
  BY <1>3 DEF Copy, MembersStay
<1>4. ASSUME NEW q \in Queues, Deliver(q) PROVE MembersStay
  <2> DEFINE p == Head(copies[q])
             f == cpu.dispatch[<<p, q>>]
             m == Kept(flow[f], p)
  <2>1. /\ flow' = (IF f = None THEN flow ELSE [flow EXCEPT ![f] = m])
        /\ UNCHANGED <<res, order, missed>> /\ copies[q] # <<>>
    BY <1>4 DEF Deliver
  <2>2. CASE f = None
    BY <2>1, <2>2 DEF MembersStay
  <2>3. CASE f # None
    <3>1. p \in Pids
      BY <2>1 DEF OwnInv
    <3>2. <<p, q>> \in C!Pairs /\ cpu \in C!CpuTypes
      BY <1>1, <3>1, NowIs DEF C!Pairs, Sound, Owners
    <3>3. f \in Flows
      BY <2>3, <3>2 DEF C!CpuTypes
    <3>4. flow' = [flow EXCEPT ![f] = m]
      BY <2>1, <2>3
    <3> HIDE DEF p, f
    <3> QED BY <1>1, <2>1, <3>3, <3>4, KeepsStays, OneStays
  <2> QED BY <2>2, <2>3
<1>5. CASE UNCHANGED vars
  BY <1>5 DEF vars, MembersStay
<1> QED BY <1>2, <1>3, <1>4, <1>5

LEMMA StayTables ==
  ASSUME OwnInv, FilterInv, MembersStay
  PROVE  FilterInv'
<1>1. Now'.res = Now.res /\ SameFilters(Now', Now)
  BY DEF Now, MembersStay, SameFilters, Installed
<1> DEFINE n == Now
           t == Now'
<1>2. t.res = n.res /\ SameFilters(t, n) /\ TablesInv(n)
  BY <1>1 DEF FilterInv
<1> HIDE DEF n, t
<1>3. TablesInv(t)
  BY <1>2, TablesSame
<1> QED BY <1>3 DEF t, FilterInv
-----------------------------------------------------------------------------
(* Pair changes.                                                           *)

\* g[i] is what there is after i callbacks, the latest bound first.
OneByOne(g, p, full) ==
  /\ g[0] = [s |-> Now, ok |-> TRUE]
  /\ \A i \in 1..Len(order) :
       /\ (Len(order) - i) + 1 \in 1..Len(order)
       /\ g[i] = Told(g[i - 1], order[(Len(order) - i) + 1], p, full)

LEMMA NotifiedSteps ==
  ASSUME OwnInv, NEW p, NEW full
  PROVE  /\ Len(order) \in Nat /\ DOMAIN order = 1..Len(order) /\ order \in Seq(Flows)
         /\ \E g : OneByOne(g, p, full) /\ Notified(p, full) = g[Len(order)].s
<1> DEFINE n == Len(order)
           o == Reverse(order)
<1>1. order \in Seq(Flows) /\ n \in Nat /\ DOMAIN order = 1..n
  <2>1. order \in Seq(Flows)
    BY NowIs DEF Sound, BoundOnes
  <2> QED BY <2>1
<1>2. PICK g : Steps(g, n, p, full) /\ Notified(p, full) = g[n].s
  BY <1>1, NotifiedIs
<1>3. \A i \in 1..n : o[i] = order[(n - i) + 1] /\ (n - i) + 1 \in 1..n
  <2> SUFFICES ASSUME NEW i \in 1..n PROVE o[i] = order[(n - i) + 1] /\ (n - i) + 1 \in 1..n
    OBVIOUS
  <2>1. o[i] = order[(n - i) + 1]
    BY DEF Reverse
  <2>2. (n - i) + 1 \in 1..n
    BY <1>1
  <2> QED BY <2>1, <2>2
<1>4. g = [i \in 0..n |-> IF i = 0 THEN [s |-> Now, ok |-> TRUE] ELSE Told(g[i - 1], o[i], p, full)]
  BY <1>2 DEF Steps
<1> HIDE DEF n, o
<1>5. g[0] = [s |-> Now, ok |-> TRUE]
  BY <1>1, <1>4
<1>6. \A i \in 1..n : g[i] = Told(g[i - 1], o[i], p, full)
  <2> SUFFICES ASSUME NEW i \in 1..n PROVE g[i] = Told(g[i - 1], o[i], p, full)
    OBVIOUS
  <2>1. i \in 0..n /\ i # 0
    BY <1>1
  <2> QED BY <1>4, <2>1
<1>7. \A i \in 1..n : /\ (n - i) + 1 \in 1..n
                      /\ g[i] = Told(g[i - 1], order[(n - i) + 1], p, full)
  BY <1>3, <1>6
<1>8. OneByOne(g, p, full)
  BY <1>5, <1>7 DEF OneByOne, n
<1> QED BY <1>1, <1>2, <1>8 DEF n

\* One of them.
LEMMA ToldTables ==
  ASSUME NEW a, Sound(a.s), TablesInv(a.s), NEW f \in Flows, NEW p, NEW full
  PROVE  Sound(Told(a, f, p, full).s) /\ TablesInv(Told(a, f, p, full).s)
<1> DEFINE t == Told(a, f, p, full)
           s == a.s
           r == Release(s, f)
           ms == s.missed \cup {f}
           u == [s EXCEPT !.missed = ms]
<1>0. s = [flow |-> s.flow, entry |-> s.entry, cpu |-> s.cpu, res |-> s.res,
           order |-> s.order, missed |-> s.missed]
  BY DEF Sound
<1>1. t.s = s \/ t.s = r \/ t.s = u
  BY <1>0 DEF Told
<1>2. Sound(r) /\ TablesInv(r)
  <2> HIDE DEF s
  <2>1. Sound(s) /\ TablesInv(s)
    BY DEF s
  <2> QED BY <2>1, ReleaseSound, ReleaseTables
<1>3. Sound(u) /\ TablesInv(u)
  <2>1. Sound(s) /\ TablesInv(s)
    OBVIOUS
  <2>2. u.flow = s.flow /\ u.res = s.res
    BY <1>0
  <2>3. SameFilters(u, s)
    BY <2>2 DEF SameFilters, Installed
  <2> HIDE DEF s, ms
  <2>4. Sound(u)
    BY <2>1, MissedSound
  <2> HIDE DEF u
  <2> QED BY <2>1, <2>2, <2>3, <2>4, TablesSame
<1> HIDE DEF r, u, s
<1> QED BY <1>1, <1>2, <1>3 DEF s

LEMMA SwapPairTables ==
  ASSUME OwnInv, FilterInv, NEW p, NEW full, SwapPair(p, full)
  PROVE  FilterInv'
<1> DEFINE n == Len(order)
           t == Notified(p, full)
<1>1. n \in Nat /\ DOMAIN order = 1..n /\ order \in Seq(Flows)
  BY NotifiedSteps
<1>6. PICK g : OneByOne(g, p, full) /\ t = g[n].s
  BY NotifiedSteps
<1>2. /\ g[0] = [s |-> Now, ok |-> TRUE] /\ t = g[n].s
      /\ \A i \in 1..n : /\ (n - i) + 1 \in 1..n
                         /\ g[i] = Told(g[i - 1], order[(n - i) + 1], p, full)
  BY <1>6 DEF OneByOne
<1>3. Becomes(t)
  BY DEF SwapPair
<1> HIDE DEF n, t
<1> DEFINE Good(i) == Sound(g[i].s) /\ TablesInv(g[i].s)
           Bad == {i \in 0..n : ~Good(i)}
<1>4. Bad = {}
  <2>1. SUFFICES ASSUME Bad # {} PROVE FALSE
    OBVIOUS
  <2>2. PICK i \in Bad : \A j \in Bad : i <= j
    <3>1. Bad \subseteq Nat
      BY <1>1
    <3> HIDE DEF Bad
    <3> QED BY <2>1, <3>1, NatMin
  <2>3. i \in 0..n /\ ~Good(i)
    BY <2>2
  <2>4. Good(0)
    <3>1. g[0].s = Now /\ Sound(Now) /\ TablesInv(Now)
      BY <1>2, NowIs DEF FilterInv
    <3> QED BY <3>1
  <2>5. i \in 1..n /\ i - 1 \in 0..n /\ ~(i <= i - 1)
    <3>1. i # 0
      BY <2>3, <2>4
    <3> QED BY <1>1, <2>3, <3>1
  <2>6. Good(i - 1)
    <3>1. i - 1 \notin Bad
      <4> HIDE DEF Bad
      <4> QED BY <2>2, <2>5
    <3> HIDE DEF Good
    <3> QED BY <2>5, <3>1
  <2> DEFINE f == order[(n - i) + 1]
             a == g[i - 1]
  <2>7. g[i] = Told(a, f, p, full) /\ f \in Flows /\ Sound(a.s) /\ TablesInv(a.s)
    BY <1>1, <1>2, <2>5, <2>6
  <2> HIDE DEF a, f
  <2>8. Good(i)
    BY <2>7, ToldTables
  <2> QED BY <2>3, <2>8
<1>5. Good(n)
  BY <1>1, <1>4
<1> QED BY <1>2, <1>3, <1>5, TablesClosing

LEMMA InitTables ==
  ASSUME Init
  PROVE  FilterInv
<1>1. Now.res = NewResources /\ Now.flow = [f \in Flows |-> NewFlow]
  BY DEF Init, Now
<1>2. Installed(Now) = {}
  BY <1>1 DEF Installed, NewFlow
<1> DEFINE s == Now
<1>3. /\ ChunkUsers(s) = {} /\ TagUsers(s) = ReservedUses /\ ClassUsers(s) = {} /\ EntryUsers(s) = {}
  <2>1. Installed(s) = {}
    BY <1>2
  <2> HIDE DEF s
  <2> QED BY <2>1 DEF ChunkUsers, TagUsers, ClassUsers, EntryUsers
<1>4. Tabled(s.res, ChunkUsers(s), TagUsers(s), ClassUsers(s), EntryUsers(s))
  <2>1. s.res = NewResources
    BY <1>1
  <2> HIDE DEF s
  <2> QED BY <1>3, <2>1, NewIs
<1>5. TablesInv(s)
  <2>1. Installed(s) = {}
    BY <1>2
  <2> HIDE DEF s
  <2> QED BY <1>4, <2>1, TablesAre
<1> QED BY <1>5 DEF FilterInv

\* The tables the filters share account for each of them, whatever started,
\* stopped or failed half way (udf.cpp, tpid.cpp, vfp_rx.cpp, rx.cpp).
THEOREM FilterInvariant == Spec => []FilterInv
<1>1. Init => FilterInv
  BY InitTables
<1>2. OwnInv /\ FilterInv /\ [Next]_vars => FilterInv'
  <2> SUFFICES ASSUME OwnInv, FilterInv, [Next]_vars PROVE FilterInv'
    OBVIOUS
  <2>1. ASSUME NEW f \in Flows, NEW q \in use.quals, NEW room \in BOOLEAN, Start(f, q, room)
        PROVE  FilterInv'
    BY <2>1, StartTables
  <2>2. ASSUME NEW f \in Flows, Stop(f) PROVE FilterInv'
    BY <2>2, StopTables
  <2>3. ASSUME NEW f \in Flows, Destroy(f) PROVE FilterInv'
    BY <2>3, DestroyTables
  <2>4. ASSUME NEW f \in Flows, NEW n \in use.asks, NEW room \in BOOLEAN, SnoopStart(f, n, room)
        PROVE  FilterInv'
    BY <2>4, SnoopStartStays, StayTables
  <2>5. ASSUME NEW f \in Flows, SnoopStop(f) PROVE FilterInv'
    BY <2>5, SnoopStopStays, StayTables
  <2>6. ASSUME NEW f \in Flows, Dump(f) PROVE FilterInv'
    BY <2>6, PacketsStay, StayTables
  <2>7. ASSUME NEW f \in Flows, NEW p \in Pids, Copy(f, p) PROVE FilterInv'
    BY <2>7, PacketsStay, StayTables
  <2>8. ASSUME NEW q \in Queues, Deliver(q) PROVE FilterInv'
    BY <2>8, PacketsStay, StayTables
  <2>9. ASSUME NEW p \in Ports, NEW full \in SUBSET Snooping, SwapPair(p, full) PROVE FilterInv'
    BY <2>9, SwapPairTables
  <2>10. ASSUME UNCHANGED vars PROVE FilterInv'
    BY <2>10, PacketsStay, StayTables
  <2> QED BY <2>1, <2>2, <2>3, <2>4, <2>5, <2>6, <2>7, <2>8, <2>9, <2>10 DEF Next
<1> QED BY <1>1, <1>2, OwnInvariant, PTL DEF Spec
-----------------------------------------------------------------------------
(* What the tables give each filter.                                       *)

LEMMA TablesNow ==
  ASSUME FilterInv
  PROVE  /\ Tabled(res, ChunkUsers(Now), TagUsers(Now), ClassUsers(Now), EntryUsers(Now))
         /\ Filtering = Installed(Now)
         /\ \A f \in Filtering : Right(res, flow[f].rx) /\ flow[f].rx = Now.flow[f].rx
<1>1. Now.res = res /\ Now.flow = flow
  BY DEF Now
<1>2. Filtering = Installed(Now)
  BY <1>1 DEF Filtering, Installed
<1>3. TablesInv(Now)
  BY DEF FilterInv
<1> QED BY <1>1, <1>2, <1>3, TablesAre

Looks(r, x) == Right(r, x) /\ r \in Resources /\ \A y \in x.places : LooksAt(r, y)

\* What a filter compares, and of what type that is.
LEMMA FilterLooks ==
  ASSUME NEW s, TablesInv(s), NEW f \in Installed(s), NEW x, x = s.flow[f].rx
  PROVE  Looks(s.res, x)
<1> DEFINE r == s.res
           us == x.udfs
           H == ChunkUsers(s)
<1>1. /\ Right(r, x)
      /\ Tabled(r, H, TagUsers(s), ClassUsers(s), EntryUsers(s))
  BY TablesAre
<1>3. us \in Seq(Udfs) /\ x.places = Places(r, us) /\ r \in Resources /\ Windows(r, H)
  BY <1>1 DEF Right, Wanted, Tabled
<1>4. Within(f, us, H)
  BY UsesOfInstalled DEF Within, CU
<1>5. ASSUME NEW y \in x.places PROVE LooksAt(r, y)
  <2>1. y \in Places(r, us)
    BY <1>3
  <2> HIDE DEF us, H, r
  <2> QED BY <1>3, <1>4, <2>1, PlacesMatch
<1> QED BY <1>1, <1>3, <1>5 DEF Looks

LEMMA TablesMatch ==
  ASSUME FilterInv
  PROVE  MatchesItsBytes
<1> SUFFICES ASSUME NEW f \in Filtering, NEW y \in flow[f].rx.places PROVE LooksAt(res, y)
  BY DEF MatchesItsBytes, LooksAt
<1> DEFINE s == Now
           x == flow[f].rx
<1>1. s.res = res /\ s.flow = flow /\ TablesInv(s) /\ f \in Installed(s) /\ x = s.flow[f].rx
  BY TablesNow DEF Now, FilterInv
<1>2. y \in x.places
  OBVIOUS
<1> HIDE DEF s, x
<1>3. Looks(s.res, x)
  BY <1>1, FilterLooks
<1> QED BY <1>1, <1>2, <1>3 DEF Looks

UsesThere(f, x, Cs, Es) ==
  x.rules # None /\ ClassUses(f, x) \subseteq Cs /\ EntryUses(f, x) \subseteq Es

ClassSet(r, x) ==
  /\ \A p \in Elements(x.ports) : r.vfp[p, x.class].refs > 0
  /\ \A p \in Pids : r.vfp[p, x.class].rules \in {x.rules, None}

\* A filter's entries are there, and set its class by its own rules.
LEMMA ClassIsOwn ==
  ASSUME NEW r, NEW Hs, NEW Ts, NEW Cs, NEW Es, Tabled(r, Hs, Ts, Cs, Es), NEW f,
         NEW x, Right(r, x), UsesThere(f, x, Cs, Es)
  PROVE  ClassSet(r, x)
<1>0. x.rules # None /\ ClassUses(f, x) \subseteq Cs /\ EntryUses(f, x) \subseteq Es
  BY DEF UsesThere
<1> DEFINE h == <<<<f, x.class>>, x.rules>>
           c == x.class
<1>1. h \in Cs /\ r \in Resources /\ Classified(r, Cs, Es) /\ Wanted(x)
  BY <1>0 DEF ClassUses, Tabled, Right
<1>2. h[2] = x.rules /\ h[1][2] = c
  OBVIOUS
<1> HIDE DEF h
<1>3. h[2] \in Rules /\ h[1][2] \in Classes /\ r.class.id[h[2]] = h[1][2] /\ InUse(r.class, h[2])
  BY <1>1, ClassOfUse
<1>4. x.rules \in Rules /\ c \in Classes /\ r.class.id[x.rules] = c /\ InUse(r.class, x.rules)
  BY <1>2, <1>3
<1>5. /\ Counts(EntryRefs(r), EntryIndex) /\ Backed(EntryRefs(r), Es)
      /\ \A k \in EntryIndex : EntryRefs(r)[k] = r.vfp[k].refs
      /\ \A k \in EntryIndex : Sets(r, k)
      /\ Pool(r.class, Rules, 1, ClassMax)
  BY <1>1, ClassFields
<1> HIDE DEF c
<1>6. ASSUME NEW p \in Elements(x.ports) PROVE r.vfp[p, c].refs > 0
  <2> DEFINE ports == x.ports
             n == Len(ports)
             ks == EntryKeys(ports, c)
  <2>1. ports \in Seq(Pids) /\ n \in Nat /\ DOMAIN ports = 1..n
    BY <1>1 DEF Wanted
  <2>2. PICK i \in 1..n : ports[i] = p
    BY <2>1 DEF Elements
  <2>3. ks[i] = <<p, c>>
    BY <2>1, <2>2 DEF EntryKeys
  <2> DEFINE e == <<<<f, i>>, ks[i]>>
  <2>4. e \in Es
    <3>1. EntryUses(f, x) = Shares(f, ks, n) /\ EntryUses(f, x) \subseteq Es
      BY <1>0 DEF EntryUses, c
    <3>2. e \in Shares(f, ks, n)
      BY <2>2 DEF Shares
    <3> QED BY <3>1, <3>2
  <2>5. e[2] = <<p, c>> /\ <<p, c>> \in EntryIndex
    BY <1>4, <2>1, <2>2, <2>3 DEF EntryIndex
  <2> HIDE DEF e, ks, n, ports
  <2> DEFINE refs == EntryRefs(r)
             K == EntryIndex
  <2>6. Counts(refs, K) /\ Backed(refs, Es) /\ e \in Es
    BY <1>5, <2>4
  <2>8. \A k \in K : refs[k] = r.vfp[k].refs
    BY <1>5
  <2> HIDE DEF refs, K
  <2>7. refs[e[2]] > 0
    BY <2>6, UsersInUse
  <2> QED BY <2>5, <2>7, <2>8 DEF K
<1>7. ASSUME NEW p \in Pids PROVE r.vfp[p, c].rules \in {x.rules, None}
  <2> DEFINE k == <<p, c>>
  <2>1. k \in EntryIndex /\ k[2] = c
    BY <1>4 DEF EntryIndex
  <2>2. Sets(r, k)
    BY <1>5, <2>1
  <2> HIDE DEF k
  <2>3. CASE r.vfp[k].refs = 0
    BY <2>2, <2>3 DEF Sets, k
  <2>4. CASE r.vfp[k].refs # 0
    <3> DEFINE v == r.vfp[k].rules
    <3>1. v \in Rules /\ r.class.id[v] = c
      BY <2>1, <2>2, <2>4 DEF Sets
    <3> HIDE DEF v
    <3>2. x.rules = v
      BY <1>4, <1>5, <3>1 DEF Pool
    <3> QED BY <3>2 DEF v, k
  <2> QED BY <2>3, <2>4
<1> QED BY <1>6, <1>7 DEF c, ClassSet

LEMMA TablesAgree ==
  ASSUME FilterInv
  PROVE  ClassesAgree
<1> SUFFICES ASSUME NEW f \in Filtering, flow[f].rx.rules # None
             PROVE  /\ \A p \in FilterPids(f) : res.vfp[p, flow[f].rx.class].refs > 0
                    /\ \A p \in Pids : res.vfp[p, flow[f].rx.class].rules \in {flow[f].rx.rules, None}
  BY DEF ClassesAgree
<1> DEFINE s == Now
           x == flow[f].rx
<1>1. /\ Tabled(res, ChunkUsers(s), TagUsers(s), ClassUsers(s), EntryUsers(s))
      /\ Right(res, x) /\ f \in Installed(s) /\ x = s.flow[f].rx /\ x.rules # None
  BY TablesNow
<1>2. FilterPids(f) = Elements(x.ports)
  BY DEF FilterPids
<1> HIDE DEF s, x
<1>3. ClassUses(f, x) \subseteq ClassUsers(s) /\ EntryUses(f, x) \subseteq EntryUsers(s)
  BY <1>1, UsesOfInstalled
<1> DEFINE Hs == ChunkUsers(s)
           Ts == TagUsers(s)
           Cs == ClassUsers(s)
           Es == EntryUsers(s)
<1>4. Tabled(res, Hs, Ts, Cs, Es) /\ UsesThere(f, x, Cs, Es)
  BY <1>1, <1>3 DEF UsesThere
<1> HIDE DEF Hs, Ts, Cs, Es
<1>5. ClassSet(res, x)
  BY <1>1, <1>4, ClassIsOwn
<1> QED BY <1>2, <1>5 DEF x, ClassSet
-----------------------------------------------------------------------------
\* On a port p, the value t is in use for one that has v on these ports.
Names(H, p, t) == \E h \in H : h[2] = <<p, t>>

LEMMA ValuesNamed ==
  ASSUME NEW a, NEW ports \in Seq(Pids), NEW v \in Tpids \cup {None}, NEW p, NEW t \in Tpids
  PROVE  Names(TU(a, ports, v), p, t) <=> v = t /\ p \in Elements(ports)
<1> DEFINE ks == TagsOf(ports, v)
           n == Len(ks)
<1>1. TU(a, ports, v) = Shares(a, ks, n)
  BY DEF TU
<1>2. t # None
  OBVIOUS
<1>3. CASE v = None
  <2>1. n = 0
    BY <1>3, TagsOfFields
  <2>2. Shares(a, ks, n) = {}
    BY <2>1 DEF Shares
  <2> QED BY <1>1, <1>2, <1>3, <2>2 DEF Names
<1>4. CASE v # None
  <2>1. n = Len(ports) /\ \A i \in 1..Len(ports) : ks[i] = <<ports[i], v>>
    BY <1>4, TagsOfFields
  <2>2. DOMAIN ports = 1..n
    BY <2>1
  <2> HIDE DEF ks, n
  <2>3. Names(Shares(a, ks, n), p, t) <=> \E i \in 1..n : ks[i] = <<p, t>>
    <3>1. ASSUME NEW i \in 1..n, ks[i] = <<p, t>> PROVE Names(Shares(a, ks, n), p, t)
      <4>1. <<<<a, i>>, ks[i]>> \in Shares(a, ks, n) /\ <<<<a, i>>, ks[i]>>[2] = ks[i]
        BY DEF Shares
      <4> QED BY <3>1, <4>1 DEF Names
    <3>2. ASSUME NEW h \in Shares(a, ks, n), h[2] = <<p, t>> PROVE \E i \in 1..n : ks[i] = <<p, t>>
      BY <3>2 DEF Shares
    <3> QED BY <3>1, <3>2 DEF Names
  <2>4. (\E i \in 1..n : ks[i] = <<p, t>>) <=> v = t /\ p \in Elements(ports)
    BY SMTT(40), <2>1, <2>2 DEF Elements
  <2> QED BY <1>1, <2>3, <2>4
<1> QED BY <1>3, <1>4

LEMMA ReservedNamed ==
  ASSUME NEW p \in Pids, NEW t \in Tpids
  PROVE  Names(ReservedUses, p, t) <=> t = Reserved
<1> DEFINE ports == SetToSeq(Pids)
<1>1. ReservedUses = TU(None, ports, Reserved)
  BY DEF ReservedUses, TU
<1>2. ports \in Seq(Pids) /\ p \in Elements(ports)
  <2>1. ports \in Seq(Pids) /\ \E i \in 1..Len(ports) : ports[i] = p
    BY EveryPid
  <2> HIDE DEF ports
  <2> QED BY <2>1 DEF Elements
<1> HIDE DEF ports
<1>3. Names(TU(None, ports, Reserved), p, t) <=> Reserved = t /\ p \in Elements(ports)
  BY <1>2, ValuesNamed
<1> QED BY <1>1, <1>2, <1>3

LEMMA TablesRecognise ==
  ASSUME FilterInv
  PROVE  TagsRecognised
<1> SUFFICES ASSUME NEW p \in Pids
             PROVE  {res.tag[i] : i \in res.bmp[p]} =
                      ({flow[f].rx.tpid : f \in {g \in Filtering : p \in FilterPids(g)}} \ {None})
                        \cup {Reserved}
  BY DEF TagsRecognised
<1> DEFINE H == TagUsers(Now)
           named == {flow[f].rx.tpid : f \in {g \in Filtering : p \in FilterPids(g)}} \ {None}
<1>1. /\ res \in Resources /\ Tags(res, H) /\ Filtering = Installed(Now)
      /\ \A f \in Filtering : Wanted(flow[f].rx) /\ flow[f].rx = Now.flow[f].rx
  BY TablesNow DEF Tabled, Right
<1>2. H = ReservedUses \cup UNION {TagUses(f, flow[f].rx) : f \in Filtering}
  BY <1>1 DEF TagUsers
<1> HIDE DEF H
<1>3. TagsAre(res, p, H)
  BY <1>1, TagsNamed
<1>4. ASSUME NEW f \in Filtering, NEW t \in Tpids
      PROVE  Names(TagUses(f, flow[f].rx), p, t) <=> flow[f].rx.tpid = t /\ p \in FilterPids(f)
  <2> DEFINE x == flow[f].rx
  <2>1. x.ports \in Seq(Pids) /\ x.tpid \in Tpids \cup {None}
    BY <1>1 DEF Wanted
  <2>2. TagUses(f, x) = TU(f, x.ports, x.tpid) /\ FilterPids(f) = Elements(x.ports)
    BY DEF TagUses, TU, FilterPids
  <2> HIDE DEF x
  <2>3. Names(TU(f, x.ports, x.tpid), p, t) <=> x.tpid = t /\ p \in Elements(x.ports)
    BY <2>1, ValuesNamed
  <2> QED BY <2>2, <2>3 DEF x
<1>5. \A t \in Tpids : Names(H, p, t) <=> \/ Names(ReservedUses, p, t)
                                          \/ \E f \in Filtering : Names(TagUses(f, flow[f].rx), p, t)
  BY <1>2 DEF Names
<1>6. \A f \in Filtering : flow[f].rx.tpid \in Tpids \cup {None}
  BY <1>1 DEF Wanted
<1>7. \A t \in Tpids : Names(H, p, t) <=> t \in named \cup {Reserved}
  <2> TAKE t \in Tpids
  <2>1. t # None
    OBVIOUS
  <2>2. Names(ReservedUses, p, t) <=> t = Reserved
    BY ReservedNamed
  <2>3. (\E f \in Filtering : Names(TagUses(f, flow[f].rx), p, t)) <=>
          \E f \in Filtering : flow[f].rx.tpid = t /\ p \in FilterPids(f)
    BY <1>4
  <2>4. t \in named <=> \E f \in Filtering : flow[f].rx.tpid = t /\ p \in FilterPids(f)
    BY <2>1
  <2> QED BY <1>5, <2>2, <2>3, <2>4
<1>8. named \cup {Reserved} \subseteq Tpids
  BY <1>6
<1> HIDE DEF named
<1>9. {t \in Tpids : \E h \in H : h[2] = <<p, t>>} = named \cup {Reserved}
  BY <1>7, <1>8 DEF Names
<1> QED BY <1>3, <1>9 DEF named, TagsAre
-----------------------------------------------------------------------------
\* In every reachable state the windows a filter compares look at the bytes it
\* was written for (udf.cpp).
THEOREM Rx_MatchesItsBytes == Spec => []MatchesItsBytes
<1>1. FilterInv => MatchesItsBytes
  BY TablesMatch
<1> QED BY <1>1, FilterInvariant, PTL

\* In every reachable state a filter's entries of the VFP are there, and its
\* class is set by its own rules only (vfp_rx.cpp).
THEOREM Rx_ClassesAgree == Spec => []ClassesAgree
<1>1. FilterInv => ClassesAgree
  BY TablesAgree
<1> QED BY <1>1, FilterInvariant, PTL

\* In every reachable state each port recognises just the tag values of its
\* filters and the reserved one (tpid.cpp).
THEOREM Rx_TagsRecognised == Spec => []TagsRecognised
<1>1. FilterInv => TagsRecognised
  BY TablesRecognise
<1> QED BY <1>1, FilterInvariant, PTL
-----------------------------------------------------------------------------
(* Who has a filter, a callback, and packets to come.                      *)

Kind(m) == m.is_started = (m.rx # None)

\* One flow's members and entry, the order of binding and who was missed.
TidyChange(s, f, m, o, ms) ==
  /\ \A i \in DOMAIN o : IF o[i] = f THEN m.is_started ELSE o[i] \in Installed(s)
  /\ \A g \in ms : IF g = f THEN m.is_started ELSE g \in Installed(s)
  /\ Once(o)

LEMMA TidyWith ==
  ASSUME NEW s, Sound(s), Tidy(s), NEW f \in Flows, NEW m, Kind(m), NEW e, e.tokens <= Byte,
         NEW c, NEW r, NEW o \in Seq(Flows), NEW ms, ms \subseteq Flows, TidyChange(s, f, m, o, ms)
  PROVE  Tidy(With(s, f, m, e, c, r, o, ms))
<1> DEFINE t == With(s, f, m, e, c, r, o, ms)
<1>1. /\ t.flow = [s.flow EXCEPT ![f] = m] /\ t.entry = [s.entry EXCEPT ![f] = e]
      /\ t.order = o /\ t.missed = ms
  BY DEF With
<1>2. s.flow = [g \in Flows |-> s.flow[g]] /\ s.entry = [g \in Flows |-> s.entry[g]]
  BY DEF Sound
<1>3. /\ t.flow[f] = m /\ t.entry[f] = e
      /\ \A g \in Flows \ {f} : t.flow[g] = s.flow[g] /\ t.entry[g] = s.entry[g]
  BY <1>1, <1>2
<1> HIDE DEF t
<1>4. \A g \in Flows : t.entry[g].tokens <= Byte /\ Kind(t.flow[g])
  BY <1>3 DEF Tidy, Kind
<1>5. \A g \in Flows : (IF g = f THEN m.is_started ELSE g \in Installed(s)) => g \in Installed(t)
  BY <1>3 DEF Installed
<1>6. t.missed \subseteq Installed(t)
  BY <1>1, <1>5 DEF TidyChange
<1>7. \A i \in DOMAIN o : o[i] \in Installed(t)
  <2>1. \A i \in DOMAIN o : o[i] \in Flows
    OBVIOUS
  <2> QED BY <1>5, <2>1 DEF TidyChange
<1>8. \A i, j \in DOMAIN o : o[i] = o[j] => i = j
  BY DEF TidyChange, Once
<1>9. Tidy(t)
  BY <1>1, <1>4, <1>6, <1>7, <1>8 DEF Tidy, Kind
<1> QED BY <1>9 DEF t

LEMMA NoneThere ==
  /\ Kind(NewFlow) /\ NoEntry.tokens <= Byte
<1>1. 0 <= Byte
  OBVIOUS
<1> QED BY <1>1 DEF Kind, NewFlow, NoEntry

LEMMA ReleaseTidy ==
  ASSUME NEW s, Sound(s), Tidy(s), NEW f \in Flows
  PROVE  Tidy(Release(s, f))
<1> DEFINE m == s.flow[f]
<1>1. Coherent(m, s.entry[f]) /\ s.order \in Seq(Flows)
  BY DEF Sound, BoundOnes
<1>2. CASE ~m.is_started
  BY <1>2 DEF Release
<1>3. CASE m.is_started
  <2> DEFINE c == FreeQueue(s.cpu, m)
             r == DropFilter(s.res, m.rx)
             o == RemoveFirst(s.order, f)
             ms == s.missed \ {f}
  <2>1. Release(s, f) = With(s, f, Idle(m), NoEntry, c, r, o, ms)
    BY <1>3 DEF Release, With
  <2>2. Kind(Idle(m))
    <3>1. m \in [is_started : BOOLEAN, is_snooping : BOOLEAN, rx : {m.rx},
                 cpu_rx : Queues \cup {NoQ}, snoop_pkts : Seq(Pids), max_snoop_pkt : Nat]
      BY <1>1 DEF Coherent
    <3> HIDE DEF m
    <3>2. Idle(m).is_started = FALSE /\ Idle(m).rx = None
      BY ONLY <3>1 DEF Idle
    <3> QED BY <3>2 DEF Kind
  <2>3. Once(s.order)
    BY DEF Tidy, Once
  <2>4. o \in Seq(Flows)
    BY <1>1, OthersStay
  <2>5. Once(o) /\ \A g \in Elements(o) : g # f /\ g \in Elements(s.order)
    BY <1>1, <2>3, OnceRemoved
  <2>6. ms \subseteq Flows /\ \A g \in ms : g # f /\ g \in Installed(s)
    BY DEF Tidy, Installed
  <2>7. TidyChange(s, f, Idle(m), o, ms)
    <3>1. \A g \in Elements(s.order) : g \in Installed(s)
      BY DEF Tidy, Elements
    <3> HIDE DEF o, ms
    <3>2. \A i \in DOMAIN o : o[i] # f /\ o[i] \in Installed(s)
      BY <2>5, <3>1 DEF Elements
    <3> QED BY <2>5, <2>6, <3>2 DEF TidyChange
  <2> HIDE DEF c, r, o, ms
  <2>8. Tidy(With(s, f, Idle(m), NoEntry, c, r, o, ms))
    <3> DEFINE i == Idle(m)
    <3> HIDE DEF i
    <3>1. Kind(i) /\ TidyChange(s, f, i, o, ms) /\ NoEntry.tokens <= Byte
      BY <2>2, <2>7, NoneThere DEF i
    <3>2. Tidy(With(s, f, i, NoEntry, c, r, o, ms))
      BY <2>4, <2>6, <3>1, TidyWith
    <3> QED BY <3>2 DEF i
  <2> QED BY <2>1, <2>8
<1> QED BY <1>2, <1>3

LEMMA TidyClosing ==
  ASSUME NEW t, Tidy(t), Becomes(t)
  PROVE  Tidy(Now')
<1> DEFINE n == Now'
<1>1. n.flow = t.flow /\ n.entry = t.entry /\ n.order = t.order /\ n.missed = t.missed
  BY DEF Now, Becomes
<1> HIDE DEF n
<1>2. Installed(n) = Installed(t)
  BY <1>1 DEF Installed
<1>3. Tidy(n)
  BY <1>1, <1>2 DEF Tidy
<1> QED BY <1>3 DEF n

LEMMA StopTidy ==
  ASSUME OwnInv, Tidy(Now), NEW f \in Flows, Stop(f)
  PROVE  Tidy(Now')
<1> DEFINE s == Now
           t == Release(Now, f)
<1>1. Sound(s) /\ Tidy(s) /\ Becomes(t) /\ t = Release(s, f)
  BY NowIs DEF Stop
<1> HIDE DEF s, t
<1>2. Tidy(t)
  BY <1>1, ReleaseTidy
<1> QED BY <1>1, <1>2, TidyClosing

LEMMA DestroyTidy ==
  ASSUME OwnInv, Tidy(Now), NEW f \in Flows, Destroy(f)
  PROVE  Tidy(Now')
<1> DEFINE n == Now
           s == Release(Now, f)
           u == With(s, f, NewFlow, s.entry[f], s.cpu, s.res, s.order, s.missed)
<1>1. Sound(n) /\ Tidy(n) /\ s = Release(n, f)
  BY NowIs
<1>2. Becomes([s EXCEPT !.flow[f] = NewFlow])
  BY DEF Destroy
<1> HIDE DEF n, s
<1>3. Sound(s) /\ Tidy(s) /\ ~s.flow[f].is_started
  BY <1>1, ReleaseSound, ReleaseTidy
<1>4. /\ s = [flow |-> s.flow, entry |-> s.entry, cpu |-> s.cpu, res |-> s.res,
              order |-> s.order, missed |-> s.missed]
      /\ s.order \in Seq(Flows)
  BY <1>3 DEF Sound, BoundOnes
<1>5. Becomes(u)
  <2>1. /\ flow' = [s.flow EXCEPT ![f] = NewFlow] /\ entry' = s.entry /\ cpu' = s.cpu
        /\ res' = s.res /\ order' = s.order /\ missed' = s.missed
    BY <1>2, <1>4 DEF Becomes
  <2> QED BY <1>3, <2>1, SameEntry DEF Becomes, With
<1>6. /\ s.missed \subseteq Installed(s) /\ s.missed \subseteq Flows
      /\ s.entry[f].tokens <= Byte /\ f \notin Installed(s)
      /\ \A i \in DOMAIN s.order : s.order[i] \in Installed(s)
      /\ Once(s.order)
  BY <1>3 DEF Tidy, Installed, Once
<1>7. TidyChange(s, f, NewFlow, s.order, s.missed)
  BY <1>6 DEF TidyChange
<1> DEFINE e == s.entry[f]
           c == s.cpu
           r == s.res
           o == s.order
           ms == s.missed
<1>8. /\ e.tokens <= Byte /\ o \in Seq(Flows) /\ ms \subseteq Flows
      /\ TidyChange(s, f, NewFlow, o, ms) /\ u = With(s, f, NewFlow, e, c, r, o, ms)
  BY <1>4, <1>6, <1>7
<1> HIDE DEF e, c, r, o, ms, u
<1>9. Tidy(u)
  BY <1>3, <1>8, NoneThere, TidyWith
<1> QED BY <1>5, <1>9, TidyClosing
-----------------------------------------------------------------------------
LEMMA OnceBound ==
  ASSUME NEW s \in Seq(Flows), Once(s), NEW f \in Flows, f \notin Elements(s), NEW o, o = Append(s, f)
  PROVE  /\ o \in Seq(Flows) /\ Once(o)
         /\ \A i \in DOMAIN o : o[i] = f \/ o[i] \in Elements(s)
<1>1. /\ o \in Seq(Flows) /\ DOMAIN o = 1..(Len(s) + 1) /\ DOMAIN s = 1..Len(s) /\ Len(s) \in Nat
      /\ \A i \in 1..(Len(s) + 1) : o[i] = IF i = Len(s) + 1 THEN f ELSE s[i]
  OBVIOUS
<1> DEFINE n == Len(s)
<1> HIDE DEF n
<1>2. /\ DOMAIN o = 1..(n + 1) /\ DOMAIN s = 1..n /\ n \in Nat
      /\ \A i \in 1..(n + 1) : o[i] = IF i = n + 1 THEN f ELSE s[i]
  BY <1>1 DEF n
<1>3. \A i \in 1..(n + 1) : i # n + 1 => i \in 1..n
  BY <1>2
<1>4. \A i \in 1..n : s[i] # f /\ s[i] \in Elements(s)
  BY <1>2 DEF Elements
<1>5. Once(o)
  <2> SUFFICES ASSUME NEW i \in 1..(n + 1), NEW j \in 1..(n + 1), o[i] = o[j] PROVE i = j
    BY <1>2 DEF Once
  <2>1. CASE i # n + 1 /\ j # n + 1
    BY <1>2, <1>3, <2>1 DEF Once
  <2>2. CASE i = n + 1 \/ j = n + 1
    BY <1>2, <1>3, <1>4, <2>2
  <2> QED BY <2>1, <2>2
<1> QED BY <1>1, <1>2, <1>3, <1>4, <1>5

\* A filter is a filter: it is something else than None.
LEMMA FilterTyped ==
  ASSUME NEW s, TablesInv(s), NEW f \in Installed(s), NEW x, x = s.flow[f].rx,
         NEW q, NEW ports, NEW r, x = FilterOf(r, q, ports), q.in_ports \subseteq Ports
  PROVE  x # None
<1>0. Looks(s.res, x)
  BY FilterLooks
<1>1. /\ Wanted(x) /\ x.class = ClassOf(s.res, x.rules) /\ s.res \in Resources
      /\ \A y \in x.places : y \in Nat \X Nat
  BY <1>0 DEF Looks, Right, LooksAt
<1>2. x.class \in Classes \cup {NoId}
  <2>1. s.res.class.id \in [Rules -> 1..ClassMax \cup {NoId}]
    BY <1>1, ClassFields
  <2> QED BY <1>1, <2>1 DEF Wanted, ClassOf, Classes
<1>3. x.places \in SUBSET (Int \X Int)
  BY <1>1
<1>4. /\ x.in_ports \in SUBSET Ports /\ x.ports \in Seq(Pids) /\ x.udfs \in Seq(Udfs)
      /\ x.tpid \in Tpids \cup {None} /\ x.rules \in Rules \cup {None}
  BY <1>1 DEF Wanted, FilterOf
<1>5. x = [in_ports |-> x.in_ports, ports |-> x.ports, udfs |-> x.udfs, tpid |-> x.tpid,
           rules |-> x.rules, class |-> x.class, places |-> x.places]
  <2> DEFINE c == ClassOf(r, q.rules)
             p == Places(r, q.udfs)
  <2>1. x = [in_ports |-> q.in_ports, ports |-> ports, udfs |-> q.udfs, tpid |-> q.tpid,
             rules |-> q.rules, class |-> c, places |-> p]
    BY DEF FilterOf
  <2> HIDE DEF c, p
  <2> QED BY ONLY <2>1
<1>6. x \in FilterTypes
  <2>1. x \in [in_ports : SUBSET Ports, ports : Seq(Pids), udfs : Seq(Udfs), tpid : Tpids \cup {None},
               rules : Rules \cup {None}, class : Classes \cup {NoId}, places : SUBSET (Int \X Int)]
    BY ONLY <1>2, <1>3, <1>4, <1>5
  <2> QED BY <2>1 DEF FilterTypes
<1>7. None \notin FilterTypes
  OBVIOUS
<1> QED BY <1>6, <1>7

LEMMA StartTidy ==
  ASSUME OwnInv, Tidy(Now), FilterInv', NEW f \in Flows, NEW q \in use.quals, NEW room \in BOOLEAN,
         Start(f, q, room)
  PROVE  Tidy(Now')
<1> DEFINE n == Now
           s == Release(Now, f)
           ports == extract_ports(q.in_ports)
           h == HoldFilter(s.res, q, ports, room)
           x == FilterOf(h.r, q, ports)
           m == Filters(s.flow[f], x)
           e == s.entry[f]
           c == s.cpu
           o == Append(s.order, f)
           ms == s.missed
           r == h.r
           u == With(s, f, m, e, c, r, o, ms)
           v == With(s, f, s.flow[f], e, c, r, s.order, ms)
<1>1. Sound(n) /\ Tidy(n) /\ s = Release(n, f)
  BY NowIs
<1>2. \/ Becomes([s EXCEPT !.res = h.r, !.order = Append(@, f),
                         !.flow[f] = [@ EXCEPT !.is_started = TRUE, !.rx = x]])
      \/ Becomes([s EXCEPT !.res = h.r])
  BY DEF Start
<1>0. x = FilterOf(r, q, ports) /\ q.in_ports \subseteq Ports
  BY DEF OwnInv
<1> HIDE DEF n, s
<1>3. Sound(s) /\ Tidy(s) /\ ~s.flow[f].is_started
  BY <1>1, ReleaseSound, ReleaseTidy
<1>4. /\ s = [flow |-> s.flow, entry |-> s.entry, cpu |-> s.cpu, res |-> s.res,
              order |-> s.order, missed |-> s.missed]
      /\ s.flow = [g \in Flows |-> s.flow[g]]
      /\ s.order \in Seq(Flows) /\ Coherent(s.flow[f], s.entry[f])
  BY <1>3 DEF Sound, BoundOnes
<1>5. /\ ms \subseteq Installed(s) /\ ms \subseteq Flows
      /\ e.tokens <= Byte /\ f \notin Installed(s) /\ Kind(s.flow[f])
      /\ \A i \in DOMAIN s.order : s.order[i] \in Installed(s)
      /\ Once(s.order)
  BY <1>3 DEF Tidy, Installed, Once, Kind
<1> HIDE DEF x, h, ports
<1>6. ASSUME Becomes([s EXCEPT !.res = h.r, !.order = Append(@, f),
                              !.flow[f] = [@ EXCEPT !.is_started = TRUE, !.rx = x]])
      PROVE  Tidy(Now')
  <2>1. /\ flow' = [s.flow EXCEPT ![f] = m] /\ entry' = s.entry /\ cpu' = s.cpu
        /\ res' = h.r /\ order' = o /\ missed' = s.missed
    BY <1>4, <1>6 DEF Becomes, Filters
  <2>2. m.is_started /\ m.rx = x
    <3> DEFINE k == s.flow[f]
    <3>1. k \in [is_started : BOOLEAN, is_snooping : BOOLEAN, rx : {k.rx},
                 cpu_rx : Queues \cup {NoQ}, snoop_pkts : Seq(Pids), max_snoop_pkt : Nat]
      BY <1>4 DEF Coherent
    <3> HIDE DEF k
    <3>2. Filters(k, x).is_started /\ Filters(k, x).rx = x
      BY ONLY <3>1 DEF Filters
    <3> QED BY <3>2 DEF k
  <2> HIDE DEF m
  <2>3. Becomes(u)
    BY <1>3, <2>1, SameEntry DEF Becomes, With
  <2>4. flow'[f] = m
    BY <1>4, <2>1
  <2>5. x # None
    <3> DEFINE t == Now'
    <3>1. TablesInv(t) /\ t.flow = flow'
      BY DEF FilterInv, Now
    <3> HIDE DEF t
    <3>2. f \in Installed(t) /\ x = t.flow[f].rx
      BY <2>2, <2>4, <3>1 DEF Installed
    <3> HIDE DEF r
    <3> QED BY <1>0, <3>1, <3>2, FilterTyped
  <2>6. Kind(m)
    BY <2>2, <2>5 DEF Kind
  <2>7. f \notin Elements(s.order)
    BY <1>5 DEF Elements
  <2>8. /\ o \in Seq(Flows) /\ Once(o)
        /\ \A i \in DOMAIN o : o[i] = f \/ o[i] \in Elements(s.order)
    BY <1>4, <1>5, <2>7, OnceBound
  <2>9. TidyChange(s, f, m, o, ms)
    <3>1. \A g \in Elements(s.order) : g \in Installed(s)
      BY <1>5 DEF Elements
    <3> HIDE DEF o, ms
    <3> QED BY <1>5, <2>2, <2>8, <3>1 DEF TidyChange
  <2> HIDE DEF o, ms, e, c, r
  <2>10. Tidy(With(s, f, m, e, c, r, o, ms))
    BY <1>3, <1>5, <2>6, <2>8, <2>9, TidyWith
  <2> QED BY <2>3, <2>10, TidyClosing
<1>7. ASSUME Becomes([s EXCEPT !.res = h.r]) PROVE Tidy(Now')
  <2>1. /\ flow' = s.flow /\ entry' = s.entry /\ cpu' = s.cpu
        /\ res' = h.r /\ order' = s.order /\ missed' = s.missed
    BY <1>4, <1>7 DEF Becomes
  <2>2. [s.flow EXCEPT ![f] = s.flow[f]] = s.flow
    BY <1>4
  <2>3. Becomes(v)
    BY <1>3, <2>1, <2>2, SameEntry DEF Becomes, With
  <2> DEFINE k == s.flow[f]
             w == s.order
  <2>4. TidyChange(s, f, k, w, ms) /\ Kind(k) /\ w \in Seq(Flows)
    BY <1>4, <1>5 DEF TidyChange
  <2>5. v = With(s, f, k, e, c, r, w, ms)
    OBVIOUS
  <2> HIDE DEF ms, e, c, r, k, w, v
  <2>6. Tidy(v)
    BY <1>3, <1>5, <2>4, <2>5, TidyWith
  <2> QED BY <2>3, <2>6, TidyClosing
<1> QED BY <1>2, <1>6, <1>7
-----------------------------------------------------------------------------
LEMMA QuietTidy ==
  ASSUME Tidy(Now), MembersStay, \A f \in Flows : entry'[f].tokens <= Byte
  PROVE  Tidy(Now')
<1> DEFINE s == Now
           t == Now'
<1>1. /\ t.order = s.order /\ t.missed = s.missed
      /\ \A f \in Flows : /\ t.flow[f].is_started = s.flow[f].is_started
                          /\ t.flow[f].rx = s.flow[f].rx /\ t.entry[f].tokens <= Byte
  BY DEF Now, MembersStay
<1> HIDE DEF s, t
<1>2. Installed(t) = Installed(s)
  BY <1>1 DEF Installed
<1>3. Tidy(s) => Tidy(t)
  BY <1>1, <1>2 DEF Tidy
<1> QED BY <1>3 DEF s, t

LEMMA TokensFit ==
  ASSUME NEW n \in Nat
  PROVE  Tokens(n) <= Byte
<1>1. Byte \in Nat \ {0}
  OBVIOUS
<1>2. n % Byte <= Byte
  BY <1>1
<1> QED BY <1>1, <1>2 DEF Tokens, Unlimited

\* An entry written holds no more than a UINT8 counts.
LEMMA EntryFits ==
  ASSUME OwnInv, Tidy(Now), NEW f \in Flows, NEW e, e.tokens <= Byte,
         entry' = entry \/ entry' = [entry EXCEPT ![f] = e]
  PROVE  \A g \in Flows : entry'[g].tokens <= Byte
<1>1. Now.entry = entry /\ entry = [g \in Flows |-> entry[g]]
  BY NowIs DEF Sound
<1>2. \A g \in Flows : entry[g].tokens <= Byte
  BY <1>1 DEF Tidy
<1>3. CASE entry' = entry
  BY <1>2, <1>3
<1>4. CASE entry' = [entry EXCEPT ![f] = e]
  <2>1. \A g \in Flows : entry'[g] = IF g = f THEN e ELSE entry[g]
    BY <1>1, <1>4
  <2> QED BY <1>2, <2>1
<1> QED BY <1>3, <1>4

LEMMA SnoopStartTidy ==
  ASSUME OwnInv, Tidy(Now), NEW f \in Flows, NEW n \in use.asks, NEW room \in BOOLEAN,
         SnoopStart(f, n, room)
  PROVE  Tidy(Now')
<1> DEFINE q == C!Chosen(cpu, Elements(flow[f].rx.ports))
           e == [q |-> q, tokens |-> Tokens(n)]
<1>1. entry' = entry \/ entry' = [entry EXCEPT ![f] = e]
  BY DEF SnoopStart
<1>2. n \in Nat
  BY DEF OwnInv
<1>3. e.tokens <= Byte
  BY <1>2, TokensFit
<1> HIDE DEF e
<1>4. \A g \in Flows : entry'[g].tokens <= Byte
  BY <1>1, <1>3, EntryFits
<1> QED BY <1>4, SnoopStartStays, QuietTidy

LEMMA SnoopStopTidy ==
  ASSUME OwnInv, Tidy(Now), NEW f \in Flows, SnoopStop(f)
  PROVE  Tidy(Now')
<1>1. entry' = [entry EXCEPT ![f] = NoEntry]
  BY DEF SnoopStop
<1> DEFINE e == NoEntry
<1>2. e.tokens <= Byte
  BY NoneThere
<1> HIDE DEF e
<1>3. entry' = [entry EXCEPT ![f] = e]
  BY <1>1 DEF e
<1>4. \A g \in Flows : entry'[g].tokens <= Byte
  BY <1>2, <1>3, EntryFits
<1> QED BY <1>4, SnoopStopStays, QuietTidy

LEMMA PacketsTidy ==
  ASSUME OwnInv, Tidy(Now),
         \/ \E f \in Flows : Dump(f) \/ \E p \in Pids : Copy(f, p)
         \/ \E q \in Queues : Deliver(q)
         \/ UNCHANGED vars
  PROVE  Tidy(Now')
<1>1. /\ Now.entry = entry /\ \A f \in Flows : Coherent(flow[f], entry[f])
  BY NowIs, MemberNow
<1>2. \A f \in Flows : entry[f].tokens <= Byte /\ entry[f].tokens \in Nat
  BY <1>1 DEF Tidy, Coherent
<1>3. ASSUME NEW f \in Flows, NEW p \in Pids, Copy(f, p)
      PROVE  \A g \in Flows : entry'[g].tokens <= Byte
  <2> DEFINE d == entry[f]
             k == d.tokens - 1
             e == [d EXCEPT !.tokens = k]
  <2>1. entry' = entry \/ entry' = [entry EXCEPT ![f].tokens = @ - 1]
    BY <1>3 DEF Copy
  <2>2. entry = [g \in Flows |-> entry[g]]
    BY NowIs DEF Sound
  <2>3. entry' = entry \/ entry' = [entry EXCEPT ![f] = e]
    BY <2>1, <2>2
  <2>4. k <= Byte
    <3> DEFINE b == d.tokens
    <3>1. b \in Nat /\ b <= Byte /\ Byte \in Nat
      BY <1>2
    <3> HIDE DEF b
    <3>2. b - 1 <= Byte
      BY ONLY <3>1
    <3> QED BY <3>2 DEF b
  <2>5. e.tokens = k
    <3>1. d \in [q : Queues \cup {NoQ}, tokens : Nat]
      BY <1>1 DEF Coherent
    <3> HIDE DEF d, k
    <3> QED BY <3>1
  <2> HIDE DEF e
  <2>6. e.tokens <= Byte
    BY <2>4, <2>5
  <2> QED BY <2>3, <2>6, EntryFits
<1>4. \A g \in Flows : entry'[g].tokens <= Byte
  BY <1>2, <1>3 DEF Dump, Deliver, vars
<1> QED BY <1>4, PacketsStay, QuietTidy
-----------------------------------------------------------------------------
(* A pair change, and who is missed.                                       *)

LEMMA ToldTidy ==
  ASSUME NEW a, Sound(a.s), Tidy(a.s), NEW f \in Installed(a.s), NEW p, NEW full
  PROVE  /\ Sound(Told(a, f, p, full).s) /\ Tidy(Told(a, f, p, full).s)
         /\ \A g \in Installed(a.s) \ {f} : g \in Installed(Told(a, f, p, full).s)
<1> DEFINE t == Told(a, f, p, full)
           s == a.s
           r == Release(s, f)
           ms == s.missed \cup {f}
           u == [s EXCEPT !.missed = ms]
<1>0. /\ s = [flow |-> s.flow, entry |-> s.entry, cpu |-> s.cpu, res |-> s.res,
              order |-> s.order, missed |-> s.missed]
      /\ f \in Flows
  BY DEF Sound, Installed
<1>1. t.s = s \/ t.s = r \/ t.s = u
  BY <1>0 DEF Told
<1>2. Sound(r) /\ Tidy(r) /\ \A g \in Installed(s) \ {f} : g \in Installed(r)
  <2> HIDE DEF s
  <2>1. Sound(s) /\ Tidy(s)
    BY DEF s
  <2> HIDE DEF r
  <2>2. r = Release(s, f)
    BY DEF r
  <2>3. Sound(r) /\ \A g \in Flows \ {f} : r.flow[g] = s.flow[g]
    BY <1>0, <2>1, <2>2, ReleaseSound
  <2>4. Tidy(r)
    BY <1>0, <2>1, <2>2, ReleaseTidy
  <2> QED BY <2>3, <2>4 DEF Installed
<1>3. Sound(u) /\ Tidy(u) /\ Installed(u) = Installed(s)
  <2>1. Sound(s) /\ Tidy(s) /\ f \in Installed(s)
    OBVIOUS
  <2>2. u.flow = s.flow /\ u.entry = s.entry /\ u.order = s.order /\ u.missed = ms
    BY <1>0
  <2>3. Sound(u)
    <3> HIDE DEF s, ms
    <3> QED BY <2>1, MissedSound
  <2> HIDE DEF s, u
  <2>4. Installed(u) = Installed(s)
    BY <2>2 DEF Installed
  <2>5. Tidy(u)
    BY <2>1, <2>2, <2>4 DEF Tidy
  <2> QED BY <2>3, <2>4, <2>5
<1> HIDE DEF r, u, s, t
<1>4. /\ Sound(t.s) /\ Tidy(t.s)
      /\ \A g \in Installed(s) \ {f} : g \in Installed(t.s)
  <2>1. Sound(s) /\ Tidy(s)
    BY DEF s
  <2> QED BY <1>1, <1>2, <1>3, <2>1
<1> QED BY <1>4 DEF s, t

LEMMA SwapPairTidy ==
  ASSUME OwnInv, Tidy(Now), NEW p, NEW full, SwapPair(p, full)
  PROVE  Tidy(Now')
<1> DEFINE n == Len(order)
           t == Notified(p, full)
           at(i) == (n - i) + 1
<1>1. n \in Nat /\ DOMAIN order = 1..n /\ order \in Seq(Flows)
  BY NotifiedSteps
<1>6. PICK g : OneByOne(g, p, full) /\ t = g[n].s
  BY NotifiedSteps
<1>2. /\ g[0] = [s |-> Now, ok |-> TRUE] /\ t = g[n].s
      /\ \A i \in 1..n : at(i) \in 1..n /\ g[i] = Told(g[i - 1], order[at(i)], p, full)
  BY <1>6 DEF OneByOne
<1>3. Becomes(t)
  BY DEF SwapPair
<1>7. /\ \A k \in 1..n : order[k] \in Installed(Now)
      /\ \A k, l \in 1..n : order[k] = order[l] => k = l
  <2>1. Now.order = order
    BY NowIs
  <2> QED BY <1>1, <2>1 DEF Tidy
<1> HIDE DEF n, t
<1>8. \A i, j \in 1..n : i # j => at(i) # at(j)
  BY <1>1
<1>9. \A i, j \in 1..n : i # j => order[at(i)] # order[at(j)]
  <2> HIDE DEF at
  <2>1. ASSUME NEW i \in 1..n, NEW j \in 1..n, i # j PROVE order[at(i)] # order[at(j)]
    <3>1. at(i) \in 1..n /\ at(j) \in 1..n
      BY <1>2
    <3>2. at(i) # at(j)
      BY ONLY <1>8, <2>1
    <3> QED BY ONLY <1>7, <3>1, <3>2
  <2> QED BY ONLY <2>1
<1> DEFINE Ahead(i) == \A j \in 1..n : j > i => order[at(j)] \in Installed(g[i].s)
           Good(i) == Sound(g[i].s) /\ Tidy(g[i].s) /\ Ahead(i)
           Bad == {i \in 0..n : ~Good(i)}
<1> HIDE DEF at
<1>4. Bad = {}
  <2>1. SUFFICES ASSUME Bad # {} PROVE FALSE
    OBVIOUS
  <2>2. PICK i \in Bad : \A j \in Bad : i <= j
    <3>1. Bad \subseteq Nat
      BY <1>1
    <3> HIDE DEF Bad
    <3> QED BY <2>1, <3>1, NatMin
  <2>3. i \in 0..n /\ ~Good(i)
    BY <2>2
  <2>4. Good(0)
    <3>1. g[0].s = Now /\ Sound(Now) /\ Tidy(Now)
      BY <1>2, NowIs
    <3> QED BY <1>2, <1>7, <3>1
  <2>5. i \in 1..n /\ i - 1 \in 0..n /\ ~(i <= i - 1) /\ i > i - 1
    <3>1. i # 0
      <4> HIDE DEF Good
      <4> QED BY <2>3, <2>4
    <3> HIDE DEF Good, Bad
    <3> QED BY <1>1, <2>3, <3>1
  <2>6. Good(i - 1)
    <3>1. i - 1 \notin Bad
      <4> HIDE DEF Bad
      <4> QED BY <2>2, <2>5
    <3> HIDE DEF Good
    <3> QED BY <2>5, <3>1
  <2> DEFINE f == order[at(i)]
             a == g[i - 1]
  <2>7. /\ g[i] = Told(a, f, p, full) /\ Sound(a.s) /\ Tidy(a.s) /\ f \in Installed(a.s)
    BY <1>2, <2>5, <2>6
  <2>8. \A j \in 1..n : j > i => order[at(j)] \in Installed(a.s) \ {f}
    <3> SUFFICES ASSUME NEW j \in 1..n, j > i PROVE order[at(j)] \in Installed(a.s) \ {f}
      OBVIOUS
    <3>1. j > i - 1 /\ j # i
      <4> HIDE DEF Good, Bad
      <4> QED BY <1>1, <2>5
    <3>2. order[at(j)] \in Installed(a.s)
      BY <2>6, <3>1
    <3> QED BY <1>9, <2>5, <3>1, <3>2
  <2> HIDE DEF a, f, Bad
  <2>9. /\ Sound(g[i].s) /\ Tidy(g[i].s)
        /\ \A h \in Installed(a.s) \ {f} : h \in Installed(g[i].s)
    BY <2>7, ToldTidy
  <2>10. Good(i)
    BY <2>8, <2>9
  <2> QED BY <2>3, <2>10
<1>5. Good(n)
  BY <1>1, <1>4
<1>10. Tidy(t)
  BY <1>2, <1>5
<1> QED BY <1>3, <1>10, TidyClosing
-----------------------------------------------------------------------------
(* The buffer of the CPU queues.                                           *)

Lengths(cs) == [q \in Queues |-> Len(cs[q])]

LEMMA CopiesCounted ==
  ASSUME NEW cs \in [Queues -> Seq(Pids)]
  PROVE  /\ \A q \in Queues : Lengths(cs)[q] \in Nat /\ Lengths(cs)[q] = Len(cs[q])
         /\ SumFunctionOnSet(Lengths(cs), Queues) \in Nat
         /\ \A q \in Queues : Len(cs[q]) <= SumFunctionOnSet(Lengths(cs), Queues)
<1> DEFINE ls == Lengths(cs)
           sum == SumFunctionOnSet(ls, Queues)
<1>1. \A q \in Queues : ls[q] \in Nat /\ ls[q] = Len(cs[q])
  BY DEF Lengths
<1> HIDE DEF ls
<1>2. sum \in Nat
  BY <1>1, SumNat
<1>3. ASSUME NEW q \in Queues PROVE ls[q] <= sum
  <2> DEFINE rest == SumFunctionOnSet(ls, Queues \ {q})
             l == ls[q]
  <2>1. sum = l + rest
    BY <1>1, SumTakes
  <2>2. rest \in Nat /\ l \in Nat
    <3> DEFINE Q == Queues \ {q}
    <3>1. IsFiniteSet(Q) /\ \A x \in Q : ls[x] \in Nat
      BY <1>1, FS_RemoveElement
    <3> HIDE DEF Q
    <3>2. SumFunctionOnSet(ls, Q) \in Nat
      BY <3>1, SumNat
    <3> QED BY <1>1, <3>2 DEF Q
  <2> HIDE DEF rest, l, sum
  <2>3. l <= sum
    BY ONLY <2>1, <2>2
  <2> QED BY <2>3 DEF l
<1> QED BY <1>1, <1>2, <1>3 DEF ls

\* One queue changes, by one packet at most.
LEMMA WaitingChanges ==
  ASSUME OwnInv, copies' \in [Queues -> Seq(Pids)], NEW q \in Queues,
         \A x \in Queues \ {q} : copies'[x] = copies[x]
  PROVE  Waiting' + Len(copies[q]) = Waiting + Len(copies'[q])
<1> DEFINE f == Lengths(copies)
           g == Lengths(copies')
<1>1. copies \in [Queues -> Seq(Pids)]
  BY DEF OwnInv
<1>2. \A x \in Queues : f[x] \in Nat /\ f[x] = Len(copies[x])
  BY <1>1, CopiesCounted
<1>3. \A x \in Queues : g[x] \in Nat /\ g[x] = Len(copies'[x])
  BY DEF Lengths
<1>4. Waiting = SumFunctionOnSet(f, Queues) /\ Waiting' = SumFunctionOnSet(g, Queues)
  BY DEF Waiting, Lengths
<1> HIDE DEF f, g
<1>5. \A x \in Queues \ {q} : f[x] = g[x]
  BY <1>2, <1>3
<1>6. SumFunctionOnSet(g, Queues) + f[q] = SumFunctionOnSet(f, Queues) + g[q]
  <2> DEFINE S == Queues
  <2>1. /\ IsFiniteSet(S) /\ q \in S /\ \A x \in S \ {q} : f[x] = g[x]
        /\ \A x \in S : f[x] \in Nat /\ g[x] \in Nat
    BY <1>2, <1>3, <1>5
  <2> HIDE DEF S
  <2>2. SumFunctionOnSet(g, S) + f[q] = SumFunctionOnSet(f, S) + g[q]
    BY ONLY <2>1, SumChanges
  <2> QED BY <2>2 DEF S
<1> QED BY <1>2, <1>3, <1>4, <1>6

LEMMA WaitingIs ==
  ASSUME OwnInv
  PROVE  Waiting \in Nat /\ \A q \in Queues : Len(copies[q]) <= Waiting
<1>1. copies \in [Queues -> Seq(Pids)] /\ Waiting = SumFunctionOnSet(Lengths(copies), Queues)
  BY DEF OwnInv, Waiting, Lengths
<1> QED BY <1>1, CopiesCounted

LEMMA CopyFits ==
  ASSUME OwnInv, OwnInv', Waiting <= Buffer, NEW f \in Flows, NEW p \in Pids, Copy(f, p)
  PROVE  Waiting' <= Buffer
<1> DEFINE q == entry[f].q
<1>1. Waiting \in Nat /\ Buffer \in Nat
  BY WaitingIs
<1>2. copies \in [Queues -> Seq(Pids)] /\ copies' \in [Queues -> Seq(Pids)]
  BY DEF OwnInv
<1>3. q \in Queues
  <2>1. Coherent(flow[f], entry[f])
    BY MemberNow
  <2> QED BY <2>1 DEF Copy, Coherent
<1>4. CASE Waiting = Buffer
  <2>1. copies' = copies
    BY <1>4 DEF Copy
  <2>2. Waiting' = Waiting
    BY <2>1 DEF Waiting
  <2> QED BY <2>2
<1>5. CASE Waiting # Buffer
  <2>1. copies' = [copies EXCEPT ![q] = Append(@, p)]
    BY <1>5 DEF Copy
  <2> HIDE DEF q
  <2>2. Len(copies'[q]) = Len(copies[q]) + 1 /\ Len(copies[q]) \in Nat
    BY <1>2, <1>3, <2>1
  <2>3. \A x \in Queues \ {q} : copies'[x] = copies[x]
    BY <1>2, <2>1
  <2>4. Waiting' + Len(copies[q]) = Waiting + Len(copies'[q])
    BY <1>2, <1>3, <2>3, WaitingChanges
  <2>5. Waiting' \in Nat
    <3>1. Waiting' = SumFunctionOnSet(Lengths(copies'), Queues)
      BY DEF Waiting, Lengths
    <3> DEFINE cs == copies'
    <3> HIDE DEF cs
    <3>2. SumFunctionOnSet(Lengths(cs), Queues) \in Nat
      BY <1>2, CopiesCounted DEF cs
    <3> QED BY <3>1, <3>2 DEF cs
  <2> DEFINE w == Waiting
             v == Waiting'
             l == Len(copies[q])
             k == Len(copies'[q])
  <2>6. v \in Nat /\ w \in Nat /\ l \in Nat /\ k = l + 1 /\ v + l = w + k /\ w <= Buffer /\ w # Buffer /\ Buffer \in Nat
    BY <1>1, <1>5, <2>2, <2>4, <2>5
  <2> HIDE DEF w, v, l, k
  <2>7. v <= Buffer
    BY ONLY <2>6
  <2> QED BY <2>7 DEF v
<1> QED BY <1>4, <1>5

LEMMA DeliverFits ==
  ASSUME OwnInv, OwnInv', Waiting <= Buffer, NEW q \in Queues, Deliver(q)
  PROVE  Waiting' <= Buffer
<1>1. Waiting \in Nat /\ Buffer \in Nat
  BY WaitingIs
<1>2. copies \in [Queues -> Seq(Pids)] /\ copies' \in [Queues -> Seq(Pids)]
  BY DEF OwnInv
<1>3. copies' = [copies EXCEPT ![q] = Tail(@)] /\ copies[q] # <<>>
  BY DEF Deliver
<1>4. Len(copies'[q]) = Len(copies[q]) - 1 /\ Len(copies[q]) \in Nat
  BY <1>2, <1>3
<1>5. \A x \in Queues \ {q} : copies'[x] = copies[x]
  BY <1>2, <1>3
<1>6. Waiting' + Len(copies[q]) = Waiting + Len(copies'[q])
  BY <1>2, <1>5, WaitingChanges
<1>7. Waiting' \in Nat
  <2>1. Waiting' = SumFunctionOnSet(Lengths(copies'), Queues)
    BY DEF Waiting, Lengths
  <2> DEFINE cs == copies'
  <2> HIDE DEF cs
  <2>2. SumFunctionOnSet(Lengths(cs), Queues) \in Nat
    BY <1>2, CopiesCounted DEF cs
  <2> QED BY <2>1, <2>2 DEF cs
<1> DEFINE w == Waiting
           v == Waiting'
           l == Len(copies[q])
           k == Len(copies'[q])
<1>8. v \in Nat /\ w \in Nat /\ l \in Nat /\ k = l - 1 /\ v + l = w + k /\ w <= Buffer /\ Buffer \in Nat
  BY <1>1, <1>4, <1>6, <1>7
<1> HIDE DEF w, v, l, k
<1>9. v <= Buffer
  BY ONLY <1>8
<1> QED BY <1>9 DEF v
-----------------------------------------------------------------------------
LEMMA InitTidy ==
  ASSUME Init
  PROVE  TidyInv
<1>1. /\ order = <<>> /\ missed = {} /\ copies = [q \in Queues |-> <<>>]
      /\ flow = [f \in Flows |-> NewFlow] /\ entry = [f \in Flows |-> NoEntry]
  BY DEF Init
<1>2. Tidy(Now)
  <2>1. Now.flow = flow /\ Now.entry = entry /\ Now.order = order /\ Now.missed = missed
    BY DEF Now
  <2>2. \A f \in Flows : Now.entry[f].tokens <= Byte /\ Kind(Now.flow[f])
    BY <1>1, <2>1, NoneThere
  <2>3. DOMAIN Now.order = {}
    BY <1>1, <2>1
  <2> QED BY <1>1, <2>1, <2>2, <2>3 DEF Tidy, Kind
<1>3. Waiting <= Buffer
  <2> DEFINE f == [q \in Queues |-> Len(copies[q])]
  <2>1. \A q \in Queues : f[q] = 0
    BY <1>1
  <2>2. SumFunctionOnSet(f, Queues) <= 0 * Cardinality(Queues)
    <3>1. \A x \in Queues : f[x] \in Nat /\ f[x] <= 0
      BY <2>1
    <3> HIDE DEF f
    <3>2. 0 \in Nat
      OBVIOUS
    <3> QED BY <3>1, <3>2, SumAtMost
  <2>3. Cardinality(Queues) \in Nat /\ Buffer \in Nat /\ SumFunctionOnSet(f, Queues) \in Nat
    <3>1. \A x \in Queues : f[x] \in Nat
      BY <2>1
    <3> HIDE DEF f
    <3>2. SumFunctionOnSet(f, Queues) \in Nat
      BY <3>1, SumNat
    <3> QED BY <3>2, FS_CardinalityType
  <2> DEFINE w == SumFunctionOnSet(f, Queues)
             z == Cardinality(Queues)
  <2>4. w \in Nat /\ z \in Nat /\ Buffer \in Nat /\ w <= 0 * z
    BY <2>2, <2>3
  <2>5. Waiting = w
    BY DEF Waiting
  <2> HIDE DEF w, z
  <2>6. w <= Buffer
    BY ONLY <2>4
  <2> QED BY <2>5, <2>6
<1> QED BY <1>2, <1>3 DEF TidyInv

\* Each flow with a filter, and no other, has its callback bound, and once; the
\* CPU queues hold no more than there is room for (flow.cpp, port.cpp, rx.cpp).
THEOREM TidyInvariant == Spec => []TidyInv
<1>1. Init => TidyInv
  BY InitTidy
<1>2. OwnInv /\ OwnInv' /\ FilterInv' /\ TidyInv /\ [Next]_vars => TidyInv'
  <2> SUFFICES ASSUME OwnInv, OwnInv', FilterInv', TidyInv, [Next]_vars PROVE TidyInv'
    OBVIOUS
  <2>0. Tidy(Now) /\ Waiting <= Buffer
    BY DEF TidyInv
  <2>w. UNCHANGED copies => Waiting' <= Buffer
    BY <2>0 DEF Waiting
  <2>t. Tidy(Now') /\ Waiting' <= Buffer => TidyInv'
    BY DEF TidyInv
  <2>1. ASSUME NEW f \in Flows, NEW q \in use.quals, NEW room \in BOOLEAN, Start(f, q, room)
        PROVE  TidyInv'
    <3>1. UNCHANGED copies
      BY <2>1 DEF Start
    <3> QED BY <2>0, <2>1, <2>w, <2>t, <3>1, StartTidy
  <2>2. ASSUME NEW f \in Flows, Stop(f) PROVE TidyInv'
    <3>1. UNCHANGED copies
      BY <2>2 DEF Stop
    <3> QED BY <2>0, <2>2, <2>w, <2>t, <3>1, StopTidy
  <2>3. ASSUME NEW f \in Flows, Destroy(f) PROVE TidyInv'
    <3>1. UNCHANGED copies
      BY <2>3 DEF Destroy
    <3> QED BY <2>0, <2>3, <2>w, <2>t, <3>1, DestroyTidy
  <2>4. ASSUME NEW f \in Flows, NEW n \in use.asks, NEW room \in BOOLEAN, SnoopStart(f, n, room)
        PROVE  TidyInv'
    <3>1. UNCHANGED copies
      BY <2>4 DEF SnoopStart
    <3> QED BY <2>0, <2>4, <2>w, <2>t, <3>1, SnoopStartTidy
  <2>5. ASSUME NEW f \in Flows, SnoopStop(f) PROVE TidyInv'
    <3>1. UNCHANGED copies
      BY <2>5 DEF SnoopStop
    <3> QED BY <2>0, <2>5, <2>w, <2>t, <3>1, SnoopStopTidy
  <2>6. ASSUME NEW f \in Flows, Dump(f) PROVE TidyInv'
    <3>1. UNCHANGED copies
      BY <2>6 DEF Dump
    <3> QED BY <2>0, <2>6, <2>w, <2>t, <3>1, PacketsTidy
  <2>7. ASSUME NEW f \in Flows, NEW p \in Pids, Copy(f, p) PROVE TidyInv'
    <3>1. Waiting' <= Buffer
      BY <2>0, <2>7, CopyFits
    <3> QED BY <2>0, <2>7, <2>t, <3>1, PacketsTidy
  <2>8. ASSUME NEW q \in Queues, Deliver(q) PROVE TidyInv'
    <3>1. Waiting' <= Buffer
      BY <2>0, <2>8, DeliverFits
    <3> QED BY <2>0, <2>8, <2>t, <3>1, PacketsTidy
  <2>9. ASSUME NEW p \in Ports, NEW full \in SUBSET Snooping, SwapPair(p, full) PROVE TidyInv'
    <3>1. UNCHANGED copies
      BY <2>9 DEF SwapPair
    <3> QED BY <2>0, <2>9, <2>w, <2>t, <3>1, SwapPairTidy
  <2>10. ASSUME UNCHANGED vars PROVE TidyInv'
    <3>1. UNCHANGED copies
      BY <2>10 DEF vars
    <3> QED BY <2>0, <2>10, <2>w, <2>t, <3>1, PacketsTidy
  <2> QED BY <2>1, <2>2, <2>3, <2>4, <2>5, <2>6, <2>7, <2>8, <2>9, <2>10 DEF Next
<1> QED BY <1>1, <1>2, OwnInvariant, FilterInvariant, PTL DEF Spec

\* The tables, the members and the queues have the types the code declares, and
\* the CPU queues never hold more than the buffer has room for.
THEOREM Rx_TypeOK == Spec => []TypeOK
<1>1. OwnInv /\ FilterInv /\ TidyInv => TypeOK
  <2> SUFFICES ASSUME OwnInv, FilterInv, TidyInv PROVE TypeOK
    OBVIOUS
  <2>1. /\ Now.flow = flow /\ Now.entry = entry /\ Now.missed = missed
        /\ entry = [f \in Flows |-> entry[f]] /\ cpu \in C!CpuTypes
    BY NowIs DEF Sound, Owners
  <2>2. \A f \in Flows : Coherent(flow[f], entry[f])
    BY MemberNow
  <2>3. Tidy(Now) /\ Waiting <= Buffer
    BY DEF TidyInv
  <2>4. res \in Resources
    BY TablesNow DEF Tabled
  <2>5. entry \in [Flows -> [q : Queues \cup {NoQ}, tokens : 0..Byte]]
    <3>1. ASSUME NEW f \in Flows PROVE entry[f] \in [q : Queues \cup {NoQ}, tokens : 0..Byte]
      <4> DEFINE e == entry[f]
      <4>1. e \in [q : Queues \cup {NoQ}, tokens : Nat] /\ e.tokens <= Byte
        BY <2>1, <2>2, <2>3 DEF Coherent, Tidy
      <4>2. Byte \in Nat
        OBVIOUS
      <4> HIDE DEF e
      <4>3. e.tokens \in 0..Byte
        <5> DEFINE k == e.tokens
        <5>1. k \in Nat /\ k <= Byte
          BY <4>1
        <5> HIDE DEF k
        <5>2. k \in 0..Byte
          BY ONLY <4>2, <5>1
        <5> QED BY <5>2 DEF k
      <4>4. e \in [q : Queues \cup {NoQ}, tokens : 0..Byte]
        BY <4>1, <4>3
      <4> QED BY <4>4 DEF e
    <3> QED BY <2>1, <3>1
  <2>6. front \in [Ports -> Pids]
    BY DEF OwnInv
  <2>7. missed \subseteq Filtering
    BY <2>1, <2>3 DEF Tidy, Installed, Filtering
  <2>8. \A q \in Queues : Len(copies[q]) <= Buffer /\ Elements(copies[q]) \subseteq Pids
    <3> SUFFICES ASSUME NEW q \in Queues PROVE Len(copies[q]) <= Buffer /\ Elements(copies[q]) \subseteq Pids
      OBVIOUS
    <3>1. copies[q] \in Seq(Pids) /\ Waiting \in Nat /\ Len(copies[q]) <= Waiting
      BY WaitingIs DEF OwnInv
    <3>2. Elements(copies[q]) \subseteq Pids
      BY <3>1 DEF Elements
    <3>3. Len(copies[q]) <= Buffer
      <4> DEFINE l == Len(copies[q])
                 w == Waiting
      <4>1. l \in Nat /\ w \in Nat /\ Buffer \in Nat /\ l <= w /\ w <= Buffer
        BY <2>3, <3>1
      <4> HIDE DEF l, w
      <4>2. l <= Buffer
        BY ONLY <4>1
      <4> QED BY <4>2 DEF l
    <3> QED BY <3>2, <3>3
  <2>9. \A f \in Flows : /\ flow[f].cpu_rx \in Queues \cup {NoQ}
                         /\ flow[f].is_started = (flow[f].rx # None)
                         /\ flow[f].is_snooping => flow[f].is_started
                         /\ Elements(flow[f].snoop_pkts) \subseteq Pids
    <3> SUFFICES ASSUME NEW f \in Flows
                 PROVE  /\ flow[f].cpu_rx \in Queues \cup {NoQ}
                        /\ flow[f].is_started = (flow[f].rx # None)
                        /\ flow[f].is_snooping => flow[f].is_started
                        /\ Elements(flow[f].snoop_pkts) \subseteq Pids
      OBVIOUS
    <3> DEFINE m == flow[f]
    <3>1. Coherent(m, entry[f]) /\ m.is_started = (m.rx # None)
      BY <2>1, <2>2, <2>3 DEF Tidy
    <3> HIDE DEF m
    <3>2. m.cpu_rx \in Queues \cup {NoQ} /\ m.snoop_pkts \in Seq(Pids) /\ (m.is_snooping => m.is_started)
      BY <3>1 DEF Coherent
    <3>3. Elements(m.snoop_pkts) \subseteq Pids
      BY <3>2 DEF Elements
    <3> QED BY <3>1, <3>2, <3>3 DEF m
  <2> QED BY <2>1, <2>4, <2>5, <2>6, <2>7, <2>8, <2>9 DEF TypeOK
<1> QED BY <1>1, OwnInvariant, FilterInvariant, TidyInvariant, PTL
=============================================================================
