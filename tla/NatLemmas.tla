------------------------------- MODULE NatLemmas -------------------------------
(***************************************************************************)
(* Facts about natural numbers, finite sets and sums over them that the    *)
(* proofs of several modules share.                                        *)
(***************************************************************************)
EXTENDS Integers, Functions, FiniteSetTheorems, WellFoundedInduction, TLAPS

\* Every non-empty set of naturals has a least element.
LEMMA NatMin ==
  ASSUME NEW T, T \subseteq Nat, T # {}
  PROVE  \E x \in T : \A y \in T : x <= y
<1>1. PICK x \in T : \A y \in T : <<y, x>> \notin OpToRel(<, Nat)
  BY NatLessThanWellFounded, WFMin
<1>2. ASSUME NEW y \in T PROVE x <= y
  <2>1. ~(y < x)
    BY <1>1, <1>2 DEF OpToRel
  <2> QED
    BY <2>1
<1> QED BY <1>1, <1>2

\* Division with remainder.
LEMMA DivMod ==
  ASSUME NEW a \in Nat, NEW n \in Nat, n # 0
  PROVE  a \div n \in Nat /\ a % n \in 0..n-1 /\ a = n * (a \div n) + (a % n)
<1>1. a % n \in 0..n-1
  OBVIOUS
<1>2. a = n * (a \div n) + (a % n)
  OBVIOUS
<1>3. a \div n \in Nat
  OBVIOUS
<1> QED BY <1>1, <1>2, <1>3

\* There is one remainder only.
LEMMA ModIs ==
  ASSUME NEW k \in Nat, NEW n \in Nat, n # 0, NEW s \in 0..n-1
  PROVE  (n * k + s) % n = s
<1> DEFINE a == n * k + s
           q == a \div n
           r == a % n
<1>1. a \in Nat
  OBVIOUS
<1>2. q \in Nat /\ r \in 0..n-1 /\ a = n * q + r
  BY <1>1, DivMod
<1> HIDE DEF q, r
<1>3. n * (k - q) = r - s /\ n * (q - k) = s - r
  BY <1>2
<1>4. k - q >= 1 => n * (k - q) >= n
  BY <1>2
<1>5. q - k >= 1 => n * (q - k) >= n
  BY <1>2
<1>6. k = q
  BY <1>2, <1>3, <1>4, <1>5
<1> QED BY <1>2, <1>6 DEF r
-----------------------------------------------------------------------------
\* Induction over the subsets of a finite set: a set of subsets that has the
\* empty one, and each whose parts without one element it has, has them all.
LEMMA SetInduction ==
  ASSUME NEW S, IsFiniteSet(S), NEW Good, {} \in Good,
         \A T \in SUBSET S :
           T # {} /\ (\A x \in T : T \ {x} \in Good) => T \in Good
  PROVE  \A T \in SUBSET S : T \in Good
<1> DEFINE Bad == {n \in Nat : \E T \in SUBSET S : T \notin Good /\ n = Cardinality(T)}
<1>1. SUFFICES ASSUME NEW U \in SUBSET S, U \notin Good PROVE FALSE
  OBVIOUS
<1>2. \A T \in SUBSET S : IsFiniteSet(T) /\ Cardinality(T) \in Nat
  BY FS_Subset, FS_CardinalityType
<1>3. PICK n \in Bad : \A m \in Bad : n <= m
  <2>1. Bad \subseteq Nat /\ Bad # {}
    BY <1>1, <1>2
  <2> HIDE DEF Bad
  <2> QED
    BY <2>1, NatMin
<1>4. PICK T \in SUBSET S : T \notin Good /\ n = Cardinality(T)
  <2>1. n \in Bad
    BY <1>3
  <2> QED
    BY <2>1
<1>5. T # {}
  BY <1>4
<1>6. ASSUME NEW x \in T, T \ {x} \notin Good PROVE FALSE
  <2>1. Cardinality(T \ {x}) = Cardinality(T) - 1
    BY <1>2, FS_RemoveElement
  <2>2. T \ {x} \in SUBSET S /\ Cardinality(T \ {x}) \in Nat
    BY <1>2
  <2>3. Cardinality(T \ {x}) \in Bad
    BY <1>6, <2>2
  <2>4. n <= Cardinality(T \ {x})
    <3> HIDE DEF Bad
    <3> QED
      BY <1>3, <2>3
  <2> QED
    BY <1>2, <1>4, <2>1, <2>4
<1> QED
  BY <1>4, <1>5, <1>6
-----------------------------------------------------------------------------
\* g maps each subset of S to the sum of f over it, as the fold computes it.
Adds(f, S, g) ==
  g = [s \in S |-> IF s = {} THEN 0
                   ELSE LET x == CHOOSE x \in s : TRUE
                        IN  f[x] + g[s \ {x}]]

\* The subsets of S of at most n elements.
UpTo(S, n) == {s \in SUBSET S : Cardinality(s) <= n}

\* There is such a function.
LEMMA AddsExists ==
  ASSUME NEW f, NEW S, IsFiniteSet(S)
  PROVE  \E g : Adds(f, SUBSET S, g)
<1> DEFINE Bad == {n \in Nat : ~ \E g : Adds(f, UpTo(S, n), g)}
<1>1. \A T \in SUBSET S : IsFiniteSet(T) /\ Cardinality(T) \in Nat
  BY FS_Subset, FS_CardinalityType
<1>2. Bad = {}
  <2>1. SUFFICES ASSUME Bad # {} PROVE FALSE
    OBVIOUS
  <2>2. PICK n \in Bad : \A m \in Bad : n <= m
    <3>1. Bad \subseteq Nat
      OBVIOUS
    <3> HIDE DEF Bad
    <3> QED
      BY <2>1, <3>1, NatMin
  <2>3. n \in Nat /\ ~ \E g : Adds(f, UpTo(S, n), g)
    BY <2>2
  <2>4. n # 0
    <3>1. \A s \in UpTo(S, 0) : s = {}
      BY <1>1, FS_EmptySet DEF UpTo
    <3>2. Adds(f, UpTo(S, 0), [s \in UpTo(S, 0) |-> 0])
      BY <3>1 DEF Adds
    <3> QED
      BY <2>3, <3>2
  <2>5. PICK g : Adds(f, UpTo(S, n - 1), g)
    <3>1. n - 1 \in Nat /\ ~(n <= n - 1)
      BY <2>3, <2>4
    <3>2. n - 1 \notin Bad
      <4> HIDE DEF Bad
      <4> QED
        BY <2>2, <3>1
    <3> QED
      BY <3>1, <3>2
  <2> DEFINE h == [s \in UpTo(S, n) |->
                     IF s = {} THEN 0
                     ELSE LET x == CHOOSE x \in s : TRUE IN f[x] + g[s \ {x}]]
  <2>6. ASSUME NEW s \in UpTo(S, n - 1)
        PROVE  s \in UpTo(S, n) /\ h[s] = g[s]
    <3>1. s \in UpTo(S, n)
      BY <1>1, <2>3 DEF UpTo
    <3>2. g[s] = IF s = {} THEN 0
                 ELSE LET x == CHOOSE x \in s : TRUE IN f[x] + g[s \ {x}]
      BY <2>5 DEF Adds
    <3> QED
      BY <3>1, <3>2
  <2>7. ASSUME NEW s \in UpTo(S, n), s # {}, NEW x \in s
        PROVE  s \ {x} \in UpTo(S, n - 1)
    <3>1. Cardinality(s \ {x}) = Cardinality(s) - 1
      BY <1>1, FS_RemoveElement DEF UpTo
    <3>2. s \ {x} \in SUBSET S /\ Cardinality(s) \in Nat /\ Cardinality(s) <= n
      BY <1>1 DEF UpTo
    <3> QED
      BY <2>3, <3>1, <3>2 DEF UpTo
  <2>8. \A s \in UpTo(S, n) :
          h[s] = IF s = {} THEN 0
                 ELSE LET x == CHOOSE x \in s : TRUE IN f[x] + h[s \ {x}]
    <3>1. ASSUME NEW s \in UpTo(S, n), s # {}
          PROVE  h[s] = f[CHOOSE x \in s : TRUE] + h[s \ {CHOOSE x \in s : TRUE}]
      <4> DEFINE x == CHOOSE x \in s : TRUE
      <4>1. x \in s
        BY <3>1
      <4>2. h[s] = f[x] + g[s \ {x}]
        BY <3>1
      <4> HIDE DEF x, h
      <4>3. h[s \ {x}] = g[s \ {x}]
        BY <2>6, <2>7, <3>1, <4>1
      <4>4. h[s] = f[x] + h[s \ {x}]
        BY <4>2, <4>3
      <4> QED
        BY <4>4 DEF x
    <3>2. ASSUME NEW s \in UpTo(S, n), s = {}
          PROVE  h[s] = 0
      BY <3>2
    <3> HIDE DEF h
    <3> QED
      BY <3>1, <3>2
  <2>9. h = [s \in UpTo(S, n) |-> h[s]]
    OBVIOUS
  <2>10. Adds(f, UpTo(S, n), h)
    <3> HIDE DEF h
    <3> QED
      BY <2>8, <2>9 DEF Adds
  <2> QED
    BY <2>3, <2>10
<1>3. Cardinality(S) \notin Bad /\ Cardinality(S) \in Nat
  BY <1>1, <1>2
<1>4. PICK g : Adds(f, UpTo(S, Cardinality(S)), g)
  BY <1>3
<1>5. UpTo(S, Cardinality(S)) = SUBSET S
  <2>1. ASSUME NEW T \in SUBSET S PROVE Cardinality(T) <= Cardinality(S)
    BY FS_Subset
  <2> QED
    BY <2>1 DEF UpTo
<1> QED
  BY <1>4, <1>5

\* The library's sum is one of them.
LEMMA SumIs ==
  ASSUME NEW f, NEW S, IsFiniteSet(S)
  PROVE  \E g : Adds(f, SUBSET S, g) /\ SumFunctionOnSet(f, S) = g[S]
<1> DEFINE g == CHOOSE g : Adds(f, SUBSET S, g)
<1>1. Adds(f, SUBSET S, g)
  BY AddsExists
<1>2. SumFunctionOnSet(f, S) = g[S]
  BY DEF SumFunctionOnSet, FoldFunctionOnSet, MapThenFoldSet, Adds
<1> QED
  BY <1>1, <1>2

\* The sum over no elements.
LEMMA SumEmpty ==
  ASSUME NEW f
  PROVE  SumFunctionOnSet(f, {}) = 0
<1>1. PICK g : Adds(f, SUBSET {}, g) /\ SumFunctionOnSet(f, {}) = g[{}]
  BY FS_EmptySet, SumIs
<1>2. {} \in SUBSET {}
  OBVIOUS
<1> QED
  BY <1>1, <1>2 DEF Adds

\* Any two that agree on the values of f agree where both are defined.
LEMMA AddsSame ==
  ASSUME NEW S, IsFiniteSet(S), NEW A, NEW B, SUBSET S \subseteq A, SUBSET S \subseteq B,
         NEW f, NEW e, \A x \in S : f[x] = e[x],
         NEW g, Adds(f, A, g), NEW h, Adds(e, B, h)
  PROVE  g[S] = h[S]
<1> DEFINE Good == {T \in SUBSET S : g[T] = h[T]}
<1>1. ASSUME NEW T \in SUBSET S
      PROVE  /\ g[T] = IF T = {} THEN 0
                       ELSE LET x == CHOOSE x \in T : TRUE IN f[x] + g[T \ {x}]
             /\ h[T] = IF T = {} THEN 0
                       ELSE LET x == CHOOSE x \in T : TRUE IN e[x] + h[T \ {x}]
  BY DEF Adds
<1>2. {} \in Good
  BY <1>1
<1>3. ASSUME NEW T \in SUBSET S, T # {}, \A x \in T : T \ {x} \in Good
      PROVE  T \in Good
  <2> DEFINE x == CHOOSE x \in T : TRUE
  <2>1. x \in T
    BY <1>3
  <2>2. g[T] = f[x] + g[T \ {x}] /\ h[T] = e[x] + h[T \ {x}]
    BY <1>1, <1>3
  <2> HIDE DEF x
  <2>3. g[T \ {x}] = h[T \ {x}] /\ f[x] = e[x]
    BY <1>3, <2>1
  <2> QED
    BY <2>2, <2>3
<1> HIDE DEF Good
<1>4. \A T \in SUBSET S :
          T # {} /\ (\A x \in T : T \ {x} \in Good) => T \in Good
  BY <1>3
<1>5. \A T \in SUBSET S : T \in Good
  BY <1>2, <1>4, SetInduction
<1> QED
  BY <1>5 DEF Good

\* Sums of what is the same are the same.
LEMMA SumSame ==
  ASSUME NEW S, IsFiniteSet(S), NEW f, NEW g, \A x \in S : f[x] = g[x]
  PROVE  SumFunctionOnSet(f, S) = SumFunctionOnSet(g, S)
<1>1. PICK a : Adds(f, SUBSET S, a) /\ SumFunctionOnSet(f, S) = a[S]
  BY SumIs
<1>2. PICK b : Adds(g, SUBSET S, b) /\ SumFunctionOnSet(g, S) = b[S]
  BY SumIs
<1> QED
  BY <1>1, <1>2, AddsSame

\* The fold takes the elements in some order.
LEMMA SumPicks ==
  ASSUME NEW S, IsFiniteSet(S), S # {}, NEW f
  PROVE  \E x \in S : SumFunctionOnSet(f, S) = f[x] + SumFunctionOnSet(f, S \ {x})
<1> DEFINE x == CHOOSE x \in S : TRUE
<1>1. PICK a : Adds(f, SUBSET S, a) /\ SumFunctionOnSet(f, S) = a[S]
  BY SumIs
<1>2. a[S] = f[x] + a[S \ {x}]
  BY <1>1 DEF Adds
<1>3. x \in S
  OBVIOUS
<1> HIDE DEF x
<1>4. PICK b : Adds(f, SUBSET (S \ {x}), b) /\ SumFunctionOnSet(f, S \ {x}) = b[S \ {x}]
  BY FS_RemoveElement, SumIs
<1>5. a[S \ {x}] = b[S \ {x}]
  <2> DEFINE T == S \ {x}
  <2>1. IsFiniteSet(T) /\ SUBSET T \subseteq SUBSET S
    BY FS_RemoveElement
  <2>2. Adds(f, SUBSET S, a) /\ Adds(f, SUBSET T, b)
    BY <1>1, <1>4
  <2> HIDE DEF T
  <2>3. a[T] = b[T]
    BY <2>1, <2>2, AddsSame
  <2> QED
    BY <2>3 DEF T
<1> QED
  BY <1>1, <1>2, <1>3, <1>4, <1>5

\* Sums of naturals are naturals.
LEMMA SumNat ==
  ASSUME NEW S, IsFiniteSet(S), NEW f, \A x \in S : f[x] \in Nat
  PROVE  SumFunctionOnSet(f, S) \in Nat
<1> DEFINE Good == {T \in SUBSET S : SumFunctionOnSet(f, T) \in Nat}
<1>1. {} \in Good
  BY SumEmpty
<1>2. ASSUME NEW T \in SUBSET S, T # {}, \A x \in T : T \ {x} \in Good
      PROVE  T \in Good
  <2>1. PICK x \in T : SumFunctionOnSet(f, T) = f[x] + SumFunctionOnSet(f, T \ {x})
    BY <1>2, FS_Subset, SumPicks
  <2>2. f[x] \in Nat /\ SumFunctionOnSet(f, T \ {x}) \in Nat
    BY <1>2
  <2> QED
    BY <2>1, <2>2
<1> HIDE DEF Good
<1>3. \A T \in SUBSET S :
          T # {} /\ (\A x \in T : T \ {x} \in Good) => T \in Good
  BY <1>2
<1>4. \A T \in SUBSET S : T \in Good
  BY <1>1, <1>3, SetInduction
<1> QED
  BY <1>4 DEF Good

\* Any element may be taken first.
LEMMA SumTakes ==
  ASSUME NEW S, IsFiniteSet(S), NEW f, \A y \in S : f[y] \in Nat, NEW x \in S
  PROVE  SumFunctionOnSet(f, S) = f[x] + SumFunctionOnSet(f, S \ {x})
<1> DEFINE Good == {T \in SUBSET S : \A u \in T :
                      SumFunctionOnSet(f, T) = f[u] + SumFunctionOnSet(f, T \ {u})}
<1>1. {} \in Good
  OBVIOUS
<1>2. ASSUME NEW T \in SUBSET S, T # {}, \A u \in T : T \ {u} \in Good
      PROVE  T \in Good
  <2> HIDE DEF Good
  <2>1. PICK v \in T : SumFunctionOnSet(f, T) = f[v] + SumFunctionOnSet(f, T \ {v})
    BY <1>2, FS_Subset, SumPicks
  <2> USE DEF Good
  <2>2. ASSUME NEW u \in T
        PROVE  SumFunctionOnSet(f, T) = f[u] + SumFunctionOnSet(f, T \ {u})
    <3>1. CASE u = v
      BY <2>1, <3>1
    <3>2. CASE u # v
      <4>1. u \in T \ {v} /\ v \in T \ {u} /\ (T \ {v}) \ {u} = (T \ {u}) \ {v}
        BY <3>2
      <4>2. SumFunctionOnSet(f, T \ {v}) = f[u] + SumFunctionOnSet(f, (T \ {v}) \ {u})
        BY <1>2, <4>1
      <4>3. SumFunctionOnSet(f, T \ {u}) = f[v] + SumFunctionOnSet(f, (T \ {u}) \ {v})
        BY <1>2, <4>1
      <4>4. f[u] \in Nat /\ f[v] \in Nat
        OBVIOUS
      <4>5. SumFunctionOnSet(f, (T \ {v}) \ {u}) \in Nat
        <5>1. IsFiniteSet((T \ {v}) \ {u})
          BY FS_Subset
        <5> QED
          BY <5>1, SumNat
      <4> QED
        BY <2>1, <4>1, <4>2, <4>3, <4>4, <4>5
    <3> QED
      BY <3>1, <3>2
  <2> QED
    BY <2>2
<1> HIDE DEF Good
<1>3. \A T \in SUBSET S :
          T # {} /\ (\A u \in T : T \ {u} \in Good) => T \in Good
  BY <1>2
<1>4. \A T \in SUBSET S : T \in Good
  BY <1>1, <1>3, SetInduction
<1> QED
  BY <1>4 DEF Good

\* One value changed changes the sum by as much.
LEMMA SumChanges ==
  ASSUME NEW S, IsFiniteSet(S), NEW x \in S, NEW f, NEW g,
         \A y \in S : f[y] \in Nat /\ g[y] \in Nat, \A y \in S \ {x} : f[y] = g[y]
  PROVE  SumFunctionOnSet(g, S) + f[x] = SumFunctionOnSet(f, S) + g[x]
<1>1. SumFunctionOnSet(f, S) = f[x] + SumFunctionOnSet(f, S \ {x})
  BY SumTakes
<1>2. SumFunctionOnSet(g, S) = g[x] + SumFunctionOnSet(g, S \ {x})
  BY SumTakes
<1>3. IsFiniteSet(S \ {x})
  BY FS_RemoveElement
<1>4. SumFunctionOnSet(f, S \ {x}) = SumFunctionOnSet(g, S \ {x})
  BY <1>3, SumSame
<1>5. SumFunctionOnSet(f, S \ {x}) \in Nat
  BY <1>3, SumNat
<1> QED
  BY <1>1, <1>2, <1>4, <1>5

\* A sum of values that lie at or below a bound.
LEMMA SumBound ==
  ASSUME NEW S, IsFiniteSet(S), NEW f, NEW g,
         \A x \in S : f[x] \in Nat /\ g[x] \in Nat /\ f[x] <= g[x]
  PROVE  SumFunctionOnSet(f, S) <= SumFunctionOnSet(g, S)
<1> DEFINE Good == {T \in SUBSET S : SumFunctionOnSet(f, T) <= SumFunctionOnSet(g, T)}
<1>1. {} \in Good
  BY SumEmpty
<1>2. ASSUME NEW T \in SUBSET S, T # {}, \A x \in T : T \ {x} \in Good
      PROVE  T \in Good
  <2>1. PICK x \in T : TRUE
    BY <1>2
  <2>2. IsFiniteSet(T) /\ IsFiniteSet(T \ {x})
    BY FS_Subset
  <2>3. /\ SumFunctionOnSet(f, T) = f[x] + SumFunctionOnSet(f, T \ {x})
        /\ SumFunctionOnSet(g, T) = g[x] + SumFunctionOnSet(g, T \ {x})
    BY <2>2, SumTakes
  <2>4. SumFunctionOnSet(f, T \ {x}) \in Nat /\ SumFunctionOnSet(g, T \ {x}) \in Nat
    BY <2>2, SumNat
  <2>5. SumFunctionOnSet(f, T \ {x}) <= SumFunctionOnSet(g, T \ {x})
    BY <1>2
  <2> QED
    BY <2>3, <2>4, <2>5
<1> HIDE DEF Good
<1>3. \A T \in SUBSET S :
          T # {} /\ (\A x \in T : T \ {x} \in Good) => T \in Good
  BY <1>2
<1>4. \A T \in SUBSET S : T \in Good
  BY <1>1, <1>3, SetInduction
<1> QED
  BY <1>4 DEF Good

\* A sum of values that are at most b.
LEMMA SumAtMost ==
  ASSUME NEW S, IsFiniteSet(S), NEW f, NEW b \in Nat,
         \A x \in S : f[x] \in Nat /\ f[x] <= b
  PROVE  SumFunctionOnSet(f, S) <= b * Cardinality(S)
<1> DEFINE Good == {T \in SUBSET S : SumFunctionOnSet(f, T) <= b * Cardinality(T)}
<1>1. {} \in Good
  BY SumEmpty, FS_EmptySet
<1>2. ASSUME NEW T \in SUBSET S, T # {}, \A x \in T : T \ {x} \in Good
      PROVE  T \in Good
  <2>1. PICK x \in T : TRUE
    BY <1>2
  <2>2. IsFiniteSet(T) /\ IsFiniteSet(T \ {x})
    BY FS_Subset
  <2>3. SumFunctionOnSet(f, T) = f[x] + SumFunctionOnSet(f, T \ {x})
    BY <2>2, SumTakes
  <2>4. SumFunctionOnSet(f, T \ {x}) \in Nat
    BY <2>2, SumNat
  <2>5. SumFunctionOnSet(f, T \ {x}) <= b * Cardinality(T \ {x})
    BY <1>2
  <2>6. /\ Cardinality(T) \in Nat /\ Cardinality(T \ {x}) \in Nat
        /\ Cardinality(T) = Cardinality(T \ {x}) + 1
    BY <2>2, FS_RemoveElement, FS_CardinalityType
  <2> HIDE DEF Good
  <2>7. b * Cardinality(T) = b * Cardinality(T \ {x}) + b
    BY <2>6
  <2>8. b * Cardinality(T \ {x}) \in Nat
    BY <2>6
  <2>9. f[x] \in Nat /\ f[x] <= b
    OBVIOUS
  <2>10. SumFunctionOnSet(f, T) <= b * Cardinality(T)
    BY <2>3, <2>4, <2>5, <2>7, <2>8, <2>9
  <2> QED
    BY <2>10 DEF Good
<1> HIDE DEF Good
<1>3. \A T \in SUBSET S :
        T # {} /\ (\A x \in T : T \ {x} \in Good) => T \in Good
  BY <1>2
<1>4. \A T \in SUBSET S : T \in Good
  BY <1>1, <1>3, SetInduction
<1> QED
  BY <1>4 DEF Good
=============================================================================
