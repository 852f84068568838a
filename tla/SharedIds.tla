------------------------------ MODULE SharedIds ------------------------------
(***************************************************************************)
(* Identifiers shared by their users: a multimap from a key to a           *)
(* shared_ptr<UNIQUE>, the way udf.cpp shares chunks, tpid.cpp tag values  *)
(* and vfp_rx.cpp classes.  A table holds the number of users and the      *)
(* identifier of each key, and what UNIQUE keeps: the free list, served    *)
(* first in first out, and the highest identifier ever put on it.          *)
(***************************************************************************)
EXTENDS Integers, Sequences, SequencesExt

CONSTANT Step  \* identifiers put on the free list when it runs empty

ASSUME StepAssumption == Step \in Nat \ {0}

NoId == -1

Tables(K, lowest, highest) ==
  [refs : [K -> Nat], id : [K -> lowest..highest \cup {NoId}],
   free : Seq(lowest..highest), top : (lowest - 1)..highest]

NewTable(K, lowest) ==
  [refs |-> [k \in K |-> 0], id |-> [k \in K |-> NoId], free |-> <<>>, top |-> lowest - 1]

InUse(t, k) == t.refs[k] > 0

\* new_id_segment throws when every identifier is out.
CanHold(t, k, highest) == InUse(t, k) \/ t.free # <<>> \/ t.top < highest

\* Mutant: the last segment is as long as the others.
Expanded_Whole(t, highest) ==
  IF t.free # <<>> THEN t
  ELSE [t EXCEPT !.free = [i \in 1..Step |-> t.top + i], !.top = @ + Step]

\* expand_free: the next segment of identifiers, cut at the highest.
Expanded(t, highest) ==
  LET top == IF highest - t.top < Step THEN highest ELSE t.top + Step
  IN  IF t.free # <<>> THEN t
      ELSE [t EXCEPT !.free = [i \in 1..(top - t.top) |-> t.top + i], !.top = top]

\* One more user of the key; the first one takes an identifier.
Hold(t, k, highest) ==
  LET e == Expanded(t, highest)
  IN  IF InUse(t, k) THEN [t EXCEPT !.refs[k] = @ + 1]
      ELSE [e EXCEPT !.refs[k] = 1, !.id[k] = Head(e.free), !.free = Tail(e.free)]

\* One user less; the last one gives the identifier back.
Drop(t, k) ==
  IF t.refs[k] > 1 THEN [t EXCEPT !.refs[k] = @ - 1]
  ELSE [t EXCEPT !.refs[k] = 0, !.id[k] = NoId, !.free = Append(@, t.id[k])]

\* Do(r, x) for the elements x of s, up to the first that Can(r, x) refuses:
\* what a constructor that throws half way has done.
Each(Can(_, _), Do(_, _), r, s) ==
  FoldLeft(LAMBDA a, x : IF a.ok /\ Can(a.r, x) THEN [a EXCEPT !.r = Do(a.r, x), !.n = @ + 1]
                         ELSE [a EXCEPT !.ok = FALSE],
           [r |-> r, ok |-> TRUE, n |-> 0], s)
=============================================================================
