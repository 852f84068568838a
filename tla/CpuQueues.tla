------------------------------ MODULE CpuQueues ------------------------------
(***************************************************************************)
(* Queues of the CPU port (cpu.cpp).  A copied packet is told apart by its *)
(* source port and queue only, so each observer (CPU::RX) takes one queue  *)
(* on all its ports and binds its callback to those pairs.  Operators on a *)
(* record c: c.used, the pairs given out, and c.dispatch, the owner of the *)
(* callback bound to a pair.                                               *)
(***************************************************************************)
EXTENDS Integers, FiniteSets

CONSTANTS
  Pids,     \* port indexes of the unit
  Queues,   \* min_cpu_q..max_cpu_q
  Owners,   \* owners of callbacks
  Nobody

Pairs == Pids \X Queues
CpuTypes == [used : SUBSET Pairs, dispatch : [Pairs -> Owners \cup {Nobody}]]

\* db_init
NewCpu == [used |-> {}, dispatch |-> [x \in Pairs |-> Nobody]]

\* prefer_factor: ports that use the queue.
prefer_factor(c, q) == Cardinality({p \in Pids : <<p, q>> \in c.used})

\* Mutant: a queue will do when it is free on one of the ports.
Available_OnePort(c, ports) == {q \in Queues : \E p \in ports : <<p, q>> \notin c.used}

Available(c, ports) == {q \in Queues : \A p \in ports : <<p, q>> \notin c.used}

\* db_alloc: of the queues free on all the ports the fullest, the first of
\* equals.
Chosen(c, ports) ==
  CHOOSE q \in Available(c, ports) : \A r \in Available(c, ports) :
    \/ prefer_factor(c, r) < prefer_factor(c, q)
    \/ prefer_factor(c, r) = prefer_factor(c, q) /\ q <= r

\* CPU::RX::RX, then bind.
Bound(c, ports, q, o) ==
  [used |-> c.used \cup (ports \X {q}),
   dispatch |-> [x \in Pairs |-> IF x \in ports \X {q} THEN o ELSE c.dispatch[x]]]

\* ~RX: unbind, then db_free.
Freed(c, ports, q) ==
  [used |-> c.used \ (ports \X {q}),
   dispatch |-> [x \in Pairs |-> IF x \in ports \X {q} THEN Nobody ELSE c.dispatch[x]]]
=============================================================================
