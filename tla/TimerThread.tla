----------------------------- MODULE TimerThread -----------------------------
(***************************************************************************)
(* utility/src/timer.cpp: one callback thread (TIMER_THREAD) serving the   *)
(* timers that share a pair of guard operations, and the client threads    *)
(* that construct, start, stop and destroy those timers.                   *)
(*                                                                         *)
(* A locked section over m_db is one action; what the code does outside    *)
(* it (reading the clock, setting is_started) is an action of its own, so  *)
(* the interleavings the code allows are the ones explored.  The guard     *)
(* (TIMER_SAFE: the API mutex) spans several actions.                      *)
(***************************************************************************)
EXTENDS Integers, Sequences

CONSTANTS
  Timers,      \* TIMER instances sharing one TIMER_THREAD
  Clients,     \* threads that call the TIMER interface
  Thread,      \* the callback thread
  None,        \* no timer
  Delays,      \* values of after_ms passed to start()
  MaxMs,       \* TIME::max_elapsed_ms(), 2^32-1 in the program
  StandBy,     \* WAIT_STAND_BY
  LastInit,    \* what the uninitialised time_last may hold
  Horizon,     \* bound: the clock stops here; MaxMs + 1 lets it wrap for ever
  Guarded,     \* pre_op/post_op given (TIMER_SAFE), or a plain TIMER
  ClientOps,   \* which of "start", "stop", "destroy" the clients call
  CallbackOps, \* which of "start", "stop" the callbacks call
  CanThrow     \* whether a callback may throw

ASSUME TimerAssumption ==
  /\ MaxMs \in Nat /\ StandBy \in Nat /\ Horizon \in Nat
  /\ Delays \subseteq 0..MaxMs
  /\ LastInit \subseteq 0..MaxMs
  /\ Guarded \in BOOLEAN /\ CanThrow \in BOOLEAN
  /\ ClientOps \subseteq {"start", "stop", "destroy"}
  /\ CallbackOps \subseteq {"start", "stop"}
  /\ Thread \notin Clients
  /\ None \notin Timers

VARIABLES
  now,         \* TIME::get_elapsed_ms()
  time_last,   \* TIMER_THREAD::time_last
  db,          \* TIMER_THREAD::db, a delta list
  m_sync,      \* permits of the binary semaphore m_sync
  expired_ms,  \* the time-out the thread passes to m_sync.try_lock
  wait,        \* what remains of that time-out
  tm,          \* the TIMER::IMPL of each timer
  guard,       \* holder of the guard, a set of at most one thread
  pc,          \* where each thread is
  job,         \* the call each thread is executing
  cur,         \* the timer whose callback the thread runs
  left         \* history: true milliseconds until each timer is due

vars == <<now, time_last, db, m_sync, expired_ms, wait, tm, guard, pc, job, cur, left>>

Threads == Clients \cup {Thread}
Ms == 0..MaxMs
Wrap(x) == x % (MaxMs + 1)
Element == [timer : Timers, delta_ms : Ms]
-----------------------------------------------------------------------------
(* The delta list.                                                         *)

\* Elapsed time as insert and thread_run compute it across a clock wrap.
Elapsed(last, t) == IF t < last THEN MaxMs - last + t ELSE t - last

\* Offset(s)[i] is the sum of the first i deltas of s.
Offset(s) == LET f[i \in 0..Len(s)] == IF i = 0 THEN 0 ELSE f[i-1] + s[i].delta_ms
             IN  f

Listed(s, t) == \E i \in 1..Len(s) : s[i].timer = t

\* Mutant: the comparison is inverted.
Later_Inverted(s, d) == {i \in 1..Len(s) : Offset(s)[i] < d}

\* find_if with IS_TIMER_BEFORE: the first element due strictly after d, and
\* end() when there is none.
Later(s, d) == {i \in 1..Len(s) : Offset(s)[i] > d}
Place(s, d) == IF Later(s, d) = {} THEN Len(s) + 1
               ELSE CHOOSE i \in Later(s, d) : \A j \in Later(s, d) : i <= j

\* db.insert(it, e), the successor's delta reduced by that of e.
LinkAt(s, i, e) ==
  [k \in 1..Len(s)+1 |->
     IF k < i THEN s[k]
     ELSE IF k = i THEN e
     ELSE IF k = i+1 THEN [s[i] EXCEPT !.delta_ms = @ - e.delta_ms]
     ELSE s[k-1]]

\* Mutant: the successor keeps its delta.
UnlinkAt_DropDelta(s, i) == [k \in 1..Len(s)-1 |-> IF k < i THEN s[k] ELSE s[k+1]]

\* db.erase(it), the successor's delta increased by that of the element.
UnlinkAt(s, i) ==
  [k \in 1..Len(s)-1 |->
     IF k < i THEN s[k]
     ELSE IF k = i THEN [s[i+1] EXCEPT !.delta_ms = Wrap(@ + s[i].delta_ms)]
     ELSE s[k+1]]

\* Mutant: no test for a listed timer.
Insert_Twice(s, t, d) ==
  LET i == Place(s, d)
  IN  LinkAt(s, i, [timer |-> t, delta_ms |-> d - Offset(s)[i-1]])

\* The locked part of insert: nothing when the timer is listed already.
Insert(s, t, d) ==
  IF Listed(s, t) THEN s
  ELSE LET i == Place(s, d)
       IN  LinkAt(s, i, [timer |-> t, delta_ms |-> d - Offset(s)[i-1]])

\* The locked part of remove.
Remove(s, t) ==
  IF Listed(s, t) THEN UnlinkAt(s, CHOOSE i \in 1..Len(s) : s[i].timer = t) ELSE s

(* After the insertion `it` still denotes the successor, so that           *)
(* db.begin() == it never holds; only 1 == db.size() wakes the thread.     *)
Wakes(s, t) == ~Listed(s, t) /\ Len(s) = 0
-----------------------------------------------------------------------------
Idle == [op |-> "none", timer |-> None, stamp |-> 0, togo |-> 0]

Init ==
  /\ now = 0
  /\ time_last \in LastInit
  /\ db = <<>>
  /\ m_sync = 0
  /\ expired_ms = StandBy
  /\ wait = StandBy
  /\ tm = [t \in Timers |-> [life |-> "absent", is_started |-> FALSE,
                             is_periodical |-> FALSE, after_ms |-> 0]]
  /\ guard = {}
  /\ pc = [p \in Threads |-> IF p = Thread THEN "wait" ELSE "idle"]
  /\ job = [p \in Threads |-> Idle]
  /\ cur = None
  /\ left = [t \in Timers |-> 0]

Goto(p, l) == pc' = [pc EXCEPT ![p] = l]

\* Mutant: the thread looks at the list without the guard.
Take_NotThread(p) == IF Guarded /\ p # Thread THEN guard = {} /\ guard' = {p}
                                               ELSE guard' = guard

\* pre_op: the thread or the client takes the guard, when there is one.
Take(p) == IF Guarded THEN guard = {} /\ guard' = {p} ELSE guard' = guard

\* post_op.
Give(p) == guard' = guard \ {p}

(* One millisecond passes.                                                 *)
Less(x) == IF x = 0 THEN 0 ELSE x - 1
Tick ==
  /\ now # Horizon
  /\ now' = Wrap(now + 1)
  /\ wait' = Less(wait)
  /\ left' = [t \in Timers |-> Less(left[t])]
  /\ job' = [p \in Threads |-> [job[p] EXCEPT !.togo = Less(@)]]
  /\ UNCHANGED <<time_last, db, m_sync, expired_ms, tm, guard, pc, cur>>
-----------------------------------------------------------------------------
(* Calls of the TIMER interface, by a client or from within a callback.    *)

\* The thread that makes the call may run it now.
MayCall(p) == IF p = Thread THEN pc[p] = "op" /\ guard' = guard
                            ELSE pc[p] = "idle" /\ Take(p)

Return(p) == IF p = Thread THEN Goto(p, "ret") /\ guard' = guard
                           ELSE Goto(p, "idle") /\ Give(p)

\* TIMER::TIMER and set_op, which every owner calls at once.
Construct(p, t) ==
  /\ pc[p] = "idle" /\ p \in Clients /\ guard = {}
  /\ tm[t].life = "absent"
  /\ tm' = [tm EXCEPT ![t].life = "ready"]
  /\ UNCHANGED <<now, time_last, db, m_sync, expired_ms, wait, guard, pc, job, cur, left>>

\* IMPL::start up to the call of insert.
Start(p, t, d, per) ==
  /\ MayCall(p)
  /\ tm[t].life = "ready" /\ ~tm[t].is_started
  /\ tm' = [tm EXCEPT ![t].after_ms = d, ![t].is_periodical = per]
  /\ job' = [job EXCEPT ![p] = [Idle EXCEPT !.op = "start", !.timer = t]]
  /\ Goto(p, "insert")
  /\ UNCHANGED <<now, time_last, db, m_sync, expired_ms, wait, cur, left>>

\* The clock read at the top of insert.
InsertRead(p) ==
  /\ pc[p] = "insert"
  /\ job' = [job EXCEPT ![p].stamp = now, ![p].togo = tm[job[p].timer].after_ms]
  /\ Goto(p, "link")
  /\ UNCHANGED <<now, time_last, db, m_sync, expired_ms, wait, tm, guard, cur, left>>

\* The section of insert locked by m_db.
InsertLink(p) ==
  LET t == job[p].timer
  IN  /\ pc[p] = "link"
      /\ db' = Insert(db, t, Wrap(Elapsed(time_last, job[p].stamp) + tm[t].after_ms))
      /\ m_sync' = IF Wakes(db, t) THEN 1 ELSE m_sync
      /\ left' = IF Listed(db, t) THEN left ELSE [left EXCEPT ![t] = job[p].togo]
      /\ IF job[p].op = "again" THEN Give(p) /\ Goto(p, "guard")
                                ELSE guard' = guard /\ Goto(p, "mark")
      /\ job' = [job EXCEPT ![p] = IF @.op = "again" THEN Idle
                                                   ELSE [@ EXCEPT !.togo = 0, !.stamp = 0]]
      /\ UNCHANGED <<now, time_last, expired_ms, wait, tm, cur>>

\* is_started = true, after insert returned.
Mark(p) ==
  /\ pc[p] = "mark"
  /\ tm' = [tm EXCEPT ![job[p].timer].is_started = TRUE]
  /\ job' = [job EXCEPT ![p] = Idle]
  /\ Return(p)
  /\ UNCHANGED <<now, time_last, db, m_sync, expired_ms, wait, cur, left>>

\* IMPL::stop, and the destructor, up to the call of remove.
Stop(p, t, op) ==
  /\ MayCall(p)
  /\ tm[t].life = "ready"
  /\ tm' = [tm EXCEPT ![t].is_started = FALSE]
  /\ job' = [job EXCEPT ![p] = [Idle EXCEPT !.op = op, !.timer = t]]
  /\ Goto(p, IF tm[t].is_started THEN "unlink" ELSE "free")
  /\ UNCHANGED <<now, time_last, db, m_sync, expired_ms, wait, cur, left>>

\* remove, locked by m_db.
Unlink(p) ==
  /\ pc[p] = "unlink"
  /\ db' = Remove(db, job[p].timer)
  /\ left' = [left EXCEPT ![job[p].timer] = 0]
  /\ Goto(p, "free")
  /\ UNCHANGED <<now, time_last, m_sync, expired_ms, wait, tm, guard, job, cur>>

\* stop returns; a destructor then frees the instance.
Free(p) ==
  /\ pc[p] = "free"
  /\ tm' = IF job[p].op = "destroy" THEN [tm EXCEPT ![job[p].timer].life = "absent"] ELSE tm
  /\ job' = [job EXCEPT ![p] = Idle]
  /\ Return(p)
  /\ UNCHANGED <<now, time_last, db, m_sync, expired_ms, wait, cur, left>>
-----------------------------------------------------------------------------
(* thread_run.                                                             *)

\* m_sync.try_lock(expired_ms) returns, locked or timed out (a wait that the
\* clock's bound cuts short counts as timed out).
Wake ==
  /\ pc[Thread] = "wait"
  /\ m_sync = 1 \/ wait = 0 \/ now = Horizon
  /\ m_sync' = 0
  /\ wait' = 0
  /\ Goto(Thread, "guard")
  /\ UNCHANGED <<now, time_last, db, expired_ms, tm, guard, job, cur, left>>

\* A round of the handling loop begins: pre_op, then the clock.
EnterRound ==
  /\ pc[Thread] = "guard"
  /\ Take(Thread)
  /\ job' = [job EXCEPT ![Thread].stamp = now]
  /\ Goto(Thread, "db")
  /\ UNCHANGED <<now, time_last, db, m_sync, expired_ms, wait, tm, cur, left>>

SinceLast == Elapsed(time_last, job[Thread].stamp)

\* Mutant: off by one.
Due_Early(e) == e.delta_ms <= SinceLast + 1
Due(e) == e.delta_ms <= SinceLast

\* Mutant: a one-shot timer stays started.
StaysStarted_Always(t) == tm[t].is_started
StaysStarted(t) == tm[t].is_periodical

\* The head is due: unlink it, and skip it if it has been stopped.
Pop ==
  LET t == db[1].timer
  IN  /\ pc[Thread] = "db" /\ db # <<>>
      /\ Due(db[1])
      /\ db' = UnlinkAt(db, 1)
      /\ left' = [left EXCEPT ![t] = 0]
      /\ IF tm[t].is_started
         THEN /\ tm' = [tm EXCEPT ![t].is_started = StaysStarted(t)]
              /\ cur' = t
              /\ Goto(Thread, "op") /\ guard' = guard
         ELSE /\ Goto(Thread, "guard") /\ Give(Thread)
              /\ UNCHANGED <<tm, cur>>
      /\ job' = [job EXCEPT ![Thread] = Idle]
      /\ UNCHANGED <<now, time_last, m_sync, expired_ms, wait>>

\* Leaves the handling loop and waits on m_sync for at most ms.
Sleep(ms) ==
  /\ expired_ms' = ms
  /\ wait' = ms
  /\ job' = [job EXCEPT ![Thread] = Idle]
  /\ Goto(Thread, "wait") /\ Give(Thread)
  /\ UNCHANGED <<now, m_sync, tm, cur, left>>

\* The head is not due yet: rebase the list on the clock just read.
Rebase ==
  /\ pc[Thread] = "db" /\ db # <<>>
  /\ ~Due(db[1])
  /\ time_last' = job[Thread].stamp
  /\ db' = [db EXCEPT ![1].delta_ms = @ - SinceLast]
  /\ Sleep(db[1].delta_ms - SinceLast)

\* No timer: time_last keeps its old value.
StandDown ==
  /\ pc[Thread] = "db" /\ db = <<>>
  /\ Sleep(StandBy)
  /\ UNCHANGED <<time_last, db>>

\* The callback ends without touching a timer.
PlainCallback ==
  /\ pc[Thread] = "op"
  /\ Goto(Thread, "ret")
  /\ UNCHANGED <<now, time_last, db, m_sync, expired_ms, wait, tm, guard, job, cur, left>>

\* timer->op() returned: a periodic timer still started is inserted again.
AfterOp ==
  /\ pc[Thread] = "ret"
  /\ IF tm[cur].is_started /\ tm[cur].is_periodical
     THEN /\ job' = [job EXCEPT ![Thread] = [Idle EXCEPT !.op = "again", !.timer = cur]]
          /\ Goto(Thread, "insert") /\ guard' = guard
     ELSE /\ Goto(Thread, "guard") /\ Give(Thread)
          /\ UNCHANGED job
  /\ cur' = None
  /\ UNCHANGED <<now, time_last, db, m_sync, expired_ms, wait, tm, left>>

\* Mutant: the guard is not released on the way out of the try block.
ThrowOp_KeepGuard ==
  /\ pc[Thread] = "ret" /\ CanThrow
  /\ cur' = None
  /\ Goto(Thread, "guard") /\ guard' = guard
  /\ UNCHANGED <<now, time_last, db, m_sync, expired_ms, wait, tm, job, left>>

\* timer->op() threw: EXP_FREE_END_NR goes on with the next round.
ThrowOp ==
  /\ pc[Thread] = "ret" /\ CanThrow
  /\ cur' = None
  /\ Goto(Thread, "guard") /\ Give(Thread)
  /\ UNCHANGED <<now, time_last, db, m_sync, expired_ms, wait, tm, job, left>>
-----------------------------------------------------------------------------
ClientStep(p) ==
  \/ \E t \in Timers :
       \/ Construct(p, t)
       \/ /\ "start" \in ClientOps
          /\ \E d \in Delays, per \in BOOLEAN : Start(p, t, d, per)
       \/ "stop" \in ClientOps /\ Stop(p, t, "stop")
       \/ "destroy" \in ClientOps /\ Stop(p, t, "destroy")

InCall(p) == InsertRead(p) \/ InsertLink(p) \/ Mark(p) \/ Unlink(p) \/ Free(p)

CallbackCall ==
  \E t \in Timers :
    \/ /\ "start" \in CallbackOps
       /\ \E d \in Delays, per \in BOOLEAN : Start(Thread, t, d, per)
    \/ "stop" \in CallbackOps /\ Stop(Thread, t, "stop")

ThreadStep ==
  \/ Wake \/ EnterRound \/ Pop \/ Rebase \/ StandDown
  \/ CallbackCall \/ PlainCallback \/ AfterOp \/ ThrowOp \/ InCall(Thread)

Next ==
  \/ Tick
  \/ ThreadStep
  \/ \E p \in Clients : ClientStep(p) \/ InCall(p)

Spec == Init /\ [][Next]_vars

\* Scheduling: time passes, a runnable thread runs, and the semaphore behind
\* the guard does not overtake a waiter for ever.
Fairness ==
  /\ WF_vars(Tick)
  /\ WF_vars(ThreadStep)
  /\ SF_vars(EnterRound)
  /\ \A p \in Clients : WF_vars(InCall(p))

FairSpec == Spec /\ Fairness
=============================================================================
