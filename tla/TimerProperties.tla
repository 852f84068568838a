--------------------------- MODULE TimerProperties ---------------------------
(***************************************************************************)
(* What TIMER_THREAD guarantees of its delta list and its timers, and the  *)
(* refinement of TimerService: the list stands for the set of armed timers *)
(* and the true time left of each.                                         *)
(***************************************************************************)
EXTENDS TimerThread

Locations == {"wait", "guard", "db", "op", "ret", "idle",
              "insert", "link", "mark", "unlink", "free"}

Job == [op : {"none", "start", "again", "stop", "destroy"},
        timer : Timers \cup {None}, stamp : Ms, togo : Ms]

Impl == [life : {"absent", "ready"}, is_started : BOOLEAN,
         is_periodical : BOOLEAN, after_ms : Ms]

\* Every variable has its type: the UINT32 deltas of TIMER_THREAD::db
\* (timer.cpp:42-46) never underflow when insert and thread_run subtract.
TypeOK ==
  /\ now \in Ms /\ time_last \in Ms
  /\ db \in Seq(Element)
  /\ m_sync \in {0, 1}
  /\ expired_ms \in Ms \cup {StandBy} /\ wait \in Ms \cup 0..StandBy
  /\ tm \in [Timers -> Impl]
  /\ guard \in SUBSET Threads
  /\ pc \in [Threads -> Locations]
  /\ job \in [Threads -> Job]
  /\ cur \in Timers \cup {None}
  /\ left \in [Timers -> Ms]

\* Each timer has at most one element.
Unique(s) == \A i, j \in 1..Len(s) : s[i].timer = s[j].timer => i = j

\* A call of start or stop on t is between its first and its last step.
Changing(t) == \E p \in Threads : job[p].timer = t /\ job[p].op # "none"

\* A timer is listed at most once, and whatever is listed is alive and
\* started, unless a call on it is under way: the list never keeps a timer
\* that stop or a destructor took out (timer.cpp:108-119, 226-233).
ListSound ==
  /\ Unique(db)
  /\ \A i \in 1..Len(db) :
       LET t == db[i].timer
       IN  (tm[t].life = "ready" /\ tm[t].is_started) \/ Changing(t)

\* The thread never runs, or looks at, a destroyed timer: what the guard is
\* for (timer.cpp:24-25, timer.h:35-39).
NeverTouchesDestroyed ==
  /\ cur # None => tm[cur].life = "ready"
  /\ \A i \in 1..Len(db) : tm[db[i].timer].life = "ready"

\* A started timer is on its way to a callback: it is listed, or its own
\* callback has yet to insert it again, or a call on it is under way.
StartedIsScheduled ==
  \A t \in Timers :
    tm[t].is_started => Listed(db, t) \/ cur = t \/ Changing(t)

\* Against true time, the delta list is exact: what is left of a listed
\* timer is its offset in the list less the time since time_last
\* (timer.cpp:183-191), whatever was inserted, popped or removed before it.
ListExact ==
  \A i \in 1..Len(db) :
    LET since == Elapsed(time_last, now)
        off == Offset(db)[i]
    IN  left[db[i].timer] = IF off > since THEN off - since ELSE 0

\* The thread never fires a timer before its time.
FiresOnTime == [][cur' # cur /\ cur' # None => left[cur'] = 0]_vars

\* A listed timer whose time has come is eventually popped or removed, though
\* insert wakes the thread only for the first element of an empty list and
\* callbacks may throw (timer.cpp:257-261, 305).
EventuallyHandled ==
  \A t \in Timers : Listed(db, t) /\ left[t] = 0 ~> ~Listed(db, t)
-----------------------------------------------------------------------------
\* The thread between reading the clock in insert and linking the timer.
Linking == {p \in Threads : pc[p] = "link"}

AskedOf ==
  IF Linking = {} THEN [timer |-> None, togo |-> 0]
  ELSE LET p == CHOOSE p \in Linking : TRUE
       IN  [timer |-> job[p].timer, togo |-> job[p].togo]

Service == INSTANCE TimerService WITH
  MaxDelay <- MaxMs,
  armed    <- {t \in Timers : Listed(db, t)},
  togo     <- left,
  asked    <- AskedOf,
  running  <- cur

\* What timer.h:10-17 and 35-39 promise to owners that hold the guard: every
\* step of the threads is a step of the service or changes nothing it shows.
ImplementsService == Service!Spec
-----------------------------------------------------------------------------
(* The strengthening under which the invariants above are inductive.       *)

CallSites == {"insert", "link", "mark", "unlink", "free"}

\* A thread inside a call knows its timer, and so does the running callback.
CallsTyped ==
  /\ \A p \in Threads : pc[p] \in CallSites => job[p].timer \in Timers
  /\ pc[Thread] \in {"op", "ret", "mark", "unlink", "free"} => cur \in Timers
  /\ pc[Thread] \in {"insert", "link"} /\ job[Thread].op # "again" => cur \in Timers

TypeInv == TypeOK /\ Unique(db) /\ CallsTyped

\* The guard has one holder, and a thread that is inside a call or past
\* pre_op is that holder.
GuardHeld ==
  /\ \A p, q \in guard : p = q
  /\ \A p \in Clients : p \in guard <=> pc[p] # "idle"
  /\ Thread \in guard <=> pc[Thread] \notin {"wait", "guard"}
  /\ cur # None => pc[Thread] \notin {"wait", "guard", "db"}

\* How far the call of each thread has come, and what it has done so far.
CallsKnown ==
  \A p \in Threads :
    LET op == job[p].op
        t == job[p].timer
    IN  /\ pc[p] \notin CallSites => op = "none" /\ t = None
        /\ pc[p] \in CallSites => tm[t].life = "ready"
        /\ pc[p] \in {"insert", "link"} =>
             op = "start" \/ (op = "again" /\ p = Thread /\ tm[t].is_started)
        /\ pc[p] = "mark" => op = "start"
        /\ pc[p] \in {"unlink", "free"} =>
             (op = "stop" \/ (op = "destroy" /\ p # Thread)) /\ ~tm[t].is_started
        /\ pc[p] = "free" => ~Listed(db, t)
        /\ op = "again" => cur = None

\* The inductive invariant of a guarded TIMER_THREAD: the guard serialises
\* the calls and the handling rounds, so each finds the list sound and leaves
\* it so (timer.cpp:24-29).
GuardedInv ==
  TypeInv /\ GuardHeld /\ CallsKnown /\ ListSound /\ NeverTouchesDestroyed

\* A started timer can do without an element only while its callback runs or
\* a call on it is under way (timer.cpp:139-150, 206-222).
ScheduleInv ==
  /\ StartedIsScheduled
  /\ \A p \in Threads : pc[p] = "mark" => Listed(db, job[p].timer)
  /\ cur # None /\ tm[cur].is_started =>
       tm[cur].is_periodical \/ Listed(db, cur) \/ Changing(cur)

\* The clock does not come round, nor reach an uninitialised time base, and no
\* delay takes a time beyond MaxMs: the program runs for less than 2^32
\* milliseconds less its longest delay.
NoWrap ==
  \A d \in Delays \cup {0} :
    /\ Horizon + d <= MaxMs
    /\ \A l \in LastInit : l = 0 \/ Horizon + d < l

\* The time base is a time gone by, or an uninitialised value to come.
TimeBase ==
  /\ now <= Horizon
  /\ time_last <= now \/ (time_last \in LastInit /\ Horizon < time_last)

DelaysKnown == \A t \in Timers : tm[t].after_ms \in Delays \cup {0}

\* No offset leaves UINT32, and nothing is left of a timer that is not listed.
DuesKnown ==
  /\ \A i \in 1..Len(db) : Offset(db)[i] <= MaxMs
  /\ \A t \in Timers : ~Listed(db, t) => left[t] = 0

\* A reading of the clock the thread has not gone past with its time base.
Fresh(stamp) == stamp <= now /\ (time_last <= now => time_last <= stamp)

\* The readings of the clock on their way to the list.
ReadingsKnown ==
  /\ pc[Thread] = "db" => Fresh(job[Thread].stamp)
  /\ \A p \in Threads : pc[p] = "link" =>
       LET passed == now - job[p].stamp
           after == tm[job[p].timer].after_ms
       IN  /\ Fresh(job[p].stamp)
           /\ job[p].togo = IF after > passed THEN after - passed ELSE 0

\* The list and the readings, against the true times.
ClockInv == TimeBase /\ DelaysKnown /\ DuesKnown /\ ListExact /\ ReadingsKnown
=============================================================================
