# Circle Flow: a verification development

Circle Flow turns a switch chip into a traffic generator and analyser. Test
packets loop between the queue of an *engine* port and themselves while a copy
leaves through the *front* port of the same *pair*; filters at the front ports
count, copy and time-stamp what comes back. This directory holds TLA+ models of
the program, the TLC runs that check them, and TLAPS proofs about them.

## 1. Inventory

All of `circle_flow` runs under one mutex, the *API mutex* (`AUTO_MUTEX_API`,
`circle_flow/src/include/defs.h:24-28`). Four kinds of thread take it: the
threads of callers (Lua, command line), the timer thread, the SDK's packet
receive thread (`cpu.cpp:226-238`) and the thread behind `sal_dpc` that
delivers link events (`hal_port.cpp:218-228`, `notify.cpp:57-85`). What is hard
is therefore rarely a data race between two handlers. It is what happens
*between* handlers: events, copies and timers on their way while flows start,
stop and move; hardware that changes during a handler; calls that fail in the
middle of one; and resources shared by flows that do not know of each other.

| Part | State | Operations | Talks to | Hard because | Correct when |
|---|---|---|---|---|---|
| Timers (`utility/src/timer.cpp`) | delta list, time base, `is_started` per timer | construct, start, stop, destroy, the thread's rounds | owners' callbacks, API mutex as guard | several locks, clock wrap, callbacks that throw or touch timers | no destroyed timer is touched, none is early, none is lost |
| Latency measurement (`flow/latency_cac.cpp`) | phase, two arrays of time stamps, mean | start, stop, timer phases, time-stamp handlers | timer, TX_LATENCY, RX_LATENCY | lost, late and reordered copies, wrapping stamps | what is published is the mean of one round |
| Transmit flows (`flow/flow.cpp`, `tx/tx.cpp`) | configuration, TX, callbacks, counters, two timers | set, start, stop, destroy, auto stop, counters | queues, cells, filters, notification | failures in the middle, link and pair changes | nothing leaks; a flow runs only on the pair and link it started on |
| Receive flows (`flow/flow.cpp`, `rx/`) | filter, snooped packets, counters | set, start, stop, snoop, dump | CPU queues, UDF, TPID, filters | packets that arrive after stop, shared filters | a packet reaches only the flow that asked for it |
| TRX flows (`flow/trx_flow.cpp`, `flow_track.cpp`) | both of the above and a unique track | trx, lm and snoop start and stop | all of the above | two lifetimes inside each other | stopping one part leaves no callback of another |
| Queues (`queue/queue.cpp`) | free queues per port | take any, take a given one, give back, shape | TX | engine and front queue must have the same number | each queue has one owner |
| Cells (`mmu/mmu.cpp`) | free cells per unit | reserve, give back, set thresholds of a pair | TX, TX_LATENCY, pair notification | shared by all ports of a unit | packets wait only where cells are reserved |
| Ports and pairs (`port/port.cpp`) | interface in use, front table | `set_itf`, link, speed | notification | changes under running flows | hardware and tables agree |
| Notification (`port/notify.cpp`, `hal_port.cpp`) | weak callbacks per port | bind, dispatch link, dispatch pair | flows, TX set-up, cells, counters | order of callbacks, exceptions, late events | flows hear of every change, before the hardware is changed |
| Port counters (`port/counter.cpp`) | hardware and base counters, rates | clear, read, rate timer | pair notification, timers | wrap, an unguarded timer | a rate is a difference of two readings |
| CPU queues (`cpu/cpu.cpp`) | queue per source port, observer table | allocate, bind, unbind, dispatch, free | receive side | a copy may outlive its observer | a copy reaches its observer or nobody |
| Filters (`fp/`), UDF (`udf/`), TPID (`tpid/`) | entries, chunks and identifiers with reference counts | share, release | receive side | constructors that throw half-way | counts equal users |
| Identifiers (`unique.h`) | pool of free numbers | take, give back, grow | filters, flow track | growth at the limit | no number is given twice |
| Log, trace, errors (`utility/src`) | ring of messages, filters, call stacks | log, dump, filter | everyone | ring overwritten while read | an id finds its message |
| Fields and packets (`field/`, `pkt/`, `bytes_bits.cpp`, `qual.cpp`, `lua_c_api/src/packet.cpp`) | named trees of fields, caches at every node | create, copy, set, step, resize, insert, remove, generate | flows | caches cleared by hand, lengths that change, sums over what steps | a reader of a packet finds what was written |
| Lua interface, scripts, commands (`lua_c_api`, `lua_script`) | tables of named objects | one function each, of several library calls | the parts above | what happens between two library calls of one function | no count is lost, a rate is of the last whole period |

The properties that make each part correct are the last column; the hazards,
with the line where each bites, are listed in `PROJECT.json`.

## 2. Plan

The order is that of what matters most to a user whose figures must be right.

1. **Timers**: `TimerThread`, `TimerService` (the abstract timer), proofs.
2. **Transmit flows** with queues, cells, pairs and notification: `TxFlow`,
   `TxService` (the abstract flow), proofs of the ownership of queues and of the
   notifications.
3. **Latency measurement**: `LatencyCac`.
4. **Receive flows**: `SharedIds`, `RxFilter` (windows, tag values, classes and
   entries shared by filters), `CpuQueues`, composed in `RxFlow`; proofs of who
   owns a CPU queue and of what the shared tables hold for each filter.
5. **TRX flows**: `TrxFlow` puts the transmit side, the receive side, snooping
   and the measurement of two flows together over the tables they share;
   proofs that nothing is shared and that times are own.
6. **Packets**: `Packets`, trees of fields with their caches.
7. **Console**: `Console`, the Lua functions over the counters; proofs that
   counts add up and rates are of the last whole period.

## 3. Timers

`TimerThread` models `utility/src/timer.cpp`. Each section locked by `m_db` is
one action; what the code does outside a lock is another. So a start is `Start`
(checks, `after_ms`), `InsertRead` (the clock, read before the lock),
`InsertLink` (the locked part of `insert`) and `Mark` (`is_started = true`); a
stop or destruction is `Stop`, `Unlink`, `Free`; the thread's loop is `Wake`
(from `try_lock`), `EnterRound` (guard, clock), then `Pop`, `Rebase` or
`StandDown`, a callback (`CallbackCall`, `PlainCallback`), and `AfterOp` or
`ThrowOp`. `Take` and `Give` are `pre_op` and `post_op`; with `Guarded` FALSE
they do nothing, which is the plain `TIMER`. `set_op` is part of `Construct`, as
every owner calls it there. A callback may start and stop timers but not destroy
its own, which no owner does. `left` is a history variable: the true time until
each listed timer is due.

`time_last` is not initialised by the code; `LastInit` gives what it may hold.
`Horizon` stops the clock: for a timer with a delay near 2^32 ms the sum in
`insert` (`timer.cpp:243`) overflows when the time base is stale, since the
thread does not refresh it while the list is empty (370-373), and the timer then
fires at once. With `Horizon` this case is out of the range of `timer_guarded` and
`FiresOnTime` holds there; the comment at 44 ("up to 2^32 ms") promises more than
the code keeps (section 11). Without a guard a second weakness shows: `is_started` is written
after the element is listed, so a thread that pops it in between skips it; the
comment at 27-29 excludes this use, `counter.cpp:160-171` makes it.

| Property | Says |
|---|---|
| `ListSound` | a timer is listed once, and only alive and started (or being changed) |
| `NeverTouchesDestroyed` | the thread never sees a destroyed timer |
| `StartedIsScheduled` | a started timer is listed, or its callback or a call on it is under way |
| `ListExact` | offsets in the delta list equal true time left |
| `FiresOnTime` | no callback before its time |
| `ImplementsService` | the thread refines `TimerService`, where timers are a set with true times |
| `EventuallyHandled` | a due timer is handled |

Runs. `timer_guarded`: two timers, one client, all calls from client and
callback, clock of 64 ms with `Horizon` 4, initial time base 0 or far ahead (so
that the wrap-around branch is taken). Two timers make every case of insertion
and removal with a successor; the list's behaviour with more is proved below.
`timer_live`: the same with callbacks that throw, under `FairSpec`.

For the proofs of section 10 `Horizon` becomes a condition, `NoWrap`: the time
the program runs, and the longest delay on top, stay below `MaxMs` and below any
uninitialised time base. It is what the code needs, not what the proof needs:
beyond it the overflow above makes a timer fire early. `~CanThrow` in
`Timer_StartedIsScheduled` is of the same kind (section 11).

Fairness: weak for the clock, the thread and calls in progress, since the
operating system runs every ready thread; strong for `EnterRound`, since the
guard is a semaphore that a waiter gets in the end although others take it in
between. The clock stops at `Horizon`; a wait which that cuts short counts as
timed out.

## 4. Latency measurement

`LatencyCac` models `LATENCY_CAC` and the handlers of `TRX_FLOW` around it. The
phases of `state_machine` are `Begin` (or `BeginFails`, when `pkt_gen` throws),
`AwaitTx` and `AwaitRx`; `Create` and `Destroy` are `lm_start` and `lm_stop`.
`flying` holds the copies that carry time stamps; `Handle` delivers any of them
in any order, `Lose` drops one. `round`, `travel`, `got`, `mixed` and `cut` are
history. `Rounds` counts rounds modulo 2, so a copy may be one round late, not
two. `MaxStamp` is 7 and the first packet leaves at 6: with delays of 1 and 2
the stamp turns over between the sides, and one arrives at 0, which the code
reads as invalid and leaves out of the mean. `MaxWait` is 1 for the program's
10. The travel times of one round are added in a `UINT32` (`cac_latency`):
`TravelsShortly`, which the instance meets, says that their sum fits.

`LatencyIsMean`: what a round publishes is the true mean travel time of the
packets seen on both sides. `RoundsDontMix`: a copy of one round counts for
another only after a time-out or a stop - the program has no way to tell, and
the mean is then wrong; the property says it is the only way. `KeepsMeasuring`
(run `latency_live`, one packet): no phase waits for ever, with weak fairness of
the timer and of delivery or loss. The one exception it makes is a `pkt_gen` that
throws - the cells run out: the state stays `START` with the timer dead, and
`start` is refused until `stop`.

## 5. Transmit flows

`TxFlow` models `TX_FLOW` over `TX`, `QUEUE`, `MMU`, the pair tables and both
dispatchers. A call, a timer callback or a notification is a list of jobs,
`todo`, that runs under the API mutex: `CallStart` is stop then start (the code
calls `stop` first), `SetItf` is the stop of every bound flow, latest binding
first, and then the fork entries, the thresholds and the counters; `Dispatch`
of a lost link is the stops in binding order. Between two jobs the hardware may
move: `LinkChange`, `BurstEnds`. An exception (`StartRefused`, `StartFails`,
`StopFails`, `ReconfigureFails`) empties `todo`; a failed `ASSERT` sets
`aborted`.

| Code | Model |
|---|---|
| `TX_FLOW::IMPL` | `flow[f]`, `tx[f]` |
| `db_port_q`, `db_free_cell` | `db_port_q` (sets: any free queue may be taken, which covers the list's order), `free_cell` (one unit) |
| a front queue its link partner holds back | `held` (`Hold`, `Resume`); what waits there also keeps the engine queue from draining |
| weak callbacks of a port | `bound[p]`: link and pair callbacks are bound and dropped together, and an expired one is skipped, so one list of live ones stands for both |
| `db_port_itf`, `db_front_port` | `itf`, and `front`, `engine` derived from it |
| fork entries, thresholds | `fork`, `quota`: the interface they were last set for |
| packets in an engine queue, its shaper | `hwq`: cells used, and "stopped", "slow" or "normal" |
| `sal_dpc` | `events`, first in first out |

A load is the number of cells its packets need, whether its rate is so low that
the queue does not drain within the 350 ms of `TX::stop`, and whether it is a
burst. When a pair changes, packets that circulate through the old fork entries
leave the queue; those in a stopped queue stay. `TX::stop` waits twice, 350 ms for
the engine queue and 100 ms for the front queue, and asserts after each that the
queue is empty (`Empties`): a stop, or the stop at the head of a start, either
finds both empty in time or ends the program (`StopAsserts`, `StartAsserts`). The
engine queue fails when its load is slow or its shaper stopped, both when the link
partner holds the front queue back.

| Property | Says |
|---|---|
| `QueuesOwned` | each queue of a port is free or held by one flow |
| `CellsCounted` | free and reserved cells add up |
| `Covered` | packets wait only in a held queue, in no more cells than reserved |
| `PairInForce` | after `set_itf` no flow runs on the old pair, fork and thresholds serve the new |
| `ReconfiguredAfterFlows` | a pair is reconfigured only when no flow runs on the port |
| `LinkDownIsNoticed` | a flow runs without link only while the event or its stop is pending |
| `StartedIsBound` | started = owns a TX = bound exactly once, to the port of that TX |
| `AbortsHaveCause` | the assertions in `TX::stop` fail only in the stop of a flow whose own load is too slow, or whose queue is held back |
| `LinkDownStops` | a flow without link is stopped, or the program ends at an assertion first |
| `ImplementsService` | `TxFlow` refines `TxService` |

`TxService` is what the owner of a `TX_FLOW` counts on, without calls, jobs,
free lists or hardware: a flow is off, or on at a port. It goes on (`Begin`) only
where fork entries and thresholds serve the same pair, with a queue nobody has on
either physical port of that pair and with cells that are left; it keeps all this
until it goes off (`End`), whatever is set meanwhile; and a pair is rewired or
limited anew (`Rewire`, `Relimit`) only while all flows of the port are off. The
mapping reads `on` from the TX a flow owns, `wired` and `limits` from `fork` and
`quota`; `TxService` has no tables, and what is taken or used is what the flows
that are on have. Failing calls are steps of `TxFlow` that the service does not see.

Runs. `txflow_core`: two flows on one port, interfaces that swap front and
engine as in `sys_adapt/src/device.cpp`, three queues on one side and two on the
other, cells for two small flows or one large, two link events in flight (a
flap). The small load is too slow to drain in time and the link partner may
pause, so that both waits of `TX::stop` do fail and the program ends there
(`CHECK_DEADLOCK FALSE` for that reason): `AbortsHaveCause` says when.
`txflow_ports`: two ports sharing the cells, flows re-targeted while they run; it
checks the refinement too. `txflow_faults`: any SDK call may fail, flows are
destroyed while started, slow loads: `QueuesOwned` and `CellsCounted` hold even
so. Two flows are enough for every conflict over a queue, the cells or the order
of callbacks; two link events for a down-up or up-down pair. That no failing call
but an insertion adds a cause to `AbortsHaveCause` is proved (section 10), not run.

Fairness (`LinkDownStops`): weak for the jobs of the call that holds the mutex,
strong for `Dispatch`, which waits on the mutex behind other callers.

## 6. Receive flows

`RxFlow` models `RX_FLOW` over `RX`, `UDFS`, `TPIDS`, `HAL_FP_RX` and `CPU::RX`.
Everything the program does there happens under the API mutex, so a call or a
dispatched packet is one action; between two of them the hardware copies packets
(`Copy`) and ports swap interfaces (`SwapPair`, which calls the flows latest
binding first, until one throws).

| Code | Model |
|---|---|
| `UNIQUE` and the multimaps of shared pointers | `SharedIds`: users and identifier of each key, free list, highest identifier put on it |
| `db_hw_chunk` and the chunk registers | `res.chunk`, `res.window` |
| `UNIT_TPID::db`, `db_port_tpid`, tag registers, port bitmaps | `res.tpid`, `res.port_tpid`, `res.tag`, `res.bmp` |
| `db_class_id`, `db_vfp_entry` | `res.class`, `res.vfp` |
| `db_upq`, `db_dispatch` | `cpu.used`, `cpu.dispatch` |
| the IFP entry, its queue and policer | `entry` |
| `RX_FLOW::IMPL`, `RX::IMPL` | `flow`; `rx` holds what the filter was built with, `places` which byte of the packet is compared at which place of the windows |
| weak pair callbacks | `order`; `missed` is history: flows a dispatch that ended early did not stop |

`HoldFilter` follows the member list of `RX::IMPL`: user defined fields, tag
values, the check for overlapping fields, class and entries of the VFP, the
entry of the IFP. `Each` performs steps up to the first that throws; what is
undone then is what the code undoes - complete members, not the half-built one.
`room` says whether the hardware has an entry left: the groups of the IFP share
slices with other users, so a call may find room or not. Windows, registers,
classes and VFP entries run out by count. Other SDK calls succeed.

| Property | Says |
|---|---|
| `MatchesItsBytes` | the windows a filter compares still look at the bytes it was written for |
| `ClassesAgree` | a filter finds its class set by its own rules on all its ports, and by no others |
| `TagsRecognised` | a port recognises just the tag values of its filters, and the reserved one |
| `QueuesAreOwned` | pairs of port and queue belong to one flow, whose callback is bound there; a filter copies to its own queue |
| `KeepsOwnPorts` | a flow keeps packets of its own ports, at most as many as asked for, late copies included |
| `PairInForce` | a started flow filters on the ports' present fronts, unless a callback threw before its own |

Run `rxflow`: two flows; one port whose interfaces swap and one that stays. A
behaviour either shares tables or snoops (`Uses`): tables and snooping do not
meet except through the filter's ports, and apart each is small enough. Tables
are scarce so that each member of a filter can be the one that throws, with and
without something in hand: three windows for filters that need one or two, one
class for two sets of rules, one VFP entry for filters of one and two ports, two
tag registers for three values. Two CPU queues serve filters with one port in
common, and one packet is in flight (`Buffer`), which may outlive the owner of
its queue. `MaxRefs` 2 stops starts when something was left behind, or is
used, twice: two flows give no more users, what is left behind only adds up.
`Byte` is 4 for 256. `Step` is 2 for segments of 64, so that the last segment is
cut by the limit, after a whole one (windows) and at once (classes). Flows are
symmetric. No liveness is stated: nothing in this part waits. `rx_leak` expects
a violation in the same instance (section 11).

## 7. Transmit and receive flows

`TrxFlow` models `TRX_FLOW`: what a flow takes from the tables all flows share,
and whose packets and copies come back to it. `LatencyCac` has the rounds of a
measurement in full, `TxFlow` and `RxFlow` the hardware under a TX and an RX;
here these are the entries they hold. Every handler runs under the API mutex and
is one action, stops included, as functions of the state (`LmStopped`,
`SnoopStopped`, `TrxStopped`) that `Start`, `Destroy` and the notifications call
like the code does. Between them packets travel.

| Code | Model |
|---|---|
| `TRX_FLOW::IMPL` | `flow[f]`; `NoTrx`, `NoSnoop`, `NoLm` reset the members of its three parts |
| `MMU`, `new_flow_id`, `QUEUE`, the VLANs of `fp_vtag.cpp`, `db_upq` | `free_cell`, `track`, `cosq`, `vid_free`, `snoop_q` and `lm_q` |
| the observers of `observer.h` | `db_rx` |
| a measuring packet and its copies at the latency port and at a receiving port | `flying`, at "wire", "tx" and "rx", with history `by`: who sent it |
| `set_tx`, `set_rx` | `SetTx`, `SetRx`: they change what the handlers of a running measurement read |

The offset of the receiving side is not initialised by the constructor: `Init`
and `Destroy` choose it. `StopFails` and `StartFails` leave what the code leaves
when a call of the SDK throws; a `SnoopStart` that fails after `CPU::RX` was made
(`rx.cpp:36-38`) leaves a flow that owns a CPU queue and does not snoop, which the
next snooping replaces and the stop of the flow frees. `RoundCrashes` is the null reference of a track
that is no block of fields.

| Property | Says |
|---|---|
| `Accounted` | cells add up, and `NothingShared`: identities, engine queues, CPU queues and VLANs have one owner; the observers are exactly the measurements there are |
| `StampsAreOwn` | a measurement uses only time stamps of packets its own flow sent since the start, though VLANs and CPU queues change hands under copies on their way |

Run `trxflow`: two flows, two tracks, two CPU queues for up to four users, one
VLAN per engine queue, so that it changes hands at once; two packets of
different cost, track offset and kind; nine cells, so that two flows with a
measurement do not fit. At most one measuring packet is out when a round begins
(`MaxFlying`); with its copies three are under way. Deadlock is not checked, as a
crash ends the program. No liveness: `LatencyCac` has it.

## 8. Packets

`Packets` models the `pkt_*` functions of the Lua interface and what is under
them: `FIELD_BLOCK` and its fields, the cache each node keeps of what it last
read as, the packets a whole tree was last expanded to, seeds that step or are
random, sums and lengths. A tree is a record with its fields inside; a name with
points is a path. A call is one action: nothing else touches packets.

| Code | Model |
|---|---|
| `FIELD::IMPL` and its derivations | `Node`; `Fixed`, `Resizable`, `Sum`, `Length`, `Block` make them |
| the bit, byte and text caches | `cache`, one for the three, which are cleared together |
| `cache_clear` from a field to the root | `cache_clear` along the path |
| `get_bits`, `fetch_bits` | `get_bits`, with the nodes under computation on the way; `Cached` is the tree with what it leaves behind |
| `update_bits` | `Written`, `Spread`, `Share`: each field its size, the rest to the resizable one |
| `get_pkts`, `seed_next` | `Rounds`, `Seeded`, `NextOf` |

| Property | Says |
|---|---|
| `CachesAgree` | what any node, or a packet, has cached is what it would read now |
| `PacketsParse` | taken apart at the offsets the interface gives, every generated packet holds the steps in order, the fields that keep their values, and sums and lengths of itself |
| `WrittenIsRead` | any value written anywhere reads back: low bits in a field, all of it in a block that fits or grows |

Run `packets`: any five calls (`MaxCalls`) on two packets of at most six nodes, a
frame with a checksum over a resizable field and a header with a length, extended
by each other or by a tag of two half bytes. A byte is two bits (`Byte`): sizes
and carries do not depend on it. Five calls reach create, nest, set, step and
generate. What an exception leaves half done in a cache (`Whole`), steps longer
than their field, sums that cover each other, renaming of nested blocks and
`set_seed` with another size (the Lua interface cannot) are left out; counts are
above 1, since a step of count 1 does not stay (`field_seed.cpp:140`). A failed
assertion sets `aborted`.

## 9. Console

`Console` models the functions on flows and ports that Lua calls, over the
software counters of `flow.cpp`, `trx_flow.cpp` and `counter.cpp`. A function
takes the API mutex once for each call of the library: one that counts all flows
or ports (`Cnt`, `CntNext`) or merges a rule (`Merge`, `MergeEnd`) has more than one step,
and link losses, timers, bursts that end and packets come between. One console is
assumed, as `lua_env` has one machine per script; the tables of names have no
mutex of their own.

| Code | Model |
|---|---|
| the tables `db_flow` | `db_flow`, flows by table and name |
| `TX_FLOW`, `RX_FLOW`, `TRX_FLOW` as far as counters go | `New`, `Started`, `Stopped`, `Cleared`, `Reading`: the three agree |
| hardware counter, base and rate of each port | `port`; `Changed` is what an interface change does to them |
| the flow's bound callbacks and its two timers | `pair`, `link`, `timers` of a flow |
| a stop that throws | `HalfStopped`: callbacks and timers are gone, the flow is started and counts on |
| a pair dispatch that a callback ends | the second disjunct of `port_set_itf`: some flows stopped, the base cleared or not, the front's counter any number; `torn` is history, what of the port is wrong since |
| a callback of a timer that throws | the timer ends: `timers`, and `ticking` for `CAC_RATE` |
| `auto_stop`, `cnt_rate_cac`, `CAC_RATE::on_timer` | `AutoStop`, `RateTimer`, `PortTimer` |
| text of a count that goes on | `call.cleared`: what it says of flows it has cleared |

| Property | Says |
|---|---|
| `CountsAddUp` | every packet counted is reported once, over stops, clears and links lost between two lines of a table |
| `RatesAreRecent` | the rate of a flow is of the last whole period of its run, 0 after a stop or half stop; that of a port is of the last whole period of its timer, never a difference between the counters of two interfaces |
| `CountStartsAnew`, `RateStartsAnew` | what the comments at `counter.cpp:224` and `163` say of an interface change; both are expected to be violated |

`CountsAddUp` lists what the code gives up: counts before a start or an interface
change; those of a stopped flow that is cleared, since `counter(true)` then
clears before it reads; those cleared in a call that throws at a later flow or
port. The rate of a port is not reset when its interface changes, only what the
next one is a difference to: until the timer of 2 s runs, the port shows the rate
of the old interface, and `RatesAreRecent` says so; the period in which the change
falls counts from the change on. A port whose change threw is excepted: its count
until it is cleared, its rate until the timer has run twice.

Run `console`: names for two transmit flows, one receive and one TRX flow, flows
of one table at a time (tables share no counters), two packets with one flow and
one with two (`MaxPkts`, `MaxTotal`), no call failing. `console_ports`: two ports
and a transmit flow, one SDK call failing anywhere (`MaxFails`): reading the
second port, in the loop of the rate timer, in a callback of a change.
`console_fails`: a receive flow, a TRX flow and one port, likewise. `console_count`
and `console_rate` expect violations (section 11). One failure is enough for each
path; two of them do not meet in one handler, since the first ends it. Two packets put one before and one after a
clear or a timer; two flows put a step between them. The wrap of `Minus` is out
of reach: hardware counters have 64 bits; were one to wrap, the result would be
short by one. Printing a copy of more than 256 bytes sets `hung` (`Dump`).
Settings count as made or not; two settings of one kind are one.

## 10. Proofs

Checked by TLAPS for any number of timers, clients, flows, ports, queues, cells,
tracks, packets and link events, any clock width and any clock bound, from the
assumptions of the modules (`TimerAssumption`, `LatencyAssumption`,
`TxFlowAssumption`, `StepAssumption`, `FilterAssumption`, `RxAssumption`,
`TrxAssumption`, `ConsoleAssumption`), which
TLC evaluates in every run: types of the constants; that flows and ports are
finitely many; that physical ports of two names are disjoint, as `cfg_check.h`
demands; that no user defined field is at offset 0 or 1, for which the code stops
at an assertion (`hal_udf.cpp:152`). A theorem that needs more says so in its statement, and the third
column repeats it.

| Module | Theorem | Says |
|---|---|---|
| `TimerProofs` | `TypeCorrect` | the types of `TimerThread`, with or without guard; so no delta of the list underflows |
| | `GuardedInvariant` | with a guard, `GuardedInv` |
| | `GuardedListSound`, `GuardedNeverTouchesDestroyed` | with a guard, `ListSound` and `NeverTouchesDestroyed` |
| | `Timer_StartedIsScheduled` | `StartedIsScheduled`, with a guard and callbacks that do not throw |
| | `ClockInvariant`, `Timer_ListExact`, `Timer_FiresOnTime` | `ClockInv`; `ListExact` and the action property `FiresOnTime`, with a guard and `NoWrap` |
| | `Timer_ImplementsService` | under the same conditions `TimerThread` implements `TimerService` |
| `LatencyProofs` | `LatencyInvariant`, `Latency_TypeOK`, `Latency_RoundsDontMix` | `LatencyInv`; rounds mix only after a time-out or stop |
| | `Latency_LatencyIsMean` | the action property `LatencyIsMean`, when packets travel as shortly as `TravelsShortly` says |
| `TxFlowProofs` | `TypeCorrect` | the types of `TxFlow`, whichever calls fail; so free cells never underflow |
| | `QueuesAreOwned` | `QueuesOwned`, whichever calls fail and with started flows destroyed |
| | `CellsAreCounted` | `CellsCounted`, likewise: no cell is lost or given twice |
| | `PacketsAreCovered` | `Covered`, when no insertion of packets fails and no started flow is destroyed |
| | `AbortsAreExplained` | `AbortsHaveCause`, when no insertion of packets fails and no started flow is destroyed; slow loads, pauses and the other failures are all in |
| | `StartedFlowsAreBound`, `PairsAreInForce`, `FlowsStopFirst`, `LostLinksAreNoticed` | the four notification properties, when the calls of `stop` and of the notifiers succeed (`NotifiersSucceed`; calls of `start` may fail) |
| | `Tx_ImplementsService` | under the same condition `TxFlow` implements `TxService` |
| `RxFlowProofs` | `OwnInvariant` | `OwnInv` |
| | `Rx_QueuesAreOwned`, `Rx_KeepsOwnPorts`, `Rx_PairInForce` | the three properties, whatever filters and snoops are refused and whichever stops throw |
| `RxFilterProofs` | `FilterInvariant`, `TidyInvariant` | `FilterInv` and `TidyInv`, likewise |
| | `Rx_MatchesItsBytes`, `Rx_ClassesAgree`, `Rx_TagsRecognised`, `Rx_TypeOK` | the four properties of the tables and types, likewise |
| `TrxFlowProofs` | `TrxInvariant`, `Trx_TypeOK` | `TrxInv`; so snooping and measurements run only in a started flow, and only such a flow has a CPU queue, its snooping failed or not |
| | `Trx_Accounted`, `Trx_StampsAreOwn` | `Accounted` and `StampsAreOwn`, whatever fails, the snooping that keeps its queue included |
| `ConsoleProofs` | `ConsoleInvariant`, `Console_TypeOK` | `ConsoleInv`; so no difference of counters wraps, but for a port whose change threw |
| | `Console_CountsAddUp`, `Console_RatesAreRecent` | the two promises about counters, whichever calls fail |

`NatLemmas` holds what they share: division, least elements, induction over the
subsets of a finite set, and sums over finite sets. Recursive definitions (the
sums of a delta list, the callbacks of a dispatch, a sum as the library folds it)
are shown to exist, and invariants to hold along them, by a least counterexample
(`NatMin`), since an induction over an operator is beyond the provers.

*Timers.* `ListSound` alone is not inductive: why a destroyed timer is not
listed depends on who is inside which call. `GuardedInv` adds that whoever is
inside a call holds the guard, hence is alone (`GuardHeld`), and what each
location implies of the timer in hand (`CallsKnown`). `Offset` exists and grows,
`Place` lands where no delta underflows, and `Insert` and `Remove` keep a list of
distinct timers.

*Time.* That the list is exact rests on readings made before: what a call is
about to insert was computed from a clock read earlier, and the time base may be
one nobody wrote. `ClockInv` says that the base is a time gone by or an
uninitialised value still ahead (`TimeBase`), that a reading under way is not
older than the base (`ReadingsKnown`), that no offset leaves its width and nothing
is left of a timer that is not listed (`DuesKnown`), and `ListExact` itself; with
`NoWrap` no sum then wraps.
The refinement maps the listed timers to the armed ones of `TimerService`; each
step of the thread is a step of the service or none, `Pop` the one that fires.

*Latency.* `LatencyInv` says of a round not cut short that nothing of an earlier
one is under way (`NothingLate`) and that what the two arrays hold are the times
of this round's copies (`OwnTimes`). The mean is then a quotient of equal sums:
the differences of the stamps, taken modulo their width, are the travel times.

*Ownership.* `QueuesOwned` is inductive with the types, with "started exactly
as long as it owns a TX", and with "a start is the last job of a call that
stopped the flow before": without the last a second start would overwrite a TX
and lose its queues.

*Cells.* The sum of what flows reserve changes by one term in a step, the one of
the flow at work; so it does in `TrxFlow`, where two parts of a flow reserve.
`Covered` follows from who owns the queues; an insertion that fails, and a
destructor, are left out because they break it (section 11).

*Assertions.* `AbortInv` says of each queue that is held back that a flow which is
on owns it (`HeldOwned`), and of the engine queue of such a flow that it is not the
front queue and is not stopped while packets wait in it (`Shaped`); with `Covered`, a queue that a start takes is empty, so
only the stop of a flow finds packets.

*Notification.* `OrderInv` states what the job list owes: before each job that
reconfigures a port come the stops of the flows still running there
(`FlowsFirst`); a table that differs from the pair has its job pending
(`ChangePending`); a flow that is not on the pair of its port has its stop
pending (`PairPending`). `Advance` shows that doing a job pays its debt,
`Unhurried` that steps outside a notification make none, `OrderSetItf` and
`OrderDispatch` that the two dispatchers enter all that is owed. The second
needs that front ports of two names differ; with the failures that
`NotifiersSucceed` excludes the properties are false (section 11).

*The flow service.* The refinement joins these arguments: a start runs when nothing else
waits, so tables and pair agree (`Settled`); what it takes is free for the service
because free and owned make up all there is (`QueuesOwned`, `CellsCounted`); and
when a job reconfigures a port its flows are gone (`FlowsGone`). All other steps
are stutters.

*Receive flows.* A call is a function of the members and tables, and each keeps a
`Sound` state sound: a flow has a queue only with a filter, its entry copies
there exactly while it snoops, and what it keeps is its own (`Coherent`); the
pairs in use, the flows' queues and the bound callbacks agree (`Owners`); every
filter's pair callback is bound (`BoundOnes`). The last is what a pair change
needs: `NotifiedOnward` follows the callbacks one by one, each flow that names
the port is stopped or missed, and the ports of the others do not change. Copies
on their way are no part of the invariant: `Deliver` looks up who has the pair
now, and that flow has the port in its filter.

*Shared tables.* None of the three properties of the tables is inductive: that a
window keeps its aim depends on its user count not reaching zero too early, hence
on all other filters. `FilterInv` therefore names the users: a share is a pair of
who uses (a flow and the place in its filter) and the key used. `Pool` says of a
table of identifiers that none is given twice, and free ones to nobody, also as
segments are added; `Backed` that each key has at least as many users counted as
it has shares - at least, because a constructor that throws leaves counts behind
without a share (section 11). Equality holds for the ports' tag values, whose
constructors undo what they did, and for the entries of a class that has no
leftovers: there the entry's rules are those of the class. A filter is made and
undone by folds over its lists of windows, tag values and ports, each step of
which may throw. `FoldKeeps` gives what holds along a fold, for `StepOf` that
picks the step by name, and each fold is shown to be one of these; the lemmas
`...Keeps` say what one step does to `Windows`, `Tags` and `Classified`, and
`HoldFilter` and `DropFilter` are the sum of them. A pair change stops the
flows that name the port one after the other, so the dispatch is followed
callback by callback once more. `TidyInv` adds what the types need: a flow with a filter has its callback
bound just once, and copies fit the buffer.

*TRX flows.* The handlers are functions of a state, so the proof is one lemma per
function: it keeps a `Sound` state sound. `StampsAreOwn` alone is not inductive,
since a copy under way may be stamped later: `Sound` adds that whoever has the
track of a copy is who sent it (`OwnTracks`), that an observer measures and so is
on that track (`Observers`), and that times go with the measurement (`OwnTimes`).
That a VLAN given back was nobody's needs `Distinct`: the queue of free
identifiers names none twice.

*Counters.* `ConsoleInv` says of each flow that what is owed of it is its reading
and what the unprinted text says, and of its open period that it is the counter
less the base of the rate as long as the timer runs (`Agree`); of each port the
same, but for what a change that threw left wrong (`PortAgrees`); that bases lie
below the counter, so that no difference wraps; and of the function at work that
what it has yet to read it has not cleared (`CallAgrees`). Each step changes one
flow (`FlowStep`), stops some, the last of them perhaps half (`StopStep`), or one
port.

Only model-checked: liveness, which TLAPS does not prove; `Packets`, whose
definitions are recursive.

## 11. Where code and comments disagree

Each of these is a run that expects a violation.

| Run | Code | Against |
|---|---|---|
| `rx_leak` | a start that is refused half way keeps windows and classes for ever (`vfp_rx.cpp:94`, `udf.cpp:101`) | "local ptr, in case of failure, resource would be automatically free" (`flow.cpp:351`) |
| `txflow_assert` | a load that does not drain within 350 ms at the rate the user set, 1 Mbit/s if none, fails the assertion of `TX::stop` and ends the program (`tx.cpp:101`) | "350ms, 1500byte*256pkt, under 10mbps rate" (`tx.cpp:95`) |
| `txflow_rewire` | a callback that throws ends the pair dispatch: tables on the new pair, fork entries, thresholds and flow on the old; repeating `set_itf` does nothing (`notify.cpp:142-146`, `port.cpp:173`) | "adjust port pair once port iterface mode changed" (`tx.cpp:226`) |
| `txflow_insert` | an insertion that fails among the packets leaves some in a stopped queue, in cells that count as free (`tx.cpp:79-83`); the next start on that queue fails the assertion | "check if there's enough cell available for pkts pending in engine port queue" (`mmu.cpp:19`) |
| `timer_long` | `insert` adds the age of the time base to the delay in 32 bits (`timer.cpp:243`): a long timer fires at once | "the range of timer could up to 2^32 ms" (`timer.cpp:44`) |
| `console_count` | when a callback throws, the base of the port's count stays that of the old front (`notify.cpp:142-146`) | "reset counter once port interface changed" (`counter.cpp:224`) |
| `console_rate` | `cnt_clear` is bound to `prev_cnts` only: the port shows the old interface's rate until the timer runs (`counter.cpp:151-188`) | "reset rate once pair change" (`counter.cpp:163`) |

Seen in `TimerThread`: a new head of the list does not wake the thread, since
`insert` tests `db.begin()==it` after the insertion, when `it` is the successor
(`timer.cpp:257`); a periodic timer whose callback throws stays "started" and
never fires again, though "any exception thrown by the callback, would be
implicitly caught" (`timer.h:11`): `StartedIsScheduled` holds only where
callbacks do not throw. In `Console` this is how the rates of all ports stand
still for good after one counter could not be read (`PortTimer`).

With `Faults` set, and left to the hazard list: `stop`
drops its callbacks before calls that may throw, leaving a started flow that no
pair change reaches (`flow.cpp:89-97`); a flow destroyed while it
is started leaves its packets circulating in a queue and in cells that count as
free (`flow.cpp:188`). Seen in `RxFlow`: `snoop` accepts 512 packets but the
number reaches the policer as `UINT8` (`fp_rx.cpp:183`, `Tokens`). Seen in
`Console`: printing a copy of no or of more than 256 bytes never ends, since the
index is a `UINT8` (`rx_flow.cpp:702`).

## 12. Not modelled

SDK calls are atomic and either succeed or throw. `hal_*.cpp` and most of `fp/`
translate calls for the SDK and appear only as calls that may fail. Speed, duplex
and forced modes of a port are passed on to the SDK. Text - its parsing,
formatting, the protocol tables of `pkt_lib.cpp`, the log and traces - and the
scripts that turn a command into one Lua function are left out, and so are the
functions that only show settings. Device start-up is one pass over the other
parts; its order of bindings is in `PairJobs` of `TxFlow`.
