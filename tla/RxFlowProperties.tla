--------------------------- MODULE RxFlowProperties ---------------------------
(***************************************************************************)
(* What RxFlow promises.                                                   *)
(***************************************************************************)
EXTENDS RxFlow

Filtering == {f \in Flows : flow[f].is_started}
FilterPids(f) == Elements(flow[f].rx.ports)

\* The tables, the members and the queues have the types the code declares.
TypeOK ==
  /\ res \in Resources
  /\ cpu \in C!CpuTypes
  /\ entry \in [Flows -> [q : Queues \cup {NoQ}, tokens : 0..Byte]]
  /\ front \in [Ports -> Pids]
  /\ missed \subseteq Filtering
  /\ \A q \in Queues : Len(copies[q]) <= Buffer /\ Elements(copies[q]) \subseteq Pids
  /\ \A f \in Flows : /\ flow[f].cpu_rx \in Queues \cup {NoQ}
                      /\ flow[f].is_started = (flow[f].rx # None)
                      /\ flow[f].is_snooping => flow[f].is_started
                      /\ Elements(flow[f].snoop_pkts) \subseteq Pids

\* Whatever was started, stopped and refused since a filter was installed, the
\* windows it compares still look at the bytes it was written for (udf.cpp
\* shares windows by offset and hands freed ones out again).
MatchesItsBytes ==
  \A f \in Filtering : \A x \in flow[f].rx.places :
    /\ res.window[x[2] \div CHUNK_SIZE] # NoId
    /\ res.window[x[2] \div CHUNK_SIZE] + (x[2] % CHUNK_SIZE) = x[1]

\* A filter with rules of the VFP stage finds its class set by its own rules on
\* each of its ports, and no other rules set that class (vfp_rx.cpp).
ClassesAgree ==
  \A f \in Filtering : flow[f].rx.rules # None =>
    /\ \A p \in FilterPids(f) : res.vfp[p, flow[f].rx.class].refs > 0
    /\ \A p \in Pids : res.vfp[p, flow[f].rx.class].rules \in {flow[f].rx.rules, None}

\* Every port recognises just the tag values of its filters and the reserved
\* one: its bitmap holds their registers, and those hold the values (tpid.cpp).
TagsRecognised ==
  \A p \in Pids :
    LET named == {flow[f].rx.tpid : f \in {g \in Filtering : p \in FilterPids(g)}} \ {None}
    IN  {res.tag[i] : i \in res.bmp[p]} = named \cup {Reserved}

\* The pairs a flow's CPU::RX has, m being the flow's members.
Own(m) == IF m.cpu_rx = NoQ THEN {} ELSE Elements(m.rx.ports) \X {m.cpu_rx}

\* The pairs of port and queue in use are those of the flows' CPU::RX, no two
\* flows have a pair in common, and a copying filter uses its flow's queue,
\* bound to it, also after a snoop that failed half way (cpu.cpp, rx.cpp).
QueuesAreOwned ==
  LET own == [f \in Flows |-> Own(flow[f])]
  IN  /\ cpu.used = UNION {own[f] : f \in Flows}
      /\ \A f, g \in Flows : f # g => own[f] \cap own[g] = {}
      /\ \A x \in C!Pairs : cpu.dispatch[x] = (IF x \in cpu.used THEN CHOOSE f \in Flows : x \in own[f] ELSE None)
      /\ \A f \in Flows : entry[f].q # NoQ => entry[f].q = flow[f].cpu_rx

\* A snooping flow keeps packets of its own ports only, and no more than asked
\* for (rx_dispatch, on_pkt_rx), late copies of earlier owners included.
KeepsOwnPorts ==
  \A f \in Flows : flow[f].is_snooping =>
    /\ Elements(flow[f].snoop_pkts) \subseteq FilterPids(f)
    /\ Len(flow[f].snoop_pkts) <= flow[f].max_snoop_pkt

\* A started flow filters on the fronts its ports have now, unless a callback
\* threw before its own was called (pair_notify_dispatch).
PairInForce ==
  \A f \in Filtering \ missed : flow[f].rx.ports = extract_ports(flow[f].rx.in_ports)

\* flow.cpp, 348: "in case of failure, resource would be automatically free":
\* windows and classes are in use by filters only.
FailureFrees ==
  /\ \A c \in Offsets : InUse(res.chunk, c) =>
       \E f \in Filtering : \E i \in DOMAIN flow[f].rx.udfs : c \in Elements(Bases(flow[f].rx.udfs[i]))
  /\ \A v \in Rules : InUse(res.class, v) => \E f \in Filtering : flow[f].rx.rules = v
-----------------------------------------------------------------------------
(* What these rest on, for the members and tables s a call works on.       *)

\* A flow has a queue only with a filter, and its filter copies there exactly
\* while it snoops; what it keeps is then its own, and no more than asked for.
Coherent(m, e) ==
  /\ m \in [is_started : BOOLEAN, is_snooping : BOOLEAN, rx : {m.rx},
            cpu_rx : Queues \cup {NoQ}, snoop_pkts : Seq(Pids), max_snoop_pkt : Nat]
  /\ m.is_started => m.rx.in_ports \subseteq Ports /\ m.rx.ports \in Seq(Pids)
  /\ m.cpu_rx # NoQ => m.is_started
  /\ m.is_snooping => /\ m.cpu_rx # NoQ
                      /\ Elements(m.snoop_pkts) \subseteq Elements(m.rx.ports)
                      /\ Len(m.snoop_pkts) <= m.max_snoop_pkt
  /\ e \in [q : Queues \cup {NoQ}, tokens : Nat]
  /\ e.q = IF m.is_snooping THEN m.cpu_rx ELSE NoQ

\* Each pair in use is one flow's, and that flow's callback is bound there.
Owners(s) ==
  /\ s.cpu \in C!CpuTypes
  /\ \A f \in Flows : \A x \in Own(s.flow[f]) : x \in s.cpu.used /\ s.cpu.dispatch[x] = f
  /\ \A x \in s.cpu.used : \E f \in Flows : x \in Own(s.flow[f])
  /\ \A x \in C!Pairs \ s.cpu.used : s.cpu.dispatch[x] = None

\* The pair callback of every filter is bound.
BoundOnes(s) ==
  /\ s.order \in Seq(Flows)
  /\ \A f \in Flows : s.flow[f].is_started => f \in Elements(s.order)

Sound(s) ==
  /\ s = [flow |-> s.flow, entry |-> s.entry, cpu |-> s.cpu, res |-> s.res,
          order |-> s.order, missed |-> s.missed]
  /\ s.flow = [f \in Flows |-> s.flow[f]] /\ s.entry = [f \in Flows |-> s.entry[f]]
  /\ \A f \in Flows : Coherent(s.flow[f], s.entry[f])
  /\ Owners(s) /\ BoundOnes(s)

\* The calls and the copies between them.
OwnInv ==
  /\ use \in Uses
  /\ front \in [Ports -> Pids]
  /\ copies \in [Queues -> Seq(Pids)]
  /\ Sound(Now)
  /\ PairInForce
-----------------------------------------------------------------------------
(* What the tables rest on.  Each use of a key is a share <<who, key>>; H  *)
(* is the set of those of the filters.                                     *)

Users(H, k) == {h \in H : h[2] = k}

\* The first n of the keys ks, used by a.
Shares(a, ks, n) == {<<<<a, i>>, ks[i]>> : i \in 1..n}

\* Each use is counted; what throwing constructors left behind is counted too.
Backed(refs, H) ==
  /\ IsFiniteSet(H) /\ \A h \in H : h[2] \in DOMAIN refs
  /\ \A k \in DOMAIN refs : Cardinality(Users(H, k)) <= refs[k]

\* No identifier is given twice, and a free one to nobody.
Pool(t, K, lowest, highest) ==
  /\ t \in Tables(K, lowest, highest)
  /\ \A k \in K : InUse(t, k) = (t.id[k] # NoId) /\ t.id[k] <= t.top
  /\ \A k, l \in K : InUse(t, k) /\ t.id[k] = t.id[l] => k = l
  /\ \A i \in DOMAIN t.free : t.free[i] <= t.top /\ \A k \in K : t.id[k] # t.free[i]
  /\ \A i, j \in DOMAIN t.free : t.free[i] = t.free[j] => i = j

Windows(r, H) ==
  /\ Pool(r.chunk, Offsets, 0, ChunkMax)
  /\ \A c \in Offsets : InUse(r.chunk, c) => r.window[r.chunk.id[c]] = c
  /\ Backed(r.chunk.refs, H)

OnPorts(r) == {x \in Pids \X Tpids : r.port_tpid[x] > 0}

Tags(r, H) ==
  /\ Pool(r.tpid, Tpids, 0, TpidMax)
  /\ \A t \in Tpids : InUse(r.tpid, t) => r.tag[r.tpid.id[t]] = t
  /\ IsFiniteSet(H) /\ \A x \in Pids \X Tpids : r.port_tpid[x] = Cardinality(Users(H, x))
  /\ Backed(r.tpid.refs, OnPorts(r))
  /\ \A p \in Pids : r.bmp[p] = Registers(r, p)

EntryRefs(r) == [k \in Pids \X Classes |-> r.vfp[k].refs]

Classified(r, Cs, Es) ==
  /\ Pool(r.class, Rules, 1, ClassMax)
  /\ Backed(r.class.refs, Cs) /\ Backed(EntryRefs(r), Es)
  /\ \A h \in Cs : r.class.id[h[2]] = h[1][2]
  /\ \A e \in Es : \E h \in Cs : h[1] = <<e[1][1], e[2][2]>>
  /\ \A k \in Pids \X Classes :
       IF r.vfp[k].refs = 0 THEN r.vfp[k].rules = None
       ELSE r.vfp[k].rules \in Rules /\ r.class.id[r.vfp[k].rules] = k[2]
  /\ \A v \in Rules : InUse(r.class, v) /\ r.class.refs[v] = Cardinality(Users(Cs, v)) =>
       \A p \in Pids : r.vfp[p, r.class.id[v]].refs = Cardinality(Users(Es, <<p, r.class.id[v]>>))

\* The windows the first n UDFs of us need.
ChunkUses(f, us, n) == UNION {Shares(<<f, i>>, Bases(us[i]), Len(Bases(us[i]))) : i \in 1..n}
TagUses(f, x) == LET ks == TagsOf(x.ports, x.tpid) IN Shares(f, ks, Len(ks))
ReservedUses == LET ks == TagsOf(SetToSeq(Pids), Reserved) IN Shares(None, ks, Len(ks))
ClassUses(f, x) == IF x.rules = None THEN {} ELSE {<<<<f, x.class>>, x.rules>>}
EntryUses(f, x) == IF x.rules = None THEN {} ELSE Shares(f, EntryKeys(x.ports, x.class), Len(x.ports))

Installed(s) == {g \in Flows : s.flow[g].is_started}
ChunkUsers(s) ==
  UNION {ChunkUses(f, s.flow[f].rx.udfs, Len(s.flow[f].rx.udfs)) : f \in Installed(s)}
TagUsers(s) == ReservedUses \cup UNION {TagUses(f, s.flow[f].rx) : f \in Installed(s)}
ClassUsers(s) == UNION {ClassUses(f, s.flow[f].rx) : f \in Installed(s)}
EntryUsers(s) == UNION {EntryUses(f, s.flow[f].rx) : f \in Installed(s)}

\* The tables r, with the users of windows, tag values, classes and entries.
Tabled(r, Hs, Ts, Cs, Es) ==
  r \in Resources /\ Windows(r, Hs) /\ Tags(r, Ts) /\ Classified(r, Cs, Es)

\* What a filter is made from.
Wanted(x) ==
  /\ x.ports \in Seq(Pids) /\ x.udfs \in Seq(Udfs)
  /\ x.tpid \in Tpids \cup {None} /\ x.rules \in Rules \cup {None}

TablesInv(s) ==
  /\ Tabled(s.res, ChunkUsers(s), TagUsers(s), ClassUsers(s), EntryUsers(s))
  /\ \A f \in Installed(s) :
       LET x == s.flow[f].rx
       IN  Wanted(x) /\ x.places = Places(s.res, x.udfs) /\ x.class = ClassOf(s.res, x.rules)
FilterInv == TablesInv(Now)

\* Each flow with a filter, and no other, has its callback bound, and once.
Tidy(s) ==
  /\ \A f \in Flows : s.entry[f].tokens <= Byte /\ s.flow[f].is_started = (s.flow[f].rx # None)
  /\ s.missed \subseteq Installed(s)
  /\ \A i \in DOMAIN s.order : s.order[i] \in Installed(s)
  /\ \A i, j \in DOMAIN s.order : s.order[i] = s.order[j] => i = j
TidyInv == Tidy(Now) /\ Waiting <= Buffer
=============================================================================
