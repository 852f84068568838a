------------------------------- MODULE RxFilter -------------------------------
(***************************************************************************)
(* The hardware filter of a receiving flow and what filters share: UDF     *)
(* windows (udf.cpp), outer tag values (tpid.cpp), classes and entries of  *)
(* the VFP (vfp_rx.cpp).  Operators on a record r of those tables:         *)
(*   chunk, window      packet offsets in use; what each window looks at   *)
(*   tpid, port_tpid    tag values in use on the unit, users by port       *)
(*   tag, bmp           value of each tag register; registers a port uses  *)
(*   class, vfp         rule sets in use; VFP entries by port and class    *)
(***************************************************************************)
EXTENDS SharedIds, FiniteSets

CONSTANTS
  Pids,       \* port indexes of the unit
  Udfs,       \* fields of the packet qualifications name
  Offsets,    \* packet offsets a window can start at
  Tpids,      \* outer tag values
  Reserved,   \* RESERVED_TPID, on every port from the start
  Rules,      \* sets of rules of the VFP stage
  None,       \* no rules, no tag value
  ChunkMax,   \* highest window, _udf_max_id
  TpidMax,    \* highest tag register, hal_tpid_max_id
  ClassMax,   \* MAX_VFP_CLASS_ID
  VfpSlots    \* entries the RX group of the VFP has room for

CHUNK_SIZE == 4

ASSUME FilterAssumption ==
  /\ Pids # {} /\ Offsets \subseteq Int
  /\ \A u \in Udfs :
       /\ u.offset \in Nat \ {0, 1} /\ u.length \in Nat \ {0}
       /\ {o \in 2..(u.offset + u.length - 1) : o % CHUNK_SIZE = 2} \subseteq Offsets
  /\ Reserved \in Tpids /\ None \notin Tpids \cup Rules
  /\ {ChunkMax, TpidMax, VfpSlots} \subseteq Nat /\ ClassMax \in Nat \ {0}

Classes == 1..ClassMax

Resources ==
  [chunk : Tables(Offsets, 0, ChunkMax), window : [0..ChunkMax -> Offsets \cup {NoId}],
   tpid : Tables(Tpids, 0, TpidMax), port_tpid : [Pids \X Tpids -> Nat],
   tag : [0..TpidMax -> Tpids \cup {None}], bmp : [Pids -> SUBSET (0..TpidMax)],
   class : Tables(Rules, 1, ClassMax),
   vfp : [Pids \X Classes -> [refs : Nat, rules : Rules \cup {None}]]]
-----------------------------------------------------------------------------
(* UDF windows.                                                            *)

\* enduro_chunk_aligned_offset: windows start at 2, 6, 10, ...
ALIGNED_OFFSET(o) == IF o % 4 >= 2 THEN (o \div 4) * 4 + 2 ELSE (o \div 4) * 4 - 2

\* split_to_chunk, for what is left of the UDF.
Split(offset, length) ==
  LET chunks[left \in 0..length] ==
        LET from == offset + length - left
            base == ALIGNED_OFFSET(from)
            fits == CHUNK_SIZE - (from - base)
        IN  IF left > fits
            THEN <<[base |-> base, from |-> from, length |-> fits]>> \o chunks[left - fits]
            ELSE <<[base |-> base, from |-> from, length |-> left]>>
  IN  chunks[length]

\* The pieces of each UDF, and the offsets of the windows it needs.
Pieces == [u \in Udfs |-> Split(u.offset, u.length)]
Bases(u) == [i \in DOMAIN Pieces[u] |-> Pieces[u][i].base]

CanHoldChunk(r, c) == CanHold(r.chunk, c, ChunkMax)

\* Mutant: a window is taken but not aimed when an earlier user freed it.
HoldChunk_NotAimed(r, c) ==
  LET t == Hold(r.chunk, c, ChunkMax)
  IN  IF InUse(r.chunk, c) \/ r.window[t.id[c]] # NoId THEN [r EXCEPT !.chunk = t]
      ELSE [r EXCEPT !.chunk = t, !.window[t.id[c]] = c]

\* HW_CHUNK: the first user of an offset takes a window and aims it.
HoldChunk(r, c) ==
  LET t == Hold(r.chunk, c, ChunkMax)
  IN  IF InUse(r.chunk, c) THEN [r EXCEPT !.chunk = t]
      ELSE [r EXCEPT !.chunk = t, !.window[t.id[c]] = c]

DropChunk(r, c) == [r EXCEPT !.chunk = Drop(@, c)]

\* UDF: throws when it needs more windows than there are; when one cannot be
\* had, those the constructor already has stay in the table.
CanHoldUdf(r, u) ==
  /\ Len(Bases(u)) <= ChunkMax + 1
  /\ Each(CanHoldChunk, HoldChunk, r, Bases(u)).ok
HoldUdf(r, u) ==
  IF Len(Bases(u)) <= ChunkMax + 1 THEN Each(CanHoldChunk, HoldChunk, r, Bases(u)).r ELSE r
DropUdf(r, u) == FoldLeft(DropChunk, r, Bases(u))

\* UDFS: a later UDF that throws takes the earlier ones down with it.
HoldUdfs(r, us) ==
  LET a == Each(CanHoldUdf, HoldUdf, r, us)
  IN  IF a.ok THEN a
      ELSE [a EXCEPT !.r = FoldLeft(DropUdf, HoldUdf(@, us[a.n + 1]), SubSeq(us, 1, a.n))]
DropUdfs(r, us) == FoldLeft(DropUdf, r, us)

\* UDF::get_match: where in the windows each byte of the packet is compared.
PlacesOf(r, c) ==
  {<<c.from + k, r.chunk.id[c.base] * CHUNK_SIZE + (c.from - c.base) + k>> : k \in 0..(c.length - 1)}
Places(r, us) ==
  UNION {UNION {PlacesOf(r, Pieces[us[i]][j]) : j \in DOMAIN Pieces[us[i]]} : i \in DOMAIN us}

\* UDFS::get_match throws "overlapped mask"; a mask covers its whole field here.
Bytes(u) == u.offset..(u.offset + u.length - 1)
Overlapped(us) == \E i, j \in DOMAIN us : i < j /\ Bytes(us[i]) \cap Bytes(us[j]) # {}
-----------------------------------------------------------------------------
(* Outer tag values.                                                       *)

\* update_port_tpid_bmp
Registers(r, p) == {r.tpid.id[t] : t \in {u \in Tpids : r.port_tpid[p, u] > 0}}

CanHoldTpid(r, x) == r.port_tpid[x] > 0 \/ CanHold(r.tpid, x[2], TpidMax)

\* OUTER_TPID and UNIT_TPID: the first user on the port takes the value on the
\* unit, the first port of the unit a register for it.
HoldTpid(r, x) ==
  LET t == Hold(r.tpid, x[2], TpidMax)
      s == [r EXCEPT !.port_tpid[x] = 1, !.tpid = t,
                     !.tag = IF InUse(r.tpid, x[2]) THEN @ ELSE [@ EXCEPT ![t.id[x[2]]] = x[2]]]
  IN  IF r.port_tpid[x] > 0 THEN [r EXCEPT !.port_tpid[x] = @ + 1]
      ELSE [s EXCEPT !.bmp[x[1]] = Registers(s, x[1])]

\* Mutant: the port keeps the registers it used.
DropTpid_KeepsBmp(r, x) ==
  IF r.port_tpid[x] > 1 THEN [r EXCEPT !.port_tpid[x] = @ - 1]
  ELSE [r EXCEPT !.port_tpid[x] = 0, !.tpid = Drop(@, x[2])]

DropTpid(r, x) ==
  LET s == [r EXCEPT !.port_tpid[x] = 0, !.tpid = Drop(@, x[2])]
  IN  IF r.port_tpid[x] > 1 THEN [r EXCEPT !.port_tpid[x] = @ - 1]
      ELSE [s EXCEPT !.bmp[x[1]] = Registers(s, x[1])]

\* TPIDS: one OUTER_TPID for each port, when the qualification names a value.
TagsOf(ports, t) == IF t = None THEN <<>> ELSE [i \in DOMAIN ports |-> <<ports[i], t>>]

HoldTpids(r, ports, t) ==
  LET a == Each(CanHoldTpid, HoldTpid, r, TagsOf(ports, t))
  IN  IF a.ok THEN a ELSE [a EXCEPT !.r = FoldLeft(DropTpid, @, SubSeq(TagsOf(ports, t), 1, a.n))]
DropTpids(r, ports, t) == FoldLeft(DropTpid, r, TagsOf(ports, t))
-----------------------------------------------------------------------------
(* Classes and entries of the VFP.                                         *)

EntryKeys(ports, c) == [i \in DOMAIN ports |-> <<ports[i], c>>]
Entries(ports, c, rules) == [i \in DOMAIN ports |-> [key |-> <<ports[i], c>>, rules |-> rules]]

CanHoldEntry(r, e) ==
  r.vfp[e.key].refs > 0 \/ Cardinality({x \in DOMAIN r.vfp : r.vfp[x].refs > 0}) < VfpSlots

\* VFP_ENTRY: shared by the filters of the same port and class.
HoldEntry(r, e) ==
  IF r.vfp[e.key].refs > 0 THEN [r EXCEPT !.vfp[e.key].refs = @ + 1]
  ELSE [r EXCEPT !.vfp[e.key] = [refs |-> 1, rules |-> e.rules]]

\* Mutant: one filter less deletes the entry for all.
DropEntry_NotCounted(r, k) == [r EXCEPT !.vfp[k] = [refs |-> 0, rules |-> None]]

DropEntry(r, k) ==
  IF r.vfp[k].refs > 1 THEN [r EXCEPT !.vfp[k].refs = @ - 1]
  ELSE [r EXCEPT !.vfp[k] = [refs |-> 0, rules |-> None]]

\* VFP_RX: a class for the rules, then an entry on each port; when an entry
\* cannot be had the class and the entries made so far stay in their tables.
HoldVfp(r, ports, rules) ==
  LET s == [r EXCEPT !.class = Hold(@, rules, ClassMax)]
  IN  IF rules = None THEN [r |-> r, ok |-> TRUE]
      ELSE IF ~CanHold(r.class, rules, ClassMax) THEN [r |-> r, ok |-> FALSE]
      ELSE LET a == Each(CanHoldEntry, HoldEntry, s, Entries(ports, s.class.id[rules], rules))
           IN  [r |-> a.r, ok |-> a.ok]

\* ~VFP_RX
DropVfp(r, ports, rules, c) ==
  IF rules = None THEN r
  ELSE [FoldLeft(DropEntry, r, EntryKeys(ports, c)) EXCEPT !.class = Drop(@, rules)]

ClassOf(r, rules) == IF rules = None THEN NoId ELSE r.class.id[rules]
-----------------------------------------------------------------------------
\* ~RX: its members, last to first.
DropFilter(r, x) == DropUdfs(DropTpids(DropVfp(r, x.ports, x.rules, x.class), x.ports, x.tpid), x.udfs)

\* RX::IMPL: members in their order; one that throws unwinds the earlier ones.
\* a.r are the tables so far, a.ok tells that nothing has thrown.
Failed(a, undone) == [a EXCEPT !.r = undone, !.ok = FALSE]
Unwound(r, q, ports) == DropUdfs(DropTpids(r, ports, q.tpid), q.udfs)

WithTpids(a, q, ports) ==
  LET t == HoldTpids(a.r, ports, q.tpid)
  IN  IF ~a.ok THEN a
      ELSE IF t.ok THEN [a EXCEPT !.r = t.r] ELSE Failed(a, DropUdfs(t.r, q.udfs))

WithVfp(a, q, ports) ==
  LET v == HoldVfp(a.r, ports, q.rules)
  IN  IF ~a.ok THEN a
      ELSE IF Overlapped(q.udfs) THEN Failed(a, Unwound(a.r, q, ports))
      ELSE IF v.ok THEN [a EXCEPT !.r = v.r] ELSE Failed(a, Unwound(v.r, q, ports))

FilterOf(r, q, ports) ==
  [in_ports |-> q.in_ports, ports |-> ports, udfs |-> q.udfs, tpid |-> q.tpid,
   rules |-> q.rules, class |-> ClassOf(r, q.rules), places |-> Places(r, q.udfs)]

\* `room` tells whether the entry of the IFP can be created.
WithEntry(a, q, ports, room) ==
  IF ~a.ok \/ room THEN a ELSE Failed(a, DropFilter(a.r, FilterOf(a.r, q, ports)))

HoldFilter(r, q, ports, room) ==
  WithEntry(WithVfp(WithTpids(HoldUdfs(r, q.udfs), q, ports), q, ports), q, ports, room)

\* tpid_init: RESERVED_TPID on every port, never freed.
NewResources ==
  LET r == [chunk |-> NewTable(Offsets, 0), window |-> [i \in 0..ChunkMax |-> NoId],
            tpid |-> NewTable(Tpids, 0), port_tpid |-> [x \in Pids \X Tpids |-> 0],
            tag |-> [i \in 0..TpidMax |-> None], bmp |-> [p \in Pids |-> {}],
            class |-> NewTable(Rules, 1),
            vfp |-> [x \in Pids \X Classes |-> [refs |-> 0, rules |-> None]]]
  IN  FoldLeft(HoldTpid, r, TagsOf(SetToSeq(Pids), Reserved))
=============================================================================
