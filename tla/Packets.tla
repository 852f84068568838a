------------------------------- MODULE Packets -------------------------------
(***************************************************************************)
(* Packets under construction: the named packets of the Lua interface      *)
(* (packet.cpp), each a tree of fields (field.cpp, field_impl.cpp) with    *)
(* steps and random values (field_seed.cpp), fields computed from their    *)
(* siblings, and at every node a cache of what it last read as.            *)
(*                                                                         *)
(* BITS are sequences of 0 and 1, most significant first; BYTES are BITS   *)
(* of whole bytes (bytes_bits.cpp).  The three caches of a node, as bits,  *)
(* bytes and text, are cleared together and are one here.  A name with     *)
(* points (FIELD::INDEX) is the path of its field in the tree.  Texts are  *)
(* what their parsers make of them.                                        *)
(***************************************************************************)
EXTENDS Integers, Sequences, SequencesExt, FiniteSets, FiniteSetsExt, Functions

CONSTANTS
  Names,      \* names of packets
  Templates,  \* what the protocols make, by name (pkt_lib.cpp)
  Extras,     \* fields to append or insert
  Values,     \* BYTES to set
  Steps,      \* [incr, step, base, count] to set; base None for the value there is
  Counts,     \* of random values
  Sizes,      \* bytes to resize to
  Patterns,   \* BYTES to repeat
  Byte,       \* bits of a byte
  MaxNodes,   \* bound: nodes of a packet
  MaxCalls,   \* bound: calls that change something
  None

VARIABLES
  db_pkt,     \* packets by name, None where there is none
  aborted,    \* an assertion failed
  calls       \* so far, for the bound

vars == <<db_pkt, aborted, calls>>
-----------------------------------------------------------------------------
(* Bits and bytes.                                                         *)

Zeros(n) == [i \in 1..n |-> 0]
RECURSIVE ToNat(_)
ToNat(b) == IF b = <<>> THEN 0 ELSE 2 * ToNat(Front(b)) + Last(b)
RECURSIVE Total(_)
Total(ns) == IF ns = <<>> THEN 0 ELSE Head(ns) + Total(Tail(ns))
FromNat(n, size) == [i \in 1..size |-> (n \div 2^(size - i)) % 2]

size_fit(b, size) ==
  IF Len(b) >= size THEN SubSeq(b, Len(b) - size + 1, Len(b)) ELSE Zeros(size - Len(b)) \o b

BytesOf(size) == (size + Byte - 1) \div Byte
bits_to_bytes(b) == size_fit(b, Byte * BytesOf(Len(b)))
pattern_fit(b, bytes) == [i \in 1..(Byte * bytes) |-> b[((i - 1) % Len(b)) + 1]]
bytes_add(a, b) == FromNat((ToNat(a) + ToNat(b)) % 2^Len(a), Len(a))
bytes_sub(a, b) == FromNat((2^Len(a) + ToNat(a) - (ToNat(b) % 2^Len(a))) % 2^Len(a), Len(a))
-----------------------------------------------------------------------------
(* Steps.  current and i are as after reset when they are None and 0.      *)

Seed(kind, incr, step, base, size, count) ==
  [kind |-> kind, incr |-> incr, step |-> step, base |-> base, size |-> size, count |-> count,
   current |-> base, i |-> 0]

Reset(s) == IF s.kind = "step" THEN [s EXCEPT !.current = s.base, !.i = 0] ELSE s

\* Mutant: the first packet has the first step already.
Next_NoBase(s, rand) ==
  IF s.kind = "random" THEN [s EXCEPT !.current = size_fit(rand, s.size)]
  ELSE [s EXCEPT !.i = (@ + 1) % s.count,
                 !.current = bits_to_bytes(size_fit(IF s.incr THEN bytes_add(@, s.step) ELSE bytes_sub(@, s.step), s.size))]

NextOf(s, rand) ==
  IF s.kind = "random" THEN [s EXCEPT !.current = bits_to_bytes(size_fit(rand, s.size))]
  ELSE LET next == IF s.i = 0 THEN s.base
                   ELSE IF s.incr THEN bytes_add(s.current, s.step) ELSE bytes_sub(s.current, s.step)
       IN  [s EXCEPT !.i = IF @ = 0 THEN 1 ELSE (@ + 1) % s.count,
                     !.current = bits_to_bytes(size_fit(next, s.size))]
-----------------------------------------------------------------------------
(* Nodes.  kind is "fixed" (options too), "resizable", "sum" or "length"   *)
(* (calculators over the siblings not in "of" when black, in it otherwise) *)
(* or "block".                                                             *)

Node(kind, name, size, of, black, fields) ==
  [kind |-> kind, name |-> name, size |-> size, of |-> of, black |-> black, fields |-> fields,
   bits |-> IF kind \in {"fixed", "resizable"} THEN Zeros(size) ELSE <<>>,
   seed |-> None, cache |-> None, pkts |-> <<>>]

Fixed(name, size) == Node("fixed", name, size, {}, FALSE, <<>>)
Resizable(name, bytes) == Node("resizable", name, Byte * bytes, {}, FALSE, <<>>)
\* A checksum leaves itself out.
Sum(name, size, of, black) == Node("sum", name, size, IF black THEN of \cup {name} ELSE of \ {name}, black, <<>>)
Length(name, size, of, black) == Node("length", name, size, of, black, <<>>)
Block(name, fields) == Node("block", name, 0, {}, FALSE, fields)

Cacs == {"sum", "length"}
NamesOf(fs) == {f.name : f \in Range(fs)}

RECURSIVE SizeOf(_), SizeOfAll(_)
SizeOf(n) == IF n.kind = "block" THEN SizeOfAll(n.fields) ELSE n.size
SizeOfAll(fs) == IF fs = <<>> THEN 0 ELSE SizeOf(Head(fs)) + SizeOfAll(Tail(fs))

RECURSIVE offset_of_bit(_, _)
offset_of_bit(n, path) ==
  IF path = <<>> THEN 0
  ELSE SizeOfAll(SubSeq(n.fields, 1, Head(path) - 1)) + offset_of_bit(n.fields[Head(path)], Tail(path))

RECURSIVE NodesOf(_)
NodesOf(n) == 1 + Total([i \in DOMAIN n.fields |-> NodesOf(n.fields[i])])

RECURSIVE is_resizable(_)
is_resizable(n) == n.kind = "resizable" \/ \E f \in Range(n.fields) : is_resizable(f)

\* Copies, and whatever is appended, inserted or extended, start without seeds and caches.
RECURSIVE clone(_)
clone(n) == [n EXCEPT !.seed = None, !.cache = None, !.pkts = <<>>,
                      !.fields = [i \in DOMAIN @ |-> clone(@[i])]]

RECURSIVE At(_, _)
At(n, path) == IF path = <<>> THEN n ELSE At(n.fields[Head(path)], Tail(path))

\* Mutant: the packets of a block are kept.
cache_clear_KeepsPkts(n) == [n EXCEPT !.cache = None]

cache_clear(n) == [n EXCEPT !.cache = None, !.pkts = <<>>]

\* A node changes, and its parents clear their caches.
RECURSIVE Put(_, _, _)
Put(n, path, m) ==
  IF path = <<>> THEN m ELSE [cache_clear(n) EXCEPT !.fields[Head(path)] = Put(@, Tail(path), m)]

RECURSIVE PathsOf(_)
PathsOf(n) == {<<>>} \cup UNION {{<<i>> \o p : p \in PathsOf(n.fields[i])} : i \in DOMAIN n.fields}
-----------------------------------------------------------------------------
(* Reading.                                                                *)

Covered(n, fs) == SelectSeq(fs, LAMBDA f : (f.name \in n.of) # n.black /\ SizeOf(f) > 0)

\* One's complement of the one's complement sum of the words, words of a byte.
Words(b) == [i \in 1..(Len(b) \div Byte) |-> ToNat(SubSeq(b, Byte * (i - 1) + 1, Byte * i))]
Folded(n) == IF n = 0 THEN 0 ELSE ((n - 1) % (2^Byte - 1)) + 1
ip_hdr_chksum(b) == FromNat(2^Byte - 1 - Folded(Total(Words(b))), Byte)
len_of_byte(size) == FromNat(size \div Byte, 2 * Byte)

RECURSIVE get_bits(_, _), BitsOfAll(_, _)
get_bits(n, siblings) ==
  IF n.kind \in Cacs /\ n.bits = <<>>
  THEN size_fit(IF n.kind = "sum"
                THEN ip_hdr_chksum(bits_to_bytes(BitsOfAll(Covered(n, siblings), siblings)))
                ELSE len_of_byte(SizeOfAll(Covered(n, siblings))),
                n.size)
  ELSE IF n.kind \notin Cacs /\ n.cache # None THEN n.cache
  ELSE IF n.kind = "block" THEN BitsOfAll(n.fields, n.fields)
  ELSE n.bits

BitsOfAll(fs, siblings) ==
  IF fs = <<>> THEN <<>> ELSE get_bits(Head(fs), siblings) \o BitsOfAll(Tail(fs), siblings)

\* A node and what it has read are cached, calculators apart.
RECURSIVE Cached(_, _)
Cached(n, siblings) ==
  IF n.kind \in Cacs \/ n.cache # None THEN n
  ELSE [n EXCEPT !.cache = get_bits(n, siblings), !.fields = [i \in DOMAIN @ |-> Cached(@[i], n.fields)]]

\* dump reads the texts of the fields; a block is read by the sums over it.
RECURSIVE Dumped(_)
Dumped(n) ==
  LET Summed(b) == \E f \in Range(n.fields) : f.kind = "sum" /\ f.bits = <<>> /\ b \in Range(Covered(f, n.fields))
  IN  [n EXCEPT !.fields = [i \in DOMAIN @ |->
         IF @[i].kind # "block" THEN Cached(@[i], @)
         ELSE Dumped(IF Summed(@[i]) THEN Cached(@[i], @) ELSE @[i])]]

RECURSIVE seed_cnt(_)
seed_cnt(n) ==
  IF n.kind = "block" THEN Max({0} \cup {seed_cnt(f) : f \in Range(n.fields)})
  ELSE IF n.seed = None THEN 1 ELSE n.seed.count

RECURSIVE seed_reset(_)
seed_reset(n) ==
  IF n.kind = "block" THEN [n EXCEPT !.fields = [i \in DOMAIN @ |-> seed_reset(@[i])]]
  ELSE IF n.seed = None THEN n ELSE [n EXCEPT !.seed = Reset(@)]

RECURSIVE Seeded(_)
Seeded(n) == n.seed # None \/ \E f \in Range(n.fields) : Seeded(f)

\* The next value of a field is in its cache only.
RECURSIVE seed_next(_, _)
seed_next(n, rand) ==
  IF ~Seeded(n) THEN n
  ELSE IF n.kind = "block" THEN [cache_clear(n) EXCEPT !.fields = [i \in DOMAIN @ |-> seed_next(@[i], rand)]]
  ELSE LET s == NextOf(n.seed, rand) IN [n EXCEPT !.seed = s, !.cache = size_fit(s.current, n.size)]

\* get_pkts: cleared in every round, so cached at last.
RECURSIVE Rounds(_, _, _)
Rounds(n, pkts, rands) ==
  IF rands = <<>> THEN [n EXCEPT !.pkts = pkts]
  ELSE LET m == Cached(seed_next(n, Head(rands)), <<>>)
       IN  Rounds(m, Append(pkts, bits_to_bytes(m.cache)), Tail(rands))

get_pkts(n, rands) == IF n.pkts # <<>> THEN n ELSE Rounds(seed_reset(n), <<>>, rands)
-----------------------------------------------------------------------------
(* Writing.                                                                *)

Outcome(node, out) == [node |-> node, out |-> out]

\* Mutant: a resizable field takes all that is left.
Share_Rest(fs, bits) == IF is_resizable(fs[1]) THEN Len(bits) ELSE SizeOf(fs[1])

\* Of the bits left for these fields, how many the first one gets.
Share(fs, bits) ==
  IF is_resizable(fs[1]) THEN Len(bits) - SizeOfAll(Tail(fs)) ELSE SizeOf(fs[1])

\* set_bits, down to the leaves: fields behind the last bit keep theirs, a
\* second resizable field throws and too few bits fail an assertion, when the
\* fields before are written already.
RECURSIVE Written(_, _), Spread(_, _)
Written(n, bits) ==
  LET set == [cache_clear(n) EXCEPT !.seed = None]
  IN  IF n.kind = "block"
      THEN LET s == Spread(n.fields, bits)
           IN  Outcome([set EXCEPT !.fields = s.fields], s.out)
      ELSE IF n.kind = "resizable"
      THEN IF Len(bits) % Byte = 0 THEN Outcome([set EXCEPT !.bits = bits, !.size = Len(bits)], "ok")
           ELSE Outcome(n, "throws")
      ELSE Outcome([set EXCEPT !.bits = IF n.kind \in Cacs /\ bits = <<>> THEN <<>> ELSE size_fit(bits, n.size)], "ok")

Spread(fs, bits) ==
  LET share == Share(fs, bits)
      refused == is_resizable(fs[1]) /\ \E f \in Range(Tail(fs)) : is_resizable(f)
      short == share \notin 0..Len(bits) \/ (is_resizable(fs[1]) /\ SizeOfAll(Tail(fs)) % Byte # 0)
      first == Written(fs[1], SubSeq(bits, 1, share))
      rest == Spread(Tail(fs), SubSeq(bits, share + 1, Len(bits)))
  IN  IF fs = <<>> \/ bits = <<>> THEN [fields |-> fs, out |-> "ok"]
      ELSE IF refused \/ short THEN [fields |-> fs, out |-> IF refused THEN "throws" ELSE "aborts"]
      ELSE IF first.out # "ok" THEN [fields |-> <<first.node>> \o Tail(fs), out |-> first.out]
      ELSE [fields |-> <<first.node>> \o rest.fields, out |-> rest.out]

\* Mutant: the size that was asked is not kept.
Resized_KeepsSize(n, bytes) ==
  [cache_clear(n) EXCEPT !.bits = size_fit(@, Byte * bytes)]

\* RESIZABLE_IMPL::resize: cut or padded at its end.
Resized(n, bytes) ==
  LET b == IF Len(n.bits) >= Byte * bytes THEN SubSeq(n.bits, 1, Byte * bytes)
           ELSE n.bits \o Zeros(Byte * bytes - Len(n.bits))
  IN  IF Byte * bytes = n.size THEN n ELSE [cache_clear(n) EXCEPT !.bits = b, !.size = Byte * bytes]
-----------------------------------------------------------------------------
(* The Lua functions.  A call that is refused at once changes nothing.     *)

Init ==
  /\ db_pkt = [p \in Names |-> None]
  /\ aborted = FALSE
  /\ calls = 0

Packets == {p \in Names : db_pkt[p] # None}
Fields(p) == PathsOf(db_pkt[p]) \ {<<>>}
Becomes(p, n) ==
  /\ db_pkt' = [db_pkt EXCEPT ![p] = n]
  /\ UNCHANGED aborted

\* pkt_create_eth, pkt_create_raw with a protocol
Create(p, t) ==
  /\ p \notin Packets
  /\ Becomes(p, [t EXCEPT !.name = p])

\* pkt_create_raw without one: insert() does nothing where there is a packet.
CreateRaw(p) ==
  /\ p \notin Packets
  /\ Becomes(p, Block(p, <<>>))

\* pkt_copy: nothing where there is a packet too; the copy keeps the name inside.
Copy(p, q) ==
  /\ p \in Packets /\ q \notin Packets
  /\ Becomes(q, clone(db_pkt[p]))

Destroy(p) ==
  /\ p \in Packets
  /\ Becomes(p, None)

Assign(p, path, bits) ==
  LET w == Written(At(db_pkt[p], path), bits)
  IN  /\ db_pkt' = [db_pkt EXCEPT ![p] = Put(@, path, w.node)]
      /\ aborted' = (w.out = "aborts")

SetValue(p, path, v) ==
  /\ p \in Packets /\ path \in Fields(p)
  /\ Assign(p, path, v)

SetPattern(p, path, v) ==
  /\ p \in Packets /\ path \in Fields(p)
  /\ Assign(p, path, pattern_fit(v, BytesOf(SizeOf(At(db_pkt[p], path)))))

SetSeed(p, path, n, seed) ==
  Becomes(p, Put(db_pkt[p], path, [cache_clear(n) EXCEPT !.seed = seed]))

\* Without a start it starts from the value read now.  A step of more bytes
\* than the field has throws here or at the second packet.
SetStep(p, path, s) ==
  /\ p \in Packets /\ path \in Fields(p)
  /\ LET n == At(db_pkt[p], path)
         base == IF s.base # None THEN s.base ELSE bits_to_bytes(get_bits(n, <<>>))
     IN  /\ n.kind \in {"fixed", "resizable"}
         /\ Len(s.step) <= Len(base) /\ Len(s.step) <= Byte * BytesOf(n.size)
         /\ SetSeed(p, path, n, Seed("step", s.incr, s.step, base, n.size, s.count))

SetRandom(p, path, count) ==
  /\ p \in Packets /\ path \in Fields(p)
  /\ LET n == At(db_pkt[p], path)
     IN  /\ n.kind \in {"fixed", "resizable"}
         /\ SetSeed(p, path, n, Seed("random", TRUE, None, None, n.size, count))

Resize(p, path, bytes) ==
  /\ p \in Packets /\ path \in Fields(p)
  /\ LET n == At(db_pkt[p], path)
     IN  /\ n.kind = "resizable"
         /\ Becomes(p, Put(db_pkt[p], path, Resized(n, bytes)))

AppendField(p, f) ==
  /\ p \in Packets /\ f.name \notin NamesOf(db_pkt[p].fields)
  /\ Becomes(p, [cache_clear(db_pkt[p]) EXCEPT !.fields = Append(@, f)])

\* Before the field at the path, in the block it is in.
InsertField(p, path, f) ==
  /\ p \in Packets /\ path \in Fields(p)
  /\ LET n == At(db_pkt[p], Front(path))
     IN  /\ f.name \notin NamesOf(n.fields)
         /\ Becomes(p, Put(db_pkt[p], Front(path), [cache_clear(n) EXCEPT !.fields = InsertAt(@, Last(path), f)]))

RemoveField(p, path) ==
  /\ p \in Packets /\ path \in Fields(p)
  /\ LET n == At(db_pkt[p], Front(path))
     IN  Becomes(p, Put(db_pkt[p], Front(path), [cache_clear(n) EXCEPT !.fields = RemoveAt(@, Last(path))]))

\* A copy of packet q takes the place and the name of the field.
Extend(p, path, q) ==
  /\ {p, q} \subseteq Packets /\ path \in Fields(p)
  /\ LET n == At(db_pkt[p], Front(path))
         name == n.fields[Last(path)].name
     IN  /\ db_pkt[q].name \in NamesOf(n.fields) => db_pkt[q].name = name
         /\ Becomes(p, Put(db_pkt[p], Front(path),
              [cache_clear(n) EXCEPT !.fields[Last(path)] = [clone(db_pkt[q]) EXCEPT !.name = name]]))

\* A length over broken bytes throws when it is read; what is cached until then
\* is left out.
Whole(n) ==
  \A path \in PathsOf(n) :
    At(n, path).kind = "length" /\ At(n, path).bits = <<>> =>
      SizeOfAll(Covered(At(n, path), At(n, Front(path)).fields)) % Byte = 0

\* pkt_show
Show(p) ==
  /\ p \in Packets /\ Whole(db_pkt[p])
  /\ Becomes(p, Dumped(db_pkt[p]))

\* A flow is given the packets: tx_flow_set_pkt.
Generate(p) ==
  /\ p \in Packets /\ Whole(db_pkt[p])
  /\ \E rands \in [1..seed_cnt(db_pkt[p]) -> Values] : Becomes(p, get_pkts(db_pkt[p], rands))

Call(p) ==
  \/ \E t \in Templates : Create(p, t)
  \/ \E q \in Names : Copy(p, q)
  \/ CreateRaw(p) \/ Destroy(p) \/ Show(p) \/ Generate(p)
  \/ \E f \in Extras : AppendField(p, f)
  \/ \E path \in IF p \in Packets THEN Fields(p) ELSE {} :
       \/ \E v \in Values : SetValue(p, path, v)
       \/ \E v \in Patterns : SetPattern(p, path, v)
       \/ \E s \in Steps : SetStep(p, path, s)
       \/ \E n \in Counts : SetRandom(p, path, n)
       \/ \E n \in Sizes : Resize(p, path, n)
       \/ \E f \in Extras : InsertField(p, path, f)
       \/ \E q \in Names : Extend(p, path, q)
       \/ RemoveField(p, path)

Next ==
  /\ ~aborted /\ calls < MaxCalls
  /\ calls' = calls + 1
  /\ \E p \in Names : Call(p)
  /\ \A p \in Names : db_pkt'[p] # None => NodesOf(db_pkt'[p]) <= MaxNodes

Spec == Init /\ [][Next]_vars
=============================================================================
