-------------------------- MODULE PacketsProperties --------------------------
(* What packets under construction promise. *)
EXTENDS Packets

Leaf(n) == n.kind # "block"

\* The types of the state: a field has as many bits as it says and reads from
\* its cache, only plain fields have seeds, and names among siblings differ.
TypeOK ==
  /\ aborted \in BOOLEAN
  /\ \A p \in Packets : \A path \in PathsOf(db_pkt[p]) :
       LET n == At(db_pkt[p], path)
       IN  /\ n.kind \in {"fixed", "resizable", "block"} \cup Cacs
           /\ Leaf(n) => Len(n.bits) = n.size \/ (n.kind \in Cacs /\ n.bits = <<>>)
           /\ n.cache # None => Len(n.cache) = SizeOf(n) /\ n.kind \notin Cacs
           /\ n.seed # None => n.kind \in {"fixed", "resizable"}
           /\ Cardinality(NamesOf(n.fields)) = Len(n.fields)

\* A tree without caches: a field with a seed has its value there only.
RECURSIVE Bare(_)
Bare(n) == [n EXCEPT !.bits = IF n.seed # None /\ n.cache # None THEN n.cache ELSE @,
                     !.cache = None, !.fields = [i \in DOMAIN @ |-> Bare(@[i])]]

\* What a node, and the packet list of a whole packet, have cached is what they
\* would read now, whatever was set, stepped, resized, inserted, removed or
\* shown below them since (FIELD::IMPL::cache_clear climbs to the parents).
CachesAgree ==
  \A p \in Packets :
    LET bare == Bare(db_pkt[p])
        pkts == db_pkt[p].pkts
    IN  /\ \A path \in PathsOf(db_pkt[p]) :
             At(db_pkt[p], path).cache # None =>
               At(db_pkt[p], path).cache = get_bits(At(bare, path), <<>>)
        /\ pkts # <<>> => pkts[Len(pkts)] = bits_to_bytes(get_bits(bare, <<>>))

SeedsOf(n) == {At(n, path).seed : path \in PathsOf(n)} \ {None}

\* The k-th value of steps, by definition.
RefStep(s, k, size) ==
  LET steps == ((k - 1) % s.count) * ToNat(s.step)
      n == IF s.incr THEN ToNat(s.base) + steps ELSE ToNat(s.base) - steps
  IN  size_fit(FromNat(n % 2^s.size, s.size), size)

\* A reader who takes a generated packet apart at the offsets the interface
\* gives finds every field: the steps one after the other, starting again after
\* their count, beside fields that keep their values, and sums and lengths over
\* what this very packet carries.  Steps of count 1 are left out: they do not
\* stay (field_seed.cpp:140).
PacketsParse ==
  \A p \in Packets :
    LET root == db_pkt[p]
        Slice(path, b) == LET o == offset_of_bit(root, path) IN SubSeq(b, o + 1, o + SizeOf(At(root, path)))
        Covers(path, b) ==
          LET fs == At(root, Front(path)).fields
              in == SetToSortSeq({i \in DOMAIN fs : fs[i] \in Range(Covered(At(root, path), fs))}, <)
          IN  FlattenSeq([i \in DOMAIN in |-> Slice(Append(Front(path), in[i]), b)])
    IN  root.pkts # <<>> /\ SizeOf(root) % Byte = 0 =>
        /\ Len(root.pkts) = Max({1} \cup {s.count : s \in SeedsOf(root)})
        /\ \A k \in DOMAIN root.pkts : \A path \in Fields(p) :
             LET b == root.pkts[k]
                 n == At(root, path)
             IN  /\ Len(b) = SizeOf(root)
                 /\ Leaf(n) /\ n.bits # <<>> /\ n.seed = None => Slice(path, b) = n.bits
                 /\ n.seed # None /\ n.seed.kind = "step" /\ n.seed.count > 1
                      => Slice(path, b) = RefStep(n.seed, k, n.size)
                 /\ n.kind = "sum" /\ n.bits = <<>> =>
                      Folded(Total(<<ToNat(Slice(path, b))>> \o Words(bits_to_bytes(Covers(path, b))))) = 2^Byte - 1
                 /\ n.kind = "length" /\ n.bits = <<>> => ToNat(Slice(path, b)) * Byte = Len(Covers(path, b))

Resizables(n) == {path \in PathsOf(n) : At(n, path).kind = "resizable"}

\* What is written is what is read: the low bits in a field, and all bytes in a
\* block of that size or with a resizable field, to which update_bits gives what
\* the other fields leave; if they leave nothing it keeps its bytes.
WrittenIsRead ==
  \A p \in Packets : \A path \in PathsOf(db_pkt[p]), v \in Values :
    LET n == At(db_pkt[p], path)
        w == Written(n, v)
        read == get_bits(Bare(w.node), <<>>)
        fits == SizeOf(n) = Len(v) /\ Cardinality(Resizables(n)) <= 1
        grows == \E r \in Resizables(n) : Resizables(n) = {r} /\ Len(v) > SizeOf(n) - At(n, r).size
    IN  w.out = "ok" =>
        /\ n.kind = "resizable" => read = v
        /\ n.kind \notin {"block", "resizable"} => read = size_fit(v, n.size)
        /\ n.kind = "block" /\ (fits \/ grows) => read = v
=============================================================================
