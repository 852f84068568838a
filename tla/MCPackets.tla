------------------------------ MODULE MCPackets ------------------------------
(***************************************************************************)
(* Small instances of Packets.                                             *)
(***************************************************************************)
EXTENDS PacketsProperties, TLC

CONSTANTS p, q

\* Bytes of two bits.  A frame with a checksum over the rest, a header with the
\* length of the rest, a tag of two fields in a byte.
Frame == Block("frame", <<Fixed("type", 2), Resizable("pay", 1), Sum("fcs", 2, {}, TRUE)>>)
Header == Block("header", <<Length("len", 4, {}, TRUE), Resizable("data", 1)>>)
Tag == Block("tag", <<Fixed("x", 1), Fixed("y", 1)>>)

TwoTemplates == {Frame, Header}
OneExtra == {Tag}
TwoValues == {<<0, 1>>, <<1, 1, 1, 0>>}
OnePattern == {<<1, 0>>}
TwoSteps == {[incr |-> TRUE, step |-> <<0, 1>>, base |-> None, count |-> 3],
             [incr |-> FALSE, step |-> <<1, 0>>, base |-> <<0, 1>>, count |-> 2]}
Symmetric == Permutations({p, q})
=============================================================================
