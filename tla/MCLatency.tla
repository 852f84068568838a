------------------------------ MODULE MCLatency ------------------------------
(***************************************************************************)
(* Constants of the LatencyCac runs.                                       *)
(***************************************************************************)
EXTENDS LatencyProperties

TwoPackets == {0, 1}
\* The first packet leaves just before the stamp turns over; with a delay of
\* two it arrives at stamp 0, which reads as TS_INVALID.
NearTurn == {6}
OneOrTwo == {1, 2}
OnePacket == {0}
=============================================================================
