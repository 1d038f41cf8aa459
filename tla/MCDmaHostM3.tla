----------------------------- MODULE MCDmaHostM3 -----------------------------
(* The engine with one slot and two channels: a burst on one of them beside  *)
(* binds and revokes of both.  The generation wraps within the bound.        *)
EXTENDS DmaHostM3

CONSTANT w1

MCBases   == {2, 8}
MCLengths == {8, 12}
MCOffsets == {0, 4, 2}
MCBursts  == {1, 2}
MCWords   == {w1}
=============================================================================
