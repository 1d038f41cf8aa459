-------------------------- MODULE MCMemoryController --------------------------
(* Two byte lanes, two words of memory, one address outside them and one      *)
(* misaligned address.                                                        *)
EXTENDS MemoryController

CONSTANTS b1, b2

MCLanes     == {0, 1}
MCBytes     == {b1, b2}
MCLatencies == {0, 1}
MCHoldoffs  == {0, 2}
MCAddresses == {0, 4, 8, 2}
=============================================================================
