----------------------------- MODULE MCHostMemory -----------------------------
(* One card, one mapping over both words of memory, and a backend that may be  *)
(* slower than the controller's time limit.                                    *)
EXTENDS HostMemory

CONSTANTS b1, b2

MCLanes     == {0}
MCBytes     == {b1, b2}
MCWords     == [MCLanes -> MCBytes]
MCBursts    == {1, 2}
MCMappings  == {<<0, 8>>}
MCOffsets   == {0, 4}
MCLatencies == {1, 6}
MCHoldoffs  == {0}
NoChannel   == {}
NoWorker    == {}
OneSlot     == {0}
NoRegister  == {}
Pins        == {"Good"}
NoneConfigured == {}
=============================================================================
