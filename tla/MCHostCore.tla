------------------------------ MODULE MCHostCore ------------------------------
(* Small controllers.  The DMA run has one slot, used by the worker and by a   *)
(* card with a mapping; the arbitration run has three cards and a worker.      *)
EXTENDS HostCore

CONSTANT w1

MCWords    == {w1}
MCBursts   == {1, 2}
MCMappings == {<<0, 8>>}
MCOffsets  == {0}
NoMappings == {}
OneSlot    == {0}
OneRegister == {0}
NoWorker   == {}
MCWorker   == {[slot |-> 1, register |-> 0, write |-> FALSE, valid |-> TRUE],
               [slot |-> 0, register |-> 0, write |-> TRUE, valid |-> FALSE]}
SelfTest   == {[slot |-> 0, register |-> 0, write |-> FALSE, valid |-> TRUE]}
TwoBeats   == {2}
NoChannel  == {}
OneChannel == {0}
NoneConfigured == {}
OneConfigured == {<<1, 0>>}
Pins       == {"Good", "BadParity"}
AllPins    == {"Good", "BadParity", "Undriven"}
=============================================================================
