------------------------------ MODULE MCHostCard ------------------------------
(* One card whose device reads or writes bursts of two words through one       *)
(* mapping, notifies, and answers two registers.                               *)
EXTENDS HostCard

Handle == [channel |-> 0, generation |-> 0, offset |-> 0]

MCWords     == {0, 1}
MCBursts    == {2}
MCMappings  == {<<0, 8>>}
MCOffsets   == {0}
MCSlots     == {0}
MCRegisters == {0, 1}
OneChannel  == {0}
NoneConfigured == {}
Pins        == {"Good", "BadParity"}
MCWorker    == {[slot |-> 0, register |-> 0, write |-> FALSE, valid |-> TRUE],
                [slot |-> 0, register |-> 1, write |-> TRUE, valid |-> TRUE]}
Never       == {FALSE}
NoWork      == {}
MCRequests  == [direction : {"HostToDevice", "DeviceToHost"}, handle : {Handle}, words : {2}]
MCAnswers   == {"Ok", "Error"}
=============================================================================
