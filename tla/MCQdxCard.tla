------------------------------- MODULE MCQdxCard -------------------------------
(* Instances of QdxCard for TLC. *)
EXTENDS QdxCard

Write(name, value) == [register |-> [name |-> name, value |-> value], write |-> TRUE]
Read(name) == [register |-> [name |-> name, value |-> 0], write |-> FALSE]

\* The queues lie in different mappings.
Setup == {Write("CqBase", [binding |-> 1, offset |-> 0]), Write("SqSize", Ring), Write("CqSize", Ring), Write("Control", {"Enable", "Notify"})}
\* One command, then two at a time; a tail taken back, and one that is refused.
Tails == {Write("SqTail", n) : n \in {1, 3}}
\* The driver takes completions two at a time, so that the ring fills and wraps.
Heads == {Write("CqHead", n) : n \in {0, 2}}
SoftResets == {Write("Control", {"Reset"})}

AllAccesses == Setup \cup Tails \cup Heads \cup SoftResets
PlainAccesses == Setup \cup Tails \cup Heads \cup {Read("CqTail")}
NoFaults == {}
AllFaults == {"Err", "BadParity"}
=============================================================================
