---------------------------- MODULE MemoryService ----------------------------
(***************************************************************************)
(* What the memory controller promises: one request at a time, performed   *)
(* on memory at a single instant between its acceptance and its answer,    *)
(* answered once, or cancelled by a reset.  A controller that is reset on  *)
(* its own may leave a stray request with the backend: it is performed at  *)
(* most once, its completion reaches nobody, and it holds up the others.   *)
(***************************************************************************)
EXTENDS Naturals

CONSTANTS
  Lanes, Bytes,  \* byte lanes of a word, and what they hold
  Capacity,      \* words of memory
  Addresses,     \* byte addresses requested
  Absent         \* no request, no answer

VARIABLES
  words,     \* the contents of memory
  call,      \* the request accepted and not yet answered to the end, or Absent
  answer,    \* its answer, once performed
  stray      \* an abandoned request, or the completion nobody collects

vars == <<words, call, answer, stray>>

Contents == [Lanes -> Bytes]

Calls == [address : Addresses, write : BOOLEAN, lanes : SUBSET Lanes,
          data : Contents \cup {Absent}]

Served(r) == r.address % 4 = 0 /\ r.address < 4 * Capacity

Reply(r) ==
  [kind  |-> IF ~Served(r) THEN "Fault" ELSE IF r.write THEN "WriteDone" ELSE "ReadData",
   value |-> IF Served(r) /\ ~r.write THEN words[r.address \div 4] ELSE Absent]

\* The byte lanes r writes take its data, every other byte keeps its value.
Store(r) ==
  words' = [w \in DOMAIN words |-> [l \in Lanes |->
              IF r.write /\ r.address = 4 * w /\ l \in r.lanes THEN r.data[l] ELSE words[w][l]]]

Init ==
  /\ words \in [0 .. Capacity - 1 -> Contents]
  /\ call = Absent
  /\ answer = Absent
  /\ stray = Absent

\* A misaligned request is answered without the backend.
Accept(r) ==
  /\ call = Absent
  /\ call' = r
  /\ answer' = IF r.address % 4 # 0 THEN Reply(r) ELSE Absent
  /\ UNCHANGED <<words, stray>>

Perform ==
  /\ call # Absent /\ answer = Absent /\ stray = Absent
  /\ answer' = Reply(call)
  /\ Store(call)
  /\ UNCHANGED <<call, stray>>

Take ==
  /\ answer # Absent
  /\ call' = Absent
  /\ answer' = Absent
  /\ UNCHANGED <<words, stray>>

\* A reset, of the controller or of both sides, that leaves nothing new behind.
Cancel ==
  /\ call' = Absent
  /\ answer' = Absent
  /\ stray' \in {stray, Absent}
  /\ UNCHANGED words

\* A reset of the controller while the backend has the request.
Abandon ==
  /\ call # Absent /\ answer = Absent /\ stray = Absent
  /\ call' = Absent
  /\ stray' = call
  /\ UNCHANGED <<words, answer>>

PerformStray ==
  /\ stray \in Calls
  /\ stray' = Reply(stray)
  /\ Store(stray)
  /\ UNCHANGED <<call, answer>>

Next ==
  \/ \E r \in Calls : Accept(r)
  \/ Perform
  \/ Take
  \/ Cancel
  \/ Abandon
  \/ PerformStray

Spec == Init /\ [][Next]_vars

\* An accepted request is answered, unless a reset cancels it or a stray request holds it up.
EveryCallServed == (call # Absent) ~> (answer # Absent \/ call = Absent \/ stray # Absent)
=============================================================================
