------------------------------ MODULE MemoryPath ------------------------------
(***************************************************************************)
(* The path from a requester to memory (hardware/memory-controller/rust):  *)
(* MemoryController, which holds one request at a time, over the reference *)
(* backend FakeMemory.  A value of the path is the record                  *)
(*   [state, request, response,              the controller                *)
(*    latency, holdoff, pending, answer, words]   the backend              *)
(* and each method is an operator from path to path.  A word is a function *)
(* from byte lanes to bytes.                                               *)
(***************************************************************************)
EXTENDS Naturals

CONSTANTS
  Lanes,       \* byte lanes of a word (0..3 in the code)
  Bytes,       \* byte values
  Capacity,    \* words the backend holds
  Latencies,   \* cycles the backend may take to answer
  Holdoffs,    \* cycles the backend may refuse requests for, at first
  Absent       \* the absent Option

ASSUME PathSizes ==
  /\ Capacity \in Nat
  /\ Latencies \subseteq Nat /\ Holdoffs \subseteq Nat

Word == [Lanes -> Bytes]

\* Addresses are bytes; "lanes" is the byte-enable mask.
Request(addresses) ==
  [address : addresses, write : BOOLEAN, lanes : SUBSET Lanes, data : Word \cup {Absent}]

Response == [kind : {"ReadData"}, value : Word]
              \cup [kind : {"WriteDone", "Fault"}, value : {Absent}]

Reply(kind) == [kind |-> kind, value |-> Absent]

ControllerStates == {"Idle", "BackendRequest", "BackendResponse", "HostResponse"}

NewPath(latency, holdoff, words) ==
  [state |-> "Idle", request |-> Absent, response |-> Absent,
   latency |-> latency, holdoff |-> holdoff, pending |-> Absent, answer |-> Absent,
   words |-> words]

-----------------------------------------------------------------------------
(* The backend.                                                             *)

MaskedWrite(old, data, lanes) == [l \in Lanes |-> IF l \in lanes THEN data[l] ELSE old[l]]

InRange(address) == address % 4 = 0 /\ address \div 4 < Capacity

Answer(words, r) ==
  IF ~InRange(r.address) THEN Reply("Fault")
  ELSE IF r.write THEN Reply("WriteDone")
  ELSE [kind |-> "ReadData", value |-> words[r.address \div 4]]

WordsAfter(words, r) ==
  IF r.write /\ InRange(r.address)
  THEN [words EXCEPT ![r.address \div 4] = MaskedWrite(@, r.data, r.lanes)]
  ELSE words

BackendReady(p) == p.holdoff = 0 /\ p.pending = Absent /\ p.answer = Absent

\* Mutant: the holdoff does not count down.
BackendHeldOff(p) ==
  IF p.pending = Absent THEN p
  ELSE IF p.pending.left > 0 THEN [p EXCEPT !.pending.left = @ - 1]
  ELSE [p EXCEPT !.pending = Absent, !.answer = Answer(p.words, p.pending.request),
                 !.words = WordsAfter(@, p.pending.request)]

BackendTick(p) ==
  LET h == IF p.holdoff > 0 THEN p.holdoff - 1 ELSE 0 IN
  IF p.pending = Absent THEN [p EXCEPT !.holdoff = h]
  ELSE IF p.pending.left > 0 THEN [p EXCEPT !.holdoff = h, !.pending.left = @ - 1]
  ELSE [p EXCEPT !.holdoff = h, !.pending = Absent,
                 !.answer = Answer(p.words, p.pending.request),
                 !.words = WordsAfter(@, p.pending.request)]

\* Reset cancels a request the backend has taken; memory keeps its contents.
ResetBackend(p) == [p EXCEPT !.pending = Absent, !.answer = Absent, !.holdoff = 0]

-----------------------------------------------------------------------------
(* The controller.                                                          *)

HostRequestReady(p) == p.state = "Idle"

HostResponse(p) == IF p.state = "HostResponse" THEN p.response ELSE Absent

\* Called when HostRequestReady: a misaligned request is answered at once.
AcceptHostRequest(p, r) ==
  IF r.address % 4 # 0
  THEN [p EXCEPT !.request = Absent, !.response = Reply("Fault"), !.state = "HostResponse"]
  ELSE [p EXCEPT !.request = r, !.response = Absent, !.state = "BackendRequest"]

ConsumeHostResponse(p) == [p EXCEPT !.request = Absent, !.response = Absent, !.state = "Idle"]

ResetController(p) == [p EXCEPT !.request = Absent, !.response = Absent, !.state = "Idle"]

\* An answer of the wrong kind for the request is a fault.
Mapped(r, a) ==
  IF a.kind = (IF r.write THEN "WriteDone" ELSE "ReadData") THEN a ELSE Reply("Fault")

\* Mutant: a write is answered when the backend takes it.
PostedWrites(p) ==
  IF p.state = "BackendRequest" /\ BackendReady(p)
  THEN [p EXCEPT !.pending = [request |-> p.request, left |-> p.latency],
                 !.state = IF p.request.write THEN "HostResponse" ELSE "BackendResponse",
                 !.response = IF p.request.write THEN Reply("WriteDone") ELSE Absent]
  ELSE p

OfferToBackend(p) ==
  IF p.state = "BackendRequest" /\ BackendReady(p)
  THEN [p EXCEPT !.pending = [request |-> p.request, left |-> p.latency],
                 !.state = "BackendResponse"]
  ELSE p

\* Mutant: any completion of the backend is taken for the current request's.
TakeAnyCompletion(p) ==
  IF p.state \in {"BackendRequest", "BackendResponse"} /\ p.answer # Absent
  THEN [p EXCEPT !.response = Mapped(p.request, p.answer), !.state = "HostResponse",
                 !.answer = Absent]
  ELSE p

TakeFromBackend(p) ==
  IF p.state = "BackendResponse" /\ p.answer # Absent
  THEN [p EXCEPT !.response = Mapped(p.request, p.answer), !.state = "HostResponse",
                 !.answer = Absent]
  ELSE p

TickBackend(p) == TakeFromBackend(BackendTick(OfferToBackend(p)))

=============================================================================
