--------------------------- MODULE MemoryController ---------------------------
(***************************************************************************)
(* MemoryController over FakeMemory with one client: the client hands over *)
(* a request when the controller is ready and consumes the answer when it  *)
(* likes, tick_backend runs every clock, and a hardware reset resets both  *)
(* sides while a controller reset leaves the backend at work.              *)
(***************************************************************************)
EXTENDS MemoryPath

CONSTANT Addresses  \* byte addresses requested

ASSUME AddressesAreBytes == Addresses \subseteq Nat
ASSUME AbsentIsFresh ==
  /\ Absent \notin Request(Addresses) /\ Absent \notin Response
  /\ Absent \notin [request : Request(Addresses), left : Nat]

VARIABLES
  path,           \* controller and backend
  accepted        \* history: the request the client is waiting for, or Absent

vars == <<path, accepted>>

ReadWords == [0 .. Capacity - 1 -> Word]

Init ==
  /\ \E latency \in Latencies, holdoff \in Holdoffs, words \in ReadWords :
       path = NewPath(latency, holdoff, words)
  /\ accepted = Absent

RequestOf(address, write, lanes, data) ==
  [address |-> address, write |-> write, lanes |-> lanes,
   data |-> IF write THEN data ELSE Absent]

AcceptRequest(r) ==
  /\ HostRequestReady(path)
  /\ path' = AcceptHostRequest(path, r)
  /\ accepted' = r

Tick ==
  /\ path' = TickBackend(path)
  /\ UNCHANGED accepted

Consume ==
  /\ HostResponse(path) # Absent
  /\ path' = ConsumeHostResponse(path)
  /\ accepted' = Absent

ResetBoth ==
  /\ path' = ResetBackend(ResetController(path))
  /\ accepted' = Absent

ResetControllerOnly ==
  /\ path' = ResetController(path)
  /\ accepted' = Absent

Next ==
  \/ \E address \in Addresses, write \in BOOLEAN, lanes \in SUBSET Lanes, data \in Word :
       AcceptRequest(RequestOf(address, write, lanes, data))
  \/ Tick
  \/ Consume
  \/ ResetBoth
  \/ ResetControllerOnly

Spec == Init /\ [][Next]_vars

\* The backend is clocked for ever.
FairSpec == Spec /\ WF_vars(Tick)

-----------------------------------------------------------------------------
(* Properties.                                                              *)

\* Controller and backend have their types.
TypeOK ==
  /\ path.state \in ControllerStates
  /\ path.request \in Request(Addresses) \cup {Absent}
  /\ path.response \in Response \cup {Absent}
  /\ path.answer \in Response \cup {Absent}
  /\ path.words \in ReadWords
  /\ path.pending # Absent => path.pending.request \in Request(Addresses)

(* One instant of memory per request: the detailed path implements MemoryService, with
   the backend's execution as the instant.  What the backend still has of a request its
   controller forgot in a reset is the stray request, and later its completion. *)
Stray ==
  IF path.state = "BackendResponse" THEN Absent
  ELSE IF path.pending # Absent THEN path.pending.request
  ELSE path.answer

Service == INSTANCE MemoryService WITH
             words  <- path.words,
             call   <- accepted,
             answer <- HostResponse(path),
             stray  <- Stray

\* Controller and backend together are the one-instant memory, whatever resets do.
ImplementsService == Service!Spec

(* Every request the controller accepted is answered or cancelled by a reset, unless the
   completion of a request abandoned by a controller reset blocks the backend. *)
EveryRequestServed == Service!EveryCallServed

-----------------------------------------------------------------------------
(* The inductive invariant behind the refinement.                           *)

Requested == {r \in Request(Addresses) : r.write => r.data \in Word}

Path == [state : ControllerStates, request : Requested \cup {Absent},
         response : Response \cup {Absent}, latency : Nat, holdoff : Nat,
         pending : [request : Requested, left : Nat] \cup {Absent},
         answer : Response \cup {Absent}, words : ReadWords]

(* The controller holds the request its client waits for; the backend has it exactly in
   BackendResponse, and is never at work with a completion of an earlier one in hand. *)
PathInv ==
  /\ path \in Path
  /\ accepted \in Requested \cup {Absent}
  /\ path.state = "Idle" <=> accepted = Absent
  /\ path.state \in {"BackendRequest", "BackendResponse"} => path.request = accepted
  /\ path.state = "BackendResponse" =>
       path.pending # Absent /\ path.pending.request = accepted
  /\ path.pending # Absent => path.answer = Absent
  /\ path.state = "HostResponse" => path.response # Absent
=============================================================================
