------------------------------ MODULE HostMemory ------------------------------
(***************************************************************************)
(* The host controller over its memory path: PLIOHostCore, MemoryController*)
(* and FakeMemory clocked together as host_cycle does                      *)
(* (hardware/memory-controller/rust/src/bin/conformance.rs).               *)
(*                                                                         *)
(* The path's readiness and answer are sampled before the controller's     *)
(* step, an answer is consumed whether or not the engine was waiting for   *)
(* it, and the request the controller shows is accepted whenever the path  *)
(* was ready, even in the clock in which the engine gives the burst up.    *)
(***************************************************************************)
EXTENDS HostCore, MemoryPath

Indexes == 0 .. Capacity - 1

\* DMA asks memory for whole words at word addresses, and has the word when it writes.
WordRequest ==
  {r \in [address : Nat, write : BOOLEAN, lanes : {Lanes}, data : Word \cup {None}] :
     r.address % WordBytes = 0 /\ (r.write => r.data \in Word)}

ASSUME OneNone == Absent = None
ASSUME WholeWords == Words = Word /\ Word # {} /\ AddrSpace % WordBytes = 0
ASSUME NoneIsNoRequest ==
  /\ None \notin Response /\ None \notin WordRequest
  /\ None \notin [request : WordRequest, left : Nat]
  /\ None \notin [write : BOOLEAN, address : Nat, value : Words \cup {None}]

VARIABLES
  path,        \* the memory path
  ledger       \* history: what cards have been promised

(***************************************************************************)
(* ledger.confirmed     the word index and data of the last write memory   *)
(*                      confirmed to the engine, or None                   *)
(* ledger.promised[i]   the word a card was last told is in word i, or     *)
(*                      None once another write to i is on its way         *)
(***************************************************************************)
hmVars == <<vars, path, ledger>>

HMInit ==
  /\ Init
  /\ \E latency \in Latencies, holdoff \in Holdoffs :
       path = NewPath(latency, holdoff, [i \in Indexes |-> CHOOSE w \in Word : TRUE])
  /\ ledger = [confirmed |-> None, promised |-> [i \in Indexes |-> None]]

\* MemoryRequest::from_plio: DMA moves whole words.
FromPlio(r) == [address |-> r.address, write |-> r.write, lanes |-> Lanes, data |-> r.value]

\* The path after the controller's step, before the backend is clocked.
AfterHost(p, shown) ==
  IF HostResponse(p) # None THEN ConsumeHostResponse(p)
  ELSE IF HostRequestReady(p) /\ shown # None THEN AcceptHostRequest(p, FromPlio(shown))
  ELSE p

EngineRequest == MemoryRequest([dma EXCEPT !.state = "MemRequest"])

LedgerAfter ==
  LET accepted == AfterHost(path, out'.memory).request
      wrote    == epoch.role = "Dma" /\ epoch'.writeAck /\ ~epoch.writeAck
      told     == epoch.writeAck /\ out'.ack
      promised == IF told THEN [ledger.promised EXCEPT ![ledger.confirmed[1]] = ledger.confirmed[2]]
                  ELSE ledger.promised
  IN  [confirmed |-> IF wrote THEN <<dma.active.address \div 4, dma.active.pendingWrite>>
                     ELSE ledger.confirmed,
       promised  |-> [i \in Indexes |->
         IF path.state = "Idle" /\ accepted # None /\ accepted.write /\ accepted.address \div 4 = i
         THEN None ELSE promised[i]]]

HostCycle ==
  /\ ClockWith({HostRequestReady(path)}, {HostResponse(path)})
  /\ path' = TickBackend(AfterHost(path, out'.memory))
  /\ ledger' = LedgerAfter

HMSoftwareCall == SoftwareCall /\ UNCHANGED <<path, ledger>>

HMNext == HostCycle \/ HMSoftwareCall

HMSpec == HMInit /\ [][HMNext]_hmVars

-----------------------------------------------------------------------------
(* Properties.                                                              *)

(* While the engine awaits memory, the request in the path is its own: an answer to a
   request that an earlier burst abandoned is never taken for it. *)
AwaitsItsOwnRequest ==
  dma.state = "MemResponse" => path.state # "Idle" /\ path.request = FromPlio(EngineRequest)

(* A word a card was told is written is in memory until a later write to it is on its
   way; so it is before any notification the card sends next. *)
AcknowledgedWritesAreInMemory ==
  \A i \in Indexes : ledger.promised[i] # None => path.words[i] = ledger.promised[i]

(* The word offered to a reading card is what memory holds at its address, although answers to
   requests that earlier bursts abandoned come late through the same path. *)
ReadDataIsCurrent ==
  dma.state = "DeviceReadReady" => dma.active.readData = path.words[dma.active.address \div 4]

-----------------------------------------------------------------------------
(* The inductive invariant behind these properties.                         *)

(* What the engine may ask of memory is a word: mappings and the burst begin at word
   addresses, and a write in hand has its data.  It waits for memory only in an epoch. *)
AsksForWords ==
  /\ \A sc \in Slots \X Channels : dma.caps[sc].base % WordBytes = 0
  /\ dma.active # None => dma.active.address % WordBytes = 0
  /\ (dma.state \in {"MemRequest", "MemResponse"} /\ dma.active.direction = "DeviceWrite") =>
       dma.active.pendingWrite \in Words
  /\ dma.state = "MemResponse" => epoch.role = "Dma"

WholePath ==
  [state : ControllerStates, request : WordRequest \cup {None}, response : Response \cup {None},
   latency : Nat, holdoff : Nat, pending : [request : WordRequest, left : Nat] \cup {None},
   answer : Response \cup {None}, words : [Indexes -> Word]]

\* The answer the path p holds is that of its request, performed on memory as it is now.
Performed(p) ==
  /\ p.response # None
  /\ p.response.kind = "ReadData" =>
       /\ ~p.request.write /\ InRange(p.request.address)
       /\ p.response.value = p.words[p.request.address \div 4]
  /\ p.response.kind = "WriteDone" =>
       /\ p.request.write /\ InRange(p.request.address)
       /\ p.words[p.request.address \div 4] = p.request.data

\* Controller and backend have one request, the same one: without resets nothing is left behind.
OneRequest(p) ==
  /\ p \in WholePath
  /\ p.answer = None
  /\ (p.pending # None) <=> (p.state = "BackendResponse")
  /\ p.pending # None => p.pending.request = p.request
  /\ (p.request = None) <=> (p.state = "Idle")
  /\ p.state = "HostResponse" => Performed(p)

(* The path is idle while a word waits for the card, and from the confirmation of a write to
   its acknowledgement, when the word is in memory. *)
QuietBeforeTheCard ==
  /\ dma.state = "DeviceReadReady" =>
       /\ path.state = "Idle"
       /\ dma.active.readData = path.words[dma.active.address \div 4]
  /\ epoch.writeAck =>
       /\ path.state = "Idle"
       /\ \E i \in Indexes : ledger.confirmed = <<i, path.words[i]>>

\* No promise stands for a word a write is on its way to.
PromisesStand ==
  /\ ledger.promised \in [Indexes -> Word \cup {None}]
  /\ AcknowledgedWritesAreInMemory
  /\ \A i \in Indexes :
       (path.request # None /\ path.request.write /\ path.request.address \div 4 = i) =>
         ledger.promised[i] = None

HMInv ==
  AsksForWords /\ OneRequest(path) /\ AwaitsItsOwnRequest /\ QuietBeforeTheCard /\ PromisesStand

-----------------------------------------------------------------------------
(* What the repository's documents say and the code does not do.            *)

\* The words behind a mapping.
Behind(cap) == {i \in Indexes : cap.base <= i * WordBytes /\ i * WordBytes < cap.base + cap.length}

(* specs/PLIO.md:412: once revocation is complete, the memory may be reused.  So nothing is
   written any more to the words behind a revoked mapping, unless another one covers them. *)
RevokedMemoryIsQuiet ==
  [][\A sc \in Slots \X Channels :
       (~dma.caps[sc].valid /\ RevokeComplete(dma, sc[1], sc[2])) =>
         \A i \in Behind(dma.caps[sc]) :
           \/ path'.words[i] = path.words[i]
           \/ \E other \in Slots \X Channels :
                dma.caps[other].valid /\ i \in Behind(dma.caps[other])]_hmVars
=============================================================================
