-------------------------------- MODULE TestPeer --------------------------------
(***************************************************************************)
(* The host side of the bus as the card tests drive it                     *)
(* (hardware/testbench/rust): TestPeer performs one worker access at a     *)
(* time, grants the bus to the card when it asks, and answers its DMA and  *)
(* notification transactions, with the wait cycles, bus errors and bad     *)
(* parity the test has set, or here any in Waits and Faults.               *)
(*                                                                         *)
(* The peer is [state, result, words, address, got]: the state with what   *)
(* it carries; worker_result, if the access has ended in the last clock;   *)
(* the words written by the card's latest burst (the end of dma_writes)    *)
(* and its address (last_dma_address); and got, the channel notified in    *)
(* the last clock (the end of notifications).  A word read from the host   *)
(* is the address it is read from.                                         *)
(***************************************************************************)
EXTENDS Naturals, Sequences

CONSTANTS
  Waits,    \* how many cycles a phase may be made to wait
  Faults,   \* how a phase may fail: a subset of {"Err", "BadParity"}
  None

Idle == [at |-> "Idle"]
NewPeer == [state |-> Idle, result |-> None, words |-> << >>, address |-> None, got |-> None]

WorkerAddress(op) == [at |-> "WorkerAddress", op |-> op]
WorkerData(op)    == [at |-> "WorkerData", op |-> op]
Grant             == [at |-> "Grant"]

\* A phase that waits and then is acknowledged, or fails.
Phase(at, request, beat, wait, fault) ==
  [at |-> at, request |-> request, beat |-> beat, wait |-> wait, fault |-> fault]

Phases(at, request, beat, faults) ==
  {Phase(at, request, beat, wait, fault) : wait \in Waits, fault \in faults \cup {None}}

StartWorker(p, op) == [p EXCEPT !.state = WorkerAddress(op), !.result = None, !.got = None]

-----------------------------------------------------------------------------
(* The bus as the peer drives it.                                           *)

Word(request, beat) == [request.handle EXCEPT !.offset = @ + 4 * beat]

Answers(s) == s.at \in {"DmaAddress", "DmaData", "NotificationAddress", "NotificationData"}
              /\ s.wait = 0

Reads(s) == s.at = "DmaData" /\ s.request.direction = "HostToDevice"

BusInputs(s) ==
  [reset      |-> FALSE,
   selected   |-> s.at \in {"WorkerAddress", "WorkerData"},
   grant      |-> s.at \notin {"Idle", "WorkerAddress", "WorkerData"},
   address    |-> IF s.at = "WorkerAddress"
                  THEN [register |-> s.op.register, write |-> s.op.write, valid |-> TRUE]
                  ELSE None,
   dataStrobe |-> s.at = "WorkerData",
   data       |-> IF s.at = "WorkerData" THEN IF s.op.write THEN "Word" ELSE None
                  ELSE IF Answers(s) /\ Reads(s) /\ s.fault = None
                  THEN Word(s.request, s.beat) ELSE None,
   ack        |-> Answers(s) /\ s.fault # "Err",
   err        |-> Answers(s) /\ s.fault = "Err"]

-----------------------------------------------------------------------------
(* The clock: the states that may follow, given the card's pins and the data *)
(* it drives with the answer to a worker read.                               *)

WorkerDone(p, result) == [p EXCEPT !.state = Idle, !.result = result]

\* Between transactions: the card may have the bus.
FromIdle(p, pins) == IF pins.request THEN {[p EXCEPT !.state = Grant]} ELSE {p}

FromWorker(p, pins, data) ==
  LET s == p.state IN
  IF pins.reply = "Err" THEN {WorkerDone(p, [kind |-> "Error", data |-> None])}
  ELSE IF pins.reply # "Ack" THEN {p}
  ELSE IF s.at = "WorkerAddress" THEN {[p EXCEPT !.state = WorkerData(s.op)]}
  ELSE {WorkerDone(p, IF s.op.write THEN [kind |-> "WriteOk", data |-> None]
                      ELSE [kind |-> "Read", data |-> data])}

\* A burst of the card that begins has written nothing yet.
FromGrant(p, pins) ==
  IF pins.strobe = None THEN {IF pins.request THEN p ELSE [p EXCEPT !.state = Idle]}
  ELSE IF pins.strobe.kind = "HostDma"
  THEN {[p EXCEPT !.state = s, !.words = << >>, !.address = pins.strobe.value.handle] :
          s \in Phases("DmaAddress", pins.strobe.value, 0, Faults \cap {"Err"})}
  ELSE {[p EXCEPT !.state = s] :
          s \in Phases("NotificationAddress", pins.strobe.value, 0, Faults \cap {"Err"})}

\* An address phase is over when its answer has been driven; what follows it.
FromAddress(p, following) ==
  LET s == p.state IN
  IF s.wait > 0 THEN {[p EXCEPT !.state.wait = @ - 1]}
  ELSE IF s.fault = "Err" THEN {[p EXCEPT !.state = Idle]}
  ELSE {[p EXCEPT !.state = next] : next \in following}

DataFaults(request) == IF request.direction = "HostToDevice" THEN Faults ELSE Faults \cap {"Err"}

FromDmaData(p, pins) ==
  LET s == p.state
      taken == IF Reads(s) THEN p ELSE [p EXCEPT !.words = Append(@, pins.strobe.value)] IN
  IF pins.strobe = None THEN {p}
  ELSE IF s.wait > 0 THEN {[p EXCEPT !.state.wait = @ - 1]}
  ELSE IF s.fault = "Err" THEN {[p EXCEPT !.state = Idle]}
  ELSE IF s.beat + 1 = s.request.words THEN {[taken EXCEPT !.state = Idle]}
  ELSE {[taken EXCEPT !.state = next] :
          next \in Phases("DmaData", s.request, s.beat + 1, DataFaults(s.request))}

FromNotificationData(p, pins) ==
  IF pins.strobe = None THEN {p}
  ELSE IF p.state.wait > 0 THEN {[p EXCEPT !.state.wait = @ - 1]}
  ELSE {[p EXCEPT !.state = Idle, !.got = p.state.request]}

Clock(peer, pins, data) ==
  LET p == [peer EXCEPT !.got = None, !.result = None]
      s == p.state IN
  CASE s.at = "Idle"  -> FromIdle(p, pins)
    [] s.at = "Grant" -> FromGrant(p, pins)
    [] s.at \in {"WorkerAddress", "WorkerData"} -> FromWorker(p, pins, data)
    [] OTHER ->
         IF ~pins.request THEN {[p EXCEPT !.state = Idle]}
         ELSE CASE s.at = "DmaAddress" ->
                     FromAddress(p, Phases("DmaData", s.request, 0, DataFaults(s.request)))
                [] s.at = "DmaData" -> FromDmaData(p, pins)
                [] s.at = "NotificationAddress" ->
                     FromAddress(p, Phases("NotificationData", s.request, 0, {}))
                [] s.at = "NotificationData" -> FromNotificationData(p, pins)
=============================================================================
