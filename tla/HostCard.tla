-------------------------------- MODULE HostCard --------------------------------
(***************************************************************************)
(* The host controller and a card on one bus: PLIOHostCore, Qic and a QLI  *)
(* device clocked together, in the order of the QIC's own tests (step in   *)
(* hardware/qic/rust/tests/manager.rs) with the controller in the place of *)
(* their scripted peer.                                                    *)
(*                                                                         *)
(* In one clock the controller shows the card BG or the worker's phase,    *)
(* the card drives its pins, the controller steps on them and answers with *)
(* ACK or ERR, and the QIC and the device are clocked with that answer.    *)
(* The card's DMA requests use the handle the software gave it.            *)
(***************************************************************************)
EXTENDS HostCore

CONSTANTS
  CardRequests,   \* DMA requests the device may make
  CardChannels,   \* channels the device may notify
  DeviceAnswers,  \* how the device may answer a register access: "Ok", "Error"
  Stalls,         \* whether the device may stall: a set of BOOLEANs
  Flips           \* whether a data word may be corrupted on the bus: a set of BOOLEANs

VARIABLES
  qic,     \* the QIC
  dev      \* the device

hcVars == <<vars, qic, dev>>

Q == INSTANCE Qic WITH MaxChannel <- 3
D == INSTANCE QliDevice

Card == 0

\* What crosses QLI: a burst the device asks for, a register access, and its answer.
DmaRequest == [direction : {"HostToDevice", "DeviceToHost"},
               handle : [channel : Channels, generation : Generations, offset : Offsets],
               words : Bursts]
Access  == [register : Registers, write : BOOLEAN]
Answers == {"Ok", "Error"}

ASSUME CardInputs ==
  /\ CardRequests \subseteq DmaRequest
  /\ CardChannels \subseteq NotifyChannels
  /\ DeviceAnswers \subseteq Answers
  /\ Stalls \subseteq BOOLEAN /\ Flips \subseteq BOOLEAN
  /\ {"Good", "BadParity"} \subseteq DataPins
  /\ {0, 1} \subseteq Words

HCInit ==
  /\ Init
  /\ qic = Q!NewQic
  /\ dev = D!NewDevice

-----------------------------------------------------------------------------
(* The bus.                                                                 *)

\* What the controller shows the card before it has seen the card's pins.  "flip" says
\* that the data word of this clock, if there is one, is corrupted on its way.
Offered(flip) ==
  LET working == epoch.role = "Worker" /\ epoch.slot = Card
      request == worker.request IN
  [reset      |-> FALSE,
   selected   |-> working,
   grant      |-> epoch.role \in {"Grant", "Notification", "Dma"} /\ epoch.slot = Card,
   address    |-> IF working /\ worker.state = "Address"
                  THEN [register |-> request.register, write |-> request.write, valid |-> TRUE]
                  ELSE None,
   dataStrobe |-> working /\ worker.state = "Data",
   data       |-> IF ~flip /\ working /\ request.write THEN "Word" ELSE None,
   ack        |-> FALSE,
   err        |-> FALSE]

\* And with its answer, which carries the word of a read.
Answered(flip) ==
  [Offered(flip) EXCEPT
     !.ack  = out'.ack,
     !.err  = out'.err,
     !.data = IF ~flip /\ dma.state = "DeviceReadReady" THEN dma.active.readData ELSE @]

\* The bus while the controller is reset.
InReset == [Offered(FALSE) EXCEPT !.reset = TRUE, !.selected = FALSE, !.grant = FALSE,
                                  !.address = None, !.dataStrobe = FALSE]

HostDirection(direction) ==
  IF direction = "HostToDevice" THEN "DeviceRead" ELSE "DeviceWrite"

\* What memory may answer to the engine's request.
MemoryMayAnswer ==
  IF dma.state # "MemResponse" THEN {None}
  ELSE {None, [kind |-> "Fault", value |-> None],
        IF dma.active.direction = "DeviceWrite" THEN [kind |-> "WriteDone", value |-> None]
        ELSE [kind |-> "ReadData", value |-> D!WordAt(dma.active.acknowledged)]}

(* The step of the controller for the pins the card drives; the other slots are empty. *)
HostSees(pins, flip, request) ==
  LET strobes(kind) == pins.strobe # None /\ pins.strobe.kind = kind
      parity == IF flip THEN "BadParity" ELSE "Good" IN
  \/ StartWorker(request)
  \/ request = None /\ Arbitrate(IF pins.request THEN {Card} ELSE {})
  \/ WorkerClock(request, CASE epoch.slot # Card \/ pins.reply = None -> "Wait"
                            [] epoch.slot = Card /\ pins.reply = "Err" -> "Err"
                            [] OTHER -> IF flip /\ ~worker.request.write THEN "BadData" ELSE "Ack")
  \/ ~pins.request /\ (RequestDropped(request) \/ DmaRequestDropped(request))
  \/ /\ pins.request
     /\ \/ /\ IF epoch.role = "Grant" THEN ~strobes("HostDma") /\ ~strobes("Controller")
              ELSE ~strobes("Data")
           /\ NoStrobe(request)
        \/ /\ strobes("HostDma") \/ strobes("Controller")
           /\ flip
           /\ BadAddress(request)
        \/ /\ strobes("Controller") /\ ~flip
           /\ NotificationAddress(request, pins.strobe.value)
        \/ /\ strobes("HostDma") /\ ~flip
           /\ DmaAddress(request, pins.strobe.value.handle, pins.strobe.value.words,
                         HostDirection(pins.strobe.value.direction))
        \/ AnswerDmaAddress(request)
        \/ strobes("Data") /\ NotificationData(request, parity)
        \/ AcknowledgeWrite(request)
        \/ strobes("Data") /\ CardWritesWord(request, pins.strobe.value, parity)
        \/ ~strobes("Data") /\ CardWaits(request)
        \/ strobes("Data") /\ CardReadsWord(request)
        \/ \E ready \in BOOLEAN : RequestMemory(request, ready)
        \/ \E response \in MemoryMayAnswer : AwaitMemory(request, response)

-----------------------------------------------------------------------------
(* The specification.                                                       *)

DeviceChoice == [stalls : Stalls, answer : DeviceAnswers \cup {None}]

\* Only choices that make a difference are distinguished.
Relevant(choice, flip, request) ==
  /\ choice.stalls => D!Active(dev)
  /\ choice.answer # None =>
       IF dev.mmio # None THEN dev.mmio.answer = None ELSE qic.state.at = "WorkerOffer"
  /\ flip => epoch.role # "Idle"
  /\ request # None => queued = None

\* Software takes a completion before the next clock.
HCClock ==
  \E choice \in DeviceChoice, flip \in Flips, request \in WorkerRequests \cup {None} :
    LET drive == D!Drive(dev, choice)
        pins  == Q!CardPins(qic, Offered(flip), drive) IN
    /\ done = [worker |-> None, dma |-> None]
    /\ Relevant(choice, flip, request)
    /\ HostSees(pins, flip, request)
    /\ qic' = Q!Clock(qic, Answered(flip), drive)
    /\ dev' = D!Clock(dev, drive, Q!ToDevice(qic, Answered(flip), drive), choice)

\* QicToDevice.reset discards everything the device has in hand.
HCReset ==
  /\ ResetHost
  /\ qic' = Q!Clock(qic, InReset, D!NewDevice)
  /\ dev' = D!NewDevice

\* Software binds the card's mapping once.
HCSoftware ==
  /\ \/ \E s \in BoundSlots, c \in Channels, mapping \in Mappings :
           dma.caps[<<s, c>>] = UnboundCapability /\ BindDma(s, c, mapping)
     \/ \E s \in BoundSlots, c \in Channels : RevokeDma(s, c)
     \/ ClaimNotification
     \/ TakeWorkerCompletion
     \/ TakeDmaCompletion
  /\ UNCHANGED <<qic, dev>>

DeviceWantsDma ==
  /\ dev.dma = None
  /\ \E request \in CardRequests : dev' = D!WantsDma(dev, request)
  /\ UNCHANGED <<vars, qic>>

DeviceWantsNotification ==
  /\ dev.notification = None
  /\ \E channel \in CardChannels : dev' = D!WantsNotification(dev, channel)
  /\ UNCHANGED <<vars, qic>>

HCNext == HCClock \/ HCReset \/ HCSoftware \/ DeviceWantsDma \/ DeviceWantsNotification

HCSpec == HCInit /\ [][HCNext]_hcVars

-----------------------------------------------------------------------------
(* Properties.                                                              *)

CardInBurst == qic.state.at = "DmaData"

(* The controller's DMA epoch is the QIC's: while the burst moves, both have the same
   burst and the QIC has counted the beats the controller acknowledged. *)
SameBurst ==
  (epoch.role = "Dma" /\ CardInBurst /\ ~Q!FinalReadBuffer(qic.state)) =>
    /\ qic.state.completed = seen.acks
    /\ epoch.direction = HostDirection(qic.state.request.direction)
    /\ dma.active # None => dma.active.total = qic.state.request.words

(* Device and QIC agree on who holds the DMA request: the device thinks it active exactly
   while the QIC has it queued, suspended, on the bus or to be completed. *)
Holds ==
  \/ qic.state.at \in {"DmaAddress", "DmaData", "DmaComplete"}
  \/ qic.tail # None
  \/ qic.state.at = "RequestBus" /\ qic.state.work.kind = "Dma"
  \/ qic.suspended # None /\ qic.suspended.kind = "Dma"

RequestHeldOnce == D!Active(dev) <=> Holds

(* The words the controller has taken from a writing device are its words, in order; a
   reading device gets memory's words in order. *)
WordsInOrder ==
  /\ (dma.active # None /\ dma.active.pendingWrite # None) =>
       dma.active.pendingWrite = D!WordAt(dma.active.acknowledged)
  /\ (CardInBurst /\ qic.state.request.direction = "HostToDevice" /\ qic.state.buffer # None) =>
       /\ qic.state.buffer = D!WordAt(qic.state.completed - 1)
       /\ dev.dma.moved = qic.state.completed - 1

(* A burst reported complete to the device is complete for everybody: the device moved
   all its words, the controller acknowledged them and memory confirmed them. *)
CardOkIsHostOk ==
  (qic.state.at = "DmaComplete" /\ qic.state.status = "Ok") =>
    /\ dev.dma.moved = dev.dma.request.words
    /\ seen.acks = qic.state.completed
    /\ seen.commits = qic.state.completed

\* All words acknowledged: the device is told, or has one word left to take, of a success.
Succeeded(s) ==
  \/ s.at = "DmaComplete" /\ s.status = "Ok"
  \/ s.at = "DmaData" /\ Q!FinalReadBuffer(s)

CardSucceeds == Succeeded(qic.state)

(* A burst the controller reports to software as failed is not completed as a success at
   the card: also not in the clock that answers the last word with ACK and ERR at once. *)
FailureIsShared ==
  [][(epoch.role = "Dma" /\ done.dma = None /\ done'.dma # None /\ done'.dma.result # "Ok") =>
       ~CardSucceeds']_hcVars

(* The device is told of a notification only when the controller has it pending. *)
NotifiedIsPending ==
  [][(dev.notification # None /\ dev'.notification = None /\ ~out'.reset) =>
       <<Card, dev.notification>> \in notifications'.pending]_hcVars

(* The device holds a register access exactly while the QIC waits for its answer: none
   survives the timeout that ended its bus transaction. *)
AccessHeldOnce ==
  /\ dev.mmio # None <=> qic.state.at = "WorkerResponse"
  /\ dev.mmio # None => qic.state.read = ~dev.mmio.op.write

(* A worker access that succeeds was answered by the device for that access. *)
AnswerIsForTheAccess ==
  [][(epoch.role = "Worker" /\ done' # done /\ done'.worker \in {"Read", "WriteOk"}) =>
       /\ dev.mmio # None
       /\ dev.mmio.op = [register |-> worker.request.register, write |-> worker.request.write]
       /\ dev.mmio.answer = "Ok"]_hcVars

-----------------------------------------------------------------------------
(* The inductive invariant behind these properties.                         *)

\* The states of the QIC, each with what it carries.
DmaWork    == [kind : {"Dma"}, request : DmaRequest]
NotifyWork == [kind : {"Notification"}, request : NotifyChannels]
Work(w) ==
  \/ w.kind = "Dma" /\ w \in DmaWork
  \/ w.kind = "Notification" /\ w \in NotifyWork

Statuses == {"Ok", "Timeout", "BusError", "ParityError", "ProtocolError"}

AccessStates   == [at : {"WorkerReadData", "WorkerWriteData", "WorkerOffer"}, op : Access, wait : Nat]
ResponseStates == [at : {"WorkerResponse"}, read : BOOLEAN, wait : Nat]
AddressStates  == [at : {"DmaAddress"}, request : DmaRequest, wait : Nat]
DataStates     == [at : {"DmaData"}, request : DmaRequest, completed : Nat, wait : Nat,
                   buffer : Words \cup {None}]
DoneStates     == [at : {"DmaComplete"}, status : Statuses, completed : Nat]
NotifyStates   == [at : {"NotificationAddress", "NotificationData"}, request : NotifyChannels,
                   wait : Nat]

\* The strobes and the address phases of the bus, and what the device has in hand.
Strobes == [kind : {"HostDma"}, value : DmaRequest] \cup [kind : {"Controller"}, value : NotifyChannels]
             \cup [kind : {"Data"}, value : Words \cup {None}]
AddressPhases == [register : Registers, write : BOOLEAN, valid : BOOLEAN]
MmioStates    == [op : Access, answer : Answers \cup {None}]
BurstStates   == [request : DmaRequest, active : BOOLEAN, moved : Nat]

ASSUME NoneIsNoValue ==
  /\ None \notin DmaRequest /\ None \notin Access /\ None \notin Answers
  /\ None \notin {"Ack", "Err", "ReadOk", "WriteOk", "Word", "BusError", "Read", "ReadParity"}
  /\ None \notin DmaWork /\ None \notin NotifyWork
  /\ None \notin DataStates /\ None \notin DoneStates
  /\ None \notin Strobes /\ None \notin AddressPhases
  /\ None \notin MmioStates /\ None \notin BurstStates

QicState(s) ==
  \/ s = Q!Idle
  \/ s.at \in {"WorkerReadData", "WorkerWriteData", "WorkerOffer"} /\ s \in AccessStates
  \/ s.at = "WorkerResponse" /\ s \in ResponseStates
  \/ s.at = "RequestBus" /\ s = Q!RequestBus(s.work) /\ Work(s.work)
  \/ s.at = "DmaAddress" /\ s \in AddressStates
  \/ s.at = "DmaData" /\ s \in DataStates
  \/ s.at = "DmaComplete" /\ s \in DoneStates
  \/ s.at \in {"NotificationAddress", "NotificationData"} /\ s \in NotifyStates

(* Work is put aside only for a register access, and only one kind of it: a request that has
   not had the bus, or what is left of a burst that no longer needs it. *)
QicShape(q) ==
  /\ q = [state |-> q.state, suspended |-> q.suspended, tail |-> q.tail, grantUsed |-> q.grantUsed]
  /\ QicState(q.state) /\ q.grantUsed \in BOOLEAN
  /\ q.suspended # None => Work(q.suspended)
  /\ q.tail # None => q.tail.at \in {"DmaData", "DmaComplete"} /\ QicState(q.tail) /\ Q!LocalTail(q.tail)
  /\ q.suspended # None \/ q.tail # None => q.state.at \in Q!WorkerStates
  /\ q.suspended = None \/ q.tail = None

DeviceShape(d) ==
  d \in [mmio : MmioStates \cup {None}, dma : BurstStates \cup {None},
         notification : NotifyChannels \cup {None}]

\* The state of the device's burst: the QIC's, or the one it has put aside.
BurstState(q) == IF q.tail # None THEN q.tail ELSE q.state

\* The device has moved the words the QIC has counted, but for the one in the buffer.
WordsMoved(s, d) ==
  /\ s.request = d.request
  /\ s.request.direction = "HostToDevice" =>
       IF s.buffer = None THEN s.completed < s.request.words /\ d.moved = s.completed
       ELSE s.completed \in 1 .. s.request.words /\ d.moved = s.completed - 1
              /\ s.buffer = D!WordAt(d.moved)
  /\ s.request.direction = "DeviceToHost" =>
       /\ s.completed < s.request.words
       /\ IF s.buffer = None THEN d.moved = s.completed
          ELSE d.moved = s.completed + 1 /\ s.buffer = D!WordAt(s.completed)

\* The QIC and the device are at the same place of the same burst.
CardBurst(q, d) ==
  LET s == BurstState(q) IN
  /\ q.suspended # None /\ q.suspended.kind = "Dma" => q.suspended.request = d.request /\ d.moved = 0
  /\ s.at = "RequestBus" /\ s.work.kind = "Dma" => s.work.request = d.request /\ d.moved = 0
  /\ s.at = "DmaAddress" => s.request = d.request /\ d.moved = 0
  /\ s.at = "DmaData" => WordsMoved(s, d)
  /\ s.at = "DmaComplete" /\ s.status = "Ok" => d.moved = d.request.words /\ s.completed = d.moved

CardInv ==
  /\ QicShape(qic) /\ DeviceShape(dev)
  /\ AccessHeldOnce /\ RequestHeldOnce
  /\ dev.dma # None => IF dev.dma.active THEN CardBurst(qic, dev.dma) ELSE dev.dma.moved = 0

(* The host's word in hand is the burst's next one, read data comes in a DMA epoch only, and
   only a write is acknowledged late. *)
HostWords ==
  /\ dma.active # None =>
       /\ dma.active.pendingWrite # None => dma.active.pendingWrite = D!WordAt(dma.active.acknowledged)
       /\ dma.state = "DeviceReadReady" => dma.active.readData = D!WordAt(dma.active.acknowledged)
  /\ epoch.role # "Dma" => dma.state # "DeviceReadReady"
  /\ epoch.writeAck => epoch.direction = "DeviceWrite"

\* The address the host has yet to answer is the one the QIC strobed.
AddressAgrees ==
  /\ qic.state.at = "DmaAddress"
  /\ epoch.address.direction = HostDirection(qic.state.request.direction)
  /\ epoch.address.ok =>
       /\ dma.active.total = qic.state.request.words
       /\ epoch.address.direction = "DeviceWrite" => dma.state = "AwaitDeviceWrite"

\* The host has taken the card's word and not yet acknowledged it.
HostHoldsWord ==
  \/ epoch.writeAck
  \/ dma.state \in {"MemRequest", "MemResponse"} /\ epoch.direction = "DeviceWrite"

\* The burst in flight is the QIC's, and a word the host has taken stays until it is acknowledged.
BurstAgrees ==
  IF qic.state.at = "DmaComplete" THEN qic.state.status # "Ok"
  ELSE /\ CardInBurst /\ ~Q!FinalReadBuffer(qic.state)
       /\ qic.state.completed = seen.acks
       /\ epoch.direction = HostDirection(qic.state.request.direction)
       /\ IF dma.active # None THEN dma.active.total = qic.state.request.words
          ELSE seen.commits = qic.state.request.words
       /\ HostHoldsWord => qic.state.buffer # None

\* The access whose data phase the host is in is the one the QIC or the device has.
AccessAgrees ==
  LET access == [register |-> worker.request.register, write |-> worker.request.write] IN
  IF qic.state.at = "WorkerResponse" THEN dev.mmio.op = access
  ELSE qic.state.at \in Q!WorkerStates /\ qic.state.op = access

(* Host and card are in the same transaction.  After one the grant is withdrawn for a clock,
   in which whatever the QIC was doing on the bus ends. *)
BusAgrees ==
  /\ epoch.role \in {"Grant", "Notification", "Dma"} => epoch.slot = Card
  /\ epoch.role = "Worker" =>
       /\ worker.request # None /\ worker.state # "Idle" /\ done.worker = None
       /\ ~Q!NeedsGrant(qic.state)
  /\ epoch.role = "Worker" /\ epoch.slot = Card /\ worker.state # "Address" => AccessAgrees
  /\ epoch.role = "Grant" =>
       IF epoch.address # None THEN AddressAgrees
       ELSE Q!NeedsGrant(qic.state) => qic.state.at \in {"DmaAddress", "NotificationAddress"}
  /\ epoch.role = "Notification" =>
       \/ qic.state = Q!Idle
       \/ qic.state.at = "NotificationData" /\ qic.state.request = epoch.channel
  /\ epoch.role = "Dma" => BurstAgrees

\* A burst that has succeeded at the card is over, and its words are acknowledged and in memory.
SuccessAgrees ==
  LET s == BurstState(qic) IN
  Succeeded(s) => epoch.role # "Dma" /\ seen.acks = s.completed /\ seen.commits = s.completed

HCInv == CardInv /\ HostWords /\ BusAgrees /\ SuccessAgrees

-----------------------------------------------------------------------------
(* What the repository's documents say and the code does not do.            *)

(* hardware/qic/RUST-AUDIT.md:63: valid worker addresses are acknowledged.  Every address
   the controller drives here is valid and reaches the card, so none may be refused. *)
ValidAddressAcked ==
  [][(epoch.role = "Worker" /\ worker.state = "Address") => done'.worker # "BusError"]_hcVars

(* hardware/qli/SPEC.md:189 and hardware/qic/RUST-AUDIT.md:33: the count a failed burst is
   completed with is the number of beats acknowledged on the bus. *)
FailedBurstIsCounted ==
  (qic.state.at = "DmaComplete" /\ qic.state.status = "Timeout" /\ epoch.role = "Dma") =>
    qic.state.completed = seen.acks
=============================================================================
