---------------------------------- MODULE Qic ----------------------------------
(***************************************************************************)
(* The card's protocol engine (hardware/qic/rust): between the bus and the *)
(* local device behind QLI.                                                *)
(*                                                                         *)
(* The QIC is a value, the record [state, suspended, tail, grantUsed].     *)
(* Qic::drive is a function of it, of the bus and of the device's signals: *)
(* the pins it drives are CardPins and its QLI signals ToDevice.           *)
(* Qic::clock is Clock.  A transfer address and its byte enables are the   *)
(* register they name and whether the transfer is "valid" (legal, with     *)
(* good parity); data of bad or missing parity is None.                    *)
(*                                                                         *)
(*   bus     [reset, selected, grant, dataStrobe, ack, err : BOOLEAN,      *)
(*            address : the worker address phase or None, data : or None]  *)
(*   device  [mmioReady, readReady, completionReady : BOOLEAN,             *)
(*            response, dma, write, notification : or None]                *)
(***************************************************************************)
EXTENDS Naturals

CONSTANTS
  Timeout,       \* PLIO_TIMEOUT_CYCLES (256 in the code)
  MaxChannel,    \* the last notification channel (3 in the code)
  None           \* the absent Option

WordBytes == 4

-----------------------------------------------------------------------------
(* The states, each with what it carries.                                   *)

Idle == [at |-> "Idle"]

\* Waiting for a worker transaction's data phase, then offering it, then for the answer.
WorkerData(op, wait) ==
  [at |-> IF op.write THEN "WorkerWriteData" ELSE "WorkerReadData", op |-> op, wait |-> wait]
WorkerOffer(op, wait)      == [at |-> "WorkerOffer", op |-> op, wait |-> wait]
WorkerResponse(read, wait) == [at |-> "WorkerResponse", read |-> read, wait |-> wait]

\* "work" is [kind : {"Dma", "Notification"}, request].
RequestBus(work) == [at |-> "RequestBus", work |-> work]

DmaAddress(request, wait) == [at |-> "DmaAddress", request |-> request, wait |-> wait]
DmaData(request, completed, wait, buffer) ==
  [at |-> "DmaData", request |-> request, completed |-> completed, wait |-> wait,
   buffer |-> buffer]
DmaComplete(status, completed) ==
  [at |-> "DmaComplete", status |-> status, completed |-> completed]

NotificationAddress(request, wait) ==
  [at |-> "NotificationAddress", request |-> request, wait |-> wait]
NotificationData(request, wait) ==
  [at |-> "NotificationData", request |-> request, wait |-> wait]

NewQic == [state |-> Idle, suspended |-> None, tail |-> None, grantUsed |-> FALSE]

-----------------------------------------------------------------------------
(* Conditions.                                                              *)

TimedOut(wait) == wait >= Timeout - 1

ValidDma(request) == request.handle.offset % WordBytes = 0
ValidNotification(channel) == channel <= MaxChannel

WorkerAddressCycle(bus) == bus.selected /\ bus.address # None

\* The last word of a host-to-device burst: acknowledged on the bus, not yet delivered.
FinalReadBuffer(s) ==
  s.request.direction = "HostToDevice" /\ s.buffer # None /\ s.completed = s.request.words

\* No bus work is left: a worker access may come in between.
LocalTail(s) == s.at = "DmaComplete" \/ (s.at = "DmaData" /\ FinalReadBuffer(s))

AnswersAddress(s) == s.at \in {"Idle", "RequestBus"} \/ LocalTail(s)

ManagerSlotAvailable(q, bus) == ~q.grantUsed \/ ~bus.grant

\* A DMA request is also taken, and queued, while a worker access is with the device.
AcceptsDmaDuringWorker(q, device) ==
  /\ q.state.at \in {"WorkerOffer", "WorkerResponse"}
  /\ ~TimedOut(q.state.wait)
  /\ q.suspended = None /\ q.tail = None
  /\ device.dma # None /\ ValidDma(device.dma)

AcceptsDmaWhenIdle(q, bus, device) ==
  /\ q.state = Idle
  /\ ~WorkerAddressCycle(bus)
  /\ ManagerSlotAvailable(q, bus)
  /\ device.notification = None
  /\ device.dma # None /\ ValidDma(device.dma)

-----------------------------------------------------------------------------
(* What the QIC drives.                                                     *)

RightAnswer(read) == IF read THEN "ReadOk" ELSE "WriteOk"

\* Mutant: an error of the device is acknowledged like a right answer.
WorkerReplyAckAnyway(s, bus, device) ==
  IF TimedOut(s.wait) THEN "Err"
  ELSE IF s.at = "WorkerResponse" /\ bus.dataStrobe /\ device.response # None THEN "Ack"
  ELSE None

\* Mutant: a write is acknowledged when it is offered to the device.
WorkerReplyPosted(s, bus, device) ==
  IF TimedOut(s.wait) THEN "Err"
  ELSE IF s.at = "WorkerOffer" /\ s.op.write THEN "Ack"
  ELSE IF s.at = "WorkerResponse" /\ bus.dataStrobe /\ device.response # None
  THEN IF device.response = RightAnswer(s.read) THEN "Ack" ELSE "Err"
  ELSE None

\* The answer to the selected worker transaction, as far as the state decides it alone.
WorkerReply(s, bus, device) ==
  IF TimedOut(s.wait) THEN "Err"
  ELSE IF s.at = "WorkerWriteData" /\ bus.dataStrobe /\ bus.data = None THEN "Err"
  ELSE IF s.at = "WorkerResponse" /\ bus.dataStrobe /\ device.response # None
  THEN IF device.response = RightAnswer(s.read) THEN "Ack" ELSE "Err"
  ELSE None

WorkerStates == {"WorkerReadData", "WorkerWriteData", "WorkerOffer", "WorkerResponse"}

Reply(q, bus, device) ==
  IF q.state.at \in WorkerStates THEN WorkerReply(q.state, bus, device)
  ELSE IF AnswersAddress(q.state) /\ WorkerAddressCycle(bus)
  THEN IF bus.address.valid THEN "Ack" ELSE "Err"
  ELSE None

RequestsBus(q) ==
  \/ q.suspended # None
  \/ q.state.at \in {"RequestBus", "DmaAddress", "NotificationAddress", "NotificationData"}
  \/ q.state.at = "DmaData" /\ ~FinalReadBuffer(q.state)

\* What is strobed on the bus: an address of space HostDma or Controller, or Data.
Strobe(s, bus) ==
  IF s.at \notin {"DmaAddress", "DmaData", "NotificationAddress", "NotificationData"} THEN None
  ELSE IF ~bus.grant \/ TimedOut(s.wait) THEN None
  ELSE CASE s.at = "DmaAddress"          -> [kind |-> "HostDma", value |-> s.request]
         [] s.at = "NotificationAddress" -> [kind |-> "Controller", value |-> s.request]
         [] s.at = "NotificationData"    -> [kind |-> "Data", value |-> None]
         [] OTHER ->
              IF IF s.request.direction = "HostToDevice"
                 THEN s.buffer = None /\ s.completed < s.request.words
                 ELSE s.buffer # None
              THEN [kind |-> "Data", value |-> s.buffer] ELSE None

CardPins(q, bus, device) ==
  [request |-> RequestsBus(q), reply |-> Reply(q, bus, device), strobe |-> Strobe(q.state, bus)]

\* Mutant: the device is told when the data is strobed.
NotifiedEarly(s, bus, device) ==
  /\ s.at = "NotificationData" /\ bus.grant /\ ~TimedOut(s.wait)
  /\ device.notification = s.request

Notified(s, bus, device) ==
  /\ s.at = "NotificationData" /\ bus.grant /\ ~TimedOut(s.wait)
  /\ bus.ack
  /\ device.notification = s.request

\* Mutant: an accepted request is not cancelled.
NeverCancels(s) == FALSE

Cancels(s) == s.at = "WorkerResponse" /\ TimedOut(s.wait)

ToDevice(q, bus, device) ==
  LET s == q.state
      preempted == LocalTail(s) /\ WorkerAddressCycle(bus)
      moving == s.at = "DmaData" /\ ~TimedOut(s.wait) /\ ~preempted
                /\ (bus.grant \/ FinalReadBuffer(s))
  IN  [cancel        |-> Cancels(s),
       mmio          |-> IF s.at = "WorkerOffer" /\ ~TimedOut(s.wait) THEN s.op ELSE None,
       responseReady |-> s.at = "WorkerResponse" /\ ~TimedOut(s.wait) /\ bus.dataStrobe,
       dmaReady      |-> AcceptsDmaWhenIdle(q, bus, device) \/ AcceptsDmaDuringWorker(q, device),
       read          |-> IF moving /\ s.request.direction = "HostToDevice" THEN s.buffer ELSE None,
       writeReady    |-> moving /\ s.request.direction = "DeviceToHost" /\ s.buffer = None
                         /\ s.completed < s.request.words,
       completion    |-> IF s.at = "DmaComplete" /\ ~preempted THEN s ELSE None,
       notified      |-> Notified(s, bus, device)]

-----------------------------------------------------------------------------
(* The next state, by state.                                                *)

StartWorker(bus) ==
  WorkerData([register |-> bus.address.register, write |-> bus.address.write], 0)

FromIdle(q, bus, device) ==
  IF WorkerAddressCycle(bus) THEN IF bus.address.valid THEN StartWorker(bus) ELSE Idle
  ELSE IF ManagerSlotAvailable(q, bus) /\ device.notification # None
  THEN IF ValidNotification(device.notification)
       THEN RequestBus([kind |-> "Notification", request |-> device.notification]) ELSE Idle
  ELSE IF AcceptsDmaWhenIdle(q, bus, device)
  THEN RequestBus([kind |-> "Dma", request |-> device.dma])
  ELSE Idle

\* Reads keep the wait they have; the wait of a write starts again with its data.
FromWorkerData(s, bus) ==
  IF TimedOut(s.wait) THEN Idle
  ELSE IF ~bus.dataStrobe THEN [s EXCEPT !.wait = @ + 1]
  ELSE IF s.at = "WorkerReadData" THEN WorkerOffer(s.op, s.wait)
  ELSE IF bus.data # None THEN WorkerOffer(s.op, 0)
  ELSE Idle

FromWorkerOffer(s, device) ==
  IF TimedOut(s.wait) THEN Idle
  ELSE IF device.mmioReady THEN WorkerResponse(~s.op.write, s.wait)
  ELSE [s EXCEPT !.wait = @ + 1]

FromWorkerResponse(s, bus, device) ==
  IF TimedOut(s.wait) \/ (bus.dataStrobe /\ device.response # None) THEN Idle
  ELSE [s EXCEPT !.wait = @ + 1]

FromRequestBus(s, bus) ==
  IF ~bus.grant THEN s
  ELSE IF s.work.kind = "Dma" THEN DmaAddress(s.work.request, 0)
  ELSE NotificationAddress(s.work.request, 0)

FromDmaAddress(s, bus) ==
  IF TimedOut(s.wait) THEN DmaComplete("Timeout", 0)
  ELSE IF bus.err THEN DmaComplete("BusError", 0)
  ELSE IF bus.ack THEN DmaData(s.request, 0, 0, None)
  ELSE [s EXCEPT !.wait = @ + 1]

\* Mutant: a word is counted when the device takes it, not when it is acknowledged.
ReadWordCountedLate(s, bus, device) ==
  IF s.buffer # None
  THEN IF ~device.readReady THEN [s EXCEPT !.wait = @ + 1]
       ELSE IF s.completed + 1 = s.request.words THEN DmaComplete("Ok", s.completed + 1)
       ELSE DmaData(s.request, s.completed + 1, 0, None)
  ELSE IF bus.err THEN DmaComplete("BusError", s.completed)
  ELSE IF bus.ack THEN DmaData(s.request, s.completed, 0, bus.data)
  ELSE [s EXCEPT !.wait = @ + 1]

\* Mutant: ACK is looked at before ERR.
ReadWordAckFirst(s, bus, device) ==
  IF s.buffer # None
  THEN IF ~device.readReady THEN [s EXCEPT !.wait = @ + 1]
       ELSE IF s.completed = s.request.words THEN DmaComplete("Ok", s.completed)
       ELSE DmaData(s.request, s.completed, 0, None)
  ELSE IF bus.ack
  THEN IF bus.data # None THEN DmaData(s.request, s.completed + 1, 0, bus.data)
       ELSE DmaComplete("ParityError", s.completed)
  ELSE IF bus.err THEN DmaComplete("BusError", s.completed)
  ELSE [s EXCEPT !.wait = @ + 1]

\* While a word waits to be delivered, ACK and ERR are not looked at.
ReadWord(s, bus, device) ==
  IF s.buffer # None
  THEN IF ~device.readReady THEN [s EXCEPT !.wait = @ + 1]
       ELSE IF s.completed = s.request.words THEN DmaComplete("Ok", s.completed)
       ELSE DmaData(s.request, s.completed, 0, None)
  ELSE IF bus.err THEN DmaComplete("BusError", s.completed)
  ELSE IF bus.ack
  THEN IF bus.data # None THEN DmaData(s.request, s.completed + 1, 0, bus.data)
       ELSE DmaComplete("ParityError", s.completed)
  ELSE [s EXCEPT !.wait = @ + 1]

\* Mutant: the acknowledged word stays in the buffer and is sent again.
WriteWordTwice(s, bus, device) ==
  IF s.buffer # None
  THEN IF bus.err THEN DmaComplete("BusError", s.completed)
       ELSE IF ~bus.ack THEN [s EXCEPT !.wait = @ + 1]
       ELSE IF s.completed + 1 = s.request.words THEN DmaComplete("Ok", s.completed + 1)
       ELSE DmaData(s.request, s.completed + 1, 0, s.buffer)
  ELSE IF device.write # None THEN DmaData(s.request, s.completed, 0, device.write)
  ELSE [s EXCEPT !.wait = @ + 1]

\* Mutant: the burst is complete when its last word is strobed.
WriteWordUnacknowledged(s, bus, device) ==
  IF s.buffer # None
  THEN IF bus.err THEN DmaComplete("BusError", s.completed)
       ELSE IF s.completed + 1 = s.request.words THEN DmaComplete("Ok", s.completed + 1)
       ELSE IF ~bus.ack THEN [s EXCEPT !.wait = @ + 1]
       ELSE DmaData(s.request, s.completed + 1, 0, None)
  ELSE IF device.write # None THEN DmaData(s.request, s.completed, 0, device.write)
  ELSE [s EXCEPT !.wait = @ + 1]

WriteWord(s, bus, device) ==
  IF s.buffer # None
  THEN IF bus.err THEN DmaComplete("BusError", s.completed)
       ELSE IF ~bus.ack THEN [s EXCEPT !.wait = @ + 1]
       ELSE IF s.completed + 1 = s.request.words THEN DmaComplete("Ok", s.completed + 1)
       ELSE DmaData(s.request, s.completed + 1, 0, None)
  ELSE IF device.write # None THEN DmaData(s.request, s.completed, 0, device.write)
  ELSE [s EXCEPT !.wait = @ + 1]

FromDmaData(s, bus, device) ==
  IF TimedOut(s.wait) THEN DmaComplete("Timeout", s.completed)
  ELSE IF s.request.direction = "HostToDevice" THEN ReadWord(s, bus, device)
  ELSE WriteWord(s, bus, device)

FromDmaComplete(s, device) == IF device.completionReady THEN Idle ELSE s

FromNotificationAddress(s, bus) ==
  IF TimedOut(s.wait) \/ bus.err THEN Idle
  ELSE IF bus.ack THEN NotificationData(s.request, 0)
  ELSE [s EXCEPT !.wait = @ + 1]

FromNotificationData(s, bus) ==
  IF TimedOut(s.wait) \/ bus.err \/ bus.ack THEN Idle ELSE [s EXCEPT !.wait = @ + 1]

NextState(q, bus, device) ==
  LET s == q.state IN
  CASE s.at = "Idle"                -> FromIdle(q, bus, device)
    [] s.at \in {"WorkerReadData", "WorkerWriteData"} -> FromWorkerData(s, bus)
    [] s.at = "WorkerOffer"         -> FromWorkerOffer(s, device)
    [] s.at = "WorkerResponse"      -> FromWorkerResponse(s, bus, device)
    [] s.at = "RequestBus"          -> FromRequestBus(s, bus)
    [] s.at = "DmaAddress"          -> FromDmaAddress(s, bus)
    [] s.at = "DmaData"             -> FromDmaData(s, bus, device)
    [] s.at = "DmaComplete"         -> FromDmaComplete(s, device)
    [] s.at = "NotificationAddress" -> FromNotificationAddress(s, bus)
    [] s.at = "NotificationData"    -> FromNotificationData(s, bus)

-----------------------------------------------------------------------------
(* One clock.                                                               *)

\* Mutant: the work suspended for a worker access is forgotten.
ForgetSuspended(q) ==
  IF q.state # Idle THEN q
  ELSE IF q.tail # None THEN [q EXCEPT !.state = q.tail, !.tail = None]
  ELSE [q EXCEPT !.suspended = None]

\* What a worker access interrupted goes on when it is over.
Resume(q) ==
  IF q.state # Idle THEN q
  ELSE IF q.tail # None THEN [q EXCEPT !.state = q.tail, !.tail = None]
  ELSE IF q.suspended # None
  THEN [q EXCEPT !.state = RequestBus(q.suspended), !.suspended = None]
  ELSE q

\* The selected worker transaction interrupts waiting or local work.
Interrupt(q, bus) ==
  IF ~bus.address.valid THEN q
  ELSE IF q.state.at = "RequestBus"
  THEN [q EXCEPT !.suspended = q.state.work, !.state = StartWorker(bus)]
  ELSE [q EXCEPT !.tail = q.state, !.state = StartWorker(bus)]

NeedsGrant(s) ==
  \/ s.at \in {"DmaAddress", "NotificationAddress", "NotificationData"}
  \/ s.at = "DmaData" /\ ~FinalReadBuffer(s)

\* The host withdrew BG; the device retries a notification, and is told of a failed burst.
LoseGrant(s) ==
  CASE s.at = "DmaAddress" -> DmaComplete("ProtocolError", 0)
    [] s.at = "DmaData"    -> DmaComplete("ProtocolError", s.completed)
    [] OTHER               -> Idle

Clock(q, bus, device) ==
  LET now == [q EXCEPT !.grantUsed = @ /\ bus.grant] IN
  IF bus.reset THEN NewQic
  ELSE IF WorkerAddressCycle(bus) /\ (now.state.at = "RequestBus" \/ LocalTail(now.state))
  THEN Interrupt(now, bus)
  ELSE IF ~bus.grant /\ NeedsGrant(now.state) THEN [now EXCEPT !.state = LoseGrant(@)]
  ELSE Resume([now EXCEPT
         !.suspended = IF AcceptsDmaDuringWorker(now, device)
                       THEN [kind |-> "Dma", request |-> device.dma] ELSE @,
         !.state     = NextState(now, bus, device),
         !.grantUsed = @ \/ (now.state.at = "RequestBus" /\ bus.grant)])
=============================================================================
