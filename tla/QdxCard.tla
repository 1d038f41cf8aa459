--------------------------------- MODULE QdxCard ---------------------------------
(***************************************************************************)
(* The queued card, clocked as its conformance test clocks it              *)
(* (physical_cycle in hardware/qdx-a-card/rust): the QIC on the bus, the   *)
(* QLI-16 link behind it, QDX-A behind the link and the validation         *)
(* endpoint behind QDX-A, with the test's peer as the host.  PLIO-TX,      *)
(* which is between the bus and the QIC, moves each clock's pins across    *)
(* unchanged (module PlioTx) and is left out.                              *)
(*                                                                         *)
(* The driver software performs any of Accesses at any time.  An access    *)
(* and the value it writes travel as one: [register : [name, value],       *)
(* write].                                                                 *)
(***************************************************************************)
EXTENDS QdxA, Sequences

CONSTANTS
  Timeout,    \* PLIO_TIMEOUT_CYCLES of the QIC
  Accesses,   \* the register accesses the driver may make
  BusResets,  \* whether the bus may be reset: a set of BOOLEANs
  Waits, Faults

VARIABLES
  qic,        \* the QIC
  link,       \* the QLI-16 codec
  qdx,        \* QDX-A
  endpoint,   \* the completion the endpoint has pending, or None
  peer,       \* the host
  seen        \* what has been observed, see Observe

cardVars == <<qic, link, qdx, endpoint, peer, seen>>

Q == INSTANCE Qic WITH MaxChannel <- 3
L == INSTANCE QliLink
P == INSTANCE TestPeer

NewSeen == [applied |-> << >>, owed |-> FALSE, stopped |-> FALSE, repeats |-> FALSE]

Init ==
  /\ qic = Q!NewQic
  /\ link = L!NewLink
  /\ qdx = NewQdx
  /\ endpoint = None
  /\ peer = P!NewPeer
  /\ seen = NewSeen

-----------------------------------------------------------------------------
(* The validation endpoint: it answers a command at once.                   *)

\* Which words of the command the completion repeats.
Echoed(i) == IF 2 * i < CqWords THEN i ELSE SqWords - CqWords + i

MakeCompletion(command) == [i \in 0..CqWords - 1 |-> command[Echoed(i)]]

EndpointDrive(e, out) == [commandReady |-> e = None /\ ~out.reset, completion |-> e]

EndpointClock(e, out) ==
  IF out.reset THEN None
  ELSE IF e = None /\ out.command # None THEN MakeCompletion(out.command)
  ELSE IF out.completionReady THEN None
  ELSE e

-----------------------------------------------------------------------------
(* What is observed of a step, for the properties: the accesses QDX-A has   *)
(* accepted during the driver's present one; whether a notification is owed *)
(* to the host; whether the chip has been stopped, by a fault or by the     *)
(* driver, in the middle of a command; whether the QIC repeats a word: an   *)
(* access has come while the word was on the link, so that the QIC puts it  *)
(* aside with the rest of the burst although the chip takes it.  The last   *)
(* two stay until the bus is reset.                                         *)

AccessUnderWay == peer.state.at \in {"WorkerAddress", "WorkerData"}

Working(state) == ReadyState(state) /\ state # "ReadyIdle"

WordOnTheLink == link.q2d # None /\ link.q2d.tag = "DmaRead"

Observe(accepted) ==
  [applied   |-> (IF AccessUnderWay THEN seen.applied ELSE << >>)
                 \o (IF accepted # None THEN <<accepted>> ELSE << >>),
   owed      |-> IF qdx'.state = "Notify" /\ qdx.state # "Notify" THEN TRUE
                 ELSE seen.owed /\ peer'.got = None,
   stopped   |-> seen.stopped \/ (Working(qdx.state) /\ ~ReadyState(qdx'.state)),
   repeats   |-> seen.repeats \/ (WordOnTheLink /\ qic.tail = None /\ qic'.tail # None)]

-----------------------------------------------------------------------------
(* Steps.                                                                   *)

\* What the QIC sees of the codec's signals: of a response, its kind.
ToQic(signals) ==
  [signals EXCEPT !.response = IF @ = None THEN None ELSE @.kind]

Step(bus) ==
  LET device == QicPort(qdx)
      local  == L!Cycle(link, bus.reset, Q!ToDevice(qic, bus, ToQic(device)), device)
      out    == EndpointPort(qdx, local.toDevice.reset)
      pins   == Q!CardPins(qic, bus, ToQic(local.toQic))
      data   == IF local.toQic.response = None THEN None ELSE local.toQic.response.data IN
  /\ qdx' = Advance(qdx, local.toDevice, EndpointDrive(endpoint, out))
  /\ endpoint' = EndpointClock(endpoint, out)
  /\ link' = local.link
  /\ qic' = Q!Clock(qic, bus, ToQic(local.toQic))
  /\ IF bus.reset THEN peer' = P!NewPeer ELSE peer' \in P!Clock(peer, pins, data)
  /\ seen' = IF bus.reset THEN NewSeen ELSE Observe(local.toDevice.mmio)

\* physical_cycle
CardClock == Step(P!BusInputs(peer.state))

\* reset_cycle: the bus is reset, and the host with it.
BusReset == TRUE \in BusResets /\ Step([P!BusInputs(P!Idle) EXCEPT !.reset = TRUE])

\* start_worker_read, start_worker_write
DriverAccess ==
  /\ peer.state = P!Idle
  /\ \E access \in Accesses : peer' = P!StartWorker(peer, access)
  /\ seen' = [seen EXCEPT !.applied = << >>]
  /\ UNCHANGED <<qic, link, qdx, endpoint>>

Next == CardClock \/ BusReset \/ DriverAccess

Spec == Init /\ [][Next]_cardVars

-----------------------------------------------------------------------------
(* Properties.                                                              *)

Words(handle, words) == [i \in 0..words - 1 |-> [handle EXCEPT !.offset = @ + 4 * i]]

TypeOK ==
  /\ {qdx.sqHead, qdx.sqTail, qdx.cqHead, qdx.cqTail} \subseteq 0..Positions - 1
  /\ qdx.sqWord \in 0..SqWords - 1 /\ qdx.cqWord \in 0..CqWords - 1
  /\ link.q2d # None => link.q2d.left \in 1..4
  /\ link.d2q # None => link.d2q.left \in 1..3
  /\ link.fault = FALSE
  /\ qic.grantUsed \in BOOLEAN
  /\ Len(peer.words) \in 0..CqWords

(* A completion never overwrites one the driver has not consumed: while one is being
   made or published there is room for it (the driver may move the positions as it
   likes, and the chip refuses what would break this). *)
RoomForCompletion ==
  /\ CqUsed(qdx) <= Ring
  /\ qdx.state \in {"SqRequest", "SqReceive", "SqCompletion", "EndpointOffer",
                    "EndpointCompletion", "CqRequest", "CqSend", "CqCompletion"} =>
       CqUsed(qdx) < Ring

Fetched == Entry(qdx.sqBase, Minus(qdx.sqHead, 1), SqWords)

(* qdx-a/SPEC.md section 8: the endpoint is offered whole commands only, each word from
   its place in the entry, however the link, the bus and resets cut the burst. *)
CommandIsWhole ==
  qdx.state = "EndpointOffer" => qdx.command = Words(Fetched, SqWords)

(* Section 10: when CQ_TAIL moves, the host has the whole completion of the command
   fetched last, in order, at the entry CQ_TAIL named: the host's latest burst was to that
   address, and these are its words. *)
PublishedIsWhole ==
  [][(qdx'.cqTail # qdx.cqTail /\ qdx'.state # "Disabled") =>
       LET completion == MakeCompletion(Words(Fetched, SqWords)) IN
       /\ peer'.address = Entry(qdx.cqBase, qdx.cqTail, CqWords)
       /\ peer'.words = [i \in 1..CqWords |-> completion[i - 1]]]_cardVars

(* Until the chip is stopped in the middle of a command (after that nothing is said before the
   next bus reset): an access the host sees succeed was accepted by the device once, and was
   the host's; one that fails was accepted at most once; nothing is accepted between accesses. *)
AccessAppliedOnce ==
  [][~seen.stopped =>
       IF ~AccessUnderWay THEN seen'.applied = << >>
       ELSE peer'.result # None =>
              LET once == <<peer.state.op>> IN
              IF peer'.result.kind = "Error" THEN seen'.applied \in {<< >>, once}
              ELSE seen'.applied = once]_cardVars

(* Until the chip is stopped in the middle of a command, a notification reaches the host only
   when the queue went from empty to not empty, and once for it; the chip goes on only when it
   has.  A chip stopped while it notifies leaves its notification with the link, and the QIC
   repeats it until the bus is reset. *)
NotifiedOnce ==
  [][~seen'.stopped =>
       /\ peer'.got # None => seen.owed
       /\ (qdx.state = "Notify" /\ qdx'.state = "ReadyIdle") => ~seen'.owed]_cardVars

(* What the link is about to deliver has a taker: while the chip is in service, a word finds it
   receiving and the completion of a burst that succeeded finds it waiting, so that neither
   blocks the register accesses behind it.  It is said until the chip is stopped in the middle
   of a command, or the QIC repeats a word: a repeated word has no taker (WordDeliveredOnce),
   and is the only one. *)
DeliveryHasTaker ==
  (ReadyState(qdx.state) /\ ~seen.stopped /\ ~seen.repeats) =>
    /\ WordOnTheLink => qdx.state = "SqReceive"
    /\ (link.q2d # None /\ link.q2d.tag = "DmaCompletion" /\ link.q2d.body.status = "Ok") =>
         qdx.state \in {"SqCompletion", "CqCompletion"}

(* Nor, under the same two conditions, does a burst of a chip in service run into the timeout:
   link and host are in time.  A burst whose last word is repeated does. *)
NoBurstTimesOut ==
  (ReadyState(qdx.state) /\ ~seen.stopped /\ ~seen.repeats) =>
    (qic.state.at = "DmaComplete" => qic.state.status # "Timeout")

-----------------------------------------------------------------------------
(* The inductive invariants behind the proofs (module QdxCardProofs).       *)

\* What a queue base, the handle of a request and, read from the host, a word are.
Bases   == {access.register.value : access \in
              {a \in Accesses : a.write /\ a.register.name \in {"SqBase", "CqBase"}}}
Handles == [binding : {base.binding : base \in Bases \cup {NoBase}}, offset : Int]

\* What a queue size is, what a read of a register may be answered with, and a message with
\* one of these answers.
Sizes       == {0} \cup {access.register.value : access \in
                  {a \in Accesses : a.write /\ a.register.name \in {"SqSize", "CqSize"}}}
Errors      == {None, "QueueProtocol", "BadConfig", "SqDma", "CqDma"}
ReadsOf(data) == [kind : {"ReadOk"}, data : data]
Answers     == ReadsOf({"Cap"}) \cup ReadsOf(0..2) \cup ReadsOf(SUBSET {"Enable", "Notify"})
               \cup ReadsOf(Handles) \cup ReadsOf(Sizes) \cup ReadsOf(0..Positions - 1)
               \cup ReadsOf(Errors) \cup {WriteOk, Refused}
MessagesOf(tag, bodies) == [tag : {tag}, body : bodies, left : Int]
Responses   == MessagesOf("MmioResponse", Answers)

\* A queue position is a u16: the device takes the low half of the word written.
Legal(op) ==
  /\ op.write \in BOOLEAN
  /\ (op.write /\ op.register.name \in {"SqTail", "CqHead"}) => op.register.value \in 0..Positions - 1
  /\ (op.write /\ op.register.name \in {"SqBase", "CqBase"}) => op.register.value \in Handles
  /\ (op.write /\ op.register.name \in {"SqSize", "CqSize"}) => op.register.value \in Sizes

ASSUME DriverAssumption ==
  \A access \in Accesses :
    Legal(access) /\ access = [register |-> access.register, write |-> access.write]

\* An access begun at once goes over the line in time, behind the longest message to the QIC.
ASSUME TimeoutAssumption == Timeout \in Nat /\ Timeout >= 4

ASSUME PeerAssumption == Waits \subseteq Nat

\* A request for a burst, and how far the burst has come once it has been addressed.
Requests == [direction : {"HostToDevice", "DeviceToHost"}, handle : Handles, words : Nat \ {0}]
Statuses == {"Ok", "Timeout", "BusError", "ParityError", "ProtocolError"}
Stages   == [at : {"DmaData"}, request : Requests, completed : Nat, wait : Nat,
             buffer : Handles \cup {None}]
            \cup [at : {"DmaComplete"}, status : Statuses, completed : Nat]

ASSUME NoneIsNoValue ==
  /\ None \notin {"Ack", "Err", "QicToDevice", "DeviceToQic", "ReadOk", "WriteOk", "Error"}
  /\ None # [kind |-> "Data", value |-> None]
  /\ None \notin [kind : {"Data"}, value : Handles]
  /\ None \notin [kind : {"HostDma"}, value : Requests]
  /\ None \notin Answers \cup Handles
  /\ None \notin Requests \cup Stages /\ None \notin Responses /\ None \notin Accesses
  /\ None \notin MessagesOf("MmioRequest", Accesses) \cup MessagesOf("DmaRequest", Requests)
  /\ None \notin MessagesOf("DmaWrite", Handles) \cup MessagesOf("NotificationRequest", {0})
  /\ None \notin MessagesOf("DmaRead", Handles) \cup MessagesOf("DmaCompletion", Stages)
  /\ None \notin MessagesOf("NotificationCompletion", {0})

\* The records, each with its fields.
ChipShape(d) ==
  d = [state |-> d.state, error |-> d.error, enabled |-> d.enabled, notify |-> d.notify,
       sqBase |-> d.sqBase, sqSize |-> d.sqSize, sqHead |-> d.sqHead, sqTail |-> d.sqTail,
       cqBase |-> d.cqBase, cqSize |-> d.cqSize, cqHead |-> d.cqHead, cqTail |-> d.cqTail,
       response |-> d.response, command |-> d.command, completion |-> d.completion,
       sqWord |-> d.sqWord, cqWord |-> d.cqWord, resetPulse |-> d.resetPulse]

QicState(s) ==
  CASE s.at = "Idle" -> s = Q!Idle
    [] s.at \in {"WorkerReadData", "WorkerWriteData", "WorkerOffer"} ->
         s = [at |-> s.at, op |-> s.op, wait |-> s.wait]
    [] s.at = "WorkerResponse" -> s = Q!WorkerResponse(s.read, s.wait)
    [] s.at = "RequestBus" -> s = Q!RequestBus(s.work)
    [] s.at = "DmaAddress" -> s = Q!DmaAddress(s.request, s.wait)
    [] s.at = "DmaData" -> s = Q!DmaData(s.request, s.completed, s.wait, s.buffer)
    [] s.at = "DmaComplete" -> s = Q!DmaComplete(s.status, s.completed)
    [] s.at \in {"NotificationAddress", "NotificationData"} ->
         s = [at |-> s.at, request |-> s.request, wait |-> s.wait]
    [] OTHER -> FALSE

(* Work is put aside only for a register access, and only one kind of it: a request that has
   not had the bus, or what is left of a burst that no longer needs it. *)
QicShape(q) ==
  /\ q = [state |-> q.state, suspended |-> q.suspended, tail |-> q.tail, grantUsed |-> q.grantUsed]
  /\ QicState(q.state) /\ q.grantUsed \in BOOLEAN
  /\ q.tail # None => QicState(q.tail) /\ Q!LocalTail(q.tail)
  /\ q.suspended # None \/ q.tail # None => q.state.at \in Q!WorkerStates
  /\ q.suspended = None \/ q.tail = None

MessageShape(m, tags) == m # None => m = L!Message(m.tag, m.body, m.left) /\ m.tag \in tags

ToDeviceTags == {"MmioRequest", "MmioCancel", "DmaRead", "DmaCompletion", "NotificationCompletion"}
ToQicTags    == {"MmioResponse", "DmaRequest", "DmaWrite", "NotificationRequest"}

LinkShape(l) ==
  /\ l = [q2d |-> l.q2d, d2q |-> l.d2q, last |-> l.last, held |-> l.held, done |-> l.done,
          fault |-> l.fault]
  /\ MessageShape(l.q2d, ToDeviceTags) /\ MessageShape(l.d2q, ToQicTags)

PeerPhases == {"DmaAddress", "DmaData", "NotificationAddress", "NotificationData"}

PeerShape(p) ==
  /\ p = [state |-> p.state, result |-> p.result, words |-> p.words, address |-> p.address,
          got |-> p.got]
  /\ CASE p.state.at = "Idle"  -> p.state = P!Idle
       [] p.state.at = "Grant" -> p.state = P!Grant
       [] p.state.at \in {"WorkerAddress", "WorkerData"} ->
            p.state = [at |-> p.state.at, op |-> p.state.op]
       [] p.state.at \in PeerPhases ->
            /\ p.state = P!Phase(p.state.at, p.state.request, p.state.beat, p.state.wait, p.state.fault)
            /\ p.state.wait \in Nat
       [] OTHER -> FALSE

SeenShape(s) ==
  /\ s = [applied |-> s.applied, owed |-> s.owed, stopped |-> s.stopped, repeats |-> s.repeats]
  /\ {s.owed, s.stopped, s.repeats} \subseteq BOOLEAN

ShapeInv ==
  /\ ChipShape(qdx) /\ QicShape(qic) /\ LinkShape(link) /\ PeerShape(peer) /\ SeenShape(seen)

(* A driver's access is legal wherever it has come to. *)
AccessesLegal ==
  /\ peer.state.at \in {"WorkerAddress", "WorkerData"} => Legal(peer.state.op)
  /\ qic.state.at \in {"WorkerReadData", "WorkerWriteData", "WorkerOffer"} => Legal(qic.state.op)
  /\ link.q2d # None /\ link.q2d.tag = "MmioRequest" => Legal(link.q2d.body)

PositionsInRange == {qdx.sqHead, qdx.sqTail, qdx.cqHead, qdx.cqTail} \subseteq 0..Positions - 1

RoomInv == ShapeInv /\ AccessesLegal /\ PositionsInRange /\ RoomForCompletion

(* Host and card are in the same transaction, or the card has left it and the host follows
   in the next clock. *)
QicGoesWith(at) ==
  CASE at \in {"Idle", "WorkerAddress"} ->
         {"Idle", "RequestBus", "DmaAddress", "DmaData", "DmaComplete", "NotificationAddress",
          "NotificationData"}
    [] at = "WorkerData" -> Q!WorkerStates
    [] at = "Grant" -> {"Idle", "RequestBus", "DmaAddress", "NotificationAddress", "DmaComplete"}
    [] at \in {"DmaAddress", "DmaData"} -> {at, "DmaComplete", "Idle"}
    [] OTHER -> {at, "Idle"}

SameTransaction == qic.state.at \in QicGoesWith(peer.state.at)

(* The chip's notification is in one place: on the link to the QIC, with the QIC, or on the
   link back.  It is owed until the QIC has done with it. *)
Notifying == {"NotificationAddress", "NotificationData"}

QicNotifies(q) ==
  \/ q.suspended # None /\ q.suspended.kind # "Dma"
  \/ q.state.at = "RequestBus" /\ q.state.work.kind # "Dma"
  \/ q.state.at \in Notifying

Requests0(q) ==
  /\ q.suspended # None /\ q.suspended.kind # "Dma" => q.suspended.request = 0
  /\ q.state.at = "RequestBus" /\ q.state.work.kind # "Dma" => q.state.work.request = 0
  /\ q.state.at \in Notifying => q.state.request = 0

LinkNotifies(l, notify) ==
  /\ l.d2q # None /\ l.d2q.tag = "NotificationRequest" =>
       notify /\ l.d2q.body = 0 /\ l.held = None /\ l.done = None
  /\ l.held # None => notify /\ l.held = 0 /\ l.done = None
  /\ l.done # None => notify /\ l.done = 0
  /\ l.q2d # None /\ l.q2d.tag = "NotificationCompletion" => l.done # None /\ l.q2d.body = 0

PeerNotified(s) ==
  /\ s.at \in Notifying => s.request = 0
  /\ s.at = "NotificationData" => s.fault # "Err"

OneNotification ==
  /\ seen.owed = (qdx.state = "Notify" /\ link.done = None)
  /\ LinkNotifies(link, qdx.state = "Notify")
  /\ QicNotifies(qic) => link.held # None
  /\ Requests0(qic) /\ PeerNotified(peer.state)

NotifyInv == RoomInv /\ SameTransaction /\ (~seen.stopped => OneNotification)

(* The words of a command and of its completion, through the QIC, the link and the chip.  What
   the QIC goes on with between register accesses: *)
Held(q) ==
  IF q.tail # None THEN q.tail
  ELSE IF q.suspended # None THEN Q!RequestBus(q.suspended)
  ELSE q.state

ForBus(s)    == s.at = "RequestBus" /\ s.work.kind = "Dma"
InBurst(s)   == ForBus(s) \/ s.at \in {"DmaAddress", "DmaData", "DmaComplete"}
RequestOf(s) == IF s.at = "RequestBus" THEN s.work.request ELSE s.request

BurstShape(s) ==
  /\ ForBus(s) \/ s.at = "DmaAddress" => RequestOf(s) \in Requests
  /\ s.at \in {"DmaData", "DmaComplete"} => s \in Stages
  /\ s.at = "DmaData" =>
       IF s.request.direction = "HostToDevice" /\ s.buffer # None
       THEN s.completed <= s.request.words ELSE s.completed < s.request.words

OnLink(message, tag) == message # None /\ message.tag = tag

BurstsShaped ==
  /\ {qdx.sqBase, qdx.cqBase} \subseteq Handles
  /\ BurstShape(Held(qic))
  /\ OnLink(link.d2q, "DmaRequest") => link.d2q.body \in Requests
  /\ OnLink(link.d2q, "DmaWrite") => link.d2q.body \in Handles \ {None}
  /\ link.last \in {None, "QicToDevice", "DeviceToQic"}

\* The chip's part in a burst.
Requesting == {"SqRequest", "CqRequest"}
Fetching   == {"SqRequest", "SqReceive", "SqCompletion"}
Served     == {"SqReceive", "SqCompletion", "CqSend", "CqCompletion"}

Wanted(d) == DmaRequest([d EXCEPT !.state = IF @ \in Fetching THEN "SqRequest" ELSE "CqRequest"])

(* The chip's request for a burst is on the link only while the QIC has no burst, and it is
   the chip's present one; or the chip has been stopped, and it blocks the link for good: no
   access that could put the chip in service again gets past it. *)
Stuck(d, l, q) ==
  /\ d.state \in {"Disabled", "Fault"}
  /\ \/ l.last = "DeviceToQic"
     \/ d.response # None /\ (l.q2d # None => l.q2d.tag \in {"MmioRequest", "NotificationCompletion"})
     \/ /\ d.response = None /\ l.q2d = None /\ l.last = None
        /\ \/ q.state.at \notin Q!WorkerStates
           \/ q.state.at \in {"WorkerReadData", "WorkerWriteData"} /\ l.done = None

RequestOnLink ==
  OnLink(link.d2q, "DmaRequest") =>
    /\ ~InBurst(Held(qic))
    /\ IF qdx.state \in Requesting THEN link.d2q.body = DmaRequest(qdx) ELSE Stuck(qdx, link, qic)

\* A word on the link is the one the QIC holds, until the burst fails; so is a completion.
WordsOnLink ==
  LET s == Held(qic) IN
  /\ WordOnTheLink =>
       \/ s.at = "DmaComplete"
       \/ /\ s.at = "DmaData" /\ s.request.direction = "HostToDevice"
          /\ s.buffer # None /\ s.buffer = link.q2d.body
  /\ OnLink(link.q2d, "DmaCompletion") => link.q2d.body = s /\ s.at = "DmaComplete"

\* The burst the QIC has is the one the chip waits for.
OwnBurst ==
  LET s == Held(qic) IN
  (qdx.state \in Served /\ InBurst(s) /\ s.at # "DmaComplete") => RequestOf(s) = Wanted(qdx)

\* QIC and host are at the same word of it.
PeersBurst ==
  /\ qic.state.at = "DmaAddress" /\ peer.state.at = "DmaAddress" =>
       peer.state.request = qic.state.request /\ peer.words = << >>
  /\ qic.state.at = "DmaData" /\ peer.state.at = "DmaData" =>
       peer.state.request = qic.state.request /\ peer.state.beat = qic.state.completed

One(buffer) == IF buffer # None THEN 1 ELSE 0

\* The chip has the words before sqWord; the QIC has acknowledged those, and the one it holds.
CommandArrives ==
  LET s == Held(qic)
      words == Words(Wanted(qdx).handle, SqWords) IN
  /\ qdx.command = [i \in 0..SqWords - 1 |-> qdx.command[i]]
  /\ qdx.state = "SqReceive" =>
       /\ qdx.sqWord \in 0..SqWords - 1
       /\ \A i \in 0..qdx.sqWord - 1 : qdx.command[i] = words[i]
       /\ WordOnTheLink => link.q2d.body = words[qdx.sqWord]
       /\ s.at = "DmaData" => /\ s.completed = qdx.sqWord + One(s.buffer)
                              /\ s.buffer # None => s.buffer = words[qdx.sqWord]
       /\ ForBus(s) \/ s.at = "DmaAddress" => qdx.sqWord = 0
  /\ qdx.state = "SqCompletion" => qdx.command = words

\* The completion of the present command.
Present == MakeCompletion(Words(Fetched, SqWords))

CompletionMade ==
  /\ endpoint # None => qdx.resetPulse \/ qdx.state \in {"EndpointCompletion", "Fault"}
  /\ endpoint # None /\ qdx.state = "EndpointCompletion" => endpoint = Present
  /\ qdx.state \in {"CqRequest", "CqSend", "CqCompletion"} => qdx.completion = Present

\* The QIC has the words before Sent; the host has those it has acknowledged.
Sent == IF qdx.state = "CqCompletion" THEN CqWords ELSE qdx.cqWord
Written(n) == peer.words = [i \in 1..n |-> Present[i - 1]]

CompletionLeaves ==
  LET s == Held(qic) IN
  qdx.state \in {"CqSend", "CqCompletion"} =>
    /\ qdx.cqWord \in 0..CqWords - 1
    /\ OnLink(link.d2q, "DmaWrite") => qdx.state = "CqSend" /\ link.d2q.body = Present[qdx.cqWord]
    /\ s.at = "DmaData" => /\ Sent = s.completed + One(s.buffer)
                           /\ s.buffer # None => s.buffer = Present[s.completed]
                           /\ Written(s.completed)
    /\ ForBus(s) \/ s.at = "DmaAddress" => Sent = 0
    /\ s.at = "DmaComplete" /\ s.status = "Ok" => Written(CqWords)

WholeInv ==
  /\ BurstsShaped /\ RequestOnLink /\ WordsOnLink /\ OwnBurst /\ PeersBurst
  /\ CommandArrives /\ CommandIsWhole /\ CompletionMade /\ CompletionLeaves

(* The completion goes to the entry CQ_TAIL names: from the address phase on, the host's latest
   burst is at the address the chip asked for. *)
EntryAddressed ==
  LET s == Held(qic) IN
  /\ qic.state.at = "DmaAddress" /\ peer.state.at = "DmaAddress" =>
       peer.address = qic.state.request.handle
  /\ (/\ qdx.state \in {"CqSend", "CqCompletion"}
      /\ s.at = "DmaData" \/ (s.at = "DmaComplete" /\ s.status = "Ok")) =>
       peer.address = Entry(qdx.cqBase, qdx.cqTail, CqWords)

(* While the chip has not been stopped, and the QIC repeats no word, its burst and what the
   link has of it find the chip waiting for them.  A completion stays on the link only if it is
   barred: by a word the chip still waits for, or by an answer nobody asks for any more. *)
Completing == {"SqCompletion", "CqCompletion"}

Barred(d, l, q) ==
  \/ d.state \notin Completing
  \/ l.last = "DeviceToQic" /\ OnLink(l.d2q, "MmioResponse") /\ q.state.at # "WorkerResponse"

Serving ==
  LET s == Held(qic) IN
  /\ InBurst(s) => qdx.state \in Served
  /\ InBurst(s) /\ s.at # "DmaComplete" => qdx.state # "SqCompletion"
  /\ s.at = "DmaComplete" /\ s.status = "Ok" => qdx.state \in Completing
  /\ OnLink(link.d2q, "DmaRequest") => qdx.state \in Requesting
  /\ OnLink(link.d2q, "DmaWrite") => qdx.state = "CqSend"
  /\ WordOnTheLink => qdx.state = "SqReceive" /\ qic.tail = None
  /\ OnLink(link.q2d, "DmaCompletion") => Barred(qdx, link, qic)

ServedInv == ~seen.stopped /\ ~seen.repeats => Serving

(* A register access on its way from the host to the chip, while the chip has not been stopped.
   Host and QIC have the same one, which the chip has accepted when the QIC waits for its
   answer, and not before. *)
AccessShared ==
  /\ AccessUnderWay => peer.state.op \in Accesses
  /\ peer.state.at = "WorkerAddress" => seen.applied = << >>
  /\ peer.state.at = "WorkerData" =>
       IF qic.state.at = "WorkerResponse" THEN seen.applied = <<peer.state.op>>
       ELSE qic.state.op = peer.state.op /\ seen.applied = << >>

\* The slots until a request on the link has been delivered, if nothing blocks the line.
Ahead(l) ==
  l.q2d.left + IF l.last # "DeviceToQic" THEN 0 ELSE 1 + IF l.d2q = None THEN 0 ELSE l.d2q.left

\* The QIC still offers the request when it reaches the chip.
InTime(d, l, q) ==
  /\ q.state.at = "WorkerOffer" /\ l.q2d.body = q.state.op /\ d.response = None
  /\ Ahead(l) <= 2 * (Timeout - q.state.wait)

\* It never does: the chip has an answer it cannot get rid of, or the line is barred by such
\* an answer or by a word of a burst that has failed.
Unreached(d, l, q) ==
  /\ q.state.at # "WorkerResponse"
  /\ \/ d.response # None
     \/ l.last = "DeviceToQic" /\ OnLink(l.d2q, "MmioResponse")
     \/ l.last = "DeviceToQic" /\ OnLink(l.d2q, "DmaWrite") /\ Held(q).at = "DmaComplete"

RequestReaches ==
  OnLink(link.q2d, "MmioRequest") =>
    /\ link.q2d.left \in 1..4 /\ link.q2d.body \in Accesses
    /\ InTime(qdx, link, qic) \/ Unreached(qdx, link, qic)

\* What the chip has sent, and that it waits until that is taken.
SendersWait ==
  /\ link.d2q # None => link.d2q.left \in 1..3
  /\ OnLink(link.d2q, "DmaRequest") => qdx.state \in Requesting /\ Q!ValidDma(link.d2q.body)
  /\ OnLink(link.d2q, "DmaWrite") =>
       LET s == Held(qic) IN
       /\ qdx.state = "CqSend"
       /\ s.at = "DmaComplete" \/ (s.at = "DmaData" /\ s.request.direction = "DeviceToHost")

\* The QIC offers a request as soon as it has it, and the line turns when it has been given.
OfferedAtOnce ==
  /\ qic.state.at \in {"WorkerReadData", "WorkerWriteData"} => qic.state.wait = 0
  /\ qic.state.at = "WorkerOffer" =>
       /\ qic.state.wait \in Nat
       /\ link.last = "DeviceToQic" /\ link.q2d = None => qic.state.wait = 0
       /\ link.last = "DeviceToQic" /\ link.d2q = None =>
            /\ qdx.state \notin Requesting
            /\ qdx.state = "Notify" => link.held # None \/ link.done # None

AccessInv ==
  ~seen.stopped => AccessShared /\ RequestReaches /\ SendersWait /\ OfferedAtOnce

(* A burst that has failed before its last word has a chip that takes no completion (README,
   section 6): until the card is reset it stays with the QIC, and nothing of it is on the link. *)
FailedBurst ==
  /\ Held(qic).at = "DmaComplete" /\ Held(qic).status # "Timeout" /\ qdx.state \notin Completing
  /\ ~WordOnTheLink /\ ~OnLink(link.d2q, "DmaWrite")

\* The slots until the answer to an access has been delivered: it is begun in the next clock
\* at the latest, or behind one message.
Behind(l) ==
  (IF l.last = "QicToDevice" THEN 1 ELSE 0)
  + IF l.d2q = None THEN 3 ELSE l.d2q.left + IF l.d2q.tag = "MmioResponse" THEN 0 ELSE 4

\* Otherwise all that is on the link has a receiver that waits for it: of an access, twice the
\* clocks waited and the slots still needed stay within these bounds.
AccessInTime ==
  LET s == qic.state IN
  /\ link.done = None /\ (link.q2d # None => link.q2d.tag \in {"MmioRequest", "DmaRead"})
  /\ OnLink(link.q2d, "MmioRequest") =>
       s.at = "WorkerOffer" /\ link.q2d.body = s.op /\ 2 * s.wait + Ahead(link) <= 8
  /\ s.at = "WorkerOffer" /\ link.q2d = None => s.wait = 0
  /\ qdx.response # None <=> s.at = "WorkerResponse"
  /\ OnLink(link.d2q, "MmioResponse") => s.at = "WorkerResponse"
  /\ s.at = "WorkerResponse" => s.wait \in Nat /\ 2 * s.wait + Behind(link) <= 14

\* A burst waits for the host, which answers within the limit,
ForHost(s) == (s.request.direction = "HostToDevice") = (s.buffer = None)

\* or for the second half of a word on the link.
HalfOnLink(s, message, direction) == s.wait <= 1 /\ message.left = 1 /\ link.last = direction

BurstInTime ==
  LET s == Held(qic)
      p == peer.state IN
  /\ s.at = "DmaAddress" =>
       /\ s.wait \in Nat
       /\ IF p.at = "Grant" THEN s.wait = 0 ELSE p.at = "DmaAddress" /\ s.wait + p.wait <= Timeout - 2
  /\ s.at = "DmaData" =>
       /\ ~Q!FinalReadBuffer(s) => p.at = "DmaData" /\ p.wait <= Timeout - 2
       /\ IF ForHost(s) THEN s.wait + p.wait <= Timeout - 2 /\ ~OnLink(link.d2q, "DmaWrite")
          ELSE IF WordOnTheLink THEN HalfOnLink(s, link.q2d, "QicToDevice")
          ELSE IF OnLink(link.d2q, "DmaWrite") THEN HalfOnLink(s, link.d2q, "DeviceToQic")
          ELSE s.wait = 0
  /\ s.at = "DmaComplete" => s.status # "Timeout" /\ qdx.state \in Completing

\* What the limit has to be for this.
LimitSuffices == Timeout >= 8 /\ \A w \in Waits : w + 3 <= Timeout

TimelyInv == ~seen.stopped /\ ~seen.repeats => FailedBurst \/ (AccessInTime /\ BurstInTime)

-----------------------------------------------------------------------------
(* What the repository's documents say and the code does not do.            *)

(* qic/RUST-AUDIT.md:51, qic/SPEC.md:39: host-to-device words are delivered in order, and
   the QIC resumes a tail as it was.  So while the QIC holds the last word of a fetch the
   chip is still to receive it. *)
WordDeliveredOnce ==
  (/\ qic.state.at = "DmaData" /\ Q!FinalReadBuffer(qic.state)
   /\ ReadyState(qdx.state) /\ ~seen.stopped) => qdx.state = "SqReceive"

(* qdx-a/SPEC.md:203: "Writing RESET ... returns the chip to DISABLED, ... cancels
   DMA/Notification traffic".  It is the driver's way out of FAULT, so the chip accepts
   every such write. *)
ResetReturnsToDisabled ==
  [][(/\ AccessUnderWay /\ peer'.result # None
      /\ peer.state.op.register.name = "Control" /\ "Reset" \in peer.state.op.register.value) =>
       seen'.applied # << >>]_cardVars
=============================================================================
