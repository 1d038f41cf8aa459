------------------------------- MODULE HostCore -------------------------------
(***************************************************************************)
(* The PLIO host controller (hardware/plio-rax-host/m4-rust): one bus,     *)
(* shared by the host's own register accesses (worker transactions) and by *)
(* the cards, which arbitrate for epochs in which they notify the host or  *)
(* move one DMA burst.                                                     *)
(*                                                                         *)
(* PLIOHostCore::step is one clock.  It is a Clock action here, one per    *)
(* branch of the code; the pins of the cards and the memory path are its   *)
(* inputs, and "out" is what the clock drives.  A card's pins are reduced  *)
(* to what the branch tests: decoding of an address is one of the address  *)
(* actions, parity of a data word is "Good" or "BadParity", and a word     *)
(* strobed without AD or PAR is "Undriven".                                *)
(***************************************************************************)
EXTENDS DmaEngine

CONSTANTS
  NotifyChannels,  \* notification channels of a slot (0..3 in the code)
  Registers,       \* addresses of a slot's worker space
  WorkerRequests,  \* requests software may submit
  Mappings,        \* <<base, length>> software binds
  BoundSlots,      \* slots software binds mappings of
  Offsets,         \* byte offsets cards put in a handle
  DataPins,        \* what a card may drive with a data strobe
  Configured,      \* the notification channels software enables, disables and masks
  Edges            \* clock edges told apart: 2 makes a clock that changes nothing a step

Roles == {"Idle", "Worker", "Grant", "Notification", "Dma"}

WorkerRequest == [slot : Slots, register : Registers, write : BOOLEAN, valid : BOOLEAN]

ASSUME CoreInputs ==
  /\ NotifyChannels \subseteq Nat
  /\ WorkerRequests \subseteq WorkerRequest
  /\ Mappings \subseteq Nat \X Nat
  /\ BoundSlots \subseteq Slots
  /\ Offsets \subseteq Nat
  /\ DataPins \subseteq {"Good", "BadParity", "Undriven"}
  /\ Configured \subseteq Slots \X NotifyChannels
  /\ Edges \in Nat \ {0}
ASSUME NoneIsNoSlot ==
  /\ None \notin Slots /\ None \notin NotifyChannels /\ None \notin WorkerRequest
  /\ None # "Timeout"

VARIABLES
  dma,            \* the DMA engine
  epoch,          \* the bus transaction in progress
  cursor,         \* where the next arbitration starts
  queued,         \* the worker request waiting for the bus, or None
  worker,         \* the worker engine
  done,           \* completions not yet taken by software
  notifications,  \* [pending, enabled, masked]: sets of <<slot, channel>>
  out,            \* what the last clock drove
  seen            \* history: what cards and memory have seen of the epoch, and arbitration

vars == <<dma, epoch, cursor, queued, worker, done, notifications, out, seen>>

-----------------------------------------------------------------------------
(* The state.                                                               *)

NoEpoch == [role |-> "Idle", slot |-> None, wait |-> 0, channel |-> None,
            direction |-> None, address |-> None, writeAck |-> FALSE]

\* epoch.address is dma_address_pending: a decoded DMA address not yet answered.
Epoch == [role : Roles, slot : Slots \cup {None}, wait : 0 .. Timeout,
          channel : NotifyChannels \cup {None}, direction : Directions \cup {None},
          address : [ok : BOOLEAN, direction : Directions] \cup {None}, writeAck : BOOLEAN]

IdleWorker == [state |-> "Idle", request |-> None, wait |-> 0]

WorkerEngine == [state : {"Idle", "Address", "Data"}, request : WorkerRequest \cup {None},
                 wait : 0 .. Timeout]

WorkerResults == {"Read", "WriteOk", "BusError", "ReadParity", "Timeout", "Reset"}

Protection == [result |-> "Protection", beats |-> 0]

Silent == [grant |-> None, selected |-> None, ack |-> FALSE, err |-> FALSE,
           reset |-> FALSE, memory |-> None, edge |-> 0]

Nobody == [s \in Slots |-> 0]

(***************************************************************************)
(* seen.acks        data beats of the DMA epoch answered with ACK          *)
(* seen.commits     words memory confirmed to the engine in the epoch      *)
(* seen.overtaken   grants to other cards since this one began to ask      *)
(***************************************************************************)
Init ==
  /\ dma = NewEngine
  /\ epoch = NoEpoch
  /\ cursor = 0
  /\ queued = None
  /\ worker = IdleWorker
  /\ done = [worker |-> None, dma |-> None]
  /\ notifications = [pending |-> {}, enabled |-> Slots \X NotifyChannels, masked |-> {}]
  /\ out = Silent
  /\ seen = [acks |-> 0, commits |-> 0, overtaken |-> Nobody]

-----------------------------------------------------------------------------
(* Parts of a clock.                                                        *)

\* A request is queued in every clock but a second one is dropped.
Queue(request) == IF queued = None THEN request ELSE queued

NextSlot(s) == (s + 1) % NSlots

\* The first requesting card at or after the cursor.
Chosen(requesting) ==
  CHOOSE s \in requesting :
    \A t \in requesting : (s + NSlots - cursor) % NSlots <= (t + NSlots - cursor) % NSlots

\* Every clock but a reset shows memory the request the engine was making.
Undriven == [Silent EXCEPT !.memory = MemoryRequest(dma), !.edge = (out.edge + 1) % Edges]

Drive(ack, err) == [Undriven EXCEPT !.grant = epoch.slot, !.ack = ack, !.err = err]

\* Mutant: the cursor does not rotate.
FinishWithoutRotation ==
  /\ epoch' = NoEpoch
  /\ UNCHANGED cursor

FinishCardTransaction ==
  /\ epoch' = NoEpoch
  /\ cursor' = NextSlot(epoch.slot)

\* The epoch goes on, or ends with an error to the card that is no DMA completion.
Continue(e) ==
  /\ epoch' = e
  /\ out' = Drive(FALSE, FALSE)
  /\ UNCHANGED cursor

Acknowledge(e) ==
  /\ epoch' = e
  /\ out' = Drive(TRUE, FALSE)
  /\ UNCHANGED cursor

Refuse ==
  /\ FinishCardTransaction
  /\ out' = Drive(FALSE, TRUE)

\* Mutant: no time limit on a silent card.
WaitForEver == Continue(epoch)

\* No strobe: wait, up to the time limit.
WaitForStrobe ==
  IF epoch.wait + 1 >= Timeout THEN Refuse ELSE Continue([epoch EXCEPT !.wait = @ + 1])

\* The DMA epoch after the engine has become d: it ends, taking the completion, when "over".
DmaOutcome(d, e, ack, over) ==
  IF over
  THEN /\ FinishCardTransaction
       /\ dma' = TakeCompletion(d)
       /\ done' = [done EXCEPT !.dma = d.completion]
       /\ out' = Drive(ack, d.completion.result # "Ok")
  ELSE /\ epoch' = e
       /\ dma' = d
       /\ out' = Drive(ack, FALSE)
       /\ UNCHANGED <<cursor, done>>

EndOnCompletion(d, e, ack) == DmaOutcome(d, e, ack, d.completion # None)

\* Mutant: the error check at the end of the DMA branch is missing.
NeverEndOnError(d, e) == DmaOutcome(d, e, FALSE, FALSE)

EndOnError(d, e) ==
  DmaOutcome(d, e, FALSE, d.completion # None /\ d.completion.result # "Ok")

-----------------------------------------------------------------------------
(* One clock, by role.                                                      *)

\* The worker has priority; a request the engine refuses is gone.
StartWorker(request) ==
  /\ epoch.role = "Idle"
  /\ Queue(request) # None
  /\ queued' = None
  /\ IF Queue(request).valid
     THEN /\ worker' = [state |-> "Address", request |-> Queue(request), wait |-> 0]
          /\ epoch' = [epoch EXCEPT !.role = "Worker", !.slot = Queue(request).slot]
     ELSE UNCHANGED <<worker, epoch>>
  /\ out' = Undriven
  /\ UNCHANGED <<dma, cursor, done, notifications, seen>>

\* Mutant: BG rises in the clock that arbitrates.
ArbitrateGrantsAtOnce(requesting) ==
  /\ epoch.role = "Idle"
  /\ queued = None
  /\ requesting # {}
  /\ epoch' = [epoch EXCEPT !.role = "Grant", !.slot = Chosen(requesting)]
  /\ out' = [Undriven EXCEPT !.grant = Chosen(requesting)]
  /\ UNCHANGED <<dma, cursor, queued, worker, done, notifications, seen>>

\* Mutant: cards are served although a worker request waits.
CardsFirst(requesting) ==
  /\ epoch.role = "Idle"
  /\ requesting # {}
  /\ epoch' = [epoch EXCEPT !.role = "Grant", !.slot = Chosen(requesting)]
  /\ out' = Undriven
  /\ UNCHANGED <<dma, cursor, queued, worker, done, notifications, seen>>

\* "requesting" are the cards with BR asserted.
Arbitrate(requesting) ==
  /\ epoch.role = "Idle"
  /\ queued = None
  /\ IF requesting = {}
     THEN UNCHANGED epoch
     ELSE epoch' = [epoch EXCEPT !.role = "Grant", !.slot = Chosen(requesting)]
  /\ seen' = [seen EXCEPT !.overtaken =
       [s \in Slots |-> IF s \in requesting /\ s # Chosen(requesting) THEN @[s] + 1 ELSE 0]]
  /\ out' = Undriven
  /\ UNCHANGED <<dma, cursor, queued, worker, done, notifications>>

\* The worker engine answers the card's "Ack", "BadData" (ACK with bad parity), "Err" or "Wait".
WorkerEnds(reply) ==
  CASE reply = "Err" -> "BusError"
    [] reply = "Wait" -> IF worker.wait + 1 >= Timeout THEN "Timeout" ELSE None
    [] OTHER -> IF worker.state = "Address" THEN None
                ELSE IF worker.request.write THEN "WriteOk"
                ELSE IF reply = "Ack" THEN "Read" ELSE "ReadParity"

WorkerClock(request, reply) ==
  /\ epoch.role = "Worker"
  /\ queued' = Queue(request)
  /\ IF WorkerEnds(reply) # None
     THEN /\ worker' = IdleWorker
          /\ done' = [done EXCEPT !.worker = WorkerEnds(reply)]
          /\ epoch' = NoEpoch
     ELSE /\ worker' = IF reply = "Wait" THEN [worker EXCEPT !.wait = @ + 1]
                       ELSE [worker EXCEPT !.state = "Data", !.wait = 0]
          /\ UNCHANGED <<done, epoch>>
  /\ out' = [Undriven EXCEPT !.selected = epoch.slot]
  /\ UNCHANGED <<dma, cursor, notifications, seen>>

\* Grant or Notification: the card withdrew BR.  The engine is not told.
RequestDropped(request) ==
  /\ epoch.role \in {"Grant", "Notification"}
  /\ queued' = Queue(request)
  /\ FinishCardTransaction
  /\ out' = Drive(FALSE, FALSE)
  /\ UNCHANGED <<dma, worker, done, notifications, seen>>

NoStrobe(request) ==
  /\ epoch.role \in {"Grant", "Notification"}
  /\ epoch.address = None
  /\ queued' = Queue(request)
  /\ WaitForStrobe
  /\ UNCHANGED <<dma, worker, done, notifications, seen>>

\* The strobed address has bad parity, no such space, or a malformed transfer.
BadAddress(request) ==
  /\ epoch.role = "Grant"
  /\ epoch.address = None
  /\ queued' = Queue(request)
  /\ Refuse
  /\ UNCHANGED <<dma, worker, done, notifications, seen>>

NotificationAddress(request, channel) ==
  /\ epoch.role = "Grant"
  /\ epoch.address = None
  /\ queued' = Queue(request)
  /\ Acknowledge([epoch EXCEPT !.role = "Notification", !.channel = channel, !.wait = 0])
  /\ UNCHANGED <<dma, worker, done, notifications, seen>>

NotificationData(request, pins) ==
  /\ epoch.role = "Notification"
  /\ queued' = Queue(request)
  /\ FinishCardTransaction
  /\ out' = Drive(pins = "Good", pins # "Good")
  /\ notifications' = IF pins = "Good"
       THEN [notifications EXCEPT !.pending = @ \cup {<<epoch.slot, epoch.channel>>}]
       ELSE notifications
  /\ UNCHANGED <<dma, worker, done, seen>>

\* The engine checks the handle now; the card is answered in the next clock.
DmaAddress(request, handle, words, dir) ==
  LET ok == StartAllowed(dma, epoch.slot, handle, words, dir) IN
  /\ epoch.role = "Grant"
  /\ epoch.address = None
  /\ queued' = Queue(request)
  /\ dma' = IF ok THEN Start(dma, epoch.slot, handle, words, dir) ELSE dma
  /\ Continue([epoch EXCEPT !.address = [ok |-> ok, direction |-> dir], !.wait = 0])
  /\ UNCHANGED <<worker, done, notifications, seen>>

AnswerDmaAddress(request) ==
  /\ epoch.role = "Grant"
  /\ epoch.address # None
  /\ queued' = Queue(request)
  /\ IF epoch.address.ok
     THEN /\ Acknowledge([epoch EXCEPT !.role = "Dma", !.address = None, !.wait = 0,
                                       !.direction = epoch.address.direction])
          /\ seen' = [seen EXCEPT !.acks = 0, !.commits = 0]
          /\ UNCHANGED done
     ELSE /\ Refuse
          /\ done' = [done EXCEPT !.dma = Protection]
          /\ UNCHANGED seen
  /\ UNCHANGED <<dma, worker, notifications>>

-----------------------------------------------------------------------------
(* The DMA role.                                                            *)

DmaClock(request) ==
  /\ epoch.role = "Dma"
  /\ queued' = Queue(request)
  /\ UNCHANGED <<worker, notifications>>

DmaRequestDropped(request) ==
  /\ DmaClock(request)
  /\ FinishCardTransaction
  /\ dma' = TakeCompletion(Reset(dma))
  /\ done' = [done EXCEPT !.dma = Reset(dma).completion]
  /\ out' = Drive(FALSE, FALSE)
  /\ UNCHANGED seen

\* Mutant: write_ack_pending is not cleared.
AcknowledgeWriteAgain(request) ==
  /\ DmaClock(request)
  /\ epoch.writeAck
  /\ EndOnCompletion(dma, epoch, TRUE)
  /\ seen' = [seen EXCEPT !.acks = @ + 1]

\* The beat memory confirmed in the clock before; also the unused branch of an idle engine.
AcknowledgeWrite(request) ==
  /\ DmaClock(request)
  /\ epoch.writeAck \/ dma.state = "Idle"
  /\ EndOnCompletion(dma, [epoch EXCEPT !.writeAck = FALSE], epoch.writeAck)
  /\ seen' = [seen EXCEPT !.acks = @ + (IF epoch.writeAck THEN 1 ELSE 0)]

CardWritesWord(request, word, pins) ==
  /\ DmaClock(request)
  /\ ~epoch.writeAck
  /\ dma.state = "AwaitDeviceWrite"
  /\ EndOnError(IF pins = "Undriven" THEN dma ELSE OfferDeviceWrite(dma, word, pins = "Good"),
                epoch)
  /\ UNCHANGED seen

CardWaits(request) ==
  /\ DmaClock(request)
  /\ ~epoch.writeAck
  /\ dma.state \in {"AwaitDeviceWrite", "DeviceReadReady"}
  /\ EndOnError(WaitCycle(dma), epoch)
  /\ UNCHANGED seen

\* Mutant: the engine moves on although memory was not ready.
RequestUnreadyMemory(request, ready) ==
  /\ DmaClock(request)
  /\ ~epoch.writeAck
  /\ dma.state = "MemRequest"
  /\ EndOnError(MemoryRequestAccepted(dma), epoch)
  /\ UNCHANGED seen

RequestMemory(request, ready) ==
  /\ DmaClock(request)
  /\ ~epoch.writeAck
  /\ dma.state = "MemRequest"
  /\ EndOnError(IF ready THEN MemoryRequestAccepted(dma) ELSE WaitCycle(dma), epoch)
  /\ UNCHANGED seen

AwaitMemory(request, response) ==
  LET wrote == epoch.direction = "DeviceWrite" /\ response.kind = "WriteDone"
      read  == epoch.direction = "DeviceRead" /\ response.kind = "ReadData" IN
  /\ DmaClock(request)
  /\ ~epoch.writeAck
  /\ dma.state = "MemResponse"
  /\ IF response = None
     THEN /\ EndOnError(WaitCycle(dma), epoch)
          /\ UNCHANGED seen
     ELSE /\ EndOnError(MemoryResponse(dma, response), [epoch EXCEPT !.writeAck = wrote])
          /\ seen' = [seen EXCEPT !.commits = @ + (IF wrote \/ read THEN 1 ELSE 0)]

CardReadsWord(request) ==
  /\ DmaClock(request)
  /\ ~epoch.writeAck
  /\ dma.state = "DeviceReadReady"
  /\ EndOnCompletion(AcknowledgeDeviceRead(dma), epoch, TRUE)
  /\ seen' = [seen EXCEPT !.acks = @ + 1]

-----------------------------------------------------------------------------
(* Reset, and the calls software makes between clocks.                      *)

\* Mappings, notification configuration and their generations survive a reset.
ResetHost ==
  /\ dma' = TakeCompletion(Reset(dma))
  /\ done' = [worker |-> IF worker.state # "Idle" THEN "Reset" ELSE None,
              dma |-> Reset(dma).completion]
  /\ worker' = IdleWorker
  /\ epoch' = NoEpoch
  /\ cursor' = 0
  /\ queued' = None
  /\ notifications' = [notifications EXCEPT !.pending = {}]
  /\ out' = [Silent EXCEPT !.reset = TRUE]
  /\ seen' = [seen EXCEPT !.overtaken = Nobody]

BindDma(s, c, mapping) ==
  /\ BindAllowed(dma, s, c, mapping[1], mapping[2])
  /\ dma' = Bind(dma, s, c, mapping[1], mapping[2], TRUE, TRUE)
  /\ UNCHANGED <<epoch, cursor, queued, worker, done, notifications, out, seen>>

RevokeDma(s, c) ==
  /\ dma' = Revoke(dma, s, c)
  /\ UNCHANGED <<epoch, cursor, queued, worker, done, notifications, out, seen>>

\* The set s with n in it or not.
Put(set, n, member) == IF member THEN set \cup {n} ELSE set \ {n}

SetNotificationConfig(n, enabled, masked) ==
  /\ notifications' = [notifications EXCEPT !.enabled = Put(@, n, enabled),
                                            !.masked = Put(@, n, masked)]
  /\ UNCHANGED <<dma, epoch, cursor, queued, worker, done, out, seen>>

\* Mutant: a masked notification can be claimed.
ClaimableWhenMasked == notifications.pending \cap notifications.enabled

Claimable == (notifications.pending \cap notifications.enabled) \ notifications.masked

\* The lowest slot, then the lowest channel.
Peek ==
  CHOOSE n \in Claimable :
    \A m \in Claimable : n[1] < m[1] \/ (n[1] = m[1] /\ n[2] <= m[2])

ClaimNotification ==
  /\ Claimable # {}
  /\ notifications' = [notifications EXCEPT !.pending = @ \ {Peek}]
  /\ UNCHANGED <<dma, epoch, cursor, queued, worker, done, out, seen>>

TakeWorkerCompletion ==
  /\ done.worker # None
  /\ done' = [done EXCEPT !.worker = None]
  /\ UNCHANGED <<dma, epoch, cursor, queued, worker, notifications, out, seen>>

TakeDmaCompletion ==
  /\ done.dma # None
  /\ done' = [done EXCEPT !.dma = None]
  /\ UNCHANGED <<dma, epoch, cursor, queued, worker, notifications, out, seen>>

-----------------------------------------------------------------------------
(* The specification.                                                       *)

Handles == [channel : Channels, generation : Generations, offset : Offsets]

\* A step() without reset, in which the memory path is ready or not and answers so.
ClockWith(readiness, responses) ==
  \E request \in WorkerRequests \cup {None} :
    \/ StartWorker(request)
    \/ request = None /\ \E requesting \in SUBSET Slots : Arbitrate(requesting)
    \/ \E reply \in {"Ack", "BadData", "Err", "Wait"} : WorkerClock(request, reply)
    \/ RequestDropped(request)
    \/ NoStrobe(request)
    \/ BadAddress(request)
    \/ \E channel \in NotifyChannels : NotificationAddress(request, channel)
    \/ \E pins \in DataPins : NotificationData(request, pins)
    \/ \E handle \in Handles, words \in Bursts, dir \in Directions :
         DmaAddress(request, handle, words, dir)
    \/ AnswerDmaAddress(request)
    \/ DmaRequestDropped(request)
    \/ AcknowledgeWrite(request)
    \/ \E word \in Words, pins \in DataPins : CardWritesWord(request, word, pins)
    \/ CardWaits(request)
    \/ \E ready \in readiness : RequestMemory(request, ready)
    \/ \E response \in responses : AwaitMemory(request, response)
    \/ CardReadsWord(request)

\* The memory path may be ready and answer anything at any time.
Clock == ClockWith(BOOLEAN, MemoryResponses \cup {None})

SoftwareCall ==
  \/ \E s \in BoundSlots, c \in Channels, mapping \in Mappings : BindDma(s, c, mapping)
  \/ \E s \in BoundSlots, c \in Channels : RevokeDma(s, c)
  \/ \E n \in Configured, enabled, masked \in BOOLEAN : SetNotificationConfig(n, enabled, masked)
  \/ ClaimNotification
  \/ TakeWorkerCompletion
  \/ TakeDmaCompletion

Next == Clock \/ ResetHost \/ SoftwareCall

Spec == Init /\ [][Next]_vars

\* The controller is synchronous; software, cards and memory owe it nothing.
LiveSpec == Spec /\ WF_vars(Clock)

-----------------------------------------------------------------------------
(* Properties.                                                              *)

\* Every register has its type.
TypeOK ==
  /\ dma \in Engine
  /\ epoch \in Epoch
  /\ cursor \in Slots
  /\ queued \in WorkerRequest \cup {None}
  /\ worker \in WorkerEngine
  /\ done \in [worker : WorkerResults \cup {None}, dma : Completion \cup {Protection, None}]
  /\ notifications \in [pending : SUBSET (Slots \X NotifyChannels),
                       enabled : SUBSET (Slots \X NotifyChannels),
                       masked : SUBSET (Slots \X NotifyChannels)]
  /\ seen \in [acks : Nat, commits : Nat, overtaken : [Slots -> Nat]]

(* A DMA epoch always has work of its own: the burst of the granted slot, or the
   completed burst whose last write it has yet to acknowledge.  Without it the grant
   would never be withdrawn. *)
DmaEpochOwnsBurst ==
  epoch.role = "Dma" =>
    IF dma.active # None
    THEN /\ dma.active.slot = epoch.slot
         /\ dma.active.direction = epoch.direction
         /\ dma.completion = None
    ELSE /\ epoch.writeAck
         /\ dma.completion # None
         /\ dma.completion.result = "Ok"

(* The card is told of a beat only after memory has confirmed it, and of every beat
   but the one in hand. *)
AcksFollowMemory ==
  epoch.role = "Dma" =>
    /\ seen.commits = seen.acks
         + (IF epoch.writeAck \/ dma.state = "DeviceReadReady" THEN 1 ELSE 0)
    /\ dma.active # None =>
         dma.active.acknowledged = seen.commits - (IF dma.state = "DeviceReadReady" THEN 1 ELSE 0)

(* Ok(n) given to software stands for n words memory confirmed, of which the card has
   seen all but at most the last acknowledged. *)
OkIsEarned ==
  [][(done'.dma # done.dma /\ done'.dma # None /\ done'.dma.result = "Ok") =>
       /\ done'.dma.beats = seen'.commits
       /\ seen'.acks \in {seen'.commits - 1, seen'.commits}]_vars

\* After an epoch the next clock grants nobody and selects nobody but a worker target.
GrantBoundary ==
  [][epoch.role \in {"Idle", "Worker"} => out'.grant = None]_<<epoch, cursor, queued, worker, out>>

(* While a card keeps asking, cards that come after it in the rotation are served fewer than
   NSlots times in all before it is. *)
RoundRobinBound == \A s \in Slots : seen.overtaken[s] < NSlots

(* A notification acknowledged to the card stays pending until it is claimed, which a
   disabled or masked one cannot be, or the controller is reset. *)
NotificationKept ==
  [][\A n \in notifications.pending :
       n \notin notifications'.pending =>
         out'.reset \/ (n \in notifications.enabled /\ n \notin notifications.masked)]_vars

(* The card strobes a word without driving AD or PAR (m4-rust/src/lib.rs:139): nothing
   moves, and the clock is not counted as a wait. *)
UndrivenWord ==
  /\ epoch.role = "Dma" /\ dma.state = "AwaitDeviceWrite" /\ ~epoch.writeAck
  /\ epoch' = epoch /\ dma' = dma

\* From some time on every clock is one of those.
AlwaysUndriven == <>[][UndrivenWord]_out

(* Every bus transaction ends, whatever the card and the memory do or fail to do, unless
   the card strobes such words for ever: that, and nothing else, escapes the time limit. *)
EpochEnds == AlwaysUndriven \/ ((epoch.role # "Idle") ~> (epoch.role = "Idle"))

(* A queued worker request gets the bus (or is refused), however busy the cards are, with
   the same exception. *)
WorkerServed == AlwaysUndriven \/ ((queued # None) ~> (queued = None))

-----------------------------------------------------------------------------
(* The inductive invariant behind these properties.                         *)

\* What the registers of an epoch hold in each role.
EpochShape ==
  /\ epoch.role # "Idle" => epoch.slot \in Slots
  /\ epoch.role = "Notification" => epoch.channel \in NotifyChannels
  /\ epoch.role # "Grant" => epoch.address = None
  /\ epoch.role # "Dma" => ~epoch.writeAck

(* The burst an epoch is about: an accepted address has a fresh one, a DMA epoch its own,
   which may be over only while its last write is unacknowledged, and no other epoch leaves
   a completion in the engine.  (A burst may be active outside all of them.) *)
BurstOfEpoch ==
  /\ epoch.role # "Dma" => dma.completion = None
  /\ (epoch.role = "Grant" /\ epoch.address # None /\ epoch.address.ok) =>
       /\ dma.active # None /\ dma.state # "DeviceReadReady"
       /\ dma.active.slot = epoch.slot /\ dma.active.direction = epoch.address.direction
       /\ dma.active.acknowledged = 0
  /\ DmaEpochOwnsBurst /\ AcksFollowMemory
  /\ epoch.role = "Dma" =>
       /\ epoch.writeAck => dma.state \in {"Idle", "AwaitDeviceWrite"}
       /\ dma.completion # None => dma.completion.beats = seen.commits

\* How far t comes after s in the rotation.
Distance(s, t) == (t + NSlots - s) % NSlots

\* Where the next arbitration will start.
Turn == IF epoch.role \in {"Grant", "Notification", "Dma"} THEN NextSlot(epoch.slot) ELSE cursor

\* A card that has been overtaken n times is at least n slots nearer to its turn.
Rotation == \A s \in Slots : seen.overtaken[s] + Distance(Turn, s) < NSlots

CoreInv == TypeOK /\ WellFormed(dma) /\ EpochShape /\ BurstOfEpoch /\ Rotation

-----------------------------------------------------------------------------
(* What the repository's documents say and the code does not do.            *)

\* hardware/plio-rax-host/SPEC.md:26: a terminated transaction leaves no burst behind.
NoBurstOutsideEpoch == dma.active # None => epoch.role \in {"Grant", "Dma"}

\* specs/PLIO.md:529: no mapping is valid when reset is released.
ResetInvalidatesMappings ==
  out.reset => \A sc \in Slots \X Channels : ~dma.caps[sc].valid

=============================================================================
