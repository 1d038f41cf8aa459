# PLIO / QDX in TLA+

PLIO is a small parallel peripheral bus: one host controller and up to eight
cards. The repository holds cycle-accurate Rust models of the two ends of the
bus (`hardware/*/rust`), Bluespec implementations of the same blocks
(`hardware/*/bluespec`) and the documents both are written from (`specs/`,
`hardware/*/SPEC.md`). This directory models the Rust blocks in TLA+, checks them
alone and joined with TLC, and proves the DMA engine, the controller, the memory path, both
ends of the bus together, the block engine and the transceiver correct for every size with TLAPS. Paths below are relative to the repository's root; `m3` and `m4`
stand for `hardware/plio-rax-host/m3-rust/src/lib.rs` and `.../m4-rust/src/lib.rs`, `qic`
for `hardware/qic/rust/src/lib.rs`, `qdx-a` for `hardware/qdx-a/rust/src/lib.rs` and so on.

## 1. The system

### Components

| component | state it keeps | operations | what makes it correct |
|---|---|---|---|
| DMA engine (m3) | capabilities per slot and channel with a 4-bit generation, the running burst, one completion | bind, revoke, start, offer a word, take a request/answer of memory, acknowledge, wait, reset, take completion | a burst stays inside the mapping it was checked against; revocation stops it; Ok(n) means n words; stale handles are refused; no completion is lost |
| Controller core (m4) | role and slot of the bus epoch, arbitration cursor, a queued register access, notification flags, pending acknowledgement | `step` (a clock, five roles), reset, bind/revoke, notification configuration and claim, take completions | every epoch ends; the epoch and the DMA burst belong together; fair arbitration with a grant gap; notifications are kept; card and memory see the same beats |
| Worker engine (m1, inside m4) | Idle, Address or Data, and a wait count | start, drive, clock | one answer per access, of that access; time limit per phase |
| Memory controller and backend | a request or an answer in hand; the backend's request, completion, latency and memory | accept, consume, tick, reset of either | one access at a time, performed once, answered once, whatever a reset leaves behind |
| QIC | eleven states, suspended bus work, a suspended local tail, "grant used" | `drive` (pins and QLI signals), `clock` | the device sees each request completed once, with the true count; no bus activity without a grant; register answers are fresh |
| Device behind QLI (naked card; the scripted device of the QIC's tests) | an accepted register access and its answer; a DMA burst; a notification | drive, clock | discards a cancelled access; keeps a notification until told |
| QLI-16 link | a message under way each way, the direction of the line, the notification held for the QIC and its completion | two slots a clock | what one side sends the other takes once, in order; nothing blocks the line for ever |
| QDX-A | ten states, four ring positions, the command and the completion in hand, a pending register answer | registers, queue engine, endpoint port, three resets | commands are whole and come in order; completions never overwrite one not consumed and are published after they are written; one notification per empty-to-not-empty |
| QDX-B | the command, its scatter/gather list, the burst under way, the staged payload, media | accept a command, fetch the list, move bursts, commit, complete | data goes into the named buffer, whole and in order, and nowhere else; a failed transfer changes no block; a command takes no more events than list and payload have words for |
| PLIO-TX, PTI | committed images, half a word each way, direction, turnaround | a slot | no torn word, no drive without turnaround, the pins wanted are the pins driven |
| Mainboard FPGA (Bluespec) | arbitration of CPU and PLIO for block RAM | rules | each requester is answered, once |
| m2, Bluespec twins, benches, Python simulator, trace | - | - | twins or test code of the above |

PROJECT.json lists the components with what is modelled of each.

### Interactions

* Software calls the controller between clocks (bind, revoke, claim, take); all
  else is synchronous: in a clock the controller shows its pins, cards drive theirs,
  the controller answers, everybody's registers advance.
* Controller and card talk by BR/BG, strobes and ACK/ERR. Each side has its *own*
  time limit of 256 clocks; the limits are not the same number of clocks.
* Controller and memory path talk by ready/valid. The controller may give a burst
  up and leave its request in the path.
* QIC and device talk by ready/valid over QLI, with a cancellation for a register
  access the device has already accepted. QLI-16 carries this over half-duplex wires: a
  handshake becomes a message of one to four tokens, and one that cannot be taken blocks
  those behind it.
* Between the QIC and the backplane, PLIO-TX carries a bus clock as three to six slots.
* QDX-A hands whole commands to an endpoint and takes one completion each; QDX-B is such
  an endpoint and borrows QDX-A's DMA port while it works.

### What is hard about it

The hazards (PROJECT.json, each at its line) fall in seven groups: mappings changing
under a running burst; the last beat of a burst, where acknowledgement, completion and
loss of the grant meet; two time limits racing each other and a late answer;
requests abandoned on one side and alive on the other; work suspended in the QIC
for a register access and resumed; register accesses and queue events reaching QDX-A in
the same clock over a line that carries one message at a time; and data that crosses
segment, burst and half-word boundaries which a failure can cut at any point.

## 2. The modules

| module | models | state and actions |
|---|---|---|
| `DmaEngine` | m3, as operators from engine to engine | one operator per method: `Bind`, `Revoke`, `Start`, `OfferDeviceWrite`, `MemoryRequestAccepted`, `MemoryResponse`, `AcknowledgeDeviceRead`, `WaitCycle`, `Reset`, `TakeCompletion` |
| `DmaHostM3` | m3 alone, any caller | one action per method, and a history of binds, confirmed words and late accesses |
| `HostCore` | m4 with m1 inside (EXTENDS `DmaEngine`) | `Clock` is `step` without reset, one action per branch; `ResetHost` its reset branch; `SoftwareCall` the other methods. `out` is what the clock drove, `seen` a history of acknowledged beats, confirmed words and overtaken cards |
| `MemoryPath` | memory controller and `FakeMemory`, as operators | `AcceptHostRequest`, `ConsumeHostResponse`, `TickBackend`, the two resets |
| `MemoryService` | the abstract memory: a request performed at one instant | `Accept`, `Perform`, `Take`, `Cancel`, `Abandon`, `PerformStray` |
| `MemoryController` | `MemoryPath` with one client | its actions, and the refinement of `MemoryService` |
| `HostMemory` | controller and memory path clocked together, as `host_cycle` in the conformance program does | `HostCycle`: sample readiness and answer, `step`, consume or accept, tick |
| `Qic` | `Qic::drive` and `Qic::clock`, as operators | `CardPins`, `ToDevice`, `Clock`; one `From...` operator per state |
| `QliDevice` | the register side of `NakedDevice`, the DMA side of the QIC tests' `ScriptDevice` | `Drive`, `Clock`; what the device may do is its "choice" |
| `HostCard` | controller, QIC and device on one bus (EXTENDS `HostCore`) | `HCClock`: show, drive, step, answer, clock; `HCReset`, `HCSoftware`, and the device asking for work |
| `QliLink` | `Qli16Codec` | `Begin`: which messages start; `Slot`: one slot; `Cycle`: a clock of two, and what each side sees of it |
| `QdxA` | `QdxA::clock`, as operators | `Advance`: reset, then register access, then engine; `AcceptMmio` the registers; `Progress` the ten states |
| `TestPeer` | the host end of the card tests | `BusInputs`, `Clock`, `StartWorker` |
| `QdxCard` | QIC, link, QDX-A, an echoing endpoint and the peer, as `physical_cycle` clocks them (EXTENDS `QdxA`) | `CardClock`, `BusReset`, `DriverAccess` |
| `QdxB` | `QdxBEndpoint` over the DMA service a QIC gives | `Submit`, `TakeCompletion`, one action per event of a burst (`DmaAccepted`, `WordToDevice`, `WordToHost`, `DmaFails`, `DmaCompletes`), `Reset`; `StartOperation` and `StartPayloadDma` are what the engine does on its own between them |
| `PlioTx` | `PlioTx` and the card programs' slot sequences | `AnySlot`; `SendPins`, `ReadBackplane`, `NextSlot`; `Reset` |
| `DmaHostM3Proofs`, `HostCoreProofs`, `HostSystemProofs`, `MemoryControllerProofs`, `PlioTxProofs`, `QdxCardProofs`, `QdxCardAccessProofs`, `QdxBProofs` | - | the theorems of section 5 |
| `MC*` | - | constants for TLC |

The Rust blocks are pure functions from state and inputs to state, so a block that is
used in more than one composition (`DmaEngine`, `MemoryPath`, `Qic`, `QliDevice`, `QliLink`,
`QdxA`, `TestPeer`) is a module of operators, and the state machines around them have the
variables.

Abstractions:

* Card pins in `HostCore` are reduced to what the branch tests: which kind of address
  was strobed and whether it decodes, and parity as good or bad. In `HostCard` they are
  computed by the QIC. A word is a model value or, in `HostCard`, the parity of its place in
  the burst, so that a lost, repeated or swapped word shows; in the memory modules it is a
  function from byte lanes to bytes; in `QdxCard` it is the address it was read from; in `QdxB` every
  longword of memory differs from every other.
* The DMA handle is the record of its fields; addresses are integers modulo
  `AddrSpace`, generations modulo `GenMod`, both wrapping as in the code. Wait counters are
  compared with `Timeout`, one constant for controller and QIC as in the code.
* `last_fault`, the payload of a notification, debug records and the contents of device
  registers are left out. Nothing in the modelled code reads them.
* In `HostCard` the card's pins depend on what the controller drives (BG, the worker's
  strobes) and the controller's ACK on the pins. The composition follows the wires: grant and
  worker phase first, then the card's pins, then ACK/ERR and read data. `Qic::drive` uses ACK
  only in `notification_ready`, so there is no loop.
* `flip` corrupts the data word of one clock on its way. Addresses arrive as sent, so a
  refused worker address is never the wire's fault.
* `QliLink` counts the tokens of a message and does not hold their bits: encoding then
  decoding gives the message back, and a word of the wrong direction cannot arise from the two
  codecs. The test hook that injects a raw token is left out.
* `QdxCard` leaves PLIO-TX out: `CardIsTransparent` (of `PlioTx`) says that a bus clock goes
  through it unchanged.
* `QdxB` sees a burst as the QIC presents it to the device: accepted, its words in order, one
  completion, and failure instead of any of the last two. `HostCard`'s `WordsInOrder`,
  `CardOkIsHostOk` and `RequestHeldOnce` are what this rests on, and a card with QLI-16 breaks it in one case: the word
  that the QIC repeats (`word_delivered_twice`), which stays on the link and does not reach the engine. A soft reset of QDX-A while a
  burst is with the QIC is only in `QdxCard`.

## 3. The runs

| run | question | bounds and why they are enough |
|---|---|---|
| `dma_engine` | the engine against every order of calls | 2 channels (one rebound while the other is in use), generations modulo 2 with 3 binds (the tag wraps), 12-byte address space and a base of 8 (the second word wraps), bursts of 1 and 2, limit 2 |
| `host_dma` | burst, grant and acknowledgements stay together; every epoch ends, a queued access is served | 1 slot used by the worker and by a card with a mapping; bursts of 2: a first beat that is not the last, and a last beat; limit 2; a card may strobe undriven words; `Edges = 2`, so that every clock is a step (section 4) |
| `host_arbitration` | rotation, grant gap, notifications | 3 cards (the least with a third party in rotation), a legal and an illegal register access, no mappings: every DMA is refused, the data path is `host_dma`'s |
| `memory_path` | the path implements the one-instant memory | 2 words, 2 byte lanes, aligned, misaligned and out-of-range addresses, several latencies and holdoffs, both kinds of reset |
| `host_memory` | no answer of an abandoned request is taken for another; acknowledged words are in memory | 2 words; limit 3: with the fast backend a word read reaches the card before the limit, and with the slow one requests are abandoned in the path |
| `host_card` | both ends of the bus agree | 1 card, both directions, bursts of 2, read and write accesses to different registers, a device that may stall, answer with an error or never, corrupted words, revocation and reset at any time; limit 5: a beat fits through card, controller and memory, and each wait can also run out on either side |
| `qdx_card` | commands, completions, accesses and notifications through QIC, link and queue engine | rings of 2 with positions modulo 4 (full and empty differ, and both wrap), commands and completions of 2 words (a first and a last word), register writes at any time: tails of 1 and 3 (one command, then two; a tail taken back; from one empty queue a tail that is refused), heads that take two completions at once, queue bases in two mappings, soft and bus resets, errors and bad parity in any phase, an offset window of 16 bytes that a queue wraps in; limit 8, the least `LimitSuffices` (section 5) allows. Register reads come only in `host_card` and in `word_delivered_twice`, and in the theorems |
| `qdx_b` | scatter/gather walk, staging and commit | 2 windows of 16 longwords; blocks of 3 (no legal burst fits exactly) and 6 words (a burst of 4 and two of 1); bursts of 1 and 4; lists of 2 with segments that end inside a burst, are too long, reach the end of a window, or are empty, which the engine refuses; one backend of each kind |
| `plio_tx` | any slots, and the card programs' | 2 halves (a torn word shows), one control image, legal and illegal responses, malformed tokens |
| `burst_left_behind`, `revoked_write_lands`, `word_delivered_twice` | where code and documents differ | section 6 |

`CHECK_DEADLOCK` is left on everywhere: a synchronous system always has a next clock.

The properties worth reading first:

* `BurstKeepsItsMapping`, `RevocationStopsTheBurst`, `StaleHandleRejected`,
  `CompletionIsExact` (`DmaHostM3`): what a capability promises. A stale handle is
  refused until its channel has been bound `GenMod` times more: the property says so,
  because after that the tag repeats.
* `DmaEpochOwnsBurst` and `AcksFollowMemory` (`HostCore`): the epoch on the bus, the burst in
  the engine, the beats the card saw and the words memory confirmed, which are four
  different counters in the code.
* `ImplementsService` (`MemoryController`): linearizability of the memory path, with strays.
* `SameBurst`, `CardOkIsHostOk`, `FailureIsShared`, `RequestHeldOnce`, `AccessHeldOnce` (`HostCard`):
  agreement of controller, QIC and device. `NoBurstOutsideEpoch`, which an arbitrary card can
  violate, holds with the real QIC (`HostCardNoBurst.cfg`), which never withdraws BR while an
  address is being answered.
* `DeliveryHasTaker`, `NoBurstTimesOut`, `PublishedIsWhole`, `AccessAppliedOnce`, `NotifiedOnce` (`QdxCard`): what
  the driver of a queued card can rely on although three blocks and two wires with their own
  handshakes lie between. The histories say where a promise ends. `DeliveryHasTaker`, `NoBurstTimesOut`,
  `AccessAppliedOnce` and `NotifiedOnce` promise nothing once the chip has been stopped in the middle of a
  command (a fault, or a write of the driver that disables or resets it), until the next reset of the bus
  (`seen.stopped`); the first two also nothing once the QIC repeats a word, the case `word_delivered_twice` shows
  (`seen.repeats`): no burst need have failed for that, and the repeated word does block the line and run the
  burst into the timeout. `CommandIsWhole`, `PublishedIsWhole` and `RoomForCompletion` have no such limit.
* `EveryEventIsProgress` (`QdxB`): a measure, `Left`, that every event of a burst lowers. With it the engine
  cannot walk its list for ever nor wait for anything but the present burst. That bursts end is the QIC's
  part and not claimed here: a line blocked by a repeated word, or a chip in FAULT, leaves the engine where it is.
* `WritesAreWhole`, `ReadsAreWhole`, `OnlyTheBuffer` (`QdxB`): stated over the whole buffer a command
  names, not over the engine's indices.
* `NoTornWord`, `CardIsTransparent` (`PlioTx`): the first for every sequence of slots, the
  second for those the card programs use.

Each property of a passing run has a mutant: a definition with a plausible bug (named
"Mutant" in the modules, placed before the definition it replaces) under which TLC finds
the property violated.

## 4. Fairness

* `HostCore!LiveSpec` has WF of the clock and of nothing else: the controller is
  synchronous logic and its clock does not stop. Software calls, resets and what cards and
  memory do are free, so `EpochEnds` holds for a card or a memory that is silent for ever.
  A clock that changes nothing must count as a step, otherwise weak fairness would make a
  card that repeats itself do something else: with `Edges = 2` the field `out.edge` is the
  level of the clock, and every clock changes it. The other runs check safety and use
  `Edges = 1`, which leaves it 0.
  `EpochEnds` and `WorkerServed` except one behaviour, a card that strobes undriven words in
  every clock from some time on (`AlwaysUndriven`), because the code does not end that one
  (section 6).
* `MemoryController!FairSpec` has WF of `Tick`, the backend's clock. Consuming an answer
  is not fair, nor is the absence of resets.
* `QdxB` has none. The engine moves when its burst does, and the code guarantees neither that a burst moves
  or fails (a repeated word blocks the line, section 6) nor that QDX-A takes a completion (in FAULT it does not).
  What the engine does promise is a safety property, `EveryEventIsProgress`.

## 5. The proofs

`DmaHostM3Proofs` proves, for every number of slots and channels, every address space,
mapping size, time limit and set of bursts that satisfy the assumptions in `DmaEngine`:

| theorem | states |
|---|---|
| `DmaInvariant` | `Spec => []DmaInv` |
| `TypeCorrect` | `Spec => []TypeOK` |
| `MappingKept` | `Spec => []BurstKeepsItsMapping` |
| `CompletionExact` | `Spec => []CompletionIsExact` |
| `RevocationStops` | `Spec => []RevocationStopsTheBurst` |
| `CompletionKept` | `Spec => NoCompletionLost`: a completion is never overwritten before it is taken |
| `TagsCount` | `Spec => []TagsCountBinds` |
| `StaleHandles` | `Spec => []StaleHandleRejected` |

The argument. None of the three safety properties is inductive. `CompletionIsExact` says
nothing of a burst beside an untaken completion, whose count the next beat would falsify;
`RevocationStopsTheBurst` allows a late access in a state from which another could begin.
`DmaInv` adds that a burst exists exactly outside Idle, never together with a completion, and
that a late access is only possible while the beat in hand is with memory or with the card.
There is one lemma per action; the ways a call can end a burst (`Abort`, `FinishOk`) or
carry it on (`BeatDone`) have lemmas of their own (`AbortFacts`, `FinishOkFacts`, `BeatDoneFacts`),
which `HostCoreProofs` states again for the engine inside the controller. TLC checks `DmaInv` with
`DmaHostM3Invariant.cfg` (`MCDmaHostM3`). The address
part of `BurstKeepsItsMapping` needs arithmetic modulo the address space
(`Division`, `StepOfRemainder`), because a beat advances a wrapped address by four.

`StaleHandleRejected` needs a second invariant, `TagsCountBinds`: the 4-bit tag in the
table is the one of the channel's last bind, and a burst's the one of the bind its handle came
from. Every step keeps it, and two binds less than `GenMod` apart with one tag are the
same bind (`SameRemainderNear`).

Assumed of the constants: sizes are positive, `GenMod` is at least 2, burst lengths are
positive, `None` is no word, burst or completion. `MaxBinds` bounds the history for TLC and
may be any number in the theorems.

`HostCoreProofs` proves every safety property of `HostCore`, for every number of slots, channels and
requests, every time limit, and cards and memory that do anything in any clock:

| theorem | states |
|---|---|
| `CoreInvariant` | `Spec => []CoreInv` |
| `CoreTypeCorrect` | `Spec => []TypeOK` |
| `EpochOwnsBurst` | `Spec => []DmaEpochOwnsBurst` |
| `AcksInStep` | `Spec => []AcksFollowMemory` |
| `OkEarned` | `Spec => OkIsEarned` |
| `RoundRobin` | `Spec => []RoundRobinBound` |
| `GrantBoundaryProved` | `Spec => GrantBoundary` |
| `NotificationKeptProved` | `Spec => NotificationKept` |

None of the invariants is inductive alone. `DmaEpochOwnsBurst` needs to know, when an address
is answered, that the burst `start` made in the clock before is still there, of this slot and
direction and untouched; and `AcksFollowMemory` that memory confirms nothing while an
acknowledgement is pending, and that a completion left in the engine counts what memory
confirmed. `CoreInv` says so in three parts. `EpochShape` is what the registers of an epoch hold
in each role. `BurstOfEpoch` ties the engine to the epoch, and does *not* say that no burst
exists outside one: the code leaves one behind (section 6), and the theorems hold all the same.
`Rotation` is the bound with its reason: a card overtaken n times is n slots nearer to its turn.
The engine's own part is `WellFormed` (of `DmaEngine`); the first lemmas (`AbortWell` to `StartWell`) show
for each method that it keeps it and either ends the burst (`Failed`, or Ok) or leaves the same burst (`KeepsBurst`), and the
clocks of the Dma role follow from that through one lemma, `OutcomeKeeps`. `OkIsEarned` is proved
together with the invariant, step by step (`OkStep`). `RoundRobinBound` further needs that arbitration
finds a nearest card, and `NotificationKept` that `Peek` finds a first notification: the least
element of a set of numbers (`LeastNumber`), by well-foundedness.

Assumed here beyond `DmaEngine`: the inputs are of their types (`CoreInputs`), and `None` is no slot,
channel, request or worker result (`NoneIsNoSlot`).

`HostSystemProofs` proves every property of `HostCard`: controller, QIC and device on one bus, for every time
limit, set of bursts, registers and requests, whatever the device does in any clock, with words
corrupted, mappings revoked and the bus reset at any time:

| theorem | states |
|---|---|
| `HostCardInvariant` | `HCSpec => [](CoreInv /\ HCInv)` |
| `OverBusIsController` | `HCSpec => Spec` |
| `SameBurstProved` | `HCSpec => []SameBurst` |
| `RequestHeldProved` | `HCSpec => []RequestHeldOnce` |
| `AccessHeldProved` | `HCSpec => []AccessHeldOnce` |
| `WordsInOrderProved` | `HCSpec => []WordsInOrder` |
| `CardOkProved` | `HCSpec => []CardOkIsHostOk` |
| `FailureSharedProved` | `HCSpec => FailureIsShared` |
| `NotifiedProved` | `HCSpec => NotifiedIsPending` |
| `AnswerProved` | `HCSpec => AnswerIsForTheAccess` |

None is inductive. Each end has its own time limit, and a burst can be over at one and go on at the other,
so the invariant cannot be that both are in the same state. `HCInv` has four parts. `CardInv` is about the card
alone: what each state of the QIC carries, that work is put aside only for a register access
and only one kind of it (`QicShape`), and that the device's burst is at the QIC's place in it, be that on
the bus, suspended or a tail (`CardBurst`). `HostWords` says that the word the controller has in hand is the
burst's next. `BusAgrees` says, by the role of the epoch, what the QIC may be doing then. It rests on two
facts: BG is low for a clock after every epoch, in which a QIC that still was on the bus gives up
(`LoseGrant`), so that no epoch meets the remains of another; and a word the controller has taken stays in the
QIC's buffer until it is acknowledged, even if the QIC has already failed the burst for its own
limit (`BurstAgrees`). `SuccessAgrees` says that a burst which has succeeded at the card is over at the
controller, and what the counts then are; it is what `CardOkIsHostOk` and `FailureIsShared` come from.

The proof goes by the QIC's state first (`IdleClock`, `RequestBusClock`, `DmaDataClock`, ..., joined in `CardKeeps`):
what one clock of the card does, given only what the controller says in it. Then by the controller's
actions, one lemma each (`StartWorkerCard` to `CardReadsWordCard`); most say neither ACK nor ERR, and share
`QuietBus` and `SilentBurstClock`. What the engine does to its words is proved once per method (`OfferWords`,
`BeatWords`, ...). `ClockCard` also shows that each of these is a `Clock` of `HostCore`: a card that
really is a QIC does nothing `HostCore` does not allow, hence `OverBusIsController`, and `HostCore`'s theorems hold on
this bus; `CoreInv` is used throughout. TLC checks `HCInv` with `HostCardInvariant.cfg` (`MCHostCard`).
Assumed further: the inputs are of their types (`CardInputs`), and `None` is no request, access,
answer or state (`NoneIsNoValue`). As in the run, there is one card, in slot 0, and a word is the parity of
its place in the burst.

`MemoryControllerProofs` proves, for every capacity, set of addresses, latency and holdoff, that
the memory path implements the memory that does each request at one instant:

| theorem | states |
|---|---|
| `PathInvariant` | `Spec => []PathInv` |
| `PathTypeCorrect` | `Spec => []TypeOK` |
| `ServiceImplemented` | `Spec => ImplementsService` |

The instant is the clock in which the backend's latency runs out: there the answer is the
service's `Reply` and the words become the service's `Store` (`AnswerIsReply`, `WordsAfterIsStore`,
from `InRangeIsServed`: the code divides and tests the remainder, the service asks for a
word). Every other clock is a stutter, an answer taken, or what a reset makes of a request: one not
yet performed is cancelled or goes on as a stray. The types do not suffice for this. A
step is one of the service's only if the request the backend executes for
the controller is the one the client waits for, and if the backend is never at work with an
earlier completion in hand; `PathInv` says both. Assumed: capacity, latencies and holdoffs,
addresses are numbers, and `Absent` is no request, answer or pending request.

`HostSystemProofs` also proves both properties of `HostMemory`, for every number of slots, size of memory,
latency and holdoff, and cards and software that do anything:

| theorem | states |
|---|---|
| `OverMemoryIsController` | `HMSpec => Spec` |
| `MemoryInvariant` | `HMSpec => [](CoreInv /\ HMInv)` |
| `OwnRequestProved` | `HMSpec => []AwaitsItsOwnRequest` |
| `ReadCurrentProved` | `HMSpec => []ReadDataIsCurrent` |
| `AcknowledgedProved` | `HMSpec => []AcknowledgedWritesAreInMemory` |

The path can hold the request of a burst the engine has given up, so neither property is inductive.
`HMInv` says why that does no harm: controller and backend hold one request, the same
(`OneRequest`: nothing is reset here, so nothing is left behind), and a new one is taken only when the
path is idle; what the engine awaits is its own request (`AwaitsItsOwnRequest`); and from an
answer to its use - a word waiting for the card, a confirmed write waiting for its
acknowledgement - the path stays idle (`QuietBeforeTheCard`), so no older write can come between. The
proof meets the two components at one point each: `ClockMoves` reduces every branch of `step` to six
`Moves` the memory can notice (nothing new, burst over, next word, request taken, word read,
word written), and `CyclePath` every cycle of the path to what it did to its request and its words.
`CoreInv` is needed throughout, and holds because every cycle is a `Clock` of `HostCore`. Assumed
further: words of the engine and of the path are the same and there is one, the address space is
a multiple of the word (`WholeWords`), both models call the absent value the same (`OneNone`), and it
is no request or answer (`NoneIsNoRequest`).

`PlioTxProofs` proves all four properties of `PlioTx` for every set of halves, control images and
responses; assumed is that there is a control image and that `None` is no half, image or response:

| theorem | states |
|---|---|
| `PlioTxInvariant` | `Spec => []PlioTxInv` |
| `NoTornWordProved` | `Spec => NoTornWord` |
| `ReadIsCoherentProved` | `Spec => []ReadIsCoherent` |
| `DriveAfterIdleProved` | `Spec => []DriveAfterIdle` |
| `CardIsTransparentProved` | `Spec => []CardIsTransparent` |

`PlioTxInv` has three parts. `LooksBack` ties what the transceiver remembers (a low half waiting,
half a word read, idle, driving) to the slot before; every slot keeps it, legal or not
(`CommitKeeps`), and the first three properties follow from it. `Stage` says where in its
slots a card is and what the transceiver has of the transfer by then: one disjunct per
slot, and `SendNext` and `ReadNext` carry each to the next. `Slots` writes the concatenations in
`ThroughTx` out. `CardIsTransparent` is the last disjunct, and is why `QdxCard` may leave the
transceiver out. The pins it speaks of are all the card sends: a control image, a word with one (addresses, data and
notifications of a bus owner), and a word without, which is how the QIC answers a register read (qic:149).

`QdxCardProofs` and `QdxCardAccessProofs` are about the queued card: QIC, QLI-16, QDX-A and the host end of the bench, for every
size of ring, command and completion, every limit, every set of driver accesses, waits and faults of the
host, and resets at any time:

| theorem | states |
|---|---|
| `RoomInvariant` | `Spec => []RoomInv` |
| `RoomProved` | `Spec => []RoomForCompletion` |
| `NotifyInvariant` | `Spec => []NotifyInv` |
| `NotifiedProved` | `Spec => NotifiedOnce` |
| `WholeInvariant` | `Spec => []WholeInv` |
| `CommandIsWholeProved` | `Spec => []CommandIsWhole` |
| `EntryAddressedInvariant` | `Spec => []EntryAddressed` |
| `PublishedIsWholeProved` | `Spec => PublishedIsWhole` |
| `AnswersInvariant` | `Spec => []AnswersInv` |
| `ServedInvariant` | `Spec => []ServedInv` |
| `DeliveryHasTakerProved` | `Spec => []DeliveryHasTaker` |
| `AccessInvariant` | `Spec => []AccessInv` |
| `AccessAppliedOnceProved` | `Spec => AccessAppliedOnce` |
| `TimelyInvariant` | `LimitSuffices`: `Spec => []TimelyInv` |
| `NoBurstTimesOutProved` | `LimitSuffices`: `Spec => []NoBurstTimesOut` |

`RoomForCompletion` is about the chip's four positions, which the driver moves whenever it likes, so
the argument is arithmetic modulo `Positions` (`UsedAfterHead`, `UsedAfterTail`, `AccessRoom`, `PublishedRoom`,
...: one lemma per method of the chip, joined in `AdvanceRoom`). It needs that a position written is a
position. The word comes from the driver over the bus, through the QIC and over the link, so `RoomInv` also says
that an access is legal wherever it has come to (`AccessesLegal`); and for every block what each of
its states can hold (`ShapeInv`), for which one lemma per block says what a clock of it makes of that (`CycleIs`,
`MovedIs`, `PeerClockIs`).

`NotifiedOnce` relates the two ends of a path of three blocks, each of which holds the
notification for a while. `OneNotification` says that it is in one place: asked for by the chip and on the
line, held by the link (and perhaps with the QIC, set aside for a register access or on the bus), or done and on
its way back; and that it is owed exactly until it is done. That the QIC gives up exactly when
the host has not acknowledged needs that both are in the same transaction, or that the card has left it and the
host follows in the next clock: `SameTransaction`. A soft reset or a fault leaves notification and chip apart
(section 6), so it is claimed only while the chip has not been stopped. `SlotIs` and `CycleIs` say which
messages a clock of the link can begin, move and end; `QicFree`, `QicAccessed` and `QicWorking` are the
ways the QIC's clock can go.

`WholeInv` follows the words of a command and of its completion through chip, link, QIC and host. `CommandIsWhole`
is about the last block of that path only, and none of the blocks knows the others' place in it: the chip
counts words it is given, the QIC words the host acknowledged, the link neither. So the invariant says what
joins them. The burst of the QIC is the one the chip waits for (`OwnBurst`), QIC and host are at
the same word of it (`PeersBurst`), the word on the link is the one the QIC holds (`WordsOnLink`), and
from that, the words of the chip, the one in the QIC and those still to come are the command (`CommandArrives`), as
those at the host, the one in the QIC and those still to leave are the completion (`CompletionLeaves`).
`Held` is what makes it independent of register accesses, which suspend a burst or its tail at any clock: the
work the QIC goes on with afterwards. The word that is delivered twice (section 6) does not break it,
since the second copy ends in a chip that has stopped. `PublishedIsWhole` also says where the completion went, and the
host knows the address of its latest burst only from the address phase. `EntryAddressed`, inductive on `NotifyInv` and
`WholeInv`, carries it from there: it is what the QIC's request asks for, and in `CqSend` and `CqCompletion` the entry
`CQ_TAIL` names, which nothing but the end of that burst moves.

The hard part is `RequestOnLink`. A chip that has been stopped in the middle of a request leaves it on the
link; would it ever be taken, a later command would get another one's words. It is not: the link sends in the
direction it has a message for, so a request that the QIC does not take bars every access that could put
the chip in service again. `Stuck` says when that is so and is kept by every clock (`BlockingIs`,
`RequestKept`). The chip's clock is taken apart once for all uses (`EngineClock`: it stays, asks, takes a word, gives
one, or ends a burst), so are the QIC's (`HoldMoves`) and the host's (`PeerBurst`); `Clocked` says
how a message crosses the link between them, and one lemma per part of `WholeInv` joins the three
(`ShapedKept`, `OwnKept`, `PeersKept`, `CommandKept`, `LeavesKept`, ...). No step of it uses the QIC's limit.

`DeliveryHasTaker` looks at the last step of a word or a completion only, and is not inductive: a word on the link
that has a taker now may have none later, and a completion may be overtaken. `Serving` says it of the whole
way, for a chip that has not been stopped and a QIC that repeats no word: every burst with the QIC, set aside ones included, is
the burst of a chip in one of the states that take part in one; a fetch that is not over has a chip that still
receives, and no word of it is set aside to be delivered again; a burst that succeeded has a chip that has moved its
last word; a request or a word to the QIC has the chip that sent it still behind it. The case that makes
it hard is the completion. The chip that waits for it leaves that state only through it, but its
completion may find the line taken: by a word the chip still has to take, or by the answer to an access
that the QIC has given up and no longer asks for. `Barred` names these two, and
they are the only ones under which a completion stays on the link. Both keep it there (`AnswerBlocks`), and
while either lasts nothing else can be begun, so no second burst meets the completion of the first. That the abandoned
answer is an answer at all, so that the line does not take it for none, is `AnswersInv`: what the chip answers
a read with comes from its registers, whose contents come from the driver. `InService` is the clock of such
a card, all blocks at once; `ServedKept` says that a chip stays in service, and one lemma per conjunct of
`Serving` the rest (`SucceededKept`, `SendersKept`, `ReceiverKept`, `BarredKept`), with `NewServing` for the
clock that puts the chip in service. No limit or wait of the host enters.

`AccessAppliedOnce` is about time. Host and QIC know the access by its place in the bus protocol; the link knows a
request only, and the chip accepts whatever request reaches it. `AccessShared` says that host and QIC have the
same access, which the chip has accepted exactly when the QIC waits for its answer. That needs that a request still on
the link is the one the QIC offers, and `RequestReaches` says why: either it arrives while the QIC
still offers it (`InTime`: the slots the link needs for it, `Ahead`, are at most the two for each clock the QIC still waits),
or it never arrives, since the chip has an answer it cannot get rid of or the line is barred by one, or by a word of a
burst that has failed (`Unreached`; a chip that is barred so stays so until it is stopped). In the
last clock of its limit at most two slots are ahead, the two of that clock: the request is delivered in it, so one that
is left when the QIC gives the access up is one the chip never sees. This needs a request that begins in time. `OfferedAtOnce` says that the QIC offers an access with no
clock waited and that the line is the QIC's or about to be, and `SendersWait` that the chip has at most one message
under way, of at most three tokens, whose sender still waits behind it; so the request begins within the first clocks
or is Unreached. `RequestSlot`, `OtherSlot`, `FreeSlot` and `BarredSlot` count one slot of the link,
`RequestCycle` the two of a clock, and `RequestReachesKept` joins them with the clock of the QIC. The four clocks of
`TimeoutAssumption` are what this count needs: a message of three tokens, the turn of the line and a request of four.
The property held at every limit from 1 to 8 when TLC checked it, so for limits of 1 to 3, which the argument
does not cover, it is only model-checked; the code has 256 (`PLIO_TIMEOUT_CYCLES`).

`NoBurstTimesOut` is about every wait of a burst: for the grant and the host's answers on the bus, and for each word on the
link. The count of `AccessInv` is not enough for it, since that allows a line that is barred; what is needed is
that nothing on the link ever waits for a receiver. `AccessInTime` says so: between the QIC and the chip there is
an access or a word and nothing else, an answer of the chip is owed exactly while the QIC waits for it, and twice
the clocks waited and the slots still needed (`Ahead`, `Behind`) stay within 8 for the request and within 14 for its answer. So
no access is given up (`NotGivenUp`), and none leaves an answer behind. `BurstInTime` then bounds the burst: while it waits for
the host, its wait and the host's remaining one together stay below the limit (`ForHost`); while it waits for the
link, a word is begun in the clock in which it can be, and is half over in the next (`HalfOnLink`). The two
need each other: a burst that runs out of time leaves a word on the line, and an access that does leaves an
answer there. One case is left out of both, and is why the invariant is a disjunction. A burst the host fails before its last
word has a chip that takes no completion (section 6), so no later access reaches the chip in time; but it ends as a
failure and not as a timeout, the QIC stays with it, and nothing of it is on the link, so that it never
becomes another burst (`FailedBurst`, `FailedStays`). `ForthMoves`, `BackMoves` and the lemmas after them follow a message that is
alone on the link through the slots of a clock, `AccessTimely` joins the access, and `BurstTimely` the states of
the burst, one lemma per phase.
`LimitSuffices` is at least 8 clocks, and 3 more than each wait of the host. The 8 are what the proof counts for an access; the code has
256. With less the property still holds at 5, 6 and 7 when TLC checks it with no wait, and not at 3 or 4. The 3 are exact: at limit 9 TLC
finds no violation with a wait of 6, and one with a wait of 7.

TLC checks `TypeOK`, `RoomInv`, `NotifyInv`, `WholeInv`, `EntryAddressed`, `ServedInv`, `AccessInv` and `TimelyInv` with `QdxCardInvariant.cfg` (`MCQdxCard`).

Assumed: sizes are positive, the ring divides the positions and is smaller (`QueueAssumption`: 4 and
2^16 in the code, which enables no other ring); a driver access names a register and what is written, and a
write of a position is one (`DriverAssumption`: registers and positions are 16 bits wide in the code, which takes
the low half of the word); the host's waits are numbers (`PeerAssumption`); the QIC waits at least 4 clocks
(`TimeoutAssumption`, used by `AccessInv` and `TimelyInv` only); and `None` is no access, answer, word, direction, fault, stage or request of a
burst or message on the link (`NoneIsNoValue`).
What a queue base, a handle and a queue size may be (`Bases`, `Handles`, `Sizes`) is read off the accesses the driver
makes, so `Legal` asks nothing of it that a driver could break but the 16 bits of a position.

`QdxBProofs` is about the block engine, for every block size, list length, set of burst lengths and of
commands, and any contents of memory, so any scatter/gather list:

| theorem | states |
|---|---|
| `QdxBInvariant` | `Spec => []QdxBInv` |
| `QdxBTypeCorrect` | `Spec => []TypeOK` |
| `BurstInWindowProved` | `Spec => []BurstInWindow` |
| `BurstInTransferProved` | `Spec => []BurstInTransfer` |
| `QdxBWholeInvariant` | `Spec => []WholeInv` |
| `WritesAreWholeProved` | `Spec => WritesAreWhole` |
| `ReadsAreWholeProved` | `SoftwareKeepsApart`: `Spec => []ReadsAreWhole` |
| `OnlyTheBufferProved` | `SoftwareKeepsApart`: `Spec => OnlyTheBuffer` |
| `EveryEventIsProgressProved` | `Spec => EveryEventIsProgress` |

`handle_add` adds without a check, so that no burst carries into the bits that name the mapping rests on
what was validated clocks before: the buffer or the list when the command was accepted, each
segment when the list was complete. `QdxBInv` carries that to the burst. `ListBurst` says which
word of the list is being fetched; `Underway` that the words to move are the transfer's and that
the list in the engine is still the valid one; `PayloadBurst` that the burst is cut from the buffer, or
from the present segment, at the place the counters say. One lemma per method shows that it ends in a state of
that kind (`StartPayloadIs`, `StartOperationIs`, `BurstDoneIs`, ...), and `BurstFits` and `StaysInRange` do
the arithmetic. `QdxBTypeCorrect` needs besides that no transfer is empty (`PayloadNotCommitted`): otherwise
an accepted write would be committed without a word. TLC checks `QdxBInv` with `QdxBInvariant.cfg` (`MCQdxB`).
Assumed: blocks and reports fit the staging buffer, which is smaller than a window (256 words and
2^24 bytes), and `None` is no command, burst or completion.

The payload's own invariant is `WholeInv`. `QdxBInv` says that a burst is cut from the present segment; that the
burst is the *right* one needs a relation between three things the engine keeps apart. `ListFetched` says that
the words of the list fetched so far are those in memory; `Placed` that segment and offset are the place in
that list of payload word `index`; `Delivered` that the words moved so far are the same in the
staging buffer and in the command's buffer and, for a read, in the block. `Placed` is an equation about
`WordsBefore`, a recursive function that sums up segments. What it computes is proved by the least
counterexample (`CountsExist`, `WordsBeforeCounts`, `CountsGrow`, over `LeastNumber`): no library
theorem with an operator parameter is used. `BurstPlace` then turns a word of a burst into a word of the buffer,
`NextSegmentPlaced` shows that leaving a finished segment keeps the place, `ListWordWhole`,
`PayloadWordWhole` and `DeliveredWordWhole` do the three kinds of word, `BurstDoneWhole` what follows a burst.
`WritesAreWhole` is the commit seen through `Delivered` (`CommitWritesTheBlock`, `StepWritesWhole`).

A write needs no assumption: the engine only reads memory. A read fills the buffer while the list that says
where the buffer is still lies in memory, and the engine does not ask whether the two, or two segments, overlap:
two segments that do leave the later word of the payload in both, and a list that is written over names another
buffer from then on. `SoftwareKeepsApart` leaves that to software, for the images and commands a reader
chooses; every command of `MCQdxB` that reads meets it (`MCSoftwareKeepsApart`, which TLC
evaluates in every run of that module), among them reads over two segments that cut a burst.
`WholeInv` is in `QdxBInvariant.cfg` too.

`EveryEventIsProgress` is the engine's part of "every command is completed". `Left` counts three events for each word of the
list and the payload that is still to come, less those the present burst has had; `QdxBInv` has what bounds them
(`LeftIs`), and one lemma per method says what follows a burst that is done: the next word of the list, the
next words of the buffer, or the end (`PayloadGoesOn`, `OperationGoesOn`, `BurstDoneGoesOn`). It needs no fairness and no assumption
about the list.

Only model-checked: `TypeOK` of `QdxCard`, of which the proofs use what they need (`ShapeInv`, `AnswersInv`).
Liveness (`EpochEnds`, `WorkerServed`, `EveryRequestServed`) stays with TLC: the
prover has no support for ENABLED.

## 6. Where code and documents differ

Three are runs that TLC finds violated; PROJECT.json quotes the lines.

1. `burst_left_behind`: BR dropped between the DMA address strobe and its answer ends
   the epoch and leaves the engine started (m4:124). Every later DMA is refused until reset.
2. `revoked_write_lands`: revocation is reported complete while the write of an
   abandoned burst is still in the memory path. `RevokedMemoryIsQuiet` is a property of steps: the last
   one of TLC's trace changes a word behind the revoked mapping.
3. `word_delivered_twice`: a register access that begins in the clock in which the device takes
   the last word of a fetch suspends the QIC with the word still in its buffer (qic:276). It is
   offered again when the chip waits for the completion, and blocks the line.

These have a configuration of their own, with which TLC finds the named property violated:

| configuration (module) | property | what the document says, and what the code does |
|---|---|---|
| `HostCoreReset.cfg` (`MCHostCore`) | `ResetInvalidatesMappings` | `specs/PLIO.md:529`; reset leaves capabilities valid (m4:114) |
| `HostCardStaleErr.cfg` (`MCHostCard`) | `ValidAddressAcked` | `hardware/qic/RUST-AUDIT.md:63`; controller and QIC time the same access out separately, and the QIC's ERR refuses the next one (qic:136) |
| `HostCardLateAck.cfg` (`MCHostCard`) | `FailedBurstIsCounted` | `hardware/qli/SPEC.md:189`; an ACK in the clock in which the QIC's limit runs out is not counted (qic:432) |
| `QdxCardReset.cfg` (`MCQdxCard`) | `ResetReturnsToDisabled` | `hardware/qdx-a/SPEC.md:203`; the soft reset, the way out of FAULT, is an access behind a line that a word without a taker blocks (qdx-a:359) |
| `QdxBDurable.cfg` (`MCQdxB`) | `DurableIsSynced` | `specs/QDX-B.md:420`; a durable write completes without the `sync_data` that only FLUSH performs (qdx-b:713) |

Met while modelling and not made properties:

* A word strobed without AD or PAR sets a fault and does not advance the wait counter
  (m4:139); a card that repeats it holds the bus, against `specs/PLIO.md:514`. `EpochEnds` says
  that nothing else does.
* A card that drops BR in the clock of its last acknowledgement gets a completion of Ok it has
  not seen acknowledged (m4:136); `OkIsEarned` allows exactly this beat.
* A disabled notification is acknowledged and becomes pending (m4:134), see `specs/PLIO.md`
  on disabled sources; the model follows the code.
* A soft reset or a fault of QDX-A while it waits in Notify leaves its notification held by the
  link, and the QIC repeats it until the bus is reset.
* A burst that fails in the middle never ends for QDX-A: in SqReceive and CqSend it takes no
  completion. Only a reset gets it out; `DeliveryHasTaker` claims nothing of the completion of a failed burst.
* After a reset of the memory controller alone the backend keeps the completion of the request it had, and is
  never ready again until it is reset too. `EveryRequestServed` excepts the requests behind it.
* The driver may take SQ_TAIL back, so that SQ_HEAD passes it and a whole ring of old commands
  is fetched.
* A block device that is read-only answers a write with MEDIA_ERROR after the whole payload,
  never with WRITE_PROTECTED, which no line of qdx-b sets.

## 7. Not modelled, and why

* m2: an earlier stage of m4, which repeats it. PLIO-E: no code. The Python simulator has
  no clock and no concurrency. Trace, harnesses, conformance programs: test code, except
  `host_cycle`, `step` and `physical_cycle`, which define the three compositions.
* The bits of tokens, parity, byte-enable legality and the register contents of cards: pure
  functions, abstracted to "valid" and "good".
* `qdx-b-card`: it adds to `qdx-a-card` the merging of two DMA ports (`merge_profile_dma`). QDX-A
  with QDX-B behind it has more states than TLC finishes; each is checked against what the other
  promises.
* The Bluespec controller, memory path and mainboard: rules under a compiler's schedule, which
  would need a model of that schedule; the Rust twins are cycle for cycle what is modelled.

## 8. Plan

Done: `DmaEngine`, `DmaHostM3` and its proofs; `HostCore` and its proofs; `MemoryPath`, `MemoryService`,
`MemoryController` and its proofs; `HostMemory` and its proofs; `Qic`, `QliDevice`, `HostCard` and its proofs; `QliLink`, `QdxA`, `TestPeer`,
`QdxCard` and the proofs of room, notifications, commands, completions, deliveries, register accesses and time limits; `QdxB` and its proofs; `PlioTx` and its proofs.

Left, in this order:

1. The Bluespec controller where it differs from m4 (reset, and a revoke or bind
   between the check of the address and its acknowledgement), as a refinement of the
   part of `HostCore` both share.
2. Liveness of the queued card: a submitted command is completed, or the chip reports an
   error, on a bus that fails no burst, with a QIC that repeats no word.
3. The mainboard: CPU and PLIO sharing block RAM.
4. The token bits of QLI-16 and PTI, as operators checked against a reference.
