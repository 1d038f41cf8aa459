---------------------------------- MODULE QdxA ----------------------------------
(***************************************************************************)
(* The queue adapter of a card (hardware/qdx-a/rust): behind QLI it fetches *)
(* commands from a submission queue in host memory, hands them one at a    *)
(* time to the endpoint, and publishes completions in a completion queue.  *)
(*                                                                         *)
(* The chip is a value.  QdxA::qic_port is QicPort, endpoint_port is       *)
(* EndpointPort and advance is Advance, functions of it and of             *)
(*   qli       [reset, cancel, responseReady, dmaReady, writeReady,        *)
(*              notified : BOOLEAN, mmio, read, completion : or None]      *)
(*   endpoint  [commandReady : BOOLEAN, completion : or None]              *)
(*                                                                         *)
(* A register access is [register : [name, value], write]; an unknown      *)
(* address or wrong byte enables is the name "Unmapped".  A value written  *)
(* to Control is the set of its bits.  A queue base, and a DMA handle, is  *)
(* [binding, offset]: address bits 31:24 and 23:0.  Words are opaque; None *)
(* is the zero of a cleared buffer.                                        *)
(***************************************************************************)
EXTENDS Integers

CONSTANTS
  Ring,        \* entries of a queue (4 in the code)
  Positions,   \* what queue positions count modulo (2^16 in the code)
  SqWords,     \* words of a command (8 in the code)
  CqWords,     \* words of a completion (4 in the code)
  Window,      \* bytes an offset can address (2^24 in the code)
  None         \* the absent Option

ASSUME QueueAssumption ==
  /\ {Ring, Positions, SqWords, CqWords, Window} \subseteq Nat \ {0}
  /\ Ring < Positions /\ Positions % Ring = 0
  /\ CqWords <= SqWords
  /\ \A n \in 0..Positions : None # n

WordSize == 4

NoBase == [binding |-> 0, offset |-> 0]

NewQdx ==
  [state |-> "Disabled", error |-> None, enabled |-> FALSE, notify |-> FALSE,
   sqBase |-> NoBase, sqSize |-> 0, sqHead |-> 0, sqTail |-> 0,
   cqBase |-> NoBase, cqSize |-> 0, cqHead |-> 0, cqTail |-> 0,
   response |-> None,
   command |-> [i \in 0..SqWords - 1 |-> None], completion |-> [i \in 0..CqWords - 1 |-> None],
   sqWord |-> 0, cqWord |-> 0, resetPulse |-> FALSE]

HardReset == [NewQdx EXCEPT !.resetPulse = TRUE]

ReadyState(state) == state \notin {"Disabled", "Fault"}

-----------------------------------------------------------------------------
(* Queue positions and entries.                                             *)

\* u16::wrapping_sub and wrapping_add.
Minus(a, b) == (a - b) % Positions
Plus1(a)    == (a + 1) % Positions

CqUsed(d) == Minus(d.cqTail, d.cqHead)

Entry(base, position, words) ==
  [base EXCEPT !.offset = (@ + (position % Ring) * words * WordSize) % Window]

RingFits(base, words) ==
  /\ base.offset % (words * WordSize) = 0
  /\ base.offset + Ring * words * WordSize <= Window

ValidConfiguration(d) ==
  /\ d.sqSize = Ring /\ RingFits(d.sqBase, SqWords)
  /\ d.cqSize = Ring /\ RingFits(d.cqBase, CqWords)

-----------------------------------------------------------------------------
(* What the chip drives.                                                    *)

\* Mutant: the command is read from the entry SQ_TAIL names.
DmaRequestAtTail(d) ==
  CASE d.state = "SqRequest" ->
         [direction |-> "HostToDevice", handle |-> Entry(d.sqBase, d.sqTail, SqWords),
          words |-> SqWords]
    [] d.state = "CqRequest" ->
         [direction |-> "DeviceToHost", handle |-> Entry(d.cqBase, d.cqTail, CqWords),
          words |-> CqWords]
    [] OTHER -> None

\* Mutant: the completion is written to the entry CQ_HEAD names.
DmaRequestAtHead(d) ==
  CASE d.state = "SqRequest" ->
         [direction |-> "HostToDevice", handle |-> Entry(d.sqBase, d.sqHead, SqWords),
          words |-> SqWords]
    [] d.state = "CqRequest" ->
         [direction |-> "DeviceToHost", handle |-> Entry(d.cqBase, d.cqHead, CqWords),
          words |-> CqWords]
    [] OTHER -> None

DmaRequest(d) ==
  CASE d.state = "SqRequest" ->
         [direction |-> "HostToDevice", handle |-> Entry(d.sqBase, d.sqHead, SqWords),
          words |-> SqWords]
    [] d.state = "CqRequest" ->
         [direction |-> "DeviceToHost", handle |-> Entry(d.cqBase, d.cqTail, CqWords),
          words |-> CqWords]
    [] OTHER -> None

QicPort(d) ==
  [mmioReady       |-> d.response = None,
   response        |-> d.response,
   dma             |-> DmaRequest(d),
   readReady       |-> d.state = "SqReceive",
   write           |-> IF d.state = "CqSend" THEN d.completion[d.cqWord] ELSE None,
   completionReady |-> d.state \in {"SqCompletion", "CqCompletion"},
   notification    |-> IF d.state = "Notify" THEN 0 ELSE None]

EndpointPort(d, reset) ==
  [reset           |-> reset \/ d.resetPulse,
   command         |-> IF d.state = "EndpointOffer" THEN d.command ELSE None,
   completionReady |-> d.state = "EndpointCompletion" /\ CqUsed(d) < Ring]

-----------------------------------------------------------------------------
(* Register accesses.                                                       *)

ReadOk(value) == [kind |-> "ReadOk", data |-> value]
WriteOk       == [kind |-> "WriteOk", data |-> None]
Refused       == [kind |-> "Error", data |-> None]

Status(state) == CASE state = "Disabled" -> 0 [] state = "Fault" -> 2 [] OTHER -> 1

ReadAccess(d, name) ==
  CASE name = "Cap"     -> ReadOk("Cap")
    [] name = "Status"  -> ReadOk(Status(d.state))
    [] name = "Control" -> ReadOk({bit \in {"Enable", "Notify"} :
                                     IF bit = "Enable" THEN d.enabled ELSE d.notify})
    [] name = "SqBase"  -> ReadOk(d.sqBase)
    [] name = "SqSize"  -> ReadOk(d.sqSize)
    [] name = "SqTail"  -> ReadOk(d.sqTail)
    [] name = "CqBase"  -> ReadOk(d.cqBase)
    [] name = "CqSize"  -> ReadOk(d.cqSize)
    [] name = "CqHead"  -> ReadOk(d.cqHead)
    [] name = "SqHead"  -> ReadOk(d.sqHead)
    [] name = "CqTail"  -> ReadOk(d.cqTail)
    [] name = "Error"   -> ReadOk(d.error)
    [] OTHER            -> Refused

Accepted(d) == [d EXCEPT !.response = WriteOk]
Refuse(d)   == [d EXCEPT !.response = Refused]

\* A queue movement that is refused also stops the engine.
RefuseMovement(d) ==
  [d EXCEPT !.response = Refused, !.error = "QueueProtocol", !.state = "Fault"]

WriteControl(d, bits) ==
  LET enable == "Enable" \in bits
      set    == [Accepted(d) EXCEPT !.notify = "Notify" \in bits, !.enabled = enable] IN
  IF ~enable THEN set
  ELSE IF ValidConfiguration(d) THEN [set EXCEPT !.error = None, !.state = "ReadyIdle"]
  ELSE [set EXCEPT !.error = "BadConfig", !.state = "Fault"]

Configure(d, name, value) ==
  CASE name = "Control" -> WriteControl(d, value)
    [] name = "SqBase"  -> [Accepted(d) EXCEPT !.sqBase = value]
    [] name = "SqSize"  -> [Accepted(d) EXCEPT !.sqSize = value]
    [] name = "CqBase"  -> [Accepted(d) EXCEPT !.cqBase = value]
    [] name = "CqSize"  -> [Accepted(d) EXCEPT !.cqSize = value]
    [] OTHER            -> Refuse(d)

MoveQueue(d, name, position) ==
  CASE name = "SqTail" -> IF Minus(position, d.sqHead) <= Ring
                          THEN [Accepted(d) EXCEPT !.sqTail = position] ELSE RefuseMovement(d)
    [] name = "CqHead" -> IF Minus(position, d.cqHead) <= CqUsed(d)
                          THEN [Accepted(d) EXCEPT !.cqHead = position] ELSE RefuseMovement(d)
    [] OTHER           -> Refuse(d)

WriteAccess(d, name, value) ==
  IF d.state = "Disabled" THEN Configure(d, name, value)
  ELSE IF ReadyState(d.state) THEN MoveQueue(d, name, value)
  ELSE Refuse(d)

AcceptMmio(d, access) ==
  IF access.write THEN WriteAccess(d, access.register.name, access.register.value)
  ELSE [d EXCEPT !.response = ReadAccess(d, access.register.name)]

-----------------------------------------------------------------------------
(* The queue engine.                                                        *)

SqFetched(d, completion) ==
  IF completion.status = "Ok" /\ completion.completed = SqWords
  THEN [d EXCEPT !.sqHead = Plus1(@), !.state = "EndpointOffer"]
  ELSE [d EXCEPT !.error = "SqDma", !.state = "Fault"]

CqPublished(d, completion) ==
  IF completion.status = "Ok" /\ completion.completed = CqWords
  THEN [d EXCEPT !.cqTail = Plus1(@),
                 !.state  = IF CqUsed(d) = 0 /\ d.notify THEN "Notify" ELSE "ReadyIdle"]
  ELSE [d EXCEPT !.error = "CqDma", !.state = "Fault"]

ReceiveWord(d, word) ==
  [d EXCEPT !.command[d.sqWord] = word,
            !.state  = IF d.sqWord = SqWords - 1 THEN "SqCompletion" ELSE @,
            !.sqWord = IF d.sqWord = SqWords - 1 THEN @ ELSE @ + 1]

WordSent(d) ==
  [d EXCEPT !.state  = IF d.cqWord = CqWords - 1 THEN "CqCompletion" ELSE @,
            !.cqWord = IF d.cqWord = CqWords - 1 THEN @ ELSE @ + 1]

\* Mutant: a command is fetched whether or not its completion will have a place.
ProgressWithoutRoom(d, qli, endpoint) ==
  IF d.state = "ReadyIdle" /\ d.sqHead # d.sqTail
  THEN [d EXCEPT !.state = "SqRequest", !.sqWord = 0]
  ELSE IF d.state = "EndpointCompletion" /\ endpoint.completion # None
  THEN [d EXCEPT !.completion = endpoint.completion, !.cqWord = 0, !.state = "CqRequest"]
  ELSE IF d.state = "SqRequest" /\ qli.dmaReady THEN [d EXCEPT !.sqWord = 0, !.state = "SqReceive"]
  ELSE IF d.state = "SqReceive" /\ qli.read # None THEN ReceiveWord(d, qli.read)
  ELSE IF d.state = "SqCompletion" /\ qli.completion # None THEN SqFetched(d, qli.completion)
  ELSE IF d.state = "EndpointOffer" /\ endpoint.commandReady
  THEN [d EXCEPT !.state = "EndpointCompletion"]
  ELSE IF d.state = "CqRequest" /\ qli.dmaReady THEN [d EXCEPT !.cqWord = 0, !.state = "CqSend"]
  ELSE IF d.state = "CqSend" /\ qli.writeReady THEN WordSent(d)
  ELSE IF d.state = "CqCompletion" /\ qli.completion # None THEN CqPublished(d, qli.completion)
  ELSE IF d.state = "Notify" /\ qli.notified THEN [d EXCEPT !.state = "ReadyIdle"]
  ELSE d

\* The state match of advance.
Progress(d, qli, endpoint) ==
  CASE d.state = "ReadyIdle" /\ d.sqHead # d.sqTail /\ CqUsed(d) < Ring ->
         [d EXCEPT !.state = "SqRequest", !.sqWord = 0]
    [] d.state = "SqRequest" /\ qli.dmaReady -> [d EXCEPT !.state = "SqReceive", !.sqWord = 0]
    [] d.state = "SqReceive" /\ qli.read # None -> ReceiveWord(d, qli.read)
    [] d.state = "SqCompletion" /\ qli.completion # None -> SqFetched(d, qli.completion)
    [] d.state = "EndpointOffer" /\ endpoint.commandReady ->
         [d EXCEPT !.state = "EndpointCompletion"]
    [] d.state = "EndpointCompletion" /\ endpoint.completion # None /\ CqUsed(d) < Ring ->
         [d EXCEPT !.state = "CqRequest", !.completion = endpoint.completion, !.cqWord = 0]
    [] d.state = "CqRequest" /\ qli.dmaReady -> [d EXCEPT !.state = "CqSend", !.cqWord = 0]
    [] d.state = "CqSend" /\ qli.writeReady -> WordSent(d)
    [] d.state = "CqCompletion" /\ qli.completion # None -> CqPublished(d, qli.completion)
    [] d.state = "Notify" /\ qli.notified -> [d EXCEPT !.state = "ReadyIdle"]
    [] OTHER -> d

\* What the link or the endpoint has handed over in this clock, and would not repeat.
LinkEvent(d, qli, endpoint) ==
  \/ d.state \in {"SqRequest", "CqRequest"} /\ qli.dmaReady
  \/ d.state = "SqReceive" /\ qli.read # None
  \/ d.state = "CqSend" /\ qli.writeReady
  \/ d.state \in {"SqCompletion", "CqCompletion"} /\ qli.completion # None
  \/ d.state = "Notify" /\ qli.notified
  \/ d.state = "EndpointOffer" /\ endpoint.commandReady
  \/ d.state = "EndpointCompletion" /\ endpoint.completion # None /\ CqUsed(d) < Ring

AcceptsMmio(d, qli) == d.response = None /\ qli.mmio # None

SoftReset(d, qli) ==
  /\ AcceptsMmio(d, qli)
  /\ qli.mmio.write /\ qli.mmio.register.name = "Control"
  /\ "Reset" \in qli.mmio.register.value

\* The register side, which comes first.
AfterMmio(d, qli) ==
  IF d.response # None
  THEN IF qli.responseReady \/ qli.cancel THEN [d EXCEPT !.response = None] ELSE d
  ELSE IF AcceptsMmio(d, qli) THEN AcceptMmio(d, qli.mmio) ELSE d

\* Mutant: a register access stops the engine for a clock, whatever the link has handed over.
AdvanceMmioFirst(d, qli, endpoint) ==
  LET m == AfterMmio([d EXCEPT !.resetPulse = FALSE], qli) IN
  IF qli.reset THEN HardReset
  ELSE IF SoftReset(d, qli) THEN Accepted(HardReset)
  ELSE IF m.state # d.state \/ d.response # None \/ AcceptsMmio(d, qli) THEN m
  ELSE Progress(m, qli, endpoint)

Advance(d, qli, endpoint) ==
  LET m == AfterMmio([d EXCEPT !.resetPulse = FALSE], qli)
      busy == d.response # None \/ AcceptsMmio(d, qli) IN
  IF qli.reset THEN HardReset
  ELSE IF SoftReset(d, qli) THEN Accepted(HardReset)
  ELSE IF m.state # d.state \/ (busy /\ ~LinkEvent(d, qli, endpoint)) THEN m
  ELSE Progress(m, qli, endpoint)
=============================================================================
