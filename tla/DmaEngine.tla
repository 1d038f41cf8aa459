------------------------------ MODULE DmaEngine ------------------------------
(***************************************************************************)
(* The host DMA engine (hardware/plio-rax-host/m3-rust): the capability    *)
(* table of every (slot, channel) and the one burst that may be in flight. *)
(*                                                                         *)
(* The engine is a value, the record                                       *)
(*     [caps, state, active, completion]                                   *)
(* and each method of DmaHostM3 is an operator from engine to engine, so   *)
(* that DmaHostM3 (the engine on its own) and HostCore (the engine as a    *)
(* part of the controller, which calls several methods in one clock) use   *)
(* the same definitions.  Addresses, lengths and offsets are byte counts.  *)
(* A DMA handle is the record [channel, generation, offset] the 32-bit     *)
(* word {channel[31:28], generation[27:24], offset[23:0]} stands for.      *)
(***************************************************************************)
EXTENDS Naturals

CONSTANTS
  NSlots,      \* number of slots (8 in the code)
  NChannels,   \* DMA channels per slot (16 in the code)
  GenMod,      \* generations before the tag wraps (16 in the code)
  AddrSpace,   \* host physical addresses, in bytes (2^32 in the code)
  MaxMapping,  \* longest mapping, in bytes (2^24 in the code)
  Bursts,      \* legal burst lengths, in words ({1, 4, 8, 16} in the code)
  Timeout,     \* PLIO_TIMEOUT_CYCLES (256 in the code)
  Words,       \* data words
  None         \* the absent Option

Slots       == 0 .. NSlots - 1
Channels    == 0 .. NChannels - 1
Generations == 0 .. GenMod - 1
Directions  == {"DeviceRead", "DeviceWrite"}
DmaStates   == {"Idle", "AwaitDeviceWrite", "MemRequest", "MemResponse", "DeviceReadReady"}
DmaErrors   == {"MemoryFault", "Parity", "Timeout", "Reset", "Revoked"}
WordBytes   == 4

Capability == [base : Nat, length : Nat, deviceRead : BOOLEAN, deviceWrite : BOOLEAN,
               generation : Generations, valid : BOOLEAN]

Burst == [slot : Slots, channel : Channels, generation : Generations, direction : Directions,
          address : Nat, total : Nat, acknowledged : Nat, pendingWrite : Words \cup {None},
          readData : Words \cup {None}, wait : Nat, revokePending : BOOLEAN]

\* take_completion() hands out Ok(beats) or Err(error); an error carries no beats.
Completion == [result : {"Ok"} \cup DmaErrors, beats : Nat]

Engine == [caps : [Slots \X Channels -> Capability], state : DmaStates,
           active : Burst \cup {None}, completion : Completion \cup {None}]

MemoryResponses == [kind : {"ReadData"}, value : Words]
                     \cup [kind : {"WriteDone", "Fault"}, value : {None}]

ASSUME DmaConstants ==
  /\ NSlots \in Nat \ {0} /\ NChannels \in Nat \ {0}
  /\ GenMod \in Nat /\ GenMod > 1
  /\ AddrSpace \in Nat \ {0} /\ MaxMapping \in Nat \ {0}
  /\ Bursts \subseteq Nat \ {0}
  /\ Timeout \in Nat \ {0}
ASSUME NoneIsFresh ==
  None \notin Words /\ None \notin Burst /\ None \notin Completion

-----------------------------------------------------------------------------
(* The capability table.                                                    *)

UnboundCapability == [base |-> 0, length |-> 0, deviceRead |-> FALSE, deviceWrite |-> FALSE,
                      generation |-> GenMod - 1, valid |-> FALSE]

NewEngine == [caps |-> [sc \in Slots \X Channels |-> UnboundCapability],
              state |-> "Idle", active |-> None, completion |-> None]

NextGeneration(g) == IF g = GenMod - 1 THEN 0 ELSE g + 1

ActiveMatches(d, s, c) == d.active # None /\ d.active.slot = s /\ d.active.channel = c

\* Mutant: bind() without its interlock.
BindUnderBurst(d, s, c, base, length) == length \in 1 .. MaxMapping /\ base % WordBytes = 0

BindAllowed(d, s, c, base, length) ==
  /\ length \in 1 .. MaxMapping
  /\ base % WordBytes = 0
  /\ ~ActiveMatches(d, s, c)

Bind(d, s, c, base, length, r, w) ==
  [d EXCEPT !.caps[<<s, c>>] =
     [base |-> base, length |-> length, deviceRead |-> r, deviceWrite |-> w,
      generation |-> NextGeneration(@.generation), valid |-> TRUE]]

\* Revocation of the mapping a burst is using is only requested; the burst ends it.
Revoke(d, s, c) ==
  [d EXCEPT !.caps[<<s, c>>].valid = FALSE,
            !.active = IF ActiveMatches(d, s, c) THEN [@ EXCEPT !.revokePending = TRUE] ELSE @]

\* The value revoke() returns: no burst uses the mapping any more.
RevokeComplete(d, s, c) == ~ActiveMatches(d, s, c)

-----------------------------------------------------------------------------
(* The burst.                                                               *)

Permits(cap, dir) == IF dir = "DeviceRead" THEN cap.deviceRead ELSE cap.deviceWrite

Busy(d) == d.active # None \/ d.completion # None

\* Mutant: start() without the generation check.
StartWithStaleHandle(d, s, handle, words, dir) ==
  LET cap == d.caps[<<s, handle.channel>>] IN
  /\ ~Busy(d) /\ words \in Bursts /\ handle.offset % WordBytes = 0
  /\ cap.valid /\ Permits(cap, dir)
  /\ handle.offset + WordBytes * words <= cap.length
  /\ cap.base + handle.offset < AddrSpace

StartAllowed(d, s, handle, words, dir) ==
  LET cap == d.caps[<<s, handle.channel>>] IN
  /\ ~Busy(d)
  /\ words \in Bursts
  /\ handle.offset % WordBytes = 0
  /\ cap.valid
  /\ cap.generation = handle.generation
  /\ Permits(cap, dir)
  /\ handle.offset + WordBytes * words <= cap.length
  /\ cap.base + handle.offset < AddrSpace

Start(d, s, handle, words, dir) ==
  [d EXCEPT
     !.active = [slot |-> s, channel |-> handle.channel, generation |-> handle.generation,
                 direction |-> dir,
                 address |-> d.caps[<<s, handle.channel>>].base + handle.offset,
                 total |-> words, acknowledged |-> 0, pendingWrite |-> None,
                 readData |-> None, wait |-> 0, revokePending |-> FALSE],
     !.state = IF dir = "DeviceRead" THEN "MemRequest" ELSE "AwaitDeviceWrite"]

FinishOk(d, beats) ==
  [d EXCEPT !.completion = [result |-> "Ok", beats |-> beats], !.active = None, !.state = "Idle"]

Abort(d, error) ==
  [d EXCEPT !.completion = [result |-> error, beats |-> 0], !.active = None, !.state = "Idle"]

\* Mutant: a beat ends without looking at revoke_pending.
BeatIgnoresRevocation(d, next) ==
  LET a == [d.active EXCEPT !.acknowledged = @ + 1, !.pendingWrite = None, !.readData = None,
                            !.wait = 0, !.address = (@ + WordBytes) % AddrSpace]
  IN  IF a.acknowledged = a.total THEN FinishOk(d, a.acknowledged)
      ELSE [d EXCEPT !.active = a, !.state = next]

\* Mutant: the burst ends one beat early.
BeatEndsEarly(d, next) ==
  LET a == [d.active EXCEPT !.acknowledged = @ + 1, !.pendingWrite = None, !.readData = None,
                            !.wait = 0, !.address = (@ + WordBytes) % AddrSpace]
  IN  IF a.revokePending THEN Abort(d, "Revoked")
      ELSE IF a.acknowledged + 1 >= a.total THEN FinishOk(d, a.total)
      ELSE [d EXCEPT !.active = a, !.state = next]

\* The beat in hand is done: the counter and the address move on, then the burst
\* is revoked, complete, or continues in state "next".
BeatDone(d, next) ==
  LET a == [d.active EXCEPT !.acknowledged = @ + 1, !.pendingWrite = None, !.readData = None,
                            !.wait = 0, !.address = (@ + WordBytes) % AddrSpace]
  IN  IF a.revokePending THEN Abort(d, "Revoked")
      ELSE IF a.acknowledged = a.total THEN FinishOk(d, a.acknowledged)
      ELSE [d EXCEPT !.active = a, !.state = next]

\* Called in AwaitDeviceWrite only: elsewhere the offer is refused with no effect.
OfferDeviceWrite(d, word, parityOk) ==
  IF ~parityOk THEN Abort(d, "Parity")
  ELSE IF d.active.revokePending THEN Abort(d, "Revoked")
  ELSE [d EXCEPT !.active.pendingWrite = word, !.active.wait = 0, !.state = "MemRequest"]

\* What the engine asks of memory: None unless in MemRequest.
MemoryRequest(d) ==
  IF d.state # "MemRequest" THEN None
  ELSE [write   |-> d.active.direction = "DeviceWrite",
        address |-> d.active.address,
        value   |-> d.active.pendingWrite]

MemoryRequestAccepted(d) == [d EXCEPT !.active.wait = 0, !.state = "MemResponse"]

\* Mutant: any answer to a write counts as done.
WriteFaultIgnored(d, response) ==
  IF d.active.direction = "DeviceWrite" THEN BeatDone(d, "AwaitDeviceWrite")
  ELSE IF response.kind = "ReadData"
  THEN [d EXCEPT !.active.readData = response.value, !.active.wait = 0,
                 !.state = "DeviceReadReady"]
  ELSE Abort(d, "MemoryFault")

MemoryResponse(d, response) ==
  IF d.active.direction = "DeviceWrite" /\ response.kind = "WriteDone"
  THEN BeatDone(d, "AwaitDeviceWrite")
  ELSE IF d.active.direction = "DeviceRead" /\ response.kind = "ReadData"
  THEN [d EXCEPT !.active.readData = response.value, !.active.wait = 0,
                 !.state = "DeviceReadReady"]
  ELSE Abort(d, "MemoryFault")

AcknowledgeDeviceRead(d) == BeatDone(d, "MemRequest")

WaitCycle(d) ==
  IF d.active = None THEN d
  ELSE IF d.active.wait + 1 >= Timeout THEN Abort(d, "Timeout")
  ELSE [d EXCEPT !.active.wait = @ + 1]

\* Capabilities survive: only the burst is abandoned.
Reset(d) == IF d.active # None THEN Abort(d, "Reset") ELSE [d EXCEPT !.state = "Idle"]

TakeCompletion(d) == [d EXCEPT !.completion = None]

-----------------------------------------------------------------------------
(* An engine its own methods leave: a burst exactly outside Idle, unfinished, with no
   completion beside it, and in no state of the other direction. *)
WellFormed(d) ==
  /\ d \in Engine
  /\ (d.active # None) <=> (d.state # "Idle")
  /\ d.active # None =>
       /\ d.completion = None
       /\ d.active.acknowledged < d.active.total
       /\ d.state = "AwaitDeviceWrite" => d.active.direction = "DeviceWrite"
       /\ d.state = "DeviceReadReady" => d.active.direction = "DeviceRead"

=============================================================================
