------------------------------ MODULE DmaHostM3 ------------------------------
(***************************************************************************)
(* DmaHostM3 on its own: privileged software binds and revokes mappings,   *)
(* a card starts bursts with the handles it was once given, and the memory *)
(* path and the clock call the other methods, in any order the methods'    *)
(* own guards allow.  A call the code refuses changes nothing and is a     *)
(* stuttering step.                                                        *)
(*                                                                         *)
(* "track" is history: what an observer of the calls remembers.            *)
(***************************************************************************)
EXTENDS DmaEngine

CONSTANTS
  Bases,       \* base addresses software binds
  Lengths,     \* mapping lengths software binds
  Offsets,     \* byte offsets cards put in a handle
  MaxBinds     \* bound: binds of one channel

ASSUME InputsAreNumbers ==
  Bases \subseteq Nat /\ Lengths \subseteq Nat /\ Offsets \subseteq Nat /\ MaxBinds \in Nat

VARIABLES
  dma,         \* the engine
  track        \* history of the binds and of the burst

vars == <<dma, track>>

(***************************************************************************)
(* track.binds[sc]   successful binds of channel sc so far                 *)
(* track.epoch       the bind whose handle started the burst               *)
(* track.offset      the offset of that handle                             *)
(* track.confirmed   words memory has read or written for the burst        *)
(* track.late        memory accesses begun after the mapping was revoked   *)
(***************************************************************************)
Track == [binds : [Slots \X Channels -> Nat], epoch : Nat, offset : Nat,
          confirmed : Nat, late : Nat]

Init ==
  /\ dma = NewEngine
  /\ track = [binds |-> [sc \in Slots \X Channels |-> 0],
              epoch |-> 0, offset |-> 0, confirmed |-> 0, late |-> 0]

\* The generation of the handle that the e-th bind of a channel returned.
GenerationOf(e) == (e + GenMod - 1) % GenMod

-----------------------------------------------------------------------------
BindChannel(s, c, base, length, r, w) ==
  /\ track.binds[<<s, c>>] < MaxBinds
  /\ BindAllowed(dma, s, c, base, length)
  /\ dma' = Bind(dma, s, c, base, length, r, w)
  /\ track' = [track EXCEPT !.binds[<<s, c>>] = @ + 1]

RevokeChannel(s, c) ==
  /\ dma' = Revoke(dma, s, c)
  /\ UNCHANGED track

\* e names the bind the card holds a handle of; it may be long past.
StartBurst(s, c, e, offset, words, dir) ==
  LET handle == [channel |-> c, generation |-> GenerationOf(e), offset |-> offset] IN
  /\ StartAllowed(dma, s, handle, words, dir)
  /\ dma' = Start(dma, s, handle, words, dir)
  /\ track' = [track EXCEPT !.epoch = e, !.offset = offset, !.confirmed = 0, !.late = 0]

OfferWord(word, parityOk) ==
  /\ dma.state = "AwaitDeviceWrite"
  /\ dma' = OfferDeviceWrite(dma, word, parityOk)
  /\ UNCHANGED track

AcceptRequest ==
  /\ dma.state = "MemRequest"
  /\ dma' = MemoryRequestAccepted(dma)
  /\ track' = [track EXCEPT !.late = @ + (IF dma.active.revokePending THEN 1 ELSE 0)]

TakeResponse(response) ==
  /\ dma.state = "MemResponse"
  /\ dma' = MemoryResponse(dma, response)
  /\ track' = [track EXCEPT !.confirmed =
       @ + (IF <<dma.active.direction, response.kind>>
                 \in {<<"DeviceRead", "ReadData">>, <<"DeviceWrite", "WriteDone">>}
            THEN 1 ELSE 0)]

AcknowledgeWord ==
  /\ dma.state = "DeviceReadReady"
  /\ dma' = AcknowledgeDeviceRead(dma)
  /\ UNCHANGED track

Wait ==
  /\ dma.active # None
  /\ dma' = WaitCycle(dma)
  /\ UNCHANGED track

ResetEngine ==
  /\ dma' = Reset(dma)
  /\ UNCHANGED track

CollectCompletion ==
  /\ dma.completion # None
  /\ dma' = TakeCompletion(dma)
  /\ UNCHANGED track

Next ==
  \/ \E s \in Slots, c \in Channels, base \in Bases, length \in Lengths, r, w \in BOOLEAN :
       BindChannel(s, c, base, length, r, w)
  \/ \E s \in Slots, c \in Channels : RevokeChannel(s, c)
  \/ \E s \in Slots, c \in Channels, e \in 1 .. MaxBinds, offset \in Offsets,
        words \in Bursts, dir \in Directions :
       StartBurst(s, c, e, offset, words, dir)
  \/ \E word \in Words, parityOk \in BOOLEAN : OfferWord(word, parityOk)
  \/ AcceptRequest
  \/ \E response \in MemoryResponses : TakeResponse(response)
  \/ AcknowledgeWord
  \/ Wait
  \/ ResetEngine
  \/ CollectCompletion

Spec == Init /\ [][Next]_vars

-----------------------------------------------------------------------------
(* Properties.                                                              *)

\* The engine and the history have their types.
TypeOK == dma \in Engine /\ track \in Track

Active == dma.active

ActiveCap == dma.caps[<<Active.slot, Active.channel>>]

(* A burst runs under the very mapping it was checked against: bind() cannot
   replace it under a running burst, its generation is the burst's, it is valid
   unless the burst has been told of its revocation, and the address of the next
   beat is the one its offset gives, inside the mapping. *)
BurstKeepsItsMapping ==
  Active # None =>
    /\ Active.generation = ActiveCap.generation
    /\ ActiveCap.valid = ~Active.revokePending
    /\ Permits(ActiveCap, Active.direction)
    /\ Active.acknowledged < Active.total
    /\ track.offset + WordBytes * Active.total <= ActiveCap.length
    /\ Active.address = (ActiveCap.base + track.offset + WordBytes * Active.acknowledged) % AddrSpace

(* After revoke() at most the beat in hand still reaches memory: no second
   memory access begins under a revoked mapping. *)
RevocationStopsTheBurst == Active # None => track.late <= 1

(* A handle whose channel has been bound again since (fewer than GenMod times,
   after which the 4-bit tag repeats) never starts a burst. *)
StaleHandleRejected ==
  Active # None =>
    LET binds == track.binds[<<Active.slot, Active.channel>>] IN
    track.epoch <= binds /\ binds - track.epoch < GenMod => track.epoch = binds

(* Ok(n) is reported only when memory confirmed exactly n words, and the count
   of acknowledged beats never runs ahead of memory nor more than one behind. *)
CompletionIsExact ==
  /\ Active # None =>
       track.confirmed = Active.acknowledged + (IF dma.state = "DeviceReadReady" THEN 1 ELSE 0)
  /\ (dma.completion # None /\ dma.completion.result = "Ok") =>
       dma.completion.beats = track.confirmed

(* The inductive invariant behind the three above: a burst exists exactly outside
   Idle, never beside an untaken completion, and a late access is the beat in hand. *)
DmaInv ==
  /\ TypeOK
  /\ BurstKeepsItsMapping
  /\ CompletionIsExact
  /\ Active = None <=> dma.state = "Idle"
  /\ Active # None =>
       /\ dma.completion = None
       /\ track.late <= IF Active.revokePending /\ dma.state \in {"MemResponse", "DeviceReadReady"}
                          THEN 1 ELSE 0

(* The strengthening of StaleHandleRejected: the generation in the table is that of the
   last bind of the channel, and a running burst's that of the bind its handle came from. *)
TagsCountBinds ==
  /\ \A sc \in Slots \X Channels : dma.caps[sc].generation = GenerationOf(track.binds[sc])
  /\ Active # None => Active.generation = GenerationOf(track.epoch)

(* A completion nobody has taken is never overwritten by a later burst's. *)
NoCompletionLost ==
  [][dma.completion # None => dma'.completion \in {dma.completion, None}]_vars
=============================================================================
