---------------------------- MODULE HostCoreProofs ----------------------------
(***************************************************************************)
(* Proofs about the host controller, for every number of slots, channels,  *)
(* burst lengths and requests, and every time limit.                       *)
(***************************************************************************)
EXTENDS HostCore, TLAPS, WellFoundedInduction, Integers

-----------------------------------------------------------------------------
(* Arithmetic.                                                              *)

LEMMA RemainderUnique ==
  ASSUME NEW M \in Nat \ {0}, NEW q \in Nat, NEW r \in 0 .. M - 1
  PROVE  (M * q + r) % M = r
  BY Z3

LEMMA Division ==
  ASSUME NEW M \in Nat \ {0}, NEW x \in Nat
  PROVE  /\ x \div M \in Nat
         /\ x % M \in 0 .. M - 1
         /\ x = M * (x \div M) + (x % M)
  BY Z3

LEMMA StepOfRemainder ==
  ASSUME NEW M \in Nat \ {0}, NEW x \in Nat
  PROVE  ((x % M) + 4) % M = (x + 4) % M
<1> DEFINE q  == x \div M
           r  == x % M
           q2 == (r + 4) \div M
           r2 == (r + 4) % M
<1>1. q \in Nat /\ r \in Nat /\ x = M * q + r
  BY Division
<1>2. q2 \in Nat /\ r2 \in 0 .. M - 1 /\ r + 4 = M * q2 + r2
  <2>1. r + 4 \in Nat
    BY <1>1
  <2>2. QED
    BY <2>1, Division
<1> HIDE DEF q, r, q2, r2
<1>3. x + 4 = M * (q + q2) + r2
  <2>1. M * (q + q2) = M * q + M * q2
    BY <1>1, <1>2, Z3
  <2>2. M * q \in Nat /\ M * q2 \in Nat
    BY <1>1, <1>2, Z3
  <2>3. QED
    BY <1>1, <1>2, <2>1, <2>2
<1>4. (M * (q + q2) + r2) % M = r2
  <2>1. q + q2 \in Nat
    BY <1>1, <1>2
  <2>2. QED
    BY <1>2, <2>1, RemainderUnique
<1>5. QED
  BY <1>3, <1>4 DEF r, r2

-----------------------------------------------------------------------------
(* What the engine's operators return.                                      *)

LEMMA AbortFacts ==
  ASSUME NEW d \in Engine, NEW error \in DmaErrors
  PROVE  /\ Abort(d, error) \in Engine
         /\ Abort(d, error).active = None
         /\ Abort(d, error).state = "Idle"
         /\ Abort(d, error).caps = d.caps
         /\ Abort(d, error).completion = [result |-> error, beats |-> 0]
  BY DEF Abort, Engine, DmaStates, Completion

LEMMA FinishOkFacts ==
  ASSUME NEW d \in Engine, NEW n \in Nat
  PROVE  /\ FinishOk(d, n) \in Engine
         /\ FinishOk(d, n).active = None
         /\ FinishOk(d, n).state = "Idle"
         /\ FinishOk(d, n).caps = d.caps
         /\ FinishOk(d, n).completion = [result |-> "Ok", beats |-> n]
  BY DEF FinishOk, Engine, DmaStates, Completion

\* One more word: the burst goes on, is complete, or is revoked.
LEMMA BeatDoneFacts ==
  ASSUME NEW d \in Engine, d.active # None, NEW next \in DmaStates,
         d.active.acknowledged < d.active.total
  PROVE  LET e == BeatDone(d, next)
             n == d.active.acknowledged + 1
         IN /\ e \in Engine
            /\ e.caps = d.caps
            /\ \/ /\ d.active.revokePending
                  /\ e.active = None /\ e.state = "Idle"
                  /\ e.completion = [result |-> "Revoked", beats |-> 0]
               \/ /\ e.active = None /\ e.state = "Idle"
                  /\ e.completion = [result |-> "Ok", beats |-> n]
               \/ /\ ~d.active.revokePending
                  /\ n < d.active.total
                  /\ e.state = next
                  /\ e.completion = d.completion
                  /\ e.active # None
                  /\ e.active = [d.active EXCEPT !.acknowledged = n, !.pendingWrite = None,
                       !.readData = None, !.wait = 0,
                       !.address = (d.active.address + WordBytes) % AddrSpace]
<1> DEFINE n == d.active.acknowledged + 1
           a == [d.active EXCEPT !.acknowledged = n, !.pendingWrite = None,
                  !.readData = None, !.wait = 0,
                  !.address = (d.active.address + WordBytes) % AddrSpace]
<1>1. d.active \in Burst
  BY DEF Engine
<1>2. d.active.address + WordBytes \in Nat /\ n \in Nat
  BY <1>1 DEF Burst, WordBytes
<1>3. (d.active.address + WordBytes) % AddrSpace \in Nat
  BY <1>2, Division, DmaConstants
<1>4. a \in Burst /\ a # None
  <2>1. a \in Burst
    BY <1>1, <1>2, <1>3 DEF Burst
  <2>2. QED
    BY <2>1, NoneIsFresh
<1>5. a.revokePending = d.active.revokePending /\ a.acknowledged = n /\ a.total = d.active.total
  BY <1>1 DEF Burst
<1>6. BeatDone(d, next) = IF a.revokePending THEN Abort(d, "Revoked")
                          ELSE IF a.acknowledged = a.total THEN FinishOk(d, a.acknowledged)
                          ELSE [d EXCEPT !.active = a, !.state = next]
  BY DEF BeatDone
<1>7. CASE a.revokePending
  BY <1>5, <1>6, <1>7, AbortFacts DEF DmaErrors
<1>8. CASE ~a.revokePending /\ a.acknowledged = a.total
  BY <1>2, <1>5, <1>6, <1>8, FinishOkFacts
<1>9. CASE ~a.revokePending /\ a.acknowledged # a.total
  <2>1. n < d.active.total
    BY <1>1, <1>5, <1>9 DEF Burst
  <2>2. BeatDone(d, next) = [d EXCEPT !.active = a, !.state = next]
    BY <1>6, <1>9
  <2> HIDE DEF a
  <2>3. /\ BeatDone(d, next) \in Engine
        /\ BeatDone(d, next).active = a
        /\ BeatDone(d, next).state = next
        /\ BeatDone(d, next).caps = d.caps
        /\ BeatDone(d, next).completion = d.completion
    BY <1>4, <2>2 DEF Engine
  <2>4. ~d.active.revokePending /\ BeatDone(d, next).active # None
    BY <1>4, <1>5, <1>9, <2>3
  <2>5. QED
    BY <2>1, <2>3, <2>4 DEF a
<1>10. QED
  BY <1>7, <1>8, <1>9

-----------------------------------------------------------------------------
(* A method called where the controller calls it keeps the engine well     *)
(* formed, and either ends the burst or leaves it the same burst.          *)

\* The engine e after an abort: an error, and no burst.
Failed(e) ==
  /\ e.active = None /\ e.state = "Idle"
  /\ e.completion # None /\ e.completion.result # "Ok"

\* e has the burst d has, and no completion.
KeepsBurst(d, e) ==
  /\ e.active # None /\ e.completion = None
  /\ e.active.slot = d.active.slot /\ e.active.direction = d.active.direction
  /\ e.active.acknowledged = d.active.acknowledged

LEMMA AbortWell ==
  ASSUME NEW d \in Engine, NEW error \in DmaErrors
  PROVE  WellFormed(Abort(d, error)) /\ Failed(Abort(d, error))
<1>1. [result |-> error, beats |-> 0] \in Completion
  BY DEF Completion
<1>2. error # "Ok"
  BY DEF DmaErrors
<1>3. QED
  BY <1>1, <1>2, AbortFacts, NoneIsFresh DEF WellFormed, Failed

LEMMA NewEngineWell ==
  WellFormed(NewEngine) /\ NewEngine.active = None /\ NewEngine.completion = None
<1>1. UnboundCapability \in Capability
  BY DmaConstants DEF UnboundCapability, Capability, Generations
<1>2. QED
  BY <1>1 DEF NewEngine, Engine, DmaStates, WellFormed

\* The engine e has d's burst, changed in nothing that counts here, in another state.
LEMMA ChangedBurstWell ==
  ASSUME NEW d, NEW e, WellFormed(d), d.active # None, e \in Engine, e.active # None,
         e.state # "Idle", e.completion = d.completion,
         e.active.slot = d.active.slot, e.active.direction = d.active.direction,
         e.active.total = d.active.total, e.active.acknowledged = d.active.acknowledged,
         e.state = "AwaitDeviceWrite" => e.active.direction = "DeviceWrite",
         e.state = "DeviceReadReady" => e.active.direction = "DeviceRead"
  PROVE  WellFormed(e) /\ KeepsBurst(d, e)
  BY DEF WellFormed, KeepsBurst

LEMMA BeatDoneWell ==
  ASSUME NEW d, WellFormed(d), d.active # None, NEW next \in {"MemRequest", "AwaitDeviceWrite"},
         next = "AwaitDeviceWrite" => d.active.direction = "DeviceWrite"
  PROVE  LET e == BeatDone(d, next)
             n == d.active.acknowledged + 1
         IN /\ WellFormed(e)
            /\ \/ Failed(e)
               \/ /\ e.active = None /\ e.state = "Idle"
                  /\ e.completion = [result |-> "Ok", beats |-> n] /\ e.completion # None
               \/ /\ e.active # None /\ e.completion = None /\ e.state = next
                  /\ e.active.slot = d.active.slot
                  /\ e.active.direction = d.active.direction
                  /\ e.active.acknowledged = n
<1> DEFINE e == BeatDone(d, next)
           n == d.active.acknowledged + 1
<1>1. d \in Engine /\ d.active \in Burst /\ d.active.acknowledged < d.active.total
        /\ d.completion = None /\ next \in DmaStates /\ n \in Nat
  BY DEF WellFormed, Engine, DmaStates, Burst
<1>2. /\ e \in Engine
      /\ \/ /\ e.active = None /\ e.state = "Idle"
            /\ e.completion = [result |-> "Revoked", beats |-> 0]
         \/ /\ e.active = None /\ e.state = "Idle"
            /\ e.completion = [result |-> "Ok", beats |-> n]
         \/ /\ n < d.active.total /\ e.state = next /\ e.completion = d.completion
            /\ e.active # None
            /\ e.active = [d.active EXCEPT !.acknowledged = n, !.pendingWrite = None,
                 !.readData = None, !.wait = 0,
                 !.address = (d.active.address + WordBytes) % AddrSpace]
  BY <1>1, BeatDoneFacts
<1> HIDE DEF e
<1>3. CASE /\ e.active = None /\ e.state = "Idle"
           /\ e.completion = [result |-> "Revoked", beats |-> 0]
  <2>1. e.completion \in Completion
    BY <1>3 DEF Completion, DmaErrors
  <2>2. WellFormed(e) /\ Failed(e)
    BY <1>2, <1>3, <2>1, NoneIsFresh DEF WellFormed, Failed
  <2>3. QED
    BY <2>2 DEF e
<1>4. CASE /\ e.active = None /\ e.state = "Idle"
           /\ e.completion = [result |-> "Ok", beats |-> n]
  <2>1. e.completion \in Completion
    BY <1>1, <1>4 DEF Completion
  <2>2. WellFormed(e) /\ e.completion # None
    BY <1>2, <1>4, <2>1, NoneIsFresh DEF WellFormed
  <2>3. QED
    BY <1>4, <2>2 DEF e
<1>5. CASE /\ n < d.active.total /\ e.state = next /\ e.completion = d.completion
           /\ e.active # None
           /\ e.active = [d.active EXCEPT !.acknowledged = n, !.pendingWrite = None,
                !.readData = None, !.wait = 0,
                !.address = (d.active.address + WordBytes) % AddrSpace]
  <2>1. /\ e.active.slot = d.active.slot /\ e.active.direction = d.active.direction
        /\ e.active.acknowledged = n /\ e.active.total = d.active.total
    BY <1>1, <1>5 DEF Burst
  <2>2. WellFormed(e)
    BY <1>1, <1>2, <1>5, <2>1 DEF WellFormed
  <2>3. QED
    BY <1>1, <1>5, <2>1, <2>2 DEF e
<1>6. QED
  BY <1>2, <1>3, <1>4, <1>5

LEMMA OfferWell ==
  ASSUME NEW d, WellFormed(d), d.state = "AwaitDeviceWrite", NEW word \in Words,
         NEW parityOk \in BOOLEAN
  PROVE  LET e == OfferDeviceWrite(d, word, parityOk)
         IN WellFormed(e) /\ (Failed(e) \/ (KeepsBurst(d, e) /\ e.state = "MemRequest"))
<1>1. d \in Engine /\ d.active # None /\ d.active \in Burst
  BY DEF WellFormed, Engine
<1>2. CASE ~parityOk
  BY <1>1, <1>2, AbortWell DEF OfferDeviceWrite, DmaErrors
<1>3. CASE parityOk /\ d.active.revokePending
  BY <1>1, <1>3, AbortWell DEF OfferDeviceWrite, DmaErrors
<1>4. CASE parityOk /\ ~d.active.revokePending
  <2> DEFINE a == [d.active EXCEPT !.pendingWrite = word, !.wait = 0]
  <2>1. a \in Burst
    BY <1>1 DEF Burst
  <2>2. OfferDeviceWrite(d, word, parityOk) = [d EXCEPT !.active = a, !.state = "MemRequest"]
    BY <1>1, <1>4 DEF OfferDeviceWrite, Engine
  <2>3. /\ a.slot = d.active.slot /\ a.direction = d.active.direction
        /\ a.total = d.active.total /\ a.acknowledged = d.active.acknowledged
    BY <1>1 DEF Burst
  <2> DEFINE e == OfferDeviceWrite(d, word, parityOk)
  <2> HIDE DEF a, e
  <2>4. /\ e \in Engine /\ e.active = a /\ e.state = "MemRequest"
        /\ e.completion = d.completion /\ a # None
    BY <1>1, <2>1, <2>2, NoneIsFresh DEF e, Engine, DmaStates
  <2>5. WellFormed(e) /\ KeepsBurst(d, e)
    BY <1>1, <2>3, <2>4, ChangedBurstWell
  <2>6. QED
    BY <2>4, <2>5 DEF e
<1>5. QED
  BY <1>2, <1>3, <1>4

LEMMA AcceptedWell ==
  ASSUME NEW d, WellFormed(d), d.state = "MemRequest"
  PROVE  LET e == MemoryRequestAccepted(d)
         IN WellFormed(e) /\ KeepsBurst(d, e) /\ e.state = "MemResponse"
<1>1. d \in Engine /\ d.active # None /\ d.active \in Burst
  BY DEF WellFormed, Engine
<1> DEFINE a == [d.active EXCEPT !.wait = 0]
<1>2. a \in Burst
  BY <1>1 DEF Burst
<1>3. MemoryRequestAccepted(d) = [d EXCEPT !.active = a, !.state = "MemResponse"]
  BY <1>1 DEF MemoryRequestAccepted, Engine
<1>4. /\ a.slot = d.active.slot /\ a.direction = d.active.direction
      /\ a.total = d.active.total /\ a.acknowledged = d.active.acknowledged
  BY <1>1 DEF Burst
<1> DEFINE e == MemoryRequestAccepted(d)
<1> HIDE DEF a, e
<1>5. /\ e \in Engine /\ e.active = a /\ e.state = "MemResponse"
      /\ e.completion = d.completion /\ a # None
  BY <1>1, <1>2, <1>3, NoneIsFresh DEF e, Engine, DmaStates
<1>6. WellFormed(e) /\ KeepsBurst(d, e)
  BY <1>1, <1>4, <1>5, ChangedBurstWell
<1>7. QED
  BY <1>5, <1>6 DEF e

LEMMA WaitWell ==
  ASSUME NEW d, WellFormed(d), d.active # None
  PROVE  LET e == WaitCycle(d)
         IN WellFormed(e) /\ (Failed(e) \/ (KeepsBurst(d, e) /\ e.state = d.state))
<1>1. d \in Engine /\ d.active \in Burst /\ d.state # "Idle" /\ d.state \in DmaStates
  BY DEF WellFormed, Engine
<1>2. CASE d.active.wait + 1 >= Timeout
  BY <1>1, <1>2, AbortWell DEF WaitCycle, DmaErrors
<1>3. CASE ~(d.active.wait + 1 >= Timeout)
  <2> DEFINE a == [d.active EXCEPT !.wait = @ + 1]
  <2>1. a \in Burst
    BY <1>1 DEF Burst
  <2>2. WaitCycle(d) = [d EXCEPT !.active = a]
    BY <1>1, <1>3 DEF WaitCycle, Engine
  <2>3. /\ a.slot = d.active.slot /\ a.direction = d.active.direction
        /\ a.total = d.active.total /\ a.acknowledged = d.active.acknowledged
    BY <1>1 DEF Burst
  <2>4. /\ d.state = "AwaitDeviceWrite" => a.direction = "DeviceWrite"
        /\ d.state = "DeviceReadReady" => a.direction = "DeviceRead"
    BY <2>3 DEF WellFormed
  <2> DEFINE e == WaitCycle(d)
  <2> HIDE DEF a, e
  <2>5. /\ e \in Engine /\ e.active = a /\ e.state = d.state
        /\ e.completion = d.completion /\ a # None
    BY <1>1, <2>1, <2>2, NoneIsFresh DEF e, Engine
  <2>6. WellFormed(e) /\ KeepsBurst(d, e)
    BY <1>1, <2>3, <2>4, <2>5, ChangedBurstWell
  <2>7. QED
    BY <2>5, <2>6 DEF e
<1>4. QED
  BY <1>2, <1>3

\* MemoryResponse: the word is done, or is there for the card, or memory refused it.
LEMMA ResponseWell ==
  ASSUME NEW d, WellFormed(d), d.state = "MemResponse", NEW response \in MemoryResponses
  PROVE  LET e == MemoryResponse(d, response)
             wrote == d.active.direction = "DeviceWrite" /\ response.kind = "WriteDone"
             read  == d.active.direction = "DeviceRead" /\ response.kind = "ReadData"
         IN /\ wrote => e = BeatDone(d, "AwaitDeviceWrite")
            /\ read => WellFormed(e) /\ KeepsBurst(d, e) /\ e.state = "DeviceReadReady"
            /\ ~wrote /\ ~read => WellFormed(e) /\ Failed(e)
<1> DEFINE e == MemoryResponse(d, response)
           wrote == d.active.direction = "DeviceWrite" /\ response.kind = "WriteDone"
           read  == d.active.direction = "DeviceRead" /\ response.kind = "ReadData"
<1>1. d \in Engine /\ d.active # None /\ d.active \in Burst
  BY DEF WellFormed, Engine
<1>2. wrote => e = BeatDone(d, "AwaitDeviceWrite")
  BY DEF MemoryResponse
<1>3. ASSUME read PROVE WellFormed(e) /\ KeepsBurst(d, e) /\ e.state = "DeviceReadReady"
  <2> DEFINE a == [d.active EXCEPT !.readData = response.value, !.wait = 0]
  <2>1. response.value \in Words
    BY <1>3 DEF MemoryResponses
  <2>2. a \in Burst
    BY <1>1, <2>1 DEF Burst
  <2>3. e = [d EXCEPT !.active = a, !.state = "DeviceReadReady"]
    BY <1>1, <1>3 DEF MemoryResponse, Engine
  <2>4. /\ a.slot = d.active.slot /\ a.direction = d.active.direction
        /\ a.total = d.active.total /\ a.acknowledged = d.active.acknowledged
    BY <1>1 DEF Burst
  <2> HIDE DEF a, e
  <2>5. /\ e \in Engine /\ e.active = a /\ e.state = "DeviceReadReady"
        /\ e.completion = d.completion /\ a # None
    BY <1>1, <2>2, <2>3, NoneIsFresh DEF Engine, DmaStates
  <2>6. QED
    BY <1>1, <1>3, <2>4, <2>5, ChangedBurstWell
<1>4. ASSUME ~wrote, ~read PROVE WellFormed(e) /\ Failed(e)
  <2>1. e = Abort(d, "MemoryFault")
    BY <1>4 DEF MemoryResponse
  <2>2. QED
    BY <1>1, <2>1, AbortWell DEF DmaErrors
<1>5. QED
  BY <1>2, <1>3, <1>4

LEMMA ResetWell ==
  ASSUME NEW d, WellFormed(d)
  PROVE  LET e == Reset(d)
         IN /\ WellFormed(e) /\ e.active = None /\ e.state = "Idle"
            /\ d.active # None => Failed(e)
            /\ d.active = None => e.completion = d.completion
<1>1. d \in Engine
  BY DEF WellFormed
<1>2. CASE d.active # None
  BY <1>1, <1>2, AbortWell DEF Reset, DmaErrors, Failed
<1>3. CASE d.active = None
  BY <1>1, <1>3 DEF Reset, Engine, DmaStates, WellFormed
<1>4. QED
  BY <1>2, <1>3

LEMMA TakeWell ==
  ASSUME NEW d, WellFormed(d)
  PROVE  LET e == TakeCompletion(d)
         IN /\ WellFormed(e) /\ e.active = d.active /\ e.state = d.state
            /\ e.completion = None
  BY DEF TakeCompletion, WellFormed, Engine

LEMMA BindWell ==
  ASSUME NEW d, WellFormed(d), NEW s \in Slots, NEW c \in Channels, NEW base \in Nat,
         NEW length \in Nat, NEW r \in BOOLEAN, NEW w \in BOOLEAN
  PROVE  LET e == Bind(d, s, c, base, length, r, w)
         IN /\ WellFormed(e) /\ e.active = d.active /\ e.state = d.state
            /\ e.completion = d.completion
<1> DEFINE cap == [base |-> base, length |-> length, deviceRead |-> r, deviceWrite |-> w,
                   generation |-> NextGeneration(d.caps[<<s, c>>].generation), valid |-> TRUE]
<1>1. d \in Engine /\ <<s, c>> \in Slots \X Channels
  BY DEF WellFormed
<1>2. cap \in Capability
  <2>1. d.caps[<<s, c>>].generation \in Generations
    BY <1>1 DEF Engine, Capability
  <2>2. NextGeneration(d.caps[<<s, c>>].generation) \in Generations
    BY <2>1, DmaConstants DEF NextGeneration, Generations
  <2>3. QED
    BY <2>2 DEF Capability
<1>3. Bind(d, s, c, base, length, r, w) = [d EXCEPT !.caps[<<s, c>>] = cap]
  BY DEF Bind
<1> HIDE DEF cap
<1>4. QED
  BY <1>1, <1>2, <1>3 DEF Engine, WellFormed

LEMMA RevokeWell ==
  ASSUME NEW d, WellFormed(d), NEW s \in Slots, NEW c \in Channels
  PROVE  LET e == Revoke(d, s, c)
         IN /\ WellFormed(e) /\ e.state = d.state /\ e.completion = d.completion
            /\ d.active = None => e.active = None
            /\ d.active # None => KeepsBurst(d, e)
<1> DEFINE e == Revoke(d, s, c)
           a == [d.active EXCEPT !.revokePending = TRUE]
<1>1. d \in Engine /\ <<s, c>> \in Slots \X Channels
  BY DEF WellFormed
<1>2. [d.caps EXCEPT ![<<s, c>>].valid = FALSE] \in [Slots \X Channels -> Capability]
  BY <1>1 DEF Engine, Capability
<1>3. CASE d.active # None
  <2>1. d.active \in Burst
    BY <1>1, <1>3 DEF Engine
  <2>2. a \in Burst /\ a # None
    <3>1. a \in Burst
      BY <2>1 DEF Burst
    <3>2. QED
      BY <3>1, NoneIsFresh
  <2>3. /\ a.slot = d.active.slot /\ a.direction = d.active.direction
        /\ a.total = d.active.total /\ a.acknowledged = d.active.acknowledged
    BY <2>1 DEF Burst
  <2> HIDE DEF a
  <2>4. e.active \in {a, d.active} /\ e.state = d.state /\ e.completion = d.completion
    BY <1>1 DEF Revoke, Engine, a
  <2>5. e \in Engine
    BY <1>1, <1>2, <2>1, <2>2 DEF Revoke, Engine, a
  <2> HIDE DEF e
  <2>6. WellFormed(e) /\ KeepsBurst(d, e)
    BY <1>3, <2>2, <2>3, <2>4, <2>5, ChangedBurstWell DEF WellFormed
  <2>7. QED
    BY <1>3, <2>4, <2>6 DEF e
<1>4. CASE d.active = None
  BY <1>1, <1>2, <1>4 DEF Revoke, Engine, WellFormed, ActiveMatches
<1>5. QED
  BY <1>3, <1>4

LEMMA StartWell ==
  ASSUME NEW d, WellFormed(d), NEW s \in Slots, NEW words \in Bursts, NEW dir \in Directions,
         NEW handle \in [channel : Channels, generation : Generations, offset : Nat],
         StartAllowed(d, s, handle, words, dir)
  PROVE  LET e == Start(d, s, handle, words, dir)
         IN /\ WellFormed(e) /\ e.active # None /\ e.completion = None
            /\ e.state # "DeviceReadReady" /\ e.active.slot = s /\ e.active.direction = dir
            /\ e.active.acknowledged = 0
<1> DEFINE e == Start(d, s, handle, words, dir)
           cap == d.caps[<<s, handle.channel>>]
           a == [slot |-> s, channel |-> handle.channel, generation |-> handle.generation,
                 direction |-> dir, address |-> cap.base + handle.offset,
                 total |-> words, acknowledged |-> 0, pendingWrite |-> None,
                 readData |-> None, wait |-> 0, revokePending |-> FALSE]
<1>1. d \in Engine /\ d.completion = None /\ words \in Nat /\ words > 0
  BY DmaConstants DEF WellFormed, StartAllowed, Busy
<1>2. cap.base \in Nat
  BY <1>1 DEF Engine, Capability
<1>3. a \in Burst
  BY <1>1, <1>2 DEF Burst
<1>4. a # None
  BY <1>3, NoneIsFresh
<1>5. e = [d EXCEPT !.active = a,
             !.state = IF dir = "DeviceRead" THEN "MemRequest" ELSE "AwaitDeviceWrite"]
  BY DEF Start
<1>6. a.slot = s /\ a.direction = dir /\ a.acknowledged = 0 /\ a.total = words
  OBVIOUS
<1> HIDE DEF a, e
<1>7. /\ e \in Engine /\ e.active = a /\ e.completion = None
      /\ e.state = IF dir = "DeviceRead" THEN "MemRequest" ELSE "AwaitDeviceWrite"
  BY <1>1, <1>3, <1>5 DEF Engine, DmaStates
<1>8. WellFormed(e) /\ e.state # "DeviceReadReady"
  BY <1>1, <1>4, <1>6, <1>7 DEF WellFormed, Directions
<1>9. QED
  BY <1>4, <1>6, <1>7, <1>8 DEF e

-----------------------------------------------------------------------------
(* Arithmetic of the rotation.                                              *)

LEMMA LeastNumber ==
  ASSUME NEW T, T \subseteq Nat, T # {}
  PROVE  \E x \in T : \A y \in T : x <= y
<1> DEFINE R == {p \in Nat \X Nat : p[1] < p[2]}
<1>1. IsWellFoundedOn(R, Nat)
  BY NatLessThanWellFounded DEF OpToRel
<1>2. PICK x \in T : \A y \in T : ~ (<<y, x>> \in R)
  BY <1>1, WFMin
<1>3. ASSUME NEW y \in T PROVE x <= y
  <2>1. <<y, x>> \in Nat \X Nat /\ <<y, x>>[1] = y /\ <<y, x>>[2] = x
    OBVIOUS
  <2>2. ~ (y < x)
    BY <1>2, <2>1
  <2>3. QED
    BY <2>2
<1>4. QED
  BY <1>3

LEMMA NextSlotIs ==
  ASSUME NEW s \in Slots
  PROVE  /\ NextSlot(s) = IF s = NSlots - 1 THEN 0 ELSE s + 1
         /\ NextSlot(s) \in Slots
<1>1. NSlots \in Nat \ {0}
  BY DmaConstants
<1>2. CASE s = NSlots - 1
  <2>1. (NSlots * 1 + 0) % NSlots = 0
    BY <1>1, RemainderUnique
  <2>2. s + 1 = NSlots * 1 + 0
    BY <1>1, <1>2
  <2>3. QED
    BY <1>1, <1>2, <2>1, <2>2 DEF NextSlot, Slots
<1>3. CASE s # NSlots - 1
  <2>1. s + 1 \in 0 .. NSlots - 1
    BY <1>1, <1>3 DEF Slots
  <2>2. (NSlots * 0 + (s + 1)) % NSlots = s + 1
    BY <1>1, <2>1, RemainderUnique
  <2>3. NSlots * 0 + (s + 1) = s + 1
    BY <1>1, <2>1
  <2>4. QED
    BY <1>3, <2>1, <2>2, <2>3 DEF NextSlot, Slots
<1>4. QED
  BY <1>2, <1>3

LEMMA DistanceIs ==
  ASSUME NEW s \in Slots, NEW t \in Slots
  PROVE  /\ Distance(s, t) = IF t >= s THEN t - s ELSE t + NSlots - s
         /\ Distance(s, t) \in 0 .. NSlots - 1
<1>1. NSlots \in Nat \ {0} /\ s \in 0 .. NSlots - 1 /\ t \in 0 .. NSlots - 1
  BY DmaConstants DEF Slots
<1>2. CASE t >= s
  <2>1. t - s \in 0 .. NSlots - 1
    BY <1>1, <1>2
  <2>2. (NSlots * 1 + (t - s)) % NSlots = t - s
    BY <1>1, <2>1, RemainderUnique
  <2>3. t + NSlots - s = NSlots * 1 + (t - s)
    BY <1>1
  <2>4. QED
    BY <1>2, <2>1, <2>2, <2>3 DEF Distance
<1>3. CASE ~(t >= s)
  <2>1. t + NSlots - s \in 0 .. NSlots - 1
    BY <1>1, <1>3
  <2>2. (NSlots * 0 + (t + NSlots - s)) % NSlots = t + NSlots - s
    BY <1>1, <2>1, RemainderUnique
  <2>3. NSlots * 0 + (t + NSlots - s) = t + NSlots - s
    BY <1>1, <2>1
  <2>4. QED
    BY <1>3, <2>1, <2>2, <2>3 DEF Distance
<1>4. QED
  BY <1>2, <1>3

\* A card farther than u from the cursor is nearer to the slot after u, by more than u's own way.
LEMMA RotationNearer ==
  ASSUME NEW c \in Slots, NEW u \in Slots, NEW s \in Slots, s # u,
         Distance(c, u) <= Distance(c, s)
  PROVE  Distance(NextSlot(u), s) + 1 <= Distance(c, s)
<1>1. NextSlot(u) \in Slots /\ NextSlot(u) = IF u = NSlots - 1 THEN 0 ELSE u + 1
  BY NextSlotIs
<1>2. /\ Distance(c, u) = IF u >= c THEN u - c ELSE u + NSlots - c
      /\ Distance(c, s) = IF s >= c THEN s - c ELSE s + NSlots - c
  BY DistanceIs
<1>3. Distance(NextSlot(u), s)
        = IF s >= NextSlot(u) THEN s - NextSlot(u) ELSE s + NSlots - NextSlot(u)
  BY <1>1, DistanceIs
<1>4. NSlots \in Nat \ {0} /\ c \in 0 .. NSlots - 1 /\ u \in 0 .. NSlots - 1 /\ s \in 0 .. NSlots - 1
  BY DmaConstants DEF Slots
<1>5. CASE u = NSlots - 1
  BY <1>1, <1>2, <1>3, <1>4, <1>5
<1>6. CASE u # NSlots - 1
  BY <1>1, <1>2, <1>3, <1>4, <1>6
<1>7. QED
  BY <1>5, <1>6

\* Arbitration chooses a requesting card, the first from the cursor on.
LEMMA ChosenIs ==
  ASSUME cursor \in Slots, NEW requesting \in SUBSET Slots, requesting # {}
  PROVE  /\ Chosen(requesting) \in requesting
         /\ \A t \in requesting : Distance(cursor, Chosen(requesting)) <= Distance(cursor, t)
<1> DEFINE T == {Distance(cursor, s) : s \in requesting}
<1>1. T \subseteq Nat /\ T # {}
  BY DistanceIs
<1>2. PICK x \in T : \A y \in T : x <= y
  BY <1>1, LeastNumber
<1>3. PICK s \in requesting : x = Distance(cursor, s)
  BY <1>2
<1>4. \A t \in requesting : Distance(cursor, s) <= Distance(cursor, t)
  BY <1>2, <1>3
<1>5. \E u \in requesting : \A t \in requesting :
        (u + NSlots - cursor) % NSlots <= (t + NSlots - cursor) % NSlots
  BY <1>4 DEF Distance
<1>6. QED
  BY <1>5 DEF Chosen, Distance

-----------------------------------------------------------------------------
(* What every step shares.                                                  *)

CardRoles == {"Grant", "Notification", "Dma"}

\* The types of everything but the engine, the epoch and the cursor.
RestTyped ==
  /\ queued \in WorkerRequest \cup {None}
  /\ worker \in WorkerEngine
  /\ done \in [worker : WorkerResults \cup {None}, dma : Completion \cup {Protection, None}]
  /\ notifications \in [pending : SUBSET (Slots \X NotifyChannels),
                       enabled : SUBSET (Slots \X NotifyChannels),
                       masked : SUBSET (Slots \X NotifyChannels)]
  /\ seen \in [acks : Nat, commits : Nat, overtaken : [Slots -> Nat]]

\* OkIsEarned, of one step.
OkStep ==
  (done'.dma # done.dma /\ done'.dma # None /\ done'.dma.result = "Ok") =>
    /\ done'.dma.beats = seen'.commits
    /\ seen'.acks \in {seen'.commits - 1, seen'.commits}

\* BurstOfEpoch in a DMA epoch e with the engine d and the counts n.
BurstOfDmaEpoch(d, e, n) ==
  /\ IF d.active # None
     THEN /\ d.active.slot = e.slot /\ d.active.direction = e.direction
          /\ d.completion = None
     ELSE e.writeAck /\ d.completion # None /\ d.completion.result = "Ok"
  /\ n.commits = n.acks + (IF e.writeAck \/ d.state = "DeviceReadReady" THEN 1 ELSE 0)
  /\ d.active # None =>
       d.active.acknowledged = n.commits - (IF d.state = "DeviceReadReady" THEN 1 ELSE 0)
  /\ e.writeAck => d.state \in {"Idle", "AwaitDeviceWrite"}
  /\ d.completion # None => d.completion.beats = n.commits

LEMMA TypeOKIs == TypeOK <=> dma \in Engine /\ epoch \in Epoch /\ cursor \in Slots /\ RestTyped
  BY DEF TypeOK, RestTyped

LEMMA BurstOfDmaEpochIs ==
  ASSUME epoch.role = "Dma"
  PROVE  BurstOfEpoch <=> BurstOfDmaEpoch(dma, epoch, seen)
  BY DEF BurstOfEpoch, BurstOfDmaEpoch, DmaEpochOwnsBurst, AcksFollowMemory

LEMMA QueueTyped ==
  ASSUME RestTyped, NEW request \in WorkerRequests \cup {None}
  PROVE  Queue(request) \in WorkerRequest \cup {None}
  BY CoreInputs DEF RestTyped, Queue

LEMMA NoEpochTyped == NoEpoch \in Epoch
  BY DmaConstants DEF NoEpoch, Epoch, Roles

\* With nobody on the bus there is nothing to say but that no completion waits.
FreeBus ==
  /\ epoch = NoEpoch /\ WellFormed(dma) /\ dma.completion = None /\ cursor \in Slots /\ RestTyped
  /\ \A s \in Slots : seen.overtaken[s] + Distance(cursor, s) < NSlots

LEMMA FreeBusIsFine == FreeBus => CoreInv
<1> SUFFICES ASSUME FreeBus PROVE CoreInv
  OBVIOUS
<1> USE DEF FreeBus
<1>1. epoch.role = "Idle" /\ epoch.address = None /\ ~epoch.writeAck
  BY DEF NoEpoch
<1>2. TypeOK
  BY NoEpochTyped, TypeOKIs DEF WellFormed
<1>3. EpochShape
  BY <1>1 DEF EpochShape
<1>4. BurstOfEpoch
  BY <1>1 DEF BurstOfEpoch, DmaEpochOwnsBurst, AcksFollowMemory
<1>5. Rotation
  BY <1>1 DEF Rotation, Turn
<1>6. QED
  BY <1>2, <1>3, <1>4, <1>5 DEF CoreInv

LEMMA InitCoreInv == Init => CoreInv
<1> SUFFICES ASSUME Init PROVE CoreInv
  OBVIOUS
<1>1. WellFormed(dma) /\ dma.completion = None
  BY NewEngineWell DEF Init
<1>2. cursor \in Slots /\ cursor = 0
  BY DmaConstants DEF Init, Slots
<1>3. worker \in WorkerEngine
  BY DmaConstants DEF Init, IdleWorker, WorkerEngine
<1>4. RestTyped
  BY <1>3 DEF Init, RestTyped, Nobody
<1>5. ASSUME NEW s \in Slots PROVE seen.overtaken[s] + Distance(cursor, s) < NSlots
  <2>1. Distance(cursor, s) \in 0 .. NSlots - 1
    BY <1>2, DistanceIs
  <2>2. seen.overtaken[s] = 0
    BY DEF Init, Nobody
  <2>3. QED
    BY <2>1, <2>2, DmaConstants
<1>6. QED
  BY <1>1, <1>2, <1>4, <1>5, FreeBusIsFine DEF Init, FreeBus

\* A card's epoch ends: the cursor moves behind its slot, which is where its turn already was.
LEMMA EpochOver ==
  ASSUME CoreInv, epoch.role \in CardRoles, FinishCardTransaction, RestTyped',
         seen'.overtaken = seen.overtaken, WellFormed(dma'), dma'.completion = None
  PROVE  CoreInv'
<1>1. epoch.slot \in Slots
  BY DEF CoreInv, EpochShape, CardRoles
<1>2. epoch' = NoEpoch /\ cursor' = NextSlot(epoch.slot) /\ cursor' \in Slots
  BY <1>1, NextSlotIs DEF FinishCardTransaction
<1>3. ASSUME NEW s \in Slots PROVE seen'.overtaken[s] + Distance(cursor', s) < NSlots
  BY <1>2 DEF CoreInv, Rotation, Turn, CardRoles
<1>4. FreeBus'
  BY <1>2, <1>3 DEF FreeBus, Distance, NoEpoch
<1>5. QED
  BY <1>4, FreeBusIsFine, PTL

\* A card's epoch goes on, in the same or in another of its roles.
LEMMA EpochGoesOn ==
  ASSUME CoreInv, epoch.role \in CardRoles, cursor' = cursor, epoch' \in Epoch,
         epoch'.role \in CardRoles, epoch'.slot = epoch.slot, RestTyped',
         seen'.overtaken = seen.overtaken, WellFormed(dma'), EpochShape', BurstOfEpoch'
  PROVE  CoreInv'
<1>1. TypeOK'
  BY TypeOKIs DEF CoreInv, WellFormed, TypeOK, RestTyped
<1>2. Turn' = Turn
  BY DEF Turn, CardRoles, NextSlot
<1>3. Rotation'
  BY <1>2 DEF CoreInv, Rotation, Distance
<1>4. QED
  BY <1>1, <1>3 DEF CoreInv

-----------------------------------------------------------------------------
(* Clocks of the roles Idle and Worker.                                     *)

\* No card's epoch, before or after: the engine and the rotation are left alone.
LEMMA BusForTheHost ==
  ASSUME CoreInv, epoch.role \in {"Idle", "Worker"}, epoch' \in Epoch,
         epoch'.role \in {"Idle", "Worker"}, epoch'.role = "Worker" => epoch'.slot \in Slots,
         epoch'.address = None, ~epoch'.writeAck, RestTyped',
         UNCHANGED <<dma, cursor, seen>>
  PROVE  CoreInv'
<1>1. TypeOK'
  BY DEF CoreInv, TypeOK, RestTyped
<1>2. WellFormed(dma)'
  BY DEF CoreInv
<1>3. EpochShape'
  BY DEF EpochShape
<1>4. BurstOfEpoch'
  BY DEF CoreInv, BurstOfEpoch, DmaEpochOwnsBurst, AcksFollowMemory
<1>5. Rotation'
  BY DEF CoreInv, Rotation, Turn, Distance
<1>6. QED
  BY <1>1, <1>2, <1>3, <1>4, <1>5 DEF CoreInv

LEMMA StartWorkerKeeps ==
  ASSUME CoreInv, NEW request \in WorkerRequests \cup {None}, StartWorker(request)
  PROVE  CoreInv'
<1>1. RestTyped /\ epoch \in Epoch /\ epoch.role = "Idle" /\ epoch.address = None /\ ~epoch.writeAck
  BY TypeOKIs DEF CoreInv, StartWorker, EpochShape
<1>2. Queue(request) \in WorkerRequest
  BY <1>1, QueueTyped DEF StartWorker
<1>3. worker' \in WorkerEngine
  BY <1>1, <1>2, DmaConstants DEF StartWorker, RestTyped, WorkerEngine
<1>4. RestTyped'
  BY <1>1, <1>3 DEF StartWorker, RestTyped
<1>5. /\ epoch' \in Epoch /\ epoch'.role \in {"Idle", "Worker"}
      /\ epoch'.role = "Worker" => epoch'.slot \in Slots
      /\ epoch'.address = None /\ ~epoch'.writeAck
  <2>1. CASE epoch' = epoch
    BY <1>1, <2>1
  <2>2. CASE epoch' = [epoch EXCEPT !.role = "Worker", !.slot = Queue(request).slot]
    <3>1. Queue(request).slot \in Slots
      BY <1>2 DEF WorkerRequest
    <3>2. QED
      BY <1>1, <2>2, <3>1 DEF Epoch, Roles
  <2>3. QED
    BY <2>1, <2>2 DEF StartWorker
<1>6. QED
  BY <1>1, <1>4, <1>5, BusForTheHost DEF StartWorker

LEMMA WorkerEndsTyped ==
  ASSUME NEW reply
  PROVE  WorkerEnds(reply) \in WorkerResults \cup {None}
  BY DEF WorkerEnds, WorkerResults

LEMMA WorkerClockKeeps ==
  ASSUME CoreInv, NEW request \in WorkerRequests \cup {None},
         NEW reply \in {"Ack", "BadData", "Err", "Wait"}, WorkerClock(request, reply)
  PROVE  CoreInv'
<1>1. /\ RestTyped /\ epoch \in Epoch /\ epoch.role = "Worker" /\ epoch.address = None
      /\ ~epoch.writeAck /\ epoch.slot \in Slots
  BY TypeOKIs DEF CoreInv, WorkerClock, EpochShape
<1>2. queued' \in WorkerRequest \cup {None}
  BY <1>1, QueueTyped DEF WorkerClock
<1>3. CASE WorkerEnds(reply) # None
  <2>1. worker' = IdleWorker /\ worker' \in WorkerEngine
    BY <1>3, DmaConstants DEF WorkerClock, IdleWorker, WorkerEngine
  <2>2. done' \in [worker : WorkerResults \cup {None}, dma : Completion \cup {Protection, None}]
    BY <1>1, <1>3, WorkerEndsTyped DEF WorkerClock, RestTyped
  <2>3. RestTyped'
    BY <1>1, <1>2, <2>1, <2>2 DEF WorkerClock, RestTyped
  <2>4. /\ epoch' \in Epoch /\ epoch'.role = "Idle" /\ epoch'.address = None /\ ~epoch'.writeAck
    <3>1. epoch' = NoEpoch
      BY <1>3 DEF WorkerClock
    <3>2. QED
      BY <3>1, NoEpochTyped DEF NoEpoch
  <2>5. QED
    BY <1>1, <2>3, <2>4, BusForTheHost DEF WorkerClock
<1>4. CASE WorkerEnds(reply) = None
  <2>1. reply = "Wait" => worker.wait + 1 < Timeout
    <3>1. worker.wait \in Nat
      BY <1>1 DEF RestTyped, WorkerEngine
    <3>2. QED
      BY <1>4, <3>1, DmaConstants, NoneIsNoSlot DEF WorkerEnds
  <2>2. worker' \in WorkerEngine
    <3>1. worker \in WorkerEngine
      BY <1>1 DEF RestTyped
    <3>2. CASE reply = "Wait"
      <4>1. worker' = [worker EXCEPT !.wait = worker.wait + 1]
        BY <1>4, <3>2 DEF WorkerClock
      <4>2. QED
        BY <2>1, <3>1, <3>2, <4>1, DmaConstants DEF WorkerEngine
    <3>3. CASE reply # "Wait"
      <4>1. worker' = [worker EXCEPT !.state = "Data", !.wait = 0]
        BY <1>4, <3>3 DEF WorkerClock
      <4>2. 0 \in 0 .. Timeout
        BY DmaConstants
      <4>3. QED
        BY <3>1, <4>1, <4>2 DEF WorkerEngine
    <3>4. QED
      BY <3>2, <3>3
  <2>3. RestTyped'
    BY <1>1, <1>2, <1>4, <2>2 DEF WorkerClock, RestTyped
  <2>4. QED
    BY <1>1, <1>4, <2>3, BusForTheHost DEF WorkerClock
<1>5. QED
  BY <1>3, <1>4

LEMMA ArbitrateKeeps ==
  ASSUME CoreInv, NEW requesting \in SUBSET Slots, Arbitrate(requesting)
  PROVE  CoreInv'
<1> DEFINE u == Chosen(requesting)
<1>1. /\ RestTyped /\ epoch \in Epoch /\ epoch.role = "Idle" /\ epoch.address = None
      /\ ~epoch.writeAck /\ cursor \in Slots /\ WellFormed(dma) /\ dma.completion = None
  BY TypeOKIs DEF CoreInv, Arbitrate, EpochShape, BurstOfEpoch
<1>2. seen.overtaken \in [Slots -> Nat]
  BY <1>1 DEF RestTyped
<1>3. /\ seen' \in [acks : Nat, commits : Nat, overtaken : [Slots -> Nat]]
      /\ \A s \in Slots : seen'.overtaken[s] =
           IF s \in requesting /\ s # u THEN seen.overtaken[s] + 1 ELSE 0
  BY <1>1, <1>2 DEF Arbitrate, RestTyped
<1>4. RestTyped'
  BY <1>1, <1>3 DEF Arbitrate, RestTyped
<1>5. \A s \in Slots : seen.overtaken[s] + Distance(cursor, s) < NSlots
  BY <1>1 DEF CoreInv, Rotation, Turn
<1>6. CASE requesting = {}
  <2>1. epoch' = epoch /\ cursor' = cursor /\ dma' = dma
    BY <1>6 DEF Arbitrate
  <2>2. TypeOK' /\ EpochShape' /\ BurstOfEpoch' /\ WellFormed(dma)'
    BY <1>1, <1>4, <2>1
       DEF WellFormed, TypeOK, RestTyped, EpochShape, BurstOfEpoch, DmaEpochOwnsBurst, AcksFollowMemory
  <2>3. ASSUME NEW s \in Slots PROVE seen'.overtaken[s] + Distance(cursor, s) < NSlots
    <3>1. Distance(cursor, s) \in 0 .. NSlots - 1 /\ seen'.overtaken[s] = 0
      BY <1>1, <1>3, <1>6, DistanceIs
    <3>2. QED
      BY <3>1, DmaConstants
  <2>4. Rotation'
    BY <1>1, <2>1, <2>3 DEF Rotation, Turn, Distance
  <2>5. QED
    BY <2>2, <2>4 DEF CoreInv
<1>7. CASE requesting # {}
  <2>1. u \in requesting /\ \A t \in requesting : Distance(cursor, u) <= Distance(cursor, t)
    BY <1>1, <1>7, ChosenIs
  <2>2. epoch' = [epoch EXCEPT !.role = "Grant", !.slot = u] /\ cursor' = cursor /\ dma' = dma
    BY <1>7 DEF Arbitrate
  <2> HIDE DEF u
  <2>3. /\ epoch' \in Epoch /\ epoch'.role = "Grant" /\ epoch'.slot = u
        /\ epoch'.address = None /\ ~epoch'.writeAck
    BY <1>1, <2>1, <2>2 DEF Epoch, Roles
  <2>4. TypeOK' /\ EpochShape' /\ BurstOfEpoch' /\ WellFormed(dma)'
    BY <1>1, <1>4, <2>1, <2>2, <2>3
       DEF WellFormed, TypeOK, RestTyped, EpochShape, BurstOfEpoch, DmaEpochOwnsBurst, AcksFollowMemory
  <2>5. NextSlot(u) \in Slots
    BY <2>1, NextSlotIs
  <2>6. ASSUME NEW s \in Slots PROVE seen'.overtaken[s] + Distance(NextSlot(u), s) < NSlots
    <3>1. /\ Distance(NextSlot(u), s) \in 0 .. NSlots - 1 /\ Distance(cursor, s) \in 0 .. NSlots - 1
          /\ seen.overtaken[s] \in Nat
      BY <1>1, <1>2, <2>5, DistanceIs
    <3>2. CASE s \in requesting /\ s # u
      <4>1. Distance(NextSlot(u), s) + 1 <= Distance(cursor, s)
        BY <1>1, <2>1, <3>2, RotationNearer
      <4>2. seen'.overtaken[s] = seen.overtaken[s] + 1 /\ seen.overtaken[s] + Distance(cursor, s) < NSlots
        BY <1>3, <1>5, <3>2
      <4>3. QED
        BY <3>1, <4>1, <4>2, DmaConstants
    <3>3. CASE ~(s \in requesting /\ s # u)
      BY <1>3, <3>1, <3>3, DmaConstants
    <3>4. QED
      BY <3>2, <3>3
  <2>7. Turn' = NextSlot(u)
    BY <2>3 DEF Turn, NextSlot
  <2>8. Rotation'
    BY <2>6, <2>7 DEF Rotation, Distance
  <2>9. QED
    BY <2>4, <2>8 DEF CoreInv
<1>8. QED
  BY <1>6, <1>7

-----------------------------------------------------------------------------
(* Clocks of the roles Grant and Notification.                              *)

LEMMA BeforeTheBurst ==
  ASSUME CoreInv, epoch.role \in {"Grant", "Notification"}
  PROVE  /\ RestTyped /\ epoch \in Epoch /\ epoch.slot \in Slots /\ epoch.role \in CardRoles
         /\ ~epoch.writeAck /\ WellFormed(dma) /\ dma.completion = None
  BY TypeOKIs DEF CoreInv, EpochShape, BurstOfEpoch, CardRoles

\* The epoch ends and the engine does not hear of it.
LEMMA EndsUnheard ==
  ASSUME CoreInv, epoch.role \in {"Grant", "Notification"}, FinishCardTransaction, RestTyped',
         seen' = seen, dma' = dma
  PROVE  CoreInv'
  BY BeforeTheBurst, EpochOver

LEMMA RequestDroppedKeeps ==
  ASSUME CoreInv, NEW request \in WorkerRequests \cup {None}, RequestDropped(request)
  PROVE  CoreInv'
<1>1. epoch.role \in {"Grant", "Notification"}
  BY DEF RequestDropped
<1>2. RestTyped'
  BY <1>1, BeforeTheBurst, QueueTyped DEF RequestDropped, RestTyped
<1>3. QED
  BY <1>1, <1>2, EndsUnheard DEF RequestDropped

LEMMA BadAddressKeeps ==
  ASSUME CoreInv, NEW request \in WorkerRequests \cup {None}, BadAddress(request)
  PROVE  CoreInv'
<1>1. epoch.role \in {"Grant", "Notification"}
  BY DEF BadAddress
<1>2. RestTyped'
  BY <1>1, BeforeTheBurst, QueueTyped DEF BadAddress, RestTyped
<1>3. QED
  BY <1>1, <1>2, EndsUnheard DEF BadAddress, Refuse

LEMMA NotificationDataKeeps ==
  ASSUME CoreInv, NEW request \in WorkerRequests \cup {None}, NEW pins \in DataPins,
         NotificationData(request, pins)
  PROVE  CoreInv'
<1>1. epoch.role = "Notification" /\ epoch.channel \in NotifyChannels
  BY DEF NotificationData, CoreInv, EpochShape
<1>2. <<epoch.slot, epoch.channel>> \in Slots \X NotifyChannels
  BY <1>1, BeforeTheBurst
<1>3. notifications' \in [pending : SUBSET (Slots \X NotifyChannels),
                         enabled : SUBSET (Slots \X NotifyChannels),
                         masked : SUBSET (Slots \X NotifyChannels)]
  BY <1>1, <1>2, BeforeTheBurst DEF NotificationData, RestTyped
<1>4. RestTyped'
  BY <1>1, <1>3, BeforeTheBurst, QueueTyped DEF NotificationData, RestTyped
<1>5. QED
  BY <1>1, <1>4, EndsUnheard DEF NotificationData

\* The epoch goes on and its address is not decoded, or not a DMA address.
LEMMA GoesOnUnheard ==
  ASSUME CoreInv, epoch.role \in {"Grant", "Notification"}, epoch' \in Epoch, cursor' = cursor,
         epoch'.role \in {"Grant", "Notification"}, epoch'.slot = epoch.slot,
         epoch'.role = "Notification" => epoch'.channel \in NotifyChannels,
         epoch'.address = None, ~epoch'.writeAck, RestTyped', seen' = seen, dma' = dma
  PROVE  CoreInv'
<1>1. /\ RestTyped /\ epoch.slot \in Slots /\ epoch.role \in CardRoles
      /\ WellFormed(dma) /\ dma.completion = None
  BY BeforeTheBurst
<1>2. EpochShape' /\ BurstOfEpoch' /\ WellFormed(dma')
  BY <1>1 DEF EpochShape, BurstOfEpoch, DmaEpochOwnsBurst, AcksFollowMemory
<1>3. QED
  BY <1>1, <1>2, EpochGoesOn DEF CardRoles

LEMMA NoStrobeKeeps ==
  ASSUME CoreInv, NEW request \in WorkerRequests \cup {None}, NoStrobe(request)
  PROVE  CoreInv'
<1>1. /\ epoch.role \in {"Grant", "Notification"} /\ epoch.address = None
      /\ epoch.role = "Notification" => epoch.channel \in NotifyChannels
  BY DEF NoStrobe, CoreInv, EpochShape
<1>2. epoch \in Epoch /\ ~epoch.writeAck
  BY <1>1, BeforeTheBurst
<1>3. RestTyped'
  BY <1>1, BeforeTheBurst, QueueTyped DEF NoStrobe, RestTyped
<1>4. CASE epoch.wait + 1 >= Timeout
  BY <1>1, <1>3, <1>4, EndsUnheard DEF NoStrobe, WaitForStrobe, Refuse
<1>5. CASE ~(epoch.wait + 1 >= Timeout)
  <2>1. epoch' = [epoch EXCEPT !.wait = epoch.wait + 1] /\ cursor' = cursor
    BY <1>5 DEF NoStrobe, WaitForStrobe, Continue
  <2>2. epoch.wait + 1 \in 0 .. Timeout
    BY <1>2, <1>5, DmaConstants DEF Epoch
  <2>3. /\ epoch' \in Epoch /\ epoch'.role = epoch.role /\ epoch'.slot = epoch.slot
        /\ epoch'.channel = epoch.channel /\ epoch'.address = None /\ ~epoch'.writeAck
    BY <1>1, <1>2, <2>1, <2>2 DEF Epoch
  <2>4. QED
    BY <1>1, <1>3, <2>1, <2>3, GoesOnUnheard DEF NoStrobe
<1>6. QED
  BY <1>4, <1>5

LEMMA NotificationAddressKeeps ==
  ASSUME CoreInv, NEW request \in WorkerRequests \cup {None}, NEW channel \in NotifyChannels,
         NotificationAddress(request, channel)
  PROVE  CoreInv'
<1>1. epoch.role = "Grant" /\ epoch.address = None
  BY DEF NotificationAddress
<1>2. epoch \in Epoch /\ ~epoch.writeAck
  BY <1>1, BeforeTheBurst
<1>3. RestTyped'
  BY <1>1, BeforeTheBurst, QueueTyped DEF NotificationAddress, RestTyped
<1>4. epoch' = [epoch EXCEPT !.role = "Notification", !.channel = channel, !.wait = 0] /\ cursor' = cursor
  BY DEF NotificationAddress, Acknowledge
<1>5. 0 \in 0 .. Timeout
  BY DmaConstants
<1>6. /\ epoch' \in Epoch /\ epoch'.role = "Notification" /\ epoch'.slot = epoch.slot
      /\ epoch'.channel = channel /\ epoch'.address = None /\ ~epoch'.writeAck
  BY <1>1, <1>2, <1>4, <1>5 DEF Epoch, Roles
<1>7. QED
  BY <1>1, <1>3, <1>4, <1>6, GoesOnUnheard DEF NotificationAddress

LEMMA DmaAddressKeeps ==
  ASSUME CoreInv, NEW request \in WorkerRequests \cup {None}, NEW handle \in Handles,
         NEW words \in Bursts, NEW dir \in Directions, DmaAddress(request, handle, words, dir)
  PROVE  CoreInv'
<1> DEFINE ok == StartAllowed(dma, epoch.slot, handle, words, dir)
           address == [ok |-> ok, direction |-> dir]
<1>1. epoch.role = "Grant" /\ epoch.address = None
  BY DEF DmaAddress
<1>2. /\ RestTyped /\ epoch \in Epoch /\ epoch.slot \in Slots /\ epoch.role \in CardRoles
      /\ ~epoch.writeAck /\ WellFormed(dma) /\ dma.completion = None
  BY <1>1, BeforeTheBurst
<1>3. RestTyped'
  BY <1>2, QueueTyped DEF DmaAddress, RestTyped
<1>4. epoch' = [epoch EXCEPT !.address = address, !.wait = 0] /\ cursor' = cursor /\ seen' = seen
  BY DEF DmaAddress, Continue
<1>5. ok \in BOOLEAN
  BY DEF StartAllowed
<1>6. 0 \in 0 .. Timeout /\ address \in [ok : BOOLEAN, direction : Directions]
  BY <1>5, DmaConstants
<1>7. /\ epoch' \in Epoch /\ epoch'.role = "Grant" /\ epoch'.slot = epoch.slot
      /\ epoch'.address = address /\ ~epoch'.writeAck
  BY <1>1, <1>2, <1>4, <1>6 DEF Epoch
<1>8. EpochShape'
  BY <1>2, <1>7 DEF EpochShape
<1>9. address.ok = ok /\ address.direction = dir
  OBVIOUS
<1>10. handle \in [channel : Channels, generation : Generations, offset : Nat]
  BY CoreInputs DEF Handles
<1>11. CASE ok
  <2>1. dma' = Start(dma, epoch.slot, handle, words, dir)
    BY <1>11 DEF DmaAddress
  <2>2. /\ WellFormed(dma') /\ dma'.active # None /\ dma'.completion = None
        /\ dma'.state # "DeviceReadReady" /\ dma'.active.slot = epoch.slot
        /\ dma'.active.direction = dir /\ dma'.active.acknowledged = 0
    BY <1>2, <1>10, <1>11, <2>1, StartWell
  <2> HIDE DEF ok, address
  <2>3. BurstOfEpoch'
    BY <1>7, <1>9, <2>2 DEF BurstOfEpoch, DmaEpochOwnsBurst, AcksFollowMemory
  <2>4. QED
    BY <1>2, <1>3, <1>4, <1>7, <1>8, <2>2, <2>3, EpochGoesOn DEF CardRoles
<1>12. CASE ~ok
  <2>1. dma' = dma
    BY <1>12 DEF DmaAddress
  <2> HIDE DEF ok, address
  <2>2. BurstOfEpoch'
    BY <1>2, <1>7, <1>9, <1>12, <2>1 DEF BurstOfEpoch, DmaEpochOwnsBurst, AcksFollowMemory
  <2>3. QED
    BY <1>2, <1>3, <1>4, <1>7, <1>8, <2>1, <2>2, EpochGoesOn DEF CardRoles
<1>13. QED
  BY <1>11, <1>12

LEMMA AnswerDmaAddressKeeps ==
  ASSUME CoreInv, NEW request \in WorkerRequests \cup {None}, AnswerDmaAddress(request)
  PROVE  CoreInv'
<1>1. epoch.role = "Grant" /\ epoch.address # None
  BY DEF AnswerDmaAddress
<1>2. /\ RestTyped /\ epoch \in Epoch /\ epoch.slot \in Slots /\ epoch.role \in CardRoles
      /\ ~epoch.writeAck /\ WellFormed(dma) /\ dma.completion = None /\ dma' = dma
  BY <1>1, BeforeTheBurst DEF AnswerDmaAddress
<1>3. queued' \in WorkerRequest \cup {None}
  BY <1>2, QueueTyped DEF AnswerDmaAddress
<1>4. CASE epoch.address.ok
  <2>1. /\ epoch' = [epoch EXCEPT !.role = "Dma", !.address = None, !.wait = 0,
                                  !.direction = epoch.address.direction]
        /\ cursor' = cursor /\ seen' = [seen EXCEPT !.acks = 0, !.commits = 0]
    BY <1>4 DEF AnswerDmaAddress, Acknowledge
  <2>2. seen' \in [acks : Nat, commits : Nat, overtaken : [Slots -> Nat]]
        /\ seen'.acks = 0 /\ seen'.commits = 0 /\ seen'.overtaken = seen.overtaken
    BY <1>2, <2>1 DEF RestTyped
  <2>3. RestTyped'
    BY <1>2, <1>3, <1>4, <2>2 DEF AnswerDmaAddress, RestTyped
  <2>4. 0 \in 0 .. Timeout /\ epoch.address.direction \in Directions
    BY <1>1, <1>2, DmaConstants DEF Epoch
  <2>5. /\ epoch' \in Epoch /\ epoch'.role = "Dma" /\ epoch'.slot = epoch.slot
        /\ epoch'.address = None /\ ~epoch'.writeAck
        /\ epoch'.direction = epoch.address.direction
    BY <1>2, <2>1, <2>4 DEF Epoch, Roles
  <2>6. EpochShape'
    BY <1>2, <2>5 DEF EpochShape
  <2>7. /\ dma.active # None /\ dma.state # "DeviceReadReady" /\ dma.active.slot = epoch.slot
        /\ dma.active.direction = epoch.address.direction /\ dma.active.acknowledged = 0
    BY <1>1, <1>4 DEF CoreInv, BurstOfEpoch
  <2>8. BurstOfEpoch'
    <3>1. DmaEpochOwnsBurst'
      BY <1>2, <2>5, <2>7 DEF DmaEpochOwnsBurst
    <3>2. AcksFollowMemory'
      <4>1. ~(epoch'.writeAck \/ dma'.state = "DeviceReadReady") /\ dma'.active = dma.active
        BY <1>2, <2>5, <2>7
      <4>2. seen'.commits = seen'.acks + 0 /\ dma.active.acknowledged = seen'.commits - 0
        BY <2>2, <2>7
      <4>3. QED
        BY <4>1, <4>2 DEF AcksFollowMemory
    <3>3. QED
      BY <1>2, <2>5, <3>1, <3>2 DEF BurstOfEpoch
  <2>9. QED
    BY <1>2, <2>1, <2>2, <2>3, <2>5, <2>6, <2>8, EpochGoesOn DEF CardRoles
<1>5. CASE ~epoch.address.ok
  <2>1. FinishCardTransaction /\ done' = [done EXCEPT !.dma = Protection] /\ seen' = seen
    BY <1>5 DEF AnswerDmaAddress, Refuse
  <2>2. RestTyped'
    BY <1>2, <1>3, <2>1 DEF AnswerDmaAddress, RestTyped
  <2>3. QED
    BY <1>1, <1>2, <2>1, <2>2, EndsUnheard
<1>6. QED
  BY <1>4, <1>5

-----------------------------------------------------------------------------
(* Clocks of the role Dma.                                                  *)

LEMMA InTheBurst ==
  ASSUME CoreInv, epoch.role = "Dma"
  PROVE  /\ RestTyped /\ epoch \in Epoch /\ epoch.slot \in Slots /\ epoch.role \in CardRoles
         /\ epoch.address = None /\ epoch.writeAck \in BOOLEAN /\ WellFormed(dma)
         /\ BurstOfDmaEpoch(dma, epoch, seen)
         /\ seen.acks \in Nat /\ seen.commits \in Nat
  BY TypeOKIs, BurstOfDmaEpochIs DEF CoreInv, EpochShape, CardRoles, RestTyped, Epoch

\* The engine has become d: the epoch e goes on with d's burst, or ends with its completion.
LEMMA OutcomeKeeps ==
  ASSUME CoreInv, NEW request \in WorkerRequests \cup {None}, DmaClock(request),
         NEW d, NEW e, NEW ack, NEW over \in BOOLEAN, DmaOutcome(d, e, ack, over), WellFormed(d),
         e \in Epoch, e.role = "Dma", e.slot = epoch.slot, e.address = None,
         seen' \in [acks : Nat, commits : Nat, overtaken : [Slots -> Nat]],
         seen'.overtaken = seen.overtaken,
         over => /\ d.active = None /\ d.completion # None
                 /\ d.completion.result = "Ok" =>
                      /\ d.completion.beats = seen'.commits
                      /\ seen'.acks \in {seen'.commits - 1, seen'.commits},
         ~over => BurstOfDmaEpoch(d, e, seen')
  PROVE  CoreInv' /\ OkStep
<1>1. /\ RestTyped /\ epoch.slot \in Slots /\ epoch.role = "Dma" /\ epoch.role \in CardRoles
  BY InTheBurst DEF DmaClock
<1>2. queued' \in WorkerRequest \cup {None}
  BY <1>1, QueueTyped DEF DmaClock
<1>3. CASE over
  <2>1. FinishCardTransaction /\ dma' = TakeCompletion(d) /\ done' = [done EXCEPT !.dma = d.completion]
    BY <1>3 DEF DmaOutcome
  <2>2. d.completion \in Completion
    BY <1>3 DEF WellFormed, Engine
  <2>3. WellFormed(dma') /\ dma'.completion = None
    BY <2>1, TakeWell
  <2>4. done' \in [worker : WorkerResults \cup {None}, dma : Completion \cup {Protection, None}]
        /\ done'.dma = d.completion
    BY <1>1, <2>1, <2>2 DEF RestTyped
  <2>5. RestTyped'
    BY <1>1, <1>2, <2>4 DEF DmaClock, RestTyped
  <2>6. CoreInv'
    BY <1>1, <2>1, <2>3, <2>5, EpochOver
  <2>7. OkStep
    BY <1>3, <2>4 DEF OkStep
  <2>8. QED
    BY <2>6, <2>7
<1>4. CASE ~over
  <2>1. epoch' = e /\ dma' = d /\ cursor' = cursor /\ done' = done
    BY <1>4 DEF DmaOutcome
  <2>2. RestTyped'
    BY <1>1, <1>2, <2>1 DEF DmaClock, RestTyped
  <2>3. EpochShape'
    BY <1>1, <2>1 DEF EpochShape
  <2>4. BurstOfEpoch'
    BY <1>4, <2>1 DEF BurstOfDmaEpoch, BurstOfEpoch, DmaEpochOwnsBurst, AcksFollowMemory
  <2>5. CoreInv'
    BY <1>1, <2>1, <2>2, <2>3, <2>4, EpochGoesOn DEF CardRoles
  <2>6. OkStep
    BY <2>1 DEF OkStep
  <2>7. QED
    BY <2>5, <2>6
<1>5. QED
  BY <1>3, <1>4

(* The clock of a burst in state next: the engine d it becomes has failed, or has the same
   burst in another state, and no beat was acknowledged. *)
LEMMA QuietClockKeeps ==
  ASSUME CoreInv, NEW request \in WorkerRequests \cup {None}, DmaClock(request), ~epoch.writeAck,
         dma.active # None, NEW d, WellFormed(d), EndOnError(d, epoch), seen' = seen,
         Failed(d) \/ (/\ KeepsBurst(dma, d)
                       /\ (d.state = "DeviceReadReady") <=> (dma.state = "DeviceReadReady"))
  PROVE  CoreInv' /\ OkStep
<1> DEFINE over == d.completion # None /\ d.completion.result # "Ok"
<1>1. /\ RestTyped /\ epoch \in Epoch /\ epoch.role = "Dma" /\ epoch.address = None
      /\ BurstOfDmaEpoch(dma, epoch, seen)
  BY InTheBurst DEF DmaClock
<1>2. DmaOutcome(d, epoch, FALSE, over) /\ over \in BOOLEAN
  BY DEF EndOnError
<1>3. seen' \in [acks : Nat, commits : Nat, overtaken : [Slots -> Nat]]
  BY <1>1 DEF RestTyped
<1>4. over => d.active = None
  BY DEF Failed, KeepsBurst
<1>5. ~over => BurstOfDmaEpoch(d, epoch, seen')
  <2> SUFFICES ASSUME ~over PROVE BurstOfDmaEpoch(d, epoch, seen)
    OBVIOUS
  <2>1. KeepsBurst(dma, d) /\ ((d.state = "DeviceReadReady") <=> (dma.state = "DeviceReadReady"))
    BY DEF Failed
  <2>2. QED
    BY <1>1, <2>1 DEF BurstOfDmaEpoch, KeepsBurst
<1> HIDE DEF over
<1>6. over => d.completion # None /\ ~(d.completion.result = "Ok")
  BY DEF over
<1>7. QED
  BY <1>1, <1>2, <1>3, <1>4, <1>5, <1>6, OutcomeKeeps

LEMMA CardWritesWordKeeps ==
  ASSUME CoreInv, NEW request \in WorkerRequests \cup {None}, NEW word \in Words,
         NEW pins \in DataPins, CardWritesWord(request, word, pins)
  PROVE  CoreInv' /\ OkStep
<1> DEFINE d == IF pins = "Undriven" THEN dma ELSE OfferDeviceWrite(dma, word, pins = "Good")
<1>1. /\ WellFormed(dma) /\ dma.state = "AwaitDeviceWrite" /\ dma.active # None
      /\ DmaClock(request) /\ ~epoch.writeAck /\ EndOnError(d, epoch) /\ seen' = seen
      /\ dma.completion = None
  BY InTheBurst DEF CardWritesWord, DmaClock, WellFormed
<1>2. CASE pins = "Undriven"
  <2>1. d = dma
    BY <1>2
  <2> HIDE DEF d
  <2>2. WellFormed(d) /\ KeepsBurst(dma, d)
    BY <1>1, <2>1 DEF KeepsBurst
  <2>3. QED
    BY <1>1, <2>1, <2>2, QuietClockKeeps
<1>3. CASE pins # "Undriven"
  <2>1. d = OfferDeviceWrite(dma, word, pins = "Good") /\ (pins = "Good") \in BOOLEAN
    BY <1>3
  <2> HIDE DEF d
  <2>2. WellFormed(d) /\ (Failed(d) \/ (KeepsBurst(dma, d) /\ d.state = "MemRequest"))
    BY <1>1, <2>1, OfferWell
  <2>3. QED
    BY <1>1, <2>2, QuietClockKeeps
<1>4. QED
  BY <1>2, <1>3

LEMMA CardWaitsKeeps ==
  ASSUME CoreInv, NEW request \in WorkerRequests \cup {None}, CardWaits(request)
  PROVE  CoreInv' /\ OkStep
<1>1. /\ WellFormed(dma) /\ dma.active # None /\ DmaClock(request) /\ ~epoch.writeAck
      /\ EndOnError(WaitCycle(dma), epoch) /\ seen' = seen
  BY InTheBurst DEF CardWaits, DmaClock, WellFormed
<1>2. /\ WellFormed(WaitCycle(dma))
      /\ Failed(WaitCycle(dma)) \/ (KeepsBurst(dma, WaitCycle(dma)) /\ WaitCycle(dma).state = dma.state)
  BY <1>1, WaitWell
<1>3. QED
  BY <1>1, <1>2, QuietClockKeeps

LEMMA RequestMemoryKeeps ==
  ASSUME CoreInv, NEW request \in WorkerRequests \cup {None}, NEW ready \in BOOLEAN,
         RequestMemory(request, ready)
  PROVE  CoreInv' /\ OkStep
<1> DEFINE d == IF ready THEN MemoryRequestAccepted(dma) ELSE WaitCycle(dma)
<1>1. /\ WellFormed(dma) /\ dma.active # None /\ dma.state = "MemRequest" /\ DmaClock(request)
      /\ ~epoch.writeAck /\ EndOnError(d, epoch) /\ seen' = seen
  BY InTheBurst DEF RequestMemory, DmaClock, WellFormed
<1>2. WellFormed(d) /\ (Failed(d) \/ (KeepsBurst(dma, d) /\ d.state # "DeviceReadReady"))
  BY <1>1, WaitWell, AcceptedWell
<1> HIDE DEF d
<1>3. QED
  BY <1>1, <1>2, QuietClockKeeps

\* Memory confirms the word, answers with a fault or in kind, or not at all.
LEMMA AwaitMemoryKeeps ==
  ASSUME CoreInv, NEW request \in WorkerRequests \cup {None},
         NEW response \in MemoryResponses \cup {None}, AwaitMemory(request, response)
  PROVE  CoreInv' /\ OkStep
<1> DEFINE d == MemoryResponse(dma, response)
           wrote == epoch.direction = "DeviceWrite" /\ response.kind = "WriteDone"
           read  == epoch.direction = "DeviceRead" /\ response.kind = "ReadData"
           e == [epoch EXCEPT !.writeAck = wrote]
           over == d.completion # None /\ d.completion.result # "Ok"
<1>1. /\ RestTyped /\ epoch \in Epoch /\ epoch.slot \in Slots /\ epoch.role = "Dma"
      /\ epoch.address = None /\ WellFormed(dma) /\ BurstOfDmaEpoch(dma, epoch, seen)
      /\ seen.acks \in Nat /\ seen.commits \in Nat
      /\ dma.state = "MemResponse" /\ dma.active # None /\ ~epoch.writeAck /\ DmaClock(request)
  BY InTheBurst DEF AwaitMemory, DmaClock, WellFormed
<1>2. /\ dma.active.direction = epoch.direction /\ dma.active.slot = epoch.slot
      /\ seen.commits = seen.acks /\ dma.active.acknowledged = seen.commits
  <2>1. dma.active.acknowledged = seen.commits - 0 /\ seen.commits = seen.acks + 0
    BY <1>1 DEF BurstOfDmaEpoch
  <2>2. QED
    BY <1>1, <2>1 DEF BurstOfDmaEpoch
<1>3. CASE response = None
  <2>1. EndOnError(WaitCycle(dma), epoch) /\ seen' = seen
    BY <1>3 DEF AwaitMemory
  <2>2. /\ WellFormed(WaitCycle(dma))
        /\ Failed(WaitCycle(dma))
             \/ (KeepsBurst(dma, WaitCycle(dma)) /\ WaitCycle(dma).state = dma.state)
    BY <1>1, WaitWell
  <2>3. QED
    BY <1>1, <2>1, <2>2, QuietClockKeeps
<1>4. CASE response # None
  <2>1. /\ response \in MemoryResponses
        /\ DmaOutcome(d, e, FALSE, over)
        /\ seen' = [seen EXCEPT !.commits = @ + (IF wrote \/ read THEN 1 ELSE 0)]
    BY <1>4 DEF AwaitMemory, EndOnError
  <2>2. /\ wrote => d = BeatDone(dma, "AwaitDeviceWrite")
        /\ read => WellFormed(d) /\ KeepsBurst(dma, d) /\ d.state = "DeviceReadReady"
        /\ ~wrote /\ ~read => WellFormed(d) /\ Failed(d)
    BY <1>1, <1>2, <2>1, ResponseWell
  <2>3. e \in Epoch /\ e.role = "Dma" /\ e.slot = epoch.slot /\ e.address = None
        /\ e.direction = epoch.direction /\ e.writeAck = wrote
    BY <1>1 DEF Epoch
  <2>4. /\ seen' \in [acks : Nat, commits : Nat, overtaken : [Slots -> Nat]]
        /\ seen'.overtaken = seen.overtaken /\ seen'.acks = seen.acks
        /\ seen'.commits = seen.commits + (IF wrote \/ read THEN 1 ELSE 0)
    BY <1>1, <2>1 DEF RestTyped
  <2>5. ~(wrote /\ read)
    OBVIOUS
  <2>6. wrote => /\ dma.active.direction = "DeviceWrite"
                 /\ "AwaitDeviceWrite" \in {"MemRequest", "AwaitDeviceWrite"}
    BY <1>2
  <2>7. over \in BOOLEAN
    OBVIOUS
  <2>8. over <=> d.completion # None /\ d.completion.result # "Ok"
    OBVIOUS
  <2>9. DmaClock(request) /\ DmaOutcome(d, e, FALSE, over) /\ over \in BOOLEAN
    BY <1>1, <2>1
  <2>10. /\ e \in Epoch /\ e.role = "Dma" /\ e.slot = epoch.slot /\ e.address = None
         /\ seen' \in [acks : Nat, commits : Nat, overtaken : [Slots -> Nat]]
         /\ seen'.overtaken = seen.overtaken
    BY <2>3, <2>4
  <2> HIDE DEF d, e, wrote, read, over
  <2>11. CASE wrote
    <3> DEFINE n == dma.active.acknowledged + 1
    <3>1. /\ WellFormed(d)
          /\ \/ Failed(d)
             \/ /\ d.active = None /\ d.state = "Idle"
                /\ d.completion = [result |-> "Ok", beats |-> n] /\ d.completion # None
             \/ /\ d.active # None /\ d.completion = None /\ d.state = "AwaitDeviceWrite"
                /\ d.active.slot = dma.active.slot
                /\ d.active.direction = dma.active.direction
                /\ d.active.acknowledged = n
      BY <1>1, <2>2, <2>6, <2>11, BeatDoneWell
    <3>2. seen'.commits = n /\ n = seen'.acks + 1 /\ n - 0 = n /\ n \in Nat
      BY <1>1, <1>2, <2>4, <2>11
    <3> HIDE DEF n
    <3>3. over => d.active = None /\ d.completion # None /\ d.completion.result # "Ok"
      BY <2>8, <3>1 DEF Failed
    <3>4. ASSUME ~over PROVE BurstOfDmaEpoch(d, e, seen')
      <4>1. CASE d.active = None /\ d.completion = [result |-> "Ok", beats |-> n] /\ d.completion # None
                 /\ d.state = "Idle"
        BY <2>3, <2>11, <3>2, <4>1 DEF BurstOfDmaEpoch
      <4>2. CASE /\ d.active # None /\ d.completion = None /\ d.state = "AwaitDeviceWrite"
                 /\ d.active.slot = dma.active.slot
                 /\ d.active.direction = dma.active.direction
                 /\ d.active.acknowledged = n
        BY <1>2, <2>3, <2>11, <3>2, <4>2 DEF BurstOfDmaEpoch
      <4>3. QED
        BY <2>8, <3>1, <3>4, <4>1, <4>2 DEF Failed
    <3>5. WellFormed(d) /\ (over => d.active = None /\ d.completion # None /\ ~(d.completion.result = "Ok"))
            /\ (~over => BurstOfDmaEpoch(d, e, seen'))
      BY <3>1, <3>3, <3>4
    <3>6. QED
      BY <2>9, <2>10, <3>5, OutcomeKeeps
  <2>12. CASE read
    <3>1. WellFormed(d) /\ KeepsBurst(dma, d) /\ d.state = "DeviceReadReady" /\ ~wrote
      BY <2>2, <2>5, <2>12
    <3>2. ~over
      BY <2>8, <3>1 DEF KeepsBurst
    <3>3. seen'.commits = seen'.acks + 1 /\ dma.active.acknowledged = seen'.commits - 1
      BY <1>1, <1>2, <2>4, <2>12
    <3>4. BurstOfDmaEpoch(d, e, seen')
      BY <1>2, <2>3, <3>1, <3>3 DEF BurstOfDmaEpoch, KeepsBurst
    <3>5. QED
      BY <2>9, <2>10, <3>1, <3>2, <3>4, OutcomeKeeps
  <2>13. CASE ~wrote /\ ~read
    <3>1. WellFormed(d) /\ Failed(d) /\ over
      BY <2>2, <2>8, <2>13 DEF Failed
    <3>2. d.active = None /\ d.completion # None /\ ~(d.completion.result = "Ok")
      BY <3>1 DEF Failed
    <3>3. QED
      BY <2>9, <2>10, <3>1, <3>2, OutcomeKeeps
  <2>14. QED
    BY <2>11, <2>12, <2>13
<1>5. QED
  BY <1>3, <1>4

LEMMA CardReadsWordKeeps ==
  ASSUME CoreInv, NEW request \in WorkerRequests \cup {None}, CardReadsWord(request)
  PROVE  CoreInv' /\ OkStep
<1> DEFINE d == BeatDone(dma, "MemRequest")
           n == dma.active.acknowledged + 1
           over == d.completion # None
<1>1. /\ RestTyped /\ epoch \in Epoch /\ epoch.slot \in Slots /\ epoch.role = "Dma"
      /\ epoch.address = None /\ WellFormed(dma) /\ BurstOfDmaEpoch(dma, epoch, seen)
      /\ seen.acks \in Nat /\ seen.commits \in Nat
      /\ dma.state = "DeviceReadReady" /\ dma.active # None /\ ~epoch.writeAck /\ DmaClock(request)
  BY InTheBurst DEF CardReadsWord, DmaClock, WellFormed
<1>2. /\ dma.active.direction = epoch.direction /\ dma.active.slot = epoch.slot
      /\ seen.commits = seen.acks + 1 /\ dma.active.acknowledged = seen.commits - 1
  BY <1>1 DEF BurstOfDmaEpoch
<1>3. /\ seen' = [seen EXCEPT !.acks = @ + 1]
      /\ DmaOutcome(d, epoch, TRUE, over)
  BY DEF CardReadsWord, AcknowledgeDeviceRead, EndOnCompletion
<1>4. /\ seen' \in [acks : Nat, commits : Nat, overtaken : [Slots -> Nat]]
      /\ seen'.overtaken = seen.overtaken /\ seen'.acks = seen.acks + 1
      /\ seen'.commits = seen.commits
  BY <1>1, <1>3 DEF RestTyped
<1>5. /\ WellFormed(d)
      /\ \/ Failed(d)
         \/ /\ d.active = None /\ d.state = "Idle"
            /\ d.completion = [result |-> "Ok", beats |-> n] /\ d.completion # None
         \/ /\ d.active # None /\ d.completion = None /\ d.state = "MemRequest"
            /\ d.active.slot = dma.active.slot
            /\ d.active.direction = dma.active.direction
            /\ d.active.acknowledged = n
  BY <1>1, BeatDoneWell
<1>6. seen'.commits = n /\ seen'.acks = n /\ n + 0 = n /\ n - 0 = n /\ n \in Nat
  BY <1>1, <1>2, <1>4
<1>7. over \in BOOLEAN /\ (over <=> d.completion # None)
  OBVIOUS
<1> HIDE DEF d, n, over
<1>8. over => /\ d.active = None /\ d.completion # None
              /\ d.completion.result = "Ok" =>
                   /\ d.completion.beats = seen'.commits
                   /\ seen'.acks \in {seen'.commits - 1, seen'.commits}
  BY <1>5, <1>6, <1>7 DEF Failed
<1>9. ASSUME ~over PROVE BurstOfDmaEpoch(d, epoch, seen')
  <2>1. /\ d.active # None /\ d.completion = None /\ d.state = "MemRequest"
        /\ d.active.slot = dma.active.slot
        /\ d.active.direction = dma.active.direction
        /\ d.active.acknowledged = n
    BY <1>5, <1>7, <1>9 DEF Failed
  <2>2. QED
    BY <1>1, <1>2, <1>6, <2>1 DEF BurstOfDmaEpoch
<1>10. DmaClock(request) /\ DmaOutcome(d, epoch, TRUE, over) /\ over \in BOOLEAN
  BY <1>1, <1>3, <1>7
<1>11. /\ epoch \in Epoch /\ epoch.role = "Dma" /\ epoch.address = None /\ WellFormed(d)
       /\ seen' \in [acks : Nat, commits : Nat, overtaken : [Slots -> Nat]]
       /\ seen'.overtaken = seen.overtaken
  BY <1>1, <1>4, <1>5
<1>12. ~over => BurstOfDmaEpoch(d, epoch, seen')
  BY <1>9
<1>13. QED
  BY <1>8, <1>10, <1>11, <1>12, OutcomeKeeps

LEMMA AcknowledgeWriteKeeps ==
  ASSUME CoreInv, NEW request \in WorkerRequests \cup {None}, AcknowledgeWrite(request)
  PROVE  CoreInv' /\ OkStep
<1> DEFINE e == [epoch EXCEPT !.writeAck = FALSE]
           over == dma.completion # None
<1>1. /\ RestTyped /\ epoch \in Epoch /\ epoch.slot \in Slots /\ epoch.role = "Dma"
      /\ epoch.address = None /\ WellFormed(dma) /\ BurstOfDmaEpoch(dma, epoch, seen)
      /\ seen.acks \in Nat /\ seen.commits \in Nat /\ DmaClock(request)
  BY InTheBurst DEF AcknowledgeWrite, DmaClock
<1>2. epoch.writeAck
  BY <1>1 DEF AcknowledgeWrite, BurstOfDmaEpoch, WellFormed
<1>3. dma.state \in {"Idle", "AwaitDeviceWrite"} /\ seen.commits = seen.acks + 1
  BY <1>1, <1>2 DEF BurstOfDmaEpoch
<1>4. /\ seen' = [seen EXCEPT !.acks = @ + 1]
      /\ DmaOutcome(dma, e, TRUE, over)
  <2>1. epoch.writeAck = TRUE
    BY <1>1, <1>2 DEF Epoch
  <2>2. EndOnCompletion(dma, e, TRUE)
    BY <2>1 DEF AcknowledgeWrite
  <2>3. QED
    BY <1>2, <2>2 DEF AcknowledgeWrite, EndOnCompletion
<1>5. /\ seen' \in [acks : Nat, commits : Nat, overtaken : [Slots -> Nat]]
      /\ seen'.overtaken = seen.overtaken /\ seen'.acks = seen.acks + 1
      /\ seen'.commits = seen.commits
  BY <1>1, <1>4 DEF RestTyped
<1>6. e \in Epoch /\ e.role = "Dma" /\ e.slot = epoch.slot /\ e.address = None
      /\ e.direction = epoch.direction /\ e.writeAck = FALSE
  BY <1>1 DEF Epoch
<1>7. over \in BOOLEAN /\ (over <=> dma.completion # None)
  OBVIOUS
<1>8. seen'.commits = seen'.acks + 0 /\ seen'.acks = seen'.commits
  BY <1>1, <1>3, <1>5
<1> HIDE DEF e, over
<1>9. over => /\ dma.active = None /\ dma.completion # None
              /\ dma.completion.result = "Ok" =>
                   /\ dma.completion.beats = seen'.commits
                   /\ seen'.acks \in {seen'.commits - 1, seen'.commits}
  BY <1>1, <1>5, <1>7, <1>8 DEF BurstOfDmaEpoch
<1>10. ASSUME ~over PROVE BurstOfDmaEpoch(dma, e, seen')
  <2>1. dma.active # None /\ dma.state = "AwaitDeviceWrite" /\ dma.completion = None
    BY <1>1, <1>3, <1>7, <1>10 DEF BurstOfDmaEpoch, WellFormed
  <2>2. dma.active.acknowledged = seen'.commits - 0
    BY <1>1, <1>5, <2>1 DEF BurstOfDmaEpoch
  <2>3. QED
    BY <1>1, <1>6, <1>8, <2>1, <2>2 DEF BurstOfDmaEpoch
<1>11. DmaClock(request) /\ DmaOutcome(dma, e, TRUE, over) /\ over \in BOOLEAN
  BY <1>1, <1>4, <1>7
<1>12. /\ e \in Epoch /\ e.role = "Dma" /\ e.slot = epoch.slot /\ e.address = None
       /\ seen' \in [acks : Nat, commits : Nat, overtaken : [Slots -> Nat]]
       /\ seen'.overtaken = seen.overtaken /\ WellFormed(dma)
  BY <1>1, <1>5, <1>6
<1>13. ~over => BurstOfDmaEpoch(dma, e, seen')
  BY <1>10
<1>14. QED
  BY <1>9, <1>11, <1>12, <1>13, OutcomeKeeps

LEMMA DmaRequestDroppedKeeps ==
  ASSUME CoreInv, NEW request \in WorkerRequests \cup {None}, DmaRequestDropped(request)
  PROVE  CoreInv' /\ OkStep
<1> DEFINE d == Reset(dma)
<1>1. /\ RestTyped /\ epoch.slot \in Slots /\ epoch.role \in CardRoles /\ WellFormed(dma)
      /\ BurstOfDmaEpoch(dma, epoch, seen) /\ DmaClock(request)
      /\ seen.acks \in Nat /\ seen.commits \in Nat
  BY InTheBurst DEF DmaRequestDropped, DmaClock
<1>2. /\ dma' = TakeCompletion(d) /\ FinishCardTransaction /\ seen' = seen
      /\ done' = [done EXCEPT !.dma = d.completion]
  BY DEF DmaRequestDropped
<1>3. /\ WellFormed(d) /\ d.active = None /\ d.state = "Idle"
      /\ dma.active # None => Failed(d)
      /\ dma.active = None => d.completion = dma.completion
  BY <1>1, ResetWell
<1> HIDE DEF d
<1>4. WellFormed(dma') /\ dma'.completion = None
  BY <1>2, <1>3, TakeWell
<1>5. d.completion \in Completion \cup {None}
  BY <1>3 DEF WellFormed, Engine
<1>6. /\ done' \in [worker : WorkerResults \cup {None}, dma : Completion \cup {Protection, None}]
      /\ done'.dma = d.completion
  BY <1>1, <1>2, <1>5 DEF RestTyped
<1>7. queued' \in WorkerRequest \cup {None}
  BY <1>1, QueueTyped DEF DmaClock
<1>8. RestTyped'
  BY <1>1, <1>2, <1>6, <1>7 DEF DmaClock, RestTyped
<1>9. CoreInv'
  BY <1>1, <1>2, <1>4, <1>8, EpochOver
<1>10. OkStep
  <2>1. CASE dma.active # None
    BY <1>3, <1>6, <2>1 DEF OkStep, Failed
  <2>2. CASE dma.active = None
    <3>1. /\ epoch.writeAck /\ dma.completion # None /\ dma.completion.beats = seen.commits
          /\ seen.commits = seen.acks + 1
      BY <1>1, <2>2 DEF BurstOfDmaEpoch
    <3>2. seen'.acks = seen'.commits - 1
      BY <1>1, <1>2, <3>1
    <3>3. QED
      BY <1>2, <1>3, <1>6, <2>2, <3>1, <3>2 DEF OkStep
  <2>3. QED
    BY <2>1, <2>2
<1>11. QED
  BY <1>9, <1>10

-----------------------------------------------------------------------------
(* Reset, and the calls software makes.                                     *)

LEMMA ResetHostKeeps ==
  ASSUME CoreInv, ResetHost
  PROVE  CoreInv' /\ OkStep
<1> DEFINE d == Reset(dma)
<1>1. RestTyped /\ epoch \in Epoch /\ WellFormed(dma) /\ BurstOfEpoch
  BY TypeOKIs DEF CoreInv
<1>2. /\ dma' = TakeCompletion(d) /\ epoch' = NoEpoch /\ cursor' = 0 /\ queued' = None
      /\ worker' = IdleWorker /\ seen' = [seen EXCEPT !.overtaken = Nobody]
      /\ notifications' = [notifications EXCEPT !.pending = {}]
      /\ done' = [worker |-> IF worker.state # "Idle" THEN "Reset" ELSE None, dma |-> d.completion]
  BY DEF ResetHost
<1>3. /\ WellFormed(d) /\ d.active = None /\ d.state = "Idle"
      /\ dma.active # None => Failed(d)
      /\ dma.active = None => d.completion = dma.completion
  BY <1>1, ResetWell
<1> HIDE DEF d
<1>4. WellFormed(dma') /\ dma'.completion = None
  BY <1>2, <1>3, TakeWell
<1>5. d.completion \in Completion \cup {None}
  BY <1>3 DEF WellFormed, Engine
<1>6. /\ done' \in [worker : WorkerResults \cup {None}, dma : Completion \cup {Protection, None}]
      /\ done'.dma = d.completion
  BY <1>2, <1>5 DEF WorkerResults
<1>7. worker' \in WorkerEngine
  BY <1>2, DmaConstants DEF IdleWorker, WorkerEngine
<1>8. notifications' \in [pending : SUBSET (Slots \X NotifyChannels),
                         enabled : SUBSET (Slots \X NotifyChannels),
                         masked : SUBSET (Slots \X NotifyChannels)]
  BY <1>1, <1>2 DEF RestTyped
<1>9. /\ seen' \in [acks : Nat, commits : Nat, overtaken : [Slots -> Nat]]
      /\ seen'.overtaken = Nobody /\ seen'.acks = seen.acks /\ seen'.commits = seen.commits
  BY <1>1, <1>2 DEF RestTyped, Nobody
<1>10. RestTyped'
  BY <1>2, <1>6, <1>7, <1>8, <1>9 DEF RestTyped
<1>11. ASSUME NEW s \in Slots PROVE seen'.overtaken[s] + Distance(0, s) < NSlots
  <2>1. 0 \in Slots
    BY DmaConstants DEF Slots
  <2>2. Distance(0, s) \in 0 .. NSlots - 1 /\ seen'.overtaken[s] = 0
    BY <1>9, <2>1, DistanceIs DEF Nobody
  <2>3. QED
    BY <2>2, DmaConstants
<1>12. 0 \in Slots
  BY DmaConstants DEF Slots
<1>13. FreeBus'
  BY <1>2, <1>4, <1>10, <1>11, <1>12 DEF FreeBus, Distance, NoEpoch
<1>14. CoreInv'
  BY <1>13, FreeBusIsFine, PTL
<1>15. OkStep
  <2>1. CASE dma.active # None
    BY <1>3, <1>6, <2>1 DEF OkStep, Failed
  <2>2. CASE dma.active = None /\ epoch.role = "Dma"
    <3>1. /\ epoch.writeAck /\ dma.completion # None /\ dma.completion.beats = seen.commits
          /\ seen.commits = seen.acks + 1
      BY <1>1, <2>2, BurstOfDmaEpochIs DEF BurstOfDmaEpoch
    <3>2. seen'.acks = seen'.commits - 1
      BY <1>1, <1>9, <3>1 DEF RestTyped
    <3>3. QED
      BY <1>3, <1>6, <1>9, <2>2, <3>1, <3>2 DEF OkStep
  <2>3. CASE dma.active = None /\ epoch.role # "Dma"
    BY <1>1, <1>3, <1>6, <2>3 DEF OkStep, BurstOfEpoch
  <2>4. QED
    BY <2>1, <2>2, <2>3
<1>16. QED
  BY <1>14, <1>15

\* Outside step() the bus stands still: the engine may change its table, or ask its burst to stop.
LEMMA BusStandsStill ==
  ASSUME CoreInv, UNCHANGED <<epoch, cursor, seen>>, RestTyped', WellFormed(dma'),
         dma'.state = dma.state, dma'.completion = dma.completion,
         dma.active = None => dma'.active = None,
         dma.active # None =>
           /\ dma'.active # None
           /\ dma'.active.slot = dma.active.slot /\ dma'.active.direction = dma.active.direction
           /\ dma'.active.acknowledged = dma.active.acknowledged
  PROVE  CoreInv'
<1>1. TypeOK'
  BY DEF CoreInv, TypeOK, RestTyped, WellFormed
<1>2. EpochShape'
  BY DEF CoreInv, EpochShape
<1>3. BurstOfEpoch'
  BY DEF CoreInv, BurstOfEpoch, DmaEpochOwnsBurst, AcksFollowMemory
<1>4. Rotation'
  BY DEF CoreInv, Rotation, Turn, Distance, NextSlot
<1>5. QED
  BY <1>1, <1>2, <1>3, <1>4 DEF CoreInv

LEMMA BindDmaKeeps ==
  ASSUME CoreInv, NEW s \in BoundSlots, NEW c \in Channels, NEW mapping \in Mappings,
         BindDma(s, c, mapping)
  PROVE  CoreInv'
<1>1. s \in Slots /\ mapping[1] \in Nat /\ mapping[2] \in Nat
  BY CoreInputs
<1>2. WellFormed(dma) /\ RestTyped
  BY TypeOKIs DEF CoreInv
<1>3. dma' = Bind(dma, s, c, mapping[1], mapping[2], TRUE, TRUE)
  BY DEF BindDma
<1>4. /\ WellFormed(dma') /\ dma'.active = dma.active /\ dma'.state = dma.state
      /\ dma'.completion = dma.completion
  <2>1. \A base, length \in Nat : \A r, w \in BOOLEAN :
          LET e == Bind(dma, s, c, base, length, r, w)
          IN WellFormed(e) /\ e.active = dma.active /\ e.state = dma.state
             /\ e.completion = dma.completion
    BY <1>1, <1>2, BindWell
  <2>2. QED
    BY <1>1, <1>3, <2>1
<1>5. RestTyped'
  BY <1>2 DEF BindDma, RestTyped
<1>6. QED
  BY <1>4, <1>5, BusStandsStill DEF BindDma

LEMMA RevokeDmaKeeps ==
  ASSUME CoreInv, NEW s \in BoundSlots, NEW c \in Channels, RevokeDma(s, c)
  PROVE  CoreInv'
<1>1. s \in Slots
  BY CoreInputs
<1>2. WellFormed(dma) /\ RestTyped
  BY TypeOKIs DEF CoreInv
<1>3. /\ WellFormed(dma') /\ dma'.state = dma.state /\ dma'.completion = dma.completion
      /\ dma.active = None => dma'.active = None
      /\ dma.active # None => KeepsBurst(dma, dma')
  BY <1>1, <1>2, RevokeWell DEF RevokeDma
<1>4. RestTyped'
  BY <1>2 DEF RevokeDma, RestTyped
<1>5. QED
  BY <1>3, <1>4, BusStandsStill DEF RevokeDma, KeepsBurst

\* Of everything else software calls, none touches the bus or the engine.
LEMMA EngineStandsStill ==
  ASSUME CoreInv, UNCHANGED <<dma, epoch, cursor, queued, worker, seen>>,
         done' \in [worker : WorkerResults \cup {None}, dma : Completion \cup {Protection, None}],
         notifications' \in [pending : SUBSET (Slots \X NotifyChannels),
                            enabled : SUBSET (Slots \X NotifyChannels),
                            masked : SUBSET (Slots \X NotifyChannels)]
  PROVE  CoreInv'
<1>1. RestTyped /\ WellFormed(dma)
  BY TypeOKIs DEF CoreInv
<1>2. RestTyped'
  BY <1>1 DEF RestTyped
<1>3. QED
  BY <1>1, <1>2, BusStandsStill

LEMMA SoftwareKeeps ==
  ASSUME CoreInv, SoftwareCall
  PROVE  CoreInv' /\ OkStep
<1> DEFINE Completions == [worker : WorkerResults \cup {None}, dma : Completion \cup {Protection, None}]
           Typed(n) == n \in [pending : SUBSET (Slots \X NotifyChannels),
                              enabled : SUBSET (Slots \X NotifyChannels),
                              masked : SUBSET (Slots \X NotifyChannels)]
<1>1. done \in Completions /\ Typed(notifications)
  BY DEF CoreInv, TypeOK
<1>2. ASSUME NEW s \in BoundSlots, NEW c \in Channels, NEW mapping \in Mappings,
             BindDma(s, c, mapping)
      PROVE  CoreInv' /\ OkStep
  BY <1>2, BindDmaKeeps DEF BindDma, OkStep
<1>3. ASSUME NEW s \in BoundSlots, NEW c \in Channels, RevokeDma(s, c)
      PROVE  CoreInv' /\ OkStep
  BY <1>3, RevokeDmaKeeps DEF RevokeDma, OkStep
<1>4. ASSUME NEW n \in Configured, NEW enabled \in BOOLEAN, NEW masked \in BOOLEAN,
             SetNotificationConfig(n, enabled, masked)
      PROVE  CoreInv' /\ OkStep
  <2>1. n \in Slots \X NotifyChannels
    BY CoreInputs
  <2>2. Typed(notifications')
    BY <1>1, <1>4, <2>1 DEF SetNotificationConfig, Put
  <2>3. QED
    BY <1>1, <1>4, <2>2, EngineStandsStill DEF SetNotificationConfig, OkStep
<1>5. CASE ClaimNotification
  <2>1. Typed(notifications')
    BY <1>1, <1>5 DEF ClaimNotification
  <2>2. QED
    BY <1>1, <1>5, <2>1, EngineStandsStill DEF ClaimNotification, OkStep
<1>6. CASE TakeWorkerCompletion
  <2>1. done' \in Completions /\ done'.dma = done.dma
    BY <1>1, <1>6 DEF TakeWorkerCompletion
  <2>2. QED
    BY <1>1, <1>6, <2>1, EngineStandsStill DEF TakeWorkerCompletion, OkStep
<1>7. CASE TakeDmaCompletion
  <2>1. done' \in Completions /\ done'.dma = None
    BY <1>1, <1>7 DEF TakeDmaCompletion
  <2>2. QED
    BY <1>1, <1>7, <2>1, EngineStandsStill DEF TakeDmaCompletion, OkStep
<1>8. QED
  BY <1>2, <1>3, <1>4, <1>5, <1>6, <1>7 DEF SoftwareCall

-----------------------------------------------------------------------------
(* The invariant.                                                           *)

LEMMA ClockKeeps ==
  ASSUME CoreInv, Clock
  PROVE  CoreInv' /\ OkStep
<1>1. PICK request \in WorkerRequests \cup {None} :
        \/ StartWorker(request)
        \/ request = None /\ \E requesting \in SUBSET Slots : Arbitrate(requesting)
        \/ \E reply \in {"Ack", "BadData", "Err", "Wait"} : WorkerClock(request, reply)
        \/ RequestDropped(request)
        \/ NoStrobe(request)
        \/ BadAddress(request)
        \/ \E channel \in NotifyChannels : NotificationAddress(request, channel)
        \/ \E pins \in DataPins : NotificationData(request, pins)
        \/ \E handle \in Handles, words \in Bursts, dir \in Directions :
             DmaAddress(request, handle, words, dir)
        \/ AnswerDmaAddress(request)
        \/ DmaRequestDropped(request)
        \/ AcknowledgeWrite(request)
        \/ \E word \in Words, pins \in DataPins : CardWritesWord(request, word, pins)
        \/ CardWaits(request)
        \/ \E ready \in BOOLEAN : RequestMemory(request, ready)
        \/ \E response \in MemoryResponses \cup {None} : AwaitMemory(request, response)
        \/ CardReadsWord(request)
  BY Zenon DEF Clock, ClockWith
<1>2. done' = done => OkStep
  BY DEF OkStep
<1>3. CASE StartWorker(request)
  <2>1. done' = done
    BY <1>3 DEF StartWorker
  <2>2. QED
    BY <1>2, <1>3, <2>1, StartWorkerKeeps
<1>4. CASE \E requesting \in SUBSET Slots : Arbitrate(requesting)
  <2>1. done' = done
    BY <1>4 DEF Arbitrate
  <2>2. QED
    BY <1>2, <1>4, <2>1, ArbitrateKeeps
<1>5. CASE \E reply \in {"Ack", "BadData", "Err", "Wait"} : WorkerClock(request, reply)
  <2>1. PICK reply \in {"Ack", "BadData", "Err", "Wait"} : WorkerClock(request, reply)
    BY <1>5
  <2>2. done' \in [worker : WorkerResults \cup {None}, dma : {done.dma}] \/ done' = done
    <3>1. done \in [worker : WorkerResults \cup {None}, dma : Completion \cup {Protection, None}]
      BY DEF CoreInv, TypeOK
    <3>2. QED
      BY <2>1, <3>1, WorkerEndsTyped DEF WorkerClock
  <2>3. done'.dma = done.dma
    BY <2>2
  <2>4. QED
    BY <2>1, <2>3, WorkerClockKeeps DEF OkStep
<1>6. CASE RequestDropped(request)
  BY <1>2, <1>6, RequestDroppedKeeps DEF RequestDropped
<1>7. CASE NoStrobe(request)
  BY <1>2, <1>7, NoStrobeKeeps DEF NoStrobe
<1>8. CASE BadAddress(request)
  BY <1>2, <1>8, BadAddressKeeps DEF BadAddress
<1>9. CASE \E channel \in NotifyChannels : NotificationAddress(request, channel)
  <2>1. done' = done
    BY <1>9 DEF NotificationAddress
  <2>2. QED
    BY <1>2, <1>9, <2>1, NotificationAddressKeeps
<1>10. CASE \E pins \in DataPins : NotificationData(request, pins)
  BY <1>2, <1>10, NotificationDataKeeps DEF NotificationData
<1>11. CASE \E handle \in Handles, words \in Bursts, dir \in Directions :
              DmaAddress(request, handle, words, dir)
  <2>1. done' = done
    BY <1>11 DEF DmaAddress
  <2>2. QED
    BY <1>2, <1>11, <2>1, DmaAddressKeeps
<1>12. CASE AnswerDmaAddress(request)
  <2>1. done' = done \/ done' = [done EXCEPT !.dma = Protection]
    BY <1>12 DEF AnswerDmaAddress
  <2>2. done \in [worker : WorkerResults \cup {None}, dma : Completion \cup {Protection, None}]
    BY DEF CoreInv, TypeOK
  <2>3. done'.dma = done.dma \/ done'.dma.result # "Ok"
    BY <2>1, <2>2 DEF Protection
  <2>4. QED
    BY <1>12, <2>3, AnswerDmaAddressKeeps DEF OkStep
<1>13. CASE DmaRequestDropped(request)
  BY <1>13, DmaRequestDroppedKeeps
<1>14. CASE AcknowledgeWrite(request)
  BY <1>14, AcknowledgeWriteKeeps
<1>15. CASE \E word \in Words, pins \in DataPins : CardWritesWord(request, word, pins)
  BY <1>15, CardWritesWordKeeps
<1>16. CASE CardWaits(request)
  BY <1>16, CardWaitsKeeps
<1>17. CASE \E ready \in BOOLEAN : RequestMemory(request, ready)
  BY <1>17, RequestMemoryKeeps
<1>18. CASE \E response \in MemoryResponses \cup {None} : AwaitMemory(request, response)
  BY <1>18, AwaitMemoryKeeps
<1>19. CASE CardReadsWord(request)
  BY <1>19, CardReadsWordKeeps
<1>20. QED
  BY <1>1, <1>3, <1>4, <1>5, <1>6, <1>7, <1>8, <1>9, <1>10, <1>11, <1>12, <1>13, <1>14, <1>15,
     <1>16, <1>17, <1>18, <1>19, Zenon

LEMMA StepKeeps == CoreInv /\ [Next]_vars => CoreInv' /\ OkStep
<1> SUFFICES ASSUME CoreInv, [Next]_vars PROVE CoreInv' /\ OkStep
  OBVIOUS
<1>1. CASE Clock
  BY <1>1, ClockKeeps
<1>2. CASE ResetHost
  BY <1>2, ResetHostKeeps
<1>3. CASE SoftwareCall
  BY <1>3, SoftwareKeeps
<1>4. CASE UNCHANGED vars
  <2>1. /\ done \in [worker : WorkerResults \cup {None}, dma : Completion \cup {Protection, None}]
        /\ notifications \in [pending : SUBSET (Slots \X NotifyChannels),
                             enabled : SUBSET (Slots \X NotifyChannels),
                             masked : SUBSET (Slots \X NotifyChannels)]
    BY DEF CoreInv, TypeOK
  <2>2. QED
    BY <1>4, <2>1, EngineStandsStill DEF vars, OkStep
<1>5. QED
  BY <1>1, <1>2, <1>3, <1>4 DEF Next

(* The inductive invariant of the controller (HostCore!CoreInv): the registers of an epoch,
   the burst it is about, and the rotation of the arbitration fit together in every state. *)
THEOREM CoreInvariant == Spec => []CoreInv
  BY InitCoreInv, StepKeeps, PTL DEF Spec

(* Every register of the controller keeps its type, in every sequence of clocks, resets
   and calls. *)
THEOREM CoreTypeCorrect == Spec => []TypeOK
<1>1. CoreInv => TypeOK
  BY DEF CoreInv
<1>2. QED
  BY <1>1, CoreInvariant, PTL

(* A DMA epoch always has its own burst, or the completed one whose last write it must yet
   acknowledge: step() can always bring it to an end. *)
THEOREM EpochOwnsBurst == Spec => []DmaEpochOwnsBurst
<1>1. CoreInv => DmaEpochOwnsBurst
  BY DEF CoreInv, BurstOfEpoch
<1>2. QED
  BY <1>1, CoreInvariant, PTL

(* No beat is acknowledged to the card before memory confirmed it, and only the one in hand
   is confirmed and not acknowledged (write_ack_pending, DeviceReadReady). *)
THEOREM AcksInStep == Spec => []AcksFollowMemory
<1>1. CoreInv => AcksFollowMemory
  BY DEF CoreInv, BurstOfEpoch
<1>2. QED
  BY <1>1, CoreInvariant, PTL

(* The Ok(n) software is given stands for n words memory confirmed, of which the card has
   seen all but at most the last acknowledged, also when BR drops or reset comes. *)
THEOREM OkEarned == Spec => OkIsEarned
<1>1. CoreInv /\ [Next]_vars =>
        [(done'.dma # done.dma /\ done'.dma # None /\ done'.dma.result = "Ok") =>
           /\ done'.dma.beats = seen'.commits
           /\ seen'.acks \in {seen'.commits - 1, seen'.commits}]_vars
  BY StepKeeps DEF OkStep
<1>2. QED
  BY <1>1, CoreInvariant, PTL DEF Spec, OkIsEarned

(* However many slots there are and whatever the cards do, one that keeps asking is
   overtaken fewer than NSlots times in all (bus_rr_cursor). *)
THEOREM RoundRobin == Spec => []RoundRobinBound
<1>1. CoreInv => RoundRobinBound
  <2> SUFFICES ASSUME CoreInv, NEW s \in Slots PROVE seen.overtaken[s] < NSlots
    BY DEF RoundRobinBound
  <2>1. cursor \in Slots /\ seen.overtaken[s] \in Nat
    BY DEF CoreInv, TypeOK
  <2>2. Turn \in Slots
    BY <2>1, NextSlotIs DEF Turn, CoreInv, EpochShape
  <2>3. Distance(Turn, s) \in 0 .. NSlots - 1
    BY <2>2, DistanceIs
  <2>4. seen.overtaken[s] + Distance(Turn, s) < NSlots
    BY DEF CoreInv, Rotation
  <2>5. QED
    BY <2>1, <2>3, <2>4, DmaConstants
<1>2. QED
  BY <1>1, CoreInvariant, PTL

-----------------------------------------------------------------------------
(* What single steps never do.                                              *)

\* A clock of a card's epoch changes no notification but the one whose word it takes.
LEMMA ClockCases ==
  ASSUME Clock
  PROVE  \E request \in WorkerRequests \cup {None} :
           \/ StartWorker(request)
           \/ \E requesting \in SUBSET Slots : Arbitrate(requesting)
           \/ \E reply \in {"Ack", "BadData", "Err", "Wait"} : WorkerClock(request, reply)
           \/ epoch.role \in CardRoles /\ notifications' = notifications
           \/ \E pins \in DataPins : NotificationData(request, pins)
<1> DEFINE Card == epoch.role \in CardRoles /\ notifications' = notifications
<1> USE DEF CardRoles
<1>1. \A request : RequestDropped(request) \/ NoStrobe(request) \/ BadAddress(request) => Card
  BY DEF RequestDropped, NoStrobe, BadAddress
<1>2. \A request, channel : NotificationAddress(request, channel) => Card
  BY DEF NotificationAddress
<1>3. \A request, handle, words, dir : DmaAddress(request, handle, words, dir) => Card
  BY DEF DmaAddress
<1>4. \A request : AnswerDmaAddress(request) => Card
  BY DEF AnswerDmaAddress
<1>5. \A request : DmaClock(request) => Card
  BY DEF DmaClock
<1>6. \A request, word, pins, ready, response :
        \/ DmaRequestDropped(request) \/ AcknowledgeWrite(request) \/ CardReadsWord(request)
        \/ CardWritesWord(request, word, pins) \/ CardWaits(request)
        \/ RequestMemory(request, ready) \/ AwaitMemory(request, response)
        => DmaClock(request)
  BY DEF DmaRequestDropped, AcknowledgeWrite, CardReadsWord, CardWritesWord, CardWaits,
         RequestMemory, AwaitMemory
<1> HIDE DEF Card
<1>7. QED
  BY <1>1, <1>2, <1>3, <1>4, <1>5, <1>6, Zenon DEF Clock, ClockWith, Card

\* Software leaves the bus alone, and only a claim ends a notification.
LEMMA SoftwareCases ==
  ASSUME SoftwareCall
  PROVE  /\ UNCHANGED <<epoch, cursor, queued, worker, out>>
         /\ \/ notifications' = notifications \/ ClaimNotification
            \/ \E n, enabled, masked : SetNotificationConfig(n, enabled, masked)
<1>1. \A s, c, mapping : BindDma(s, c, mapping) =>
        UNCHANGED <<epoch, cursor, queued, worker, out, notifications>>
  BY DEF BindDma
<1>2. \A s, c : RevokeDma(s, c) =>
        UNCHANGED <<epoch, cursor, queued, worker, out, notifications>>
  BY DEF RevokeDma
<1>3. TakeWorkerCompletion \/ TakeDmaCompletion =>
        UNCHANGED <<epoch, cursor, queued, worker, out, notifications>>
  BY DEF TakeWorkerCompletion, TakeDmaCompletion
<1>4. ClaimNotification => UNCHANGED <<epoch, cursor, queued, worker, out>>
  BY DEF ClaimNotification
<1>5. \A n, enabled, masked : SetNotificationConfig(n, enabled, masked) =>
        UNCHANGED <<epoch, cursor, queued, worker, out>>
  BY DEF SetNotificationConfig
<1>6. QED
  BY <1>1, <1>2, <1>3, <1>4, <1>5, Zenon DEF SoftwareCall

(* After an epoch the next clock grants nobody: BG is low for a clock between two epochs,
   and a worker target is never granted the bus. *)
THEOREM GrantBoundaryProved == Spec => GrantBoundary
<1>1. ASSUME [Next]_vars, epoch.role \in {"Idle", "Worker"}
      PROVE  out'.grant = None \/ UNCHANGED <<epoch, cursor, queued, worker, out>>
  <2>1. CASE Clock
    <3>1. Undriven.grant = None
      BY DEF Undriven, Silent
    <3>2. PICK request \in WorkerRequests \cup {None} :
            \/ StartWorker(request)
            \/ \E requesting \in SUBSET Slots : Arbitrate(requesting)
            \/ \E reply \in {"Ack", "BadData", "Err", "Wait"} : WorkerClock(request, reply)
      <4>1. PICK request \in WorkerRequests \cup {None} :
              \/ StartWorker(request)
              \/ \E requesting \in SUBSET Slots : Arbitrate(requesting)
              \/ \E reply \in {"Ack", "BadData", "Err", "Wait"} : WorkerClock(request, reply)
              \/ epoch.role \in CardRoles /\ notifications' = notifications
              \/ \E pins \in DataPins : NotificationData(request, pins)
        BY <2>1, ClockCases
      <4>2. ~(epoch.role \in CardRoles) /\ \A pins : ~NotificationData(request, pins)
        BY <1>1 DEF CardRoles, NotificationData
      <4>3. QED
        BY <4>1, <4>2, Zenon
    <3>3. CASE StartWorker(request)
      BY <3>1, <3>3 DEF StartWorker
    <3>4. CASE \E requesting \in SUBSET Slots : Arbitrate(requesting)
      BY <3>1, <3>4 DEF Arbitrate
    <3>5. CASE \E reply \in {"Ack", "BadData", "Err", "Wait"} : WorkerClock(request, reply)
      <4>1. PICK reply \in {"Ack", "BadData", "Err", "Wait"} : WorkerClock(request, reply)
        BY <3>5
      <4>2. out' = [Undriven EXCEPT !.selected = epoch.slot]
        BY <4>1 DEF WorkerClock
      <4>3. QED
        BY <3>1, <4>2 DEF Undriven, Silent
    <3>6. QED
      BY <3>2, <3>3, <3>4, <3>5
  <2>2. CASE ResetHost
    BY <2>2 DEF ResetHost, Silent
  <2>3. CASE SoftwareCall
    BY <2>3, SoftwareCases
  <2>4. CASE UNCHANGED vars
    BY <2>4 DEF vars
  <2>5. QED
    BY <1>1, <2>1, <2>2, <2>3, <2>4 DEF Next
<1>2. [Next]_vars => [epoch.role \in {"Idle", "Worker"} => out'.grant = None]_<<epoch, cursor, queued, worker, out>>
  BY <1>1
<1>3. QED
  BY <1>2, PTL DEF Spec, GrantBoundary

\* Peek finds a notification that may be claimed, when there is one.
LEMMA PeekIs ==
  ASSUME notifications.pending \subseteq Slots \X NotifyChannels, Claimable # {}
  PROVE  Peek \in Claimable
<1> DEFINE SlotsOf == {n[1] : n \in Claimable}
<1>1. Claimable \subseteq Slots \X NotifyChannels
  BY DEF Claimable
<1>2. SlotsOf \subseteq Nat /\ SlotsOf # {}
  BY <1>1 DEF Slots
<1>3. PICK s \in SlotsOf : \A t \in SlotsOf : s <= t
  BY <1>2, LeastNumber
<1> DEFINE ChannelsOf == {n[2] : n \in {m \in Claimable : m[1] = s}}
<1>4. ChannelsOf \subseteq Nat /\ ChannelsOf # {}
  BY <1>1, <1>3, CoreInputs
<1>5. PICK c \in ChannelsOf : \A d \in ChannelsOf : c <= d
  BY <1>4, LeastNumber
<1>6. PICK n \in Claimable : n[1] = s /\ n[2] = c
  BY <1>5
<1>7. ASSUME NEW m \in Claimable PROVE n[1] < m[1] \/ (n[1] = m[1] /\ n[2] <= m[2])
  <2>1. n[1] <= m[1] /\ n[1] \in Nat /\ m[1] \in Nat
    BY <1>2, <1>3, <1>6
  <2>2. n[1] = m[1] => n[2] <= m[2]
    BY <1>5, <1>6
  <2>3. QED
    BY <2>1, <2>2
<1>8. QED
  BY <1>6, <1>7 DEF Peek

(* A notification the card was told had arrived stays pending until software claims it,
   which it cannot while the channel is disabled or masked, or until reset. *)
THEOREM NotificationKeptProved == Spec => NotificationKept
<1> DEFINE Kept == \A n \in notifications.pending :
                     n \notin notifications'.pending =>
                       out'.reset \/ (n \in notifications.enabled /\ n \notin notifications.masked)
<1>1. CoreInv /\ [Next]_vars => Kept
  <2> SUFFICES ASSUME CoreInv, [Next]_vars PROVE Kept
    OBVIOUS
  <2>1. notifications \in [pending : SUBSET (Slots \X NotifyChannels),
                          enabled : SUBSET (Slots \X NotifyChannels),
                          masked : SUBSET (Slots \X NotifyChannels)]
    BY DEF CoreInv, TypeOK
  <2>2. notifications.pending \subseteq notifications'.pending => Kept
    OBVIOUS
  <2> HIDE DEF Kept
  <2>3. CASE Clock
    <3>1. notifications' = notifications
            \/ \E request \in WorkerRequests \cup {None}, pins \in DataPins :
                 NotificationData(request, pins)
      <4>1. PICK request \in WorkerRequests \cup {None} :
              \/ StartWorker(request)
              \/ \E requesting \in SUBSET Slots : Arbitrate(requesting)
              \/ \E reply \in {"Ack", "BadData", "Err", "Wait"} : WorkerClock(request, reply)
              \/ epoch.role \in CardRoles /\ notifications' = notifications
              \/ \E pins \in DataPins : NotificationData(request, pins)
        BY <2>3, ClockCases
      <4>2. StartWorker(request) => notifications' = notifications
        BY DEF StartWorker
      <4>3. \A requesting : Arbitrate(requesting) => notifications' = notifications
        BY Zenon DEF Arbitrate
      <4>4. \A reply : WorkerClock(request, reply) => notifications' = notifications
        BY Zenon DEF WorkerClock
      <4>5. QED
        BY <4>1, <4>2, <4>3, <4>4, Zenon
    <3>2. notifications.pending \subseteq notifications'.pending
      BY <2>1, <3>1 DEF NotificationData
    <3>3. QED
      BY <2>2, <3>2
  <2>4. CASE ResetHost
    <3>1. out'.reset
      BY <2>4 DEF ResetHost, Silent
    <3>2. QED
      BY <3>1 DEF Kept
  <2>5. CASE ClaimNotification
    <3>1. Peek \in Claimable
      BY <2>1, <2>5, PeekIs DEF ClaimNotification
    <3>2. notifications'.pending = notifications.pending \ {Peek}
      BY <2>1, <2>5 DEF ClaimNotification
    <3>3. QED
      BY <3>1, <3>2 DEF Kept, Claimable
  <2>6. CASE SoftwareCall /\ ~ClaimNotification
    <3>1. notifications'.pending = notifications.pending
      <4>1. \A n, enabled, masked : SetNotificationConfig(n, enabled, masked) =>
              notifications'.pending = notifications.pending
        BY <2>1 DEF SetNotificationConfig
      <4>2. QED
        BY <2>6, <4>1, SoftwareCases
    <3>2. QED
      BY <2>2, <3>1
  <2>7. CASE UNCHANGED vars
    BY <2>2, <2>7 DEF vars
  <2>8. QED
    BY <2>3, <2>4, <2>5, <2>6, <2>7 DEF Next
<1>2. CoreInv /\ [Next]_vars => [Kept]_vars
  BY <1>1
<1>3. QED
  BY <1>2, CoreInvariant, PTL DEF Spec, NotificationKept

=============================================================================
