--------------------------- MODULE DmaHostM3Proofs ---------------------------
(***************************************************************************)
(* Proofs about the DMA engine, for every number of slots, channels and    *)
(* generations, every address space, mapping, burst length and timeout.    *)
(***************************************************************************)
EXTENDS DmaHostM3, TLAPS, Integers

-----------------------------------------------------------------------------
(* Arithmetic.                                                              *)

LEMMA RemainderUnique ==
  ASSUME NEW M \in Nat \ {0}, NEW q \in Nat, NEW r \in 0 .. M - 1
  PROVE  (M * q + r) % M = r
  BY Z3

LEMMA Division ==
  ASSUME NEW M \in Nat \ {0}, NEW x \in Nat
  PROVE  /\ x \div M \in Nat
         /\ x % M \in 0 .. M - 1
         /\ x = M * (x \div M) + (x % M)
  BY Z3

LEMMA StepOfRemainder ==
  ASSUME NEW M \in Nat \ {0}, NEW x \in Nat
  PROVE  ((x % M) + 4) % M = (x + 4) % M
<1> DEFINE q  == x \div M
           r  == x % M
           q2 == (r + 4) \div M
           r2 == (r + 4) % M
<1>1. q \in Nat /\ r \in Nat /\ x = M * q + r
  BY Division
<1>2. q2 \in Nat /\ r2 \in 0 .. M - 1 /\ r + 4 = M * q2 + r2
  <2>1. r + 4 \in Nat
    BY <1>1
  <2>2. QED
    BY <2>1, Division
<1> HIDE DEF q, r, q2, r2
<1>3. x + 4 = M * (q + q2) + r2
  <2>1. M * (q + q2) = M * q + M * q2
    BY <1>1, <1>2, Z3
  <2>2. M * q \in Nat /\ M * q2 \in Nat
    BY <1>1, <1>2, Z3
  <2>3. QED
    BY <1>1, <1>2, <2>1, <2>2
<1>4. (M * (q + q2) + r2) % M = r2
  <2>1. q + q2 \in Nat
    BY <1>1, <1>2
  <2>2. QED
    BY <1>2, <2>1, RemainderUnique
<1>5. QED
  BY <1>3, <1>4 DEF r, r2

-----------------------------------------------------------------------------
(* What the engine's operators return.                                      *)

LEMMA AbortFacts ==
  ASSUME NEW d \in Engine, NEW error \in DmaErrors
  PROVE  /\ Abort(d, error) \in Engine
         /\ Abort(d, error).active = None
         /\ Abort(d, error).state = "Idle"
         /\ Abort(d, error).caps = d.caps
         /\ Abort(d, error).completion = [result |-> error, beats |-> 0]
  BY DEF Abort, Engine, DmaStates, Completion

LEMMA FinishOkFacts ==
  ASSUME NEW d \in Engine, NEW n \in Nat
  PROVE  /\ FinishOk(d, n) \in Engine
         /\ FinishOk(d, n).active = None
         /\ FinishOk(d, n).state = "Idle"
         /\ FinishOk(d, n).caps = d.caps
         /\ FinishOk(d, n).completion = [result |-> "Ok", beats |-> n]
  BY DEF FinishOk, Engine, DmaStates, Completion

\* One more word: the burst goes on, is complete, or is revoked.
LEMMA BeatDoneFacts ==
  ASSUME NEW d \in Engine, d.active # None, NEW next \in DmaStates,
         d.active.acknowledged < d.active.total
  PROVE  LET e == BeatDone(d, next)
             n == d.active.acknowledged + 1
         IN /\ e \in Engine
            /\ e.caps = d.caps
            /\ \/ /\ d.active.revokePending
                  /\ e.active = None /\ e.state = "Idle"
                  /\ e.completion = [result |-> "Revoked", beats |-> 0]
               \/ /\ e.active = None /\ e.state = "Idle"
                  /\ e.completion = [result |-> "Ok", beats |-> n]
               \/ /\ ~d.active.revokePending
                  /\ n < d.active.total
                  /\ e.state = next
                  /\ e.completion = d.completion
                  /\ e.active # None
                  /\ e.active = [d.active EXCEPT !.acknowledged = n, !.pendingWrite = None,
                       !.readData = None, !.wait = 0,
                       !.address = (d.active.address + WordBytes) % AddrSpace]
<1> DEFINE n == d.active.acknowledged + 1
           a == [d.active EXCEPT !.acknowledged = n, !.pendingWrite = None,
                  !.readData = None, !.wait = 0,
                  !.address = (d.active.address + WordBytes) % AddrSpace]
<1>1. d.active \in Burst
  BY DEF Engine
<1>2. d.active.address + WordBytes \in Nat /\ n \in Nat
  BY <1>1 DEF Burst, WordBytes
<1>3. (d.active.address + WordBytes) % AddrSpace \in Nat
  BY <1>2, Division, DmaConstants
<1>4. a \in Burst /\ a # None
  <2>1. a \in Burst
    BY <1>1, <1>2, <1>3 DEF Burst
  <2>2. QED
    BY <2>1, NoneIsFresh
<1>5. a.revokePending = d.active.revokePending /\ a.acknowledged = n /\ a.total = d.active.total
  BY <1>1 DEF Burst
<1>6. BeatDone(d, next) = IF a.revokePending THEN Abort(d, "Revoked")
                          ELSE IF a.acknowledged = a.total THEN FinishOk(d, a.acknowledged)
                          ELSE [d EXCEPT !.active = a, !.state = next]
  BY DEF BeatDone
<1>7. CASE a.revokePending
  BY <1>5, <1>6, <1>7, AbortFacts DEF DmaErrors
<1>8. CASE ~a.revokePending /\ a.acknowledged = a.total
  BY <1>2, <1>5, <1>6, <1>8, FinishOkFacts
<1>9. CASE ~a.revokePending /\ a.acknowledged # a.total
  <2>1. n < d.active.total
    BY <1>1, <1>5, <1>9 DEF Burst
  <2>2. BeatDone(d, next) = [d EXCEPT !.active = a, !.state = next]
    BY <1>6, <1>9
  <2> HIDE DEF a
  <2>3. /\ BeatDone(d, next) \in Engine
        /\ BeatDone(d, next).active = a
        /\ BeatDone(d, next).state = next
        /\ BeatDone(d, next).caps = d.caps
        /\ BeatDone(d, next).completion = d.completion
    BY <1>4, <2>2 DEF Engine
  <2>4. ~d.active.revokePending /\ BeatDone(d, next).active # None
    BY <1>4, <1>5, <1>9, <2>3
  <2>5. QED
    BY <2>1, <2>3, <2>4 DEF a
<1>10. QED
  BY <1>7, <1>8, <1>9

-----------------------------------------------------------------------------
(* The inductive invariant.                                                 *)

LEMMA InitDmaInv == Init => DmaInv
<1> SUFFICES ASSUME Init PROVE DmaInv
  OBVIOUS
<1>1. UnboundCapability \in Capability
  BY DmaConstants DEF UnboundCapability, Capability, Generations
<1>2. dma \in Engine /\ dma.active = None /\ dma.state = "Idle" /\ dma.completion = None
  BY <1>1 DEF Init, NewEngine, Engine, DmaStates
<1>3. track \in Track
  BY DEF Init, Track
<1>4. QED
  BY <1>2, <1>3 DEF DmaInv, TypeOK, BurstKeepsItsMapping, CompletionIsExact, Active

LEMMA BindKeepsDmaInv ==
  ASSUME DmaInv, NEW s \in Slots, NEW c \in Channels, NEW base \in Nat, NEW length \in Nat,
         NEW r \in BOOLEAN, NEW w \in BOOLEAN, BindChannel(s, c, base, length, r, w)
  PROVE  DmaInv'
<1> DEFINE cap == [base |-> base, length |-> length, deviceRead |-> r, deviceWrite |-> w,
                   generation |-> NextGeneration(dma.caps[<<s, c>>].generation), valid |-> TRUE]
<1>1. dma \in Engine /\ track \in Track /\ <<s, c>> \in Slots \X Channels
  BY DEF DmaInv, TypeOK
<1>2. cap \in Capability
  <2>1. dma.caps[<<s, c>>].generation \in Generations
    BY <1>1 DEF Engine, Capability
  <2>2. NextGeneration(dma.caps[<<s, c>>].generation) \in Generations
    BY <2>1, DmaConstants DEF NextGeneration, Generations
  <2>3. QED
    BY <2>2 DEF Capability
<1>3. dma' = [dma EXCEPT !.caps[<<s, c>>] = cap]
  BY DEF BindChannel, Bind
<1>4. ~ActiveMatches(dma, s, c)
  BY DEF BindChannel, BindAllowed
<1>5. track' \in Track /\ track'.offset = track.offset
        /\ track'.confirmed = track.confirmed /\ track'.late = track.late
  BY <1>1 DEF BindChannel, Track
<1> HIDE DEF cap
<1>6. /\ dma' \in Engine
      /\ dma'.active = dma.active /\ dma'.state = dma.state
      /\ dma'.completion = dma.completion
      /\ dma'.caps = [dma.caps EXCEPT ![<<s, c>>] = cap]
  BY <1>1, <1>2, <1>3 DEF Engine
<1>7. Active # None => ActiveCap' = ActiveCap
  <2> SUFFICES ASSUME Active # None PROVE ActiveCap' = ActiveCap
    OBVIOUS
  <2>1. Active' = Active /\ <<Active.slot, Active.channel>> # <<s, c>>
    BY <1>4, <1>6 DEF ActiveMatches, Active
  <2>2. QED
    BY <1>1, <1>6, <2>1 DEF ActiveCap, Engine
<1>8. BurstKeepsItsMapping'
  BY <1>5, <1>6, <1>7 DEF DmaInv, BurstKeepsItsMapping, Active
<1>9. CompletionIsExact'
  BY <1>5, <1>6 DEF DmaInv, CompletionIsExact, Active
<1>10. QED
  BY <1>5, <1>6, <1>8, <1>9 DEF DmaInv, TypeOK, Active

LEMMA RevokeKeepsDmaInv ==
  ASSUME DmaInv, NEW s \in Slots, NEW c \in Channels, RevokeChannel(s, c)
  PROVE  DmaInv'
<1>1. dma \in Engine /\ track \in Track /\ <<s, c>> \in Slots \X Channels
  BY DEF DmaInv, TypeOK
<1>2. /\ dma'.caps = [dma.caps EXCEPT ![<<s, c>>] = [@ EXCEPT !.valid = FALSE]]
      /\ dma'.active = IF ActiveMatches(dma, s, c)
                       THEN [dma.active EXCEPT !.revokePending = TRUE] ELSE dma.active
      /\ dma'.state = dma.state /\ dma'.completion = dma.completion
      /\ track' = track
  BY <1>1 DEF RevokeChannel, Revoke, Engine
<1>3. [dma.caps[<<s, c>>] EXCEPT !.valid = FALSE] \in Capability
  <2>1. dma.caps[<<s, c>>] \in Capability
    BY <1>1 DEF Engine
  <2>2. QED
    BY <2>1 DEF Capability
<1>4. dma'.caps \in [Slots \X Channels -> Capability]
  BY <1>1, <1>2, <1>3 DEF Engine
<1>5. dma'.active \in Burst \cup {None}
  <2>1. CASE ActiveMatches(dma, s, c)
    <3>1. dma.active \in Burst
      BY <1>1, <2>1 DEF Engine, ActiveMatches
    <3>2. [dma.active EXCEPT !.revokePending = TRUE] \in Burst
      BY <3>1 DEF Burst
    <3>3. QED
      BY <1>2, <2>1, <3>2
  <2>2. CASE ~ActiveMatches(dma, s, c)
    BY <1>1, <1>2, <2>2 DEF Engine
  <2>3. QED
    BY <2>1, <2>2
<1>6. dma' \in Engine
  <2>1. dma' = [caps |-> dma'.caps, state |-> dma'.state, active |-> dma'.active,
                completion |-> dma'.completion]
    BY <1>1 DEF RevokeChannel, Revoke, Engine
  <2>2. QED
    BY <1>1, <1>2, <1>4, <1>5, <2>1 DEF Engine
<1>7. CASE dma.active = None
  <2>1. dma'.active = None
    BY <1>2, <1>7 DEF ActiveMatches
  <2>2. QED
    BY <1>1, <1>2, <1>6, <1>7, <2>1
       DEF DmaInv, TypeOK, BurstKeepsItsMapping, CompletionIsExact, Active
<1>8. CASE dma.active # None /\ ActiveMatches(dma, s, c)
  <2>1. dma.active \in Burst
    BY <1>1, <1>8 DEF Engine
  <2>2. /\ dma'.active = [dma.active EXCEPT !.revokePending = TRUE]
        /\ dma'.active # None
    <3>1. [dma.active EXCEPT !.revokePending = TRUE] \in Burst
      BY <2>1 DEF Burst
    <3>2. QED
      BY <1>2, <1>8, <3>1, NoneIsFresh
  <2>3. /\ dma'.caps[<<s, c>>] = [dma.caps[<<s, c>>] EXCEPT !.valid = FALSE]
        /\ ActiveCap' = dma'.caps[<<s, c>>] /\ ActiveCap = dma.caps[<<s, c>>]
    BY <1>1, <1>2, <1>8, <2>1, <2>2 DEF Engine, ActiveCap, Active, ActiveMatches, Burst
  <2>4. ActiveCap \in Capability
    BY <1>1, <2>3 DEF Engine
  <2>5. BurstKeepsItsMapping'
    BY <1>2, <1>8, <2>1, <2>2, <2>3, <2>4
       DEF DmaInv, BurstKeepsItsMapping, Active, Permits, Burst, Capability
  <2>6. CompletionIsExact'
    BY <1>2, <1>8, <2>1, <2>2 DEF DmaInv, CompletionIsExact, Active, Burst
  <2>7. QED
    BY <1>1, <1>2, <1>6, <1>8, <2>1, <2>2, <2>5, <2>6 DEF DmaInv, TypeOK, Active, Burst, Track
<1>9. CASE dma.active # None /\ ~ActiveMatches(dma, s, c)
  <2>1. dma'.active = dma.active /\ <<dma.active.slot, dma.active.channel>> # <<s, c>>
    BY <1>2, <1>9 DEF ActiveMatches
  <2>2. ActiveCap' = ActiveCap
    BY <1>1, <1>2, <2>1 DEF Engine, ActiveCap, Active
  <2>3. BurstKeepsItsMapping'
    BY <1>2, <2>1, <2>2 DEF DmaInv, BurstKeepsItsMapping, Active
  <2>4. CompletionIsExact'
    BY <1>2, <2>1 DEF DmaInv, CompletionIsExact, Active
  <2>5. QED
    BY <1>1, <1>2, <1>6, <2>1, <2>3, <2>4 DEF DmaInv, TypeOK, Active
<1>10. QED
  BY <1>7, <1>8, <1>9

LEMMA StartKeepsDmaInv ==
  ASSUME DmaInv, NEW s \in Slots, NEW c \in Channels, NEW e \in Nat, NEW offset \in Nat,
         NEW words \in Bursts, NEW dir \in Directions, StartBurst(s, c, e, offset, words, dir)
  PROVE  DmaInv'
<1> DEFINE h   == [channel |-> c, generation |-> GenerationOf(e), offset |-> offset]
           cap == dma.caps[<<s, c>>]
           a   == [slot |-> s, channel |-> c, generation |-> h.generation, direction |-> dir,
                   address |-> cap.base + offset, total |-> words, acknowledged |-> 0,
                   pendingWrite |-> None, readData |-> None, wait |-> 0,
                   revokePending |-> FALSE]
<1>1. dma \in Engine /\ track \in Track /\ <<s, c>> \in Slots \X Channels
  BY DEF DmaInv, TypeOK
<1>2. cap \in Capability
  BY <1>1 DEF Engine
<1>3. /\ dma.active = None /\ dma.completion = None
      /\ cap.valid /\ cap.generation = h.generation /\ Permits(cap, dir)
      /\ offset + WordBytes * words <= cap.length
      /\ cap.base + offset < AddrSpace
  BY DEF StartBurst, StartAllowed, Busy
<1>4. words \in Nat /\ words > 0
  BY DmaConstants
<1>5. a \in Burst /\ a # None
  <2>1. a \in Burst
    BY <1>2, <1>3, <1>4 DEF Burst, Capability
  <2>2. QED
    BY <2>1, NoneIsFresh
<1>6. dma' = [dma EXCEPT !.active = a,
                 !.state = IF dir = "DeviceRead" THEN "MemRequest" ELSE "AwaitDeviceWrite"]
  BY DEF StartBurst, Start
<1>7. /\ track' \in Track /\ track'.offset = offset /\ track'.confirmed = 0 /\ track'.late = 0
  BY <1>1 DEF StartBurst, Track
<1>8. /\ a.generation = cap.generation /\ a.direction = dir /\ a.acknowledged = 0
      /\ a.total = words /\ a.address = cap.base + offset /\ ~a.revokePending
      /\ a.slot = s /\ a.channel = c
  BY <1>3
<1> HIDE DEF a
<1>9. /\ dma' \in Engine /\ dma'.active = a /\ dma'.active # None /\ dma'.caps = dma.caps
      /\ dma'.completion = None
      /\ dma'.state \in {"MemRequest", "AwaitDeviceWrite"}
  BY <1>1, <1>3, <1>5, <1>6 DEF Engine, DmaStates
<1>10. (cap.base + offset + WordBytes * 0) % AddrSpace = cap.base + offset
  <2>1. cap.base + offset \in 0 .. AddrSpace - 1 /\ cap.base + offset + WordBytes * 0 = cap.base + offset
    BY <1>2, <1>3, DmaConstants DEF Capability, WordBytes
  <2> HIDE DEF cap
  <2>2. (AddrSpace * 0 + (cap.base + offset)) % AddrSpace = cap.base + offset
    BY <2>1, RemainderUnique, DmaConstants
  <2>3. QED
    BY <2>1, <2>2, DmaConstants
<1>11. ActiveCap' = cap
  BY <1>8, <1>9 DEF ActiveCap, Active
<1>12. BurstKeepsItsMapping'
  BY <1>3, <1>4, <1>7, <1>8, <1>9, <1>10, <1>11 DEF BurstKeepsItsMapping, Active, Capability
<1>13. CompletionIsExact'
  BY <1>7, <1>8, <1>9 DEF CompletionIsExact, Active
<1>14. QED
  BY <1>7, <1>8, <1>9, <1>12, <1>13 DEF DmaInv, TypeOK, Active

\* A step that ends the burst: nothing is left to say of it but its completion.
LEMMA EndedKeepsDmaInv ==
  ASSUME dma' \in Engine, track' \in Track, dma'.active = None, dma'.state = "Idle",
         dma'.completion # None /\ dma'.completion.result = "Ok"
           => dma'.completion.beats = track'.confirmed
  PROVE  DmaInv'
  BY DEF DmaInv, TypeOK, BurstKeepsItsMapping, CompletionIsExact, Active

\* An abort reports an error, so there is no word count to get wrong.
LEMMA AbortKeepsDmaInv ==
  ASSUME DmaInv, NEW error \in DmaErrors, dma' = Abort(dma, error), track' \in Track
  PROVE  DmaInv'
<1>1. dma \in Engine
  BY DEF DmaInv, TypeOK
<1>2. /\ dma' \in Engine /\ dma'.active = None /\ dma'.state = "Idle"
      /\ dma'.completion = [result |-> error, beats |-> 0]
  BY <1>1, AbortFacts
<1>3. dma'.completion.result # "Ok"
  BY <1>2 DEF DmaErrors
<1>4. QED
  BY <1>2, <1>3, EndedKeepsDmaInv

\* A step that leaves the burst's identity alone: state, wait and buffered words only.
LEMMA SameBurstKeepsDmaInv ==
  ASSUME DmaInv, dma.active # None, dma' \in Engine, dma'.active # None,
         track' \in Track, track'.offset = track.offset,
         dma'.caps = dma.caps, dma'.completion = dma.completion, dma'.state # "Idle",
         dma'.active.slot = dma.active.slot, dma'.active.channel = dma.active.channel,
         dma'.active.generation = dma.active.generation,
         dma'.active.direction = dma.active.direction,
         dma'.active.address = dma.active.address,
         dma'.active.total = dma.active.total,
         dma'.active.acknowledged = dma.active.acknowledged,
         dma'.active.revokePending = dma.active.revokePending,
         track'.confirmed = dma.active.acknowledged
                              + (IF dma'.state = "DeviceReadReady" THEN 1 ELSE 0),
         track'.late <= IF dma.active.revokePending /\ dma'.state \in {"MemResponse", "DeviceReadReady"}
                        THEN 1 ELSE 0
  PROVE  DmaInv'
<1>1. ActiveCap' = ActiveCap
  BY DEF ActiveCap, Active
<1>2. BurstKeepsItsMapping'
  BY <1>1 DEF DmaInv, BurstKeepsItsMapping, Active
<1>3. dma.completion = None
  BY DEF DmaInv, Active
<1>4. CompletionIsExact'
  BY <1>3 DEF CompletionIsExact, Active
<1>5. QED
  BY <1>2, <1>3, <1>4 DEF DmaInv, TypeOK, Active

\* A beat is done: acknowledged by the card (read) or confirmed by memory (write).
LEMMA BeatDoneKeepsDmaInv ==
  ASSUME DmaInv, dma.active # None, NEW next \in {"MemRequest", "AwaitDeviceWrite"},
         dma' = BeatDone(dma, next), track' \in Track, track'.offset = track.offset,
         track'.late = track.late, track'.confirmed = dma.active.acknowledged + 1
  PROVE  DmaInv'
<1> DEFINE n == dma.active.acknowledged + 1
<1>1. dma \in Engine /\ track \in Track /\ dma.active \in Burst
  BY DEF DmaInv, TypeOK, Engine
<1>2. dma.active.acknowledged < dma.active.total /\ next \in DmaStates
  BY DEF DmaInv, BurstKeepsItsMapping, Active, DmaStates
<1>3. /\ dma' \in Engine /\ dma'.caps = dma.caps
      /\ \/ /\ dma.active.revokePending
            /\ dma'.active = None /\ dma'.state = "Idle"
            /\ dma'.completion = [result |-> "Revoked", beats |-> 0]
         \/ /\ dma'.active = None /\ dma'.state = "Idle"
            /\ dma'.completion = [result |-> "Ok", beats |-> n]
         \/ /\ ~dma.active.revokePending
            /\ n < dma.active.total
            /\ dma'.state = next
            /\ dma'.completion = dma.completion
            /\ dma'.active # None
            /\ dma'.active = [dma.active EXCEPT !.acknowledged = n, !.pendingWrite = None,
                 !.readData = None, !.wait = 0,
                 !.address = (dma.active.address + WordBytes) % AddrSpace]
  BY <1>1, <1>2, BeatDoneFacts
<1>4. CASE dma'.active = None /\ dma'.completion = [result |-> "Revoked", beats |-> 0]
  BY <1>3, <1>4, EndedKeepsDmaInv
<1>5. CASE dma'.active = None /\ dma'.completion = [result |-> "Ok", beats |-> n]
  BY <1>3, <1>5, EndedKeepsDmaInv
<1>6. CASE /\ ~dma.active.revokePending /\ n < dma.active.total /\ dma'.state = next
           /\ dma'.completion = dma.completion /\ dma'.active # None
           /\ dma'.active = [dma.active EXCEPT !.acknowledged = n, !.pendingWrite = None,
                !.readData = None, !.wait = 0,
                !.address = (dma.active.address + WordBytes) % AddrSpace]
  <2>1. /\ dma'.active.slot = dma.active.slot /\ dma'.active.channel = dma.active.channel
        /\ dma'.active.generation = dma.active.generation
        /\ dma'.active.direction = dma.active.direction
        /\ dma'.active.total = dma.active.total
        /\ dma'.active.acknowledged = n
        /\ dma'.active.address = (dma.active.address + WordBytes) % AddrSpace
        /\ dma'.active.revokePending = dma.active.revokePending
    BY <1>1, <1>6 DEF Burst
  <2>2. ActiveCap' = ActiveCap
    BY <1>3, <2>1 DEF ActiveCap, Active
  <2>3. ActiveCap \in Capability
    BY <1>1 DEF ActiveCap, Active, Engine, Burst
  <2>4. dma'.active.address
          = (ActiveCap.base + track.offset + WordBytes * n) % AddrSpace
    <3> DEFINE x == ActiveCap.base + track.offset + WordBytes * dma.active.acknowledged
    <3>1. x \in Nat /\ x + 4 = ActiveCap.base + track.offset + WordBytes * n
      BY <1>1, <2>3 DEF Track, Capability, Burst, WordBytes
    <3>2. dma.active.address = x % AddrSpace
      BY DEF DmaInv, BurstKeepsItsMapping, Active
    <3> HIDE DEF x
    <3>3. ((x % AddrSpace) + 4) % AddrSpace = (x + 4) % AddrSpace
      BY <3>1, StepOfRemainder, DmaConstants
    <3>4. QED
      BY <2>1, <3>1, <3>2, <3>3 DEF WordBytes
  <2>5. BurstKeepsItsMapping'
    BY <1>6, <2>1, <2>2, <2>4 DEF DmaInv, BurstKeepsItsMapping, Active
  <2>6. dma.completion = None
    BY DEF DmaInv, Active
  <2>7. CompletionIsExact'
    BY <1>1, <1>6, <2>1, <2>6 DEF CompletionIsExact, Active, Burst
  <2>8. track'.late <= 0
    BY <1>6 DEF DmaInv, Active
  <2>9. QED
    BY <1>3, <1>6, <2>5, <2>6, <2>7, <2>8 DEF DmaInv, TypeOK, Active
<1>7. QED
  BY <1>3, <1>4, <1>5, <1>6

LEMMA OfferKeepsDmaInv ==
  ASSUME DmaInv, NEW word \in Words, NEW parityOk \in BOOLEAN, OfferWord(word, parityOk)
  PROVE  DmaInv'
<1>1. /\ dma \in Engine /\ track \in Track /\ track' = track
      /\ dma.state = "AwaitDeviceWrite" /\ dma.active # None
  BY DEF DmaInv, TypeOK, OfferWord, Active
<1>2. dma.active \in Burst
  BY <1>1 DEF Engine
<1>3. CASE ~parityOk
  BY <1>1, <1>3, AbortKeepsDmaInv DEF OfferWord, OfferDeviceWrite, DmaErrors
<1>4. CASE parityOk /\ dma.active.revokePending
  BY <1>1, <1>4, AbortKeepsDmaInv DEF OfferWord, OfferDeviceWrite, DmaErrors
<1>5. CASE parityOk /\ ~dma.active.revokePending
  <2> DEFINE a == [dma.active EXCEPT !.pendingWrite = word, !.wait = 0]
  <2>1. a \in Burst
    BY <1>2 DEF Burst
  <2>2. a # None
    BY <2>1, NoneIsFresh
  <2>3. dma' = [dma EXCEPT !.active = a, !.state = "MemRequest"]
    BY <1>1, <1>5 DEF OfferWord, OfferDeviceWrite, Engine
  <2>4. /\ a.slot = dma.active.slot /\ a.channel = dma.active.channel
        /\ a.generation = dma.active.generation /\ a.direction = dma.active.direction
        /\ a.address = dma.active.address /\ a.total = dma.active.total
        /\ a.acknowledged = dma.active.acknowledged
        /\ a.revokePending = dma.active.revokePending
    BY <1>2 DEF Burst
  <2> HIDE DEF a
  <2>5. /\ dma' \in Engine /\ dma'.active = a /\ dma'.state = "MemRequest"
        /\ dma'.caps = dma.caps /\ dma'.completion = dma.completion
    BY <1>1, <2>1, <2>3 DEF Engine, DmaStates
  <2>6. track.confirmed = dma.active.acknowledged /\ track.late <= 0
    BY <1>1, <1>2, <1>5 DEF DmaInv, CompletionIsExact, Active, Burst
  <2>7. QED
    BY <1>1, <1>2, <1>5, <2>2, <2>4, <2>5, <2>6, SameBurstKeepsDmaInv DEF Burst
<1>6. QED
  BY <1>3, <1>4, <1>5

LEMMA AcceptKeepsDmaInv ==
  ASSUME DmaInv, AcceptRequest
  PROVE  DmaInv'
<1>1. /\ dma \in Engine /\ track \in Track
      /\ dma.state = "MemRequest" /\ dma.active # None
  BY DEF DmaInv, TypeOK, AcceptRequest, Active
<1>2. dma.active \in Burst
  BY <1>1 DEF Engine
<1> DEFINE a == [dma.active EXCEPT !.wait = 0]
<1>3. a \in Burst
  BY <1>2 DEF Burst
<1>4. a # None
  BY <1>3, NoneIsFresh
<1>5. dma' = [dma EXCEPT !.active = a, !.state = "MemResponse"]
  BY <1>1 DEF AcceptRequest, MemoryRequestAccepted, Engine
<1>6. /\ a.slot = dma.active.slot /\ a.channel = dma.active.channel
      /\ a.generation = dma.active.generation /\ a.direction = dma.active.direction
      /\ a.address = dma.active.address /\ a.total = dma.active.total
      /\ a.acknowledged = dma.active.acknowledged
      /\ a.revokePending = dma.active.revokePending
  BY <1>2 DEF Burst
<1> HIDE DEF a
<1>7. /\ dma' \in Engine /\ dma'.active = a /\ dma'.state = "MemResponse"
      /\ dma'.caps = dma.caps /\ dma'.completion = dma.completion
  BY <1>1, <1>3, <1>5 DEF Engine, DmaStates
<1>8. track.confirmed = dma.active.acknowledged /\ track.late <= 0
  BY <1>1, <1>2 DEF DmaInv, CompletionIsExact, Active, Burst
<1>9. /\ track' \in Track /\ track'.offset = track.offset /\ track'.confirmed = track.confirmed
      /\ track'.late = track.late + (IF dma.active.revokePending THEN 1 ELSE 0)
  BY <1>1, <1>2 DEF AcceptRequest, Track, Burst
<1>10. track'.late <= IF dma.active.revokePending THEN 1 ELSE 0
  BY <1>1, <1>2, <1>8, <1>9 DEF Track, Burst
<1>11. QED
  BY <1>1, <1>2, <1>4, <1>6, <1>7, <1>8, <1>9, <1>10, SameBurstKeepsDmaInv DEF Burst

LEMMA ResponseKeepsDmaInv ==
  ASSUME DmaInv, NEW response \in MemoryResponses, TakeResponse(response)
  PROVE  DmaInv'
<1>1. /\ dma \in Engine /\ track \in Track
      /\ dma.state = "MemResponse" /\ dma.active # None
  BY DEF DmaInv, TypeOK, TakeResponse, Active
<1>2. dma.active \in Burst
  BY <1>1 DEF Engine
<1>3. track.confirmed = dma.active.acknowledged
  BY <1>1, <1>2 DEF DmaInv, CompletionIsExact, Active, Burst
<1> DEFINE wrote == dma.active.direction = "DeviceWrite" /\ response.kind = "WriteDone"
           read  == dma.active.direction = "DeviceRead" /\ response.kind = "ReadData"
<1>4. /\ track' \in Track /\ track'.offset = track.offset /\ track'.late = track.late
      /\ wrote \/ read => track'.confirmed = track.confirmed + 1
  BY <1>1 DEF TakeResponse, Track
<1>5. CASE wrote
  <2>1. dma' = BeatDone(dma, "AwaitDeviceWrite")
    BY <1>5 DEF TakeResponse, MemoryResponse
  <2>2. QED
    BY <1>1, <1>3, <1>4, <1>5, <2>1, BeatDoneKeepsDmaInv
<1>6. CASE read
  <2> DEFINE a == [dma.active EXCEPT !.readData = response.value, !.wait = 0]
  <2>1. response.value \in Words
    BY <1>6 DEF MemoryResponses
  <2>2. a \in Burst
    BY <1>2, <2>1 DEF Burst
  <2>3. a # None
    BY <2>2, NoneIsFresh
  <2>4. dma' = [dma EXCEPT !.active = a, !.state = "DeviceReadReady"]
    BY <1>1, <1>6 DEF TakeResponse, MemoryResponse, Engine
  <2>5. /\ a.slot = dma.active.slot /\ a.channel = dma.active.channel
        /\ a.generation = dma.active.generation /\ a.direction = dma.active.direction
        /\ a.address = dma.active.address /\ a.total = dma.active.total
        /\ a.acknowledged = dma.active.acknowledged
        /\ a.revokePending = dma.active.revokePending
    BY <1>2 DEF Burst
  <2> HIDE DEF a
  <2>6. /\ dma' \in Engine /\ dma'.active = a /\ dma'.state = "DeviceReadReady"
        /\ dma'.caps = dma.caps /\ dma'.completion = dma.completion
    BY <1>1, <2>2, <2>4 DEF Engine, DmaStates
  <2>7. track.late <= IF dma.active.revokePending THEN 1 ELSE 0
    BY <1>1 DEF DmaInv, Active
  <2>8. QED
    BY <1>1, <1>2, <1>3, <1>4, <1>6, <2>3, <2>5, <2>6, <2>7, SameBurstKeepsDmaInv DEF Burst
<1>7. CASE ~wrote /\ ~read
  <2>1. dma' = Abort(dma, "MemoryFault")
    BY <1>7 DEF TakeResponse, MemoryResponse
  <2>2. QED
    BY <1>4, <2>1, AbortKeepsDmaInv DEF DmaErrors
<1>8. QED
  BY <1>5, <1>6, <1>7

LEMMA WaitKeepsDmaInv ==
  ASSUME DmaInv, Wait
  PROVE  DmaInv'
<1>1. /\ dma \in Engine /\ track \in Track /\ track' = track /\ dma.active # None
  BY DEF DmaInv, TypeOK, Wait
<1>2. dma.active \in Burst
  BY <1>1 DEF Engine
<1>3. CASE dma.active.wait + 1 >= Timeout
  BY <1>1, <1>3, AbortKeepsDmaInv DEF Wait, WaitCycle, DmaErrors
<1>4. CASE ~(dma.active.wait + 1 >= Timeout)
  <2> DEFINE a == [dma.active EXCEPT !.wait = @ + 1]
  <2>1. a \in Burst
    BY <1>2 DEF Burst
  <2>2. a # None
    BY <2>1, NoneIsFresh
  <2>3. dma' = [dma EXCEPT !.active = a]
    BY <1>1, <1>4 DEF Wait, WaitCycle, Engine
  <2>4. /\ a.slot = dma.active.slot /\ a.channel = dma.active.channel
        /\ a.generation = dma.active.generation /\ a.direction = dma.active.direction
        /\ a.address = dma.active.address /\ a.total = dma.active.total
        /\ a.acknowledged = dma.active.acknowledged
        /\ a.revokePending = dma.active.revokePending
    BY <1>2 DEF Burst
  <2> HIDE DEF a
  <2>5. /\ dma' \in Engine /\ dma'.active = a /\ dma'.state = dma.state
        /\ dma'.caps = dma.caps /\ dma'.completion = dma.completion
    BY <1>1, <2>1, <2>3 DEF Engine
  <2>6. /\ track.confirmed = dma.active.acknowledged
                               + (IF dma.state = "DeviceReadReady" THEN 1 ELSE 0)
        /\ dma.state # "Idle"
        /\ track.late <= IF dma.active.revokePending /\ dma.state \in {"MemResponse", "DeviceReadReady"}
                         THEN 1 ELSE 0
    BY <1>1 DEF DmaInv, CompletionIsExact, Active
  <2>7. QED
    BY <1>1, <2>2, <2>4, <2>5, <2>6, SameBurstKeepsDmaInv
<1>5. QED
  BY <1>3, <1>4

LEMMA AcknowledgeKeepsDmaInv ==
  ASSUME DmaInv, AcknowledgeWord
  PROVE  DmaInv'
<1>1. /\ dma \in Engine /\ track \in Track /\ track' = track
      /\ dma.state = "DeviceReadReady" /\ dma.active # None
  BY DEF DmaInv, TypeOK, AcknowledgeWord, Active
<1>2. track.confirmed = dma.active.acknowledged + 1
  BY <1>1 DEF DmaInv, CompletionIsExact, Active
<1>3. dma' = BeatDone(dma, "MemRequest")
  BY DEF AcknowledgeWord, AcknowledgeDeviceRead
<1>4. QED
  BY <1>1, <1>2, <1>3, BeatDoneKeepsDmaInv

LEMMA ResetKeepsDmaInv ==
  ASSUME DmaInv, ResetEngine
  PROVE  DmaInv'
<1>1. dma \in Engine /\ track \in Track /\ track' = track
  BY DEF DmaInv, TypeOK, ResetEngine
<1>2. CASE dma.active # None
  BY <1>1, <1>2, AbortKeepsDmaInv DEF ResetEngine, Reset, DmaErrors
<1>3. CASE dma.active = None
  <2>1. /\ dma' \in Engine /\ dma'.active = None /\ dma'.state = "Idle"
        /\ dma'.completion = dma.completion
    BY <1>1, <1>3 DEF ResetEngine, Reset, Engine, DmaStates
  <2>2. dma.completion # None /\ dma.completion.result = "Ok"
          => dma.completion.beats = track.confirmed
    BY DEF DmaInv, CompletionIsExact
  <2>3. QED
    BY <1>1, <2>1, <2>2, EndedKeepsDmaInv
<1>4. QED
  BY <1>2, <1>3

\* Only a burst that is over leaves a completion to collect.
LEMMA CollectKeepsDmaInv ==
  ASSUME DmaInv, CollectCompletion
  PROVE  DmaInv'
<1>1. /\ dma \in Engine /\ track \in Track /\ track' = track
      /\ dma.active = None /\ dma.state = "Idle"
  BY DEF DmaInv, TypeOK, CollectCompletion, Active
<1>2. /\ dma' \in Engine /\ dma'.active = None /\ dma'.state = "Idle"
      /\ dma'.completion = None
  BY <1>1 DEF CollectCompletion, TakeCompletion, Engine
<1>3. QED
  BY <1>1, <1>2, EndedKeepsDmaInv

LEMMA StepDmaInv == DmaInv /\ [Next]_vars => DmaInv'
<1> SUFFICES ASSUME DmaInv, [Next]_vars PROVE DmaInv'
  OBVIOUS
<1>1. ASSUME NEW s \in Slots, NEW c \in Channels, NEW base \in Bases, NEW length \in Lengths,
             NEW r \in BOOLEAN, NEW w \in BOOLEAN, BindChannel(s, c, base, length, r, w)
      PROVE  DmaInv'
  <2>1. base \in Nat /\ length \in Nat
    BY InputsAreNumbers
  <2>2. QED
    BY <1>1, <2>1, BindKeepsDmaInv
<1>2. ASSUME NEW s \in Slots, NEW c \in Channels, RevokeChannel(s, c) PROVE DmaInv'
  BY <1>2, RevokeKeepsDmaInv
<1>3. ASSUME NEW s \in Slots, NEW c \in Channels, NEW e \in 1 .. MaxBinds,
             NEW offset \in Offsets, NEW words \in Bursts, NEW dir \in Directions,
             StartBurst(s, c, e, offset, words, dir)
      PROVE  DmaInv'
  <2>1. e \in Nat /\ offset \in Nat
    BY InputsAreNumbers
  <2>2. QED
    BY <1>3, <2>1, StartKeepsDmaInv
<1>4. ASSUME NEW word \in Words, NEW parityOk \in BOOLEAN, OfferWord(word, parityOk)
      PROVE  DmaInv'
  BY <1>4, OfferKeepsDmaInv
<1>5. ASSUME NEW response \in MemoryResponses, TakeResponse(response) PROVE DmaInv'
  BY <1>5, ResponseKeepsDmaInv
<1>6. CASE AcceptRequest
  BY <1>6, AcceptKeepsDmaInv
<1>7. CASE AcknowledgeWord
  BY <1>7, AcknowledgeKeepsDmaInv
<1>8. CASE Wait
  BY <1>8, WaitKeepsDmaInv
<1>9. CASE ResetEngine
  BY <1>9, ResetKeepsDmaInv
<1>10. CASE CollectCompletion
  BY <1>10, CollectKeepsDmaInv
<1>11. CASE UNCHANGED vars
  BY <1>11 DEF vars, DmaInv, TypeOK, BurstKeepsItsMapping, CompletionIsExact, Active, ActiveCap
<1>12. QED
  BY <1>1, <1>2, <1>3, <1>4, <1>5, <1>6, <1>7, <1>8, <1>9, <1>10, <1>11 DEF Next

-----------------------------------------------------------------------------
(* The theorems.                                                            *)

\* The inductive invariant holds in every reachable state of the engine.
THEOREM DmaInvariant == Spec => []DmaInv
  BY InitDmaInv, StepDmaInv, PTL DEF Spec

\* Type correctness of the engine and of its history.
THEOREM TypeCorrect == Spec => []TypeOK
<1>1. DmaInv => TypeOK
  BY DEF DmaInv
<1>2. QED
  BY <1>1, DmaInvariant, PTL

(* bind(), revoke() and the burst's own steps never part a running burst from the
   mapping start() checked: generation, rights, bounds and address agree. *)
THEOREM MappingKept == Spec => []BurstKeepsItsMapping
<1>1. DmaInv => BurstKeepsItsMapping
  BY DEF DmaInv
<1>2. QED
  BY <1>1, DmaInvariant, PTL

\* take_completion() reports Ok(n) only for n words that memory confirmed.
THEOREM CompletionExact == Spec => []CompletionIsExact
<1>1. DmaInv => CompletionIsExact
  BY DEF DmaInv
<1>2. QED
  BY <1>1, DmaInvariant, PTL

\* After revoke() at most one more access of the running burst reaches memory.
THEOREM RevocationStops == Spec => []RevocationStopsTheBurst
<1>1. DmaInv => RevocationStopsTheBurst
  <2> SUFFICES ASSUME DmaInv, Active # None PROVE track.late <= 1
    BY DEF RevocationStopsTheBurst
  <2>1. track.late \in Nat
    BY DEF DmaInv, TypeOK, Track
  <2>2. QED
    BY <2>1 DEF DmaInv
<1>2. QED
  BY <1>1, DmaInvariant, PTL

(* A completion stays in its slot until it is taken: no step of a later burst, and
   no reset, replaces it. *)
THEOREM CompletionKept == Spec => NoCompletionLost
<1> DEFINE Kept == dma.completion # None => dma'.completion \in {dma.completion, None}
<1>1. DmaInv /\ [Next]_vars => [Kept]_vars
  <2> SUFFICES ASSUME DmaInv, Next, dma.completion # None
               PROVE  dma'.completion \in {dma.completion, None}
    OBVIOUS
  <2>1. dma \in Engine /\ dma.active = None /\ dma.state = "Idle"
    BY DEF DmaInv, TypeOK, Active
  <2>2. ASSUME NEW s \in Slots, NEW c \in Channels, NEW base \in Bases, NEW length \in Lengths,
               NEW r \in BOOLEAN, NEW w \in BOOLEAN, BindChannel(s, c, base, length, r, w)
        PROVE  dma'.completion = dma.completion
    BY <2>1, <2>2 DEF BindChannel, Bind, Engine
  <2>3. ASSUME NEW s \in Slots, NEW c \in Channels, RevokeChannel(s, c)
        PROVE  dma'.completion = dma.completion
    BY <2>1, <2>3 DEF RevokeChannel, Revoke, Engine
  <2>4. ASSUME NEW s \in Slots, NEW c \in Channels, NEW e \in 1 .. MaxBinds,
               NEW offset \in Offsets, NEW words \in Bursts, NEW dir \in Directions,
               StartBurst(s, c, e, offset, words, dir)
        PROVE  FALSE
    BY <2>4 DEF StartBurst, StartAllowed, Busy
  <2>5. ASSUME NEW word \in Words, NEW parityOk \in BOOLEAN, OfferWord(word, parityOk)
        PROVE  FALSE
    BY <2>1, <2>5 DEF OfferWord
  <2>6. ASSUME NEW response \in MemoryResponses, TakeResponse(response) PROVE FALSE
    BY <2>1, <2>6 DEF TakeResponse
  <2>7. ~AcceptRequest /\ ~AcknowledgeWord /\ ~Wait
    BY <2>1 DEF AcceptRequest, AcknowledgeWord, Wait
  <2>8. ResetEngine => dma'.completion = dma.completion
    BY <2>1 DEF ResetEngine, Reset, Engine
  <2>9. CollectCompletion => dma'.completion = None
    BY <2>1 DEF CollectCompletion, TakeCompletion, Engine
  <2>10. QED
    BY <2>2, <2>3, <2>4, <2>5, <2>6, <2>7, <2>8, <2>9 DEF Next
<1>2. QED
  BY <1>1, DmaInvariant, PTL DEF Spec, NoCompletionLost

-----------------------------------------------------------------------------
(* Stale handles.  A handle of an earlier bind of its channel starts no     *)
(* burst, until the channel has been bound GenMod times more and the tag is *)
(* the same again.  First the arithmetic of the tag.                        *)

LEMMA NextOfRemainder ==
  ASSUME NEW M \in Nat \ {0}, NEW x \in Nat
  PROVE  (x + 1) % M = IF x % M = M - 1 THEN 0 ELSE (x % M) + 1
<1> DEFINE q == x \div M
           r == x % M
<1>1. q \in Nat /\ r \in 0 .. M - 1 /\ x = M * q + r
  BY Division
<1> HIDE DEF q
<1>2. CASE r = M - 1
  <2>1. x + 1 = M * (q + 1) + 0
    BY <1>1, <1>2, Z3
  <2>2. (M * (q + 1) + 0) % M = 0
    BY <1>1, RemainderUnique
  <2>3. QED
    BY <1>2, <2>1, <2>2
<1>3. CASE r # M - 1
  <2>1. r + 1 \in 0 .. M - 1
    BY <1>1, <1>3
  <2>2. (M * q + (r + 1)) % M = r + 1
    BY <1>1, <2>1, RemainderUnique
  <2>3. x + 1 = M * q + (r + 1)
    <3>1. M * q \in Nat
      BY <1>1, Z3
    <3>2. QED
      BY <1>1, <3>1
  <2>4. QED
    BY <1>3, <2>2, <2>3
<1>4. QED
  BY <1>2, <1>3

\* Two numbers less than M apart that leave the same remainder are equal.
LEMMA SameRemainderNear ==
  ASSUME NEW M \in Nat \ {0}, NEW x \in Nat, NEW y \in Nat, x <= y, y - x < M, x % M = y % M
  PROVE  x = y
<1> DEFINE p == x \div M
           q == y \div M
           r == x % M
<1>1. p \in Nat /\ q \in Nat /\ r \in 0 .. M - 1 /\ x = M * p + r /\ y = M * q + r
  BY Division
<1> HIDE DEF p, q, r
<1>2. M * p \in Nat /\ M * q \in Nat
  BY <1>1, Z3
<1>3. y - x = M * q - M * p
  BY <1>1, <1>2
<1>4. M * q - M * p = M * (q - p)
  BY <1>1, Z3
<1>5. q - p \in Int /\ M * (q - p) \in 0 .. M - 1
  BY <1>1, <1>2, <1>3, <1>4
<1>6. q - p = 0
  <2> DEFINE k == q - p
  <2>1. k \in Int /\ M * k >= 0 /\ M * k < M
    BY <1>5
  <2> HIDE DEF k
  <2>2. ~(k >= 1)
    BY <2>1, Z3
  <2>3. ~(k <= -1)
    BY <2>1, Z3
  <2>4. k = 0
    BY <2>1, <2>2, <2>3
  <2>5. QED
    BY <2>4 DEF k
<1>7. QED
  BY <1>1, <1>2, <1>3, <1>4, <1>6

LEMMA GenerationStep ==
  ASSUME NEW b \in Nat
  PROVE  NextGeneration(GenerationOf(b)) = GenerationOf(b + 1)
<1>1. GenMod \in Nat \ {0} /\ b + GenMod - 1 \in Nat
  BY DmaConstants
<1>2. (b + GenMod - 1) + 1 = (b + 1) + GenMod - 1
  BY <1>1
<1>3. ((b + GenMod - 1) + 1) % GenMod
        = IF (b + GenMod - 1) % GenMod = GenMod - 1 THEN 0 ELSE ((b + GenMod - 1) % GenMod) + 1
  BY <1>1, NextOfRemainder
<1>4. QED
  BY <1>2, <1>3 DEF NextGeneration, GenerationOf

-----------------------------------------------------------------------------
(* The invariant.                                                           *)

LEMMA InitTags == Init => TagsCountBinds
<1> SUFFICES ASSUME Init PROVE TagsCountBinds
  OBVIOUS
<1>1. GenerationOf(0) = GenMod - 1
  <2>1. GenMod \in Nat \ {0} /\ GenMod - 1 \in 0 .. GenMod - 1
    BY DmaConstants
  <2>2. (GenMod * 0 + (GenMod - 1)) % GenMod = GenMod - 1
    BY <2>1, RemainderUnique
  <2>3. GenMod * 0 + (GenMod - 1) = 0 + GenMod - 1
    BY <2>1
  <2>4. QED
    BY <2>2, <2>3 DEF GenerationOf
<1>2. QED
  BY <1>1 DEF Init, NewEngine, UnboundCapability, TagsCountBinds, Active

LEMMA BindKeepsTags ==
  ASSUME DmaInv, TagsCountBinds, NEW s \in Slots, NEW c \in Channels, NEW base, NEW length,
         NEW r, NEW w, BindChannel(s, c, base, length, r, w)
  PROVE  TagsCountBinds'
<1>1. dma \in Engine /\ track \in Track /\ <<s, c>> \in Slots \X Channels
  BY DEF DmaInv, TypeOK
<1> DEFINE b == track.binds[<<s, c>>]
<1>2. b \in Nat
  BY <1>1 DEF Track
<1>3. /\ track'.binds = [track.binds EXCEPT ![<<s, c>>] = b + 1]
      /\ track'.epoch = track.epoch
  BY <1>1 DEF BindChannel, Track
<1>4. /\ dma'.active = dma.active
      /\ dma'.caps[<<s, c>>].generation = NextGeneration(dma.caps[<<s, c>>].generation)
      /\ \A sc \in Slots \X Channels : sc # <<s, c>> => dma'.caps[sc] = dma.caps[sc]
  BY <1>1 DEF BindChannel, Bind, Engine
<1>5. dma'.caps[<<s, c>>].generation = GenerationOf(b + 1)
  BY <1>1, <1>2, <1>4, GenerationStep DEF TagsCountBinds
<1>6. track'.binds[<<s, c>>] = b + 1
        /\ \A sc \in Slots \X Channels : sc # <<s, c>> => track'.binds[sc] = track.binds[sc]
  BY <1>1, <1>3 DEF Track
<1>7. QED
  BY <1>3, <1>4, <1>5, <1>6 DEF TagsCountBinds, Active

LEMMA StartKeepsTags ==
  ASSUME DmaInv, TagsCountBinds, NEW s \in Slots, NEW c \in Channels, NEW e, NEW offset,
         NEW words, NEW dir, StartBurst(s, c, e, offset, words, dir)
  PROVE  TagsCountBinds'
<1>1. dma \in Engine /\ track \in Track
  BY DEF DmaInv, TypeOK
<1>2. /\ dma'.caps = dma.caps
      /\ dma'.active.generation = GenerationOf(e)
  BY <1>1 DEF StartBurst, Start, Engine
<1>3. track'.binds = track.binds /\ track'.epoch = e
  BY <1>1 DEF StartBurst, Track
<1>4. QED
  BY <1>2, <1>3 DEF TagsCountBinds, Active

\* A step that binds nothing and at most carries a burst on.
LEMMA OthersKeepTags ==
  ASSUME TagsCountBinds,
         \A sc \in Slots \X Channels : dma'.caps[sc].generation = dma.caps[sc].generation,
         dma'.active # None =>
           dma.active # None /\ dma'.active.generation = dma.active.generation,
         track'.binds = track.binds, track'.epoch = track.epoch
  PROVE  TagsCountBinds'
  BY DEF TagsCountBinds, Active

LEMMA BeatKeepsBurst ==
  ASSUME NEW d \in Engine, d.active # None, NEW next
  PROVE  LET e == BeatDone(d, next) IN
         e.caps = d.caps /\ (e.active # None => e.active.generation = d.active.generation)
<1>1. d.active \in Burst
  BY DEF Engine
<1>2. QED
  BY <1>1 DEF BeatDone, Abort, FinishOk, Engine, Burst

LEMMA RevokeKeepsTags ==
  ASSUME DmaInv, TagsCountBinds, NEW s \in Slots, NEW c \in Channels, RevokeChannel(s, c)
  PROVE  TagsCountBinds'
<1>1. dma \in Engine /\ track' = track /\ <<s, c>> \in Slots \X Channels
  BY DEF DmaInv, TypeOK, RevokeChannel
<1>2. /\ dma'.caps = [dma.caps EXCEPT ![<<s, c>>] = [@ EXCEPT !.valid = FALSE]]
      /\ dma'.active = IF ActiveMatches(dma, s, c)
                       THEN [dma.active EXCEPT !.revokePending = TRUE] ELSE dma.active
  BY <1>1 DEF RevokeChannel, Revoke, Engine
<1>3. \A sc \in Slots \X Channels : dma'.caps[sc].generation = dma.caps[sc].generation
  <2> SUFFICES ASSUME NEW sc \in Slots \X Channels
               PROVE  dma'.caps[sc].generation = dma.caps[sc].generation
    OBVIOUS
  <2>1. dma.caps[sc] \in Capability
    BY <1>1 DEF Engine
  <2>2. dma'.caps[sc] = IF sc = <<s, c>> THEN [dma.caps[sc] EXCEPT !.valid = FALSE]
                        ELSE dma.caps[sc]
    BY <1>1, <1>2 DEF Engine
  <2>3. QED
    BY <2>1, <2>2 DEF Capability
<1>4. dma'.active # None =>
        dma.active # None /\ dma'.active.generation = dma.active.generation
  <2>1. CASE ActiveMatches(dma, s, c)
    <3>1. dma.active \in Burst /\ dma.active # None
      BY <1>1, <2>1 DEF Engine, ActiveMatches
    <3>2. QED
      BY <1>2, <2>1, <3>1 DEF Burst
  <2>2. CASE ~ActiveMatches(dma, s, c)
    BY <1>2, <2>2
  <2>3. QED
    BY <2>1, <2>2
<1>5. QED
  BY <1>1, <1>3, <1>4, OthersKeepTags

\* Every step of a burst in flight, and the engine's own resets.
LEMMA BurstStepKeepsTags ==
  ASSUME DmaInv, TagsCountBinds,
         \/ \E word \in Words, parityOk \in BOOLEAN : OfferWord(word, parityOk)
         \/ AcceptRequest
         \/ \E response \in MemoryResponses : TakeResponse(response)
         \/ AcknowledgeWord
         \/ Wait
         \/ ResetEngine
         \/ CollectCompletion
  PROVE  TagsCountBinds'
<1>1. dma \in Engine /\ track \in Track /\ dma.active \in Burst \cup {None}
  BY DEF DmaInv, TypeOK, Engine
<1>2. dma.state # "Idle" => dma.active # None
  BY DEF DmaInv, Active
<1> DEFINE Kept == /\ dma'.caps = dma.caps
                   /\ dma'.active # None =>
                        dma.active # None /\ dma'.active.generation = dma.active.generation
                   /\ track'.binds = track.binds /\ track'.epoch = track.epoch
<1>3. ASSUME NEW word \in Words, NEW parityOk \in BOOLEAN, OfferWord(word, parityOk)
      PROVE  Kept
  BY <1>1, <1>2, <1>3 DEF OfferWord, OfferDeviceWrite, Abort, Engine, Burst
<1>4. CASE AcceptRequest
  <2>1. Kept
    BY <1>1, <1>2, <1>4 DEF AcceptRequest, MemoryRequestAccepted, Engine, Burst, Track
  <2>2. QED
    BY <2>1, OthersKeepTags
<1>5. ASSUME NEW response \in MemoryResponses, TakeResponse(response) PROVE Kept
  <2>1. dma.active # None /\ track'.binds = track.binds /\ track'.epoch = track.epoch
    BY <1>1, <1>2, <1>5 DEF TakeResponse, Track
  <2>2. \/ dma' = BeatDone(dma, "AwaitDeviceWrite")
        \/ dma' = [dma EXCEPT !.active.readData = response.value, !.active.wait = 0,
                              !.state = "DeviceReadReady"]
        \/ dma' = Abort(dma, "MemoryFault")
    BY <1>5 DEF TakeResponse, MemoryResponse
  <2>3. CASE dma' = BeatDone(dma, "AwaitDeviceWrite")
    BY <1>1, <2>1, <2>3, BeatKeepsBurst
  <2>4. CASE dma' = [dma EXCEPT !.active.readData = response.value, !.active.wait = 0,
                               !.state = "DeviceReadReady"]
    BY <1>1, <2>1, <2>4 DEF Engine, Burst
  <2>5. CASE dma' = Abort(dma, "MemoryFault")
    BY <1>1, <2>1, <2>5 DEF Abort, Engine
  <2>6. QED
    BY <2>2, <2>3, <2>4, <2>5
<1>6. CASE AcknowledgeWord
  <2>1. dma' = BeatDone(dma, "MemRequest") /\ dma.active # None /\ track' = track
    BY <1>2, <1>6 DEF AcknowledgeWord, AcknowledgeDeviceRead
  <2>2. QED
    BY <1>1, <2>1, BeatKeepsBurst, OthersKeepTags
<1>7. CASE Wait
  <2>1. Kept
    BY <1>1, <1>7 DEF Wait, WaitCycle, Abort, Engine, Burst
  <2>2. QED
    BY <2>1, OthersKeepTags
<1>8. CASE ResetEngine
  <2>1. Kept
    BY <1>1, <1>8 DEF ResetEngine, Reset, Abort, Engine
  <2>2. QED
    BY <2>1, OthersKeepTags
<1>9. CASE CollectCompletion
  <2>1. Kept
    BY <1>1, <1>9 DEF CollectCompletion, TakeCompletion, Engine
  <2>2. QED
    BY <2>1, OthersKeepTags
<1>10. QED
  BY <1>3, <1>4, <1>5, <1>6, <1>7, <1>8, <1>9, OthersKeepTags

LEMMA StepTags == DmaInv /\ TagsCountBinds /\ [Next]_vars => TagsCountBinds'
<1> SUFFICES ASSUME DmaInv, TagsCountBinds, [Next]_vars PROVE TagsCountBinds'
  OBVIOUS
<1>1. ASSUME NEW s \in Slots, NEW c \in Channels, NEW base \in Bases, NEW length \in Lengths,
             NEW r \in BOOLEAN, NEW w \in BOOLEAN, BindChannel(s, c, base, length, r, w)
      PROVE  TagsCountBinds'
  BY <1>1, BindKeepsTags
<1>2. ASSUME NEW s \in Slots, NEW c \in Channels, RevokeChannel(s, c) PROVE TagsCountBinds'
  BY <1>2, RevokeKeepsTags
<1>3. ASSUME NEW s \in Slots, NEW c \in Channels, NEW e \in 1 .. MaxBinds,
             NEW offset \in Offsets, NEW words \in Bursts, NEW dir \in Directions,
             StartBurst(s, c, e, offset, words, dir)
      PROVE  TagsCountBinds'
  BY <1>3, StartKeepsTags
<1>4. CASE UNCHANGED vars
  BY <1>4 DEF vars, TagsCountBinds, Active
<1>5. QED
  BY <1>1, <1>2, <1>3, <1>4, BurstStepKeepsTags DEF Next

-----------------------------------------------------------------------------
(* The theorems.                                                            *)

\* The generation in the table and in the burst counts the binds of its channel.
THEOREM TagsCount == Spec => []TagsCountBinds
  BY InitTags, StepTags, DmaInvariant, PTL DEF Spec

(* start() refuses every handle whose channel has been bound again since, less than
   GenMod times. *)
THEOREM StaleHandles == Spec => []StaleHandleRejected
<1>1. DmaInv /\ TagsCountBinds => StaleHandleRejected
  <2> SUFFICES ASSUME DmaInv, TagsCountBinds, Active # None,
                      track.epoch <= track.binds[<<Active.slot, Active.channel>>],
                      track.binds[<<Active.slot, Active.channel>>] - track.epoch < GenMod
               PROVE  track.epoch = track.binds[<<Active.slot, Active.channel>>]
    BY DEF StaleHandleRejected
  <2> DEFINE sc == <<Active.slot, Active.channel>>
             b  == track.binds[sc]
             e  == track.epoch
  <2>1. sc \in Slots \X Channels
    BY DEF DmaInv, TypeOK, Engine, Burst, Active
  <2>2. b \in Nat /\ e \in Nat
    BY <2>1 DEF DmaInv, TypeOK, Track
  <2>3. GenerationOf(b) = GenerationOf(e)
    BY <2>1 DEF DmaInv, BurstKeepsItsMapping, TagsCountBinds, ActiveCap
  <2>4. e <= b /\ b - e < GenMod
    OBVIOUS
  <2> HIDE DEF sc, b, e
  <2>5. GenMod \in Nat \ {0} /\ b + GenMod - 1 \in Nat /\ e + GenMod - 1 \in Nat
    BY <2>2, DmaConstants
  <2>6. /\ e + GenMod - 1 <= b + GenMod - 1
        /\ (b + GenMod - 1) - (e + GenMod - 1) < GenMod
    BY <2>2, <2>4, <2>5
  <2>7. e + GenMod - 1 = b + GenMod - 1
    BY <2>3, <2>5, <2>6, SameRemainderNear DEF GenerationOf
  <2>8. e = b
    BY <2>2, <2>5, <2>7
  <2>9. QED
    BY <2>8 DEF e, b, sc
<1>2. QED
  BY <1>1, TagsCount, DmaInvariant, PTL
=============================================================================
