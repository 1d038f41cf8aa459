--------------------------- MODULE HostSystemProofs ---------------------------
(***************************************************************************)
(* Proofs about the controller and what it is joined to.                   *)
(*                                                                         *)
(* With a card on one bus: whatever the device asks for and however it     *)
(* stalls, and for every time limit, set of bursts and number of slots,    *)
(* both ends agree on the transaction in hand.  First what a clock does to *)
(* the card, by the state of the QIC; then what an action of the           *)
(* controller does to both, by the role of the epoch; then the invariant   *)
(* HCInv and the theorems.                                                 *)
(*                                                                         *)
(* Over its memory path: for every size, every latency of the backend, and *)
(* cards that do anything in any clock, what a card reads or has           *)
(* acknowledged is what memory holds.                                      *)
(***************************************************************************)
EXTENDS HostCard, HostMemory, HostCoreProofs

-----------------------------------------------------------------------------
(* The clock of the QIC and of the device, as functions.                    *)

QicRecord(q) ==
  q = [state |-> q.state, suspended |-> q.suspended, tail |-> q.tail, grantUsed |-> q.grantUsed]

\* A register access comes in between; the grant is withdrawn; the state's own next state; and
\* what is then put aside.
Interrupted(q, bus) == Q!WorkerAddressCycle(bus) /\ (q.state.at = "RequestBus" \/ Q!LocalTail(q.state))
Lost(q, bus) == ~Interrupted(q, bus) /\ ~bus.grant /\ Q!NeedsGrant(q.state)
Goes(q, bus) == ~Interrupted(q, bus) /\ ~Lost(q, bus)
Now(q, bus) == [q EXCEPT !.grantUsed = @ /\ bus.grant]
Moved(q, bus, device) == Q!NextState(Now(q, bus), bus, device)
Aside(q, device) ==
  IF Q!AcceptsDmaDuringWorker(q, device) THEN [kind |-> "Dma", request |-> device.dma]
  ELSE q.suspended

\* The clock of the QIC, by what it does with its registers.
LEMMA ClockIs ==
  ASSUME NEW q, NEW bus, NEW device, QicRecord(q), ~bus.reset, bus.grant \in BOOLEAN,
         q.grantUsed \in BOOLEAN, NEW q2, q2 = Q!Clock(q, bus, device)
  PROVE  /\ QicRecord(q2) /\ q2.grantUsed \in BOOLEAN
         /\ Interrupted(q, bus) =>
              IF ~bus.address.valid
              THEN q2.state = q.state /\ q2.suspended = q.suspended /\ q2.tail = q.tail
              ELSE /\ q2.state = Q!StartWorker(bus)
                   /\ q2.suspended = IF q.state.at = "RequestBus" THEN q.state.work ELSE q.suspended
                   /\ q2.tail = IF q.state.at = "RequestBus" THEN q.tail ELSE q.state
         /\ Lost(q, bus) =>
              q2.state = Q!LoseGrant(q.state) /\ q2.suspended = q.suspended /\ q2.tail = q.tail
         /\ Goes(q, bus) =>
              LET n == Moved(q, bus, device)
                  u == Aside(q, device) IN
              IF n # Q!Idle THEN q2.state = n /\ q2.suspended = u /\ q2.tail = q.tail
              ELSE IF q.tail # None THEN q2.state = q.tail /\ q2.suspended = u /\ q2.tail = None
              ELSE IF u # None
              THEN q2.state = Q!RequestBus(u) /\ q2.suspended = None /\ q2.tail = q.tail
              ELSE q2.state = n /\ q2.suspended = u /\ q2.tail = q.tail
<1> DEFINE now == Now(q, bus)
           s == q.state
           t == q.tail
           n == Moved(q, bus, device)
           u == Aside(q, device)
           g == q.grantUsed /\ bus.grant
           g2 == g \/ (s.at = "RequestBus" /\ bus.grant)
           used == now.grantUsed \/ (now.state.at = "RequestBus" /\ bus.grant)
           rest == [now EXCEPT !.suspended = u, !.state = n, !.grantUsed = used]
<1>1. now = [state |-> s, suspended |-> q.suspended, tail |-> t, grantUsed |-> g]
  BY DEF QicRecord, Now
<1>2. u = IF Q!AcceptsDmaDuringWorker(now, device)
           THEN [kind |-> "Dma", request |-> device.dma] ELSE now.suspended
  BY <1>1 DEF Q!AcceptsDmaDuringWorker, Aside
<1>3. q2 = IF Interrupted(q, bus) THEN Q!Interrupt(now, bus)
           ELSE IF Lost(q, bus) THEN [now EXCEPT !.state = Q!LoseGrant(@)]
           ELSE Q!Resume(rest)
  BY <1>1, <1>2 DEF Q!Clock, Interrupted, Lost, Now, Moved
<1> HIDE DEF now, n, u
<1>4. rest = [state |-> n, suspended |-> u, tail |-> t, grantUsed |-> g2]
  <2>1. used = g2
    BY <1>1
  <2>2. rest = [now EXCEPT !.suspended = u, !.state = n, !.grantUsed = used]
    OBVIOUS
  <2> HIDE DEF used, g2, g, s, t, rest
  <2>3. QED
    BY <1>1, <2>1, <2>2
<1>5. g2 \in BOOLEAN /\ g \in BOOLEAN
  OBVIOUS
<1> HIDE DEF s, t, rest, g, g2
<1>6. CASE Interrupted(q, bus)
  <2>1. q2 = Q!Interrupt(now, bus) /\ ~Lost(q, bus) /\ ~Goes(q, bus)
    BY <1>3, <1>6 DEF Lost, Goes
  <2>2. CASE ~bus.address.valid
    <3>1. q2 = now
      BY <2>1, <2>2 DEF Q!Interrupt
    <3>2. QED
      BY <1>1, <1>5, <2>1, <2>2, <3>1 DEF QicRecord, s, t
  <2>3. CASE bus.address.valid
    <3>1. q2 = IF s.at = "RequestBus"
               THEN [now EXCEPT !.suspended = s.work, !.state = Q!StartWorker(bus)]
               ELSE [now EXCEPT !.tail = s, !.state = Q!StartWorker(bus)]
      BY <1>1, <2>1, <2>3 DEF Q!Interrupt
    <3>2. CASE s.at = "RequestBus"
      <4>1. q2 = [state |-> Q!StartWorker(bus), suspended |-> s.work, tail |-> t, grantUsed |-> g]
        BY <1>1, <3>1, <3>2
      <4>2. QED
        BY <1>5, <2>1, <2>3, <3>2, <4>1 DEF QicRecord, s, t
    <3>3. CASE s.at # "RequestBus"
      <4>1. q2 = [state |-> Q!StartWorker(bus), suspended |-> q.suspended, tail |-> s, grantUsed |-> g]
        BY <1>1, <3>1, <3>3
      <4>2. QED
        BY <1>5, <2>1, <2>3, <3>3, <4>1 DEF QicRecord, s, t
    <3>4. QED
      BY <3>2, <3>3
  <2>4. QED
    BY <2>2, <2>3
<1>7. CASE Lost(q, bus)
  <2>1. q2 = [now EXCEPT !.state = Q!LoseGrant(@)] /\ ~Interrupted(q, bus) /\ ~Goes(q, bus)
    BY <1>3, <1>7 DEF Lost, Goes
  <2>2. q2 = [state |-> Q!LoseGrant(s), suspended |-> q.suspended, tail |-> t, grantUsed |-> g]
    BY <1>1, <2>1
  <2>3. /\ q2.state = Q!LoseGrant(s) /\ q2.suspended = q.suspended /\ q2.tail = t
        /\ QicRecord(q2) /\ q2.grantUsed \in BOOLEAN
    BY <1>5, <2>2 DEF QicRecord
  <2>4. QED
    BY <2>1, <2>3 DEF s, t
<1>8. CASE Goes(q, bus)
  <2>1. q2 = Q!Resume(rest) /\ ~Interrupted(q, bus) /\ ~Lost(q, bus)
    BY <1>3, <1>8 DEF Goes
  <2>2. q2 = [state |-> IF n # Q!Idle THEN n ELSE IF t # None THEN t
                        ELSE IF u # None THEN Q!RequestBus(u) ELSE n,
              suspended |-> IF n = Q!Idle /\ t = None /\ u # None THEN None ELSE u,
              tail |-> IF n = Q!Idle /\ t # None THEN None ELSE t,
              grantUsed |-> g2]
    <3>1. CASE n # Q!Idle
      BY <1>4, <2>1, <3>1 DEF Q!Resume
    <3>2. CASE n = Q!Idle /\ t # None
      BY <1>4, <2>1, <3>2 DEF Q!Resume
    <3>3. CASE n = Q!Idle /\ t = None /\ u # None
      BY <1>4, <2>1, <3>3 DEF Q!Resume
    <3>4. CASE n = Q!Idle /\ t = None /\ u = None
      BY <1>4, <2>1, <3>4 DEF Q!Resume
    <3>5. QED
      BY <3>1, <3>2, <3>3, <3>4
  <2>3. QED
    BY <1>5, <2>1, <2>2 DEF QicRecord, n, u, t
<1>9. QED
  BY <1>6, <1>7, <1>8 DEF Goes

-----------------------------------------------------------------------------
(* The device.                                                              *)

\* The register side.
LEMMA MmioIs ==
  ASSUME NEW d, DeviceShape(d), NEW drive, NEW qli, NEW choice, NEW d2,
         d2 = D!Clock(d, drive, qli, choice),
         qli.cancel \in BOOLEAN, qli.responseReady \in BOOLEAN,
         choice.answer \in Answers \cup {None}, qli.mmio \in Access \cup {None}
  PROVE  /\ d2.mmio \in MmioStates \cup {None}
         /\ qli.cancel => d2.mmio = None
         /\ ~qli.cancel /\ d.mmio = None =>
              /\ qli.mmio = None => d2.mmio = None
              /\ qli.mmio # None => d2.mmio # None /\ d2.mmio.op = qli.mmio
         /\ ~qli.cancel /\ d.mmio # None /\ qli.mmio = None =>
              IF qli.responseReady /\ d.mmio.answer # None THEN d2.mmio = None
              ELSE /\ d2.mmio # None /\ d2.mmio.op = d.mmio.op
                   /\ d.mmio.answer # None => d2.mmio.answer = d.mmio.answer
<1> DEFINE kept == IF d.mmio # None /\ qli.responseReady /\ d.mmio.answer # None
                   THEN None ELSE d.mmio
<1>1. d.mmio \in MmioStates \cup {None}
  BY DEF DeviceShape
<1>2. d2.mmio = IF qli.cancel THEN None
                ELSE IF kept = None
                THEN IF qli.mmio # None THEN [op |-> qli.mmio, answer |-> choice.answer] ELSE None
                ELSE IF kept.answer = None THEN [kept EXCEPT !.answer = choice.answer] ELSE kept
  BY DEF D!Clock, D!Mmio
<1>3. kept \in MmioStates \cup {None} /\ kept \in {None, d.mmio}
  BY <1>1
<1>4. None \notin MmioStates
  BY NoneIsNoValue
<1>5. CASE kept = None
  <2>1. qli.mmio # None => [op |-> qli.mmio, answer |-> choice.answer] \in MmioStates
    BY DEF MmioStates
  <2>2. QED
    BY <1>1, <1>2, <1>4, <1>5, <2>1
<1>6. CASE kept # None
  <2> DEFINE full == [kept EXCEPT !.answer = choice.answer]
  <2>1. kept = d.mmio /\ kept \in MmioStates
    BY <1>3, <1>6
  <2>2. full \in MmioStates /\ full.op = kept.op
    BY <2>1 DEF MmioStates
  <2>3. d2.mmio = IF qli.cancel THEN None ELSE IF kept.answer = None THEN full ELSE kept
    BY <1>2, <1>6
  <2>4. ~(qli.responseReady /\ d.mmio.answer # None)
    BY <1>6, <2>1
  <2> HIDE DEF full, kept
  <2>5. QED
    BY <1>4, <2>1, <2>2, <2>3, <2>4
<1>7. QED
  BY <1>5, <1>6

\* The DMA side.
LEMMA DmaIs ==
  ASSUME NEW d, DeviceShape(d), NEW choice, NEW drive, drive = D!Drive(d, choice), NEW qli, NEW d2,
         d2 = D!Clock(d, drive, qli, choice), qli.dmaReady \in BOOLEAN, choice.stalls \in BOOLEAN
  PROVE  /\ d2.dma \in BurstStates \cup {None}
         /\ d.dma = None => d2.dma = None
         /\ d.dma # None /\ ~d.dma.active =>
              /\ d2.dma # None /\ d2.dma.request = d.dma.request /\ d2.dma.moved = d.dma.moved
              /\ d2.dma.active = qli.dmaReady
         /\ d.dma # None /\ d.dma.active =>
              IF drive.completionReady /\ qli.completion # None THEN d2.dma = None
              ELSE /\ d2.dma # None /\ d2.dma.request = d.dma.request /\ d2.dma.active
                   /\ d2.dma.moved = IF \/ drive.write # None /\ qli.writeReady
                                        \/ drive.readReady /\ qli.read # None
                                     THEN d.dma.moved + 1 ELSE d.dma.moved
<1> DEFINE b == d.dma
           moved == \/ drive.write # None /\ qli.writeReady
                    \/ drive.readReady /\ qli.read # None
           taken == [b EXCEPT !.active = qli.dmaReady]
           further == [b EXCEPT !.moved = @ + 1]
<1>1. b \in BurstStates \cup {None} /\ None \notin BurstStates
  BY NoneIsNoValue DEF DeviceShape
<1>2. d2.dma = IF b = None THEN None
               ELSE IF ~b.active THEN taken
               ELSE IF drive.completionReady /\ qli.completion # None THEN None
               ELSE IF moved THEN further ELSE b
  BY DEF D!Clock, D!Dma
<1>3. b # None =>
        /\ taken \in BurstStates /\ taken.request = b.request /\ taken.moved = b.moved
        /\ taken.active = qli.dmaReady
        /\ further \in BurstStates /\ further.request = b.request /\ further.active = b.active
        /\ further.moved = b.moved + 1
  BY <1>1 DEF BurstStates
<1> HIDE DEF b, taken, further, moved
<1>4. QED
  BY <1>1, <1>2, <1>3 DEF b, moved

-----------------------------------------------------------------------------
(* One clock of the card, by the state of the QIC.                          *)

BusShape(bus) ==
  /\ ~bus.reset
  /\ bus.grant \in BOOLEAN /\ bus.dataStrobe \in BOOLEAN /\ bus.ack \in BOOLEAN /\ bus.err \in BOOLEAN
  /\ bus.address # None => bus.address \in AddressPhases

ChoiceShape(choice) == choice.stalls \in BOOLEAN /\ choice.answer \in Answers \cup {None}

CardClock(bus, choice) ==
  LET drive == D!Drive(dev, choice) IN
  /\ qic' = Q!Clock(qic, bus, drive)
  /\ dev' = D!Clock(dev, drive, Q!ToDevice(qic, bus, drive), choice)

\* The device's burst is as it was.
BurstKept ==
  /\ dev.dma = None => dev'.dma = None
  /\ dev.dma # None => /\ dev'.dma # None /\ dev'.dma.request = dev.dma.request
                       /\ dev'.dma.active = dev.dma.active /\ dev'.dma.moved = dev.dma.moved

LEMMA DriveIs ==
  ASSUME CardInv, NEW choice, NEW drive, drive = D!Drive(dev, choice), choice.stalls \in BOOLEAN
  PROVE  LET moving == D!Active(dev) /\ ~choice.stalls IN
         /\ drive.mmioReady = (dev.mmio = None)
         /\ dev.mmio = None => drive.response = None
         /\ dev.mmio # None =>
              /\ (drive.response # None) <=> (dev.mmio.answer # None)
              /\ drive.response = Q!RightAnswer(~dev.mmio.op.write) <=> dev.mmio.answer = "Ok"
         /\ drive.readReady = moving /\ drive.completionReady = moving
         /\ drive.dma # None <=> dev.dma # None /\ ~dev.dma.active
         /\ drive.dma # None => drive.dma = dev.dma.request
         /\ drive.write # None <=>
              /\ moving /\ dev.dma.request.direction = "DeviceToHost"
              /\ dev.dma.moved < dev.dma.request.words
         /\ drive.write # None => drive.write = D!WordAt(dev.dma.moved)
         /\ drive.notification = dev.notification
<1>1. /\ dev.mmio \in MmioStates \cup {None} /\ dev.dma \in BurstStates \cup {None}
  BY DEF CardInv, DeviceShape
<1>2. /\ None \notin {"ReadOk", "WriteOk", "Ok", "Error"} /\ None \notin DmaRequest
      /\ None \notin MmioStates /\ None \notin BurstStates /\ 0 # None /\ 1 # None
  BY NoneIsNoValue, CardInputs, NoneIsFresh DEF Answers
<1>3. dev.mmio # None => /\ dev.mmio.op.write \in BOOLEAN
                         /\ dev.mmio.answer \in {"Ok", "Error", None}
  BY <1>1 DEF MmioStates, Access, Answers
<1>4. dev.dma # None => /\ dev.dma.request \in DmaRequest /\ dev.dma.active \in BOOLEAN
                        /\ dev.dma.moved \in Nat /\ D!WordAt(dev.dma.moved) \in {0, 1}
  BY <1>1 DEF BurstStates, D!WordAt
<1>5. dev.mmio # None =>
        /\ (D!Response(dev.mmio) # None) <=> (dev.mmio.answer # None)
        /\ D!Response(dev.mmio) = Q!RightAnswer(~dev.mmio.op.write) <=> dev.mmio.answer = "Ok"
  BY <1>2, <1>3 DEF D!Response, Q!RightAnswer
<1>6. /\ drive.mmioReady = (dev.mmio = None)
      /\ dev.mmio = None => drive.response = None
      /\ dev.mmio # None => drive.response = D!Response(dev.mmio)
      /\ drive.notification = dev.notification
  BY DEF D!Drive
<1>7. LET moving == D!Active(dev) /\ ~choice.stalls IN
        /\ drive.readReady = moving /\ drive.completionReady = moving
        /\ drive.dma = IF dev.dma # None /\ ~dev.dma.active THEN dev.dma.request ELSE None
        /\ drive.write = IF /\ moving /\ dev.dma.request.direction = "DeviceToHost"
                            /\ dev.dma.moved < dev.dma.request.words
                         THEN D!WordAt(dev.dma.moved) ELSE None
  BY DEF D!Drive
<1>8. D!Active(dev) => dev.dma # None
  BY DEF D!Active
<1>9. QED
  BY <1>2, <1>4, <1>5, <1>6, <1>7, <1>8

\* While the QIC has nothing to say to the device.
LEMMA NothingSaid ==
  ASSUME CardInv, NEW bus, BusShape(bus), NEW choice, ChoiceShape(choice), CardClock(bus, choice),
         NEW drive, drive = D!Drive(dev, choice), NEW qli, qli = Q!ToDevice(qic, bus, drive)
  PROVE  /\ qli.cancel \in BOOLEAN /\ qli.responseReady \in BOOLEAN /\ qli.dmaReady \in BOOLEAN
         /\ qli.mmio \in Access \cup {None}
         /\ qli.mmio # None => qic.state.at = "WorkerOffer"
         /\ qic.state.at \notin {"WorkerOffer", "WorkerResponse"} => dev'.mmio = None
         /\ qic.state.at \notin {"Idle", "WorkerOffer", "WorkerResponse"} => ~qli.dmaReady
         /\ qic.state.at \notin {"DmaData", "DmaComplete"} =>
              qli.completion = None /\ ~qli.writeReady /\ qli.read = None
<1>1. QicShape(qic) /\ DeviceShape(dev)
  BY DEF CardInv
<1>2. /\ qli.cancel \in BOOLEAN /\ qli.responseReady \in BOOLEAN /\ qli.dmaReady \in BOOLEAN
  BY DEF Q!ToDevice, Q!Cancels, BusShape, Q!AcceptsDmaWhenIdle, Q!AcceptsDmaDuringWorker, Q!TimedOut
<1>3. qic.state.at = "WorkerOffer" => qic.state.op \in Access
  BY <1>1 DEF QicShape, QicState, AccessStates, Q!Idle
<1>4. /\ qli.mmio \in Access \cup {None} /\ (qli.mmio # None => qic.state.at = "WorkerOffer")
  BY <1>3 DEF Q!ToDevice
<1>5. qic.state.at \notin {"DmaData", "DmaComplete"} =>
              qli.completion = None /\ ~qli.writeReady /\ qli.read = None
  BY DEF Q!ToDevice
<1>6. qic.state.at \notin {"Idle", "WorkerOffer", "WorkerResponse"} => ~qli.dmaReady
  <2>1. qli.dmaReady = (Q!AcceptsDmaWhenIdle(qic, bus, drive) \/ Q!AcceptsDmaDuringWorker(qic, drive))
    BY DEF Q!ToDevice
  <2>2. Q!AcceptsDmaWhenIdle(qic, bus, drive) => qic.state.at = "Idle"
    BY DEF Q!AcceptsDmaWhenIdle, Q!Idle
  <2>3. Q!AcceptsDmaDuringWorker(qic, drive) => qic.state.at \in {"WorkerOffer", "WorkerResponse"}
    BY DEF Q!AcceptsDmaDuringWorker
  <2>4. QED
    BY <2>1, <2>2, <2>3
<1>7. ASSUME qic.state.at \notin {"WorkerOffer", "WorkerResponse"} PROVE dev'.mmio = None
  <2>1. dev.mmio = None
    BY <1>7 DEF CardInv, AccessHeldOnce
  <2>2. qli.mmio = None
    BY <1>4, <1>7
  <2>3. dev' = D!Clock(dev, drive, qli, choice)
    BY DEF CardClock
  <2>4. QED
    BY <1>1, <1>2, <1>4, <2>1, <2>2, <2>3, MmioIs DEF ChoiceShape
<1>8. QED
  BY <1>2, <1>4, <1>5, <1>6, <1>7

LEMMA DeviceTyped ==
  ASSUME CardInv, NEW bus, BusShape(bus), NEW choice, ChoiceShape(choice), CardClock(bus, choice)
  PROVE  DeviceShape(dev')
<1> DEFINE drive == D!Drive(dev, choice)
           qli == Q!ToDevice(qic, bus, drive)
<1>1. dev' = D!Clock(dev, drive, qli, choice) /\ DeviceShape(dev)
  BY DEF CardClock, CardInv
<1>2. /\ qli.cancel \in BOOLEAN /\ qli.responseReady \in BOOLEAN /\ qli.dmaReady \in BOOLEAN
      /\ qli.mmio \in Access \cup {None}
  BY NothingSaid
<1>3. dev'.mmio \in MmioStates \cup {None}
  <2> HIDE DEF drive, qli
  <2>1. QED
    BY <1>1, <1>2, MmioIs DEF ChoiceShape
<1>4. dev'.dma \in BurstStates \cup {None}
  <2>1. drive = D!Drive(dev, choice)
    OBVIOUS
  <2> HIDE DEF drive, qli
  <2>2. QED
    BY <1>1, <1>2, <2>1, DmaIs DEF ChoiceShape
<1>5. dev' = [mmio |-> dev'.mmio, dma |-> dev'.dma, notification |-> dev'.notification]
  BY <1>1 DEF D!Clock
<1>6. dev'.notification \in NotifyChannels \cup {None}
  <2>1. dev'.notification \in {None, dev.notification}
    BY <1>1 DEF D!Clock, D!Notification
  <2>2. QED
    BY <1>1, <2>1 DEF DeviceShape
<1>7. QED
  <2> HIDE DEF drive, qli
  <2>1. QED
    BY <1>3, <1>4, <1>5, <1>6 DEF DeviceShape

\* The device's burst stands still unless the QIC is idle, has an access or moves the burst.
LEMMA BurstStill ==
  ASSUME CardInv, NEW bus, BusShape(bus), NEW choice, ChoiceShape(choice), CardClock(bus, choice),
         LET qli == Q!ToDevice(qic, bus, D!Drive(dev, choice))
         IN (D!Active(dev) \/ ~qli.dmaReady) /\ qli.completion = None /\ ~qli.writeReady /\ qli.read = None
  PROVE  BurstKept
<1> DEFINE drive == D!Drive(dev, choice)
           qli == Q!ToDevice(qic, bus, drive)
<1>1. dev' = D!Clock(dev, drive, qli, choice) /\ DeviceShape(dev) /\ drive = D!Drive(dev, choice)
      /\ (D!Active(dev) \/ ~qli.dmaReady) /\ qli.completion = None /\ ~qli.writeReady /\ qli.read = None
  BY DEF CardClock, CardInv
<1>2. qli.dmaReady \in BOOLEAN
  BY NothingSaid
<1>3. None \notin BurstStates /\ dev.dma \in BurstStates \cup {None}
  BY NoneIsNoValue DEF CardInv, DeviceShape
<1>4. dev.dma # None => dev.dma.active \in BOOLEAN
  BY <1>3 DEF BurstStates
<1> HIDE DEF drive, qli
<1>5. /\ dev.dma = None => dev'.dma = None
      /\ dev.dma # None /\ ~dev.dma.active =>
              /\ dev'.dma # None /\ dev'.dma.request = dev.dma.request /\ dev'.dma.moved = dev.dma.moved
              /\ dev'.dma.active = qli.dmaReady
      /\ dev.dma # None /\ dev.dma.active =>
              /\ dev'.dma # None /\ dev'.dma.request = dev.dma.request /\ dev'.dma.active
              /\ dev'.dma.moved = dev.dma.moved
              /\ dev'.dma \in BurstStates \cup {None}
  BY <1>1, <1>2, <1>3, DmaIs DEF ChoiceShape
<1>6. dev.dma # None /\ dev.dma.active => dev'.dma.active \in BOOLEAN
  BY <1>3, <1>5 DEF BurstStates
<1>7. dev.dma # None => dev'.dma.active = dev.dma.active
  <2>1. CASE dev.dma # None /\ dev.dma.active
    BY <1>4, <1>5, <1>6, <2>1
  <2>2. CASE dev.dma # None /\ ~dev.dma.active
    <3>1. ~qli.dmaReady
      BY <1>1, <2>2 DEF D!Active
    <3>2. QED
      BY <1>2, <1>4, <1>5, <2>2, <3>1
  <2>3. QED
    BY <2>1, <2>2
<1>8. QED
  BY <1>5, <1>7, <1>4 DEF BurstKept

\* Where the QIC goes: on, or back to what a register access has put aside.
GoesTo(n, u) == qic'.state = n /\ qic'.suspended = u /\ qic'.tail = qic.tail
Resumes(u) ==
  IF qic.tail # None THEN qic'.state = qic.tail /\ qic'.suspended = u /\ qic'.tail = None
  ELSE IF u # None
  THEN qic'.state = Q!RequestBus(u) /\ qic'.suspended = None /\ qic'.tail = None
  ELSE qic'.state = Q!Idle /\ qic'.suspended = None /\ qic'.tail = None

LEMMA QicClock ==
  ASSUME CardInv, NEW bus, BusShape(bus), NEW choice, ChoiceShape(choice), CardClock(bus, choice)
  PROVE  LET drive == D!Drive(dev, choice) IN
         /\ QicRecord(qic') /\ qic'.grantUsed \in BOOLEAN
         /\ Interrupted(qic, bus) =>
              IF ~bus.address.valid THEN GoesTo(qic.state, qic.suspended)
              ELSE /\ qic'.state = Q!StartWorker(bus)
                   /\ qic'.suspended = IF qic.state.at = "RequestBus" THEN qic.state.work ELSE qic.suspended
                   /\ qic'.tail = IF qic.state.at = "RequestBus" THEN qic.tail ELSE qic.state
         /\ Lost(qic, bus) => GoesTo(Q!LoseGrant(qic.state), qic.suspended)
         /\ Goes(qic, bus) =>
              LET n == Moved(qic, bus, drive)
                  u == Aside(qic, drive) IN
              IF n # Q!Idle THEN GoesTo(n, u) ELSE Resumes(u)
<1> DEFINE drive == D!Drive(dev, choice)
<1>1. QicRecord(qic) /\ qic.grantUsed \in BOOLEAN
  BY DEF CardInv, QicShape, QicRecord
<1>2. qic' = Q!Clock(qic, bus, drive)
  BY DEF CardClock
<1> HIDE DEF drive
<1> DEFINE n == Moved(qic, bus, drive)
           u == Aside(qic, drive)
<1>3. /\ QicRecord(qic') /\ qic'.grantUsed \in BOOLEAN
      /\ Interrupted(qic, bus) =>
              IF ~bus.address.valid
              THEN qic'.state = qic.state /\ qic'.suspended = qic.suspended /\ qic'.tail = qic.tail
              ELSE /\ qic'.state = Q!StartWorker(bus)
                   /\ qic'.suspended = IF qic.state.at = "RequestBus" THEN qic.state.work ELSE qic.suspended
                   /\ qic'.tail = IF qic.state.at = "RequestBus" THEN qic.tail ELSE qic.state
      /\ Lost(qic, bus) =>
              qic'.state = Q!LoseGrant(qic.state) /\ qic'.suspended = qic.suspended /\ qic'.tail = qic.tail
      /\ Goes(qic, bus) =>
              IF n # Q!Idle THEN qic'.state = n /\ qic'.suspended = u /\ qic'.tail = qic.tail
              ELSE IF qic.tail # None THEN qic'.state = qic.tail /\ qic'.suspended = u /\ qic'.tail = None
              ELSE IF u # None
              THEN qic'.state = Q!RequestBus(u) /\ qic'.suspended = None /\ qic'.tail = qic.tail
              ELSE qic'.state = n /\ qic'.suspended = u /\ qic'.tail = qic.tail
  BY <1>1, <1>2, ClockIs DEF BusShape
<1> HIDE DEF n, u
<1>4. QED
  BY <1>3 DEF GoesTo, Resumes, drive, n, u

\* The QIC carries the burst as before: the device is where it was with it.
LEMMA BurstCarried ==
  ASSUME CardInv, BurstKept, DeviceShape(dev'), QicShape(qic'), AccessHeldOnce',
         Holds' <=> Holds, Holds /\ CardBurst(qic, dev.dma) => CardBurst(qic', dev.dma)
  PROVE  CardInv'
<1>1. DeviceShape(dev) /\ (D!Active(dev) <=> Holds)
  BY DEF CardInv, RequestHeldOnce
<1>2. D!Active(dev') <=> D!Active(dev)
  BY DEF BurstKept, D!Active
<1>3. RequestHeldOnce'
  BY <1>1, <1>2 DEF RequestHeldOnce
<1>4. ASSUME dev'.dma # None
      PROVE  IF dev'.dma.active THEN CardBurst(qic', dev'.dma) ELSE dev'.dma.moved = 0
  <2>1. /\ dev.dma # None /\ dev'.dma.request = dev.dma.request
        /\ dev'.dma.active = dev.dma.active /\ dev'.dma.moved = dev.dma.moved
    BY <1>4 DEF BurstKept
  <2>2. CASE dev.dma.active
    <3>1. CardBurst(qic', dev.dma)
      BY <1>1, <2>1, <2>2 DEF CardInv, D!Active
    <3>2. CardBurst(qic', dev'.dma)
      BY <2>1, <3>1 DEF CardBurst, WordsMoved
    <3>3. QED
      BY <2>1, <2>2, <3>2
  <2>3. CASE ~dev.dma.active
    BY <2>1, <2>3 DEF CardInv
  <2>4. QED
    BY <2>2, <2>3
<1>5. QED
  BY <1>3, <1>4 DEF CardInv

\* It goes back to what it has put aside.
LEMMA ResumesCarries ==
  ASSUME CardInv, qic.state.at \in Q!WorkerStates, Resumes(qic.suspended), QicRecord(qic'),
         qic'.grantUsed \in BOOLEAN
  PROVE  /\ QicShape(qic')
         /\ Holds' <=> Holds
         /\ Holds /\ CardBurst(qic, dev.dma) => CardBurst(qic', dev.dma)
         /\ qic'.state.at \notin Q!WorkerStates /\ ~Q!NeedsGrant(qic'.state)
<1>1. QicShape(qic)
  BY DEF CardInv
<1>2. CASE qic.tail # None
  <2>1. qic'.state = qic.tail /\ qic'.suspended = None /\ qic'.tail = None /\ qic.suspended = None
    BY <1>1, <1>2 DEF Resumes, QicShape
  <2>2. /\ QicState(qic.tail) /\ qic.tail.at \in {"DmaData", "DmaComplete"}
        /\ Q!LocalTail(qic.tail)
    BY <1>1, <1>2 DEF QicShape
  <2>3. QicShape(qic')
    BY <2>1, <2>2 DEF QicShape, QicRecord
  <2>4. Holds /\ Holds'
    BY <1>2, <2>1, <2>2 DEF Holds
  <2>5. CardBurst(qic, dev.dma) => CardBurst(qic', dev.dma)
    BY <1>2, <2>1 DEF CardBurst, BurstState
  <2>6. qic'.state.at \notin Q!WorkerStates /\ ~Q!NeedsGrant(qic'.state)
    BY <2>1, <2>2 DEF Q!WorkerStates, Q!NeedsGrant, Q!LocalTail
  <2>7. QED
    BY <2>3, <2>4, <2>5, <2>6
<1>3. CASE qic.tail = None /\ qic.suspended # None
  <2>1. /\ qic'.state = Q!RequestBus(qic.suspended) /\ qic'.suspended = None /\ qic'.tail = None
        /\ Work(qic.suspended)
    BY <1>1, <1>3 DEF Resumes, QicShape
  <2>2. qic'.state.at = "RequestBus" /\ qic'.state.work = qic.suspended
    BY <2>1 DEF Q!RequestBus
  <2>3. QicShape(qic')
    BY <2>1, <2>2 DEF QicShape, QicRecord, QicState
  <2>4. Holds' <=> Holds
    BY <1>3, <2>1, <2>2 DEF Holds, Q!WorkerStates
  <2>5. CardBurst(qic, dev.dma) => CardBurst(qic', dev.dma)
    BY <1>3, <2>1, <2>2 DEF CardBurst, BurstState
  <2>6. qic'.state.at \notin Q!WorkerStates /\ ~Q!NeedsGrant(qic'.state)
    BY <2>2 DEF Q!WorkerStates, Q!NeedsGrant
  <2>7. QED
    BY <2>3, <2>4, <2>5, <2>6
<1>4. CASE qic.tail = None /\ qic.suspended = None
  <2>1. qic'.state = Q!Idle /\ qic'.suspended = None /\ qic'.tail = None
    BY <1>4 DEF Resumes
  <2>2. qic'.state.at = "Idle"
    BY <2>1 DEF Q!Idle
  <2>3. QicShape(qic')
    BY <2>1 DEF QicShape, QicRecord, QicState
  <2>4. ~Holds' /\ ~Holds
    BY <1>4, <2>1, <2>2 DEF Holds, Q!WorkerStates
  <2>5. qic'.state.at \notin Q!WorkerStates /\ ~Q!NeedsGrant(qic'.state)
    BY <2>2 DEF Q!WorkerStates, Q!NeedsGrant
  <2>6. QED
    BY <2>3, <2>4, <2>5
<1>5. QED
  BY <1>2, <1>3, <1>4

\* It goes on with the register access.
LEMMA AccessCarries ==
  ASSUME CardInv, qic.state.at \in Q!WorkerStates, GoesTo(qic'.state, qic.suspended),
         qic'.state.at \in Q!WorkerStates, QicState(qic'.state), QicRecord(qic'),
         qic'.grantUsed \in BOOLEAN
  PROVE  /\ QicShape(qic')
         /\ Holds' <=> Holds
         /\ Holds /\ CardBurst(qic, dev.dma) => CardBurst(qic', dev.dma)
<1>1. QicShape(qic)
  BY DEF CardInv
<1>2. QicShape(qic')
  BY <1>1 DEF QicShape, QicRecord, GoesTo
<1>3. Holds' <=> Holds
  BY DEF Holds, GoesTo, Q!WorkerStates
<1>4. Holds /\ CardBurst(qic, dev.dma) => CardBurst(qic', dev.dma)
  BY DEF CardBurst, BurstState, GoesTo, Q!WorkerStates
<1>5. QED
  BY <1>2, <1>3, <1>4

\* Waiting for the data of a register access.
LEMMA WorkerDataClock ==
  ASSUME CardInv, NEW bus, BusShape(bus), NEW choice, ChoiceShape(choice), CardClock(bus, choice),
         qic.state.at \in {"WorkerReadData", "WorkerWriteData"}
  PROVE  LET s == qic.state IN
         /\ CardInv' /\ BurstKept
         /\ \/ Resumes(qic.suspended)
            \/ /\ qic'.state.at \in Q!WorkerStates \ {"WorkerResponse"} /\ qic'.state.op = s.op
               /\ qic'.tail = qic.tail /\ qic'.suspended = qic.suspended
         /\ ~Q!TimedOut(s.wait) /\ ~(s.at = "WorkerWriteData" /\ bus.dataStrobe /\ bus.data = None) =>
              qic'.state.at \in Q!WorkerStates \ {"WorkerResponse"} /\ qic'.state.op = s.op
<1> DEFINE drive == D!Drive(dev, choice)
           s == qic.state
           next == Q!FromWorkerData(s, bus)
<1>1. /\ QicShape(qic) /\ s.at \in {"WorkerReadData", "WorkerWriteData"}
      /\ s \in AccessStates /\ s.op \in Access /\ s.wait \in Nat
  BY DEF CardInv, QicShape, QicState, Q!Idle, AccessStates
<1>2. ~Interrupted(qic, bus) /\ Goes(qic, bus)
  BY <1>1 DEF Interrupted, Lost, Goes, Q!LocalTail, Q!NeedsGrant
<1>3. Moved(qic, bus, drive) = next
  <2>1. Now(qic, bus).state = s
    BY <1>1 DEF Now, QicShape
  <2>2. QED
    BY <1>1, <2>1 DEF Moved, Q!NextState
<1>4. Aside(qic, drive) = qic.suspended
  BY <1>1 DEF Aside, Q!AcceptsDmaDuringWorker
<1>5. /\ QicRecord(qic') /\ qic'.grantUsed \in BOOLEAN
      /\ IF next # Q!Idle THEN GoesTo(next, qic.suspended) ELSE Resumes(qic.suspended)
  BY <1>2, <1>3, <1>4, QicClock
<1>6. BurstKept /\ DeviceShape(dev') /\ dev'.mmio = None
  BY <1>1, BurstStill, DeviceTyped, NothingSaid
<1>7. CASE next = Q!Idle
  <2>1. Resumes(qic.suspended) /\ s.at \in Q!WorkerStates
    BY <1>1, <1>5, <1>7 DEF Q!WorkerStates
  <2>2. /\ QicShape(qic') /\ (Holds' <=> Holds)
        /\ Holds /\ CardBurst(qic, dev.dma) => CardBurst(qic', dev.dma)
        /\ qic'.state.at \notin Q!WorkerStates
    BY <1>5, <2>1, ResumesCarries
  <2>3. AccessHeldOnce'
    <3>1. qic'.state.at # "WorkerResponse"
      BY <2>2 DEF Q!WorkerStates
    <3>2. QED
      BY <1>6, <3>1 DEF AccessHeldOnce
  <2>4. CardInv'
    BY <1>6, <2>2, <2>3, BurstCarried
  <2>5. Q!TimedOut(s.wait) \/ (s.at = "WorkerWriteData" /\ bus.dataStrobe /\ bus.data = None)
    <3>1. ASSUME ~Q!TimedOut(s.wait), ~(s.at = "WorkerWriteData" /\ bus.dataStrobe /\ bus.data = None)
          PROVE  next.at # "Idle"
      BY <1>1, <3>1 DEF Q!FromWorkerData, Q!WorkerOffer, AccessStates
    <3>2. QED
      BY <1>7, <3>1 DEF Q!Idle
  <2>6. QED
    BY <1>6, <2>1, <2>4, <2>5
<1>8. CASE next # Q!Idle
  <2>1. /\ next \in AccessStates /\ next.op = s.op
    <3> DEFINE w == [s EXCEPT !.wait = @ + 1]
    <3>1. w \in AccessStates /\ w.op = s.op
      BY <1>1 DEF AccessStates
    <3>2. \A n \in Nat : Q!WorkerOffer(s.op, n) \in AccessStates /\ Q!WorkerOffer(s.op, n).op = s.op
      BY <1>1 DEF Q!WorkerOffer, AccessStates
    <3>3. next \in {w, Q!WorkerOffer(s.op, s.wait), Q!WorkerOffer(s.op, 0)}
      BY <1>8 DEF Q!FromWorkerData
    <3> HIDE DEF w, next
    <3>4. QED
      BY <1>1, <3>1, <3>2, <3>3
  <2>2. /\ next.at \in {"WorkerReadData", "WorkerWriteData", "WorkerOffer"}
    BY <2>1 DEF AccessStates
  <2>3. /\ qic'.state = next /\ qic'.suspended = qic.suspended /\ qic'.tail = qic.tail
    BY <1>5, <1>8 DEF GoesTo
  <2> HIDE DEF next
  <2>4. QicState(qic'.state) /\ qic'.state.at \in Q!WorkerStates \ {"WorkerResponse"}
        /\ s.at \in Q!WorkerStates
    BY <1>1, <2>1, <2>2, <2>3 DEF QicState, Q!WorkerStates
  <2>5. /\ QicShape(qic') /\ (Holds' <=> Holds)
        /\ Holds /\ CardBurst(qic, dev.dma) => CardBurst(qic', dev.dma)
    BY <1>5, <2>3, <2>4, AccessCarries DEF GoesTo
  <2>6. AccessHeldOnce'
    <3>1. qic'.state.at # "WorkerResponse"
      BY <2>4
    <3>2. QED
      BY <1>6, <3>1 DEF AccessHeldOnce
  <2>7. CardInv'
    BY <1>6, <2>5, <2>6, BurstCarried
  <2>8. QED
    BY <1>6, <2>1, <2>3, <2>4, <2>7
<1>9. QED
  BY <1>7, <1>8

\* Nothing is put aside unless a DMA request is accepted during an access.
LEMMA AsideIs ==
  ASSUME CardInv, NEW bus, BusShape(bus), NEW choice, ChoiceShape(choice), CardClock(bus, choice),
         NEW drive, drive = D!Drive(dev, choice), qic.state.at \in {"WorkerOffer", "WorkerResponse"},
         NEW u, u = Aside(qic, drive)
  PROVE  \/ u = qic.suspended /\ BurstKept
         \/ /\ qic.suspended = None /\ qic.tail = None
            /\ ~Q!TimedOut(qic.state.wait)
            /\ dev.dma # None /\ ~dev.dma.active
            /\ u = [kind |-> "Dma", request |-> dev.dma.request] /\ u # None /\ Work(u)
            /\ dev'.dma # None /\ dev'.dma.request = dev.dma.request
            /\ dev'.dma.moved = 0 /\ dev'.dma.active
<1> DEFINE qli == Q!ToDevice(qic, bus, drive)
<1>1. /\ qli.dmaReady = (Q!AcceptsDmaWhenIdle(qic, bus, drive) \/ Q!AcceptsDmaDuringWorker(qic, drive))
      /\ ~Q!AcceptsDmaWhenIdle(qic, bus, drive)
      /\ qli.completion = None /\ ~qli.writeReady /\ qli.read = None
  <2>1. qli.completion = None /\ ~qli.writeReady /\ qli.read = None
    BY NothingSaid
  <2>2. ~Q!AcceptsDmaWhenIdle(qic, bus, drive)
    BY DEF Q!AcceptsDmaWhenIdle, Q!Idle
  <2>3. qli.dmaReady = (Q!AcceptsDmaWhenIdle(qic, bus, drive) \/ Q!AcceptsDmaDuringWorker(qic, drive))
    BY DEF Q!ToDevice
  <2>4. QED
    BY <2>1, <2>2, <2>3
<1>2. CASE ~Q!AcceptsDmaDuringWorker(qic, drive)
  <2>1. ~qli.dmaReady
    BY <1>1, <1>2
  <2>2. BurstKept
    BY <1>1, <2>1, BurstStill
  <2>3. QED
    BY <1>2, <2>2 DEF Aside
<1>3. CASE Q!AcceptsDmaDuringWorker(qic, drive)
  <2>1. /\ qic.suspended = None /\ qic.tail = None /\ ~Q!TimedOut(qic.state.wait) /\ drive.dma # None
        /\ u = [kind |-> "Dma", request |-> drive.dma]
    BY <1>3 DEF Q!AcceptsDmaDuringWorker, Aside
  <2>2. dev.dma # None /\ ~dev.dma.active /\ drive.dma = dev.dma.request
    BY <2>1, DriveIs DEF ChoiceShape
  <2>3. /\ dev.dma \in BurstStates /\ dev.dma.moved = 0
    BY <2>2 DEF CardInv, DeviceShape
  <2>4. u \in DmaWork /\ u.kind = "Dma"
    BY <2>1, <2>2, <2>3 DEF DmaWork, BurstStates
  <2>5. Work(u) /\ u # None
    BY <2>4, NoneIsNoValue DEF Work
  <2>6. qli.dmaReady
    BY <1>1, <1>3
  <2>7. dev' = D!Clock(dev, drive, qli, choice) /\ DeviceShape(dev)
    BY DEF CardClock, CardInv
  <2>8. qli.dmaReady \in BOOLEAN
    BY NothingSaid
  <2> HIDE DEF qli
  <2>9. /\ dev'.dma # None /\ dev'.dma.request = dev.dma.request
        /\ dev'.dma.moved = dev.dma.moved /\ dev'.dma.active = qli.dmaReady
    BY <2>2, <2>7, <2>8, DmaIs DEF ChoiceShape
  <2>10. QED
    BY <2>1, <2>2, <2>3, <2>5, <2>6, <2>9
<1>4. QED
  BY <1>2, <1>3

\* A request the QIC has accepted: the device has moved none of its words.
LEMMA RequestTaken ==
  ASSUME CardInv, DeviceShape(dev'), QicRecord(qic'), qic'.grantUsed \in BOOLEAN, AccessHeldOnce',
         dev.dma # None, NEW u, u = [kind |-> "Dma", request |-> dev.dma.request], u # None, Work(u),
         dev'.dma # None, dev'.dma.request = dev.dma.request, dev'.dma.moved = 0, dev'.dma.active,
         qic'.tail = None,
         \/ qic'.state = Q!RequestBus(u) /\ qic'.suspended = None
         \/ qic'.suspended = u /\ qic'.state.at \in Q!WorkerStates /\ QicState(qic'.state)
  PROVE  CardInv'
<1>1. u.kind = "Dma" /\ u.request = dev.dma.request
  OBVIOUS
<1>2. CASE qic'.state = Q!RequestBus(u) /\ qic'.suspended = None
  <2>1. qic'.state.at = "RequestBus" /\ qic'.state.work = u
    BY <1>2 DEF Q!RequestBus
  <2>2. QicShape(qic')
    BY <1>2, <2>1 DEF QicShape, QicRecord, QicState
  <2>3. Holds' /\ D!Active(dev')
    BY <1>1, <2>1 DEF Holds, D!Active
  <2>4. RequestHeldOnce'
    BY <2>3 DEF RequestHeldOnce
  <2>5. CardBurst(qic', dev'.dma)
    BY <1>1, <1>2, <2>1 DEF CardBurst, BurstState
  <2>6. QED
    BY <2>2, <2>4, <2>5 DEF CardInv
<1>3. CASE qic'.suspended = u /\ qic'.state.at \in Q!WorkerStates /\ QicState(qic'.state)
  <2>1. QicShape(qic')
    BY <1>3 DEF QicShape, QicRecord
  <2>2. Holds' /\ D!Active(dev')
    BY <1>1, <1>3 DEF Holds, D!Active
  <2>3. RequestHeldOnce'
    BY <2>2 DEF RequestHeldOnce
  <2>4. CardBurst(qic', dev'.dma)
    BY <1>1, <1>3 DEF CardBurst, BurstState, Q!WorkerStates
  <2>5. QED
    BY <2>1, <2>3, <2>4 DEF CardInv
<1>4. QED
  BY <1>2, <1>3

LEMMA AccessClockKeeps ==
  ASSUME CardInv, NEW bus, BusShape(bus), NEW choice, ChoiceShape(choice), CardClock(bus, choice),
         NEW drive, drive = D!Drive(dev, choice), qic.state.at \in {"WorkerOffer", "WorkerResponse"},
         NEW u, u = Aside(qic, drive), AccessHeldOnce',
         \/ Resumes(u)
         \/ GoesTo(qic'.state, u) /\ qic'.state.at \in Q!WorkerStates /\ QicState(qic'.state)
  PROVE  CardInv'
<1>1. qic.state.at \in Q!WorkerStates /\ QicRecord(qic') /\ qic'.grantUsed \in BOOLEAN /\ DeviceShape(dev')
  BY QicClock, DeviceTyped DEF Q!WorkerStates
<1>2. CASE u = qic.suspended /\ BurstKept
  <2>1. /\ QicShape(qic') /\ (Holds' <=> Holds)
        /\ Holds /\ CardBurst(qic, dev.dma) => CardBurst(qic', dev.dma)
    BY <1>1, <1>2, ResumesCarries, AccessCarries DEF GoesTo
  <2>2. QED
    BY <1>1, <1>2, <2>1, BurstCarried
<1>3. CASE /\ qic.suspended = None /\ qic.tail = None
           /\ dev.dma # None /\ ~dev.dma.active
           /\ u = [kind |-> "Dma", request |-> dev.dma.request] /\ u # None /\ Work(u)
           /\ dev'.dma # None /\ dev'.dma.request = dev.dma.request
           /\ dev'.dma.moved = 0 /\ dev'.dma.active
  <2>1. qic'.tail = None
    BY <1>3 DEF Resumes, GoesTo
  <2>2. \/ qic'.state = Q!RequestBus(u) /\ qic'.suspended = None
        \/ qic'.suspended = u /\ qic'.state.at \in Q!WorkerStates /\ QicState(qic'.state)
    BY <1>3 DEF Resumes, GoesTo
  <2>3. QED
    BY <1>1, <1>3, <2>1, <2>2, RequestTaken
<1>4. QED
  BY <1>2, <1>3, AsideIs

\* A state the QIC resumes with is no answer awaited, and needs no grant.
LEMMA ResumedState ==
  ASSUME CardInv, NEW u, Resumes(u)
  PROVE  qic'.state.at \notin Q!WorkerStates /\ ~Q!NeedsGrant(qic'.state)
<1>1. QicShape(qic)
  BY DEF CardInv
<1>2. CASE qic.tail # None
  BY <1>1, <1>2 DEF Resumes, QicShape, Q!WorkerStates, Q!NeedsGrant, Q!LocalTail
<1>3. CASE qic.tail = None /\ u # None
  BY <1>3 DEF Resumes, Q!RequestBus, Q!WorkerStates, Q!NeedsGrant
<1>4. CASE qic.tail = None /\ u = None
  BY <1>4 DEF Resumes, Q!Idle, Q!WorkerStates, Q!NeedsGrant
<1>5. QED
  BY <1>2, <1>3, <1>4

\* Offering a register access: the device takes it at once.
LEMMA WorkerOfferClock ==
  ASSUME CardInv, NEW bus, BusShape(bus), NEW choice, ChoiceShape(choice), CardClock(bus, choice),
         qic.state.at = "WorkerOffer"
  PROVE  LET s == qic.state
             u == Aside(qic, D!Drive(dev, choice)) IN
         /\ CardInv'
         /\ IF Q!TimedOut(s.wait) THEN Resumes(u)
            ELSE /\ qic'.state.at = "WorkerResponse" /\ qic'.tail = qic.tail
                 /\ dev'.mmio # None /\ dev'.mmio.op = s.op
<1> DEFINE drive == D!Drive(dev, choice)
           s == qic.state
           u == Aside(qic, drive)
           qli == Q!ToDevice(qic, bus, drive)
           next == Q!FromWorkerOffer(s, drive)
<1>1. /\ QicShape(qic) /\ s.at = "WorkerOffer" /\ dev.mmio = None
      /\ s \in AccessStates /\ s.op \in Access /\ s.wait \in Nat /\ s.op.write \in BOOLEAN
  BY DEF CardInv, AccessHeldOnce, QicShape, QicState, Q!Idle, AccessStates, Access
<1>2. ~Interrupted(qic, bus) /\ Goes(qic, bus)
  BY <1>1 DEF Interrupted, Lost, Goes, Q!LocalTail, Q!NeedsGrant
<1>3. Moved(qic, bus, drive) = next
  <2>1. Now(qic, bus).state = s
    BY <1>1 DEF Now, QicShape
  <2>2. QED
    BY <1>1, <2>1 DEF Moved, Q!NextState
<1>4. IF next # Q!Idle THEN GoesTo(next, u) ELSE Resumes(u)
  BY <1>2, <1>3, QicClock
<1>5. dev' = D!Clock(dev, drive, qli, choice) /\ DeviceShape(dev)
  BY DEF CardClock, CardInv
<1>6. /\ qli.cancel \in BOOLEAN /\ qli.responseReady \in BOOLEAN /\ ~qli.cancel
      /\ qli.mmio = IF Q!TimedOut(s.wait) THEN None ELSE s.op
  <2>1. qli.cancel \in BOOLEAN /\ qli.responseReady \in BOOLEAN
    BY NothingSaid
  <2>2. ~qli.cancel /\ qli.mmio = IF Q!TimedOut(s.wait) THEN None ELSE s.op
    BY <1>1 DEF Q!ToDevice, Q!Cancels
  <2>3. QED
    BY <2>1, <2>2
<1>7. drive.mmioReady
  BY <1>1, DriveIs DEF ChoiceShape
<1>8. s.op # None
  BY <1>1, NoneIsNoValue
<1>9. CASE Q!TimedOut(s.wait)
  <2>1. next = Q!Idle
    BY <1>9 DEF Q!FromWorkerOffer
  <2>2. Resumes(u)
    BY <1>4, <2>1
  <2>3. dev'.mmio = None
    <3> HIDE DEF qli, drive
    <3>1. QED
      BY <1>1, <1>5, <1>6, <1>9, MmioIs DEF ChoiceShape
  <2>4. qic'.state.at # "WorkerResponse"
    <3> HIDE DEF u
    <3>1. QED
      BY <2>2, ResumedState DEF Q!WorkerStates
  <2>5. AccessHeldOnce'
    BY <2>3, <2>4 DEF AccessHeldOnce
  <2>6. CardInv'
    BY <1>1, <2>2, <2>5, AccessClockKeeps
  <2>7. QED
    BY <1>9, <2>2, <2>6
<1>10. CASE ~Q!TimedOut(s.wait)
  <2>1. next = Q!WorkerResponse(~s.op.write, s.wait)
    BY <1>7, <1>10 DEF Q!FromWorkerOffer
  <2>2. /\ next.at = "WorkerResponse" /\ next \in ResponseStates /\ next.read = ~s.op.write
    BY <1>1, <2>1 DEF Q!WorkerResponse, ResponseStates
  <2>3. next # Q!Idle
    BY <2>2 DEF Q!Idle
  <2>4. GoesTo(next, u)
    BY <1>4, <2>3
  <2>5. dev'.mmio # None /\ dev'.mmio.op = s.op
    <3> HIDE DEF qli, drive
    <3>1. QED
      BY <1>1, <1>5, <1>6, <1>8, <1>10, MmioIs DEF ChoiceShape
  <2> HIDE DEF next, u
  <2>6. qic'.state = next /\ qic'.tail = qic.tail
    BY <2>4 DEF GoesTo
  <2>7. AccessHeldOnce'
    BY <2>2, <2>5, <2>6 DEF AccessHeldOnce
  <2>8. QicState(qic'.state) /\ qic'.state.at \in Q!WorkerStates
    BY <2>2, <2>6 DEF QicState, Q!WorkerStates
  <2>9. CardInv'
    BY <1>1, <2>4, <2>6, <2>7, <2>8, AccessClockKeeps DEF u
  <2>10. QED
    BY <1>10, <2>2, <2>5, <2>6, <2>9
<1>11. QED
  BY <1>9, <1>10

\* Awaiting the device's answer.
LEMMA WorkerResponseClock ==
  ASSUME CardInv, NEW bus, BusShape(bus), NEW choice, ChoiceShape(choice), CardClock(bus, choice),
         qic.state.at = "WorkerResponse"
  PROVE  LET s == qic.state
             u == Aside(qic, D!Drive(dev, choice)) IN
         /\ CardInv' /\ dev.mmio # None
         /\ IF Q!TimedOut(s.wait) \/ (bus.dataStrobe /\ dev.mmio.answer # None) THEN Resumes(u)
            ELSE /\ qic'.state.at = "WorkerResponse" /\ qic'.tail = qic.tail
                 /\ dev'.mmio # None /\ dev'.mmio.op = dev.mmio.op
<1> DEFINE drive == D!Drive(dev, choice)
           s == qic.state
           u == Aside(qic, drive)
           qli == Q!ToDevice(qic, bus, drive)
           next == Q!FromWorkerResponse(s, bus, drive)
           over == Q!TimedOut(s.wait) \/ (bus.dataStrobe /\ dev.mmio.answer # None)
<1>1. /\ QicShape(qic) /\ s.at = "WorkerResponse" /\ dev.mmio # None
      /\ s \in ResponseStates /\ s.wait \in Nat /\ s.read = ~dev.mmio.op.write
  BY DEF CardInv, AccessHeldOnce, QicShape, QicState, Q!Idle, ResponseStates
<1>2. ~Interrupted(qic, bus) /\ Goes(qic, bus)
  BY <1>1 DEF Interrupted, Lost, Goes, Q!LocalTail, Q!NeedsGrant
<1>3. Moved(qic, bus, drive) = next
  <2>1. Now(qic, bus).state = s
    BY <1>1 DEF Now, QicShape
  <2>2. QED
    BY <1>1, <2>1 DEF Moved, Q!NextState
<1>4. IF next # Q!Idle THEN GoesTo(next, u) ELSE Resumes(u)
  BY <1>2, <1>3, QicClock
<1>5. dev' = D!Clock(dev, drive, qli, choice) /\ DeviceShape(dev)
  BY DEF CardClock, CardInv
<1>6. /\ qli.cancel \in BOOLEAN /\ qli.responseReady \in BOOLEAN /\ qli.mmio = None
      /\ qli.cancel <=> Q!TimedOut(s.wait)
      /\ qli.responseReady <=> ~Q!TimedOut(s.wait) /\ bus.dataStrobe
  <2>1. qli.cancel \in BOOLEAN /\ qli.responseReady \in BOOLEAN
    BY NothingSaid
  <2>2. qli.mmio = None
    BY <1>1 DEF Q!ToDevice
  <2>3. qli.cancel <=> Q!TimedOut(s.wait)
    BY <1>1 DEF Q!ToDevice, Q!Cancels
  <2>4. qli.responseReady <=> ~Q!TimedOut(s.wait) /\ bus.dataStrobe
    BY <1>1 DEF Q!ToDevice
  <2>5. QED
    BY <2>1, <2>2, <2>3, <2>4
<1>7. (drive.response # None) <=> (dev.mmio.answer # None)
  BY <1>1, DriveIs DEF ChoiceShape
<1>8. None \in Access \cup {None}
  OBVIOUS
<1>9. CASE over
  <2>1. next = Q!Idle
    BY <1>7, <1>9 DEF Q!FromWorkerResponse
  <2>2. Resumes(u)
    BY <1>4, <2>1
  <2>3. dev'.mmio = None
    <3> HIDE DEF qli, drive
    <3>1. QED
      BY <1>1, <1>5, <1>6, <1>8, <1>9, MmioIs DEF ChoiceShape
  <2>4. qic'.state.at # "WorkerResponse"
    <3> HIDE DEF u
    <3>1. QED
      BY <2>2, ResumedState DEF Q!WorkerStates
  <2>5. AccessHeldOnce'
    BY <2>3, <2>4 DEF AccessHeldOnce
  <2>6. CardInv'
    BY <1>1, <2>2, <2>5, AccessClockKeeps
  <2>7. QED
    BY <1>1, <1>9, <2>2, <2>6
<1>10. CASE ~over
  <2>1. next = [s EXCEPT !.wait = @ + 1]
    BY <1>7, <1>10 DEF Q!FromWorkerResponse
  <2>2. /\ next.at = "WorkerResponse" /\ next \in ResponseStates /\ next.read = s.read
    BY <1>1, <2>1 DEF ResponseStates
  <2>3. next # Q!Idle
    BY <2>2 DEF Q!Idle
  <2>4. GoesTo(next, u)
    BY <1>4, <2>3
  <2>5. dev'.mmio # None /\ dev'.mmio.op = dev.mmio.op
    <3> HIDE DEF qli, drive
    <3>1. QED
      BY <1>1, <1>5, <1>6, <1>8, <1>10, MmioIs DEF ChoiceShape
  <2> HIDE DEF next, u
  <2>6. qic'.state = next /\ qic'.tail = qic.tail
    BY <2>4 DEF GoesTo
  <2>7. AccessHeldOnce'
    <3>1. qic'.state.read = ~dev'.mmio.op.write
      BY <1>1, <2>2, <2>5, <2>6
    <3>2. QED
      BY <2>2, <2>5, <2>6, <3>1 DEF AccessHeldOnce
  <2>8. QicState(qic'.state) /\ qic'.state.at \in Q!WorkerStates
    BY <2>2, <2>6 DEF QicState, Q!WorkerStates
  <2>9. CardInv'
    BY <1>1, <2>4, <2>6, <2>7, <2>8, AccessClockKeeps DEF u
  <2>10. QED
    BY <1>1, <1>10, <2>2, <2>5, <2>6, <2>9
<1>11. QED
  BY <1>9, <1>10

\* What a clock without the grant leaves needs none; and no burst succeeds in this clock.
Releases(bus) == ~bus.grant => ~Q!NeedsGrant(qic'.state)
NoNewSuccess ==
  Succeeded(BurstState(qic')) =>
    Succeeded(BurstState(qic)) /\ BurstState(qic').completed = BurstState(qic).completed

LEMMA StartWorkerIs ==
  ASSUME NEW bus, bus.address \in AddressPhases
  PROVE  LET n == Q!StartWorker(bus) IN
         /\ QicState(n) /\ n.at \in {"WorkerReadData", "WorkerWriteData"}
         /\ n.op = [register |-> bus.address.register, write |-> bus.address.write]
         /\ n # Q!Idle
<1> DEFINE op == [register |-> bus.address.register, write |-> bus.address.write]
           n == Q!StartWorker(bus)
<1>1. op \in Access
  BY DEF AddressPhases, Access
<1>2. n = [at |-> IF op.write THEN "WorkerWriteData" ELSE "WorkerReadData", op |-> op, wait |-> 0]
  BY DEF Q!StartWorker, Q!WorkerData
<1> HIDE DEF op
<1>3. n \in AccessStates /\ n.at \in {"WorkerReadData", "WorkerWriteData"} /\ n.op = op
  BY <1>1, <1>2 DEF AccessStates
<1> HIDE DEF n
<1>4. QicState(n) /\ n # Q!Idle
  BY <1>3 DEF QicState, Q!Idle
<1>5. QED
  BY <1>3, <1>4 DEF n, op

\* With nothing put aside and no burst, before and after.
LEMMA NoBurstKeeps ==
  ASSUME CardInv, ~Holds, BurstKept, DeviceShape(dev'), dev'.mmio = None, QicRecord(qic'),
         qic'.grantUsed \in BOOLEAN, qic'.suspended = None, qic'.tail = None, QicState(qic'.state),
         ~Holds', qic'.state.at # "WorkerResponse"
  PROVE  CardInv'
<1>1. QicShape(qic')
  BY DEF QicShape, QicRecord
<1>2. AccessHeldOnce'
  BY DEF AccessHeldOnce
<1>3. QED
  BY <1>1, <1>2, BurstCarried

\* Nothing to do: an access, a notification or a burst may begin.
LEMMA IdleClock ==
  ASSUME CardInv, NEW bus, BusShape(bus), NEW choice, ChoiceShape(choice), CardClock(bus, choice),
         qic.state.at = "Idle"
  PROVE  /\ CardInv' /\ ~Q!NeedsGrant(qic'.state) /\ NoNewSuccess
         /\ Q!WorkerAddressCycle(bus) /\ bus.address.valid => qic'.state = Q!StartWorker(bus)
<1> DEFINE drive == D!Drive(dev, choice)
           qli == Q!ToDevice(qic, bus, drive)
           next == Q!FromIdle(Now(qic, bus), bus, drive)
           asked == Q!AcceptsDmaWhenIdle(qic, bus, drive)
           dmaWork == [kind |-> "Dma", request |-> drive.dma]
           notifyWork == [kind |-> "Notification", request |-> drive.notification]
<1>1. /\ QicShape(qic) /\ qic.state = Q!Idle /\ qic.tail = None /\ qic.suspended = None
      /\ qic.state.at = "Idle" /\ qic.grantUsed \in BOOLEAN
  <2>1. QicShape(qic)
    BY DEF CardInv
  <2>2. qic.state = Q!Idle
    BY <2>1 DEF QicShape, QicState
  <2>3. QED
    BY <2>1, <2>2 DEF QicShape, Q!WorkerStates
<1>2. ~Interrupted(qic, bus) /\ Goes(qic, bus)
  BY <1>1 DEF Interrupted, Lost, Goes, Q!LocalTail, Q!NeedsGrant
<1>3. Moved(qic, bus, drive) = next
  <2>1. Now(qic, bus).state = qic.state
    BY <1>1 DEF Now, QicShape
  <2>2. QED
    BY <1>1, <2>1 DEF Moved, Q!NextState
<1>4. Aside(qic, drive) = None
  BY <1>1 DEF Aside, Q!AcceptsDmaDuringWorker
<1>5. /\ QicRecord(qic') /\ qic'.grantUsed \in BOOLEAN
      /\ qic'.state = next /\ qic'.suspended = None /\ qic'.tail = None
  BY <1>1, <1>2, <1>3, <1>4, QicClock DEF GoesTo, Resumes
<1>6. DeviceShape(dev') /\ dev'.mmio = None /\ dev' = D!Clock(dev, drive, qli, choice)
      /\ DeviceShape(dev)
  BY <1>1, DeviceTyped, NothingSaid DEF CardClock, CardInv
<1>7. ~Holds
  BY <1>1 DEF Holds
<1>8. qli.dmaReady <=> asked
  <2>1. ~Q!AcceptsDmaDuringWorker(qic, drive)
    BY <1>1 DEF Q!AcceptsDmaDuringWorker
  <2>2. QED
    BY <2>1 DEF Q!ToDevice
<1>9. next = IF Q!WorkerAddressCycle(bus)
             THEN IF bus.address.valid THEN Q!StartWorker(bus) ELSE Q!Idle
             ELSE IF Q!ManagerSlotAvailable(qic, bus) /\ drive.notification # None
             THEN IF Q!ValidNotification(drive.notification) THEN Q!RequestBus(notifyWork) ELSE Q!Idle
             ELSE IF asked THEN Q!RequestBus(dmaWork) ELSE Q!Idle
  <2>1. /\ Now(qic, bus).state = qic.state
        /\ Now(qic, bus).grantUsed = (qic.grantUsed /\ bus.grant)
    BY <1>1 DEF Now, QicShape
  <2>2. Q!ManagerSlotAvailable(Now(qic, bus), bus) <=> Q!ManagerSlotAvailable(qic, bus)
    BY <2>1 DEF Q!ManagerSlotAvailable
  <2>3. Q!AcceptsDmaWhenIdle(Now(qic, bus), bus, drive) <=> asked
    BY <2>1, <2>2 DEF Q!AcceptsDmaWhenIdle
  <2> HIDE DEF asked
  <2>4. QED
    BY <2>2, <2>3 DEF Q!FromIdle
<1>10. /\ drive.dma # None <=> dev.dma # None /\ ~dev.dma.active
       /\ drive.dma # None => drive.dma = dev.dma.request
       /\ drive.notification = dev.notification
  BY DriveIs DEF ChoiceShape
<1>11. drive.notification # None => drive.notification \in NotifyChannels
  BY <1>6, <1>10 DEF DeviceShape
<1>12. ~asked => BurstKept
  <2>1. ASSUME ~asked PROVE ~qli.dmaReady
    BY <1>8, <2>1
  <2>2. qli.completion = None /\ ~qli.writeReady /\ qli.read = None
    BY <1>1, NothingSaid
  <2> HIDE DEF asked
  <2>3. QED
    BY <2>1, <2>2, BurstStill
<1>13. asked => /\ ~Q!WorkerAddressCycle(bus) /\ drive.dma # None /\ drive.notification = None
  BY DEF Q!AcceptsDmaWhenIdle
<1> HIDE DEF next, asked
<1>14. CASE asked
  <2>1. next = Q!RequestBus(dmaWork)
    BY <1>9, <1>13, <1>14
  <2>2. dev.dma # None /\ ~dev.dma.active /\ dmaWork = [kind |-> "Dma", request |-> dev.dma.request]
    BY <1>10, <1>13, <1>14
  <2>3. dev.dma \in BurstStates /\ dev.dma.moved = 0 /\ dev.dma.request \in DmaRequest
    BY <1>6, <2>2 DEF CardInv, DeviceShape, BurstStates
  <2>4. dmaWork \in DmaWork /\ Work(dmaWork) /\ dmaWork # None
    BY <2>2, <2>3, NoneIsNoValue DEF DmaWork, Work
  <2>5. /\ dev'.dma # None /\ dev'.dma.request = dev.dma.request
        /\ dev'.dma.moved = 0 /\ dev'.dma.active
    <3>1. qli.dmaReady \in BOOLEAN
      BY NothingSaid
    <3>2. qli.dmaReady
      BY <1>8, <1>14
    <3>3. drive = D!Drive(dev, choice) /\ dev' = D!Clock(dev, drive, qli, choice)
          /\ DeviceShape(dev) /\ dev.dma # None /\ ~dev.dma.active
      BY <1>6, <2>2
    <3> HIDE DEF qli, drive, dmaWork
    <3>4. /\ dev'.dma # None /\ dev'.dma.request = dev.dma.request
          /\ dev'.dma.moved = dev.dma.moved /\ dev'.dma.active = qli.dmaReady
      BY <3>1, <3>3, DmaIs DEF ChoiceShape
    <3>5. QED
      BY <2>3, <3>2, <3>4
  <2>6. qic'.state = Q!RequestBus(dmaWork) /\ qic'.state.at = "RequestBus"
    BY <1>5, <2>1 DEF Q!RequestBus
  <2>7. AccessHeldOnce'
    BY <1>6, <2>6 DEF AccessHeldOnce
  <2> HIDE DEF dmaWork
  <2>8. CardInv'
    BY <1>5, <1>6, <2>2, <2>4, <2>5, <2>6, <2>7, RequestTaken
  <2>9. ~Q!NeedsGrant(qic'.state) /\ ~Succeeded(BurstState(qic'))
    BY <1>5, <2>6 DEF Q!NeedsGrant, Succeeded, BurstState
  <2>10. QED
    BY <1>13, <1>14, <2>8, <2>9 DEF NoNewSuccess
<1>15. CASE ~asked
  <2>1. CASE next = Q!Idle
    <3>1. qic'.state = Q!Idle /\ qic'.state.at = "Idle"
      BY <1>5, <2>1 DEF Q!Idle
    <3>2. ~Holds' /\ QicState(qic'.state)
      BY <1>5, <3>1 DEF Holds, QicState
    <3>3. CardInv'
      BY <1>5, <1>6, <1>7, <1>12, <1>15, <3>1, <3>2, NoBurstKeeps
    <3>4. ~Q!NeedsGrant(qic'.state) /\ ~Succeeded(BurstState(qic'))
      BY <1>5, <3>1 DEF Q!NeedsGrant, Succeeded, BurstState
    <3>5. Q!WorkerAddressCycle(bus) /\ bus.address.valid => qic'.state = Q!StartWorker(bus)
      BY <1>5, <1>9
    <3>6. QED
      BY <3>3, <3>4, <3>5 DEF NoNewSuccess
  <2>2. CASE Q!WorkerAddressCycle(bus) /\ bus.address.valid
    <3>1. next = Q!StartWorker(bus)
      BY <1>9, <2>2
    <3>2. bus.address \in AddressPhases
      BY <2>2 DEF Q!WorkerAddressCycle, BusShape
    <3>3. QicState(qic'.state) /\ qic'.state.at \in {"WorkerReadData", "WorkerWriteData"}
      BY <1>5, <3>1, <3>2, StartWorkerIs
    <3>4. ~Holds'
      BY <1>5, <3>3 DEF Holds
    <3>5. CardInv'
      BY <1>5, <1>6, <1>7, <1>12, <1>15, <3>3, <3>4, NoBurstKeeps
    <3>6. ~Q!NeedsGrant(qic'.state) /\ ~Succeeded(BurstState(qic'))
      BY <1>5, <3>3 DEF Q!NeedsGrant, Succeeded, BurstState
    <3>7. QED
      BY <1>5, <3>1, <3>5, <3>6 DEF NoNewSuccess
  <2>3. CASE next = Q!RequestBus(notifyWork) /\ drive.notification # None /\ ~Q!WorkerAddressCycle(bus)
    <3>1. qic'.state.at = "RequestBus" /\ qic'.state.work = notifyWork
          /\ qic'.state = Q!RequestBus(qic'.state.work)
      BY <1>5, <2>3 DEF Q!RequestBus
    <3>2. Work(notifyWork) /\ notifyWork.kind = "Notification"
      BY <1>11, <2>3 DEF Work, NotifyWork
    <3> HIDE DEF notifyWork
    <3>3. QicState(qic'.state) /\ ~Holds'
      BY <1>5, <3>1, <3>2 DEF QicState, Holds
    <3>4. CardInv'
      BY <1>5, <1>6, <1>7, <1>12, <1>15, <3>1, <3>3, NoBurstKeeps
    <3>5. ~Q!NeedsGrant(qic'.state) /\ ~Succeeded(BurstState(qic'))
      BY <1>5, <3>1 DEF Q!NeedsGrant, Succeeded, BurstState
    <3>6. QED
      BY <2>3, <3>4, <3>5 DEF NoNewSuccess
  <2>4. QED
    BY <1>9, <1>15, <2>1, <2>2, <2>3
<1>16. QED
  BY <1>14, <1>15

\* In a state of the QIC's own work nothing is put aside and the register side is quiet.
LEMMA OwnWork ==
  ASSUME CardInv, NEW bus, BusShape(bus), NEW choice, ChoiceShape(choice), CardClock(bus, choice),
         qic.state.at \notin Q!WorkerStates
  PROVE  /\ QicShape(qic) /\ qic.tail = None /\ qic.suspended = None
         /\ QicRecord(qic') /\ qic'.grantUsed \in BOOLEAN
         /\ DeviceShape(dev') /\ dev'.mmio = None
         /\ Now(qic, bus).state = qic.state
         /\ qic.state.at \notin {"Idle", "DmaData", "DmaComplete"} => BurstKept
         /\ Aside(qic, D!Drive(dev, choice)) = None
<1>1. QicShape(qic)
  BY DEF CardInv
<1>2. qic.tail = None /\ qic.suspended = None
  BY <1>1 DEF QicShape
<1>3. qic.state.at \notin {"WorkerOffer", "WorkerResponse"}
  BY DEF Q!WorkerStates
<1>4. DeviceShape(dev') /\ dev'.mmio = None /\ QicRecord(qic') /\ qic'.grantUsed \in BOOLEAN
  BY <1>3, DeviceTyped, NothingSaid, QicClock
<1>5. Now(qic, bus).state = qic.state
  BY <1>1 DEF Now, QicShape
<1>6. qic.state.at \notin {"Idle", "DmaData", "DmaComplete"} => BurstKept
  BY <1>3, NothingSaid, BurstStill
<1>7. Aside(qic, D!Drive(dev, choice)) = None
  BY <1>2, <1>3 DEF Aside, Q!AcceptsDmaDuringWorker
<1>8. QED
  BY <1>1, <1>2, <1>4, <1>5, <1>6, <1>7

\* The new state is worth no less: what follows is CardInv if the burst is where it was.
LEMMA OwnWorkKeeps ==
  ASSUME CardInv, BurstKept, DeviceShape(dev'), dev'.mmio = None, QicRecord(qic'),
         qic'.grantUsed \in BOOLEAN, qic'.suspended = None, qic'.tail = None, QicState(qic'.state),
         qic'.state.at # "WorkerResponse", Holds' <=> Holds,
         Holds /\ CardBurst(qic, dev.dma) => CardBurst(qic', dev.dma)
  PROVE  CardInv'
<1>1. QicShape(qic')
  BY DEF QicShape, QicRecord
<1>2. AccessHeldOnce'
  BY DEF AccessHeldOnce
<1>3. QED
  BY <1>1, <1>2, BurstCarried

\* Work that waits for the bus.
LEMMA RequestBusClock ==
  ASSUME CardInv, NEW bus, BusShape(bus), NEW choice, ChoiceShape(choice), CardClock(bus, choice),
         qic.state.at = "RequestBus"
  PROVE  /\ CardInv' /\ NoNewSuccess
         /\ Q!NeedsGrant(qic'.state) => /\ qic'.state.at \in {"DmaAddress", "NotificationAddress"}
                                        /\ bus.grant
         /\ Q!WorkerAddressCycle(bus) /\ bus.address.valid => qic'.state = Q!StartWorker(bus)
<1> DEFINE drive == D!Drive(dev, choice)
           s == qic.state
           next == Q!FromRequestBus(s, bus)
<1>1. /\ QicShape(qic) /\ qic.tail = None /\ qic.suspended = None
      /\ QicRecord(qic') /\ qic'.grantUsed \in BOOLEAN
      /\ DeviceShape(dev') /\ dev'.mmio = None
      /\ Now(qic, bus).state = qic.state
      /\ BurstKept
      /\ Aside(qic, drive) = None
  BY OwnWork DEF Q!WorkerStates
<1>2. s.at = "RequestBus" /\ s = Q!RequestBus(s.work) /\ Work(s.work) /\ QicState(s) /\ s # Q!Idle
  BY <1>1 DEF QicShape, QicState, Q!Idle
<1>3. /\ Interrupted(qic, bus) <=> Q!WorkerAddressCycle(bus)
      /\ Goes(qic, bus) <=> ~Q!WorkerAddressCycle(bus)
  BY <1>2 DEF Interrupted, Lost, Goes, Q!NeedsGrant
<1>4. Moved(qic, bus, drive) = next
  BY <1>1, <1>2 DEF Moved, Q!NextState
<1>5. CASE qic'.state = s /\ qic'.tail = None /\ qic'.suspended = None
  <2>1. (Holds' <=> Holds) /\ (Holds /\ CardBurst(qic, dev.dma) => CardBurst(qic', dev.dma))
    BY <1>1, <1>5 DEF Holds, CardBurst, BurstState
  <2>2. CardInv'
    BY <1>1, <1>2, <1>5, <2>1, OwnWorkKeeps
  <2>3. ~Q!NeedsGrant(qic'.state) /\ ~Succeeded(BurstState(qic'))
    BY <1>2, <1>5 DEF Q!NeedsGrant, Succeeded, BurstState
  <2>4. QED
    BY <2>2, <2>3, <1>2, <1>3, <1>5, QicClock DEF NoNewSuccess
<1>6. CASE Q!WorkerAddressCycle(bus) /\ bus.address.valid
  <2>1. /\ qic'.state = Q!StartWorker(bus) /\ qic'.suspended = s.work /\ qic'.tail = None
    BY <1>1, <1>2, <1>3, <1>6, QicClock
  <2>2. bus.address \in AddressPhases
    BY <1>6 DEF Q!WorkerAddressCycle, BusShape
  <2>3. QicState(qic'.state) /\ qic'.state.at \in {"WorkerReadData", "WorkerWriteData"}
    BY <2>1, <2>2, StartWorkerIs
  <2>4. s.work # None
    BY <1>2, NoneIsNoValue DEF Work
  <2>5. QicShape(qic')
    BY <1>1, <1>2, <2>1, <2>3, <2>4 DEF QicShape, QicRecord, Q!WorkerStates
  <2>6. Holds' <=> Holds
    BY <1>1, <1>2, <2>1, <2>3, <2>4 DEF Holds
  <2>7. CardBurst(qic, dev.dma) => CardBurst(qic', dev.dma)
    BY <1>1, <1>2, <2>1, <2>3, <2>4 DEF CardBurst, BurstState
  <2>8. AccessHeldOnce'
    BY <1>1, <2>3 DEF AccessHeldOnce
  <2>9. CardInv'
    BY <1>1, <2>5, <2>6, <2>7, <2>8, BurstCarried
  <2>10. ~Q!NeedsGrant(qic'.state) /\ ~Succeeded(BurstState(qic'))
    BY <2>1, <2>3 DEF Q!NeedsGrant, Succeeded, BurstState
  <2>11. QED
    BY <2>1, <2>9, <2>10 DEF NoNewSuccess
<1>7. CASE Goes(qic, bus) /\ bus.grant
  <2>1. next = IF s.work.kind = "Dma" THEN Q!DmaAddress(s.work.request, 0)
               ELSE Q!NotificationAddress(s.work.request, 0)
    BY <1>7 DEF Q!FromRequestBus
  <2>2. \/ s.work.kind = "Dma" /\ next.at = "DmaAddress" /\ next \in AddressStates
           /\ next.request = s.work.request
        \/ s.work.kind = "Notification" /\ next.at = "NotificationAddress" /\ next \in NotifyStates
    BY <1>2, <2>1 DEF Work, DmaWork, NotifyWork, Q!DmaAddress, Q!NotificationAddress,
                      AddressStates, NotifyStates
  <2>3. next # Q!Idle
    BY <2>2 DEF Q!Idle
  <2>4. qic'.state = next /\ qic'.tail = None /\ qic'.suspended = None
    BY <1>1, <1>4, <1>7, <2>3, QicClock DEF GoesTo
  <2> HIDE DEF next
  <2>5. QicState(qic'.state) /\ qic'.state.at \in {"DmaAddress", "NotificationAddress"}
    BY <2>2, <2>4 DEF QicState
  <2>6. Holds' <=> Holds
    BY <1>1, <1>2, <2>2, <2>4 DEF Holds
  <2>7. CardBurst(qic, dev.dma) => CardBurst(qic', dev.dma)
    BY <1>1, <1>2, <2>2, <2>4 DEF CardBurst, BurstState
  <2>8. CardInv'
    BY <1>1, <2>4, <2>5, <2>6, <2>7, OwnWorkKeeps
  <2>9. ~Succeeded(BurstState(qic'))
    BY <2>4, <2>5 DEF Succeeded, BurstState
  <2>10. QED
    BY <1>3, <1>7, <2>5, <2>8, <2>9 DEF NoNewSuccess
<1>8. CASE Goes(qic, bus) /\ ~bus.grant
  <2>1. next = s
    BY <1>8 DEF Q!FromRequestBus
  <2>2. QED
    BY <1>1, <1>2, <1>4, <1>5, <1>8, <2>1, QicClock DEF GoesTo
<1>9. CASE Q!WorkerAddressCycle(bus) /\ ~bus.address.valid
  BY <1>1, <1>3, <1>5, <1>9, QicClock DEF GoesTo
<1>10. QED
  BY <1>3, <1>6, <1>7, <1>8, <1>9 DEF BusShape

\* A burst that fails is to be completed with its error.
LEMMA BurstFails ==
  ASSUME CardInv, BurstKept, DeviceShape(dev'), dev'.mmio = None, QicRecord(qic'),
         qic'.grantUsed \in BOOLEAN, qic'.suspended = None, qic'.tail = None,
         qic.state.at \in {"DmaAddress", "DmaData"}, qic.suspended = None, qic.tail = None,
         NEW status \in Statuses, status # "Ok", NEW n \in Nat,
         qic'.state = Q!DmaComplete(status, n)
  PROVE  /\ CardInv' /\ NoNewSuccess /\ ~Q!NeedsGrant(qic'.state)
         /\ qic'.state.at = "DmaComplete" /\ qic'.state.status = status /\ qic'.state.completed = n
<1>1. /\ qic'.state \in DoneStates /\ qic'.state.at = "DmaComplete"
      /\ qic'.state.status = status /\ qic'.state.completed = n
  BY DEF Q!DmaComplete, DoneStates
<1>2. QicState(qic'.state)
  BY <1>1 DEF QicState
<1>3. Holds /\ Holds'
  BY <1>1 DEF Holds
<1>4. CardBurst(qic', dev.dma)
  BY <1>1 DEF CardBurst, BurstState
<1>5. CardInv'
  BY <1>1, <1>2, <1>3, <1>4, OwnWorkKeeps
<1>6. ~Q!NeedsGrant(qic'.state) /\ ~Succeeded(BurstState(qic'))
  BY <1>1 DEF Q!NeedsGrant, Succeeded, BurstState
<1>7. QED
  BY <1>1, <1>5, <1>6 DEF NoNewSuccess

\* The address of a burst is on the bus.
LEMMA DmaAddressClock ==
  ASSUME CardInv, NEW bus, BusShape(bus), NEW choice, ChoiceShape(choice), CardClock(bus, choice),
         qic.state.at = "DmaAddress"
  PROVE  LET s == qic.state IN
         /\ CardInv' /\ NoNewSuccess /\ Releases(bus)
         /\ qic'.tail = None
         /\ bus.grant =>
              IF Q!TimedOut(s.wait) \/ bus.err
              THEN qic'.state.at = "DmaComplete" /\ qic'.state.status # "Ok"
              ELSE IF bus.ack
              THEN /\ qic'.state.at = "DmaData" /\ qic'.state.request = s.request
                   /\ qic'.state.completed = 0 /\ qic'.state.buffer = None
              ELSE qic'.state.at = "DmaAddress" /\ qic'.state.request = s.request
<1> DEFINE drive == D!Drive(dev, choice)
           s == qic.state
           next == Q!FromDmaAddress(s, bus)
<1>1. /\ QicShape(qic) /\ qic.tail = None /\ qic.suspended = None
      /\ QicRecord(qic') /\ qic'.grantUsed \in BOOLEAN
      /\ DeviceShape(dev') /\ dev'.mmio = None
      /\ Now(qic, bus).state = qic.state
      /\ BurstKept
      /\ Aside(qic, drive) = None
  BY OwnWork DEF Q!WorkerStates
<1>2. s.at = "DmaAddress" /\ s \in AddressStates /\ s.request \in DmaRequest /\ s.wait \in Nat
  BY <1>1 DEF QicShape, QicState, Q!Idle, AddressStates
<1>3. /\ ~Interrupted(qic, bus)
      /\ Lost(qic, bus) <=> ~bus.grant
      /\ Goes(qic, bus) <=> bus.grant
  BY <1>2 DEF Interrupted, Lost, Goes, Q!NeedsGrant, Q!LocalTail, BusShape
<1>4. Moved(qic, bus, drive) = next
  BY <1>1, <1>2 DEF Moved, Q!NextState
<1>5. CASE ~bus.grant
  <2>1. GoesTo(Q!LoseGrant(s), None)
    BY <1>1, <1>3, <1>5, QicClock
  <2>2. Q!LoseGrant(s) = Q!DmaComplete("ProtocolError", 0)
    BY <1>2 DEF Q!LoseGrant
  <2>3. /\ qic'.state = Q!DmaComplete("ProtocolError", 0) /\ qic'.tail = None /\ qic'.suspended = None
    BY <1>1, <2>1, <2>2 DEF GoesTo
  <2>4. CardInv' /\ NoNewSuccess /\ ~Q!NeedsGrant(qic'.state)
    BY <1>1, <1>2, <2>3, BurstFails DEF Statuses
  <2>5. QED
    BY <1>5, <2>3, <2>4 DEF Releases
<1>6. CASE bus.grant
  <2>1. IF next # Q!Idle THEN GoesTo(next, None) ELSE Resumes(None)
    BY <1>1, <1>3, <1>4, <1>6, QicClock
  <2>2. CASE Q!TimedOut(s.wait) \/ bus.err
    <3>1. next \in {Q!DmaComplete("Timeout", 0), Q!DmaComplete("BusError", 0)}
      BY <2>2 DEF Q!FromDmaAddress
    <3>2. next # Q!Idle
      BY <3>1 DEF Q!DmaComplete, Q!Idle
    <3>3. qic'.state = next /\ qic'.tail = None /\ qic'.suspended = None
      BY <1>1, <2>1, <3>2 DEF GoesTo
    <3>4. /\ CardInv' /\ NoNewSuccess /\ qic'.state.at = "DmaComplete" /\ qic'.state.status # "Ok"
      <4> HIDE DEF next
      <4>1. CASE next = Q!DmaComplete("Timeout", 0)
        BY <1>1, <1>2, <3>3, <4>1, BurstFails DEF Statuses
      <4>2. CASE next = Q!DmaComplete("BusError", 0)
        BY <1>1, <1>2, <3>3, <4>2, BurstFails DEF Statuses
      <4>3. QED
        BY <3>1, <4>1, <4>2
    <3>5. QED
      BY <1>6, <2>2, <3>3, <3>4 DEF Releases
  <2>3. CASE ~(Q!TimedOut(s.wait) \/ bus.err)
    <3> DEFINE w == [s EXCEPT !.wait = @ + 1]
    <3>1. next = IF bus.ack THEN Q!DmaData(s.request, 0, 0, None) ELSE w
      BY <2>3 DEF Q!FromDmaAddress
    <3>2. w \in AddressStates /\ w.at = "DmaAddress" /\ w.request = s.request
      BY <1>2 DEF AddressStates
    <3>3. LET n == Q!DmaData(s.request, 0, 0, None) IN
            /\ n \in DataStates /\ n.at = "DmaData" /\ n.request = s.request
            /\ n.completed = 0 /\ n.buffer = None
      BY <1>2 DEF Q!DmaData, DataStates
    <3> HIDE DEF w, next
    <3>4. \/ /\ bus.ack /\ next \in DataStates /\ next.at = "DmaData" /\ next.request = s.request
             /\ next.completed = 0 /\ next.buffer = None
          \/ ~bus.ack /\ next \in AddressStates /\ next.at = "DmaAddress" /\ next.request = s.request
      BY <3>1, <3>2, <3>3
    <3>5. next # Q!Idle
      BY <3>4 DEF Q!Idle
    <3>6. qic'.state = next /\ qic'.tail = None /\ qic'.suspended = None
      BY <1>1, <2>1, <3>5 DEF GoesTo
    <3>7. Holds /\ Holds' /\ QicState(qic'.state) /\ qic'.state.at # "WorkerResponse"
      BY <1>2, <3>4, <3>6 DEF Holds, QicState
    <3>8. ASSUME CardBurst(qic, dev.dma) PROVE CardBurst(qic', dev.dma)
      <4>1. s.request = dev.dma.request /\ dev.dma.moved = 0 /\ s.request.words \in Nat \ {0}
        BY <1>1, <1>2, <3>8, DmaConstants DEF CardBurst, BurstState, DmaRequest
      <4>2. QED
        BY <3>4, <3>6, <4>1 DEF CardBurst, BurstState, WordsMoved
    <3>9. CardInv'
      BY <1>1, <3>6, <3>7, <3>8, OwnWorkKeeps
    <3>10. ~Succeeded(BurstState(qic'))
      BY <3>4, <3>6 DEF Succeeded, BurstState, Q!FinalReadBuffer
    <3>11. QED
      BY <1>6, <2>3, <3>4, <3>6, <3>9, <3>10 DEF NoNewSuccess, Releases
  <2>4. QED
    BY <2>2, <2>3
<1>7. QED
  BY <1>5, <1>6 DEF BusShape

\* A notification is on the bus.
LEMMA NotificationClock ==
  ASSUME CardInv, NEW bus, BusShape(bus), NEW choice, ChoiceShape(choice), CardClock(bus, choice),
         qic.state.at \in {"NotificationAddress", "NotificationData"}
  PROVE  LET s == qic.state IN
         /\ CardInv' /\ NoNewSuccess /\ Releases(bus)
         /\ IF ~bus.grant \/ Q!TimedOut(s.wait) \/ bus.err
               \/ (bus.ack /\ s.at = "NotificationData")
            THEN qic'.state = Q!Idle
            ELSE /\ qic'.state.at = IF bus.ack THEN "NotificationData" ELSE s.at
                 /\ qic'.state.request = s.request
<1> DEFINE drive == D!Drive(dev, choice)
           s == qic.state
           over == Q!TimedOut(s.wait) \/ bus.err \/ (bus.ack /\ s.at = "NotificationData")
           w == [s EXCEPT !.wait = @ + 1]
           next == IF over THEN Q!Idle ELSE IF bus.ack THEN Q!NotificationData(s.request, 0) ELSE w
<1>1. /\ QicShape(qic) /\ qic.tail = None /\ qic.suspended = None
      /\ QicRecord(qic') /\ qic'.grantUsed \in BOOLEAN
      /\ DeviceShape(dev') /\ dev'.mmio = None
      /\ Now(qic, bus).state = qic.state
      /\ BurstKept
      /\ Aside(qic, drive) = None
  BY OwnWork DEF Q!WorkerStates
<1>2. s.at \in {"NotificationAddress", "NotificationData"} /\ s \in NotifyStates
      /\ s.request \in NotifyChannels /\ s.wait \in Nat
  BY <1>1 DEF QicShape, QicState, Q!Idle, NotifyStates
<1>3. /\ ~Interrupted(qic, bus)
      /\ Lost(qic, bus) <=> ~bus.grant
      /\ Goes(qic, bus) <=> bus.grant
  BY <1>2 DEF Interrupted, Lost, Goes, Q!NeedsGrant, Q!LocalTail, BusShape
<1>4. Moved(qic, bus, drive) = next
  <2>1. Moved(qic, bus, drive) =
          IF s.at = "NotificationAddress" THEN Q!FromNotificationAddress(s, bus)
          ELSE Q!FromNotificationData(s, bus)
    BY <1>1, <1>2 DEF Moved, Q!NextState
  <2>2. QED
    BY <1>2, <2>1 DEF Q!FromNotificationAddress, Q!FromNotificationData
<1>5. ~Holds
  BY <1>1, <1>2 DEF Holds
<1>6. CASE qic'.state = Q!Idle /\ qic'.tail = None /\ qic'.suspended = None /\ (~bus.grant \/ over)
  <2>1. qic'.state.at = "Idle" /\ QicState(qic'.state)
    BY <1>6 DEF Q!Idle, QicState
  <2>2. ~Holds' /\ ~Q!NeedsGrant(qic'.state) /\ ~Succeeded(BurstState(qic'))
    BY <1>6, <2>1 DEF Holds, Q!NeedsGrant, Succeeded, BurstState
  <2>3. CardInv'
    BY <1>1, <1>5, <1>6, <2>1, <2>2, NoBurstKeeps
  <2>4. QED
    BY <1>6, <2>2, <2>3 DEF NoNewSuccess, Releases
<1>7. CASE bus.grant /\ ~over
  <2>1. w \in NotifyStates /\ w.at = s.at /\ w.request = s.request
    BY <1>2 DEF NotifyStates
  <2>2. LET n == Q!NotificationData(s.request, 0)
        IN  n \in NotifyStates /\ n.at = "NotificationData" /\ n.request = s.request
    BY <1>2 DEF Q!NotificationData, NotifyStates
  <2>3. /\ next \in NotifyStates /\ next.at \in {"NotificationAddress", "NotificationData"}
        /\ next.at = IF bus.ack THEN "NotificationData" ELSE s.at
        /\ next.request = s.request
    <3> HIDE DEF w, over
    <3>1. QED
      BY <1>2, <1>7, <2>1, <2>2
  <2> HIDE DEF next
  <2>4. next # Q!Idle
    BY <2>3 DEF Q!Idle
  <2>5. qic'.state = next /\ qic'.tail = None /\ qic'.suspended = None
    BY <1>1, <1>3, <1>4, <1>7, <2>4, QicClock DEF GoesTo
  <2>6. QicState(qic'.state) /\ ~Holds' /\ ~Succeeded(BurstState(qic'))
    BY <2>3, <2>5 DEF QicState, Holds, Succeeded, BurstState
  <2>7. CardInv'
    BY <1>1, <1>5, <2>3, <2>5, <2>6, NoBurstKeeps
  <2>8. QED
    BY <1>7, <2>3, <2>5, <2>6, <2>7 DEF NoNewSuccess, Releases
<1>8. CASE ~bus.grant
  <2>1. Q!LoseGrant(s) = Q!Idle
    BY <1>2 DEF Q!LoseGrant
  <2>2. QED
    BY <1>1, <1>3, <1>6, <1>8, <2>1, QicClock DEF GoesTo
<1>9. CASE bus.grant /\ over
  <2>1. next = Q!Idle
    BY <1>9
  <2>2. QED
    BY <1>1, <1>3, <1>4, <1>6, <1>9, <2>1, QicClock DEF Resumes
<1>10. QED
  BY <1>7, <1>8, <1>9 DEF BusShape

\* A register access comes in between the burst's last local steps.
LEMMA TailPutAside ==
  ASSUME CardInv, NEW bus, BusShape(bus), NEW choice, ChoiceShape(choice), CardClock(bus, choice),
         qic.state.at \in {"DmaData", "DmaComplete"}, Q!LocalTail(qic.state),
         Q!WorkerAddressCycle(bus)
  PROVE  /\ CardInv' /\ NoNewSuccess /\ ~Q!NeedsGrant(qic'.state)
         /\ bus.address.valid => qic'.state = Q!StartWorker(bus)
<1> DEFINE drive == D!Drive(dev, choice)
           qli == Q!ToDevice(qic, bus, drive)
           s == qic.state
<1>1. /\ QicShape(qic) /\ qic.tail = None /\ qic.suspended = None
      /\ QicRecord(qic') /\ qic'.grantUsed \in BOOLEAN
      /\ DeviceShape(dev') /\ dev'.mmio = None
  BY OwnWork DEF Q!WorkerStates
<1>2. Interrupted(qic, bus)
  BY DEF Interrupted
<1>3. qli.completion = None /\ ~qli.writeReady /\ qli.read = None
  BY DEF Q!ToDevice
<1>4. BurstKept
  <2>1. ~qli.dmaReady
    BY NothingSaid
  <2>2. QED
    BY <1>3, <2>1, BurstStill
<1>5. QicState(s) /\ s # None /\ Holds /\ ~Q!NeedsGrant(s)
  <2>1. QicState(s) /\ (s \in DataStates \/ s \in DoneStates)
    BY <1>1 DEF QicShape, QicState, Q!Idle
  <2>2. QED
    BY <2>1, NoneIsNoValue DEF Holds, Q!NeedsGrant, Q!LocalTail
<1>6. CASE ~bus.address.valid
  <2>1. qic'.state = s /\ qic'.tail = None /\ qic'.suspended = None
    BY <1>1, <1>2, <1>6, QicClock DEF GoesTo
  <2>2. Holds' /\ (CardBurst(qic, dev.dma) => CardBurst(qic', dev.dma))
    BY <1>1, <2>1 DEF Holds, CardBurst, BurstState
  <2>3. CardInv'
    BY <1>1, <1>4, <1>5, <2>1, <2>2, OwnWorkKeeps
  <2>4. NoNewSuccess
    BY <1>1, <2>1 DEF NoNewSuccess, BurstState
  <2>5. QED
    BY <1>5, <1>6, <2>1, <2>3, <2>4
<1>7. CASE bus.address.valid
  <2>1. qic'.state = Q!StartWorker(bus) /\ qic'.tail = s /\ qic'.suspended = None
    BY <1>1, <1>2, <1>7, QicClock
  <2>2. bus.address \in AddressPhases
    BY DEF Q!WorkerAddressCycle, BusShape
  <2>3. QicState(qic'.state) /\ qic'.state.at \in {"WorkerReadData", "WorkerWriteData"}
    BY <2>1, <2>2, StartWorkerIs
  <2>4. QicShape(qic')
    BY <1>1, <1>5, <2>1, <2>3 DEF QicShape, QicRecord, Q!WorkerStates
  <2>5. Holds' /\ (CardBurst(qic, dev.dma) => CardBurst(qic', dev.dma))
    BY <1>1, <1>5, <2>1, <2>3 DEF Holds, CardBurst, BurstState
  <2>6. AccessHeldOnce'
    BY <1>1, <2>3 DEF AccessHeldOnce
  <2>7. CardInv'
    BY <1>1, <1>4, <1>5, <2>4, <2>5, <2>6, BurstCarried
  <2>8. NoNewSuccess /\ ~Q!NeedsGrant(qic'.state)
    BY <1>1, <1>5, <2>1, <2>3 DEF NoNewSuccess, BurstState, Q!NeedsGrant
  <2>9. QED
    BY <2>1, <2>7, <2>8
<1>8. QED
  BY <1>6, <1>7 DEF BusShape, Q!WorkerAddressCycle, AddressPhases

\* The device is being told how its burst ended.
LEMMA DmaCompleteClock ==
  ASSUME CardInv, NEW bus, BusShape(bus), NEW choice, ChoiceShape(choice), CardClock(bus, choice),
         qic.state.at = "DmaComplete"
  PROVE  /\ CardInv' /\ NoNewSuccess /\ ~Q!NeedsGrant(qic'.state)
         /\ Q!WorkerAddressCycle(bus) /\ bus.address.valid => qic'.state = Q!StartWorker(bus)
<1> DEFINE drive == D!Drive(dev, choice)
           qli == Q!ToDevice(qic, bus, drive)
           s == qic.state
           next == Q!FromDmaComplete(s, drive)
<1>1. /\ QicShape(qic) /\ qic.tail = None /\ qic.suspended = None
      /\ QicRecord(qic') /\ qic'.grantUsed \in BOOLEAN
      /\ DeviceShape(dev') /\ dev'.mmio = None
      /\ Now(qic, bus).state = qic.state
      /\ Aside(qic, drive) = None
  BY OwnWork DEF Q!WorkerStates
<1>2. s.at = "DmaComplete" /\ s \in DoneStates /\ QicState(s) /\ s # Q!Idle /\ s # None
  BY <1>1, NoneIsNoValue DEF QicShape, QicState, Q!Idle
<1>3. CASE Q!WorkerAddressCycle(bus)
  BY <1>2, <1>3, TailPutAside DEF Q!LocalTail
<1>4. CASE ~Q!WorkerAddressCycle(bus)
  <2>1. Goes(qic, bus)
    BY <1>2, <1>4 DEF Goes, Interrupted, Lost, Q!NeedsGrant
  <2>2. Moved(qic, bus, drive) = next
    BY <1>1, <1>2 DEF Moved, Q!NextState
  <2>3. IF next # Q!Idle THEN GoesTo(next, None) ELSE Resumes(None)
    BY <1>1, <2>1, <2>2, QicClock
  <2>4. qli.completion = s /\ ~qli.writeReady /\ qli.read = None /\ ~qli.dmaReady
    <3>1. ~qli.dmaReady
      BY <1>2, NothingSaid
    <3>2. qli.completion = s /\ ~qli.writeReady /\ qli.read = None
      BY <1>2, <1>4 DEF Q!ToDevice
    <3>3. QED
      BY <3>1, <3>2
  <2>5. Holds /\ D!Active(dev) /\ dev.dma # None /\ dev.dma.active /\ dev.dma \in BurstStates
    <3>1. Holds
      BY <1>2 DEF Holds
    <3>2. QED
      BY <3>1 DEF CardInv, RequestHeldOnce, D!Active, DeviceShape
  <2>6. dev' = D!Clock(dev, drive, qli, choice) /\ DeviceShape(dev) /\ drive = D!Drive(dev, choice)
    BY DEF CardClock, CardInv
  <2>7. qli.dmaReady \in BOOLEAN
    BY NothingSaid
  <2>8. CASE drive.completionReady
    <3>1. next = Q!Idle
      BY <2>8 DEF Q!FromDmaComplete
    <3>2. qic'.state = Q!Idle /\ qic'.tail = None /\ qic'.suspended = None
      BY <1>1, <2>3, <3>1 DEF Resumes
    <3>3. dev'.dma = None
      <4> HIDE DEF drive, qli
      <4>1. QED
        BY <1>2, <2>4, <2>5, <2>6, <2>7, <2>8, DmaIs DEF ChoiceShape
    <3>4. qic'.state.at = "Idle" /\ ~Holds' /\ ~D!Active(dev')
      BY <3>2, <3>3 DEF Q!Idle, Holds, D!Active
    <3>5. QicShape(qic') /\ AccessHeldOnce' /\ RequestHeldOnce'
      BY <1>1, <3>2, <3>4 DEF QicShape, QicRecord, QicState, AccessHeldOnce, RequestHeldOnce
    <3>6. CardInv'
      BY <1>1, <3>3, <3>5 DEF CardInv
    <3>7. ~Q!NeedsGrant(qic'.state) /\ ~Succeeded(BurstState(qic'))
      BY <3>2, <3>4 DEF Q!NeedsGrant, Succeeded, BurstState
    <3>8. QED
      BY <1>4, <3>6, <3>7 DEF NoNewSuccess
  <2>9. CASE ~drive.completionReady
    <3>1. next = s
      BY <2>9 DEF Q!FromDmaComplete
    <3>2. qic'.state = s /\ qic'.tail = None /\ qic'.suspended = None
      BY <1>1, <1>2, <2>3, <3>1 DEF GoesTo
    <3>3. BurstKept
      <4> HIDE DEF drive, qli
      <4>1. /\ dev'.dma # None /\ dev'.dma.request = dev.dma.request /\ dev'.dma.active
            /\ dev'.dma.moved = IF \/ drive.write # None /\ qli.writeReady
                                   \/ drive.readReady /\ qli.read # None
                                THEN dev.dma.moved + 1 ELSE dev.dma.moved
        BY <2>5, <2>6, <2>7, <2>9, DmaIs DEF ChoiceShape
      <4>2. dev'.dma.moved = dev.dma.moved
        BY <2>4, <4>1
      <4>3. dev'.dma.active \in BOOLEAN /\ dev.dma.active \in BOOLEAN
        BY <1>1, <2>5, <4>1 DEF DeviceShape, BurstStates
      <4>4. QED
        BY <2>5, <4>1, <4>2, <4>3 DEF BurstKept
    <3>4. Holds' /\ (CardBurst(qic, dev.dma) => CardBurst(qic', dev.dma))
      BY <1>1, <1>2, <3>2 DEF Holds, CardBurst, BurstState
    <3>5. CardInv'
      BY <1>1, <1>2, <2>5, <3>2, <3>3, <3>4, OwnWorkKeeps
    <3>6. NoNewSuccess /\ ~Q!NeedsGrant(qic'.state)
      BY <1>1, <1>2, <3>2 DEF NoNewSuccess, BurstState, Q!NeedsGrant
    <3>7. QED
      BY <1>4, <3>5, <3>6
  <2>10. QED
    BY <2>8, <2>9
<1>5. QED
  BY <1>3, <1>4

\* The word of a read the host acknowledges is the next one.
WordComes(bus) ==
  (/\ qic.state.at = "DmaData" /\ qic.state.request.direction = "HostToDevice"
   /\ qic.state.buffer = None /\ bus.ack /\ ~bus.err /\ bus.data # None) =>
    bus.data = D!WordAt(qic.state.completed)

\* What QIC and device have of a burst that moves.
LEMMA MovingBurst ==
  ASSUME CardInv, NEW bus, BusShape(bus), NEW choice, ChoiceShape(choice), CardClock(bus, choice),
         qic.state.at = "DmaData"
  PROVE  LET s == qic.state IN
         /\ QicShape(qic) /\ qic.tail = None /\ qic.suspended = None
         /\ QicRecord(qic') /\ qic'.grantUsed \in BOOLEAN
         /\ DeviceShape(dev') /\ dev'.mmio = None
         /\ s \in DataStates /\ s.request \in DmaRequest /\ s.completed \in Nat /\ s.wait \in Nat
         /\ s.buffer \in Words \cup {None} /\ s.request.words \in Nat \ {0}
         /\ s.request.direction \in {"HostToDevice", "DeviceToHost"}
         /\ Holds /\ D!Active(dev) /\ dev.dma \in BurstStates /\ dev.dma # None /\ dev.dma.active
         /\ dev.dma.moved \in Nat
         /\ WordsMoved(s, dev.dma)
<1> DEFINE s == qic.state
<1>1. /\ QicShape(qic) /\ qic.tail = None /\ qic.suspended = None
      /\ QicRecord(qic') /\ qic'.grantUsed \in BOOLEAN
      /\ DeviceShape(dev') /\ dev'.mmio = None
  BY OwnWork DEF Q!WorkerStates
<1>2. s \in DataStates
  BY <1>1 DEF QicShape, QicState, Q!Idle
<1>3. Holds /\ D!Active(dev)
  BY DEF Holds, CardInv, RequestHeldOnce
<1>4. dev.dma \in BurstStates /\ dev.dma # None /\ dev.dma.active /\ dev.dma.moved \in Nat
  BY <1>3 DEF CardInv, DeviceShape, D!Active, BurstStates
<1>5. WordsMoved(s, dev.dma)
  BY <1>1, <1>4 DEF CardInv, CardBurst, BurstState
<1>6. /\ s.request \in DmaRequest /\ s.completed \in Nat /\ s.wait \in Nat
      /\ s.buffer \in Words \cup {None}
  BY <1>2 DEF DataStates
<1>7. /\ s.request.words \in Nat \ {0} /\ s.request.direction \in {"HostToDevice", "DeviceToHost"}
  BY <1>6, DmaConstants DEF DmaRequest
<1>8. QED
  BY <1>1, <1>2, <1>3, <1>4, <1>5, <1>6, <1>7

\* The burst goes on in a state of the same burst, or is complete: CardInv, if the device's
\* words still fit.
LEMMA BurstMoves ==
  ASSUME DeviceShape(dev'), dev'.mmio = None, QicRecord(qic'),
         qic'.grantUsed \in BOOLEAN, qic'.suspended = None, qic'.tail = None,
         dev'.dma # None, dev'.dma.active,
         \/ /\ qic'.state.at = "DmaData" /\ qic'.state \in DataStates
            /\ WordsMoved(qic'.state, dev'.dma)
         \/ /\ qic'.state.at = "DmaComplete" /\ qic'.state \in DoneStates
            /\ qic'.state.status = "Ok" =>
                 dev'.dma.moved = dev'.dma.request.words /\ qic'.state.completed = dev'.dma.moved
  PROVE  CardInv'
<1>1. QicShape(qic') /\ Holds' /\ D!Active(dev')
  BY DEF QicShape, QicRecord, QicState, Holds, D!Active
<1>2. CardBurst(qic', dev'.dma)
  BY DEF CardBurst, BurstState
<1>3. AccessHeldOnce' /\ RequestHeldOnce'
  BY <1>1 DEF AccessHeldOnce, RequestHeldOnce
<1>4. QED
  BY <1>1, <1>2, <1>3 DEF CardInv

\* What the device does in a clock of its burst, from the QIC's signals.
LEMMA DeviceMoves ==
  ASSUME CardInv, NEW bus, BusShape(bus), NEW choice, ChoiceShape(choice), CardClock(bus, choice),
         qic.state.at = "DmaData", NEW drive, drive = D!Drive(dev, choice),
         NEW qli, qli = Q!ToDevice(qic, bus, drive)
  PROVE  /\ ~qli.dmaReady /\ qli.completion = None
         /\ dev'.dma # None /\ dev'.dma.request = dev.dma.request /\ dev'.dma.active
         /\ dev'.dma.moved = IF \/ drive.write # None /\ qli.writeReady
                                \/ drive.readReady /\ qli.read # None
                             THEN dev.dma.moved + 1 ELSE dev.dma.moved
         /\ ~(drive.write # None /\ qli.writeReady) /\ ~(drive.readReady /\ qli.read # None) => BurstKept
<1>1. dev.dma \in BurstStates /\ dev.dma # None /\ dev.dma.active /\ DeviceShape(dev')
  BY MovingBurst
<1>2. ~qli.dmaReady /\ qli.completion = None /\ qli.dmaReady \in BOOLEAN
  <2>1. ~qli.dmaReady /\ qli.dmaReady \in BOOLEAN
    BY NothingSaid
  <2>2. qli.completion = None
    BY DEF Q!ToDevice
  <2>3. QED
    BY <2>1, <2>2
<1>3. dev' = D!Clock(dev, drive, qli, choice) /\ DeviceShape(dev)
  BY DEF CardClock, CardInv
<1>4. /\ dev'.dma # None /\ dev'.dma.request = dev.dma.request /\ dev'.dma.active
      /\ dev'.dma.moved = IF \/ drive.write # None /\ qli.writeReady
                             \/ drive.readReady /\ qli.read # None
                          THEN dev.dma.moved + 1 ELSE dev.dma.moved
  BY <1>1, <1>2, <1>3, DmaIs DEF ChoiceShape
<1>5. dev'.dma.active = dev.dma.active
  <2>1. dev.dma.active \in BOOLEAN /\ dev'.dma.active \in BOOLEAN
    BY <1>1, <1>4 DEF DeviceShape, BurstStates
  <2>2. QED
    BY <1>1, <1>4, <2>1
<1>6. ~(drive.write # None /\ qli.writeReady) /\ ~(drive.readReady /\ qli.read # None) => BurstKept
  BY <1>1, <1>4, <1>5 DEF BurstKept
<1>7. QED
  BY <1>2, <1>4, <1>6

\* The burst ends in error: the grant is gone, or its time is up.
LEMMA BurstStops ==
  ASSUME CardInv, NEW bus, BusShape(bus), NEW choice, ChoiceShape(choice), CardClock(bus, choice),
         qic.state.at = "DmaData", ~Interrupted(qic, bus), Lost(qic, bus) \/ Q!TimedOut(qic.state.wait)
  PROVE  /\ CardInv' /\ NoNewSuccess /\ ~Q!NeedsGrant(qic'.state)
         /\ qic'.state.at = "DmaComplete" /\ qic'.state.status # "Ok" /\ qic'.tail = None
<1> DEFINE drive == D!Drive(dev, choice)
           qli == Q!ToDevice(qic, bus, drive)
           s == qic.state
<1>1. /\ QicShape(qic) /\ qic.tail = None /\ qic.suspended = None
      /\ QicRecord(qic') /\ qic'.grantUsed \in BOOLEAN
      /\ DeviceShape(dev') /\ dev'.mmio = None /\ s.completed \in Nat
  BY MovingBurst
<1>2. ~qli.writeReady /\ qli.read = None
  BY DEF Q!ToDevice, Lost, Q!NeedsGrant
<1>3. BurstKept
  <2>1. drive = D!Drive(dev, choice) /\ qli = Q!ToDevice(qic, bus, drive)
    OBVIOUS
  <2> HIDE DEF drive, qli
  <2>2. QED
    BY <1>2, <2>1, DeviceMoves
<1>4. \E status \in Statuses : /\ status # "Ok" /\ qic'.state = Q!DmaComplete(status, s.completed)
                               /\ qic'.tail = None /\ qic'.suspended = None
  <2>1. CASE Lost(qic, bus)
    <3>1. Q!LoseGrant(s) = Q!DmaComplete("ProtocolError", s.completed)
      BY DEF Q!LoseGrant
    <3>2. GoesTo(Q!DmaComplete("ProtocolError", s.completed), None)
      BY <1>1, <2>1, <3>1, QicClock
    <3>3. QED
      BY <1>1, <3>2 DEF GoesTo, Statuses
  <2>2. CASE ~Lost(qic, bus) /\ Q!TimedOut(s.wait)
    <3>1. Goes(qic, bus) /\ Now(qic, bus).state = s /\ Aside(qic, drive) = None
      BY <2>2, OwnWork DEF Goes, Q!WorkerStates
    <3>2. Moved(qic, bus, drive) = Q!DmaComplete("Timeout", s.completed)
      BY <2>2, <3>1 DEF Moved, Q!NextState, Q!FromDmaData
    <3>3. Q!DmaComplete("Timeout", s.completed) # Q!Idle
      BY DEF Q!DmaComplete, Q!Idle
    <3>4. GoesTo(Q!DmaComplete("Timeout", s.completed), None)
      BY <3>1, <3>2, <3>3, QicClock
    <3>5. QED
      BY <1>1, <3>4 DEF GoesTo, Statuses
  <2>3. QED
    BY <2>1, <2>2
<1>5. PICK status \in Statuses : /\ status # "Ok" /\ qic'.state = Q!DmaComplete(status, s.completed)
                                 /\ qic'.tail = None /\ qic'.suspended = None
  BY <1>4
<1>6. QED
  BY <1>1, <1>3, <1>5, BurstFails

\* A host-to-device burst: a word is delivered, or the next one comes.
LEMMA ReadWordClock ==
  ASSUME CardInv, NEW bus, BusShape(bus), NEW choice, ChoiceShape(choice), CardClock(bus, choice),
         qic.state.at = "DmaData", Goes(qic, bus), ~Q!TimedOut(qic.state.wait), WordComes(bus),
         qic.state.request.direction = "HostToDevice"
  PROVE  LET s == qic.state IN
         /\ CardInv' /\ qic'.tail = None
         /\ s.buffer # None => NoNewSuccess
         /\ IF s.buffer # None
            THEN \/ /\ qic'.state.at = "DmaData" /\ qic'.state.request = s.request
                    /\ qic'.state.completed = s.completed
                    /\ (Q!FinalReadBuffer(qic'.state) <=> Q!FinalReadBuffer(s))
                 \/ qic'.state.at = "DmaComplete" /\ Q!FinalReadBuffer(s)
            ELSE IF bus.err \/ (bus.ack /\ bus.data = None)
            THEN qic'.state.at = "DmaComplete" /\ qic'.state.status # "Ok"
            ELSE /\ qic'.state.at = "DmaData" /\ qic'.state.request = s.request
                 /\ qic'.state.completed = IF bus.ack THEN s.completed + 1 ELSE s.completed
                 /\ (qic'.state.buffer # None) <=> bus.ack
<1> DEFINE drive == D!Drive(dev, choice)
           qli == Q!ToDevice(qic, bus, drive)
           s == qic.state
           w == [s EXCEPT !.wait = @ + 1]
           words == s.request.words
           next == Q!ReadWord(s, bus, drive)
<1>1. /\ QicShape(qic) /\ qic.tail = None /\ qic.suspended = None
      /\ QicRecord(qic') /\ qic'.grantUsed \in BOOLEAN
      /\ DeviceShape(dev') /\ dev'.mmio = None
      /\ s \in DataStates /\ s.request \in DmaRequest /\ s.completed \in Nat /\ s.wait \in Nat
      /\ s.buffer \in Words \cup {None} /\ words \in Nat \ {0}
      /\ D!Active(dev) /\ dev.dma # None /\ dev.dma.moved \in Nat
      /\ WordsMoved(s, dev.dma)
  BY MovingBurst
<1>2. /\ Moved(qic, bus, drive) = next /\ Aside(qic, drive) = None
  <2>1. Now(qic, bus).state = s /\ Aside(qic, drive) = None
    BY OwnWork DEF Q!WorkerStates
  <2>2. QED
    BY <2>1 DEF Moved, Q!NextState, Q!FromDmaData
<1>3. /\ dev'.dma # None /\ dev'.dma.request = dev.dma.request /\ dev'.dma.active
      /\ dev'.dma.moved = IF drive.readReady /\ s.buffer # None
                          THEN dev.dma.moved + 1 ELSE dev.dma.moved
  <2>1. drive = D!Drive(dev, choice) /\ qli = Q!ToDevice(qic, bus, drive)
    OBVIOUS
  <2>2. ~qli.writeReady
    BY DEF Q!ToDevice
  <2>3. /\ bus.grant \/ Q!FinalReadBuffer(s)
        /\ ~(Q!LocalTail(s) /\ Q!WorkerAddressCycle(bus))
    BY DEF Goes, Lost, Interrupted, Q!NeedsGrant
  <2>4. qli.read = s.buffer
    BY <2>3 DEF Q!ToDevice
  <2> HIDE DEF drive, qli
  <2>5. QED
    BY <2>1, <2>2, <2>4, DeviceMoves
<1>4. /\ s.request = dev.dma.request
      /\ IF s.buffer = None THEN s.completed < words /\ dev.dma.moved = s.completed
         ELSE s.completed \in 1 .. words /\ dev.dma.moved = s.completed - 1
              /\ s.buffer = D!WordAt(dev.dma.moved)
  BY <1>1 DEF WordsMoved
<1>5. drive.readReady \in BOOLEAN
  <2>1. drive.readReady = (D!Active(dev) /\ ~choice.stalls) /\ choice.stalls \in BOOLEAN
    BY DriveIs DEF ChoiceShape
  <2>2. QED
    BY <1>1, <2>1
<1>6. next # Q!Idle => qic'.state = next /\ qic'.tail = None /\ qic'.suspended = None
  BY <1>1, <1>2, QicClock DEF GoesTo
<1>7. /\ w \in DataStates /\ w.at = "DmaData" /\ w.request = s.request
      /\ w.completed = s.completed /\ w.buffer = s.buffer
  BY <1>1 DEF DataStates
<1>8. \A n \in Nat, b \in Words \cup {None} : LET d == Q!DmaData(s.request, n, 0, b) IN
        /\ d \in DataStates /\ d.at = "DmaData" /\ d.request = s.request
        /\ d.completed = n /\ d.buffer = b
  BY <1>1 DEF Q!DmaData, DataStates
<1>9. \A n \in Nat, t \in Statuses : LET d == Q!DmaComplete(t, n) IN
        /\ d \in DoneStates /\ d.at = "DmaComplete" /\ d.status = t /\ d.completed = n
  BY DEF Q!DmaComplete, DoneStates
<1>10. Q!Idle.at = "Idle"
  BY DEF Q!Idle
<1>11. CASE s.buffer # None
  <2>1. next = IF ~drive.readReady THEN w
               ELSE IF s.completed = words THEN Q!DmaComplete("Ok", s.completed)
               ELSE Q!DmaData(s.request, s.completed, 0, None)
    BY <1>11 DEF Q!ReadWord
  <2> HIDE DEF next, drive, w, words
  <2>2. CASE ~drive.readReady
    <3>1. next = w /\ dev'.dma.moved = dev.dma.moved
      BY <1>3, <2>1, <2>2
    <3>2. qic'.state = next /\ qic'.tail = None /\ qic'.suspended = None
      BY <1>6, <1>7, <1>10, <3>1
    <3>3. WordsMoved(qic'.state, dev'.dma)
      BY <1>3, <1>4, <1>7, <1>11, <3>1, <3>2 DEF WordsMoved, words
    <3>4. CardInv'
      BY <1>1, <1>3, <1>7, <3>1, <3>2, <3>3, BurstMoves
    <3>5. /\ qic'.state.at = "DmaData" /\ qic'.state.request = s.request
          /\ qic'.state.completed = s.completed
          /\ (Q!FinalReadBuffer(qic'.state) <=> Q!FinalReadBuffer(s))
      BY <1>7, <3>1, <3>2 DEF Q!FinalReadBuffer
    <3>6. NoNewSuccess
      BY <1>1, <3>2, <3>5 DEF NoNewSuccess, BurstState, Succeeded
    <3>7. QED
      BY <1>11, <3>2, <3>4, <3>5, <3>6
  <2>3. CASE drive.readReady /\ s.completed = words
    <3>1. next = Q!DmaComplete("Ok", s.completed) /\ dev'.dma.moved = dev.dma.moved + 1
      BY <1>3, <1>11, <2>1, <2>3
    <3>2. /\ next \in DoneStates /\ next.at = "DmaComplete" /\ next.status = "Ok"
          /\ next.completed = s.completed
      BY <1>1, <1>9, <3>1 DEF Statuses
    <3>3. qic'.state = next /\ qic'.tail = None /\ qic'.suspended = None
      BY <1>6, <1>10, <3>2
    <3>4. dev'.dma.moved = dev'.dma.request.words /\ qic'.state.completed = dev'.dma.moved
      BY <1>1, <1>3, <1>4, <1>11, <2>3, <3>1, <3>2, <3>3 DEF words
    <3>5. CardInv'
      BY <1>1, <1>3, <3>2, <3>3, <3>4, BurstMoves
    <3>6. Q!FinalReadBuffer(s)
      BY <1>11, <2>3 DEF Q!FinalReadBuffer, words
    <3>7. NoNewSuccess
      BY <1>1, <3>2, <3>3, <3>6 DEF NoNewSuccess, BurstState, Succeeded
    <3>8. QED
      BY <1>11, <3>2, <3>3, <3>5, <3>6, <3>7
  <2>4. CASE drive.readReady /\ s.completed # words
    <3>1. next = Q!DmaData(s.request, s.completed, 0, None) /\ dev'.dma.moved = dev.dma.moved + 1
      BY <1>3, <1>11, <2>1, <2>4
    <3>2. /\ next \in DataStates /\ next.at = "DmaData" /\ next.request = s.request
          /\ next.completed = s.completed /\ next.buffer = None
      BY <1>1, <1>8, <3>1
    <3>3. qic'.state = next /\ qic'.tail = None /\ qic'.suspended = None
      BY <1>6, <1>10, <3>2
    <3>4. WordsMoved(qic'.state, dev'.dma)
      BY <1>1, <1>3, <1>4, <1>11, <2>4, <3>1, <3>2, <3>3 DEF WordsMoved, words
    <3>5. CardInv'
      BY <1>1, <1>3, <3>2, <3>3, <3>4, BurstMoves
    <3>6. ~Q!FinalReadBuffer(qic'.state) /\ ~Q!FinalReadBuffer(s)
      BY <2>4, <3>2, <3>3 DEF Q!FinalReadBuffer, words
    <3>7. NoNewSuccess
      BY <1>1, <3>2, <3>3, <3>6 DEF NoNewSuccess, BurstState, Succeeded
    <3>8. QED
      BY <1>11, <3>2, <3>3, <3>5, <3>6, <3>7
  <2>5. QED
    BY <1>5, <2>2, <2>3, <2>4
<1>12. CASE s.buffer = None
  <2>1. next = IF bus.err THEN Q!DmaComplete("BusError", s.completed)
               ELSE IF bus.ack
               THEN IF bus.data # None THEN Q!DmaData(s.request, s.completed + 1, 0, bus.data)
                    ELSE Q!DmaComplete("ParityError", s.completed)
               ELSE w
    BY <1>12 DEF Q!ReadWord
  <2>2. dev'.dma.moved = dev.dma.moved
    BY <1>3, <1>12
  <2> HIDE DEF next, drive, w, words
  <2>3. CASE bus.err \/ (bus.ack /\ bus.data = None)
    <3>1. next \in {Q!DmaComplete("BusError", s.completed), Q!DmaComplete("ParityError", s.completed)}
      BY <2>1, <2>3
    <3>2. next \in DoneStates /\ next.at = "DmaComplete" /\ next.status # "Ok"
      BY <1>1, <1>9, <3>1 DEF Statuses
    <3>3. qic'.state = next /\ qic'.tail = None /\ qic'.suspended = None
      BY <1>6, <1>10, <3>2
    <3>4. CardInv'
      BY <1>1, <1>3, <3>2, <3>3, BurstMoves
    <3>5. QED
      BY <1>12, <2>3, <3>2, <3>3, <3>4
  <2>4. CASE ~bus.err /\ bus.ack /\ bus.data # None
    <3>1. bus.data = D!WordAt(s.completed)
      BY <1>12, <2>4 DEF WordComes
    <3>2. D!WordAt(s.completed) \in Words
      BY <1>1, CardInputs DEF D!WordAt
    <3>3. next = Q!DmaData(s.request, s.completed + 1, 0, bus.data)
      BY <2>1, <2>4
    <3>4. bus.data \in Words
      BY <3>1, <3>2
    <3>5. /\ next \in DataStates /\ next.at = "DmaData" /\ next.request = s.request
          /\ next.completed = s.completed + 1 /\ next.buffer = bus.data
      BY <1>1, <1>8, <3>3, <3>4
    <3>6. qic'.state = next /\ qic'.tail = None /\ qic'.suspended = None
      BY <1>6, <1>10, <3>5
    <3>7. WordsMoved(qic'.state, dev'.dma)
      BY <1>1, <1>3, <1>4, <1>12, <2>2, <2>4, <3>5, <3>6, <3>1 DEF WordsMoved, words
    <3>8. CardInv'
      BY <1>1, <1>3, <3>5, <3>6, <3>7, BurstMoves
    <3>9. QED
      BY <1>12, <2>4, <3>5, <3>6, <3>8
  <2>5. CASE ~bus.err /\ ~bus.ack
    <3>1. next = w
      BY <2>1, <2>5
    <3>2. qic'.state = next /\ qic'.tail = None /\ qic'.suspended = None
      BY <1>6, <1>7, <1>10, <3>1
    <3>3. WordsMoved(qic'.state, dev'.dma)
      BY <1>3, <1>4, <1>7, <1>12, <2>2, <3>1, <3>2 DEF WordsMoved, words
    <3>4. CardInv'
      BY <1>1, <1>3, <1>7, <3>1, <3>2, <3>3, BurstMoves
    <3>5. QED
      BY <1>7, <1>12, <2>5, <3>1, <3>2, <3>4
  <2>6. QED
    BY <2>3, <2>4, <2>5 DEF BusShape
<1>13. QED
  BY <1>11, <1>12

\* A device-to-host burst: the word in the buffer is acknowledged, or the next one is fetched.
LEMMA WriteWordClock ==
  ASSUME CardInv, NEW bus, BusShape(bus), NEW choice, ChoiceShape(choice), CardClock(bus, choice),
         qic.state.at = "DmaData", Goes(qic, bus), ~Q!TimedOut(qic.state.wait),
         qic.state.request.direction = "DeviceToHost"
  PROVE  LET s == qic.state IN
         /\ CardInv' /\ qic'.tail = None
         /\ ~(s.buffer # None /\ bus.ack /\ ~bus.err) => NoNewSuccess
         /\ IF s.buffer # None /\ bus.err
            THEN qic'.state.at = "DmaComplete" /\ qic'.state.status # "Ok"
            ELSE IF s.buffer # None /\ bus.ack
            THEN IF s.completed + 1 = s.request.words
                 THEN /\ qic'.state.at = "DmaComplete" /\ qic'.state.status = "Ok"
                      /\ qic'.state.completed = s.completed + 1
                 ELSE /\ qic'.state.at = "DmaData" /\ qic'.state.request = s.request
                      /\ qic'.state.completed = s.completed + 1
            ELSE /\ qic'.state.at = "DmaData" /\ qic'.state.request = s.request
                 /\ qic'.state.completed = s.completed
                 /\ s.buffer # None => qic'.state.buffer # None
<1> DEFINE drive == D!Drive(dev, choice)
           qli == Q!ToDevice(qic, bus, drive)
           s == qic.state
           w == [s EXCEPT !.wait = @ + 1]
           words == s.request.words
           next == Q!WriteWord(s, bus, drive)
<1>1. /\ QicShape(qic) /\ qic.tail = None /\ qic.suspended = None
      /\ QicRecord(qic') /\ qic'.grantUsed \in BOOLEAN
      /\ DeviceShape(dev') /\ dev'.mmio = None
      /\ s \in DataStates /\ s.request \in DmaRequest /\ s.completed \in Nat /\ s.wait \in Nat
      /\ s.buffer \in Words \cup {None} /\ words \in Nat \ {0}
      /\ D!Active(dev) /\ dev.dma # None /\ dev.dma.moved \in Nat
      /\ WordsMoved(s, dev.dma)
  BY MovingBurst
<1>2. /\ Moved(qic, bus, drive) = next /\ Aside(qic, drive) = None
  <2>1. Now(qic, bus).state = s /\ Aside(qic, drive) = None
    BY OwnWork DEF Q!WorkerStates
  <2>2. QED
    BY <2>1 DEF Moved, Q!NextState, Q!FromDmaData
<1>3. /\ s.request = dev.dma.request /\ s.completed < words
      /\ IF s.buffer = None THEN dev.dma.moved = s.completed
         ELSE dev.dma.moved = s.completed + 1 /\ s.buffer = D!WordAt(s.completed)
  BY <1>1 DEF WordsMoved
<1>4. /\ dev'.dma # None /\ dev'.dma.request = dev.dma.request /\ dev'.dma.active
      /\ dev'.dma.moved = IF drive.write # None /\ s.buffer = None
                          THEN dev.dma.moved + 1 ELSE dev.dma.moved
  <2>1. drive = D!Drive(dev, choice) /\ qli = Q!ToDevice(qic, bus, drive)
    OBVIOUS
  <2>2. qli.read = None
    BY DEF Q!ToDevice
  <2>3. bus.grant /\ ~Q!FinalReadBuffer(s) /\ ~Q!LocalTail(s)
    BY DEF Goes, Lost, Interrupted, Q!NeedsGrant, Q!FinalReadBuffer, Q!LocalTail
  <2>4. qli.writeReady <=> s.buffer = None
    BY <1>3, <2>3 DEF Q!ToDevice
  <2> HIDE DEF drive, qli
  <2>5. QED
    BY <2>1, <2>2, <2>4, DeviceMoves
<1>5. /\ drive.write # None => drive.write = D!WordAt(dev.dma.moved) /\ drive.write \in Words
  <2>1. drive.write # None => drive.write = D!WordAt(dev.dma.moved)
    BY DriveIs DEF ChoiceShape
  <2>2. D!WordAt(dev.dma.moved) \in Words
    BY <1>1, CardInputs DEF D!WordAt
  <2>3. QED
    BY <2>1, <2>2
<1>6. next # Q!Idle => qic'.state = next /\ qic'.tail = None /\ qic'.suspended = None
  BY <1>1, <1>2, QicClock DEF GoesTo
<1>7. /\ w \in DataStates /\ w.at = "DmaData" /\ w.request = s.request
      /\ w.completed = s.completed /\ w.buffer = s.buffer
  BY <1>1 DEF DataStates
<1>8. \A n \in Nat, b \in Words \cup {None} : LET d == Q!DmaData(s.request, n, 0, b) IN
        /\ d \in DataStates /\ d.at = "DmaData" /\ d.request = s.request
        /\ d.completed = n /\ d.buffer = b
  BY <1>1 DEF Q!DmaData, DataStates
<1>9. \A n \in Nat, t \in Statuses : LET d == Q!DmaComplete(t, n) IN
        /\ d \in DoneStates /\ d.at = "DmaComplete" /\ d.status = t /\ d.completed = n
  BY DEF Q!DmaComplete, DoneStates
<1>10. Q!Idle.at = "Idle"
  BY DEF Q!Idle
<1>11. CASE s.buffer # None
  <2>1. next = IF bus.err THEN Q!DmaComplete("BusError", s.completed)
               ELSE IF ~bus.ack THEN w
               ELSE IF s.completed + 1 = words THEN Q!DmaComplete("Ok", s.completed + 1)
               ELSE Q!DmaData(s.request, s.completed + 1, 0, None)
    BY <1>11 DEF Q!WriteWord
  <2>2. dev'.dma.moved = dev.dma.moved
    BY <1>4, <1>11
  <2> HIDE DEF next, drive, w, words
  <2>3. CASE bus.err
    <3>1. next = Q!DmaComplete("BusError", s.completed)
      BY <2>1, <2>3
    <3>2. next \in DoneStates /\ next.at = "DmaComplete" /\ next.status = "BusError"
      BY <1>1, <1>9, <3>1 DEF Statuses
    <3>3. qic'.state = next /\ qic'.tail = None /\ qic'.suspended = None
      BY <1>6, <1>10, <3>2
    <3>4. CardInv'
      BY <1>1, <1>4, <3>2, <3>3, BurstMoves
    <3>5. NoNewSuccess
      BY <3>2, <3>3 DEF NoNewSuccess, BurstState, Succeeded
    <3>6. QED
      BY <1>11, <2>3, <3>2, <3>3, <3>4, <3>5
  <2>4. CASE ~bus.err /\ ~bus.ack
    <3>1. next = w
      BY <2>1, <2>4
    <3>2. qic'.state = next /\ qic'.tail = None /\ qic'.suspended = None
      BY <1>6, <1>7, <1>10, <3>1
    <3>3. WordsMoved(qic'.state, dev'.dma)
      BY <1>3, <1>4, <1>7, <1>11, <2>2, <3>1, <3>2 DEF WordsMoved, words
    <3>4. CardInv'
      BY <1>1, <1>4, <1>7, <3>1, <3>2, <3>3, BurstMoves
    <3>5. NoNewSuccess
      BY <1>7, <3>1, <3>2 DEF NoNewSuccess, BurstState, Succeeded, Q!FinalReadBuffer
    <3>6. QED
      BY <1>7, <1>11, <2>4, <3>1, <3>2, <3>4, <3>5
  <2>5. CASE ~bus.err /\ bus.ack /\ s.completed + 1 = words
    <3>1. next = Q!DmaComplete("Ok", s.completed + 1)
      BY <2>1, <2>5
    <3>2. /\ next \in DoneStates /\ next.at = "DmaComplete" /\ next.status = "Ok"
          /\ next.completed = s.completed + 1
      BY <1>1, <1>9, <3>1 DEF Statuses
    <3>3. qic'.state = next /\ qic'.tail = None /\ qic'.suspended = None
      BY <1>6, <1>10, <3>2
    <3>4. dev'.dma.moved = dev'.dma.request.words /\ qic'.state.completed = dev'.dma.moved
      BY <1>3, <1>4, <1>11, <2>2, <2>5, <3>2, <3>3 DEF words
    <3>5. CardInv'
      BY <1>1, <1>4, <3>2, <3>3, <3>4, BurstMoves
    <3>6. QED
      BY <1>11, <2>5, <3>2, <3>3, <3>5 DEF words
  <2>6. CASE ~bus.err /\ bus.ack /\ s.completed + 1 # words
    <3>1. next = Q!DmaData(s.request, s.completed + 1, 0, None)
      BY <2>1, <2>6
    <3>2. /\ next \in DataStates /\ next.at = "DmaData" /\ next.request = s.request
          /\ next.completed = s.completed + 1 /\ next.buffer = None
      BY <1>1, <1>8, <3>1
    <3>3. qic'.state = next /\ qic'.tail = None /\ qic'.suspended = None
      BY <1>6, <1>10, <3>2
    <3>4. WordsMoved(qic'.state, dev'.dma)
      BY <1>1, <1>3, <1>4, <1>11, <2>2, <2>6, <3>2, <3>3 DEF WordsMoved, words
    <3>5. CardInv'
      BY <1>1, <1>4, <3>2, <3>3, <3>4, BurstMoves
    <3>6. QED
      BY <1>11, <2>6, <3>2, <3>3, <3>5 DEF words
  <2>7. QED
    BY <2>3, <2>4, <2>5, <2>6 DEF BusShape
<1>12. CASE s.buffer = None
  <2>1. next = IF drive.write # None THEN Q!DmaData(s.request, s.completed, 0, drive.write) ELSE w
    BY <1>12 DEF Q!WriteWord
  <2> HIDE DEF next, drive, w, words
  <2>2. CASE drive.write # None
    <3>1. next = Q!DmaData(s.request, s.completed, 0, drive.write)
      BY <2>1, <2>2
    <3>2. /\ next \in DataStates /\ next.at = "DmaData" /\ next.request = s.request
          /\ next.completed = s.completed /\ next.buffer = drive.write
      BY <1>1, <1>5, <1>8, <2>2, <3>1
    <3>3. qic'.state = next /\ qic'.tail = None /\ qic'.suspended = None
      BY <1>6, <1>10, <3>2
    <3>4. WordsMoved(qic'.state, dev'.dma)
      BY <1>1, <1>3, <1>4, <1>5, <1>12, <2>2, <3>2, <3>3 DEF WordsMoved, words
    <3>5. CardInv'
      BY <1>1, <1>4, <3>2, <3>3, <3>4, BurstMoves
    <3>6. NoNewSuccess
      BY <3>2, <3>3 DEF NoNewSuccess, BurstState, Succeeded, Q!FinalReadBuffer
    <3>7. QED
      BY <1>12, <3>2, <3>3, <3>5, <3>6
  <2>3. CASE drive.write = None
    <3>1. next = w
      BY <2>1, <2>3
    <3>2. qic'.state = next /\ qic'.tail = None /\ qic'.suspended = None
      BY <1>6, <1>7, <1>10, <3>1
    <3>3. WordsMoved(qic'.state, dev'.dma)
      BY <1>3, <1>4, <1>7, <1>12, <2>3, <3>1, <3>2 DEF WordsMoved, words
    <3>4. CardInv'
      BY <1>1, <1>4, <1>7, <3>1, <3>2, <3>3, BurstMoves
    <3>5. NoNewSuccess
      BY <1>7, <3>1, <3>2 DEF NoNewSuccess, BurstState, Succeeded, Q!FinalReadBuffer
    <3>6. QED
      BY <1>7, <1>12, <3>1, <3>2, <3>4, <3>5
  <2>4. QED
    BY <2>2, <2>3
<1>13. QED
  BY <1>11, <1>12

\* A clock of a burst in which the host says nothing.
Waits(s) ==
  \/ qic'.state.at = "DmaComplete" /\ qic'.state.status # "Ok"
  \/ /\ qic'.state.at = "DmaData" /\ qic'.state.request = s.request
     /\ qic'.state.completed = s.completed /\ ~Q!FinalReadBuffer(qic'.state)
     /\ s.request.direction = "DeviceToHost" /\ s.buffer # None => qic'.state.buffer # None

\* A burst moves.
LEMMA DmaDataClock ==
  ASSUME CardInv, NEW bus, BusShape(bus), NEW choice, ChoiceShape(choice), CardClock(bus, choice),
         qic.state.at = "DmaData", WordComes(bus),
         qic.state.request.direction = "DeviceToHost" /\ qic.state.buffer = None => ~bus.ack
  PROVE  LET s == qic.state IN
         /\ CardInv' /\ Releases(bus)
         /\ ~bus.ack \/ Q!FinalReadBuffer(s) => NoNewSuccess
         /\ Q!FinalReadBuffer(s) => ~Q!NeedsGrant(qic'.state)
         /\ (/\ Q!FinalReadBuffer(s) /\ Q!WorkerAddressCycle(bus) /\ bus.address.valid) =>
              qic'.state = Q!StartWorker(bus)
         /\ ~Q!FinalReadBuffer(s) => qic'.tail = None
         /\ ~Q!FinalReadBuffer(s) /\ bus.grant /\ ~bus.ack /\ ~bus.err => Waits(s)
         /\ (/\ ~Q!FinalReadBuffer(s) /\ bus.grant /\ bus.ack
             /\ s.request.direction = "DeviceToHost" /\ s.buffer # None) =>
              \/ qic'.state.at = "DmaComplete" /\ qic'.state.status # "Ok"
              \/ /\ ~bus.err /\ qic'.state.at = "DmaComplete"
                 /\ qic'.state.completed = s.completed + 1 /\ s.completed + 1 = s.request.words
              \/ /\ ~bus.err /\ qic'.state.at = "DmaData" /\ qic'.state.request = s.request
                 /\ qic'.state.completed = s.completed + 1
         /\ (/\ ~Q!FinalReadBuffer(s) /\ bus.grant /\ bus.ack
             /\ s.request.direction = "HostToDevice" /\ s.buffer = None) =>
              \/ qic'.state.at = "DmaComplete" /\ qic'.state.status # "Ok"
              \/ /\ ~bus.err /\ qic'.state.at = "DmaData" /\ qic'.state.request = s.request
                 /\ qic'.state.completed = s.completed + 1
<1> DEFINE s == qic.state
           final == Q!FinalReadBuffer(s)
<1>1. /\ s.request.direction \in {"HostToDevice", "DeviceToHost"} /\ s.completed \in Nat
      /\ QicShape(qic) /\ qic.tail = None
  BY MovingBurst
<1>2. /\ Interrupted(qic, bus) => final /\ Q!WorkerAddressCycle(bus)
      /\ Q!LocalTail(s) <=> final
      /\ final => s.request.direction = "HostToDevice" /\ s.buffer # None
      /\ Q!NeedsGrant(s) <=> ~final
      /\ Lost(qic, bus) => ~final /\ ~bus.grant
  BY DEF Interrupted, Q!LocalTail, Q!FinalReadBuffer, Lost, Q!NeedsGrant
<1>3. CASE final /\ Q!WorkerAddressCycle(bus)
  <2>1. Q!LocalTail(s)
    BY <1>2, <1>3
  <2>2. /\ CardInv' /\ NoNewSuccess /\ ~Q!NeedsGrant(qic'.state)
        /\ bus.address.valid => qic'.state = Q!StartWorker(bus)
    BY <1>3, <2>1, TailPutAside
  <2>3. QED
    BY <1>3, <2>2 DEF Releases
<1>4. CASE ~(final /\ Q!WorkerAddressCycle(bus)) /\ (Lost(qic, bus) \/ Q!TimedOut(s.wait))
  <2>1. ~Interrupted(qic, bus)
    BY <1>2, <1>4
  <2>2. /\ CardInv' /\ NoNewSuccess /\ ~Q!NeedsGrant(qic'.state)
        /\ qic'.state.at = "DmaComplete" /\ qic'.state.status # "Ok" /\ qic'.tail = None
    BY <1>4, <2>1, BurstStops
  <2>3. QED
    BY <1>4, <2>2 DEF Releases, Waits
<1>5. CASE ~(final /\ Q!WorkerAddressCycle(bus)) /\ ~Lost(qic, bus) /\ ~Q!TimedOut(s.wait)
  <2>1. ~Interrupted(qic, bus) /\ Goes(qic, bus)
    BY <1>2, <1>5 DEF Goes
  <2>2. final \/ bus.grant
    BY <1>2, <1>5, <2>1 DEF Lost
  <2>3. CASE s.request.direction = "HostToDevice" /\ s.buffer # None
    <3>1. /\ CardInv' /\ qic'.tail = None /\ NoNewSuccess
          /\ \/ /\ qic'.state.at = "DmaData" /\ qic'.state.request = s.request
                /\ qic'.state.completed = s.completed
                /\ Q!FinalReadBuffer(qic'.state) <=> final
             \/ qic'.state.at = "DmaComplete" /\ final
      BY <1>5, <2>1, <2>3, ReadWordClock
    <3>2. Releases(bus) /\ (final => ~Q!NeedsGrant(qic'.state))
      BY <2>2, <3>1 DEF Releases, Q!NeedsGrant
    <3>3. ~final => Waits(s)
      BY <2>3, <3>1 DEF Waits
    <3> HIDE DEF final
    <3>4. QED
      BY <1>5, <2>3, <3>1, <3>2, <3>3 DEF final
  <2>4. CASE s.request.direction = "HostToDevice" /\ s.buffer = None
    <3>1. ~final /\ bus.grant
      BY <1>2, <2>2, <2>4
    <3>2. /\ CardInv' /\ qic'.tail = None
          /\ IF bus.err \/ (bus.ack /\ bus.data = None)
             THEN qic'.state.at = "DmaComplete" /\ qic'.state.status # "Ok"
             ELSE /\ qic'.state.at = "DmaData" /\ qic'.state.request = s.request
                  /\ qic'.state.completed = IF bus.ack THEN s.completed + 1 ELSE s.completed
                  /\ (qic'.state.buffer # None) <=> bus.ack
      BY <1>5, <2>1, <2>4, ReadWordClock
    <3>3. ~bus.ack => /\ ~Succeeded(qic'.state)
                      /\ qic'.state.at = "DmaData" => ~Q!FinalReadBuffer(qic'.state)
      BY <3>2 DEF Succeeded, Q!FinalReadBuffer
    <3>4. ~bus.ack => NoNewSuccess
      BY <3>2, <3>3 DEF NoNewSuccess, BurstState
    <3>5. ~bus.ack /\ ~bus.err => Waits(s)
      BY <2>4, <3>2, <3>3 DEF Waits
    <3> HIDE DEF final
    <3>6. QED
      BY <2>4, <3>1, <3>2, <3>4, <3>5 DEF Releases, final
  <2>5. CASE s.request.direction = "DeviceToHost"
    <3>1. ~final /\ bus.grant
      BY <1>2, <2>2, <2>5
    <3>2. /\ CardInv' /\ qic'.tail = None
          /\ ~(s.buffer # None /\ bus.ack /\ ~bus.err) => NoNewSuccess
          /\ IF s.buffer # None /\ bus.err
             THEN qic'.state.at = "DmaComplete" /\ qic'.state.status # "Ok"
             ELSE IF s.buffer # None /\ bus.ack
             THEN IF s.completed + 1 = s.request.words
                  THEN /\ qic'.state.at = "DmaComplete" /\ qic'.state.status = "Ok"
                       /\ qic'.state.completed = s.completed + 1
                  ELSE /\ qic'.state.at = "DmaData" /\ qic'.state.request = s.request
                       /\ qic'.state.completed = s.completed + 1
             ELSE /\ qic'.state.at = "DmaData" /\ qic'.state.request = s.request
                  /\ qic'.state.completed = s.completed
                  /\ s.buffer # None => qic'.state.buffer # None
      BY <1>5, <2>1, <2>5, WriteWordClock
    <3>3. ~bus.ack /\ ~bus.err => Waits(s)
      BY <2>5, <3>2 DEF Waits, Q!FinalReadBuffer
    <3> HIDE DEF final
    <3>4. QED
      BY <2>5, <3>1, <3>2, <3>3 DEF Releases, final
  <2>6. QED
    BY <1>1, <2>3, <2>4, <2>5
<1>6. QED
  BY <1>3, <1>4, <1>5

\* A register access ends no burst, and its clocks need no grant.
LEMMA AccessIsAside ==
  ASSUME CardInv, qic.state.at \in Q!WorkerStates, NEW u,
         \/ Resumes(u)
         \/ qic'.state.at \in Q!WorkerStates /\ qic'.tail = qic.tail
  PROVE  NoNewSuccess /\ ~Q!NeedsGrant(qic'.state)
<1>1. QicShape(qic) /\ (qic.tail # None => qic.tail.at \in {"DmaData", "DmaComplete"})
  BY DEF CardInv, QicShape
<1>2. CASE Resumes(u)
  <2>1. ~Q!NeedsGrant(qic'.state)
    BY <1>2, ResumedState
  <2>2. CASE qic.tail # None
    BY <1>2, <2>1, <2>2 DEF Resumes, NoNewSuccess, BurstState
  <2>3. CASE qic.tail = None
    <3>1. qic'.tail = None /\ qic'.state \in {Q!Idle, Q!RequestBus(u)}
      BY <1>2, <2>3 DEF Resumes
    <3>2. qic'.state.at \in {"Idle", "RequestBus"}
      BY <3>1 DEF Q!Idle, Q!RequestBus
    <3>3. ~Succeeded(BurstState(qic'))
      BY <3>1, <3>2 DEF Succeeded, BurstState
    <3>4. QED
      BY <2>1, <3>3 DEF NoNewSuccess
  <2>4. QED
    BY <2>2, <2>3
<1>3. CASE qic'.state.at \in Q!WorkerStates /\ qic'.tail = qic.tail
  <2>1. ~Q!NeedsGrant(qic'.state)
    BY <1>3 DEF Q!NeedsGrant, Q!WorkerStates
  <2>2. CASE qic.tail # None
    BY <1>3, <2>1, <2>2 DEF NoNewSuccess, BurstState
  <2>3. CASE qic.tail = None
    BY <1>3, <2>1, <2>3 DEF NoNewSuccess, BurstState, Succeeded, Q!WorkerStates
  <2>4. QED
    BY <2>2, <2>3
<1>4. QED
  BY <1>2, <1>3

\* One clock of the card, whatever it does: CardInv is kept, a card without the grant is left
\* needing none, a valid address is taken by a card that answers it, and a burst can only
\* succeed in a clock with ACK.
LEMMA CardKeeps ==
  ASSUME CardInv, NEW bus, BusShape(bus), NEW choice, ChoiceShape(choice), CardClock(bus, choice),
         WordComes(bus),
         (/\ qic.state.at = "DmaData" /\ qic.state.request.direction = "DeviceToHost"
          /\ qic.state.buffer = None) => ~bus.ack
  PROVE  /\ CardInv' /\ Releases(bus)
         /\ ~Q!NeedsGrant(qic.state) /\ Q!NeedsGrant(qic'.state) =>
              qic'.state.at \in {"DmaAddress", "NotificationAddress"}
         /\ ~bus.ack \/ ~(CardInBurst /\ ~Q!FinalReadBuffer(qic.state)) => NoNewSuccess
         /\ (/\ qic.state.at \notin Q!WorkerStates /\ Q!AnswersAddress(qic.state)
             /\ Q!WorkerAddressCycle(bus) /\ bus.address.valid) => qic'.state = Q!StartWorker(bus)
<1>1. QicState(qic.state)
  BY DEF CardInv, QicShape
<1>2. CASE qic.state.at \in {"WorkerReadData", "WorkerWriteData"}
  <2>1. CardInv' /\ qic.state.at \in Q!WorkerStates
    BY <1>2, WorkerDataClock DEF Q!WorkerStates
  <2>2. \/ Resumes(qic.suspended)
        \/ qic'.state.at \in Q!WorkerStates /\ qic'.tail = qic.tail
    BY <1>2, WorkerDataClock
  <2>3. NoNewSuccess /\ ~Q!NeedsGrant(qic'.state)
    BY <2>1, <2>2, AccessIsAside
  <2>4. QED
    BY <2>1, <2>3 DEF Releases
<1>3. CASE qic.state.at \in {"WorkerOffer", "WorkerResponse"}
  <2> DEFINE u == Aside(qic, D!Drive(dev, choice))
  <2>1. qic.state.at \in Q!WorkerStates
    BY <1>3 DEF Q!WorkerStates
  <2>2. /\ CardInv'
        /\ \/ Resumes(u)
           \/ qic'.state.at = "WorkerResponse" /\ qic'.tail = qic.tail
    <3>1. CASE qic.state.at = "WorkerOffer"
      BY <3>1, WorkerOfferClock
    <3>2. CASE qic.state.at = "WorkerResponse"
      BY <3>2, WorkerResponseClock
    <3>3. QED
      BY <1>3, <3>1, <3>2
  <2> HIDE DEF u
  <2>3. \/ Resumes(u)
        \/ qic'.state.at \in Q!WorkerStates /\ qic'.tail = qic.tail
    BY <2>2 DEF Q!WorkerStates
  <2>4. NoNewSuccess /\ ~Q!NeedsGrant(qic'.state)
    BY <2>1, <2>3, AccessIsAside
  <2>5. QED
    BY <2>1, <2>2, <2>4 DEF Releases
<1>4. CASE qic.state.at = "Idle"
  BY <1>4, IdleClock DEF Releases
<1>5. CASE qic.state.at = "RequestBus"
  BY <1>5, RequestBusClock DEF Releases
<1>6. CASE qic.state.at = "DmaAddress"
  <2>1. ~Q!AnswersAddress(qic.state) /\ Q!NeedsGrant(qic.state)
    BY <1>6 DEF Q!AnswersAddress, Q!LocalTail, Q!NeedsGrant
  <2>2. QED
    BY <1>6, <2>1, DmaAddressClock
<1>7. CASE qic.state.at \in {"NotificationAddress", "NotificationData"}
  <2>1. ~Q!AnswersAddress(qic.state) /\ Q!NeedsGrant(qic.state)
    BY <1>7 DEF Q!AnswersAddress, Q!LocalTail, Q!NeedsGrant
  <2>2. QED
    BY <1>7, <2>1, NotificationClock
<1>8. CASE qic.state.at = "DmaComplete"
  BY <1>8, DmaCompleteClock DEF Releases
<1>9. CASE qic.state.at = "DmaData"
  <2>1. /\ Q!AnswersAddress(qic.state) <=> Q!FinalReadBuffer(qic.state)
        /\ Q!NeedsGrant(qic.state) <=> ~Q!FinalReadBuffer(qic.state)
    BY <1>9 DEF Q!AnswersAddress, Q!LocalTail, Q!NeedsGrant
  <2>2. /\ CardInv' /\ Releases(bus)
        /\ ~bus.ack \/ Q!FinalReadBuffer(qic.state) => NoNewSuccess
        /\ Q!FinalReadBuffer(qic.state) => ~Q!NeedsGrant(qic'.state)
        /\ (/\ Q!FinalReadBuffer(qic.state) /\ Q!WorkerAddressCycle(bus) /\ bus.address.valid) =>
              qic'.state = Q!StartWorker(bus)
    BY <1>9, DmaDataClock
  <2>3. QED
    BY <1>9, <2>1, <2>2 DEF CardInBurst
<1>10. QED
  BY <1>1, <1>2, <1>3, <1>4, <1>5, <1>6, <1>7, <1>8, <1>9 DEF QicState, Q!Idle

-----------------------------------------------------------------------------
(* The words of the host's burst.                                           *)

\* The engine e has d's burst with the words d has in hand.
SameWords(d, e) ==
  /\ e.active.total = d.active.total
  /\ e.active.pendingWrite = d.active.pendingWrite /\ e.active.readData = d.active.readData

LEMMA WaitWords ==
  ASSUME NEW d, WellFormed(d), d.active # None
  PROVE  Failed(WaitCycle(d)) \/ SameWords(d, WaitCycle(d))
<1>1. d \in Engine /\ d.active \in Burst
  BY DEF WellFormed, Engine
<1>2. CASE d.active.wait + 1 >= Timeout
  BY <1>1, <1>2, AbortWell DEF WaitCycle, DmaErrors
<1>3. CASE ~(d.active.wait + 1 >= Timeout)
  <2> DEFINE a == [d.active EXCEPT !.wait = @ + 1]
  <2>1. WaitCycle(d).active = a
    BY <1>1, <1>3 DEF WaitCycle, Engine
  <2>2. a.total = d.active.total /\ a.pendingWrite = d.active.pendingWrite /\ a.readData = d.active.readData
    BY <1>1 DEF Burst
  <2> HIDE DEF a
  <2>3. QED
    BY <2>1, <2>2 DEF SameWords
<1>4. QED
  BY <1>2, <1>3

LEMMA AcceptedWords ==
  ASSUME NEW d, WellFormed(d), d.active # None
  PROVE  SameWords(d, MemoryRequestAccepted(d))
<1> DEFINE a == [d.active EXCEPT !.wait = 0]
<1>1. d \in Engine /\ d.active \in Burst
  BY DEF WellFormed, Engine
<1>2. MemoryRequestAccepted(d).active = a
  BY <1>1 DEF MemoryRequestAccepted, Engine
<1>3. a.total = d.active.total /\ a.pendingWrite = d.active.pendingWrite /\ a.readData = d.active.readData
  BY <1>1 DEF Burst
<1> HIDE DEF a
<1>4. QED
  BY <1>2, <1>3 DEF SameWords

LEMMA OfferWords ==
  ASSUME NEW d, WellFormed(d), d.active # None, NEW word \in Words, NEW parityOk \in BOOLEAN
  PROVE  LET e == OfferDeviceWrite(d, word, parityOk) IN
         Failed(e) \/ (e.active.total = d.active.total /\ e.active.pendingWrite = word)
<1> DEFINE e == OfferDeviceWrite(d, word, parityOk)
           a == [d.active EXCEPT !.pendingWrite = word, !.wait = 0]
<1>1. d \in Engine /\ d.active \in Burst
  BY DEF WellFormed, Engine
<1>2. CASE ~parityOk \/ d.active.revokePending
  BY <1>1, <1>2, AbortWell DEF OfferDeviceWrite, DmaErrors
<1>3. CASE parityOk /\ ~d.active.revokePending
  <2>1. e.active = a
    BY <1>1, <1>3 DEF OfferDeviceWrite, Engine
  <2>2. a.total = d.active.total /\ a.pendingWrite = word
    BY <1>1 DEF Burst
  <2> HIDE DEF a, e
  <2>3. QED
    BY <2>1, <2>2 DEF e, Failed
<1>4. QED
  BY <1>2, <1>3

\* A beat that is done leaves no word in hand, and the burst is complete with its last.
LEMMA BeatWords ==
  ASSUME NEW d, WellFormed(d), d.active # None, NEW next \in {"MemRequest", "AwaitDeviceWrite"}
  PROVE  LET e == BeatDone(d, next) IN
         \/ Failed(e)
         \/ e.active = None /\ d.active.acknowledged + 1 = d.active.total
         \/ /\ e.active # None /\ e.active.total = d.active.total
            /\ e.active.pendingWrite = None
<1> DEFINE n == d.active.acknowledged + 1
           a == [d.active EXCEPT !.acknowledged = @ + 1, !.pendingWrite = None, !.readData = None,
                                 !.wait = 0, !.address = (@ + WordBytes) % AddrSpace]
           e == BeatDone(d, next)
<1>1. d \in Engine /\ d.active \in Burst /\ n \in Nat
  BY DEF WellFormed, Engine, Burst
<1>2. /\ a.total = d.active.total /\ a.pendingWrite = None /\ a.acknowledged = n
      /\ a.revokePending = d.active.revokePending
  BY <1>1 DEF Burst
<1>3. a \in Burst
  <2>1. (d.active.address + WordBytes) % AddrSpace \in Nat
    BY <1>1, DmaConstants, Division DEF Burst, WordBytes
  <2>2. QED
    BY <1>1, <2>1 DEF Burst
<1>4. a # None
  BY <1>3, NoneIsFresh
<1>5. e = IF a.revokePending THEN Abort(d, "Revoked")
          ELSE IF a.acknowledged = a.total THEN FinishOk(d, a.acknowledged)
          ELSE [d EXCEPT !.active = a, !.state = next]
  BY DEF BeatDone
<1> HIDE DEF a, e
<1>6. CASE a.revokePending
  <2>1. e = Abort(d, "Revoked")
    BY <1>5, <1>6
  <2>2. Failed(Abort(d, "Revoked"))
    BY <1>1, AbortWell DEF DmaErrors
  <2>3. Failed(e)
    BY <2>1, <2>2
  <2>4. QED
    BY <2>3 DEF e
<1>7. CASE ~a.revokePending /\ a.acknowledged = a.total
  <2>1. e = FinishOk(d, n) /\ n = d.active.total
    BY <1>2, <1>5, <1>7
  <2>2. FinishOk(d, n).active = None
    BY <1>1, FinishOkFacts
  <2>3. e.active = None
    BY <2>1, <2>2
  <2>4. QED
    BY <2>1, <2>3 DEF e
<1>8. CASE ~a.revokePending /\ a.acknowledged # a.total
  <2>1. e.active = a
    BY <1>1, <1>5, <1>8 DEF Engine
  <2>2. QED
    BY <1>2, <1>4, <2>1 DEF e
<1>9. QED
  BY <1>6, <1>7, <1>8

LEMMA ReadWords ==
  ASSUME NEW d, WellFormed(d), d.active # None, NEW response, d.active.direction = "DeviceRead",
         response.kind = "ReadData"
  PROVE  LET e == MemoryResponse(d, response) IN
         /\ e.active.total = d.active.total /\ e.active.pendingWrite = d.active.pendingWrite
         /\ e.active.readData = response.value
<1> DEFINE a == [d.active EXCEPT !.readData = response.value, !.wait = 0]
<1>1. d \in Engine /\ d.active \in Burst
  BY DEF WellFormed, Engine
<1>2. MemoryResponse(d, response).active = a
  BY <1>1 DEF MemoryResponse, Engine
<1>3. a.total = d.active.total /\ a.pendingWrite = d.active.pendingWrite /\ a.readData = response.value
  BY <1>1 DEF Burst
<1> HIDE DEF a
<1>4. QED
  BY <1>2, <1>3

LEMMA RevokeWords ==
  ASSUME NEW d, WellFormed(d), d.active # None, NEW s, NEW c
  PROVE  SameWords(d, Revoke(d, s, c))
<1> DEFINE a == [d.active EXCEPT !.revokePending = TRUE]
<1>1. d \in Engine /\ d.active \in Burst
  BY DEF WellFormed, Engine
<1>2. Revoke(d, s, c).active \in {a, d.active}
  BY <1>1 DEF Revoke, Engine
<1>3. a.total = d.active.total /\ a.pendingWrite = d.active.pendingWrite /\ a.readData = d.active.readData
  BY <1>1 DEF Burst
<1> HIDE DEF a
<1>4. QED
  BY <1>2, <1>3 DEF SameWords

LEMMA StartWords ==
  ASSUME NEW d, WellFormed(d), NEW s, NEW words, NEW dir, NEW handle
  PROVE  LET e == Start(d, s, handle, words, dir) IN
         /\ e.active.total = words /\ e.active.pendingWrite = None
         /\ e.state = IF dir = "DeviceRead" THEN "MemRequest" ELSE "AwaitDeviceWrite"
  BY DEF Start, WellFormed, Engine

-----------------------------------------------------------------------------
(* The bus between controller and card.                                     *)

\* What the card is shown, before and with the controller's answer.
LEMMA BusIs ==
  ASSUME CoreInv, HCInv, NEW flip \in BOOLEAN, NEW off, off = Offered(flip),
         NEW bus, bus = Answered(flip), out'.ack \in BOOLEAN, out'.err \in BOOLEAN
  PROVE  LET working == epoch.role = "Worker" /\ epoch.slot = Card
             access  == [register |-> worker.request.register, write |-> worker.request.write] IN
         /\ BusShape(bus)
         /\ off.grant = bus.grant /\ (bus.grant <=> epoch.role \in CardRoles)
         /\ bus.ack = out'.ack /\ bus.err = out'.err
         /\ off.selected = bus.selected /\ off.address = bus.address /\ off.dataStrobe = bus.dataStrobe
         /\ Q!WorkerAddressCycle(bus) <=> working /\ worker.state = "Address"
         /\ Q!WorkerAddressCycle(bus) =>
              /\ bus.address.valid
              /\ bus.address.register = access.register /\ bus.address.write = access.write
         /\ bus.dataStrobe <=> working /\ worker.state = "Data"
         /\ dma.state # "DeviceReadReady" => bus.data = off.data
         /\ dma.state = "DeviceReadReady" => bus.data \in {None, D!WordAt(dma.active.acknowledged)}
<1> DEFINE working == epoch.role = "Worker" /\ epoch.slot = Card
           request == worker.request
           address == [register |-> request.register, write |-> request.write, valid |-> TRUE]
           ad == IF working /\ worker.state = "Address" THEN address ELSE None
           grant == epoch.role \in CardRoles /\ epoch.slot = Card
           strobe == working /\ worker.state = "Data"
           word == IF ~flip /\ working /\ request.write THEN "Word" ELSE None
           data == IF ~flip /\ dma.state = "DeviceReadReady" THEN dma.active.readData ELSE word
<1>1. off = [reset |-> FALSE, selected |-> working, grant |-> grant, address |-> ad,
             dataStrobe |-> strobe, data |-> word, ack |-> FALSE, err |-> FALSE]
  BY DEF Offered, CardRoles
<1>2. bus = [off EXCEPT !.ack  = out'.ack, !.err  = out'.err,
               !.data = IF ~flip /\ dma.state = "DeviceReadReady" THEN dma.active.readData ELSE @]
  BY DEF Answered
<1>3. working \in BOOLEAN /\ grant \in BOOLEAN /\ strobe \in BOOLEAN
  OBVIOUS
<1>4. working => request \in WorkerRequest
  <2>1. worker \in WorkerEngine
    BY DEF CoreInv, TypeOK
  <2>2. working => request # None
    BY DEF HCInv, BusAgrees
  <2>3. QED
    BY <2>1, <2>2 DEF WorkerEngine
<1>5. working => address \in AddressPhases /\ address # None
  <2>1. working => request.register \in Registers /\ request.write \in BOOLEAN
    BY <1>4 DEF WorkerRequest
  <2>2. working => address \in AddressPhases
    BY <2>1 DEF AddressPhases
  <2>3. QED
    BY <2>2, NoneIsNoValue
<1>6. address.valid /\ address.register = request.register /\ address.write = request.write
  OBVIOUS
<1>7. grant <=> epoch.role \in CardRoles
  BY DEF HCInv, BusAgrees, CardRoles
<1>8. dma.state = "DeviceReadReady" =>
        /\ ~working /\ word = None
        /\ dma.active # None => dma.active.readData = D!WordAt(dma.active.acknowledged)
  BY DEF HCInv, HostWords
<1>9. dma.state = "DeviceReadReady" => dma.active # None
  BY DEF CoreInv, WellFormed
<1> HIDE DEF working, grant, strobe, address, word, ad, request
<1>10. bus = [reset |-> FALSE, selected |-> working, grant |-> grant, address |-> ad,
             dataStrobe |-> strobe, data |-> data, ack |-> out'.ack, err |-> out'.err]
  <2> DEFINE d == IF ~flip /\ dma.state = "DeviceReadReady" THEN dma.active.readData ELSE off.data
  <2>1. bus = [off EXCEPT !.ack  = out'.ack, !.err  = out'.err, !.data = d]
    BY <1>2
  <2>2. d = data
    BY <1>1
  <2> DEFINE off2 == [reset |-> FALSE, selected |-> working, grant |-> grant, address |-> ad,
                      dataStrobe |-> strobe, data |-> word, ack |-> FALSE, err |-> FALSE]
             bus2 == [off2 EXCEPT !.ack  = out'.ack, !.err  = out'.err, !.data = d]
  <2>3. bus = bus2
    BY <1>1, <2>1
  <2> HIDE DEF d, data
  <2>4. bus = [reset |-> FALSE, selected |-> working, grant |-> grant, address |-> ad,
               dataStrobe |-> strobe, data |-> d, ack |-> out'.ack, err |-> out'.err]
    BY <2>3
  <2>5. QED
    BY <2>2, <2>4
<1> HIDE DEF data
<1>11. /\ bus.reset = FALSE /\ bus.selected = working /\ bus.grant = grant /\ bus.address = ad
       /\ bus.dataStrobe = strobe /\ bus.data = data /\ bus.ack = out'.ack /\ bus.err = out'.err
       /\ off.selected = working /\ off.grant = grant /\ off.address = ad
       /\ off.dataStrobe = strobe /\ off.data = word
  BY <1>1, <1>10
<1>12. BusShape(bus)
  BY <1>3, <1>5, <1>11 DEF BusShape, ad
<1>13. Q!WorkerAddressCycle(bus) <=> working /\ worker.state = "Address"
  BY <1>3, <1>5, <1>11 DEF Q!WorkerAddressCycle, ad
<1>14. dma.state # "DeviceReadReady" => bus.data = off.data
  BY <1>11 DEF data
<1>15. dma.state = "DeviceReadReady" => bus.data \in {None, D!WordAt(dma.active.acknowledged)}
  BY <1>8, <1>9, <1>11 DEF data
<1>16. bus.dataStrobe <=> working /\ worker.state = "Data"
  BY <1>11 DEF strobe
<1>17. Q!WorkerAddressCycle(bus) => bus.address = address
  BY <1>11, <1>13 DEF ad
<1>18. bus.grant <=> epoch.role \in CardRoles
  BY <1>7, <1>11
<1>19. QED
  BY <1>6, <1>11, <1>12, <1>13, <1>14, <1>15, <1>16, <1>17, <1>18 DEF working, request

\* What the card strobes tells its state.
LEMMA StrobeIs ==
  ASSUME NEW off, NEW s, NEW strobe, strobe = Q!Strobe(s, off), strobe # None
  PROVE  /\ ~Q!TimedOut(s.wait)
         /\ strobe.kind = "HostDma" => s.at = "DmaAddress" /\ strobe.value = s.request
         /\ strobe.kind = "Controller" => s.at = "NotificationAddress" /\ strobe.value = s.request
         /\ strobe.kind = "Data" =>
              \/ s.at = "NotificationData"
              \/ /\ s.at = "DmaData" /\ strobe.value = s.buffer
                 /\ IF s.request.direction = "HostToDevice"
                    THEN s.buffer = None /\ s.completed < s.request.words
                    ELSE s.buffer # None
<1>1. /\ s.at \in {"DmaAddress", "DmaData", "NotificationAddress", "NotificationData"}
      /\ ~Q!TimedOut(s.wait)
  BY DEF Q!Strobe
<1>2. CASE s.at = "DmaAddress"
  <2>1. strobe = [kind |-> "HostDma", value |-> s.request]
    BY <1>1, <1>2 DEF Q!Strobe
  <2>2. QED
    BY <1>1, <1>2, <2>1
<1>3. CASE s.at = "NotificationAddress"
  <2>1. strobe = [kind |-> "Controller", value |-> s.request]
    BY <1>1, <1>3 DEF Q!Strobe
  <2>2. QED
    BY <1>1, <1>3, <2>1
<1>4. CASE s.at = "NotificationData"
  <2>1. strobe = [kind |-> "Data", value |-> None]
    BY <1>1, <1>4 DEF Q!Strobe
  <2>2. QED
    BY <1>1, <1>4, <2>1
<1>5. CASE s.at = "DmaData"
  <2>1. /\ strobe = [kind |-> "Data", value |-> s.buffer]
        /\ IF s.request.direction = "HostToDevice"
           THEN s.buffer = None /\ s.completed < s.request.words ELSE s.buffer # None
    BY <1>1, <1>5 DEF Q!Strobe
  <2>2. QED
    BY <1>1, <1>5, <2>1
<1>6. QED
  BY <1>1, <1>2, <1>3, <1>4, <1>5

\* A success at the card stays accounted for while no new one comes.
LEMMA SuccessKept ==
  ASSUME SuccessAgrees, NoNewSuccess,
         epoch.role = "Dma" \/ (seen'.acks = seen.acks /\ seen'.commits = seen.commits)
  PROVE  epoch'.role # "Dma" \/ epoch.role = "Dma" => SuccessAgrees'
  BY DEF SuccessAgrees, NoNewSuccess

\* The transaction is over.
LEMMA BusIsFree ==
  ASSUME HCInv, CardInv', SuccessAgrees', epoch' = NoEpoch,
         \/ dma' = dma /\ epoch.role # "Dma"
         \/ dma'.active = None /\ dma'.state = "Idle"
  PROVE  HCInv'
<1>1. epoch'.role = "Idle" /\ ~epoch'.writeAck
  BY DEF NoEpoch
<1>2. HostWords'
  BY <1>1 DEF HCInv, HostWords
<1>3. BusAgrees'
  BY <1>1 DEF BusAgrees
<1>4. QED
  BY <1>2, <1>3 DEF HCInv

-----------------------------------------------------------------------------
(* One clock of controller and card.                                        *)

HostClock(choice, flip) ==
  /\ ChoiceShape(choice) /\ flip \in BOOLEAN
  /\ CardClock(Answered(flip), choice)
  /\ done = [worker |-> None, dma |-> None]

\* What the card's clock is about.
LEMMA HostClockIs ==
  ASSUME CoreInv, HCInv, NEW choice, NEW flip, HostClock(choice, flip), NEW bus, bus = Answered(flip),
         out'.ack \in BOOLEAN, out'.err \in BOOLEAN
  PROVE  /\ ChoiceShape(choice) /\ CardClock(bus, choice) /\ CardInv /\ BusShape(bus)
         /\ bus.ack = out'.ack /\ bus.err = out'.err /\ (bus.grant <=> epoch.role \in CardRoles)
<1>1. flip \in BOOLEAN /\ ChoiceShape(choice) /\ CardClock(bus, choice)
  BY DEF HostClock
<1>2. CardInv
  BY DEF HCInv
<1>3. BusShape(bus) /\ bus.ack = out'.ack /\ bus.err = out'.err /\ (bus.grant <=> epoch.role \in CardRoles)
  BY <1>1, BusIs
<1>4. QED
  BY <1>1, <1>2, <1>3

\* The controller acknowledges nothing.
LEMMA QuietBus ==
  ASSUME CoreInv, HCInv, NEW choice, NEW flip, HostClock(choice, flip),
         out'.ack = FALSE, out'.err \in BOOLEAN
  PROVE  /\ CardInv' /\ NoNewSuccess
         /\ epoch.role \notin CardRoles => ~Q!NeedsGrant(qic'.state)
         /\ ~Q!NeedsGrant(qic.state) /\ Q!NeedsGrant(qic'.state) =>
              qic'.state.at \in {"DmaAddress", "NotificationAddress"}
<1>1. PICK bus : bus = Answered(flip)
  OBVIOUS
<1>2. /\ ChoiceShape(choice) /\ CardClock(bus, choice) /\ CardInv /\ BusShape(bus)
      /\ bus.ack = FALSE /\ (bus.grant <=> epoch.role \in CardRoles)
  BY <1>1, HostClockIs
<1>3. WordComes(bus)
  BY <1>2 DEF WordComes
<1>4. /\ CardInv' /\ Releases(bus) /\ NoNewSuccess
      /\ ~Q!NeedsGrant(qic.state) /\ Q!NeedsGrant(qic'.state) =>
           qic'.state.at \in {"DmaAddress", "NotificationAddress"}
  BY <1>2, <1>3, CardKeeps
<1>5. QED
  BY <1>2, <1>4 DEF Releases

LEMMA OutIs ==
  ASSUME CoreInv
  PROVE  /\ Undriven.ack = FALSE /\ Undriven.err = FALSE /\ Undriven.reset = FALSE
         /\ \A a, e : Drive(a, e).ack = a /\ Drive(a, e).err = e /\ Drive(a, e).reset = FALSE
         /\ \A s : LET o == [Undriven EXCEPT !.selected = s] IN
              o.ack = FALSE /\ o.err = FALSE /\ o.reset = FALSE
<1> DEFINE m == MemoryRequest(dma)
           g == (out.edge + 1) % Edges
<1>1. Undriven = [Silent EXCEPT !.memory = m, !.edge = g]
  BY DEF Undriven
<1> HIDE DEF m, g
<1>2. Undriven = [grant |-> None, selected |-> None, ack |-> FALSE, err |-> FALSE,
                  reset |-> FALSE, memory |-> m, edge |-> g]
  BY <1>1 DEF Silent
<1>3. ASSUME NEW a, NEW e PROVE Drive(a, e).ack = a /\ Drive(a, e).err = e /\ Drive(a, e).reset = FALSE
  BY <1>2 DEF Drive
<1>4. ASSUME NEW s PROVE LET o == [Undriven EXCEPT !.selected = s] IN
              o.ack = FALSE /\ o.err = FALSE /\ o.reset = FALSE
  BY <1>2
<1>5. QED
  BY <1>2, <1>3, <1>4

LEMMA StartWorkerCard ==
  ASSUME CoreInv, HCInv, NEW choice, NEW flip, HostClock(choice, flip),
         NEW request \in WorkerRequests \cup {None}, StartWorker(request)
  PROVE  HCInv'
<1>1. /\ epoch.role = "Idle" /\ out' = Undriven /\ seen' = seen /\ done' = done /\ dma' = dma
      /\ Queue(request) # None
      /\ \/ epoch' = epoch
         \/ /\ epoch' = [epoch EXCEPT !.role = "Worker", !.slot = Queue(request).slot]
            /\ worker' = [state |-> "Address", request |-> Queue(request), wait |-> 0]
  BY DEF StartWorker
<1>2. /\ CardInv' /\ NoNewSuccess /\ ~Q!NeedsGrant(qic'.state)
  BY <1>1, OutIs, QuietBus DEF CardRoles
<1>3. epoch \in Epoch /\ ~epoch.writeAck
  BY <1>1, TypeOKIs DEF CoreInv, EpochShape
<1>4. /\ epoch'.role \in {"Idle", "Worker"} /\ ~epoch'.writeAck
      /\ epoch'.role = "Worker" => worker'.state = "Address" /\ worker'.request # None
  <2>1. CASE epoch' = epoch
    BY <1>1, <1>3, <2>1
  <2>2. CASE /\ epoch' = [epoch EXCEPT !.role = "Worker", !.slot = Queue(request).slot]
             /\ worker' = [state |-> "Address", request |-> Queue(request), wait |-> 0]
    BY <1>1, <1>3, <2>2 DEF Epoch
  <2>3. QED
    BY <1>1, <2>1, <2>2
<1>5. SuccessAgrees'
  BY <1>1, <1>2, <1>4, SuccessKept DEF HCInv
<1>6. HostWords'
  BY <1>1, <1>4 DEF HCInv, HostWords
<1>7. BusAgrees'
  <2>1. done'.worker = None
    BY <1>1 DEF HostClock
  <2>2. QED
    BY <1>2, <1>4, <2>1 DEF BusAgrees
<1>8. QED
  BY <1>2, <1>5, <1>6, <1>7 DEF HCInv

LEMMA ArbitrateCard ==
  ASSUME CoreInv, HCInv, NEW choice, NEW flip, HostClock(choice, flip),
         NEW requesting \in {{}, {Card}}, Arbitrate(requesting)
  PROVE  HCInv'
<1>1. /\ epoch.role = "Idle" /\ out' = Undriven /\ dma' = dma /\ cursor \in Slots
      /\ IF requesting = {} THEN epoch' = epoch
         ELSE epoch' = [epoch EXCEPT !.role = "Grant", !.slot = Chosen(requesting)]
  BY TypeOKIs DEF Arbitrate, CoreInv
<1>2. /\ CardInv' /\ NoNewSuccess /\ ~Q!NeedsGrant(qic'.state)
  BY <1>1, OutIs, QuietBus DEF CardRoles
<1>3. epoch \in Epoch /\ ~epoch.writeAck /\ epoch.address = None
  BY <1>1, TypeOKIs DEF CoreInv, EpochShape
<1>4. seen'.acks = seen.acks /\ seen'.commits = seen.commits
  <2>1. seen \in [acks : Nat, commits : Nat, overtaken : [Slots -> Nat]]
    BY TypeOKIs DEF CoreInv, RestTyped
  <2> DEFINE o == [s \in Slots |-> IF s \in requesting /\ s # Chosen(requesting)
                                   THEN seen.overtaken[s] + 1 ELSE 0]
  <2>2. seen' = [seen EXCEPT !.overtaken = o]
    BY DEF Arbitrate
  <2> HIDE DEF o
  <2>3. QED
    BY <2>1, <2>2
<1>5. /\ epoch'.role \in {"Idle", "Grant"} /\ ~epoch'.writeAck
      /\ epoch'.role = "Grant" => epoch'.slot = Card /\ epoch'.address = None
  <2>1. CASE requesting = {}
    BY <1>1, <1>3, <2>1
  <2>2. CASE requesting = {Card}
    <3>1. requesting \in SUBSET Slots /\ requesting # {}
      BY <2>2, DmaConstants DEF Slots, Card
    <3>2. Chosen(requesting) = Card
      BY <1>1, <2>2, <3>1, ChosenIs
    <3>3. QED
      BY <1>1, <1>3, <3>1, <3>2 DEF Epoch
  <2>3. QED
    BY <2>1, <2>2
<1>6. SuccessAgrees'
  BY <1>2, <1>4, <1>5, SuccessKept DEF HCInv
<1>7. HostWords'
  BY <1>1, <1>5 DEF HCInv, HostWords
<1>8. BusAgrees'
  BY <1>2, <1>5 DEF BusAgrees
<1>9. QED
  BY <1>2, <1>6, <1>7, <1>8 DEF HCInv

\* The access at the card is the one the controller's worker makes.
LEMMA AccessKept ==
  ASSUME CoreInv, HCInv, NEW choice, NEW flip, HostClock(choice, flip),
         out'.ack = FALSE, out'.err = FALSE,
         NEW pins, pins = Q!CardPins(qic, Offered(flip), D!Drive(dev, choice)),
         epoch.role = "Worker", epoch.slot = Card, worker'.request = worker.request,
         \/ worker.state = "Address" /\ pins.reply \notin {None, "Err"}
         \/ worker.state = "Data" /\ pins.reply = None
  PROVE  AccessAgrees'
<1> DEFINE access == [register |-> worker.request.register, write |-> worker.request.write]
           drive  == D!Drive(dev, choice)
           s == qic.state
<1>1. PICK bus, off : bus = Answered(flip) /\ off = Offered(flip)
  OBVIOUS
<1>2. flip \in BOOLEAN /\ epoch.role \notin CardRoles /\ dma.state # "DeviceReadReady"
  BY DEF HostClock, CardRoles, HCInv, HostWords
<1>3. /\ ChoiceShape(choice) /\ CardClock(bus, choice) /\ CardInv /\ BusShape(bus)
      /\ bus.ack = FALSE
  BY <1>1, HostClockIs
<1>4. /\ off.selected = bus.selected /\ off.address = bus.address /\ off.dataStrobe = bus.dataStrobe
      /\ (Q!WorkerAddressCycle(bus) <=> worker.state = "Address")
      /\ Q!WorkerAddressCycle(bus) =>
           /\ bus.address.valid
           /\ bus.address.register = access.register /\ bus.address.write = access.write
      /\ (bus.dataStrobe <=> worker.state = "Data")
      /\ bus.data = off.data
  <2> DEFINE working == epoch.role = "Worker" /\ epoch.slot = Card
  <2>1. out'.ack \in BOOLEAN /\ out'.err \in BOOLEAN
    OBVIOUS
  <2>2. /\ off.selected = bus.selected /\ off.address = bus.address /\ off.dataStrobe = bus.dataStrobe
        /\ (Q!WorkerAddressCycle(bus) <=> working /\ worker.state = "Address")
        /\ Q!WorkerAddressCycle(bus) =>
             /\ bus.address.valid
             /\ bus.address.register = access.register /\ bus.address.write = access.write
        /\ (bus.dataStrobe <=> working /\ worker.state = "Data")
        /\ dma.state # "DeviceReadReady" => bus.data = off.data
    BY <1>1, <1>2, <2>1, BusIs
  <2>3. working
    OBVIOUS
  <2>4. QED
    BY <1>2, <2>2, <2>3
<1>5. pins.reply = Q!Reply(qic, off, drive)
  BY <1>1 DEF Q!CardPins
<1>6. AccessAgrees' <=>
        IF qic'.state.at = "WorkerResponse" THEN dev'.mmio.op = access
        ELSE qic'.state.at \in Q!WorkerStates /\ qic'.state.op = access
  BY DEF AccessAgrees
<1>7. CASE worker.state = "Address" /\ pins.reply \notin {None, "Err"}
  <2>1. Q!WorkerAddressCycle(bus) /\ Q!WorkerAddressCycle(off) /\ ~off.dataStrobe
    BY <1>4, <1>7 DEF Q!WorkerAddressCycle
  <2>2. s.at \notin Q!WorkerStates
    BY <1>5, <1>7, <2>1 DEF Q!Reply, Q!WorkerReply
  <2>3. Q!AnswersAddress(s)
    BY <1>5, <1>7, <2>2 DEF Q!Reply
  <2>4. WordComes(bus)
    BY <1>3 DEF WordComes
  <2>5. qic'.state = Q!StartWorker(bus)
    BY <1>3, <1>4, <2>1, <2>2, <2>3, <2>4, CardKeeps
  <2>6. bus.address \in AddressPhases
    BY <1>3, <2>1 DEF BusShape, Q!WorkerAddressCycle
  <2>7. /\ qic'.state.at \in {"WorkerReadData", "WorkerWriteData"}
        /\ qic'.state.op = [register |-> bus.address.register, write |-> bus.address.write]
    BY <2>5, <2>6, StartWorkerIs
  <2>8. qic'.state.op = access
    BY <1>4, <2>1, <2>7
  <2>9. QED
    BY <1>6, <2>7, <2>8 DEF Q!WorkerStates
<1>8. CASE worker.state = "Data" /\ pins.reply = None
  <2>1. IF s.at = "WorkerResponse" THEN dev.mmio.op = access
        ELSE s.at \in Q!WorkerStates /\ s.op = access
    BY <1>8 DEF HCInv, BusAgrees, AccessAgrees
  <2>2. Q!WorkerReply(s, off, drive) = None
    BY <1>5, <1>8, <2>1 DEF Q!Reply, Q!WorkerStates
  <2>3. /\ ~Q!TimedOut(s.wait)
        /\ ~(s.at = "WorkerWriteData" /\ bus.dataStrobe /\ bus.data = None)
        /\ ~(s.at = "WorkerResponse" /\ drive.response # None)
    BY <1>4, <1>8, <2>2, NoneIsNoValue DEF Q!WorkerReply
  <2>4. CASE s.at \in {"WorkerReadData", "WorkerWriteData"}
    <3>1. qic'.state.at \in Q!WorkerStates \ {"WorkerResponse"} /\ qic'.state.op = s.op
      BY <1>3, <2>3, <2>4, WorkerDataClock
    <3>2. QED
      BY <1>6, <2>1, <2>4, <3>1
  <2>5. CASE s.at = "WorkerOffer"
    <3>1. qic'.state.at = "WorkerResponse" /\ dev'.mmio.op = s.op
      BY <1>3, <2>3, <2>5, WorkerOfferClock
    <3>2. QED
      BY <1>6, <2>1, <2>5, <3>1
  <2>6. CASE s.at = "WorkerResponse"
    <3>1. dev.mmio # None /\ dev.mmio.answer = None
      BY <1>3, <2>3, <2>6, DriveIs DEF CardInv, AccessHeldOnce, ChoiceShape
    <3>2. qic'.state.at = "WorkerResponse" /\ dev'.mmio.op = dev.mmio.op
      BY <1>3, <2>3, <2>6, <3>1, WorkerResponseClock
    <3>3. QED
      BY <1>6, <2>1, <2>6, <3>2
  <2>7. QED
    BY <2>1, <2>4, <2>5, <2>6 DEF Q!WorkerStates
<1>9. QED
  BY <1>7, <1>8

LEMMA WorkerClockCard ==
  ASSUME CoreInv, HCInv, NEW choice, NEW flip, HostClock(choice, flip),
         NEW pins, pins = Q!CardPins(qic, Offered(flip), D!Drive(dev, choice)),
         NEW request \in WorkerRequests \cup {None}, NEW reply,
         epoch.slot = Card => /\ (reply = "Wait") <=> (pins.reply = None)
                              /\ pins.reply = "Err" => reply = "Err",
         WorkerClock(request, reply)
  PROVE  HCInv'
<1>1. /\ epoch.role = "Worker" /\ dma' = dma /\ seen' = seen
      /\ out' = [Undriven EXCEPT !.selected = epoch.slot]
      /\ IF WorkerEnds(reply) # None THEN epoch' = NoEpoch
         ELSE /\ epoch' = epoch /\ done' = done
              /\ worker' = IF reply = "Wait" THEN [worker EXCEPT !.wait = @ + 1]
                           ELSE [worker EXCEPT !.state = "Data", !.wait = 0]
  BY DEF WorkerClock
<1>2. out'.ack = FALSE /\ out'.err = FALSE
  BY <1>1, OutIs
<1>3. /\ CardInv' /\ NoNewSuccess /\ ~Q!NeedsGrant(qic'.state)
  BY <1>1, <1>2, QuietBus DEF CardRoles
<1>4. SuccessAgrees'
  <2>1. epoch'.role # "Dma"
    BY <1>1 DEF NoEpoch
  <2>2. QED
    BY <1>1, <1>3, <2>1, SuccessKept DEF HCInv
<1>5. CASE WorkerEnds(reply) # None
  BY <1>1, <1>3, <1>4, <1>5, BusIsFree
<1>6. CASE WorkerEnds(reply) = None
  <2>1. HostWords'
    BY <1>1, <1>6 DEF HCInv, HostWords
  <2>2. worker \in WorkerEngine /\ worker.request # None
    BY <1>1 DEF CoreInv, TypeOK, HCInv, BusAgrees
  <2>3. /\ worker'.request = worker.request
        /\ worker'.state = IF reply = "Wait" THEN worker.state ELSE "Data"
    BY <1>1, <1>6, <2>2 DEF WorkerEngine
  <2>4. ASSUME epoch'.slot = Card, worker'.state # "Address"
        PROVE  AccessAgrees'
    <3>1. epoch.slot = Card /\ worker.state \in {"Address", "Data"}
      BY <1>1, <1>6, <2>2, <2>4 DEF WorkerEngine, HCInv, BusAgrees
    <3>2. CASE reply = "Wait"
      <4>1. worker.state = "Data" /\ pins.reply = None
        BY <2>3, <2>4, <3>1, <3>2
      <4>2. QED
        BY <1>1, <1>2, <2>3, <3>1, <4>1, AccessKept
    <3>3. CASE reply # "Wait"
      <4>1. reply # "Err"
        BY <1>6, NoneIsNoValue DEF WorkerEnds
      <4>2. worker.state # "Data"
        <5> SUFFICES ASSUME worker.state = "Data" PROVE FALSE
          OBVIOUS
        <5>1. WorkerEnds(reply) = IF worker.request.write THEN "WriteOk"
                                  ELSE IF reply = "Ack" THEN "Read" ELSE "ReadParity"
          BY <3>3, <4>1 DEF WorkerEnds
        <5>2. QED
          BY <1>6, <5>1, NoneIsNoValue
      <4>3. worker.state = "Address" /\ pins.reply \notin {None, "Err"}
        BY <3>1, <3>3, <4>1, <4>2
      <4>4. QED
        BY <1>1, <1>2, <2>3, <3>1, <4>3, AccessKept
    <3>4. QED
      BY <3>2, <3>3
  <2>5. BusAgrees'
    BY <1>1, <1>3, <1>6, <2>2, <2>3, <2>4 DEF BusAgrees, HCInv
  <2>6. QED
    BY <1>3, <1>4, <2>1, <2>5 DEF HCInv
<1>7. QED
  BY <1>5, <1>6

\* A card's transaction before a burst ends, with no word acknowledged.
LEMMA EndsBeforeBurst ==
  ASSUME CoreInv, HCInv, NEW choice, NEW flip, HostClock(choice, flip),
         epoch.role \in {"Grant", "Notification"}, FinishCardTransaction,
         dma' = dma, seen' = seen, CardInv', NoNewSuccess
  PROVE  HCInv'
<1>1. epoch' = NoEpoch /\ epoch.role # "Dma" /\ epoch'.role # "Dma"
  BY DEF FinishCardTransaction, NoEpoch
<1>2. SuccessAgrees'
  BY <1>1, SuccessKept DEF HCInv
<1>3. QED
  BY <1>1, <1>2, BusIsFree

LEMMA RequestDroppedCard ==
  ASSUME CoreInv, HCInv, NEW choice, NEW flip, HostClock(choice, flip),
         NEW request, RequestDropped(request)
  PROVE  HCInv'
<1>1. out'.ack = FALSE /\ out'.err = FALSE
  BY OutIs DEF RequestDropped
<1>2. CardInv' /\ NoNewSuccess
  BY <1>1, QuietBus
<1>3. QED
  BY <1>2, EndsBeforeBurst DEF RequestDropped

LEMMA BadAddressCard ==
  ASSUME CoreInv, HCInv, NEW choice, NEW flip, HostClock(choice, flip),
         NEW request, BadAddress(request)
  PROVE  HCInv'
<1>1. out'.ack = FALSE /\ out'.err = TRUE
  BY OutIs DEF BadAddress, Refuse
<1>2. CardInv' /\ NoNewSuccess
  BY <1>1, QuietBus
<1>3. QED
  BY <1>2, EndsBeforeBurst DEF BadAddress, Refuse

\* A card that has the grant and is told nothing has not left its address phase.
LEMMA GrantWaits ==
  ASSUME CoreInv, HCInv, NEW choice, NEW flip, HostClock(choice, flip),
         out'.ack = FALSE, out'.err \in BOOLEAN, epoch.role = "Grant", epoch.address = None
  PROVE  /\ Q!NeedsGrant(qic'.state) => qic'.state.at \in {"DmaAddress", "NotificationAddress"}
<1>1. PICK bus : bus = Answered(flip)
  OBVIOUS
<1>2. /\ ChoiceShape(choice) /\ CardClock(bus, choice) /\ CardInv /\ BusShape(bus)
      /\ bus.ack = FALSE /\ bus.err = out'.err /\ bus.grant
  BY <1>1, HostClockIs DEF CardRoles
<1>3. CASE qic.state.at = "DmaAddress"
  <2>1. IF Q!TimedOut(qic.state.wait) \/ bus.err
        THEN qic'.state.at = "DmaComplete" /\ qic'.state.status # "Ok"
        ELSE qic'.state.at = "DmaAddress" /\ qic'.state.request = qic.state.request
    BY <1>2, <1>3, DmaAddressClock
  <2>2. QED
    BY <1>2, <1>3, <2>1 DEF Q!NeedsGrant
<1>4. CASE qic.state.at = "NotificationAddress"
  <2>1. qic'.state = Q!Idle \/ qic'.state.at = "NotificationAddress"
    BY <1>2, <1>4, NotificationClock
  <2>2. QED
    BY <1>4, <2>1 DEF Q!NeedsGrant, Q!Idle
<1>5. CASE ~Q!NeedsGrant(qic.state)
  BY <1>5, QuietBus
<1>6. QED
  BY <1>3, <1>4, <1>5 DEF HCInv, BusAgrees

LEMMA NoStrobeCard ==
  ASSUME CoreInv, HCInv, NEW choice, NEW flip, HostClock(choice, flip),
         NEW request, NoStrobe(request), Q!RequestsBus(qic)
  PROVE  HCInv'
<1>1. /\ epoch.role \in {"Grant", "Notification"} /\ epoch.address = None
      /\ dma' = dma /\ seen' = seen /\ worker' = worker
  BY DEF NoStrobe
<1>2. epoch \in Epoch /\ ~epoch.writeAck
  BY <1>1, BeforeTheBurst
<1>3. CASE epoch.wait + 1 >= Timeout
  <2>1. FinishCardTransaction /\ out' = Drive(FALSE, TRUE)
    BY <1>3 DEF NoStrobe, WaitForStrobe, Refuse
  <2>2. out'.ack = FALSE /\ out'.err = TRUE
    BY <2>1, OutIs
  <2>3. CardInv' /\ NoNewSuccess
    BY <2>2, QuietBus
  <2>4. QED
    BY <1>1, <2>1, <2>3, EndsBeforeBurst
<1>4. CASE ~(epoch.wait + 1 >= Timeout)
  <2>1. epoch' = [epoch EXCEPT !.wait = epoch.wait + 1] /\ out' = Drive(FALSE, FALSE)
    BY <1>4 DEF NoStrobe, WaitForStrobe, Continue
  <2>2. out'.ack = FALSE /\ out'.err = FALSE
    BY <2>1, OutIs
  <2>3. CardInv' /\ NoNewSuccess
    BY <2>2, QuietBus
  <2>4. /\ epoch'.role = epoch.role /\ epoch'.slot = epoch.slot /\ epoch'.channel = epoch.channel
        /\ epoch'.address = None /\ epoch'.writeAck = epoch.writeAck
    BY <1>1, <1>2, <2>1 DEF Epoch
  <2>5. SuccessAgrees'
    BY <1>1, <2>3, <2>4, SuccessKept DEF HCInv
  <2>6. HostWords'
    BY <1>1, <1>2, <2>4 DEF HCInv, HostWords
  <2>7. epoch'.role = "Grant" =>
          (Q!NeedsGrant(qic'.state) => qic'.state.at \in {"DmaAddress", "NotificationAddress"})
    BY <1>1, <2>2, <2>4, GrantWaits
  <2>8. epoch'.role = "Notification" =>
          \/ qic'.state = Q!Idle
          \/ qic'.state.at = "NotificationData" /\ qic'.state.request = epoch'.channel
    <3> SUFFICES ASSUME epoch.role = "Notification"
                 PROVE  \/ qic'.state = Q!Idle
                        \/ qic'.state.at = "NotificationData" /\ qic'.state.request = epoch.channel
      BY <2>4
    <3>1. PICK bus : bus = Answered(flip)
      OBVIOUS
    <3>2. /\ ChoiceShape(choice) /\ CardClock(bus, choice) /\ CardInv /\ BusShape(bus)
          /\ bus.ack = FALSE
      BY <2>2, <3>1, HostClockIs
    <3>3. qic.state # Q!Idle
      BY DEF Q!RequestsBus, HCInv, CardInv, QicShape, Q!Idle, Q!WorkerStates
    <3>4. qic.state.at = "NotificationData" /\ qic.state.request = epoch.channel
      BY <3>3 DEF HCInv, BusAgrees
    <3>5. QED
      BY <3>2, <3>4, NotificationClock
  <2>9. BusAgrees'
    BY <1>1, <2>4, <2>7, <2>8 DEF BusAgrees, HCInv
  <2>10. QED
    BY <2>3, <2>5, <2>6, <2>9 DEF HCInv
<1>5. QED
  BY <1>3, <1>4

LEMMA NotificationAddressCard ==
  ASSUME CoreInv, HCInv, NEW choice, NEW flip, HostClock(choice, flip), NEW request,
         NEW strobe, strobe = Q!Strobe(qic.state, Offered(flip)),
         strobe # None, strobe.kind = "Controller",
         NotificationAddress(request, strobe.value)
  PROVE  HCInv'
<1>1. /\ epoch.role = "Grant" /\ epoch.address = None
      /\ dma' = dma /\ seen' = seen /\ out' = Drive(TRUE, FALSE)
      /\ epoch' = [epoch EXCEPT !.role = "Notification", !.channel = strobe.value, !.wait = 0]
  BY DEF NotificationAddress, Acknowledge
<1>2. epoch \in Epoch /\ ~epoch.writeAck /\ epoch.slot = Card
  BY <1>1, BeforeTheBurst DEF HCInv, BusAgrees
<1>3. /\ qic.state.at = "NotificationAddress" /\ strobe.value = qic.state.request
      /\ ~Q!TimedOut(qic.state.wait)
  BY StrobeIs
<1>4. PICK bus : bus = Answered(flip)
  OBVIOUS
<1>5. out'.ack = TRUE /\ out'.err = FALSE
  BY <1>1, OutIs
<1>6. /\ ChoiceShape(choice) /\ CardClock(bus, choice) /\ CardInv /\ BusShape(bus)
      /\ bus.ack = TRUE /\ bus.err = FALSE /\ bus.grant
  BY <1>1, <1>4, <1>5, HostClockIs DEF CardRoles
<1>7. /\ CardInv' /\ NoNewSuccess
      /\ qic'.state.at = "NotificationData" /\ qic'.state.request = strobe.value
  BY <1>3, <1>6, NotificationClock
<1>8. /\ epoch'.role = "Notification" /\ epoch'.slot = Card /\ epoch'.channel = strobe.value
      /\ ~epoch'.writeAck
  BY <1>1, <1>2 DEF Epoch
<1>9. SuccessAgrees'
  BY <1>1, <1>7, <1>8, SuccessKept DEF HCInv
<1>10. HostWords'
  BY <1>1, <1>8 DEF HCInv, HostWords
<1>11. BusAgrees'
  BY <1>7, <1>8 DEF BusAgrees
<1>12. QED
  BY <1>7, <1>9, <1>10, <1>11 DEF HCInv

LEMMA NotificationDataCard ==
  ASSUME CoreInv, HCInv, NEW choice, NEW flip, HostClock(choice, flip), NEW request,
         NEW strobe, strobe = Q!Strobe(qic.state, Offered(flip)),
         strobe # None, strobe.kind = "Data",
         NEW pins, NotificationData(request, pins)
  PROVE  HCInv'
<1>1. /\ epoch.role = "Notification" /\ FinishCardTransaction
      /\ dma' = dma /\ seen' = seen /\ out' = Drive(pins = "Good", pins # "Good")
  BY DEF NotificationData
<1>2. qic.state.at = "NotificationData"
  BY <1>1, StrobeIs DEF HCInv, BusAgrees, Q!Idle
<1>3. PICK bus : bus = Answered(flip)
  OBVIOUS
<1>4. out'.ack \in BOOLEAN /\ out'.err \in BOOLEAN
  <2>1. PICK good, bad : good = (pins = "Good") /\ bad = (pins # "Good")
    OBVIOUS
  <2>2. out'.ack = good /\ out'.err = bad
    BY <1>1, <2>1, OutIs
  <2>3. QED
    BY <2>1, <2>2
<1>5. /\ ChoiceShape(choice) /\ CardClock(bus, choice) /\ CardInv /\ BusShape(bus)
  BY <1>3, <1>4, HostClockIs
<1>6. CardInv' /\ NoNewSuccess
  BY <1>2, <1>5, NotificationClock
<1>7. QED
  BY <1>1, <1>6, EndsBeforeBurst

LEMMA DmaAddressCard ==
  ASSUME CoreInv, HCInv, NEW choice, NEW flip, HostClock(choice, flip), NEW request,
         NEW strobe, strobe = Q!Strobe(qic.state, Offered(flip)),
         strobe # None, strobe.kind = "HostDma",
         DmaAddress(request, strobe.value.handle, strobe.value.words,
                    HostDirection(strobe.value.direction))
  PROVE  HCInv'
<1> DEFINE r   == qic.state.request
           dir == HostDirection(r.direction)
           ok  == StartAllowed(dma, epoch.slot, r.handle, r.words, dir)
           address == [ok |-> ok, direction |-> dir]
<1>1. /\ qic.state.at = "DmaAddress" /\ strobe.value = r /\ ~Q!TimedOut(qic.state.wait)
  BY StrobeIs
<1>2. /\ epoch.role = "Grant" /\ epoch.address = None
      /\ seen' = seen /\ out' = Drive(FALSE, FALSE)
      /\ dma' = IF ok THEN Start(dma, epoch.slot, r.handle, r.words, dir) ELSE dma
      /\ epoch' = [epoch EXCEPT !.address = address, !.wait = 0]
  BY <1>1 DEF DmaAddress, Continue
<1>3. epoch \in Epoch /\ ~epoch.writeAck /\ epoch.slot = Card /\ WellFormed(dma)
  BY <1>2, BeforeTheBurst DEF HCInv, BusAgrees
<1>4. PICK bus : bus = Answered(flip)
  OBVIOUS
<1>5. out'.ack = FALSE /\ out'.err = FALSE
  BY <1>2, OutIs
<1>6. /\ ChoiceShape(choice) /\ CardClock(bus, choice) /\ CardInv /\ BusShape(bus)
      /\ bus.ack = FALSE /\ bus.err = FALSE /\ bus.grant
  BY <1>2, <1>4, <1>5, HostClockIs DEF CardRoles
<1>7. /\ CardInv' /\ NoNewSuccess
      /\ qic'.state.at = "DmaAddress" /\ qic'.state.request = r
  BY <1>1, <1>6, DmaAddressClock
<1>8. address.ok = ok /\ address.direction = dir /\ ok \in BOOLEAN
  BY DEF StartAllowed
<1>9. ok => /\ dma'.active.total = r.words /\ dma'.active.pendingWrite = None
            /\ dma'.state = IF dir = "DeviceRead" THEN "MemRequest" ELSE "AwaitDeviceWrite"
  BY <1>2, <1>3, StartWords
<1>10. ~ok => dma' = dma
  BY <1>2
<1> HIDE DEF ok, address, r, dir
<1>11. /\ epoch'.role = "Grant" /\ epoch'.slot = Card /\ epoch'.address = address
       /\ ~epoch'.writeAck
  BY <1>2, <1>3 DEF Epoch
<1>12. SuccessAgrees'
  BY <1>2, <1>7, <1>11, SuccessKept DEF HCInv
<1>13. HostWords'
  BY <1>2, <1>9, <1>10, <1>11 DEF HCInv, HostWords
<1>14. epoch'.address # None => AddressAgrees'
  <2>1. dir = HostDirection(qic'.state.request.direction)
    BY <1>7 DEF dir
  <2>2. ok => /\ dma'.active.total = qic'.state.request.words
              /\ dir = "DeviceWrite" => dma'.state = "AwaitDeviceWrite"
    BY <1>7, <1>9
  <2>3. QED
    BY <1>7, <1>8, <1>11, <2>1, <2>2 DEF AddressAgrees
<1>15. BusAgrees'
  <2>1. Q!NeedsGrant(qic'.state) => qic'.state.at \in {"DmaAddress", "NotificationAddress"}
    BY <1>7
  <2>2. QED
    BY <1>11, <1>14, <2>1 DEF BusAgrees
<1>16. QED
  BY <1>7, <1>12, <1>13, <1>15 DEF HCInv

LEMMA AnswerDmaAddressCard ==
  ASSUME CoreInv, HCInv, NEW choice, NEW flip, HostClock(choice, flip), NEW request,
         AnswerDmaAddress(request)
  PROVE  HCInv'
<1>1. /\ epoch.role = "Grant" /\ epoch.address # None /\ dma' = dma
      /\ AddressAgrees
  BY DEF AnswerDmaAddress, HCInv, BusAgrees
<1>2. epoch \in Epoch /\ ~epoch.writeAck /\ epoch.slot = Card
  BY <1>1, BeforeTheBurst DEF HCInv, BusAgrees
<1>3. CASE epoch.address.ok
  <2>1. /\ epoch' = [epoch EXCEPT !.role = "Dma", !.address = None, !.wait = 0,
                                  !.direction = epoch.address.direction]
        /\ out' = Drive(TRUE, FALSE)
        /\ seen' = [seen EXCEPT !.acks = 0, !.commits = 0]
    BY <1>3 DEF AnswerDmaAddress, Acknowledge
  <2>2. seen'.acks = 0 /\ seen'.commits = 0
    <3>1. seen \in [acks : Nat, commits : Nat, overtaken : [Slots -> Nat]]
      BY TypeOKIs DEF CoreInv, RestTyped
    <3>2. QED
      BY <2>1, <3>1
  <2>3. /\ epoch'.role = "Dma" /\ epoch'.slot = Card /\ ~epoch'.writeAck
        /\ epoch'.direction = epoch.address.direction
    BY <1>2, <2>1 DEF Epoch
  <2>4. PICK bus : bus = Answered(flip)
    OBVIOUS
  <2>5. out'.ack = TRUE /\ out'.err = FALSE
    BY <2>1, OutIs
  <2>6. /\ ChoiceShape(choice) /\ CardClock(bus, choice) /\ CardInv /\ BusShape(bus)
        /\ bus.ack = TRUE /\ bus.err = FALSE /\ bus.grant
    BY <1>1, <2>4, <2>5, HostClockIs DEF CardRoles
  <2>7. /\ CardInv' /\ qic'.tail = None
        /\ \/ qic'.state.at = "DmaComplete" /\ qic'.state.status # "Ok"
           \/ /\ qic'.state.at = "DmaData" /\ qic'.state.request = qic.state.request
              /\ qic'.state.completed = 0 /\ qic'.state.buffer = None
    BY <1>1, <2>6, DmaAddressClock DEF AddressAgrees
  <2>8. SuccessAgrees'
    BY <2>7 DEF SuccessAgrees, BurstState, Succeeded, Q!FinalReadBuffer
  <2>9. HostWords'
    BY <1>1, <2>3 DEF HCInv, HostWords
  <2>10. /\ dma.active # None /\ dma.active.total = qic.state.request.words
         /\ epoch.address.direction = HostDirection(qic.state.request.direction)
         /\ epoch.address.direction = "DeviceWrite" => dma.state = "AwaitDeviceWrite"
    BY <1>1, <1>3 DEF AddressAgrees, CoreInv, BurstOfEpoch
  <2>11. BurstAgrees'
    <3>1. CASE qic'.state.at = "DmaComplete"
      BY <2>7, <3>1 DEF BurstAgrees
    <3>2. CASE qic'.state.at = "DmaData"
      <4>1. CardInBurst' /\ ~Q!FinalReadBuffer(qic'.state)
        BY <2>7, <3>2 DEF CardInBurst, Q!FinalReadBuffer
      <4>2. ~HostHoldsWord'
        BY <1>1, <2>3, <2>10 DEF HostHoldsWord
      <4>3. qic'.state.completed = seen'.acks /\ qic'.state.request = qic.state.request
        BY <2>2, <2>7, <3>2
      <4>4. QED
        BY <1>1, <2>3, <2>10, <3>2, <4>1, <4>2, <4>3 DEF BurstAgrees
    <3>3. QED
      BY <2>7, <3>1, <3>2
  <2>12. BusAgrees'
    BY <2>3, <2>11 DEF BusAgrees
  <2>13. QED
    BY <2>7, <2>8, <2>9, <2>12 DEF HCInv
<1>4. CASE ~epoch.address.ok
  <2>1. FinishCardTransaction /\ out' = Drive(FALSE, TRUE) /\ seen' = seen
    BY <1>4 DEF AnswerDmaAddress, Refuse
  <2>2. out'.ack = FALSE /\ out'.err = TRUE
    BY <2>1, OutIs
  <2>3. CardInv' /\ NoNewSuccess
    BY <2>2, QuietBus
  <2>4. QED
    BY <1>1, <2>1, <2>3, EndsBeforeBurst
<1>5. QED
  BY <1>3, <1>4

-----------------------------------------------------------------------------
(* The clocks of a burst.                                                   *)

\* The controller tells software of a failure only of a burst that is no success at the card.
FailureStep ==
  (epoch.role = "Dma" /\ done.dma = None /\ done'.dma # None /\ done'.dma.result # "Ok") =>
    ~CardSucceeds'

\* A success of the QIC's state is one of its burst: while a register access is in hand there
\* is none.
LEMMA SuccessIsOfBurst ==
  ASSUME NEW q, QicShape(q), Succeeded(q.state)
  PROVE  Succeeded(BurstState(q))
  BY DEF QicShape, Succeeded, BurstState, Q!WorkerStates

\* In a DMA epoch whose card still asks for the bus both sides are in the burst.
LEMMA InDma ==
  ASSUME CoreInv, HCInv, epoch.role = "Dma"
  PROVE  LET s == qic.state IN
         /\ epoch \in Epoch /\ epoch.slot = Card /\ BurstOfDmaEpoch(dma, epoch, seen)
         /\ WellFormed(dma) /\ CardInv /\ ~Succeeded(BurstState(qic))
         /\ Q!RequestsBus(qic) \/ CardInBurst =>
              /\ CardInBurst /\ ~Q!FinalReadBuffer(s) /\ s.completed = seen.acks
              /\ epoch.direction = HostDirection(s.request.direction)
              /\ s.request.direction \in {"HostToDevice", "DeviceToHost"}
              /\ (epoch.direction = "DeviceWrite") <=> (s.request.direction = "DeviceToHost")
              /\ IF dma.active # None THEN dma.active.total = s.request.words
                 ELSE seen.commits = s.request.words
              /\ HostHoldsWord => s.buffer # None
<1> DEFINE s == qic.state
<1>1. /\ epoch \in Epoch /\ BurstOfDmaEpoch(dma, epoch, seen) /\ WellFormed(dma)
      /\ epoch.slot = Card /\ CardInv /\ BurstAgrees /\ ~Succeeded(BurstState(qic))
  BY InTheBurst DEF HCInv, BusAgrees, SuccessAgrees
<1>2. ASSUME Q!RequestsBus(qic) \/ CardInBurst
      PROVE  /\ CardInBurst /\ ~Q!FinalReadBuffer(s) /\ s.completed = seen.acks
             /\ epoch.direction = HostDirection(s.request.direction)
             /\ IF dma.active # None THEN dma.active.total = s.request.words
                ELSE seen.commits = s.request.words
             /\ HostHoldsWord => s.buffer # None
  <2>1. s.at # "DmaComplete"
    BY <1>1, <1>2 DEF Q!RequestsBus, CardInv, QicShape, Q!WorkerStates, CardInBurst
  <2>2. QED
    BY <1>1, <2>1 DEF BurstAgrees
<1>3. CardInBurst => s.request.direction \in {"HostToDevice", "DeviceToHost"}
  BY <1>1 DEF CardInBurst, CardInv, QicShape, QicState, Q!Idle, DataStates, DmaRequest
<1>4. QED
  BY <1>1, <1>2, <1>3 DEF HostDirection

\* The controller says nothing, or ERR alone.
LEMMA DmaQuiet ==
  ASSUME CoreInv, HCInv, NEW choice, NEW flip, HostClock(choice, flip),
         epoch.role = "Dma", out'.ack = FALSE, out'.err \in BOOLEAN
  PROVE  /\ CardInv' /\ SuccessAgrees' /\ FailureStep /\ ~Succeeded(BurstState(qic'))
         /\ CardInBurst /\ ~out'.err => Waits(qic.state)
<1>1. ~Succeeded(BurstState(qic))
  BY InDma
<1>2. CardInv' /\ NoNewSuccess
  BY QuietBus
<1>3. ~Succeeded(BurstState(qic'))
  BY <1>1, <1>2 DEF NoNewSuccess
<1>4. SuccessAgrees' /\ FailureStep
  BY <1>2, <1>3, SuccessIsOfBurst DEF SuccessAgrees, FailureStep, CardInv, CardSucceeds
<1>5. ASSUME CardInBurst, ~out'.err PROVE Waits(qic.state)
  <2>1. PICK bus : bus = Answered(flip)
    OBVIOUS
  <2>2. /\ ChoiceShape(choice) /\ CardClock(bus, choice) /\ CardInv /\ BusShape(bus)
        /\ bus.ack = FALSE /\ bus.err = out'.err /\ bus.grant
    BY <2>1, HostClockIs DEF CardRoles
  <2>3. WordComes(bus)
    BY <2>2 DEF WordComes
  <2>4. ~Q!FinalReadBuffer(qic.state)
    BY <1>5, InDma
  <2>5. QED
    BY <1>5, <2>2, <2>3, <2>4, DmaDataClock DEF CardInBurst
<1>6. QED
  BY <1>2, <1>3, <1>4, <1>5

\* The epoch ends.
LEMMA DmaEnds ==
  ASSUME CoreInv, HCInv, epoch' = NoEpoch, CardInv', SuccessAgrees', NEW d, WellFormed(d),
         d.active = None, d.state = "Idle", dma' = TakeCompletion(d)
  PROVE  HCInv'
<1>1. dma'.active = None /\ dma'.state = "Idle"
  BY TakeWell
<1>2. QED
  BY <1>1, BusIsFree

\* The epoch goes on in silence: what the card has of the burst stays.
LEMMA DmaGoesOn ==
  ASSUME CoreInv, HCInv, NEW choice, NEW flip, HostClock(choice, flip),
         epoch.role = "Dma", CardInBurst, out'.ack = FALSE, out'.err = FALSE,
         epoch'.role = "Dma", epoch'.slot = epoch.slot, epoch'.direction = epoch.direction,
         seen'.acks = seen.acks,
         IF dma'.active # None THEN dma'.active.total = qic.state.request.words
         ELSE seen'.commits = qic.state.request.words,
         HostHoldsWord' => epoch.direction = "DeviceWrite" /\ qic.state.buffer # None,
         HostWords'
  PROVE  HCInv' /\ FailureStep
<1> DEFINE s == qic.state
<1>1. /\ CardInv' /\ SuccessAgrees' /\ FailureStep /\ Waits(s)
  BY DmaQuiet
<1>2. /\ epoch.slot = Card /\ s.completed = seen.acks
      /\ epoch.direction = HostDirection(s.request.direction)
      /\ (epoch.direction = "DeviceWrite") <=> (s.request.direction = "DeviceToHost")
  BY InDma
<1>3. BurstAgrees'
  <2>1. CASE qic'.state.at = "DmaComplete" /\ qic'.state.status # "Ok"
    BY <2>1 DEF BurstAgrees
  <2>2. CASE /\ qic'.state.at = "DmaData" /\ qic'.state.request = s.request
             /\ qic'.state.completed = s.completed /\ ~Q!FinalReadBuffer(qic'.state)
             /\ s.request.direction = "DeviceToHost" /\ s.buffer # None => qic'.state.buffer # None
    <3>1. HostHoldsWord' => qic'.state.buffer # None
      BY <1>2, <2>2
    <3>2. QED
      BY <1>2, <2>2, <3>1 DEF BurstAgrees, CardInBurst
  <2>3. QED
    BY <1>1, <2>1, <2>2 DEF Waits
<1>4. BusAgrees'
  BY <1>2, <1>3 DEF BusAgrees
<1>5. QED
  BY <1>1, <1>4 DEF HCInv

LEMMA DmaRequestDroppedCard ==
  ASSUME CoreInv, HCInv, NEW choice, NEW flip, HostClock(choice, flip), NEW request,
         DmaRequestDropped(request)
  PROVE  HCInv' /\ FailureStep
<1>1. /\ epoch.role = "Dma" /\ epoch' = NoEpoch /\ dma' = TakeCompletion(Reset(dma))
      /\ out' = Drive(FALSE, FALSE)
  BY DEF DmaRequestDropped, DmaClock, FinishCardTransaction
<1>2. out'.ack = FALSE /\ out'.err = FALSE
  BY <1>1, OutIs
<1>3. WellFormed(Reset(dma)) /\ Reset(dma).active = None /\ Reset(dma).state = "Idle"
  BY ResetWell DEF CoreInv
<1>4. CardInv' /\ SuccessAgrees' /\ FailureStep
  BY <1>1, <1>2, DmaQuiet
<1>5. QED
  BY <1>1, <1>3, <1>4, DmaEnds

\* What the engine d, whose words are these, holds of the burst.
WordsOf(d) ==
  d.active # None =>
    /\ d.active.pendingWrite # None => d.active.pendingWrite = D!WordAt(d.active.acknowledged)
    /\ d.state = "DeviceReadReady" => d.active.readData = D!WordAt(d.active.acknowledged)

\* A clock in which no word is acknowledged to the card: the engine becomes d.
LEMMA SilentBurstClock ==
  ASSUME CoreInv, HCInv, NEW choice, NEW flip, HostClock(choice, flip),
         epoch.role = "Dma", dma.active # None, Q!RequestsBus(qic), NEW d, WellFormed(d),
         NEW goes, EndOnError(d, goes), goes.role = "Dma", goes.slot = epoch.slot, goes.direction = epoch.direction,
         goes.writeAck => epoch.direction = "DeviceWrite" /\ qic.state.buffer # None,
         seen'.acks = seen.acks,
         \/ Failed(d)
         \/ /\ d.completion = None \/ d.completion.result = "Ok"
            /\ IF d.active # None THEN d.active.total = dma.active.total
               ELSE seen'.commits = dma.active.total
            /\ WordsOf(d)
            /\ d.state \in {"MemRequest", "MemResponse"} /\ epoch.direction = "DeviceWrite" =>
                 qic.state.buffer # None
  PROVE  HCInv' /\ FailureStep
<1> DEFINE over == d.completion # None /\ d.completion.result # "Ok"
<1>1. DmaOutcome(d, goes, FALSE, over)
  BY DEF EndOnError
<1>2. CardInBurst /\ dma.active.total = qic.state.request.words
  BY InDma
<1>3. CASE Failed(d)
  <2>1. /\ over /\ epoch' = NoEpoch /\ dma' = TakeCompletion(d)
        /\ out' = Drive(FALSE, d.completion.result # "Ok")
    BY <1>1, <1>3 DEF DmaOutcome, FinishCardTransaction, Failed
  <2>2. out'.ack = FALSE /\ out'.err = TRUE
    <3>1. (d.completion.result # "Ok") = TRUE
      BY <1>3 DEF Failed
    <3>2. out' = Drive(FALSE, TRUE)
      BY <2>1, <3>1
    <3>3. QED
      BY <3>2, OutIs, Zenon
  <2>3. CardInv' /\ SuccessAgrees' /\ FailureStep
    BY <2>2, DmaQuiet
  <2>4. QED
    BY <1>3, <2>1, <2>3, DmaEnds DEF Failed
<1>4. CASE ~Failed(d)
  <2>1. ~over
    BY <1>4
  <2>2. epoch' = goes /\ dma' = d /\ out' = Drive(FALSE, FALSE)
    BY <1>1, <2>1 DEF DmaOutcome
  <2> HIDE DEF over
  <2>3. out'.ack = FALSE /\ out'.err = FALSE
    BY <2>2, OutIs, Zenon
  <2>4. HostWords'
    <3>1. goes.writeAck => goes.direction = "DeviceWrite"
      OBVIOUS
    <3>2. WordsOf(d)
      BY <1>4
    <3>3. QED
      BY <2>2, <3>1, <3>2 DEF HostWords, WordsOf
  <2>5. HostHoldsWord' => epoch.direction = "DeviceWrite" /\ qic.state.buffer # None
    BY <1>4, <2>2 DEF HostHoldsWord
  <2>6. IF dma'.active # None THEN dma'.active.total = qic.state.request.words
        ELSE seen'.commits = qic.state.request.words
    BY <1>2, <1>4, <2>2
  <2>7. QED
    BY <1>2, <2>2, <2>3, <2>4, <2>5, <2>6, DmaGoesOn
<1>5. QED
  BY <1>3, <1>4

\* The engine waits for a word, or for memory.
LEMMA WaitingBurstClock ==
  ASSUME CoreInv, HCInv, NEW choice, NEW flip, HostClock(choice, flip),
         epoch.role = "Dma", ~epoch.writeAck, dma.active # None, Q!RequestsBus(qic),
         EndOnError(WaitCycle(dma), epoch), seen' = seen
  PROVE  HCInv' /\ FailureStep
<1> DEFINE d == WaitCycle(dma)
<1>1. WellFormed(dma) /\ WordsOf(dma)
  BY InDma DEF HCInv, HostWords, WordsOf
<1>2. WellFormed(d) /\ (Failed(d) \/ (KeepsBurst(dma, d) /\ d.state = dma.state))
  BY <1>1, WaitWell
<1>3. Failed(d) \/ SameWords(dma, d)
  BY <1>1, WaitWords
<1>4. dma.state \in {"MemRequest", "MemResponse"} /\ epoch.direction = "DeviceWrite" =>
        qic.state.buffer # None
  BY InDma DEF HostHoldsWord
<1> HIDE DEF d
<1>5. Failed(d) \/ (d.completion = None /\ d.active # None /\ d.active.total = dma.active.total /\ WordsOf(d)
                      /\ d.state = dma.state)
  BY <1>1, <1>2, <1>3 DEF KeepsBurst, SameWords, WordsOf
<1>6. EndOnError(d, epoch)
  BY DEF d
<1>7. QED
  BY <1>2, <1>4, <1>5, <1>6, SilentBurstClock

LEMMA CardWaitsCard ==
  ASSUME CoreInv, HCInv, NEW choice, NEW flip, HostClock(choice, flip), NEW request,
         Q!RequestsBus(qic), CardWaits(request)
  PROVE  HCInv' /\ FailureStep
<1>1. dma.active # None
  BY DEF CardWaits, CoreInv, WellFormed
<1>2. QED
  BY <1>1, WaitingBurstClock DEF CardWaits, DmaClock

LEMMA RequestMemoryCard ==
  ASSUME CoreInv, HCInv, NEW choice, NEW flip, HostClock(choice, flip), NEW request,
         Q!RequestsBus(qic), NEW ready \in BOOLEAN, RequestMemory(request, ready)
  PROVE  HCInv' /\ FailureStep
<1> DEFINE d == MemoryRequestAccepted(dma)
<1>1. /\ epoch.role = "Dma" /\ ~epoch.writeAck /\ dma.state = "MemRequest" /\ dma.active # None
      /\ WellFormed(dma) /\ WordsOf(dma) /\ seen' = seen
  BY DEF RequestMemory, DmaClock, CoreInv, WellFormed, HCInv, HostWords, WordsOf
<1>2. CASE ready = FALSE
  <2>1. EndOnError(WaitCycle(dma), epoch)
    BY <1>2 DEF RequestMemory
  <2>2. QED
    BY <1>1, <2>1, WaitingBurstClock
<1>3. CASE ready = TRUE
  <2>1. EndOnError(d, epoch)
    BY <1>3 DEF RequestMemory
  <2>2. WellFormed(d) /\ KeepsBurst(dma, d) /\ d.state = "MemResponse"
    BY <1>1, AcceptedWell
  <2>3. SameWords(dma, d)
    BY <1>1, AcceptedWords
  <2>4. epoch.direction = "DeviceWrite" => qic.state.buffer # None
    BY <1>1, InDma DEF HostHoldsWord
  <2> HIDE DEF d
  <2>5. /\ d.completion = None /\ d.active # None /\ d.active.total = dma.active.total
        /\ WordsOf(d)
    BY <1>1, <2>2, <2>3 DEF KeepsBurst, SameWords, WordsOf
  <2>6. QED
    BY <1>1, <2>1, <2>2, <2>4, <2>5, SilentBurstClock
<1>4. QED
  BY <1>2, <1>3

LEMMA CardWritesWordCard ==
  ASSUME CoreInv, HCInv, NEW choice, NEW flip, HostClock(choice, flip), NEW request,
         Q!RequestsBus(qic), NEW strobe, strobe = Q!Strobe(qic.state, Offered(flip)),
         strobe # None, strobe.kind = "Data", NEW pins \in {"Good", "BadParity"},
         CardWritesWord(request, strobe.value, pins)
  PROVE  /\ strobe.value \in Words
         /\ HCInv' /\ FailureStep
<1> DEFINE s == qic.state
           w == strobe.value
           d == OfferDeviceWrite(dma, w, pins = "Good")
<1>1. /\ epoch.role = "Dma" /\ ~epoch.writeAck /\ dma.state = "AwaitDeviceWrite"
      /\ EndOnError(d, epoch) /\ seen' = seen
  BY DEF CardWritesWord, DmaClock
<1>2. /\ WellFormed(dma) /\ dma.active # None /\ dma.active.direction = "DeviceWrite"
  BY <1>1 DEF CoreInv, WellFormed
<1>3. /\ BurstOfDmaEpoch(dma, epoch, seen) /\ CardInv /\ CardInBurst
      /\ s.completed = seen.acks /\ s.request.direction \in {"HostToDevice", "DeviceToHost"}
      /\ (epoch.direction = "DeviceWrite") <=> (s.request.direction = "DeviceToHost")
  BY <1>1, InDma
<1>4. /\ epoch.direction = "DeviceWrite" /\ dma.active.acknowledged = seen.acks
  <2>1. epoch.direction = "DeviceWrite"
    BY <1>2, <1>3 DEF BurstOfDmaEpoch
  <2>2. seen.acks \in Nat /\ seen.commits = seen.acks + 0
    BY <1>1, <1>3, InTheBurst DEF BurstOfDmaEpoch
  <2>3. dma.active.acknowledged = seen.commits - 0
    BY <1>1, <1>2, <1>3 DEF BurstOfDmaEpoch
  <2>4. QED
    BY <2>1, <2>2, <2>3
<1>5. w = s.buffer /\ s.buffer # None /\ s.request.direction = "DeviceToHost"
  BY <1>3, <1>4, StrobeIs DEF CardInBurst
<1>6. w \in Words /\ w = D!WordAt(s.completed)
  <2>1. QicShape(qic) /\ s \in DataStates
    BY <1>3 DEF CardInv, QicShape, QicState, Q!Idle, CardInBurst
  <2>2. /\ BurstState(qic) = s /\ dev.dma # None /\ dev.dma.active
    BY <1>3 DEF CardInv, RequestHeldOnce, Holds, D!Active, CardInBurst, QicShape, BurstState,
                Q!WorkerStates
  <2>3. WordsMoved(s, dev.dma)
    BY <1>3, <2>2 DEF CardInv, CardBurst, CardInBurst
  <2>4. QED
    BY <1>5, <2>1, <2>3 DEF WordsMoved, DataStates
<1>7. (pins = "Good") \in BOOLEAN
  OBVIOUS
<1>8. WellFormed(d) /\ (Failed(d) \/ (KeepsBurst(dma, d) /\ d.state = "MemRequest"))
  BY <1>1, <1>2, <1>6, <1>7, OfferWell
<1>9. Failed(d) \/ (d.active.total = dma.active.total /\ d.active.pendingWrite = w)
  BY <1>2, <1>6, <1>7, OfferWords
<1> HIDE DEF d, w, s
<1>10. Failed(d) \/ /\ d.completion = None /\ d.active # None
                    /\ d.active.total = dma.active.total /\ WordsOf(d)
  BY <1>3, <1>4, <1>6, <1>8, <1>9 DEF KeepsBurst, WordsOf
<1>11. qic.state.buffer # None
  BY <1>5 DEF s
<1>12. HCInv' /\ FailureStep
  BY <1>1, <1>2, <1>8, <1>10, <1>11, SilentBurstClock
<1>13. QED
  BY <1>6, <1>12 DEF w

LEMMA AwaitMemoryCard ==
  ASSUME CoreInv, HCInv, NEW choice, NEW flip, HostClock(choice, flip), NEW request,
         Q!RequestsBus(qic), NEW response \in MemoryMayAnswer, AwaitMemory(request, response)
  PROVE  /\ response \in MemoryResponses \cup {None}
         /\ HCInv' /\ FailureStep
<1> DEFINE d == MemoryResponse(dma, response)
           wrote == epoch.direction = "DeviceWrite" /\ response.kind = "WriteDone"
           read  == epoch.direction = "DeviceRead" /\ response.kind = "ReadData"
           goes == [epoch EXCEPT !.writeAck = wrote]
<1>1. /\ epoch.role = "Dma" /\ ~epoch.writeAck /\ dma.state = "MemResponse" /\ dma.active # None
      /\ WellFormed(dma) /\ WordsOf(dma)
  BY DEF AwaitMemory, DmaClock, CoreInv, WellFormed, HCInv, HostWords, WordsOf
<1>2. /\ epoch \in Epoch /\ BurstOfDmaEpoch(dma, epoch, seen) /\ seen.acks \in Nat /\ seen.commits \in Nat
      /\ seen \in [acks : Nat, commits : Nat, overtaken : [Slots -> Nat]]
  BY <1>1, InTheBurst DEF RestTyped
<1>3. epoch.direction = "DeviceWrite" => qic.state.buffer # None
  BY <1>1, InDma DEF HostHoldsWord
<1>4. dma.active.direction = epoch.direction /\ dma.active.acknowledged = seen.commits
  <2>1. dma.active.acknowledged = seen.commits - 0
    BY <1>1, <1>2 DEF BurstOfDmaEpoch
  <2>2. QED
    BY <1>1, <1>2, <2>1 DEF BurstOfDmaEpoch
<1>5. /\ response \in MemoryResponses \cup {None}
      /\ response # None /\ response.kind = "ReadData" =>
           response.value = D!WordAt(dma.active.acknowledged)
  <2>1. D!WordAt(dma.active.acknowledged) \in {0, 1}
    BY <1>2, <1>4 DEF D!WordAt
  <2>2. D!WordAt(dma.active.acknowledged) \in Words
    BY <2>1, CardInputs
  <2>3. response = None \/ response \in {[kind |-> "Fault", value |-> None],
          [kind |-> "WriteDone", value |-> None],
          [kind |-> "ReadData", value |-> D!WordAt(dma.active.acknowledged)]}
    BY <1>1 DEF MemoryMayAnswer
  <2> DEFINE v == D!WordAt(dma.active.acknowledged)
  <2> HIDE DEF v
  <2>4. v \in Words /\ (response = None \/ response \in {[kind |-> "Fault", value |-> None],
          [kind |-> "WriteDone", value |-> None], [kind |-> "ReadData", value |-> v]})
    BY <2>2, <2>3 DEF v
  <2>5. /\ response \in MemoryResponses \cup {None}
        /\ response # None /\ response.kind = "ReadData" => response.value = v
    BY <2>4 DEF MemoryResponses
  <2>6. QED
    BY <2>5 DEF v
<1>6. CASE response = None
  <2>1. EndOnError(WaitCycle(dma), epoch) /\ seen' = seen
    BY <1>6 DEF AwaitMemory
  <2>2. QED
    BY <1>1, <1>5, <2>1, WaitingBurstClock
<1>7. CASE response # None
  <2>1. /\ EndOnError(d, goes)
        /\ seen' = [seen EXCEPT !.commits = @ + (IF wrote \/ read THEN 1 ELSE 0)]
    BY <1>7 DEF AwaitMemory
  <2>2. seen'.acks = seen.acks /\ seen'.commits = seen.commits + (IF wrote \/ read THEN 1 ELSE 0)
    BY <1>2, <2>1
  <2>3. /\ goes.role = "Dma" /\ goes.slot = epoch.slot /\ goes.direction = epoch.direction
        /\ goes.writeAck = wrote
    BY <1>1, <1>2 DEF Epoch
  <2>4. goes.writeAck => epoch.direction = "DeviceWrite" /\ qic.state.buffer # None
    BY <1>3, <2>3
  <2>5. /\ wrote => d = BeatDone(dma, "AwaitDeviceWrite")
        /\ read => WellFormed(d) /\ KeepsBurst(dma, d) /\ d.state = "DeviceReadReady"
        /\ ~wrote /\ ~read => WellFormed(d) /\ Failed(d)
    BY <1>1, <1>4, <1>5, <1>7, ResponseWell
  <2>6. read => /\ d.active.total = dma.active.total /\ d.active.pendingWrite = dma.active.pendingWrite
                /\ d.active.readData = response.value
    BY <1>1, <1>4, ReadWords
  <2>7. wrote => /\ dma.active.direction = "DeviceWrite" /\ ~read
                 /\ "AwaitDeviceWrite" \in {"MemRequest", "AwaitDeviceWrite"}
    BY <1>4
  <2>8. read => response.value = D!WordAt(dma.active.acknowledged) /\ epoch.direction # "DeviceWrite"
    BY <1>5, <1>7
  <2> HIDE DEF d, wrote, read, goes
  <2>9. CASE wrote
    <3>1. /\ WellFormed(d)
          /\ \/ Failed(d)
             \/ d.active = None /\ d.state = "Idle" /\ d.completion # None /\ d.completion.result = "Ok"
             \/ d.active # None /\ d.completion = None /\ d.state = "AwaitDeviceWrite"
      <4> DEFINE n == dma.active.acknowledged + 1
      <4>1. /\ WellFormed(d)
            /\ \/ Failed(d)
               \/ /\ d.active = None /\ d.state = "Idle"
                  /\ d.completion = [result |-> "Ok", beats |-> n] /\ d.completion # None
               \/ /\ d.active # None /\ d.completion = None /\ d.state = "AwaitDeviceWrite"
        BY <1>1, <2>5, <2>7, <2>9, BeatDoneWell
      <4> HIDE DEF n
      <4>2. QED
        BY <4>1
    <3>2. \/ Failed(d)
          \/ d.active = None /\ dma.active.acknowledged + 1 = dma.active.total
          \/ /\ d.active # None /\ d.active.total = dma.active.total
             /\ d.active.pendingWrite = None
      BY <1>1, <2>5, <2>7, <2>9, BeatWords
    <3>3. seen'.commits = dma.active.acknowledged + 1
      BY <1>2, <1>4, <2>2, <2>9
    <3>4. \/ Failed(d)
          \/ /\ d.completion = None \/ d.completion.result = "Ok"
             /\ IF d.active # None THEN d.active.total = dma.active.total
                ELSE seen'.commits = dma.active.total
             /\ WordsOf(d)
             /\ d.state \notin {"MemRequest", "MemResponse"}
      BY <3>1, <3>2, <3>3 DEF Failed, WordsOf
    <3>5. QED
      BY <1>1, <1>5, <2>1, <2>2, <2>3, <2>4, <3>1, <3>4, SilentBurstClock
  <2>10. CASE read
    <3>1. /\ WellFormed(d) /\ d.completion = None /\ d.active # None
          /\ d.active.total = dma.active.total /\ WordsOf(d) /\ d.state = "DeviceReadReady"
      BY <1>1, <2>5, <2>6, <2>8, <2>10 DEF KeepsBurst, WordsOf
    <3>2. QED
      BY <1>1, <1>5, <2>1, <2>2, <2>3, <2>4, <3>1, SilentBurstClock
  <2>11. CASE ~wrote /\ ~read
    <3>1. WellFormed(d) /\ Failed(d)
      BY <2>5, <2>11
    <3>2. QED
      BY <1>1, <1>5, <2>1, <2>2, <2>3, <2>4, <3>1, SilentBurstClock
  <2>12. QED
    BY <2>9, <2>10, <2>11
<1>8. QED
  BY <1>6, <1>7

LEMMA AcknowledgeWriteCard ==
  ASSUME CoreInv, HCInv, NEW choice, NEW flip, HostClock(choice, flip), NEW request,
         Q!RequestsBus(qic), AcknowledgeWrite(request)
  PROVE  HCInv' /\ FailureStep
<1> DEFINE s == qic.state
           goes == [epoch EXCEPT !.writeAck = FALSE]
           over == dma.completion # None
<1>1. /\ epoch.role = "Dma" /\ epoch \in Epoch /\ WellFormed(dma) /\ WordsOf(dma)
      /\ BurstOfDmaEpoch(dma, epoch, seen) /\ seen.acks \in Nat /\ seen.commits \in Nat
      /\ seen \in [acks : Nat, commits : Nat, overtaken : [Slots -> Nat]]
  BY InTheBurst DEF AcknowledgeWrite, DmaClock, HCInv, HostWords, WordsOf, RestTyped
<1>2. epoch.writeAck = TRUE
  BY <1>1 DEF AcknowledgeWrite, BurstOfDmaEpoch, WellFormed, Epoch
<1>3. /\ CardInBurst /\ ~Q!FinalReadBuffer(s) /\ s.completed = seen.acks
      /\ epoch.direction = HostDirection(s.request.direction)
      /\ (epoch.direction = "DeviceWrite") <=> (s.request.direction = "DeviceToHost")
      /\ IF dma.active # None THEN dma.active.total = s.request.words
         ELSE seen.commits = s.request.words
      /\ s.buffer # None /\ epoch.slot = Card
  BY <1>1, <1>2, InDma DEF HostHoldsWord
<1>4. /\ epoch.direction = "DeviceWrite" /\ s.request.direction = "DeviceToHost"
      /\ dma.state \in {"Idle", "AwaitDeviceWrite"} /\ seen.commits = seen.acks + 1
  BY <1>1, <1>2, <1>3 DEF HCInv, HostWords, BurstOfDmaEpoch
<1>5. DmaOutcome(dma, goes, TRUE, over)
  BY <1>2 DEF AcknowledgeWrite, EndOnCompletion
<1>6. seen'.acks = seen.acks + 1 /\ seen'.commits = seen.commits
  BY <1>1, <1>2 DEF AcknowledgeWrite
<1>7. over => dma.active = None /\ dma.state = "Idle" /\ dma.completion.result = "Ok"
  BY <1>1 DEF BurstOfDmaEpoch, WellFormed
<1>8. out'.ack = TRUE /\ out'.err = FALSE
  <2>1. CASE over
    <3>1. (dma.completion.result # "Ok") = FALSE
      BY <1>7, <2>1
    <3>2. out' = Drive(TRUE, FALSE)
      BY <1>5, <2>1, <3>1 DEF DmaOutcome
    <3>3. QED
      BY <3>2, OutIs, Zenon
  <2>2. CASE ~over
    <3>1. out' = Drive(TRUE, FALSE)
      BY <1>5, <2>2 DEF DmaOutcome
    <3>2. QED
      BY <3>1, OutIs, Zenon
  <2>3. QED
    BY <2>1, <2>2
<1>9. PICK bus : bus = Answered(flip)
  OBVIOUS
<1>10. /\ ChoiceShape(choice) /\ CardClock(bus, choice) /\ CardInv /\ BusShape(bus)
       /\ bus.ack = TRUE /\ bus.err = FALSE /\ bus.grant
  BY <1>1, <1>8, <1>9, HostClockIs DEF CardRoles
<1>11. WordComes(bus)
  BY <1>4 DEF WordComes
<1>12. /\ CardInv' /\ qic'.tail = None
       /\ \/ qic'.state.at = "DmaComplete" /\ qic'.state.status # "Ok"
          \/ /\ qic'.state.at = "DmaComplete"
             /\ qic'.state.completed = s.completed + 1 /\ s.completed + 1 = s.request.words
          \/ /\ qic'.state.at = "DmaData" /\ qic'.state.request = s.request
             /\ qic'.state.completed = s.completed + 1
  BY <1>3, <1>4, <1>10, <1>11, DmaDataClock DEF CardInBurst
<1>13. qic'.state.at = "DmaData" => ~Q!FinalReadBuffer(qic'.state) /\ CardInBurst'
  BY <1>4, <1>12 DEF Q!FinalReadBuffer, CardInBurst
<1>14. BurstState(qic') = qic'.state
  BY <1>12 DEF BurstState
<1>15. CASE over
  <2>1. epoch' = NoEpoch /\ dma' = TakeCompletion(dma) /\ epoch'.role # "Dma"
    BY <1>5, <1>15 DEF DmaOutcome, FinishCardTransaction, NoEpoch
  <2>2. SuccessAgrees'
    BY <1>3, <1>4, <1>6, <1>12, <1>13, <1>14, <2>1 DEF SuccessAgrees, Succeeded
  <2>3. HCInv'
    BY <1>1, <1>7, <1>12, <1>15, <2>1, <2>2, DmaEnds
  <2>4. FailureStep
    <3>1. done \in [worker : WorkerResults \cup {None}, dma : Completion \cup {Protection, None}]
      BY TypeOKIs DEF CoreInv, RestTyped
    <3>2. done'.dma = dma.completion
      BY <1>5, <1>15, <3>1 DEF DmaOutcome
    <3>3. QED
      BY <1>7, <1>15, <3>2 DEF FailureStep
  <2>5. QED
    BY <2>3, <2>4
<1>16. CASE ~over
  <2>1. epoch' = goes /\ dma' = dma /\ done' = done
    BY <1>5, <1>16 DEF DmaOutcome
  <2>2. /\ epoch'.role = "Dma" /\ epoch'.slot = Card /\ epoch'.direction = epoch.direction
        /\ epoch'.writeAck = FALSE
    BY <1>1, <1>3, <2>1 DEF Epoch
  <2>3. dma.active # None /\ dma.state = "AwaitDeviceWrite"
    BY <1>1, <1>4, <1>16 DEF BurstOfDmaEpoch, WellFormed
  <2>4. s.completed + 1 < s.request.words
    <3>1. dma.active.acknowledged = seen.commits - 0 /\ dma.active.acknowledged < dma.active.total
      BY <1>1, <1>4, <2>3 DEF BurstOfDmaEpoch, WellFormed
    <3>2. QED
      BY <1>1, <1>3, <1>4, <2>3, <3>1
  <2>5. ~Succeeded(BurstState(qic'))
    BY <1>3, <1>12, <1>13, <1>14, <1>1, <2>4 DEF Succeeded
  <2>6. SuccessAgrees' /\ FailureStep
    BY <2>1, <2>5 DEF SuccessAgrees, FailureStep
  <2>7. HostWords'
    BY <1>1, <2>1, <2>2, <2>3 DEF HostWords, WordsOf
  <2>8. BurstAgrees'
    <3>1. ~HostHoldsWord'
      BY <2>1, <2>2, <2>3 DEF HostHoldsWord
    <3>2. CASE qic'.state.at = "DmaComplete"
      BY <1>1, <1>3, <1>12, <2>4, <3>2 DEF BurstAgrees
    <3>3. CASE qic'.state.at # "DmaComplete"
      BY <1>3, <1>6, <1>12, <1>13, <2>1, <2>2, <2>3, <3>1, <3>3 DEF BurstAgrees
    <3>4. QED
      BY <3>2, <3>3
  <2>9. BusAgrees'
    BY <2>2, <2>8 DEF BusAgrees
  <2>10. QED
    BY <1>12, <2>6, <2>7, <2>9 DEF HCInv
<1>17. QED
  BY <1>15, <1>16

LEMMA CardReadsWordCard ==
  ASSUME CoreInv, HCInv, NEW choice, NEW flip, HostClock(choice, flip), NEW request,
         Q!RequestsBus(qic), NEW strobe, strobe = Q!Strobe(qic.state, Offered(flip)),
         strobe # None, strobe.kind = "Data", CardReadsWord(request)
  PROVE  HCInv' /\ FailureStep
<1> DEFINE s == qic.state
           d == BeatDone(dma, "MemRequest")
           over == d.completion # None
<1>1. /\ epoch.role = "Dma" /\ epoch \in Epoch /\ WellFormed(dma)
      /\ ~epoch.writeAck /\ dma.state = "DeviceReadReady" /\ dma.active # None
      /\ BurstOfDmaEpoch(dma, epoch, seen) /\ seen.acks \in Nat /\ seen.commits \in Nat
      /\ seen \in [acks : Nat, commits : Nat, overtaken : [Slots -> Nat]]
  BY InTheBurst DEF CardReadsWord, DmaClock, RestTyped, WellFormed
<1>2. /\ CardInBurst /\ ~Q!FinalReadBuffer(s) /\ s.completed = seen.acks /\ epoch.slot = Card
      /\ epoch.direction = HostDirection(s.request.direction)
      /\ s.request.direction \in {"HostToDevice", "DeviceToHost"}
      /\ (epoch.direction = "DeviceWrite") <=> (s.request.direction = "DeviceToHost")
      /\ dma.active.total = s.request.words
  BY <1>1, InDma
<1>3. /\ epoch.direction = "DeviceRead" /\ s.request.direction = "HostToDevice"
      /\ seen.commits = seen.acks + 1 /\ dma.active.acknowledged = seen.acks
  <2>1. epoch.direction = "DeviceRead" /\ seen.commits = seen.acks + 1
        /\ dma.active.acknowledged = seen.commits - 1
    BY <1>1 DEF BurstOfDmaEpoch, WellFormed
  <2>2. QED
    BY <1>1, <1>2, <2>1
<1>4. s.buffer = None
  BY <1>2, <1>3, StrobeIs DEF CardInBurst
<1>5. DmaOutcome(d, epoch, TRUE, over)
  BY DEF CardReadsWord, AcknowledgeDeviceRead, EndOnCompletion
<1>6. seen'.acks = seen.acks + 1 /\ seen'.commits = seen.commits
  BY <1>1 DEF CardReadsWord
<1>7. /\ WellFormed(d)
      /\ \/ Failed(d)
         \/ d.active = None /\ d.state = "Idle" /\ d.completion # None /\ d.completion.result = "Ok"
         \/ /\ d.active # None /\ d.completion = None /\ d.state = "MemRequest"
            /\ d.active.acknowledged = dma.active.acknowledged + 1
  <2> DEFINE n == dma.active.acknowledged + 1
  <2>1. /\ WellFormed(d)
        /\ \/ Failed(d)
           \/ /\ d.active = None /\ d.state = "Idle"
              /\ d.completion = [result |-> "Ok", beats |-> n] /\ d.completion # None
           \/ /\ d.active # None /\ d.completion = None /\ d.state = "MemRequest"
              /\ d.active.acknowledged = n
    BY <1>1, BeatDoneWell
  <2> HIDE DEF n, d
  <2>2. \/ Failed(d)
        \/ d.active = None /\ d.state = "Idle" /\ d.completion # None /\ d.completion.result = "Ok"
        \/ /\ d.active # None /\ d.completion = None /\ d.state = "MemRequest"
           /\ d.active.acknowledged = n
    BY <2>1
  <2>3. QED
    BY <2>1, <2>2 DEF n
<1>8. \/ Failed(d)
      \/ d.active = None /\ dma.active.acknowledged + 1 = dma.active.total
      \/ /\ d.active # None /\ d.active.total = dma.active.total
         /\ d.active.pendingWrite = None
  BY <1>1, BeatWords
<1> HIDE DEF d
<1>9. PICK bad : bad = (over /\ d.completion.result # "Ok")
  OBVIOUS
<1>10. bad \in BOOLEAN /\ (bad <=> Failed(d))
  BY <1>7, <1>9 DEF Failed
<1>11. out'.ack = TRUE /\ out'.err = bad
  <2>1. CASE over
    <3>1. (d.completion.result # "Ok") = bad
      BY <1>9, <2>1
    <3>2. out' = Drive(TRUE, bad)
      BY <1>5, <2>1, <3>1 DEF DmaOutcome
    <3>3. QED
      BY <3>2, OutIs, Zenon
  <2>2. CASE ~over
    <3>1. out' = Drive(TRUE, FALSE)
      BY <1>5, <2>2 DEF DmaOutcome
    <3>2. out'.ack = TRUE /\ out'.err = FALSE
      BY <3>1, OutIs, Zenon
    <3>3. bad = FALSE
      BY <1>9, <2>2
    <3>4. QED
      BY <3>2, <3>3
  <2>3. QED
    BY <2>1, <2>2
<1>12. PICK bus : bus = Answered(flip)
  OBVIOUS
<1>13. out'.ack \in BOOLEAN /\ out'.err \in BOOLEAN /\ flip \in BOOLEAN
  BY <1>10, <1>11 DEF HostClock
<1>14. /\ ChoiceShape(choice) /\ CardClock(bus, choice) /\ CardInv /\ BusShape(bus)
       /\ bus.ack = TRUE /\ bus.err = bad /\ bus.grant
  BY <1>1, <1>11, <1>12, <1>13, HostClockIs DEF CardRoles
<1>15. WordComes(bus)
  <2>1. bus.data \in {None, D!WordAt(dma.active.acknowledged)}
    BY <1>1, <1>12, <1>13, BusIs
  <2>2. QED
    BY <1>2, <1>3, <2>1 DEF WordComes
<1>16. /\ CardInv' /\ qic'.tail = None
       /\ \/ qic'.state.at = "DmaComplete" /\ qic'.state.status # "Ok"
          \/ /\ ~bad /\ qic'.state.at = "DmaData" /\ qic'.state.request = s.request
             /\ qic'.state.completed = s.completed + 1
  BY <1>2, <1>3, <1>4, <1>14, <1>15, DmaDataClock DEF CardInBurst
<1>17. BurstState(qic') = qic'.state
  BY <1>16 DEF BurstState
<1>18. CASE over
  <2>1. epoch' = NoEpoch /\ dma' = TakeCompletion(d) /\ epoch'.role # "Dma"
    BY <1>5, <1>18 DEF DmaOutcome, FinishCardTransaction, NoEpoch
  <2>2. d.active = None /\ d.state = "Idle"
    BY <1>7, <1>18 DEF Failed
  <2>3. SuccessAgrees'
    BY <1>2, <1>3, <1>6, <1>16, <1>17, <2>1 DEF SuccessAgrees, Succeeded
  <2>4. HCInv'
    BY <1>7, <1>16, <2>1, <2>2, <2>3, DmaEnds
  <2>5. FailureStep
    <3>1. done \in [worker : WorkerResults \cup {None}, dma : Completion \cup {Protection, None}]
      BY TypeOKIs DEF CoreInv, RestTyped
    <3>2. done'.dma = d.completion
      BY <1>5, <1>18, <3>1 DEF DmaOutcome
    <3>3. done'.dma.result # "Ok" => bad
      BY <1>9, <1>18, <3>2
    <3>4. bad => ~CardSucceeds'
      BY <1>16 DEF CardSucceeds, Succeeded
    <3>5. QED
      BY <3>3, <3>4 DEF FailureStep
  <2>6. QED
    BY <2>4, <2>5
<1>19. CASE ~over
  <2>1. epoch' = epoch /\ dma' = d /\ done' = done
    BY <1>5, <1>19 DEF DmaOutcome
  <2>2. /\ d.active # None /\ d.active.total = dma.active.total /\ d.active.pendingWrite = None
        /\ d.state = "MemRequest"
    BY <1>7, <1>8, <1>19 DEF Failed
  <2>3. s.completed + 1 < s.request.words
    <3>1. d.active.acknowledged = seen.acks + 1 /\ d.active.acknowledged < d.active.total
      BY <1>3, <1>7, <2>2 DEF WellFormed, Failed
    <3>2. QED
      BY <1>2, <2>2, <3>1
  <2>4. /\ qic'.state.at = "DmaData" => ~Q!FinalReadBuffer(qic'.state) /\ CardInBurst'
        /\ ~Succeeded(BurstState(qic'))
    <3>1. qic'.state.at = "DmaData" => ~Q!FinalReadBuffer(qic'.state)
      BY <1>1, <1>2, <1>16, <2>3 DEF Q!FinalReadBuffer
    <3>2. QED
      BY <1>16, <1>17, <3>1 DEF Succeeded, CardInBurst
  <2>5. SuccessAgrees' /\ FailureStep
    BY <2>1, <2>4 DEF SuccessAgrees, FailureStep
  <2>6. HostWords'
    BY <1>1, <2>1, <2>2 DEF HostWords
  <2>7. BurstAgrees'
    <3>1. ~HostHoldsWord'
      BY <1>1, <1>3, <2>1 DEF HostHoldsWord
    <3>2. CASE qic'.state.at = "DmaComplete"
      BY <1>16, <3>2 DEF BurstAgrees
    <3>3. CASE qic'.state.at # "DmaComplete"
      BY <1>2, <1>6, <1>16, <2>1, <2>2, <2>4, <3>1, <3>3 DEF BurstAgrees
    <3>4. QED
      BY <3>2, <3>3
  <2>8. BusAgrees'
    BY <1>1, <1>2, <2>1, <2>7 DEF BusAgrees
  <2>9. QED
    BY <1>16, <2>5, <2>6, <2>8 DEF HCInv
<1>20. QED
  BY <1>18, <1>19

-----------------------------------------------------------------------------
(* Reset, software, and what the device asks for.                           *)

\* A card just out of reset.
Fresh     == qic = Q!NewQic /\ dev = D!NewDevice
NoSuccess == ~Succeeded(BurstState(qic))

LEMMA FreshCard == Fresh => CardInv /\ NoSuccess
<1> SUFFICES ASSUME qic = Q!NewQic, dev = D!NewDevice
             PROVE  CardInv /\ ~Succeeded(BurstState(qic))
  BY DEF Fresh, NoSuccess
<1>1. /\ qic = [state |-> Q!Idle, suspended |-> None, tail |-> None, grantUsed |-> FALSE]
      /\ qic.state = Q!Idle /\ qic.suspended = None /\ qic.tail = None /\ qic.grantUsed = FALSE
      /\ qic.state.at = "Idle"
  BY DEF Q!NewQic, Q!Idle
<1>2. dev = [mmio |-> None, dma |-> None, notification |-> None]
      /\ dev.mmio = None /\ dev.dma = None
  BY DEF D!NewDevice
<1>3. QicShape(qic)
  BY <1>1 DEF QicShape, QicState
<1>4. DeviceShape(dev)
  BY <1>2 DEF DeviceShape
<1>5. AccessHeldOnce
  BY <1>1, <1>2 DEF AccessHeldOnce
<1>6. RequestHeldOnce
  BY <1>1, <1>2 DEF RequestHeldOnce, Holds, D!Active
<1>7. ~Succeeded(BurstState(qic))
  BY <1>1 DEF Succeeded, BurstState
<1>8. QED
  BY <1>2, <1>3, <1>4, <1>5, <1>6, <1>7 DEF CardInv

LEMMA InitCard == HCInit => CoreInv /\ HCInv
<1> SUFFICES ASSUME HCInit PROVE CoreInv /\ HCInv
  OBVIOUS
<1>1. CoreInv
  BY InitCoreInv DEF HCInit
<1>2. CardInv /\ ~Succeeded(BurstState(qic))
  BY FreshCard DEF HCInit, Fresh, NoSuccess
<1>3. /\ epoch.role = "Idle" /\ ~epoch.writeAck /\ dma.active = None /\ dma.state = "Idle"
  BY DEF HCInit, Init, NoEpoch, NewEngine
<1>4. HostWords /\ BusAgrees /\ SuccessAgrees
  BY <1>2, <1>3 DEF HostWords, BusAgrees, SuccessAgrees
<1>5. QED
  BY <1>1, <1>2, <1>4 DEF HCInv

\* Reset leaves a new card, and a controller with no transaction.
LEMMA ResetCard ==
  ASSUME CoreInv, HCInv, HCReset
  PROVE  HCInv' /\ FailureStep /\ out'.reset
<1>1. /\ epoch' = NoEpoch /\ dma' = TakeCompletion(Reset(dma))
      /\ out' = [Silent EXCEPT !.reset = TRUE]
      /\ qic' = Q!Clock(qic, InReset, D!NewDevice) /\ dev' = D!NewDevice
  BY DEF HCReset, ResetHost
<1>2. InReset.reset = TRUE
  <2> DEFINE off == Offered(FALSE)
  <2>1. PICK o : o = off
    OBVIOUS
  <2>2. InReset = [o EXCEPT !.reset = TRUE, !.selected = FALSE, !.grant = FALSE,
                            !.address = None, !.dataStrobe = FALSE]
    BY <2>1 DEF InReset
  <2>3. o = [reset |-> o.reset, selected |-> o.selected, grant |-> o.grant, address |-> o.address,
             dataStrobe |-> o.dataStrobe, data |-> o.data, ack |-> o.ack, err |-> o.err]
    BY <2>1, Zenon DEF Offered
  <2> HIDE DEF off
  <2>4. QED
    BY <2>2, <2>3
<1>3. qic' = Q!NewQic
  BY <1>1, <1>2 DEF Q!Clock
<1>4. CardInv' /\ ~Succeeded(BurstState(qic'))
  <2>1. Fresh'
    BY <1>1, <1>3 DEF Fresh
  <2>2. CardInv' /\ NoSuccess'
    BY <2>1, FreshCard, PTL
  <2>3. QED
    BY <2>2 DEF NoSuccess
<1>5. SuccessAgrees' /\ FailureStep
  BY <1>4, SuccessIsOfBurst DEF SuccessAgrees, FailureStep, CardInv, CardSucceeds
<1>6. WellFormed(Reset(dma)) /\ Reset(dma).active = None /\ Reset(dma).state = "Idle"
  BY ResetWell DEF CoreInv
<1>7. HCInv'
  BY <1>1, <1>4, <1>5, <1>6, DmaEnds
<1>8. QED
  BY <1>1, <1>5, <1>7 DEF Silent

\* What the host has in hand for the card is as it was.
LEMMA HostStandsStill ==
  ASSUME CoreInv, HCInv, UNCHANGED <<epoch, worker, seen, qic, dev>>,
         done'.worker \in {done.worker, None}, dma'.state = dma.state,
         (dma'.active = None) <=> (dma.active = None),
         dma.active # None => SameWords(dma, dma') /\ dma'.active.acknowledged = dma.active.acknowledged
  PROVE  HCInv'
<1>1. CardInv'
  BY DEF HCInv, CardInv, AccessHeldOnce, RequestHeldOnce, Holds
<1>2. HostWords'
  BY DEF HCInv, HostWords, SameWords
<1>3. SuccessAgrees'
  BY DEF HCInv, SuccessAgrees
<1>4. epoch.address # None /\ AddressAgrees /\ epoch.role = "Grant" => AddressAgrees'
  <2> SUFFICES ASSUME epoch.address # None, AddressAgrees, epoch.role = "Grant" PROVE AddressAgrees'
    OBVIOUS
  <2>1. epoch.address.ok => dma.active # None
    BY DEF CoreInv, BurstOfEpoch
  <2>2. QED
    BY <2>1 DEF AddressAgrees, SameWords
<1>5. BurstAgrees => BurstAgrees'
  BY DEF BurstAgrees, CardInBurst, HostHoldsWord, SameWords
<1>6. AccessAgrees => AccessAgrees'
  BY DEF AccessAgrees
<1>7. BusAgrees'
  BY <1>4, <1>5, <1>6 DEF HCInv, BusAgrees
<1>8. QED
  BY <1>1, <1>2, <1>3, <1>7 DEF HCInv

LEMMA SoftwareCard ==
  ASSUME CoreInv, HCInv, HCSoftware
  PROVE  HCInv' /\ FailureStep
<1>1. /\ WellFormed(dma) /\ qic' = qic /\ dev' = dev
      /\ done \in [worker : WorkerResults \cup {None}, dma : Completion \cup {Protection, None}]
  BY TypeOKIs DEF HCSoftware, CoreInv, RestTyped
<1>2. CASE \E s \in BoundSlots, c \in Channels, mapping \in Mappings : BindDma(s, c, mapping)
  <2>1. PICK s \in BoundSlots, c \in Channels, mapping \in Mappings : BindDma(s, c, mapping)
    BY <1>2
  <2>2. s \in Slots /\ mapping[1] \in Nat /\ mapping[2] \in Nat
    BY CoreInputs
  <2>3. /\ dma' = Bind(dma, s, c, mapping[1], mapping[2], TRUE, TRUE)
        /\ UNCHANGED <<epoch, worker, seen, done>>
    BY <2>1 DEF BindDma
  <2>4. dma'.active = dma.active /\ dma'.state = dma.state
    BY <1>1, <2>2, <2>3, BindWell
  <2>5. QED
    BY <1>1, <2>3, <2>4, HostStandsStill DEF FailureStep, SameWords
<1>3. CASE \E s \in BoundSlots, c \in Channels : RevokeDma(s, c)
  <2>1. PICK s \in BoundSlots, c \in Channels : RevokeDma(s, c)
    BY <1>3
  <2>2. s \in Slots
    BY CoreInputs
  <2>3. /\ dma' = Revoke(dma, s, c) /\ UNCHANGED <<epoch, worker, seen, done>>
    BY <2>1 DEF RevokeDma
  <2>4. /\ dma'.state = dma.state
        /\ (dma'.active = None) <=> (dma.active = None)
        /\ dma.active # None => dma'.active.acknowledged = dma.active.acknowledged
    BY <1>1, <2>2, <2>3, RevokeWell DEF KeepsBurst
  <2>5. dma.active # None => SameWords(dma, dma')
    BY <1>1, <2>3, RevokeWords
  <2>6. QED
    BY <1>1, <2>3, <2>4, <2>5, HostStandsStill DEF FailureStep
<1>4. CASE ClaimNotification \/ TakeWorkerCompletion \/ TakeDmaCompletion
  <2>1. /\ UNCHANGED <<dma, epoch, worker, seen>>
        /\ \/ done' = done
           \/ done' = [done EXCEPT !.worker = None]
           \/ done' = [done EXCEPT !.dma = None] /\ done.dma # None
    BY <1>4 DEF ClaimNotification, TakeWorkerCompletion, TakeDmaCompletion
  <2>2. done'.worker \in {done.worker, None} /\ FailureStep
    BY <1>1, <2>1 DEF FailureStep
  <2>3. QED
    BY <1>1, <2>1, <2>2, HostStandsStill DEF SameWords
<1>5. QED
  BY <1>2, <1>3, <1>4 DEF HCSoftware

LEMMA DeviceWantsCard ==
  ASSUME CoreInv, HCInv, DeviceWantsDma \/ DeviceWantsNotification
  PROVE  HCInv' /\ FailureStep
<1>1. /\ UNCHANGED <<vars, qic>> /\ DeviceShape(dev)
  BY DEF DeviceWantsDma, DeviceWantsNotification, HCInv, CardInv
<1>2. /\ DeviceShape(dev') /\ dev'.mmio = dev.mmio
      /\ \/ dev'.dma = dev.dma
         \/ /\ dev.dma = None /\ dev'.dma # None /\ dev'.dma.active = FALSE /\ dev'.dma.moved = 0
  <2>1. CASE DeviceWantsDma
    <3>1. PICK request \in CardRequests :
            dev' = [dev EXCEPT !.dma = [request |-> request, active |-> FALSE, moved |-> 0]]
      BY <2>1 DEF DeviceWantsDma, D!WantsDma
    <3> DEFINE b == [request |-> request, active |-> FALSE, moved |-> 0]
    <3>2. b \in BurstStates /\ b.active = FALSE /\ b.moved = 0
      BY CardInputs DEF BurstStates
    <3>3. b # None
      BY <3>2, NoneIsNoValue
    <3> HIDE DEF b
    <3>4. dev' = [dev EXCEPT !.dma = b]
      BY <3>1 DEF b
    <3>5. QED
      BY <1>1, <2>1, <3>2, <3>3, <3>4 DEF DeviceShape, DeviceWantsDma
  <2>2. CASE DeviceWantsNotification
    <3>1. PICK channel \in CardChannels : dev' = [dev EXCEPT !.notification = channel]
      BY <2>2 DEF DeviceWantsNotification, D!WantsNotification
    <3>2. channel \in NotifyChannels
      BY CardInputs
    <3>3. QED
      BY <1>1, <3>1, <3>2 DEF DeviceShape
  <2>3. QED
    BY <2>1, <2>2
<1>3. CardInv'
  <2>1. AccessHeldOnce'
    BY <1>1, <1>2 DEF HCInv, CardInv, AccessHeldOnce
  <2>2. RequestHeldOnce'
    BY <1>1, <1>2 DEF HCInv, CardInv, RequestHeldOnce, Holds, D!Active
  <2>3. dev'.dma # None => IF dev'.dma.active THEN CardBurst(qic', dev'.dma) ELSE dev'.dma.moved = 0
    BY <1>1, <1>2 DEF HCInv, CardInv
  <2>4. QED
    BY <1>1, <1>2, <2>1, <2>2, <2>3 DEF HCInv, CardInv
<1>4. UNCHANGED <<dma, epoch, worker, done, seen>>
  BY <1>1 DEF vars
<1>5. AccessAgrees => AccessAgrees'
  BY <1>1, <1>2, <1>4 DEF AccessAgrees
<1>6. HostWords' /\ SuccessAgrees' /\ FailureStep
  BY <1>1, <1>4 DEF HCInv, HostWords, SuccessAgrees, FailureStep
<1>7. (BurstAgrees => BurstAgrees') /\ (AddressAgrees => AddressAgrees')
  BY <1>1, <1>4 DEF BurstAgrees, CardInBurst, HostHoldsWord, AddressAgrees
<1>8. BusAgrees'
  BY <1>1, <1>4, <1>5, <1>7 DEF HCInv, BusAgrees
<1>9. QED
  BY <1>3, <1>6, <1>8 DEF HCInv

\* What the card puts on its pins.
LEMMA PinsAre ==
  ASSUME NEW off, NEW drive, NEW pins, pins = Q!CardPins(qic, off, drive)
  PROVE  /\ pins.request => Q!RequestsBus(qic)
         /\ pins.strobe = Q!Strobe(qic.state, off)
         /\ pins.reply = Q!Reply(qic, off, drive)
<1>1. PICK r, s, a : r = Q!RequestsBus(qic) /\ s = Q!Strobe(qic.state, off) /\ a = Q!Reply(qic, off, drive)
  OBVIOUS
<1>2. pins = [request |-> r, reply |-> a, strobe |-> s]
  BY <1>1 DEF Q!CardPins
<1>3. pins.request = r /\ pins.reply = a /\ pins.strobe = s
  BY <1>2
<1>4. QED
  BY <1>1, <1>3

\* The addresses the card strobes are ones the controller can decode.
LEMMA StrobedAddress ==
  ASSUME CardInv, NEW off, NEW strobe, strobe = Q!Strobe(qic.state, off), strobe # None
  PROVE  /\ strobe.kind = "HostDma" =>
              /\ strobe.value.handle \in Handles /\ strobe.value.words \in Bursts
              /\ HostDirection(strobe.value.direction) \in Directions
         /\ strobe.kind = "Controller" => strobe.value \in NotifyChannels
<1>1. QicState(qic.state)
  BY DEF CardInv, QicShape
<1>2. CASE strobe.kind = "HostDma"
  <2>1. qic.state.at = "DmaAddress" /\ strobe.value = qic.state.request
    BY <1>2, StrobeIs
  <2>2. strobe.value \in DmaRequest
    BY <1>1, <2>1 DEF QicState, Q!Idle, AddressStates
  <2>3. QED
    BY <1>2, <2>2 DEF DmaRequest, Handles, HostDirection, Directions
<1>3. CASE strobe.kind = "Controller"
  <2>1. qic.state.at = "NotificationAddress" /\ strobe.value = qic.state.request
    BY <1>3, StrobeIs
  <2>2. QED
    BY <1>1, <1>3, <2>1 DEF QicState, Q!Idle, NotifyStates
<1>4. QED
  BY <1>2, <1>3

\* One clock of the controller that ends or begins nothing on the bus of the card.
LEMMA HostSeesIdle ==
  ASSUME CoreInv, HCInv, NEW choice, NEW flip, HostClock(choice, flip),
         NEW pins, pins = Q!CardPins(qic, Offered(flip), D!Drive(dev, choice)),
         NEW request \in WorkerRequests \cup {None},
         \/ StartWorker(request)
         \/ request = None /\ Arbitrate(IF pins.request THEN {Card} ELSE {})
         \/ WorkerClock(request, CASE epoch.slot # Card \/ pins.reply = None -> "Wait"
                                   [] epoch.slot = Card /\ pins.reply = "Err" -> "Err"
                                   [] OTHER -> IF flip /\ ~worker.request.write THEN "BadData" ELSE "Ack")
  PROVE  HCInv' /\ FailureStep /\ Clock
<1>1. CASE StartWorker(request)
  BY <1>1, StartWorkerCard DEF FailureStep, Clock, ClockWith, StartWorker
<1>2. CASE request = None /\ Arbitrate(IF pins.request THEN {Card} ELSE {})
  <2>1. PICK requesting : requesting = (IF pins.request THEN {Card} ELSE {})
    OBVIOUS
  <2>2. Card \in Slots
    BY DmaConstants DEF Slots, Card
  <2>3. requesting \in {{}, {Card}} /\ requesting \in SUBSET Slots /\ Arbitrate(requesting)
    BY <1>2, <2>1, <2>2
  <2>4. epoch.role = "Idle"
    BY <2>3 DEF Arbitrate
  <2>5. Clock
    BY <1>2, <2>3, Zenon DEF Clock, ClockWith
  <2>6. HCInv'
    BY <2>3, ArbitrateCard
  <2>7. QED
    BY <2>4, <2>5, <2>6 DEF FailureStep
<1>3. CASE WorkerClock(request, CASE epoch.slot # Card \/ pins.reply = None -> "Wait"
                                   [] epoch.slot = Card /\ pins.reply = "Err" -> "Err"
                                   [] OTHER -> IF flip /\ ~worker.request.write THEN "BadData" ELSE "Ack")
  <2>1. PICK reply : reply = (CASE epoch.slot # Card \/ pins.reply = None -> "Wait"
                                [] epoch.slot = Card /\ pins.reply = "Err" -> "Err"
                                [] OTHER -> IF flip /\ ~worker.request.write THEN "BadData" ELSE "Ack")
    OBVIOUS
  <2>2. WorkerClock(request, reply)
    BY <1>3, <2>1
  <2>3. /\ reply \in {"Ack", "BadData", "Err", "Wait"}
        /\ epoch.slot = Card => /\ (reply = "Wait") <=> (pins.reply = None)
                                /\ pins.reply = "Err" => reply = "Err"
    BY <2>1, NoneIsNoValue
  <2>4. HCInv'
    BY <2>2, <2>3, WorkerClockCard
  <2>5. epoch.role = "Worker"
    BY <2>2 DEF WorkerClock
  <2>6. Clock
    BY <2>2, <2>3, Zenon DEF Clock, ClockWith
  <2>7. QED
    BY <2>4, <2>5, <2>6 DEF FailureStep
<1>4. QED
  BY <1>1, <1>2, <1>3

\* One clock of the controller in an epoch of the card that is no burst yet.
LEMMA HostSeesGrant ==
  ASSUME CoreInv, HCInv, NEW choice, NEW flip, HostClock(choice, flip),
         NEW request \in WorkerRequests \cup {None},
         NEW strobe, strobe = Q!Strobe(qic.state, Offered(flip)),
         \/ RequestDropped(request)
         \/ Q!RequestsBus(qic) /\ NoStrobe(request)
         \/ BadAddress(request)
         \/ /\ strobe # None /\ strobe.kind = "Controller"
            /\ NotificationAddress(request, strobe.value)
         \/ /\ strobe # None /\ strobe.kind = "HostDma"
            /\ DmaAddress(request, strobe.value.handle, strobe.value.words,
                          HostDirection(strobe.value.direction))
         \/ AnswerDmaAddress(request)
         \/ /\ strobe # None /\ strobe.kind = "Data"
            /\ NotificationData(request, IF flip THEN "BadParity" ELSE "Good")
  PROVE  HCInv' /\ FailureStep /\ Clock
<1> USE DEF FailureStep
<1>0. CardInv
  BY DEF HCInv
<1>1. CASE RequestDropped(request)
  <2>1. epoch.role # "Dma"
    BY <1>1 DEF RequestDropped
  <2>2. Clock
    BY <1>1, Zenon DEF Clock, ClockWith
  <2>3. QED
    BY <1>1, <2>1, <2>2, RequestDroppedCard
<1>2. CASE Q!RequestsBus(qic) /\ NoStrobe(request)
  <2>1. epoch.role # "Dma"
    BY <1>2 DEF NoStrobe
  <2>2. Clock
    BY <1>2, Zenon DEF Clock, ClockWith
  <2>3. QED
    BY <1>2, <2>1, <2>2, NoStrobeCard
<1>3. CASE BadAddress(request)
  <2>1. epoch.role # "Dma"
    BY <1>3 DEF BadAddress
  <2>2. Clock
    BY <1>3, Zenon DEF Clock, ClockWith
  <2>3. QED
    BY <1>3, <2>1, <2>2, BadAddressCard
<1>4. CASE /\ strobe # None /\ strobe.kind = "Controller"
           /\ NotificationAddress(request, strobe.value)
  <2>1. epoch.role # "Dma"
    BY <1>4 DEF NotificationAddress
  <2>2. strobe.value \in NotifyChannels
    BY <1>0, <1>4, StrobedAddress
  <2>3. Clock
    BY <1>4, <2>2, Zenon DEF Clock, ClockWith
  <2>4. QED
    BY <1>4, <2>1, <2>3, NotificationAddressCard
<1>5. CASE /\ strobe # None /\ strobe.kind = "HostDma"
           /\ DmaAddress(request, strobe.value.handle, strobe.value.words,
                         HostDirection(strobe.value.direction))
  <2>1. epoch.role # "Dma"
    BY <1>5 DEF DmaAddress
  <2>2. /\ strobe.value.handle \in Handles /\ strobe.value.words \in Bursts
        /\ HostDirection(strobe.value.direction) \in Directions
    BY <1>0, <1>5, StrobedAddress
  <2>3. Clock
    BY <1>5, <2>2, Zenon DEF Clock, ClockWith
  <2>4. QED
    BY <1>5, <2>1, <2>3, DmaAddressCard
<1>6. CASE AnswerDmaAddress(request)
  <2>1. epoch.role # "Dma"
    BY <1>6 DEF AnswerDmaAddress
  <2>2. Clock
    BY <1>6, Zenon DEF Clock, ClockWith
  <2>3. QED
    BY <1>6, <2>1, <2>2, AnswerDmaAddressCard
<1>7. CASE /\ strobe # None /\ strobe.kind = "Data"
           /\ NotificationData(request, IF flip THEN "BadParity" ELSE "Good")
  <2>1. PICK parity : parity = (IF flip THEN "BadParity" ELSE "Good")
    OBVIOUS
  <2>2. parity \in DataPins /\ NotificationData(request, parity)
    BY <1>7, <2>1, CardInputs
  <2>3. epoch.role # "Dma"
    BY <2>2 DEF NotificationData
  <2>4. Clock
    BY <2>2, Zenon DEF Clock, ClockWith
  <2>5. QED
    BY <1>7, <2>2, <2>3, <2>4, NotificationDataCard
<1>8. QED
  BY <1>1, <1>2, <1>3, <1>4, <1>5, <1>6, <1>7

\* One clock of the controller in the card's burst.
LEMMA HostSeesDma ==
  ASSUME CoreInv, HCInv, NEW choice, NEW flip, HostClock(choice, flip),
         NEW request \in WorkerRequests \cup {None},
         NEW strobe, strobe = Q!Strobe(qic.state, Offered(flip)),
         \/ DmaRequestDropped(request)
         \/ /\ Q!RequestsBus(qic)
            /\ \/ AcknowledgeWrite(request)
               \/ /\ strobe # None /\ strobe.kind = "Data"
                  /\ CardWritesWord(request, strobe.value, IF flip THEN "BadParity" ELSE "Good")
               \/ CardWaits(request)
               \/ strobe # None /\ strobe.kind = "Data" /\ CardReadsWord(request)
               \/ \E ready \in BOOLEAN : RequestMemory(request, ready)
               \/ \E response \in MemoryMayAnswer : AwaitMemory(request, response)
  PROVE  HCInv' /\ FailureStep /\ Clock
<1>1. CASE DmaRequestDropped(request)
  <2>1. Clock
    BY <1>1, Zenon DEF Clock, ClockWith
  <2>2. QED
    BY <1>1, <2>1, DmaRequestDroppedCard
<1>2. CASE Q!RequestsBus(qic) /\ AcknowledgeWrite(request)
  <2>1. Clock
    BY <1>2, Zenon DEF Clock, ClockWith
  <2>2. QED
    BY <1>2, <2>1, AcknowledgeWriteCard
<1>3. CASE /\ Q!RequestsBus(qic) /\ strobe # None /\ strobe.kind = "Data"
           /\ CardWritesWord(request, strobe.value, IF flip THEN "BadParity" ELSE "Good")
  <2>1. PICK parity : parity = (IF flip THEN "BadParity" ELSE "Good")
    OBVIOUS
  <2>2. /\ parity \in {"Good", "BadParity"} /\ parity \in DataPins
        /\ CardWritesWord(request, strobe.value, parity)
    BY <1>3, <2>1, CardInputs
  <2>3. strobe.value \in Words /\ HCInv' /\ FailureStep
    BY <1>3, <2>2, CardWritesWordCard
  <2>4. Clock
    BY <2>2, <2>3, Zenon DEF Clock, ClockWith
  <2>5. QED
    BY <2>3, <2>4
<1>4. CASE Q!RequestsBus(qic) /\ CardWaits(request)
  <2>1. Clock
    BY <1>4, Zenon DEF Clock, ClockWith
  <2>2. QED
    BY <1>4, <2>1, CardWaitsCard
<1>5. CASE Q!RequestsBus(qic) /\ strobe # None /\ strobe.kind = "Data" /\ CardReadsWord(request)
  <2>1. Clock
    BY <1>5, Zenon DEF Clock, ClockWith
  <2>2. QED
    BY <1>5, <2>1, CardReadsWordCard
<1>6. CASE Q!RequestsBus(qic) /\ \E ready \in BOOLEAN : RequestMemory(request, ready)
  <2>1. PICK ready \in BOOLEAN : RequestMemory(request, ready)
    BY <1>6
  <2>2. Clock
    BY <2>1, Zenon DEF Clock, ClockWith
  <2>3. QED
    BY <1>6, <2>1, <2>2, RequestMemoryCard
<1>7. CASE Q!RequestsBus(qic) /\ \E response \in MemoryMayAnswer : AwaitMemory(request, response)
  <2>1. PICK response \in MemoryMayAnswer : AwaitMemory(request, response)
    BY <1>7
  <2>2. response \in MemoryResponses \cup {None} /\ HCInv' /\ FailureStep
    BY <1>7, <2>1, AwaitMemoryCard
  <2>3. Clock
    BY <2>1, <2>2, Zenon DEF Clock, ClockWith
  <2>4. QED
    BY <2>2, <2>3
<1>8. QED
  BY <1>1, <1>2, <1>3, <1>4, <1>5, <1>6, <1>7

\* Every clock keeps the invariant and is one of the controller's own clocks.
LEMMA HostSeesCard ==
  ASSUME CoreInv, HCInv, NEW choice, NEW flip, HostClock(choice, flip),
         NEW pins, pins = Q!CardPins(qic, Offered(flip), D!Drive(dev, choice)),
         NEW request \in WorkerRequests \cup {None}, HostSees(pins, flip, request)
  PROVE  HCInv' /\ FailureStep /\ Clock
<1> DEFINE reply == CASE epoch.slot # Card \/ pins.reply = None -> "Wait"
                      [] epoch.slot = Card /\ pins.reply = "Err" -> "Err"
                      [] OTHER -> IF flip /\ ~worker.request.write THEN "BadData" ELSE "Ack"
           idle   == \/ StartWorker(request)
                     \/ request = None /\ Arbitrate(IF pins.request THEN {Card} ELSE {})
                     \/ WorkerClock(request, reply)
           strobe == pins.strobe
           grant  == \/ RequestDropped(request)
                     \/ Q!RequestsBus(qic) /\ NoStrobe(request)
                     \/ BadAddress(request)
                     \/ /\ strobe # None /\ strobe.kind = "Controller"
                        /\ NotificationAddress(request, strobe.value)
                     \/ /\ strobe # None /\ strobe.kind = "HostDma"
                        /\ DmaAddress(request, strobe.value.handle, strobe.value.words,
                                      HostDirection(strobe.value.direction))
                     \/ AnswerDmaAddress(request)
                     \/ /\ strobe # None /\ strobe.kind = "Data"
                        /\ NotificationData(request, IF flip THEN "BadParity" ELSE "Good")
           burst  == \/ DmaRequestDropped(request)
                     \/ /\ Q!RequestsBus(qic)
                        /\ \/ AcknowledgeWrite(request)
                           \/ /\ strobe # None /\ strobe.kind = "Data"
                              /\ CardWritesWord(request, strobe.value, IF flip THEN "BadParity" ELSE "Good")
                           \/ CardWaits(request)
                           \/ strobe # None /\ strobe.kind = "Data" /\ CardReadsWord(request)
                           \/ \E ready \in BOOLEAN : RequestMemory(request, ready)
                           \/ \E response \in MemoryMayAnswer : AwaitMemory(request, response)
<1>1. pins.strobe = Q!Strobe(qic.state, Offered(flip)) /\ (pins.request => Q!RequestsBus(qic))
  BY PinsAre
<1>2. idle \/ grant \/ burst
  BY <1>1, Zenon DEF HostSees
<1>3. CASE idle
  BY <1>3, HostSeesIdle
<1>4. CASE grant
  <2>1. PICK s : s = pins.strobe
    OBVIOUS
  <2>2. QED
    BY <1>1, <1>4, <2>1, HostSeesGrant
<1>5. CASE burst
  <2>1. PICK s : s = pins.strobe
    OBVIOUS
  <2>2. QED
    BY <1>1, <1>5, <2>1, HostSeesDma
<1>6. QED
  BY <1>2, <1>3, <1>4, <1>5

LEMMA ClockCard ==
  ASSUME CoreInv, HCInv, HCClock
  PROVE  /\ HCInv' /\ FailureStep /\ Clock
         /\ \E choice, flip, request, pins :
              /\ HostClock(choice, flip)
              /\ pins = Q!CardPins(qic, Offered(flip), D!Drive(dev, choice))
              /\ HostSees(pins, flip, request)
<1>1. PICK choice \in DeviceChoice, flip \in Flips, request \in WorkerRequests \cup {None} :
        LET drive == D!Drive(dev, choice)
            pins  == Q!CardPins(qic, Offered(flip), drive) IN
        /\ done = [worker |-> None, dma |-> None]
        /\ HostSees(pins, flip, request)
        /\ qic' = Q!Clock(qic, Answered(flip), drive)
        /\ dev' = D!Clock(dev, drive, Q!ToDevice(qic, Answered(flip), drive), choice)
  BY Zenon DEF HCClock
<1>2. PICK pins : pins = Q!CardPins(qic, Offered(flip), D!Drive(dev, choice))
  OBVIOUS
<1>3. ChoiceShape(choice) /\ flip \in BOOLEAN
  BY CardInputs DEF ChoiceShape, DeviceChoice
<1>4. HostClock(choice, flip) /\ HostSees(pins, flip, request)
  BY <1>1, <1>2, <1>3 DEF HostClock, CardClock
<1>5. QED
  BY <1>2, <1>4, HostSeesCard

(* One step keeps the invariant, is a step of the controller alone, and tells software of no
   failure that is a success at the card. *)
LEMMA CardStep ==
  CoreInv /\ HCInv /\ [HCNext]_hcVars => CoreInv' /\ HCInv' /\ [Next]_vars /\ [FailureStep]_hcVars
<1> SUFFICES ASSUME CoreInv, HCInv, [HCNext]_hcVars
             PROVE  HCInv' /\ [Next]_vars /\ [FailureStep]_hcVars
  BY StepKeeps
<1>1. CASE HCClock
  BY <1>1, ClockCard DEF Next
<1>2. CASE HCReset
  BY <1>2, ResetCard DEF HCReset, Next
<1>3. CASE HCSoftware
  BY <1>3, SoftwareCard DEF HCSoftware, SoftwareCall, Next
<1>4. CASE DeviceWantsDma \/ DeviceWantsNotification
  BY <1>4, DeviceWantsCard DEF DeviceWantsDma, DeviceWantsNotification
<1>5. CASE UNCHANGED hcVars
  <2>1. UNCHANGED <<epoch, worker, seen, qic, dev>> /\ dma' = dma /\ done' = done /\ UNCHANGED vars
    BY <1>5 DEF hcVars, vars
  <2>2. HCInv'
    BY <2>1, HostStandsStill DEF SameWords
  <2>3. QED
    BY <1>5, <2>1, <2>2
<1>6. QED
  BY <1>1, <1>2, <1>3, <1>4, <1>5 DEF HCNext

-----------------------------------------------------------------------------
(* The theorems.                                                            *)

(* The inductive invariant of controller and card: where the QIC and the device are in the
   card's work, what the controller has in hand for it, and that the transaction on the bus is
   the same at both ends. *)
THEOREM HostCardInvariant == HCSpec => [](CoreInv /\ HCInv)
<1>1. CoreInv /\ HCInv /\ [HCNext]_hcVars => (CoreInv /\ HCInv)'
  BY CardStep
<1>2. QED
  BY InitCard, <1>1, PTL DEF HCSpec

(* Controller and card together are the controller: what a card may do to HostCore includes
   everything the QIC and its device do, so that HostCore's theorems hold on this bus. *)
THEOREM OverBusIsController == HCSpec => Spec
<1>1. HCInit => Init
  BY DEF HCInit
<1>2. CoreInv /\ HCInv /\ [HCNext]_hcVars => [Next]_vars
  BY CardStep
<1>3. QED
  BY <1>1, <1>2, HostCardInvariant, PTL DEF HCSpec, Spec

(* A burst the controller reports to software as failed is not completed as a success at the
   card (the answer of the last word, where ACK and ERR can come at once). *)
THEOREM FailureSharedProved == HCSpec => FailureIsShared
<1>1. CoreInv /\ HCInv /\ [HCNext]_hcVars =>
        [(epoch.role = "Dma" /\ done.dma = None /\ done'.dma # None /\ done'.dma.result # "Ok") =>
           ~CardSucceeds']_hcVars
  BY CardStep DEF FailureStep
<1>2. QED
  BY <1>1, HostCardInvariant, PTL DEF HCSpec, FailureIsShared

(* While a burst moves, the QIC's request and its count of beats are the controller's. *)
THEOREM SameBurstProved == HCSpec => []SameBurst
<1>1. HCInv => SameBurst
  BY DEF HCInv, BusAgrees, BurstAgrees, SameBurst, CardInBurst
<1>2. QED
  BY <1>1, HostCardInvariant, PTL

(* The device thinks its DMA request active exactly while the QIC has it: it is neither lost
   nor repeated when a register access comes in between (suspended and tail in Qic::clock). *)
THEOREM RequestHeldProved == HCSpec => []RequestHeldOnce
<1>1. HCInv => RequestHeldOnce
  BY DEF HCInv, CardInv
<1>2. QED
  BY <1>1, HostCardInvariant, PTL

(* The device holds a register access exactly while the QIC waits for its answer: the one that
   ran out of time at the QIC is cancelled at the device. *)
THEOREM AccessHeldProved == HCSpec => []AccessHeldOnce
<1>1. HCInv => AccessHeldOnce
  BY DEF HCInv, CardInv
<1>2. QED
  BY <1>1, HostCardInvariant, PTL

\* While the QIC is in the burst or completing it, the device is at the same place.
LEMMA SamePlace ==
  ASSUME CardInv, qic.state.at \in {"DmaData", "DmaComplete"}
  PROVE  /\ QicShape(qic) /\ DeviceShape(dev) /\ dev.dma # None /\ BurstState(qic) = qic.state
         /\ CardBurst(qic, dev.dma)
<1>1. QicShape(qic) /\ DeviceShape(dev)
  BY DEF CardInv
<1>2. BurstState(qic) = qic.state
  BY <1>1 DEF QicShape, BurstState, Q!WorkerStates
<1>3. D!Active(dev)
  BY DEF CardInv, RequestHeldOnce, Holds
<1>4. QED
  BY <1>1, <1>2, <1>3 DEF CardInv, D!Active

(* The words of a burst come in the order of memory or of the device, none lost or repeated,
   however either side waits and whatever words are corrupted on their way. *)
THEOREM WordsInOrderProved == HCSpec => []WordsInOrder
<1>1. HCInv => WordsInOrder
  <2> SUFFICES ASSUME HCInv PROVE WordsInOrder
    OBVIOUS
  <2>1. (dma.active # None /\ dma.active.pendingWrite # None) =>
          dma.active.pendingWrite = D!WordAt(dma.active.acknowledged)
    BY DEF HCInv, HostWords
  <2>2. ASSUME CardInBurst, qic.state.request.direction = "HostToDevice", qic.state.buffer # None
        PROVE  /\ qic.state.buffer = D!WordAt(qic.state.completed - 1)
               /\ dev.dma.moved = qic.state.completed - 1
    <3>1. WordsMoved(qic.state, dev.dma)
      BY <2>2, SamePlace DEF HCInv, CardInBurst, CardBurst
    <3>2. QED
      BY <2>2, <3>1 DEF WordsMoved
  <2>3. QED
    BY <2>1, <2>2 DEF WordsInOrder
<1>2. QED
  BY <1>1, HostCardInvariant, PTL

(* A burst the device is told is complete has been moved by the device, acknowledged by the
   controller and confirmed by memory, word for word. *)
THEOREM CardOkProved == HCSpec => []CardOkIsHostOk
<1>1. HCInv => CardOkIsHostOk
  <2> SUFFICES ASSUME HCInv, qic.state.at = "DmaComplete", qic.state.status = "Ok"
               PROVE  /\ dev.dma.moved = dev.dma.request.words
                      /\ seen.acks = qic.state.completed
                      /\ seen.commits = qic.state.completed
    BY DEF CardOkIsHostOk
  <2>1. BurstState(qic) = qic.state /\ CardBurst(qic, dev.dma)
    BY SamePlace DEF HCInv
  <2>2. dev.dma.moved = dev.dma.request.words
    BY <2>1 DEF CardBurst
  <2>3. seen.acks = qic.state.completed /\ seen.commits = qic.state.completed
    BY <2>1 DEF HCInv, SuccessAgrees, Succeeded
  <2>4. QED
    BY <2>2, <2>3
<1>2. QED
  BY <1>1, HostCardInvariant, PTL

\* In the clock in which the controller acknowledges a notification it makes it pending.
LEMMA NotificationAcked ==
  ASSUME CoreInv, HCInv, NEW flip, NEW pins, NEW request,
         pins.strobe = Q!Strobe(qic.state, Offered(flip)), HostSees(pins, flip, request), out'.ack,
         qic.state.at = "NotificationData"
  PROVE  <<Card, qic.state.request>> \in notifications'.pending
<1>1. BusAgrees
  BY DEF HCInv
<1>2. epoch.role # "Dma"
  BY <1>1 DEF BusAgrees, BurstAgrees, CardInBurst
<1>3. ~AnswerDmaAddress(request)
  BY <1>1 DEF AnswerDmaAddress, BusAgrees, AddressAgrees
<1>4. ~(pins.strobe # None /\ pins.strobe.kind = "Controller")
  <2>1. PICK strobe : strobe = pins.strobe
    OBVIOUS
  <2>2. QED
    BY <2>1, StrobeIs
<1>5. ASSUME NEW r PROVE ~WorkerClock(request, r)
  BY OutIs DEF WorkerClock
<1>6. ~StartWorker(request) /\ ~RequestDropped(request) /\ ~NoStrobe(request) /\ ~BadAddress(request)
  <2>1. ~StartWorker(request)
    BY OutIs DEF StartWorker
  <2>2. ~RequestDropped(request)
    BY OutIs DEF RequestDropped
  <2>3. ~NoStrobe(request)
    BY OutIs DEF NoStrobe, WaitForStrobe, Refuse, Continue
  <2>4. ~BadAddress(request)
    BY OutIs DEF BadAddress, Refuse
  <2>5. QED
    BY <2>1, <2>2, <2>3, <2>4
<1>7. ASSUME NEW r PROVE ~Arbitrate(r)
  BY OutIs DEF Arbitrate
<1>8. ASSUME NEW h, NEW w, NEW d PROVE ~DmaAddress(request, h, w, d)
  <2>1. DmaAddress(request, h, w, d) => out' = Drive(FALSE, FALSE)
    BY Zenon DEF DmaAddress, Continue
  <2>2. QED
    BY <2>1, OutIs
<1>9. \E parity : NotificationData(request, parity)
  BY <1>2, <1>3, <1>4, <1>5, <1>6, <1>7, <1>8
     DEF HostSees, DmaRequestDropped, DmaClock, AcknowledgeWrite, CardWritesWord, CardWaits,
         CardReadsWord, RequestMemory, AwaitMemory
<1>10. PICK parity : NotificationData(request, parity)
  BY <1>9
<1>11. /\ parity = "Good" /\ epoch.role = "Notification"
       /\ notifications' = [notifications EXCEPT !.pending = @ \cup {<<epoch.slot, epoch.channel>>}]
  BY <1>10, OutIs DEF NotificationData
<1>12. epoch.slot = Card /\ qic.state.request = epoch.channel
  BY <1>1, <1>11 DEF BusAgrees, Q!Idle
<1>13. notifications \in [pending : SUBSET (Slots \X NotifyChannels),
                          enabled : SUBSET (Slots \X NotifyChannels),
                          masked : SUBSET (Slots \X NotifyChannels)]
  BY DEF CoreInv, TypeOK
<1>14. QED
  BY <1>11, <1>12, <1>13

(* The device forgets a notification only in the clock in which the controller makes it
   pending, or in a reset. *)
THEOREM NotifiedProved == HCSpec => NotifiedIsPending
<1> DEFINE Told == (dev.notification # None /\ dev'.notification = None /\ ~out'.reset) =>
                     <<Card, dev.notification>> \in notifications'.pending
<1>1. CoreInv /\ HCInv /\ [HCNext]_hcVars => [Told]_hcVars
  <2> SUFFICES ASSUME CoreInv, HCInv, HCNext, dev.notification # None,
                      dev'.notification = None, ~out'.reset
               PROVE  <<Card, dev.notification>> \in notifications'.pending
    OBVIOUS
  <2>1. CASE HCClock
    <3>1. PICK choice, flip, request, pins :
            /\ HostClock(choice, flip)
            /\ pins = Q!CardPins(qic, Offered(flip), D!Drive(dev, choice))
            /\ HostSees(pins, flip, request)
      BY <2>1, ClockCard
    <3> DEFINE drive == D!Drive(dev, choice)
               qli   == Q!ToDevice(qic, Answered(flip), drive)
    <3>2. dev'.notification = IF qli.notified THEN None ELSE dev.notification
      BY <3>1 DEF HostClock, CardClock, D!Clock, D!Notification
    <3>3. qli.notified = Q!Notified(qic.state, Answered(flip), drive)
      BY DEF Q!ToDevice
    <3>4. drive.notification = dev.notification
      BY DEF D!Drive
    <3>5. Q!Notified(qic.state, Answered(flip), drive)
      BY <3>2, <3>3
    <3>6. /\ qic.state.at = "NotificationData" /\ dev.notification = qic.state.request
          /\ Answered(flip).ack
      BY <3>4, <3>5 DEF Q!Notified
    <3>7. out'.ack
      <4>1. PICK off : off = Offered(flip)
        OBVIOUS
      <4>2. off = [reset |-> off.reset, selected |-> off.selected, grant |-> off.grant,
                   address |-> off.address, dataStrobe |-> off.dataStrobe, data |-> off.data,
                   ack |-> off.ack, err |-> off.err]
        BY <4>1, Zenon DEF Offered
      <4>3. PICK a, e, w : a = out'.ack /\ e = out'.err /\
              w = (IF ~flip /\ dma.state = "DeviceReadReady" THEN dma.active.readData ELSE off.data)
        OBVIOUS
      <4>4. Answered(flip) = [off EXCEPT !.ack = a, !.err = e, !.data = w]
        BY <4>1, <4>3 DEF Answered
      <4>5. Answered(flip).ack = a
        BY <4>2, <4>4
      <4>6. QED
        BY <3>6, <4>3, <4>5
    <3>8. pins.strobe = Q!Strobe(qic.state, Offered(flip))
      BY <3>1, PinsAre
    <3>9. QED
      BY <3>1, <3>6, <3>7, <3>8, NotificationAcked
  <2>2. CASE HCReset
    BY <2>2, ResetCard
  <2>3. CASE HCSoftware
    BY <2>3 DEF HCSoftware
  <2>4. CASE DeviceWantsDma \/ DeviceWantsNotification
    BY <2>4 DEF DeviceWantsDma, DeviceWantsNotification, D!WantsDma, HCInv, CardInv, DeviceShape
  <2>5. QED
    BY <2>1, <2>2, <2>3, <2>4 DEF HCNext
<1>2. QED
  BY <1>1, HostCardInvariant, PTL DEF HCSpec, NotifiedIsPending

\* A success of the worker's data phase is the answer of the device.
LEMMA SuccessIsAnswer ==
  ASSUME CoreInv, HCInv, NEW choice, NEW flip, HostClock(choice, flip),
         NEW pins, pins = Q!CardPins(qic, Offered(flip), D!Drive(dev, choice)),
         epoch.role = "Worker", epoch.slot = Card, worker.state = "Data", pins.reply \notin {None, "Err"}
  PROVE  /\ dev.mmio # None
         /\ dev.mmio.op = [register |-> worker.request.register, write |-> worker.request.write]
         /\ dev.mmio.answer = "Ok"
<1> DEFINE drive == D!Drive(dev, choice)
           off   == Offered(flip)
           s     == qic.state
<1>1. /\ CardInv /\ AccessAgrees /\ choice.stalls \in BOOLEAN
  BY DEF HCInv, BusAgrees, HostClock, ChoiceShape
<1>2. pins.reply = Q!Reply(qic, off, drive)
  BY PinsAre
<1>3. s.at \in Q!WorkerStates
  BY <1>1 DEF AccessAgrees, Q!WorkerStates
<1>4. Q!WorkerReply(s, off, drive) \notin {None, "Err"}
  BY <1>2, <1>3 DEF Q!Reply
<1>5. s.at = "WorkerResponse" /\ drive.response = Q!RightAnswer(s.read)
  BY <1>4 DEF Q!WorkerReply
<1>6. dev.mmio # None /\ s.read = ~dev.mmio.op.write
  BY <1>1, <1>5 DEF CardInv, AccessHeldOnce
<1>7. drive.response = Q!RightAnswer(~dev.mmio.op.write) <=> dev.mmio.answer = "Ok"
  BY <1>1, <1>6, DriveIs
<1>8. dev.mmio.answer = "Ok"
  BY <1>5, <1>6, <1>7
<1>9. QED
  BY <1>1, <1>5, <1>6, <1>8 DEF AccessAgrees

(* A register access that succeeds for software was answered with success by the device, and
   for that register and direction. *)
THEOREM AnswerProved == HCSpec => AnswerIsForTheAccess
<1> DEFINE IsAnswer ==
      (epoch.role = "Worker" /\ done' # done /\ done'.worker \in {"Read", "WriteOk"}) =>
        /\ dev.mmio # None
        /\ dev.mmio.op = [register |-> worker.request.register, write |-> worker.request.write]
        /\ dev.mmio.answer = "Ok"
<1>1. CoreInv /\ HCInv /\ [HCNext]_hcVars => [IsAnswer]_hcVars
  <2> SUFFICES ASSUME CoreInv, HCInv, HCNext, epoch.role = "Worker", done' # done,
                      done'.worker \in {"Read", "WriteOk"}
               PROVE  /\ dev.mmio # None
                      /\ dev.mmio.op = [register |-> worker.request.register,
                                        write |-> worker.request.write]
                      /\ dev.mmio.answer = "Ok"
    OBVIOUS
  <2>0. /\ done.worker = None /\ done'.worker # None
        /\ done \in [worker : WorkerResults \cup {None}, dma : Completion \cup {Protection, None}]
        /\ worker.state \in {"Address", "Data"}
    BY NoneIsNoValue DEF HCInv, BusAgrees, CoreInv, TypeOK, WorkerEngine
  <2>1. CASE HCClock
    <3>1. PICK choice, flip, request, pins :
            /\ HostClock(choice, flip)
            /\ pins = Q!CardPins(qic, Offered(flip), D!Drive(dev, choice))
            /\ HostSees(pins, flip, request)
      BY <2>1, ClockCard
    <3>2. PICK reply : reply = (CASE epoch.slot # Card \/ pins.reply = None -> "Wait"
                                  [] epoch.slot = Card /\ pins.reply = "Err" -> "Err"
                                  [] OTHER -> IF flip /\ ~worker.request.write THEN "BadData" ELSE "Ack")
      OBVIOUS
    <3>3. WorkerClock(request, reply)
      BY <3>1, <3>2
         DEF HostSees, StartWorker, Arbitrate, RequestDropped, NoStrobe, BadAddress,
             NotificationAddress, DmaAddress, AnswerDmaAddress, NotificationData, DmaRequestDropped,
             DmaClock, AcknowledgeWrite, CardWritesWord, CardWaits, CardReadsWord, RequestMemory,
             AwaitMemory
    <3>4. WorkerEnds(reply) \in {"Read", "WriteOk"}
      BY <2>0, <3>3 DEF WorkerClock
    <3>5. worker.state = "Data" /\ reply \notin {"Err", "Wait"}
      BY <2>0, <3>4, NoneIsNoValue, NoneIsNoSlot DEF WorkerEnds
    <3>6. epoch.slot = Card /\ pins.reply \notin {None, "Err"}
      BY <3>2, <3>5
    <3>7. QED
      BY <3>1, <3>5, <3>6, SuccessIsAnswer
  <2>2. CASE HCReset
    BY <2>0, <2>2 DEF HCReset, ResetHost
  <2>3. CASE HCSoftware
    BY <2>0, <2>3 DEF HCSoftware, BindDma, RevokeDma, ClaimNotification, TakeWorkerCompletion,
                      TakeDmaCompletion
  <2>4. CASE DeviceWantsDma \/ DeviceWantsNotification
    BY <2>4 DEF DeviceWantsDma, DeviceWantsNotification, vars
  <2>5. QED
    BY <2>1, <2>2, <2>3, <2>4 DEF HCNext
<1>2. QED
  BY <1>1, HostCardInvariant, PTL DEF HCSpec, AnswerIsForTheAccess


-----------------------------------------------------------------------------
(* The memory path.                                                         *)

\* The completion of r is true of the memory it leaves, and only r's word may differ from before.
LEMMA AnswerFits ==
  ASSUME NEW r \in WordRequest, NEW words \in [Indexes -> Word]
  PROVE  LET a == Answer(words, r)
             after == WordsAfter(words, r)
         IN /\ a \in Response /\ after \in [Indexes -> Word]
            /\ Mapped(r, a) = a
            /\ a.kind = "ReadData" =>
                 /\ ~r.write /\ InRange(r.address) /\ a.value = after[r.address \div 4]
            /\ a.kind = "WriteDone" =>
                 /\ r.write /\ InRange(r.address) /\ after[r.address \div 4] = r.data
            /\ \A i \in Indexes : after[i] # words[i] => r.write /\ r.address \div 4 = i
<1> DEFINE i == r.address \div 4
           a == Answer(words, r)
           after == WordsAfter(words, r)
<1>1. /\ r.address \in Nat /\ Capacity \in Nat /\ i \in Nat /\ r.lanes = Lanes
      /\ r.write \in BOOLEAN /\ (r.write => r.data \in Word)
  BY PathSizes, Division DEF WordRequest
<1>2. InRange(r.address) => i \in Indexes
  BY <1>1 DEF InRange, Indexes
<1>3. CASE ~InRange(r.address)
  <2>1. a = Reply("Fault") /\ after = words
    BY <1>3 DEF Answer, WordsAfter
  <2>2. QED
    BY <2>1 DEF Reply, Response, Mapped
<1>4. CASE InRange(r.address) /\ ~r.write
  <2>1. a = [kind |-> "ReadData", value |-> words[i]] /\ after = words /\ words[i] \in Word
    BY <1>2, <1>4 DEF Answer, WordsAfter
  <2>2. QED
    BY <1>4, <2>1 DEF Response, Mapped
<1>5. CASE InRange(r.address) /\ r.write
  <2>1. MaskedWrite(words[i], r.data, r.lanes) = r.data
    BY <1>1, <1>5 DEF MaskedWrite, Word
  <2>2. a = Reply("WriteDone") /\ after = [words EXCEPT ![i] = r.data]
    BY <1>5, <2>1 DEF Answer, WordsAfter
  <2> HIDE DEF a, after, i
  <2>3. after \in [Indexes -> Word] /\ after[i] = r.data
        /\ \A j \in Indexes : after[j] # words[j] => j = i
    BY <1>1, <1>2, <1>5, <2>2
  <2>4. a \in Response /\ Mapped(r, a) = a /\ a.kind = "WriteDone"
    BY <1>5, <2>2 DEF Reply, Response, Mapped
  <2>5. QED
    BY <1>5, <2>3, <2>4 DEF a, after, i
<1>6. QED
  BY <1>1, <1>3, <1>4, <1>5

\* The backend is offered the request: nothing a client sees changes.
LEMMA OfferKeeps ==
  ASSUME NEW p, OneRequest(p)
  PROVE  LET q == OfferToBackend(p)
         IN /\ OneRequest(q) /\ q.request = p.request /\ q.words = p.words
            /\ p.state \in {"Idle", "HostResponse"} => q = p
            /\ p.state \notin {"Idle", "HostResponse"} =>
                 q.state \notin {"Idle", "HostResponse"}
<1> DEFINE offered == [request |-> p.request, left |-> p.latency]
<1>1. CASE p.state = "BackendRequest" /\ BackendReady(p)
  <2>1. p.request \in WordRequest /\ p.latency \in Nat /\ p \in WholePath
    BY <1>1 DEF OneRequest, WholePath
  <2>2. offered \in [request : WordRequest, left : Nat] /\ offered.request = p.request
        /\ offered # None
    BY <2>1, NoneIsNoRequest
  <2>3. OfferToBackend(p) = [p EXCEPT !.pending = offered, !.state = "BackendResponse"]
    BY <1>1 DEF OfferToBackend
  <2> HIDE DEF offered
  <2> DEFINE q == OfferToBackend(p)
  <2> HIDE DEF q
  <2>4. /\ q \in WholePath /\ q.pending = offered /\ q.state = "BackendResponse"
        /\ q.request = p.request /\ q.words = p.words /\ q.answer = p.answer
    BY <2>1, <2>2, <2>3 DEF q, WholePath, ControllerStates
  <2>5. OneRequest(q)
    BY <1>1, <2>1, <2>2, <2>4 DEF OneRequest
  <2>6. QED
    BY <1>1, <2>4, <2>5 DEF q
<1>2. CASE ~(p.state = "BackendRequest" /\ BackendReady(p))
  BY <1>2 DEF OfferToBackend
<1>3. QED
  BY <1>1, <1>2

(* The backend ticks: it has nothing to do, is not there yet, or performs its request, which
   the controller then takes. *)
LEMMA TickKeeps ==
  ASSUME NEW p, OneRequest(p)
  PROVE  LET q == TickBackend(p)
         IN /\ OneRequest(q) /\ q.request = p.request
            /\ p.state \in {"Idle", "HostResponse"} => q.state = p.state /\ q.words = p.words
            /\ \A i \in Indexes : q.words[i] # p.words[i] =>
                 p.request # None /\ p.request.write /\ p.request.address \div 4 = i
<1> DEFINE o == OfferToBackend(p)
           h == IF o.holdoff > 0 THEN o.holdoff - 1 ELSE 0
           t == BackendTick(o)
           q == TickBackend(p)
<1>1. /\ OneRequest(o) /\ o.request = p.request /\ o.words = p.words
      /\ p.state \in {"Idle", "HostResponse"} => o = p
      /\ p.state \notin {"Idle", "HostResponse"} => o.state \notin {"Idle", "HostResponse"}
  BY OfferKeeps
<1>2. q = TakeFromBackend(t)
  BY DEF TickBackend
<1>3. o \in WholePath /\ o.answer = None
  BY <1>1 DEF OneRequest
<1> HIDE DEF o
<1>4. h \in Nat
  BY <1>3 DEF WholePath
<1>5. CASE o.pending = None
  <2>1. t = [o EXCEPT !.holdoff = h]
    BY <1>5, OneNone DEF BackendTick
  <2> HIDE DEF h, t
  <2>2. /\ t \in WholePath /\ t.state = o.state /\ t.request = o.request /\ t.words = o.words
        /\ t.answer = o.answer /\ t.pending = o.pending /\ t.response = o.response
    BY <1>3, <1>4, <2>1 DEF WholePath
  <2>3. q = t
    BY <1>2, <1>3, <2>2, OneNone DEF TakeFromBackend
  <2>4. OneRequest(t)
    BY <1>1, <2>2 DEF OneRequest, Performed
  <2> HIDE DEF q
  <2>5. QED
    BY <1>1, <2>2, <2>3, <2>4 DEF q
<1>6. CASE o.pending # None /\ o.pending.left > 0
  <2> DEFINE b == [o.pending EXCEPT !.left = @ - 1]
  <2>1. o.pending \in [request : WordRequest, left : Nat]
    BY <1>3, <1>6 DEF WholePath
  <2>2. b = [request |-> o.pending.request, left |-> o.pending.left - 1]
        /\ o.pending.request \in WordRequest /\ o.pending.left - 1 \in Nat
    BY <1>6, <2>1
  <2>3. b \in [request : WordRequest, left : Nat] /\ b.request = o.pending.request /\ b # None
    BY <2>2, NoneIsNoRequest
  <2>4. t = [o EXCEPT !.holdoff = h, !.pending = b]
    BY <1>3, <1>6, OneNone DEF BackendTick, WholePath
  <2> HIDE DEF h, t, b
  <2>5. /\ t \in WholePath /\ t.state = o.state /\ t.request = o.request /\ t.words = o.words
        /\ t.answer = o.answer /\ t.pending = b /\ t.response = o.response
    BY <1>3, <1>4, <2>3, <2>4 DEF WholePath
  <2>6. q = t
    BY <1>2, <1>3, <2>5, OneNone DEF TakeFromBackend
  <2>7. OneRequest(t)
    BY <1>1, <1>6, <2>3, <2>5 DEF OneRequest, Performed
  <2> HIDE DEF q
  <2>8. QED
    BY <1>1, <2>5, <2>6, <2>7 DEF q
<1>7. CASE o.pending # None /\ ~(o.pending.left > 0)
  <2> DEFINE r == o.request
             a == Answer(o.words, r)
             after == WordsAfter(o.words, r)
  <2>1. o.pending.request = r /\ o.state = "BackendResponse" /\ r # None
    BY <1>1, <1>7 DEF OneRequest
  <2>2. r \in WordRequest /\ o.words \in [Indexes -> Word]
    BY <1>3, <2>1 DEF WholePath
  <2>3. /\ a \in Response /\ after \in [Indexes -> Word] /\ Mapped(r, a) = a
        /\ a.kind = "ReadData" =>
             /\ ~r.write /\ InRange(r.address) /\ a.value = after[r.address \div 4]
        /\ a.kind = "WriteDone" =>
             /\ r.write /\ InRange(r.address) /\ after[r.address \div 4] = r.data
        /\ \A i \in Indexes : after[i] # o.words[i] => r.write /\ r.address \div 4 = i
    BY <2>2, AnswerFits
  <2>4. t = [o EXCEPT !.holdoff = h, !.pending = None, !.answer = a, !.words = after]
    BY <1>3, <1>7, <2>1, OneNone DEF BackendTick, WholePath
  <2>5. a # None
    BY <2>3, NoneIsNoRequest
  <2> HIDE DEF h, t, a, after, q
  <2>6. /\ t \in WholePath /\ t.state = "BackendResponse" /\ t.request = r /\ t.words = after
        /\ t.answer = a /\ t.pending = None
    BY <1>3, <1>4, <2>1, <2>3, <2>4 DEF WholePath
  <2>7. q = [t EXCEPT !.response = a, !.state = "HostResponse", !.answer = None]
    BY <1>2, <2>3, <2>5, <2>6, OneNone DEF TakeFromBackend
  <2>8. /\ q \in WholePath /\ q.state = "HostResponse" /\ q.request = r /\ q.words = after
        /\ q.answer = None /\ q.pending = None /\ q.response = a
    BY <2>3, <2>6, <2>7 DEF WholePath, ControllerStates
  <2>9. OneRequest(q)
    BY <2>1, <2>3, <2>5, <2>8 DEF OneRequest, Performed
  <2>10. p.state \notin {"Idle", "HostResponse"}
    BY <1>1, <2>1
  <2>11. QED
    BY <1>1, <2>1, <2>3, <2>8, <2>9, <2>10 DEF q
<1>8. QED
  BY <1>5, <1>6, <1>7

\* A word at a word address makes a request of the path.
LEMMA WordRequestIs ==
  ASSUME NEW a \in Nat, NEW w \in BOOLEAN, NEW v \in Words \cup {None},
         a % 4 = 0, w => v \in Words
  PROVE  [address |-> a, write |-> w, lanes |-> Lanes, data |-> v] \in WordRequest
  BY WholeWords DEF WordRequest, WordBytes

\* The request in the path after one cycle, and what the cycle did to memory.
LEMMA CyclePath ==
  ASSUME OneRequest(path), AsksForWords, WellFormed(dma),
         path' = TickBackend(AfterHost(path, MemoryRequest(dma)))
  PROVE  /\ OneRequest(path')
         /\ AfterHost(path, MemoryRequest(dma)).request = path'.request
         /\ path.state = "HostResponse" => path'.state = "Idle" /\ path'.words = path.words
         /\ path.state \notin {"Idle", "HostResponse"} => path'.request = path.request
         /\ (path.state = "Idle" /\ dma.state = "MemRequest") =>
              path'.request = FromPlio(EngineRequest)
         /\ (path.state = "Idle" /\ dma.state # "MemRequest") =>
              path'.state = "Idle" /\ path'.words = path.words
         /\ \A i \in Indexes : path'.words[i] # path.words[i] =>
              path'.request # None /\ path'.request.write /\ path'.request.address \div 4 = i
<1> DEFINE shown == MemoryRequest(dma)
           q == AfterHost(path, shown)
<1>1. path \in WholePath /\ dma \in Engine
  BY DEF OneRequest, WellFormed
<1>2. ASSUME OneRequest(q), q.words = path.words
      PROVE  /\ OneRequest(path') /\ q.request = path'.request
             /\ q.state \in {"Idle", "HostResponse"} =>
                  path'.state = q.state /\ path'.words = path.words
             /\ \A i \in Indexes : path'.words[i] # path.words[i] =>
                  path'.request # None /\ path'.request.write /\ path'.request.address \div 4 = i
  BY <1>2, TickKeeps
<1>3. CASE path.state = "HostResponse"
  <2>1. HostResponse(path) # None
    BY <1>3 DEF HostResponse, OneRequest, Performed
  <2>2. q = [path EXCEPT !.request = None, !.response = None, !.state = "Idle"]
    BY <2>1, OneNone DEF AfterHost, ConsumeHostResponse
  <2> HIDE DEF q
  <2>3. /\ q \in WholePath /\ q.state = "Idle" /\ q.request = None /\ q.words = path.words
        /\ q.pending = path.pending /\ q.answer = path.answer
    BY <1>1, <2>2 DEF WholePath, ControllerStates
  <2>4. OneRequest(q)
    BY <1>3, <2>3 DEF OneRequest
  <2>5. QED
    BY <1>2, <1>3, <2>3, <2>4 DEF q
<1>4. CASE path.state \notin {"Idle", "HostResponse"}
  <2>1. q = path
    BY <1>4, OneNone DEF AfterHost, HostResponse, HostRequestReady
  <2> HIDE DEF q
  <2>2. QED
    BY <1>2, <1>4, <2>1 DEF q
<1>5. CASE path.state = "Idle" /\ dma.state # "MemRequest"
  <2>1. q = path
    BY <1>5, OneNone DEF AfterHost, HostResponse, HostRequestReady, MemoryRequest
  <2> HIDE DEF q
  <2>2. QED
    BY <1>2, <1>5, <2>1 DEF q
<1>6. CASE path.state = "Idle" /\ dma.state = "MemRequest"
  <2> DEFINE r == FromPlio(shown)
  <2>1. dma.active # None /\ dma.active \in Burst
    BY <1>1, <1>6 DEF WellFormed, Engine
  <2>2. shown = [write |-> dma.active.direction = "DeviceWrite", address |-> dma.active.address,
                 value |-> dma.active.pendingWrite]
    BY <1>6 DEF MemoryRequest
  <2> DEFINE write == dma.active.direction = "DeviceWrite"
  <2>11. /\ write \in BOOLEAN /\ dma.active.address \in Nat
         /\ dma.active.pendingWrite \in Words \cup {None}
    BY <2>1 DEF Burst
  <2>3. shown # None
    <3>1. shown = [write |-> write, address |-> dma.active.address,
                   value |-> dma.active.pendingWrite]
      BY <2>2
    <3> HIDE DEF shown, write
    <3>2. shown \in [write : BOOLEAN, address : Nat, value : Words \cup {None}]
      BY <2>11, <3>1
    <3>3. QED
      BY <3>2, NoneIsNoRequest
  <2>4. EngineRequest = shown
    BY <1>1, <1>6, <2>2 DEF EngineRequest, MemoryRequest, Engine
  <2>5. r = [address |-> dma.active.address, write |-> dma.active.direction = "DeviceWrite",
             lanes |-> Lanes, data |-> dma.active.pendingWrite]
    BY <2>2 DEF FromPlio
  <2>6. r \in WordRequest /\ r.address % 4 = 0 /\ r # None
    <3>1. r = [address |-> dma.active.address, write |-> write, lanes |-> Lanes,
               data |-> dma.active.pendingWrite]
      BY <2>5
    <3>2. /\ dma.active.address % 4 = 0
          /\ write => dma.active.pendingWrite \in Words
      BY <1>6, <2>1 DEF AsksForWords, WordBytes
    <3> HIDE DEF r, write
    <3>3. r \in WordRequest /\ r.address % 4 = 0
      BY <2>11, <3>1, <3>2, WordRequestIs
    <3>4. QED
      BY <3>3, NoneIsNoRequest
  <2> HIDE DEF shown, r
  <2>7. q = [path EXCEPT !.request = r, !.response = None, !.state = "BackendRequest"]
    BY <1>6, <2>3, <2>6, OneNone
       DEF AfterHost, HostResponse, HostRequestReady, AcceptHostRequest, r
  <2> HIDE DEF q
  <2>8. /\ q \in WholePath /\ q.state = "BackendRequest" /\ q.request = r
        /\ q.words = path.words /\ q.pending = path.pending /\ q.answer = path.answer
    BY <1>1, <2>6, <2>7 DEF WholePath, ControllerStates
  <2>9. OneRequest(q)
    BY <1>6, <2>6, <2>8 DEF OneRequest
  <2>10. QED
    BY <1>2, <1>6, <2>4, <2>8, <2>9 DEF q, r, shown
<1>7. QED
  BY <1>3, <1>4, <1>5, <1>6

-----------------------------------------------------------------------------
(* What a clock of the controller does that its memory can notice.          *)

\* The engine e asks for, has and waits for what d does.
SameRequest(d, e) ==
  /\ e.state = d.state
  /\ (e.active # None) <=> (d.active # None)
  /\ d.active # None =>
       /\ e.active.direction = d.active.direction /\ e.active.address = d.active.address
       /\ e.active.pendingWrite = d.active.pendingWrite
       /\ e.active.readData = d.active.readData

NothingNew ==
  /\ SameRequest(dma, dma')
  /\ ~epoch'.writeAck
  /\ dma.state = "MemResponse" => epoch'.role = "Dma" /\ path.state # "HostResponse"

BurstOver ==
  /\ dma'.active = None /\ dma'.state = "Idle"
  /\ ~epoch'.writeAck

\* A burst is started, has a word to write, or goes on to its next word to read.
NextWord ==
  /\ dma'.active # None /\ dma'.state \in {"MemRequest", "AwaitDeviceWrite"}
  /\ dma'.active.address % WordBytes = 0
  /\ (dma'.state = "MemRequest" /\ dma'.active.direction = "DeviceWrite") =>
       dma'.active.pendingWrite \in Words
  /\ ~epoch'.writeAck

RequestAccepted ==
  /\ dma.state = "MemRequest" /\ path.state = "Idle"
  /\ dma'.state = "MemResponse"
  /\ SameRequest(dma, [dma' EXCEPT !.state = dma.state])
  /\ epoch'.role = "Dma" /\ ~epoch'.writeAck

WordRead ==
  /\ dma.state = "MemResponse"
  /\ path.state = "HostResponse" /\ path.response.kind = "ReadData"
  /\ dma'.active # None /\ dma'.state = "DeviceReadReady"
  /\ dma'.active.address = dma.active.address
  /\ dma'.active.readData = path.response.value
  /\ ~epoch'.writeAck

WordWritten ==
  /\ dma.state = "MemResponse" /\ dma.active.direction = "DeviceWrite"
  /\ path.state = "HostResponse" /\ path.response.kind = "WriteDone"
  /\ dma'.state \in {"Idle", "AwaitDeviceWrite"}
  /\ dma'.active # None => dma'.active.address % WordBytes = 0
  /\ epoch.role = "Dma" /\ ~epoch.writeAck /\ epoch'.writeAck

Moves ==
  /\ out'.memory = MemoryRequest(dma)
  /\ dma'.caps = dma.caps
  /\ NothingNew \/ BurstOver \/ NextWord \/ RequestAccepted \/ WordRead \/ WordWritten

LEMMA PathDrives ==
  /\ Undriven.memory = MemoryRequest(dma)
  /\ \A ack, err : Drive(ack, err).memory = MemoryRequest(dma)
  BY DEF Undriven, Drive, Silent

\* A word address stays one when the burst goes on to the next word, around the address space too.
LEMMA NextWordAddress ==
  ASSUME NEW a \in Nat, a % 4 = 0
  PROVE  ((a + WordBytes) % AddrSpace) % WordBytes = 0
<1> DEFINE m == a \div 4
           k == AddrSpace \div 4
           q == (a + 4) \div AddrSpace
           r == (a + 4) % AddrSpace
<1>1. AddrSpace \in Nat \ {0} /\ AddrSpace % 4 = 0
  BY DmaConstants, WholeWords DEF WordBytes
<1>2. m \in Nat /\ a = 4 * m
  BY Division
<1>3. k \in Nat /\ AddrSpace = 4 * k
  BY <1>1, Division
<1>4. q \in Nat /\ r \in Nat /\ a + 4 = AddrSpace * q + r
  <2>1. a + 4 \in Nat
    OBVIOUS
  <2>2. QED
    BY <1>1, <2>1, Division
<1> HIDE DEF m, k, q, r
<1>5. k * q \in Nat /\ AddrSpace * q = 4 * (k * q)
  BY <1>3, <1>4, Z3
<1>6. PICK j \in Nat : r = 4 * j + 0
  <2>1. r = 4 * ((m + 1) - k * q)
    BY <1>2, <1>4, <1>5
  <2>2. (m + 1) - k * q \in Nat
    BY <1>2, <1>4, <1>5, <2>1
  <2>3. r = 4 * ((m + 1) - k * q) + 0
    BY <2>1, <2>2
  <2>4. QED
    BY <2>2, <2>3
<1>7. r % 4 = 0
  BY <1>6, RemainderUnique
<1>8. QED
  BY <1>7 DEF r, WordBytes

\* A wait leaves the request as it is, or ends the burst with an error.
LEMMA WaitRequest ==
  ASSUME NEW d, WellFormed(d), d.active # None
  PROVE  LET e == WaitCycle(d)
         IN /\ e \in Engine /\ e.caps = d.caps
            /\ \/ /\ e.active = None /\ e.state = "Idle"
                  /\ e.completion # None /\ e.completion.result # "Ok"
               \/ SameRequest(d, e) /\ e.completion = None
<1>1. d \in Engine /\ d.active \in Burst /\ d.completion = None
  BY DEF WellFormed, Engine
<1>2. CASE d.active.wait + 1 >= Timeout
  <2>1. WaitCycle(d) = Abort(d, "Timeout") /\ "Timeout" \in DmaErrors
    BY <1>2 DEF WaitCycle, DmaErrors
  <2>2. Failed(Abort(d, "Timeout"))
    BY <1>1, <2>1, AbortWell
  <2>3. QED
    BY <1>1, <2>1, <2>2, AbortFacts DEF Failed
<1>3. CASE ~(d.active.wait + 1 >= Timeout)
  <2> DEFINE a == [d.active EXCEPT !.wait = @ + 1]
             e == WaitCycle(d)
  <2>1. /\ a \in Burst /\ a.direction = d.active.direction /\ a.address = d.active.address
        /\ a.pendingWrite = d.active.pendingWrite /\ a.readData = d.active.readData
    BY <1>1 DEF Burst
  <2>2. e = [d EXCEPT !.active = a]
    BY <1>1, <1>3 DEF WaitCycle, Engine
  <2> HIDE DEF a, e
  <2>3. e \in Engine /\ e.active = a /\ e.state = d.state /\ e.caps = d.caps
        /\ e.completion = None /\ a # None
    BY <1>1, <2>1, <2>2, NoneIsFresh DEF Engine
  <2>4. QED
    BY <2>1, <2>3 DEF SameRequest, e
<1>4. QED
  BY <1>2, <1>3

\* The engine has become d, and the epoch goes on as e or is over.
LEMMA OutcomeIs ==
  ASSUME NEW d, d \in Engine, NEW e, NEW ack, NEW over \in BOOLEAN,
         DmaOutcome(d, e, ack, over)
  PROVE  /\ out'.memory = MemoryRequest(dma)
         /\ dma'.caps = d.caps /\ dma'.active = d.active /\ dma'.state = d.state
         /\ over => epoch' = NoEpoch
         /\ ~over => epoch' = e
<1>1. CASE over
  <2>1. dma' = TakeCompletion(d) /\ epoch' = NoEpoch
    BY <1>1 DEF DmaOutcome, FinishCardTransaction
  <2>2. dma'.caps = d.caps /\ dma'.active = d.active /\ dma'.state = d.state
    BY <2>1 DEF TakeCompletion, Engine
  <2>3. QED
    BY <1>1, <2>1, <2>2, PathDrives DEF DmaOutcome
<1>2. CASE ~over
  BY <1>2, PathDrives DEF DmaOutcome
<1>3. QED
  BY <1>1, <1>2

-----------------------------------------------------------------------------
(* Every clock is one of these moves: first the clocks without a burst.     *)

LEMMA OutsideDma ==
  ASSUME CoreInv, AsksForWords, epoch.role # "Dma", dma' = dma,
         out'.memory = MemoryRequest(dma), epoch' = NoEpoch \/ epoch'.writeAck = epoch.writeAck
  PROVE  Moves
<1>1. ~epoch'.writeAck
  BY DEF CoreInv, EpochShape, NoEpoch
<1>2. NothingNew
  BY <1>1 DEF NothingNew, SameRequest, AsksForWords
<1>3. QED
  BY <1>2 DEF Moves

LEMMA HostClocksMove ==
  ASSUME CoreInv, AsksForWords, NEW request, NEW requesting, NEW reply,
         StartWorker(request) \/ Arbitrate(requesting) \/ WorkerClock(request, reply)
  PROVE  Moves
<1>1. epoch \in Epoch
  BY DEF CoreInv, TypeOK
<1>2. [Undriven EXCEPT !.selected = epoch.slot].memory = MemoryRequest(dma)
  BY PathDrives DEF Undriven, Silent
<1>3. /\ epoch.role # "Dma" /\ dma' = dma
      /\ out' = Undriven \/ out' = [Undriven EXCEPT !.selected = epoch.slot]
  BY DEF StartWorker, Arbitrate, WorkerClock
<1>4. epoch' = NoEpoch \/ epoch'.writeAck = epoch.writeAck
  BY <1>1 DEF StartWorker, Arbitrate, WorkerClock, Epoch
<1>5. QED
  BY <1>2, <1>3, <1>4, PathDrives, OutsideDma

LEMMA CardClocksMove ==
  ASSUME CoreInv, AsksForWords, NEW request, NEW channel, NEW pins,
         \/ RequestDropped(request) \/ NoStrobe(request) \/ BadAddress(request)
         \/ NotificationAddress(request, channel) \/ NotificationData(request, pins)
         \/ AnswerDmaAddress(request)
  PROVE  Moves
<1>1. epoch \in Epoch
  BY DEF CoreInv, TypeOK
<1>2. CASE RequestDropped(request) \/ NoStrobe(request) \/ BadAddress(request)
  <2>1. epoch.role # "Dma" /\ dma' = dma
    BY <1>2 DEF RequestDropped, NoStrobe, BadAddress
  <2>2. out'.memory = MemoryRequest(dma)
    BY <1>2, PathDrives DEF RequestDropped, NoStrobe, BadAddress, WaitForStrobe, Refuse, Continue
  <2>3. epoch' = NoEpoch \/ epoch'.writeAck = epoch.writeAck
    BY <1>1, <1>2 DEF RequestDropped, NoStrobe, BadAddress, WaitForStrobe, Refuse, Continue,
                      FinishCardTransaction, Epoch
  <2>4. QED
    BY <2>1, <2>2, <2>3, OutsideDma
<1>3. CASE NotificationAddress(request, channel) \/ NotificationData(request, pins)
  <2>1. epoch.role # "Dma" /\ dma' = dma
    BY <1>3 DEF NotificationAddress, NotificationData
  <2>2. out'.memory = MemoryRequest(dma)
    BY <1>3 DEF NotificationAddress, NotificationData, Acknowledge, Drive, Undriven, Silent
  <2>3. epoch' = NoEpoch \/ epoch'.writeAck = epoch.writeAck
    BY <1>1, <1>3 DEF NotificationAddress, NotificationData, Acknowledge, FinishCardTransaction,
                      Epoch
  <2>4. QED
    BY <2>1, <2>2, <2>3, OutsideDma
<1>4. CASE AnswerDmaAddress(request)
  <2>1. epoch.role # "Dma" /\ dma' = dma
    BY <1>4 DEF AnswerDmaAddress
  <2>2. out'.memory = MemoryRequest(dma)
    BY <1>4 DEF AnswerDmaAddress, Acknowledge, Refuse, FinishCardTransaction, Drive, Undriven, Silent
  <2>3. epoch' = NoEpoch \/ epoch'.writeAck = epoch.writeAck
    BY <1>1, <1>4 DEF AnswerDmaAddress, Acknowledge, Refuse, FinishCardTransaction, Epoch
  <2>4. QED
    BY <2>1, <2>2, <2>3, OutsideDma
<1>5. QED
  BY <1>2, <1>3, <1>4

LEMMA SumOfWords ==
  ASSUME NEW a \in Nat, NEW b \in Nat, a % 4 = 0, b % 4 = 0
  PROVE  (a + b) % 4 = 0
<1>1. a \div 4 \in Nat /\ a = 4 * (a \div 4) /\ b \div 4 \in Nat /\ b = 4 * (b \div 4)
  BY Division
<1>2. a + b = 4 * (a \div 4 + b \div 4) + 0 /\ a \div 4 + b \div 4 \in Nat
  BY <1>1
<1>3. (4 * (a \div 4 + b \div 4) + 0) % 4 = 0
  BY <1>2, RemainderUnique
<1>4. QED
  BY <1>2, <1>3

LEMMA DmaAddressMoves ==
  ASSUME CoreInv, AsksForWords, NEW request, NEW handle \in Handles, NEW words \in Bursts,
         NEW dir \in Directions, DmaAddress(request, handle, words, dir)
  PROVE  Moves
<1> DEFINE ok == StartAllowed(dma, epoch.slot, handle, words, dir)
           e == [epoch EXCEPT !.address = [ok |-> ok, direction |-> dir], !.wait = 0]
<1>1. /\ epoch \in Epoch /\ epoch.role = "Grant" /\ epoch.slot \in Slots /\ ~epoch.writeAck
      /\ dma \in Engine /\ WellFormed(dma)
  BY DEF CoreInv, TypeOK, EpochShape, DmaAddress
<1>2. epoch' = e /\ out' = Drive(FALSE, FALSE)
  BY DEF DmaAddress, Continue
<1>3. epoch'.writeAck = epoch.writeAck /\ out'.memory = MemoryRequest(dma)
  BY <1>1, <1>2, PathDrives DEF Epoch
<1>4. CASE ~ok
  <2>1. dma' = dma
    BY <1>4 DEF DmaAddress
  <2>2. QED
    BY <1>1, <1>3, <2>1, OutsideDma
<1>5. CASE ok
  <2> DEFINE sc == <<epoch.slot, handle.channel>>
             a == [slot |-> epoch.slot, channel |-> handle.channel,
                   generation |-> handle.generation, direction |-> dir,
                   address |-> dma.caps[sc].base + handle.offset,
                   total |-> words, acknowledged |-> 0, pendingWrite |-> None,
                   readData |-> None, wait |-> 0, revokePending |-> FALSE]
  <2>1. /\ handle \in [channel : Channels, generation : Generations, offset : Nat]
        /\ sc \in Slots \X Channels
    BY <1>1, CoreInputs DEF Handles
  <2>2. dma' = Start(dma, epoch.slot, handle, words, dir)
    BY <1>5 DEF DmaAddress
  <2>3. dma'.active # None
    BY <1>1, <1>5, <2>1, <2>2, StartWell
  <2>4. dma' = [dma EXCEPT !.active = a,
                  !.state = IF dir = "DeviceRead" THEN "MemRequest" ELSE "AwaitDeviceWrite"]
    BY <2>2 DEF Start
  <2>5. a.direction = dir /\ a.address = dma.caps[sc].base + handle.offset
    OBVIOUS
  <2>6. /\ dma.caps[sc].base \in Nat /\ handle.offset \in Nat
        /\ dma.caps[sc].base % 4 = 0 /\ handle.offset % 4 = 0
    BY <1>1, <1>5, <2>1 DEF Engine, Capability, AsksForWords, StartAllowed, WordBytes
  <2>7. (dma.caps[sc].base + handle.offset) % 4 = 0
    BY <2>6, SumOfWords
  <2> HIDE DEF a, sc
  <2>8. /\ dma'.active = a /\ dma'.caps = dma.caps
        /\ dma'.state = IF dir = "DeviceRead" THEN "MemRequest" ELSE "AwaitDeviceWrite"
    BY <1>1, <2>4 DEF Engine
  <2>9. NextWord
    BY <1>1, <1>3, <2>3, <2>5, <2>7, <2>8 DEF NextWord, WordBytes
  <2>10. QED
    BY <1>3, <2>8, <2>9 DEF Moves
<1>6. QED
  BY <1>4, <1>5

-----------------------------------------------------------------------------
(* The clocks of a burst.                                                   *)

LEMMA DmaHas ==
  ASSUME CoreInv, epoch.role = "Dma"
  PROVE  /\ epoch \in Epoch /\ dma \in Engine /\ WellFormed(dma)
         /\ dma.state # "Idle" =>
              /\ dma.active # None /\ dma.active \in Burst /\ dma.completion = None
              /\ dma.active.direction = epoch.direction
         /\ epoch.writeAck => dma.state \in {"Idle", "AwaitDeviceWrite"}
         /\ ~NoEpoch.writeAck
  BY DEF CoreInv, TypeOK, WellFormed, BurstOfEpoch, DmaEpochOwnsBurst, Engine, NoEpoch

LEMMA RequestDroppedMoves ==
  ASSUME CoreInv, NEW request, DmaRequestDropped(request)
  PROVE  Moves
<1>1. WellFormed(dma) /\ dma \in Engine /\ ~NoEpoch.writeAck
  BY DmaHas DEF DmaRequestDropped, DmaClock
<1>2. /\ WellFormed(Reset(dma)) /\ Reset(dma).active = None /\ Reset(dma).state = "Idle"
  BY <1>1, ResetWell
<1>3. Reset(dma).caps = dma.caps
  BY <1>1 DEF Reset, Abort, Engine
<1>4. /\ dma' = TakeCompletion(Reset(dma)) /\ epoch' = NoEpoch
      /\ out'.memory = MemoryRequest(dma)
  BY PathDrives DEF DmaRequestDropped, FinishCardTransaction
<1>5. dma'.active = None /\ dma'.state = "Idle" /\ dma'.caps = dma.caps
  BY <1>2, <1>3, <1>4 DEF TakeCompletion, WellFormed, Engine
<1>6. QED
  BY <1>1, <1>4, <1>5 DEF Moves, BurstOver

LEMMA AcknowledgeWriteMoves ==
  ASSUME CoreInv, NEW request, AcknowledgeWrite(request)
  PROVE  Moves
<1> DEFINE e == [epoch EXCEPT !.writeAck = FALSE]
<1>1. /\ epoch \in Epoch /\ dma \in Engine /\ ~NoEpoch.writeAck
      /\ dma.state \in {"Idle", "AwaitDeviceWrite"}
  BY DmaHas DEF AcknowledgeWrite, DmaClock
<1>2. ~e.writeAck
  BY <1>1 DEF Epoch
<1>3. DmaOutcome(dma, e, epoch.writeAck, dma.completion # None)
  BY DEF AcknowledgeWrite, EndOnCompletion
<1> HIDE DEF e
<1>4. /\ out'.memory = MemoryRequest(dma) /\ ~epoch'.writeAck
      /\ dma'.caps = dma.caps /\ dma'.active = dma.active /\ dma'.state = dma.state
  BY <1>1, <1>2, <1>3, OutcomeIs
<1>5. QED
  BY <1>1, <1>4 DEF Moves, NothingNew, SameRequest

\* The engine has become d without a word changing hands.
LEMMA WaitingMoves ==
  ASSUME CoreInv, epoch.role = "Dma", ~epoch.writeAck, NEW d \in Engine,
         d.caps = dma.caps, EndOnError(d, epoch),
         \/ /\ d.active = None /\ d.state = "Idle"
            /\ d.completion # None /\ d.completion.result # "Ok"
         \/ SameRequest(dma, d) /\ d.completion = None,
         dma.state = "MemResponse" => path.state # "HostResponse"
  PROVE  Moves
<1> DEFINE over == d.completion # None /\ d.completion.result # "Ok"
<1>1. DmaOutcome(d, epoch, FALSE, over)
  BY DEF EndOnError
<1>2. over \in BOOLEAN /\ (over <=> d.completion # None /\ d.completion.result # "Ok")
  OBVIOUS
<1> HIDE DEF over
<1>3. /\ out'.memory = MemoryRequest(dma)
      /\ dma'.caps = d.caps /\ dma'.active = d.active /\ dma'.state = d.state
      /\ over => epoch' = NoEpoch
      /\ ~over => epoch' = epoch
  BY <1>1, <1>2, OutcomeIs
<1>4. ~epoch'.writeAck
  BY <1>3, DmaHas
<1>5. CASE over
  BY <1>2, <1>3, <1>4, <1>5 DEF Moves, BurstOver
<1>6. CASE ~over
  <2>1. SameRequest(dma, dma')
    BY <1>2, <1>3, <1>6 DEF SameRequest
  <2>2. QED
    BY <1>3, <1>4, <1>6, <2>1 DEF Moves, NothingNew
<1>7. QED
  BY <1>5, <1>6

LEMMA CardWaitsMoves ==
  ASSUME CoreInv, NEW request, CardWaits(request)
  PROVE  Moves
<1>1. /\ epoch.role = "Dma" /\ ~epoch.writeAck /\ EndOnError(WaitCycle(dma), epoch)
      /\ WellFormed(dma) /\ dma.active # None /\ dma.state # "MemResponse"
  BY DmaHas DEF CardWaits, DmaClock
<1>2. QED
  BY <1>1, WaitRequest, WaitingMoves

LEMMA CardWritesWordMoves ==
  ASSUME CoreInv, AsksForWords, NEW request, NEW word \in Words, NEW pins,
         CardWritesWord(request, word, pins)
  PROVE  Moves
<1> DEFINE parity == pins = "Good"
           d == IF pins = "Undriven" THEN dma ELSE OfferDeviceWrite(dma, word, parity)
           over == d.completion # None /\ d.completion.result # "Ok"
<1>1. /\ epoch.role = "Dma" /\ ~epoch.writeAck /\ dma.state = "AwaitDeviceWrite"
      /\ dma \in Engine /\ dma.active # None /\ dma.active \in Burst /\ dma.completion = None
      /\ EndOnError(d, epoch)
  BY DmaHas DEF CardWritesWord, DmaClock
<1>2. CASE pins = "Undriven"
  <2>1. d = dma
    BY <1>2
  <2> HIDE DEF d, over
  <2>2. SameRequest(dma, d)
    BY <2>1 DEF SameRequest
  <2>3. QED
    BY <1>1, <2>1, <2>2, WaitingMoves
<1>3. CASE pins # "Undriven" /\ (~parity \/ dma.active.revokePending)
  <2>1. d = Abort(dma, IF ~parity THEN "Parity" ELSE "Revoked")
    BY <1>3 DEF OfferDeviceWrite
  <2>2. /\ d \in Engine /\ d.caps = dma.caps /\ d.active = None /\ d.state = "Idle"
        /\ d.completion # None /\ d.completion.result # "Ok"
    <3>1. (IF ~parity THEN "Parity" ELSE "Revoked") \in DmaErrors
      BY DEF DmaErrors
    <3> HIDE DEF d, over, parity
    <3>2. QED
      BY <1>1, <2>1, <3>1, AbortFacts, AbortWell DEF Failed
  <2> HIDE DEF d, over
  <2>3. QED
    BY <1>1, <2>2, WaitingMoves
<1>4. CASE pins # "Undriven" /\ parity /\ ~dma.active.revokePending
  <2> DEFINE a == [dma.active EXCEPT !.pendingWrite = word, !.wait = 0]
  <2>1. d = [dma EXCEPT !.active = a, !.state = "MemRequest"]
    BY <1>1, <1>4 DEF OfferDeviceWrite, Engine
  <2>2. a \in Burst /\ a.address = dma.active.address /\ a.pendingWrite = word
    BY <1>1 DEF Burst
  <2> HIDE DEF a, d
  <2>3. /\ d \in Engine /\ d.active = a /\ d.state = "MemRequest" /\ d.caps = dma.caps
        /\ d.completion = None /\ a # None
    BY <1>1, <2>1, <2>2, NoneIsFresh DEF Engine, DmaStates
  <2>4. DmaOutcome(d, epoch, FALSE, over) /\ ~over /\ over \in BOOLEAN
    BY <1>1, <2>3 DEF EndOnError
  <2> HIDE DEF over
  <2>5. /\ out'.memory = MemoryRequest(dma) /\ epoch' = epoch
        /\ dma'.caps = dma.caps /\ dma'.active = a /\ dma'.state = "MemRequest"
    BY <2>3, <2>4, OutcomeIs
  <2>6. NextWord
    BY <1>1, <2>2, <2>3, <2>5 DEF NextWord, AsksForWords
  <2>7. QED
    BY <2>5, <2>6 DEF Moves
<1>5. QED
  BY <1>2, <1>3, <1>4

LEMMA RequestMemoryMoves ==
  ASSUME CoreInv, NEW request, RequestMemory(request, HostRequestReady(path))
  PROVE  Moves
<1> DEFINE d == IF HostRequestReady(path) THEN MemoryRequestAccepted(dma) ELSE WaitCycle(dma)
           over == d.completion # None /\ d.completion.result # "Ok"
<1>1. /\ epoch.role = "Dma" /\ ~epoch.writeAck /\ dma.state = "MemRequest" /\ WellFormed(dma)
      /\ dma \in Engine /\ dma.active # None /\ dma.active \in Burst /\ dma.completion = None
      /\ EndOnError(d, epoch)
  BY DmaHas DEF RequestMemory, DmaClock
<1>2. CASE ~HostRequestReady(path)
  <2>1. d = WaitCycle(dma)
    BY <1>2
  <2> HIDE DEF d, over
  <2>2. QED
    BY <1>1, <2>1, WaitRequest, WaitingMoves
<1>3. CASE HostRequestReady(path)
  <2> DEFINE a == [dma.active EXCEPT !.wait = 0]
  <2>1. d = [dma EXCEPT !.active = a, !.state = "MemResponse"]
    BY <1>1, <1>3 DEF MemoryRequestAccepted, Engine
  <2>2. /\ a \in Burst /\ a.address = dma.active.address /\ a.direction = dma.active.direction
        /\ a.pendingWrite = dma.active.pendingWrite /\ a.readData = dma.active.readData
    BY <1>1 DEF Burst
  <2> HIDE DEF a, d
  <2>3. /\ d \in Engine /\ d.active = a /\ d.state = "MemResponse" /\ d.caps = dma.caps
        /\ d.completion = None /\ a # None
    BY <1>1, <2>1, <2>2, NoneIsFresh DEF Engine, DmaStates
  <2>4. DmaOutcome(d, epoch, FALSE, over) /\ ~over /\ over \in BOOLEAN
    BY <1>1, <2>3 DEF EndOnError
  <2>5. dma' = d
    BY <2>4 DEF DmaOutcome
  <2> HIDE DEF over
  <2>6. out'.memory = MemoryRequest(dma) /\ epoch' = epoch
    BY <2>3, <2>4, OutcomeIs
  <2>7. SameRequest(dma, [dma' EXCEPT !.state = dma.state])
    BY <1>1, <2>2, <2>3, <2>5 DEF SameRequest, Engine
  <2>8. RequestAccepted
    BY <1>1, <1>3, <2>3, <2>5, <2>6, <2>7 DEF RequestAccepted, HostRequestReady
  <2>9. QED
    BY <2>3, <2>5, <2>6, <2>8 DEF Moves
<1>4. QED
  BY <1>2, <1>3

\* One more word: the burst ends or goes on at the next word.
LEMMA BeatDoneWords ==
  ASSUME NEW d, WellFormed(d), d.active # None, d.active.address % WordBytes = 0,
         NEW next \in {"MemRequest", "AwaitDeviceWrite"}
  PROVE  LET e == BeatDone(d, next)
         IN /\ e \in Engine /\ e.caps = d.caps
            /\ \/ /\ e.active = None /\ e.state = "Idle"
               \/ /\ e.active # None /\ e.state = next /\ e.completion = None
                  /\ e.active.address % WordBytes = 0
                  /\ e.active.direction = d.active.direction
<1> DEFINE e == BeatDone(d, next)
           n == d.active.acknowledged + 1
           address == (d.active.address + WordBytes) % AddrSpace
           a == [d.active EXCEPT !.acknowledged = n, !.pendingWrite = None,
                   !.readData = None, !.wait = 0, !.address = address]
           result == /\ e \in Engine /\ e.caps = d.caps
                     /\ \/ /\ e.active = None /\ e.state = "Idle"
                        \/ /\ e.active # None /\ e.state = next /\ e.completion = None
                           /\ e.active.address % WordBytes = 0
                           /\ e.active.direction = d.active.direction
<1>1. /\ d \in Engine /\ d.active \in Burst /\ d.completion = None /\ next \in DmaStates
      /\ d.active.address \in Nat /\ d.active.address % 4 = 0 /\ n \in Nat
  BY DEF WellFormed, Engine, DmaStates, Burst, WordBytes
<1>2. address % WordBytes = 0
  BY <1>1, NextWordAddress
<1>3. address \in Nat
  <2>1. d.active.address + WordBytes \in Nat
    BY <1>1 DEF WordBytes
  <2>2. QED
    BY <2>1, Division, DmaConstants
<1>4. e = IF a.revokePending THEN Abort(d, "Revoked")
          ELSE IF a.acknowledged = a.total THEN FinishOk(d, a.acknowledged)
          ELSE [d EXCEPT !.active = a, !.state = next]
  BY <1>1 DEF BeatDone
<1> HIDE DEF address, n
<1>5. /\ a \in Burst /\ a.direction = d.active.direction /\ a.address = address
      /\ a.acknowledged \in Nat
  BY <1>1, <1>3 DEF Burst
<1> HIDE DEF a, e
<1>6. ASSUME e = Abort(d, "Revoked") PROVE result
  <2>1. "Revoked" \in DmaErrors
    BY DEF DmaErrors
  <2>2. QED
    BY <1>1, <1>6, <2>1, AbortFacts
<1>7. ASSUME e = FinishOk(d, a.acknowledged) PROVE result
  BY <1>1, <1>5, <1>7, FinishOkFacts
<1>8. ASSUME e = [d EXCEPT !.active = a, !.state = next] PROVE result
  <2>1. /\ e \in Engine /\ e.active = a /\ e.state = next /\ e.caps = d.caps
        /\ e.completion = None /\ a # None
    BY <1>1, <1>5, <1>8, NoneIsFresh DEF Engine
  <2>2. QED
    BY <1>2, <1>5, <2>1
<1>9. result
  BY <1>4, <1>6, <1>7, <1>8
<1>10. QED
  BY <1>9 DEF e

LEMMA CardReadsWordMoves ==
  ASSUME CoreInv, AsksForWords, NEW request, CardReadsWord(request)
  PROVE  Moves
<1> DEFINE d == BeatDone(dma, "MemRequest")
           over == d.completion # None
<1>1. /\ epoch.role = "Dma" /\ ~epoch.writeAck /\ dma.state = "DeviceReadReady"
      /\ WellFormed(dma) /\ dma.active # None /\ ~NoEpoch.writeAck
      /\ dma.active.direction = "DeviceRead"
  BY DmaHas DEF CardReadsWord, DmaClock, WellFormed
<1>2. DmaOutcome(d, epoch, TRUE, over) /\ over \in BOOLEAN
  BY DEF CardReadsWord, AcknowledgeDeviceRead, EndOnCompletion
<1>3. /\ d \in Engine /\ d.caps = dma.caps
      /\ \/ /\ d.active = None /\ d.state = "Idle"
         \/ /\ d.active # None /\ d.state = "MemRequest" /\ d.completion = None
            /\ d.active.address % WordBytes = 0
            /\ d.active.direction = dma.active.direction
  BY <1>1, BeatDoneWords DEF AsksForWords
<1> HIDE DEF d, over
<1>4. /\ out'.memory = MemoryRequest(dma) /\ ~epoch'.writeAck
      /\ dma'.caps = dma.caps /\ dma'.active = d.active /\ dma'.state = d.state
  BY <1>1, <1>2, <1>3, OutcomeIs
<1>5. BurstOver \/ NextWord
  BY <1>1, <1>3, <1>4 DEF BurstOver, NextWord
<1>6. QED
  BY <1>4, <1>5 DEF Moves

LEMMA AwaitMemoryMoves ==
  ASSUME CoreInv, AsksForWords, OneRequest(path), NEW request,
         AwaitMemory(request, HostResponse(path))
  PROVE  Moves
<1> DEFINE response == HostResponse(path)
           wrote == epoch.direction = "DeviceWrite" /\ response.kind = "WriteDone"
           read  == epoch.direction = "DeviceRead" /\ response.kind = "ReadData"
           d == MemoryResponse(dma, response)
           e == [epoch EXCEPT !.writeAck = wrote]
           over == d.completion # None /\ d.completion.result # "Ok"
<1>1. /\ epoch.role = "Dma" /\ ~epoch.writeAck /\ dma.state = "MemResponse" /\ WellFormed(dma)
      /\ dma \in Engine /\ dma.active # None /\ dma.active \in Burst /\ dma.completion = None
      /\ dma.active.direction = epoch.direction /\ epoch \in Epoch /\ ~NoEpoch.writeAck
  BY DmaHas DEF AwaitMemory, DmaClock
<1>2. CASE response = None
  <2>1. path.state # "HostResponse"
    BY <1>2 DEF HostResponse, OneRequest, Performed
  <2>2. EndOnError(WaitCycle(dma), epoch)
    BY <1>2 DEF AwaitMemory
  <2>3. QED
    BY <1>1, <2>1, <2>2, WaitRequest, WaitingMoves
<1>3. CASE response # None
  <2>1. path.state = "HostResponse" /\ response = path.response
    BY <1>3, OneNone DEF HostResponse
  <2>2. DmaOutcome(d, e, FALSE, over)
    BY <1>3 DEF AwaitMemory, EndOnError
  <2>3. e.writeAck = wrote
    BY <1>1 DEF Epoch
  <2>4. over \in BOOLEAN /\ (over <=> d.completion # None /\ d.completion.result # "Ok")
    OBVIOUS
  <2>5. d \in Engine => /\ out'.memory = MemoryRequest(dma)
                        /\ dma'.caps = d.caps /\ dma'.active = d.active /\ dma'.state = d.state
                        /\ over => epoch' = NoEpoch
                        /\ ~over => epoch' = e
    <3> HIDE DEF d, e, over
    <3>1. QED
      BY <2>2, <2>4, OutcomeIs
  <2>6. CASE ~wrote /\ ~read
    <3>1. d = Abort(dma, "MemoryFault") /\ "MemoryFault" \in DmaErrors
      BY <1>1, <2>6 DEF MemoryResponse, DmaErrors
    <3> HIDE DEF d, e, over, wrote, read, response
    <3>2. /\ d \in Engine /\ d.caps = dma.caps /\ d.active = None /\ d.state = "Idle" /\ over
      BY <1>1, <2>4, <3>1, AbortFacts, AbortWell DEF Failed
    <3>3. QED
      BY <1>1, <2>5, <3>2 DEF Moves, BurstOver
  <2>7. CASE read
    <3> DEFINE a == [dma.active EXCEPT !.readData = response.value, !.wait = 0]
    <3>1. d = [dma EXCEPT !.active = a, !.state = "DeviceReadReady"]
      BY <1>1, <2>7 DEF MemoryResponse, Engine
    <3>2. response.value \in Words /\ ~wrote
      BY <1>3, <2>1, <2>7, WholeWords DEF OneRequest, WholePath, Response
    <3>3. a \in Burst /\ a.address = dma.active.address /\ a.readData = response.value
      BY <1>1, <3>2 DEF Burst
    <3>4. path.response.kind = "ReadData"
      BY <2>1, <2>7
    <3> HIDE DEF a, d, e, over, wrote, read
    <3>5. /\ d \in Engine /\ d.active = a /\ d.state = "DeviceReadReady" /\ d.caps = dma.caps
          /\ d.completion = None /\ a # None
      BY <1>1, <3>1, <3>3, NoneIsFresh DEF Engine, DmaStates
    <3>6. ~over
      BY <2>4, <3>5
    <3>7. WordRead
      BY <1>1, <2>1, <2>3, <2>5, <3>2, <3>3, <3>4, <3>5, <3>6 DEF WordRead
    <3>8. QED
      BY <2>5, <3>5, <3>7 DEF Moves
  <2>8. CASE wrote
    <3>1. d = BeatDone(dma, "AwaitDeviceWrite") /\ path.response.kind = "WriteDone"
          /\ dma.active.direction = "DeviceWrite"
      BY <1>1, <2>1, <2>8 DEF MemoryResponse
    <3> HIDE DEF d, e, over, wrote, read
    <3>2. /\ d \in Engine /\ d.caps = dma.caps
          /\ \/ /\ d.active = None /\ d.state = "Idle"
             \/ /\ d.active # None /\ d.state = "AwaitDeviceWrite" /\ d.completion = None
                /\ d.active.address % WordBytes = 0
                /\ d.active.direction = dma.active.direction
      BY <1>1, <3>1, BeatDoneWords DEF AsksForWords
    <3>3. CASE over
      BY <1>1, <2>4, <2>5, <3>2, <3>3 DEF Moves, BurstOver
    <3>4. CASE ~over
      <4>1. epoch'.writeAck
        BY <2>3, <2>5, <2>8, <3>2, <3>4
      <4>2. WordWritten
        BY <1>1, <2>1, <2>5, <3>1, <3>2, <4>1 DEF WordWritten
      <4>3. QED
        BY <2>5, <3>2, <4>2 DEF Moves
    <3>5. QED
      BY <3>3, <3>4
  <2>9. QED
    BY <2>6, <2>7, <2>8
<1>4. QED
  BY <1>2, <1>3

-----------------------------------------------------------------------------
(* Every step of the controller over its path is one of the controller.     *)

LEMMA ClockMoves ==
  ASSUME CoreInv, AsksForWords, OneRequest(path),
         ClockWith({HostRequestReady(path)}, {HostResponse(path)})
  PROVE  Moves
<1>1. PICK request \in WorkerRequests \cup {None} :
        \/ StartWorker(request)
        \/ request = None /\ \E requesting \in SUBSET Slots : Arbitrate(requesting)
        \/ \E reply \in {"Ack", "BadData", "Err", "Wait"} : WorkerClock(request, reply)
        \/ RequestDropped(request)
        \/ NoStrobe(request)
        \/ BadAddress(request)
        \/ \E channel \in NotifyChannels : NotificationAddress(request, channel)
        \/ \E pins \in DataPins : NotificationData(request, pins)
        \/ \E handle \in Handles, words \in Bursts, dir \in Directions :
             DmaAddress(request, handle, words, dir)
        \/ AnswerDmaAddress(request)
        \/ DmaRequestDropped(request)
        \/ AcknowledgeWrite(request)
        \/ \E word \in Words, pins \in DataPins : CardWritesWord(request, word, pins)
        \/ CardWaits(request)
        \/ \E ready \in {HostRequestReady(path)} : RequestMemory(request, ready)
        \/ \E response \in {HostResponse(path)} : AwaitMemory(request, response)
        \/ CardReadsWord(request)
  BY Zenon DEF ClockWith
<1>2. CASE \/ StartWorker(request)
           \/ \E requesting \in SUBSET Slots : Arbitrate(requesting)
           \/ \E reply \in {"Ack", "BadData", "Err", "Wait"} : WorkerClock(request, reply)
  BY <1>2, HostClocksMove, Zenon
<1>3. CASE \/ RequestDropped(request) \/ NoStrobe(request) \/ BadAddress(request)
           \/ \E channel \in NotifyChannels : NotificationAddress(request, channel)
           \/ \E pins \in DataPins : NotificationData(request, pins)
           \/ AnswerDmaAddress(request)
  BY <1>3, CardClocksMove, Zenon
<1>4. CASE \E handle \in Handles, words \in Bursts, dir \in Directions :
             DmaAddress(request, handle, words, dir)
  BY <1>4, DmaAddressMoves
<1>5. CASE DmaRequestDropped(request)
  BY <1>5, RequestDroppedMoves
<1>6. CASE AcknowledgeWrite(request)
  BY <1>6, AcknowledgeWriteMoves
<1>7. CASE \E word \in Words, pins \in DataPins : CardWritesWord(request, word, pins)
  BY <1>7, CardWritesWordMoves
<1>8. CASE CardWaits(request)
  BY <1>8, CardWaitsMoves
<1>9. CASE \E ready \in {HostRequestReady(path)} : RequestMemory(request, ready)
  BY <1>9, RequestMemoryMoves
<1>10. CASE \E response \in {HostResponse(path)} : AwaitMemory(request, response)
  BY <1>10, AwaitMemoryMoves
<1>11. CASE CardReadsWord(request)
  BY <1>11, CardReadsWordMoves
<1>12. QED
  BY <1>1, <1>2, <1>3, <1>4, <1>5, <1>6, <1>7, <1>8, <1>9, <1>10, <1>11, Zenon

\* The path is one of the memories the controller may find.
LEMMA CycleIsClock ==
  ASSUME OneRequest(path), ClockWith({HostRequestReady(path)}, {HostResponse(path)})
  PROVE  Clock
<1>1. HostRequestReady(path) \in BOOLEAN
  BY DEF HostRequestReady
<1>2. HostResponse(path) \in MemoryResponses \cup {None}
  BY OneNone, WholeWords
     DEF HostResponse, OneRequest, WholePath, Response, MemoryResponses
<1>3. QED
  BY <1>1, <1>2, Zenon DEF Clock, ClockWith

LEMMA SoftwareLeaves ==
  ASSUME CoreInv, AsksForWords, SoftwareCall
  PROVE  /\ SameRequest(dma, dma') /\ epoch' = epoch
         /\ \A sc \in Slots \X Channels : dma'.caps[sc].base % WordBytes = 0
<1>1. dma \in Engine
  BY DEF CoreInv, TypeOK
<1>2. ASSUME NEW s \in BoundSlots, NEW c \in Channels, NEW mapping \in Mappings,
             BindDma(s, c, mapping)
      PROVE  /\ SameRequest(dma, dma') /\ epoch' = epoch
             /\ \A sc \in Slots \X Channels : dma'.caps[sc].base % WordBytes = 0
  <2> DEFINE cap == [base |-> mapping[1], length |-> mapping[2], deviceRead |-> TRUE,
                     deviceWrite |-> TRUE,
                     generation |-> NextGeneration(dma.caps[<<s, c>>].generation), valid |-> TRUE]
  <2>1. dma' = [dma EXCEPT !.caps[<<s, c>>] = cap] /\ epoch' = epoch
    BY <1>2 DEF BindDma, Bind
  <2>2. cap.base % WordBytes = 0
    BY <1>2 DEF BindDma, BindAllowed
  <2> HIDE DEF cap
  <2>3. /\ dma'.state = dma.state /\ dma'.active = dma.active
        /\ dma'.caps = [dma.caps EXCEPT ![<<s, c>>] = cap]
    BY <1>1, <2>1 DEF Engine
  <2>4. ASSUME NEW sc \in Slots \X Channels PROVE dma'.caps[sc].base % WordBytes = 0
    BY <1>1, <2>2, <2>3 DEF Engine, AsksForWords
  <2>5. QED
    BY <2>1, <2>3, <2>4 DEF SameRequest
<1>3. ASSUME NEW s \in BoundSlots, NEW c \in Channels, RevokeDma(s, c)
      PROVE  /\ SameRequest(dma, dma') /\ epoch' = epoch
             /\ \A sc \in Slots \X Channels : dma'.caps[sc].base % WordBytes = 0
  <2> DEFINE a == IF ActiveMatches(dma, s, c) THEN [dma.active EXCEPT !.revokePending = TRUE]
                  ELSE dma.active
             caps == [dma.caps EXCEPT ![<<s, c>>].valid = FALSE]
  <2>1. dma' = Revoke(dma, s, c) /\ epoch' = epoch
    BY <1>3 DEF RevokeDma
  <2>2. dma'.state = dma.state /\ dma'.active = a /\ dma'.caps = caps
    BY <1>1, <2>1 DEF Revoke, Engine
  <2>3. ASSUME dma.active # None
        PROVE  /\ a # None
               /\ a.direction = dma.active.direction /\ a.address = dma.active.address
               /\ a.pendingWrite = dma.active.pendingWrite /\ a.readData = dma.active.readData
    <3>1. dma.active \in Burst
      BY <1>1, <2>3 DEF Engine
    <3>2. a \in Burst
      BY <3>1 DEF Burst
    <3>3. /\ a.direction = dma.active.direction /\ a.address = dma.active.address
          /\ a.pendingWrite = dma.active.pendingWrite /\ a.readData = dma.active.readData
      BY <3>1 DEF Burst
    <3>4. QED
      BY <3>2, <3>3, NoneIsFresh
  <2>4. dma.active = None => a = None
    BY DEF ActiveMatches
  <2>5. \A sc \in Slots \X Channels : caps[sc].base % WordBytes = 0
    BY <1>1 DEF Engine, Capability, AsksForWords
  <2> HIDE DEF a, caps
  <2>6. QED
    BY <2>1, <2>2, <2>3, <2>4, <2>5 DEF SameRequest
<1>4. CASE UNCHANGED <<dma, epoch>>
  BY <1>4 DEF SameRequest, AsksForWords
<1>5. \A n, enabled, masked : SetNotificationConfig(n, enabled, masked) => UNCHANGED <<dma, epoch>>
  BY DEF SetNotificationConfig
<1>6. ClaimNotification \/ TakeWorkerCompletion \/ TakeDmaCompletion => UNCHANGED <<dma, epoch>>
  BY DEF ClaimNotification, TakeWorkerCompletion, TakeDmaCompletion
<1>7. QED
  BY <1>2, <1>3, <1>4, <1>5, <1>6, Zenon DEF SoftwareCall

-----------------------------------------------------------------------------
(* The invariant.                                                           *)

LEMMA EngineRequestIs ==
  ASSUME dma \in Engine
  PROVE  FromPlio(EngineRequest) =
           [address |-> dma.active.address, write |-> dma.active.direction = "DeviceWrite",
            lanes |-> Lanes, data |-> dma.active.pendingWrite]
  BY DEF EngineRequest, MemoryRequest, FromPlio, Engine

\* Between clocks nothing the memory can notice changes.
LEMMA StandingStillKeeps ==
  ASSUME CoreInv, CoreInv', HMInv, SameRequest(dma, dma'), UNCHANGED <<epoch, path, ledger>>,
         \A sc \in Slots \X Channels : dma'.caps[sc].base % WordBytes = 0
  PROVE  HMInv'
<1>1. dma \in Engine /\ dma' \in Engine /\ WellFormed(dma)
  BY DEF CoreInv, TypeOK
<1>2. dma.state # "Idle" => dma.active # None
  BY <1>1 DEF WellFormed
<1>3. AsksForWords'
  BY <1>2 DEF HMInv, AsksForWords, SameRequest
<1>4. OneRequest(path)'
  BY DEF HMInv
<1>5. AwaitsItsOwnRequest'
  <2>1. dma.state = "MemResponse" => FromPlio(EngineRequest)' = FromPlio(EngineRequest)
    BY <1>1, <1>2, EngineRequestIs DEF SameRequest, EngineRequest, MemoryRequest, FromPlio, Engine
  <2>2. QED
    BY <2>1 DEF HMInv, AwaitsItsOwnRequest, SameRequest
<1>6. QuietBeforeTheCard'
  BY <1>2 DEF HMInv, QuietBeforeTheCard, SameRequest
<1>7. PromisesStand'
  BY DEF HMInv, PromisesStand, AcknowledgedWritesAreInMemory
<1>8. QED
  BY <1>3, <1>4, <1>5, <1>6, <1>7 DEF HMInv

-----------------------------------------------------------------------------
(* A clock keeps it.                                                        *)

\* What CyclePath and ClockMoves say of a clock of the controller over its path.
CycleFacts ==
  /\ Moves
  /\ OneRequest(path) /\ OneRequest(path')
  /\ dma \in Engine /\ WellFormed(dma) /\ dma' \in Engine /\ WellFormed(dma')
  /\ epoch.role # "Dma" => ~epoch.writeAck
  /\ epoch.writeAck => dma.state \in {"Idle", "AwaitDeviceWrite"}
  /\ AfterHost(path, out'.memory).request = path'.request
  /\ path.state = "HostResponse" => path'.state = "Idle" /\ path'.words = path.words
  /\ path.state \notin {"Idle", "HostResponse"} => path'.request = path.request
  /\ (path.state = "Idle" /\ dma.state = "MemRequest") => path'.request = FromPlio(EngineRequest)
  /\ (path.state = "Idle" /\ dma.state # "MemRequest") =>
       path'.state = "Idle" /\ path'.words = path.words
  /\ \A i \in Indexes : path'.words[i] # path.words[i] =>
       path'.request # None /\ path'.request.write /\ path'.request.address \div 4 = i

LEMMA CycleHas ==
  ASSUME CoreInv, CoreInv', HMInv, HostCycle
  PROVE  CycleFacts
<1>1. /\ dma \in Engine /\ WellFormed(dma) /\ dma' \in Engine /\ WellFormed(dma')
      /\ epoch.role # "Dma" => ~epoch.writeAck
      /\ epoch.writeAck => dma.state \in {"Idle", "AwaitDeviceWrite"}
  <2>1. CoreInv => /\ dma \in Engine /\ WellFormed(dma)
                   /\ epoch.role # "Dma" => ~epoch.writeAck
                   /\ epoch.writeAck => dma.state \in {"Idle", "AwaitDeviceWrite"}
    BY DmaHas DEF CoreInv, TypeOK, EpochShape
  <2>2. CoreInv' => dma' \in Engine /\ WellFormed(dma')
    BY DEF CoreInv, TypeOK
  <2>3. QED
    BY <2>1, <2>2
<1>2. Moves
  BY ClockMoves DEF HostCycle, HMInv
<1>3. path' = TickBackend(AfterHost(path, MemoryRequest(dma)))
  BY <1>2 DEF HostCycle, Moves
<1>4. out'.memory = MemoryRequest(dma)
  BY <1>2 DEF Moves
<1>5. OneRequest(path) /\ AsksForWords
  BY DEF HMInv
<1>6. QED
  BY <1>1, <1>2, <1>3, <1>4, <1>5, CyclePath DEF CycleFacts

LEMMA CycleAsksForWords ==
  ASSUME HMInv, CycleFacts
  PROVE  AsksForWords'
<1>1. /\ AsksForWords /\ Moves /\ WellFormed(dma) /\ WellFormed(dma') /\ dma'.caps = dma.caps
  BY DEF HMInv, CycleFacts, Moves
<1>2. dma.state # "Idle" => dma.active # None
  BY <1>1 DEF WellFormed
<1>3. dma'.state # "Idle" <=> dma'.active # None
  BY <1>1 DEF WellFormed
<1>4. CASE NothingNew
  BY <1>1, <1>2, <1>3, <1>4 DEF NothingNew, SameRequest, AsksForWords
<1>5. CASE BurstOver
  BY <1>1, <1>5 DEF BurstOver, AsksForWords
<1>6. CASE NextWord
  BY <1>1, <1>3, <1>6 DEF NextWord, AsksForWords
<1>7. CASE RequestAccepted
  <2>1. /\ dma'.active # None /\ dma'.active.address = dma.active.address
        /\ dma'.active.direction = dma.active.direction
        /\ dma'.active.pendingWrite = dma.active.pendingWrite
    <3>1. [dma' EXCEPT !.state = dma.state].active = dma'.active
      BY DEF CycleFacts, Engine
    <3>2. QED
      BY <1>2, <1>7, <3>1 DEF RequestAccepted, SameRequest
  <2>2. QED
    BY <1>1, <1>2, <1>7, <2>1 DEF RequestAccepted, AsksForWords
<1>8. CASE WordRead
  BY <1>1, <1>2, <1>8 DEF WordRead, AsksForWords
<1>9. CASE WordWritten
  BY <1>1, <1>3, <1>9 DEF WordWritten, AsksForWords
<1>10. QED
  BY <1>1, <1>4, <1>5, <1>6, <1>7, <1>8, <1>9 DEF Moves

LEMMA CycleAwaitsItsOwn ==
  ASSUME HMInv, CycleFacts
  PROVE  AwaitsItsOwnRequest'
<1> SUFFICES ASSUME dma'.state = "MemResponse"
             PROVE  path'.state # "Idle" /\ path'.request = FromPlio(EngineRequest)'
  BY DEF AwaitsItsOwnRequest
<1>1. dma'.active # None /\ dma' \in Engine /\ dma \in Engine
  BY DEF CycleFacts, WellFormed
<1>2. ASSUME path'.request # None PROVE path'.state # "Idle"
  BY <1>2 DEF CycleFacts, OneRequest
<1>3. FromPlio(EngineRequest)' =
        [address |-> dma'.active.address, write |-> dma'.active.direction = "DeviceWrite",
         lanes |-> Lanes, data |-> dma'.active.pendingWrite]
  BY <1>1, EngineRequestIs DEF EngineRequest, MemoryRequest, FromPlio, Engine
<1>4. ASSUME /\ dma.active # None /\ dma'.active.address = dma.active.address
             /\ dma'.active.direction = dma.active.direction
             /\ dma'.active.pendingWrite = dma.active.pendingWrite
      PROVE  FromPlio(EngineRequest)' = FromPlio(EngineRequest)
  BY <1>1, <1>3, <1>4, EngineRequestIs
<1>5. CASE NothingNew
  <2>1. dma.state = "MemResponse" /\ path.state # "HostResponse"
    BY <1>5 DEF NothingNew, SameRequest
  <2>2. path.state # "Idle" /\ path.request = FromPlio(EngineRequest) /\ path.request # None
    BY <2>1 DEF HMInv, AwaitsItsOwnRequest, OneRequest
  <2>3. path'.request = path.request
    BY <2>1, <2>2 DEF CycleFacts
  <2>4. FromPlio(EngineRequest)' = FromPlio(EngineRequest)
    BY <1>1, <1>4, <1>5 DEF NothingNew, SameRequest
  <2>5. QED
    BY <1>2, <2>2, <2>3, <2>4
<1>6. CASE RequestAccepted
  <2>1. dma.state = "MemRequest" /\ path.state = "Idle" /\ dma.active # None
    BY <1>6 DEF RequestAccepted, CycleFacts, WellFormed
  <2>2. path'.request = FromPlio(EngineRequest)
    BY <2>1 DEF CycleFacts
  <2>3. [dma' EXCEPT !.state = dma.state].active = dma'.active
    BY <1>1 DEF Engine
  <2>4. FromPlio(EngineRequest)' = FromPlio(EngineRequest)
    BY <1>1, <1>4, <1>6, <2>1, <2>3 DEF RequestAccepted, SameRequest
  <2>5. path'.request # None
    <3>1. FromPlio(EngineRequest) \in WordRequest
      <4>1. /\ dma.active \in Burst /\ dma.active.address % 4 = 0
            /\ dma.active.direction = "DeviceWrite" => dma.active.pendingWrite \in Words
        BY <1>1, <2>1 DEF Engine, HMInv, AsksForWords, WordBytes
      <4>2. /\ dma.active.address \in Nat
            /\ dma.active.pendingWrite \in Words \cup {None}
        BY <4>1 DEF Burst
      <4> DEFINE w == dma.active.direction = "DeviceWrite"
      <4>3. w \in BOOLEAN /\ (w => dma.active.pendingWrite \in Words)
        BY <4>1
      <4>4. FromPlio(EngineRequest) = [address |-> dma.active.address, write |-> w,
              lanes |-> Lanes, data |-> dma.active.pendingWrite]
        BY <1>1, EngineRequestIs
      <4> HIDE DEF w
      <4>5. QED
        BY <4>1, <4>2, <4>3, <4>4, WordRequestIs
    <3>2. QED
      BY <2>2, <3>1, NoneIsNoRequest
  <2>6. QED
    BY <1>2, <2>2, <2>4, <2>5
<1>7. Moves
  BY DEF CycleFacts
<1>8. QED
  BY <1>5, <1>6, <1>7 DEF Moves, BurstOver, NextWord, WordRead, WordWritten, WellFormed

\* The word a completion at address a is about.
LEMMA IndexOf ==
  ASSUME NEW a \in Nat, InRange(a)
  PROVE  a \div 4 \in Indexes
  BY PathSizes, Division DEF InRange, Indexes

LEMMA CycleQuiet ==
  ASSUME HMInv, CycleFacts, HostCycle
  PROVE  QuietBeforeTheCard'
<1>1. /\ dma.state # "Idle" => dma.active # None
      /\ epoch.role # "Dma" => ~epoch.writeAck
      /\ OneRequest(path)
  BY DEF CycleFacts, WellFormed
<1>2. CASE NothingNew
  <2>1. ~epoch'.writeAck
    BY <1>2 DEF NothingNew
  <2>2. ASSUME dma'.state = "DeviceReadReady"
        PROVE  /\ path'.state = "Idle"
               /\ dma'.active.readData = path'.words[dma'.active.address \div 4]
    <3>1. /\ dma.state = "DeviceReadReady" /\ dma.active # None
          /\ dma'.active.address = dma.active.address
          /\ dma'.active.readData = dma.active.readData
      BY <1>1, <1>2, <2>2 DEF NothingNew, SameRequest
    <3>2. path.state = "Idle" /\ dma.active.readData = path.words[dma.active.address \div 4]
      BY <3>1 DEF HMInv, QuietBeforeTheCard
    <3>3. path'.state = "Idle" /\ path'.words = path.words
      BY <3>1, <3>2 DEF CycleFacts
    <3>4. QED
      BY <3>1, <3>2, <3>3
  <2>3. QED
    BY <2>1, <2>2 DEF QuietBeforeTheCard
<1>3. CASE WordRead
  <2>1. /\ dma.state = "MemResponse" /\ path.state = "HostResponse"
        /\ path.response.kind = "ReadData" /\ ~epoch'.writeAck
        /\ dma'.active.address = dma.active.address
        /\ dma'.active.readData = path.response.value
    BY <1>3 DEF WordRead
  <2>2. path'.state = "Idle" /\ path'.words = path.words
    BY <2>1 DEF CycleFacts
  <2>3. path.response.value = path.words[path.request.address \div 4]
    BY <1>1, <2>1 DEF OneRequest, Performed
  <2>4. path.request.address = dma.active.address
    BY <2>1, EngineRequestIs DEF HMInv, AwaitsItsOwnRequest, CycleFacts
  <2>5. QED
    BY <2>1, <2>2, <2>3, <2>4 DEF QuietBeforeTheCard
<1>4. CASE WordWritten
  <2>1. /\ dma.state = "MemResponse" /\ path.state = "HostResponse"
        /\ path.response.kind = "WriteDone"
        /\ epoch.role = "Dma" /\ epoch'.writeAck /\ ~epoch.writeAck
        /\ dma'.state \in {"Idle", "AwaitDeviceWrite"}
    BY <1>4 DEF WordWritten
  <2>2. path'.state = "Idle" /\ path'.words = path.words
    BY <2>1 DEF CycleFacts
  <2>3. /\ InRange(path.request.address) /\ path.request \in WordRequest
        /\ path.words[path.request.address \div 4] = path.request.data
    BY <1>1, <2>1 DEF OneRequest, Performed, WholePath
  <2>4. /\ path.request.address = dma.active.address
        /\ path.request.data = dma.active.pendingWrite
    BY <2>1, EngineRequestIs DEF HMInv, AwaitsItsOwnRequest, CycleFacts
  <2> DEFINE i == dma.active.address \div 4
  <2>5. i \in Indexes
    BY <2>3, <2>4, IndexOf DEF WordRequest
  <2>6. ledger'.confirmed = <<i, dma.active.pendingWrite>>
    BY <2>1 DEF HostCycle, LedgerAfter
  <2>7. ledger'.confirmed = <<i, path'.words[i]>>
    BY <2>2, <2>3, <2>4, <2>6
  <2> HIDE DEF i
  <2>8. \E j \in Indexes : ledger'.confirmed = <<j, path'.words[j]>>
    BY <2>5, <2>7
  <2>9. QED
    BY <2>1, <2>2, <2>8 DEF QuietBeforeTheCard, Indexes
<1>5. CASE BurstOver \/ NextWord \/ RequestAccepted
  BY <1>5 DEF BurstOver, NextWord, RequestAccepted, QuietBeforeTheCard
<1>6. QED
  BY <1>2, <1>3, <1>4, <1>5 DEF CycleFacts, Moves

\* A clock that tells a card its word is written tells it about the word memory confirmed.
LEMMA CyclePromises ==
  ASSUME HMInv, CycleFacts, HostCycle
  PROVE  PromisesStand'
<1> DEFINE told == epoch.writeAck /\ out'.ack
           promised == IF told
                       THEN [ledger.promised EXCEPT ![ledger.confirmed[1]] = ledger.confirmed[2]]
                       ELSE ledger.promised
           Coming(i) == /\ path.state = "Idle" /\ path'.request # None /\ path'.request.write
                        /\ path'.request.address \div 4 = i
<1>1. /\ ledger.promised \in [Indexes -> Word \cup {None}]
      /\ \A i \in Indexes : ledger.promised[i] # None => path.words[i] = ledger.promised[i]
      /\ \A i \in Indexes :
           (path.request # None /\ path.request.write /\ path.request.address \div 4 = i) =>
             ledger.promised[i] = None
  BY DEF HMInv, PromisesStand, AcknowledgedWritesAreInMemory
<1>2. OneRequest(path) /\ path.words \in [Indexes -> Word]
  BY DEF HMInv, OneRequest, WholePath
<1>3. ledger'.promised = [i \in Indexes |-> IF Coming(i) THEN None ELSE promised[i]]
  <2>1. AfterHost(path, out'.memory).request = path'.request
    BY DEF CycleFacts
  <2>2. ledger' = LedgerAfter
    BY DEF HostCycle
  <2>3. QED
    BY <2>1, <2>2 DEF LedgerAfter
<1>4. /\ promised \in [Indexes -> Word \cup {None}]
      /\ \A i \in Indexes : promised[i] # None => path.words[i] = promised[i]
      /\ told => path.state = "Idle"
  <2>1. CASE ~told
    BY <1>1, <2>1
  <2>2. CASE told
    <3>1. path.state = "Idle" /\ \E i \in Indexes : ledger.confirmed = <<i, path.words[i]>>
      BY <2>2 DEF HMInv, QuietBeforeTheCard
    <3>2. PICK i \in Indexes : ledger.confirmed = <<i, path.words[i]>>
      BY <3>1
    <3>3. promised = [ledger.promised EXCEPT ![i] = path.words[i]]
      BY <2>2, <3>2
    <3> HIDE DEF promised
    <3>4. QED
      BY <1>1, <1>2, <3>1, <3>3
  <2>3. QED
    BY <2>1, <2>2
<1>5. told \/ promised = ledger.promised
  OBVIOUS
<1> HIDE DEF promised, told
<1>6. ASSUME NEW i \in Indexes
      PROVE  /\ ledger'.promised[i] \in Word \cup {None}
             /\ ledger'.promised[i] # None => ~Coming(i) /\ promised[i] = ledger'.promised[i]
  BY <1>3, <1>4
<1>7. ledger'.promised \in [Indexes -> Word \cup {None}]
  BY <1>3, <1>6
<1>8. ASSUME NEW i \in Indexes, path'.request # None, path'.request.write,
             path'.request.address \div 4 = i
      PROVE  ledger'.promised[i] = None
  <2>1. CASE path.state = "Idle"
    BY <1>6, <1>8, <2>1
  <2>2. CASE path.state = "HostResponse"
    BY <1>8, <2>2 DEF CycleFacts, OneRequest
  <2>3. CASE path.state \notin {"Idle", "HostResponse"}
    <3>1. path'.request = path.request
      BY <2>3 DEF CycleFacts
    <3>2. ledger.promised[i] = None /\ promised = ledger.promised
      BY <1>1, <1>4, <1>5, <1>8, <2>3, <3>1
    <3>3. QED
      BY <1>6, <3>2
  <2>4. QED
    BY <2>1, <2>2, <2>3
<1>9. ASSUME NEW i \in Indexes, ledger'.promised[i] # None
      PROVE  path'.words[i] = ledger'.promised[i]
  <2>1. path'.words[i] = path.words[i]
    BY <1>8, <1>9 DEF CycleFacts
  <2>2. QED
    BY <1>4, <1>6, <1>9, <2>1
<1>10. QED
  BY <1>7, <1>8, <1>9 DEF PromisesStand, AcknowledgedWritesAreInMemory, Indexes

LEMMA CycleKeeps ==
  ASSUME CoreInv, CoreInv', HMInv, HostCycle
  PROVE  HMInv'
<1>1. CycleFacts
  BY CycleHas
<1>2. OneRequest(path)'
  BY <1>1 DEF CycleFacts, OneRequest, Performed
<1>3. QED
  BY <1>1, <1>2, CycleAsksForWords, CycleAwaitsItsOwn, CycleQuiet, CyclePromises DEF HMInv

-----------------------------------------------------------------------------
(* The theorems.                                                            *)

LEMMA InitHMInv == HMInit => CoreInv /\ HMInv
<1> SUFFICES ASSUME HMInit PROVE CoreInv /\ HMInv
  OBVIOUS
<1>1. CoreInv
  BY InitCoreInv DEF HMInit
<1>2. /\ dma.state = "Idle" /\ dma.active = None
      /\ \A sc \in Slots \X Channels : dma.caps[sc].base = 0
      /\ ~epoch.writeAck
  BY DEF HMInit, Init, NewEngine, UnboundCapability, NoEpoch
<1>3. 0 % WordBytes = 0
  BY DEF WordBytes
<1>4. AsksForWords
  BY <1>2, <1>3 DEF AsksForWords
<1>5. PICK latency \in Latencies, holdoff \in Holdoffs :
        path = NewPath(latency, holdoff, [i \in Indexes |-> CHOOSE w \in Word : TRUE])
  BY DEF HMInit
<1>6. (CHOOSE w \in Word : TRUE) \in Word
  BY WholeWords
<1> DEFINE words == [i \in Indexes |-> CHOOSE w \in Word : TRUE]
<1>7. words \in [Indexes -> Word] /\ latency \in Nat /\ holdoff \in Nat
  BY <1>6, PathSizes
<1> HIDE DEF words
<1>8. /\ path \in WholePath /\ path.state = "Idle" /\ path.request = None
      /\ path.pending = None /\ path.answer = None
  BY <1>5, <1>7, OneNone DEF NewPath, WholePath, ControllerStates, words
<1>9. OneRequest(path)
  BY <1>8 DEF OneRequest
<1>10. AwaitsItsOwnRequest /\ QuietBeforeTheCard
  BY <1>2 DEF AwaitsItsOwnRequest, QuietBeforeTheCard
<1>11. PromisesStand
  BY <1>8 DEF HMInit, PromisesStand, AcknowledgedWritesAreInMemory
<1>12. QED
  BY <1>1, <1>4, <1>9, <1>10, <1>11 DEF HMInv

LEMMA HMStepKeeps == CoreInv /\ HMInv /\ [HMNext]_hmVars => CoreInv' /\ HMInv' /\ [Next]_vars
<1> SUFFICES ASSUME CoreInv, HMInv, [HMNext]_hmVars PROVE CoreInv' /\ HMInv' /\ [Next]_vars
  OBVIOUS
<1>1. [Next]_vars
  <2>1. HostCycle => Clock
    BY CycleIsClock DEF HostCycle, HMInv
  <2>2. QED
    BY <2>1 DEF HMNext, HMSoftwareCall, Next, hmVars
<1>2. CoreInv'
  BY <1>1, StepKeeps
<1>3. CASE HostCycle
  BY <1>1, <1>2, <1>3, CycleKeeps
<1>4. CASE HMSoftwareCall
  <2>1. UNCHANGED <<path, ledger>> /\ SoftwareCall /\ AsksForWords
    BY <1>4 DEF HMSoftwareCall, HMInv
  <2>2. QED
    BY <1>1, <1>2, <2>1, SoftwareLeaves, StandingStillKeeps
<1>5. CASE UNCHANGED hmVars
  <2>1. UNCHANGED <<dma, epoch, path, ledger>>
    BY <1>5 DEF hmVars, vars
  <2>2. AsksForWords
    BY DEF HMInv
  <2>3. SameRequest(dma, dma') /\ \A sc \in Slots \X Channels : dma'.caps[sc].base % WordBytes = 0
    BY <2>1, <2>2 DEF SameRequest, AsksForWords
  <2>4. QED
    BY <1>1, <1>2, <2>1, <2>3, StandingStillKeeps
<1>6. QED
  BY <1>1, <1>2, <1>3, <1>4, <1>5 DEF HMNext

(* The controller over its memory path is the controller: whatever is proved of HostCore, with a
   memory that answers anything in any clock, holds over the memory there is. *)
THEOREM OverMemoryIsController == HMSpec => Spec
<1>1. HMInit => Init
  BY DEF HMInit
<1>2. QED
  BY <1>1, InitHMInv, HMStepKeeps, PTL DEF HMSpec, Spec

(* The inductive invariant of the controller over its memory path, for every size of the memory
   and every latency of its backend. *)
THEOREM MemoryInvariant == HMSpec => [](CoreInv /\ HMInv)
  BY InitHMInv, HMStepKeeps, PTL DEF HMSpec

(* While the engine awaits memory the request in the path is its own: an answer to a request an
   earlier burst gave up is never taken for it. *)
THEOREM OwnRequestProved == HMSpec => []AwaitsItsOwnRequest
<1>1. HMInv => AwaitsItsOwnRequest
  BY DEF HMInv
<1>2. QED
  BY <1>1, MemoryInvariant, PTL

(* The word offered to a reading card is what memory holds at that address, although other
   bursts, given up before their answer came, went through the same path. *)
THEOREM ReadCurrentProved == HMSpec => []ReadDataIsCurrent
<1>1. HMInv => ReadDataIsCurrent
  BY DEF HMInv, QuietBeforeTheCard, ReadDataIsCurrent
<1>2. QED
  BY <1>1, MemoryInvariant, PTL

(* A word a card was told is written is in memory, until a later write to it is on its way. *)
THEOREM AcknowledgedProved == HMSpec => []AcknowledgedWritesAreInMemory
<1>1. HMInv => AcknowledgedWritesAreInMemory
  BY DEF HMInv, PromisesStand
<1>2. QED
  BY <1>1, MemoryInvariant, PTL


=============================================================================
