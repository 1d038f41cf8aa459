------------------------- MODULE QdxCardAccessProofs --------------------------
(***************************************************************************)
(* Proofs about the queued card (module QdxCard), on top of the invariants *)
(* of module QdxCardProofs: of its register accesses, AccessAppliedOnce,   *)
(* by the inductive invariant AccessInv; of its time limits,               *)
(* NoBurstTimesOut, by the inductive invariant TimelyInv; and of the entry *)
(* a completion goes to, PublishedIsWhole, by EntryAddressed.              *)
(***************************************************************************)
EXTENDS QdxCardProofs

-----------------------------------------------------------------------------
(* The slots of a clock, for the link alone.                                *)

Directions == {None, "QicToDevice", "DeviceToQic"}

\* A message from the chip has its tokens, and a request is a message.
BackShort(l)   == l.d2q # None => l.d2q.left \in 1..3
Requested(l)   == OnLink(l.q2d, "MmioRequest") /\ l.q2d.left \in 1..4 /\ l.q2d.body \in Accesses
NoAccess(c)    == c.toDevice.mmio = None /\ c.toQic.mmioReady = FALSE

LEMMA RequestIsMessage ==
  ASSUME NEW body \in Accesses, NEW left \in Int, NEW m, m = L!Message("MmioRequest", body, left)
  PROVE  m # None /\ m.tag = "MmioRequest" /\ m.body = body /\ m.left = left
<1>1. m \in [tag : {"MmioRequest"}, body : Accesses, left : Int]
  BY DEF L!Message
<1>2. QED
  BY <1>1, NoneIsNoValue DEF MessagesOf, L!Message

LEMMA ShorterIs ==
  ASSUME NEW m, NEW n, NEW taken, Shorter(m, n, taken), n # None
  PROVE  n.tag = m.tag /\ n.body = m.body /\ n.left = IF m.left > 1 THEN m.left - 1 ELSE m.left
BY DEF Shorter, L!Message

\* In a slot, a request is moved, or the line turns, or a message from the chip is moved.
LEMMA SlotOf ==
  ASSUME NEW c, c.link.last \in Directions, NEW sig, NEW dev, NEW d, Slotted(c, d, sig, dev)
  PROVE  Spends(c, d, sig, dev) /\ d.link.last \in Directions
BY DEF Slotted, Turns, Directions

LEMMA BackShortSlot ==
  ASSUME NEW c, c.link.last \in Directions, BackShort(c.link), NEW sig, NEW dev,
         NEW d, Slotted(c, d, sig, dev)
  PROVE  BackShort(d.link)
<1>1. Spends(c, d, sig, dev)
  BY SlotOf
<1>2. CASE d.link.d2q = c.link.d2q
  BY <1>2 DEF BackShort
<1>3. CASE c.link.d2q # None /\ Shorter(c.link.d2q, d.link.d2q, L!QicTakes(c.link.d2q.tag, sig))
  <2>1. c.link.d2q.left \in 1..3
    BY <1>3 DEF BackShort
  <2>2. QED
    BY <1>3, <2>1, ShorterIs DEF BackShort
<1>4. QED
  BY <1>1, <1>2, <1>3 DEF Spends

\* A slot that does not deliver the request to the chip keeps it.
LEMMA RequestSlot ==
  ASSUME NEW c, c.link.last \in Directions, Requested(c.link), NoAccess(c), NEW sig, NEW dev,
         NEW d, Slotted(c, d, sig, dev)
  PROVE  \/ d.link.q2d = None /\ d.link.last = "QicToDevice" /\ dev.mmioReady
            /\ d.toDevice.mmio = c.link.q2d.body /\ d.toQic.mmioReady = TRUE
         \/ Requested(d.link) /\ d.link.q2d.body = c.link.q2d.body /\ NoAccess(d)
<1>1. Spends(c, d, sig, dev) /\ c.link.q2d # None /\ c.link.q2d.tag = "MmioRequest"
  BY SlotOf DEF Requested, OnLink
<1>2. CASE DeviceGets(c, d, dev)
  <2>1. /\ d.link.q2d = None /\ dev.mmioReady
        /\ d.toDevice.mmio = c.link.q2d.body /\ d.toQic.mmioReady = TRUE
    BY <1>1, <1>2 DEF DeviceGets, L!DeviceTakes
  <2>2. d.link.last = "QicToDevice"
    BY <1>1, <2>1 DEF Spends
  <2>3. QED
    BY <2>1, <2>2
<1>3. CASE ~DeviceGets(c, d, dev)
  <2>1. Quiet(c, d) \/ QicGets(c, d, sig)
    BY <1>3 DEF Slotted
  <2>2. NoAccess(d)
    BY <2>1 DEF Quiet, QicGets, NoAccess
  <2>3. Requested(d.link) /\ d.link.q2d.body = c.link.q2d.body
    <3>1. CASE d.link.q2d = c.link.q2d
      BY <3>1 DEF Requested
    <3>2. CASE d.link.q2d # c.link.q2d
      <4>1. Shorter(c.link.q2d, d.link.q2d, L!DeviceTakes(c.link.q2d.tag, dev)) /\ d.link.last = "QicToDevice"
        BY <1>1, <3>2 DEF Spends
      <4>2. CASE c.link.q2d.left > 1
        <5>1. d.link.q2d = L!Message("MmioRequest", c.link.q2d.body, c.link.q2d.left - 1)
          BY <1>1, <4>1, <4>2 DEF Shorter
        <5>2. c.link.q2d.left \in 1..4 /\ c.link.q2d.body \in Accesses
          BY DEF Requested
        <5>3. c.link.q2d.left - 1 \in 1..4 /\ c.link.q2d.left - 1 \in Int
          BY <4>2, <5>2
        <5>4. QED
          BY <5>1, <5>2, <5>3, RequestIsMessage DEF Requested, OnLink
      <4>3. CASE ~(c.link.q2d.left > 1)
        <5>1. d.link.q2d = None /\ L!DeviceTakes(c.link.q2d.tag, dev)
          BY <3>2, <4>1, <4>3 DEF Shorter
        <5>2. Turns(c, d, sig, dev)
          BY DEF Slotted
        <5>3. CASE c.link.last \in {None, "QicToDevice"}
          BY <1>1, <1>3, <4>3, <5>1, <5>2, <5>3 DEF Turns
        <5>4. CASE c.link.last = "DeviceToQic"
          BY <1>1, <3>2, <5>4, NoneIsNoValue DEF Spends
        <5>5. QED
          BY <5>3, <5>4 DEF Directions
      <4>4. QED
        BY <4>2, <4>3
    <3>3. QED
      BY <3>1, <3>2
  <2>4. QED
    BY <2>2, <2>3
<1>4. QED
  BY <1>2, <1>3

\* Nothing else reaches the chip as an access.
LEMMA OtherSlot ==
  ASSUME NEW c, ~OnLink(c.link.q2d, "MmioRequest"), NoAccess(c), NEW sig, NEW dev,
         NEW d, Slotted(c, d, sig, dev)
  PROVE  ~OnLink(d.link.q2d, "MmioRequest") /\ NoAccess(d)
<1>1. CASE Quiet(c, d)
  BY <1>1 DEF Quiet, Same, OnLink, NoAccess
<1>2. CASE DeviceGets(c, d, dev)
  BY <1>2 DEF DeviceGets, OnLink, NoAccess
<1>3. CASE QicGets(c, d, sig)
  BY <1>3 DEF QicGets, OnLink, NoAccess
<1>4. QED
  BY <1>1, <1>2, <1>3 DEF Slotted

\* Nothing the QIC does not take holds the line.
Free(l, sig) == l.last = "DeviceToQic" /\ l.d2q # None => L!QicTakes(l.d2q.tag, sig)

\* Then a request comes closer in every slot, until the chip has it.
LEMMA FreeSlot ==
  ASSUME NEW c, c.link.last \in Directions, Requested(c.link), BackShort(c.link), NEW sig,
         Free(c.link, sig), NEW dev, dev.mmioReady, NEW d, Slotted(c, d, sig, dev)
  PROVE  \/ d.link.q2d = None
         \/ /\ Free(d.link, sig) /\ Ahead(c.link) \in Int /\ Ahead(d.link) \in Int
            /\ Ahead(d.link) <= Ahead(c.link) - 1
<1>1. Spends(c, d, sig, dev) /\ d.link.last \in Directions /\ BackShort(d.link)
  BY SlotOf, BackShortSlot
<1>2. c.link.q2d # None /\ c.link.q2d.tag = "MmioRequest" /\ c.link.q2d.left \in 1..4
  BY DEF Requested, OnLink
<1>n. "DeviceToQic" # None /\ "QicToDevice" # None
  BY NoneIsNoValue
<1>3. CASE c.link.d2q # None /\ c.link.last = "DeviceToQic"
  <2>1. /\ d.link.q2d = c.link.q2d /\ d.link.last = "DeviceToQic"
        /\ Shorter(c.link.d2q, d.link.d2q, L!QicTakes(c.link.d2q.tag, sig))
    BY <1>1, <1>3 DEF Spends
  <2>2. L!QicTakes(c.link.d2q.tag, sig) /\ c.link.d2q.left \in 1..3
    BY <1>3 DEF Free, BackShort
  <2>3. CASE d.link.d2q = None
    BY <1>2, <1>3, <2>1, <2>2, <2>3 DEF Free, Ahead
  <2>4. CASE d.link.d2q # None
    <3>1. c.link.d2q.left > 1
      BY <2>1, <2>2, <2>4 DEF Shorter
    <3>2. d.link.d2q.tag = c.link.d2q.tag /\ d.link.d2q.left = c.link.d2q.left - 1
      BY <2>1, <2>4, <3>1, ShorterIs
    <3>3. QED
      BY <1>2, <1>3, <2>1, <2>2, <2>4, <3>2 DEF Free, Ahead
  <2>5. QED
    BY <2>3, <2>4
<1>4. CASE c.link.d2q = None /\ c.link.last = "DeviceToQic"
  <2>1. d.link.last = None /\ d.link.q2d = c.link.q2d
    BY <1>1, <1>2, <1>4, <1>n DEF Spends
  <2>2. QED
    BY <1>2, <1>4, <1>n, <2>1 DEF Free, Ahead
<1>5. CASE c.link.last \in {None, "QicToDevice"}
  <2>1. /\ d.link.last = "QicToDevice" /\ Shorter(c.link.q2d, d.link.q2d, TRUE)
    BY <1>1, <1>2, <1>5, <1>n DEF Spends, L!DeviceTakes
  <2>2. ASSUME d.link.q2d # None
        PROVE  d.link.q2d.left = c.link.q2d.left - 1
    <3>1. c.link.q2d.left > 1
      BY <1>2, <2>1, <2>2 DEF Shorter
    <3>2. QED
      BY <2>1, <2>2, <3>1, ShorterIs
  <2>3. Free(d.link, sig)
    BY <2>1 DEF Free
  <2>4. c.link.last # "DeviceToQic" /\ d.link.last # "DeviceToQic"
    BY <1>5, <1>n, <2>1
  <2>5. Ahead(c.link) = c.link.q2d.left + 0 /\ Ahead(d.link) = d.link.q2d.left + 0
    BY <2>4 DEF Ahead
  <2>6. ASSUME d.link.q2d # None
        PROVE  /\ Ahead(c.link) \in Int /\ Ahead(d.link) \in Int
               /\ Ahead(d.link) <= Ahead(c.link) - 1
    <3>1. PICK n \in 1..4 : n = c.link.q2d.left
      BY <1>2
    <3>2. Ahead(c.link) = n /\ Ahead(d.link) = n - 1
      BY <2>2, <2>5, <2>6, <3>1
    <3>3. QED
      BY <3>2
  <2>7. QED
    BY <2>3, <2>6
<1>6. QED
  BY <1>3, <1>4, <1>5 DEF Directions

\* What the QIC does not take holds the line, and the request behind it.
WordMessages == MessagesOf("DmaWrite", Handles)

Barring(l, sig) ==
  /\ l.last = "DeviceToQic"
  /\ \/ l.d2q \in Responses /\ ~sig.responseReady
     \/ l.d2q \in WordMessages /\ ~sig.writeReady

LEMMA BarredSlot ==
  ASSUME NEW c, c.link.last \in Directions, Requested(c.link), NoAccess(c), NEW sig,
         Barring(c.link, sig), NEW dev, NEW d, Slotted(c, d, sig, dev)
  PROVE  NoAccess(d) /\ Requested(d.link) /\ Barring(d.link, sig) /\ d.link.d2q.tag = c.link.d2q.tag
<1>1. Spends(c, d, sig, dev)
  BY SlotOf
<1>2. c.link.d2q # None /\ ~L!QicTakes(c.link.d2q.tag, sig)
  <2>1. CASE c.link.d2q \in Responses /\ ~sig.responseReady
    <3>1. c.link.d2q.tag = "MmioResponse" /\ c.link.d2q # None
      BY <2>1, NoneIsNoValue DEF Responses, MessagesOf
    <3>2. QED
      BY <2>1, <3>1 DEF L!QicTakes
  <2>2. CASE c.link.d2q \in WordMessages /\ ~sig.writeReady
    <3>1. c.link.d2q.tag = "DmaWrite" /\ c.link.d2q # None
      BY <2>2, NoneIsNoValue DEF WordMessages, MessagesOf
    <3>2. QED
      BY <2>2, <3>1 DEF L!QicTakes
  <2>3. QED
    BY <2>1, <2>2 DEF Barring
<1>3. d.link.last = "DeviceToQic" /\ d.link.q2d = c.link.q2d
  BY <1>1, <1>2 DEF Spends, Barring
<1>4. \/ d.link.d2q = c.link.d2q
      \/ d.link.d2q = L!Message(c.link.d2q.tag, c.link.d2q.body, c.link.d2q.left - 1)
  BY <1>1, <1>2 DEF Spends, Barring, Shorter
<1>5. /\ c.link.d2q \in Responses => d.link.d2q \in Responses
      /\ c.link.d2q \in WordMessages => d.link.d2q \in WordMessages
      /\ d.link.d2q.tag = c.link.d2q.tag
  BY <1>4 DEF Responses, WordMessages, MessagesOf, L!Message
<1>6. NoAccess(d) /\ Requested(d.link)
  <2>1. c.link.q2d # None
    BY DEF Requested, OnLink
  <2>2. QED
    BY <1>3, <2>1, RequestSlot
<1>7. QED
  BY <1>3, <1>5, <1>6 DEF Barring

-----------------------------------------------------------------------------
(* The QIC with a register access.                                          *)

\* An access begins when the host addresses the card.
LEMMA AccessBegins ==
  ASSUME NEW q, QicShape(q), q.state.at \notin Q!WorkerStates, NEW bus, BusShape(bus), ~bus.reset,
         Q!WorkerAddressCycle(bus) => ~bus.grant, NEW v, NEW q2, q2 = Q!Clock(q, bus, v),
         q2.state.at \in Q!WorkerStates
  PROVE  Q!WorkerAddressCycle(bus) /\ q2.state = Q!StartWorker(bus)
<1>0. QicRecord(q) /\ QicState(q.state) /\ q.grantUsed \in BOOLEAN
  BY DEF QicShape, QicRecord
<1>1. CASE Q!WorkerAddressCycle(bus)
  <2>1. IF Q!AnswersAddress(q.state) THEN q2.state = Q!StartWorker(bus)
        ELSE q2.state.at \in {"DmaComplete", "Idle"}
    BY <1>1, QicAccessed
  <2>2. QED
    BY <1>1, <2>1 DEF Q!WorkerStates
<1>2. CASE ~Q!WorkerAddressCycle(bus)
  <2>1. CASE ~bus.grant /\ Q!NeedsGrant(q.state)
    <3>1. q2.state = Q!LoseGrant(q.state)
      BY <1>2, <2>1, QicFree
    <3>2. q2.state.at \in {"DmaComplete", "Idle"}
      BY <1>0, <2>1, <3>1, LostIs
    <3>3. QED
      BY <3>2 DEF Q!WorkerStates
  <2>2. CASE ~(~bus.grant /\ Q!NeedsGrant(q.state))
    <3>1. PICK n : n = Moved(q, bus, v)
      OBVIOUS
    <3>2. q2.state = n
      BY <1>2, <2>2, <3>1, QicFree
    <3>3. MovesTo(q, bus, v, n)
      BY <1>0, <3>1, MovedIs
    <3>4. n.at \notin Q!WorkerStates
      BY <1>0, <1>2, <3>3, MadeStates DEF MovesTo, QicState, Q!WorkerStates
    <3>5. QED
      BY <3>2, <3>4
  <2>3. QED
    BY <2>1, <2>2
<1>3. QED
  BY <1>1, <1>2

\* It goes on until it is answered.
LEMMA AccessGoesOn ==
  ASSUME NEW q, QicShape(q), q.state.at \in Q!WorkerStates, NEW bus, BusShape(bus), ~bus.reset,
         NEW v, NEW q2, q2 = Q!Clock(q, bus, v)
  PROVE  LET replied == Q!WorkerReply(q.state, bus, v) \in {"Ack", "Err"} IN
         /\ replied => q2.state.at \notin Q!WorkerStates
         /\ ~replied => q2.state = Moved(q, bus, v)
         /\ MovesTo(q, bus, v, Moved(q, bus, v)) /\ QicState(Moved(q, bus, v))
<1>0. QicRecord(q) /\ QicState(q.state) /\ q.grantUsed \in BOOLEAN /\ bus.grant \in BOOLEAN
      /\ (q.tail # None => Q!LocalTail(q.tail))
  BY DEF QicShape, QicRecord, BusShape
<1>1. PICK n : n = Moved(q, bus, v)
  OBVIOUS
<1>2. PICK u : u = Aside(q, v)
  OBVIOUS
<1>3. MovesTo(q, bus, v, n) /\ QicState(n)
  BY <1>0, <1>1, MovedIs
<1>4. Goes(q, bus)
  BY DEF Goes, Lost, Interrupted, Q!LocalTail, Q!NeedsGrant, Q!WorkerStates
<1>5. IF n # Q!Idle THEN GoesTo(q, q2, n, u) ELSE Resumes(q, q2, u)
  BY <1>0, <1>1, <1>2, <1>4, ClockIs
<1>6. IF Q!WorkerReply(q.state, bus, v) \in {"Ack", "Err"} THEN n = Q!Idle
      ELSE n.at \in Q!WorkerStates
  BY <1>3 DEF MovesTo
<1>7. n.at \in Q!WorkerStates => n # Q!Idle
  BY MadeStates DEF Q!WorkerStates
<1>8. Resumes(q, q2, u) => q2.state.at \notin Q!WorkerStates
  BY <1>0, MadeStates DEF Resumes, Q!LocalTail, Q!WorkerStates
<1>9. QED
  BY <1>1, <1>3, <1>5, <1>6, <1>7, <1>8 DEF GoesTo

Doing(at) == at \in {"WorkerReadData", "WorkerWriteData"}

\* The request is offered with its data, and offered until it is taken.
LEMMA OffersIs ==
  ASSUME NEW q, QicShape(q), q.state.at \in Q!WorkerStates, NEW bus, BusShape(bus), ~bus.reset,
         NEW v, NEW q2, q2 = Q!Clock(q, bus, v)
  PROVE  LET s == q.state
             n == q2.state IN
         /\ n.at \in Q!WorkerStates \ {"WorkerResponse"} => s.at # "WorkerResponse" /\ n.op = s.op
         /\ Doing(n.at) => Doing(s.at) /\ ~bus.dataStrobe
         /\ n.at = "WorkerOffer" =>
              \/ Doing(s.at) /\ (s.wait = 0 => n.wait = 0)
              \/ /\ s.at = "WorkerOffer" /\ ~Q!TimedOut(s.wait) /\ ~v.mmioReady
                 /\ n.wait = s.wait + 1
         /\ s.at = "WorkerOffer" /\ ~Q!TimedOut(s.wait) =>
              IF v.mmioReady THEN n.at = "WorkerResponse" ELSE n.at = "WorkerOffer"
<1>1. PICK s : s = q.state
  OBVIOUS
<1>2. PICK now : now = Now(q, bus)
  OBVIOUS
<1>3. now.state = s /\ QicState(s) /\ s.at \in Q!WorkerStates
  BY <1>1, <1>2 DEF Now, QicShape
<1>4. PICK n : n = Moved(q, bus, v)
  OBVIOUS
<1>5. n = Q!NextState(now, bus, v)
  BY <1>2, <1>4 DEF Moved
<1>6. PICK waiting : waiting = [s EXCEPT !.wait = @ + 1]
  OBVIOUS
<1>7. PICK x : x = q2.state
  OBVIOUS
<1>8. /\ Q!WorkerReply(s, bus, v) \in {"Ack", "Err"} => x.at \notin Q!WorkerStates
      /\ Q!WorkerReply(s, bus, v) \notin {"Ack", "Err"} => x = n
      /\ MovesTo(q, bus, v, n) /\ QicState(n)
  BY <1>1, <1>4, <1>7, AccessGoesOn
<1>9. /\ x.at \in Q!WorkerStates => x = n /\ Q!WorkerReply(s, bus, v) \notin {"Ack", "Err"}
      /\ x.at \in Q!WorkerStates \ {"WorkerResponse"} => s.at # "WorkerResponse" /\ x.op = s.op
  BY <1>1, <1>3, <1>8 DEF MovesTo
<1>10. waiting.at = s.at /\ waiting.wait = s.wait + 1
  <2>1. waiting.at = s.at
    BY <1>3, <1>6, WaitingIs DEF Q!WorkerStates
  <2>2. "wait" \in DOMAIN s
    BY <1>3 DEF QicState, Q!WorkerStates, Q!WorkerResponse
  <2>3. QED
    BY <1>6, <2>1, <2>2
<1>11. CASE s.at \in {"WorkerReadData", "WorkerWriteData"}
  <2>1. n = Q!FromWorkerData(s, bus)
    BY <1>3, <1>5, <1>11 DEF Q!NextState
  <2>2. \/ n = Q!Idle
        \/ n = waiting /\ ~bus.dataStrobe
        \/ n = Q!WorkerOffer(s.op, s.wait) \/ n = Q!WorkerOffer(s.op, 0)
    BY <1>6, <2>1 DEF Q!FromWorkerData
  <2>3. n.at = "WorkerOffer" => n.wait = s.wait \/ n.wait = 0
    BY <1>10, <1>11, <2>2, MadeStates DEF Q!WorkerOffer
  <2>4. Doing(n.at) => ~bus.dataStrobe
    BY <2>2, MadeStates DEF Doing
  <2>5. QED
    BY <1>1, <1>7, <1>9, <1>11, <2>3, <2>4 DEF Doing, Q!WorkerStates
<1>12. CASE s.at = "WorkerOffer"
  <2>1. n = Q!FromWorkerOffer(s, v)
    BY <1>3, <1>5, <1>12 DEF Q!NextState
  <2>2. CASE Q!TimedOut(s.wait)
    <3>1. n = Q!Idle
      BY <2>1, <2>2 DEF Q!FromWorkerOffer
    <3>2. QED
      BY <1>1, <1>7, <1>9, <1>12, <2>2, <3>1, MadeStates DEF Doing, Q!WorkerStates
  <2>3. CASE ~Q!TimedOut(s.wait) /\ v.mmioReady
    <3>1. n.at = "WorkerResponse"
      BY <2>1, <2>3, MadeStates DEF Q!FromWorkerOffer
    <3>2. Q!WorkerReply(s, bus, v) \notin {"Ack", "Err"}
      BY <1>8, <3>1, MadeStates, <1>1, <1>3 DEF MovesTo
    <3>3. QED
      BY <1>1, <1>7, <1>8, <1>9, <1>12, <2>3, <3>1, <3>2 DEF Doing, Q!WorkerStates
  <2>4. CASE ~Q!TimedOut(s.wait) /\ ~v.mmioReady
    <3>1. n = waiting
      BY <1>6, <2>1, <2>4 DEF Q!FromWorkerOffer
    <3>2. Q!WorkerReply(s, bus, v) \notin {"Ack", "Err"}
      BY <1>8, <1>10, <1>12, <3>1, MadeStates, <1>1, <1>3 DEF MovesTo
    <3>3. QED
      BY <1>1, <1>7, <1>8, <1>9, <1>10, <1>12, <2>4, <3>1, <3>2 DEF Doing, Q!WorkerStates
  <2>5. QED
    BY <2>2, <2>3, <2>4
<1>13. CASE s.at = "WorkerResponse"
  <2>1. x.at \notin Q!WorkerStates \ {"WorkerResponse"}
    BY <1>9, <1>13
  <2>2. QED
    BY <1>1, <1>7, <1>9, <1>13, <2>1 DEF Doing, Q!WorkerStates
<1>14. QED
  BY <1>3, <1>11, <1>12, <1>13 DEF Q!WorkerStates

-----------------------------------------------------------------------------
(* Both slots of a clock.                                                   *)

\* What the chip sends.
Back == Responses \cup MessagesOf("DmaRequest", Requests) \cup WordMessages
        \cup MessagesOf("NotificationRequest", {0})

TypedBack(l) == l.d2q # None => l.d2q \in Back /\ l.d2q.left \in 1..3

LEMMA BackMessage ==
  ASSUME NEW m \in Back
  PROVE  /\ m # None /\ m.tag \in ToQicTags /\ (m.tag = "NotificationRequest" => m.body = 0)
         /\ \A left \in Int : L!Message(m.tag, m.body, left) \in Back
<1>1. m # None
  BY NoneIsNoValue DEF Back, WordMessages
<1>2. /\ m.tag \in {"MmioResponse", "DmaRequest", "DmaWrite", "NotificationRequest"}
      /\ (m.tag = "NotificationRequest" => m.body = 0)
  BY DEF Back, Responses, WordMessages, MessagesOf
<1>3. ASSUME NEW left \in Int
      PROVE  L!Message(m.tag, m.body, left) \in Back
  <2>1. ASSUME NEW tag, NEW bodies, m \in MessagesOf(tag, bodies)
        PROVE  L!Message(m.tag, m.body, left) \in MessagesOf(tag, bodies)
    BY <1>3, <2>1 DEF MessagesOf, L!Message
  <2>2. QED
    BY <2>1 DEF Back, Responses, WordMessages
<1>4. QED
  BY <1>1, <1>2, <1>3 DEF ToQicTags

\* A message that the chip has sent is taken in the slot in which it goes, which is the last one
\* when the link still has its direction.
LEMMA BackSlot ==
  ASSUME NEW c, c.link.last \in Directions, TypedBack(c.link), NEW sig, NEW dev,
         NEW d, Slotted(c, d, sig, dev)
  PROVE  /\ TypedBack(d.link)
         /\ d.link.last = "DeviceToQic" /\ d.link.d2q = None =>
              c.link.d2q # None /\ QicGets(c, d, sig)
<1>1. Spends(c, d, sig, dev) /\ "DeviceToQic" \notin {None, "QicToDevice"}
  BY SlotOf, NoneIsNoValue
<1>2. CASE c.link.d2q # None /\ (c.link.last = "DeviceToQic" \/ (c.link.last = None /\ c.link.q2d = None))
  <2>1. c.link.d2q \in Back /\ c.link.d2q.left \in 1..3
    BY <1>2 DEF TypedBack
  <2>2. /\ Shorter(c.link.d2q, d.link.d2q, L!QicTakes(c.link.d2q.tag, sig))
        /\ c.link.d2q.left > 1 \/ ~L!QicTakes(c.link.d2q.tag, sig) \/ QicGets(c, d, sig)
    BY <1>1, <1>2 DEF Spends
  <2>3. CASE c.link.d2q.left > 1
    <3>1. d.link.d2q = L!Message(c.link.d2q.tag, c.link.d2q.body, c.link.d2q.left - 1)
      BY <2>2, <2>3 DEF Shorter
    <3>2. c.link.d2q.left - 1 \in Int /\ c.link.d2q.left - 1 \in 1..3
      BY <2>1, <2>3
    <3>3. d.link.d2q \in Back /\ d.link.d2q.left = c.link.d2q.left - 1
      BY <2>1, <3>1, <3>2, BackMessage DEF L!Message
    <3>4. QED
      BY <3>2, <3>3, BackMessage DEF TypedBack
  <2>4. CASE ~(c.link.d2q.left > 1)
    BY <1>2, <2>1, <2>2, <2>4 DEF TypedBack, Shorter
  <2>5. QED
    BY <2>3, <2>4
<1>3. CASE ~(c.link.d2q # None /\ (c.link.last = "DeviceToQic" \/ (c.link.last = None /\ c.link.q2d = None)))
  <2>1. d.link.d2q = c.link.d2q /\ d.link.last \in {None, "QicToDevice"}
    BY <1>1, <1>3 DEF Spends
  <2>2. QED
    BY <1>1, <2>1 DEF TypedBack
<1>4. QED
  BY <1>2, <1>3

LEMMA LastGiven ==
  ASSUME NEW c, c.link.last \in Directions, TypedBack(c.link), NEW sig, NEW dev,
         NEW d, Slotted(c, d, sig, dev), d.link.last = "DeviceToQic", d.link.d2q = None
  PROVE  \/ sig.responseReady \/ d.toDevice.dmaReady \/ d.toDevice.writeReady
         \/ d.link.held # None
<1>1. c.link.d2q # None /\ QicGets(c, d, sig)
  BY BackSlot
<1>2. c.link.d2q \in Back
  BY <1>1 DEF TypedBack
<1>3. /\ c.link.d2q.tag \in {"MmioResponse", "DmaRequest", "DmaWrite", "NotificationRequest"}
      /\ (c.link.d2q.tag = "NotificationRequest" => c.link.d2q.body = 0)
  BY <1>2, BackMessage DEF ToQicTags
<1>4. QED
  BY <1>1, <1>3, ZeroIsValue DEF QicGets, L!QicTakes

\* An answer is given only to a QIC that waits for it.
LEMMA AnswerGiven ==
  ASSUME NEW c, NEW sig, NEW dev, NEW d, Slotted(c, d, sig, dev), d.toDevice.responseReady
  PROVE  c.toDevice.responseReady \/ sig.responseReady
BY DEF Slotted, Quiet, DeviceGets, QicGets, L!QicTakes

\* When a message to the chip has been given, the line turns.
LEMMA GivenTurns ==
  ASSUME NEW e, e.link.last \in Directions, e.link.q2d # None, NEW sig, NEW dev,
         NEW c, Slotted(e, c, sig, dev), NEW d, Slotted(c, d, sig, dev), d.link.q2d = None
  PROVE  d.link.last # "DeviceToQic"
<1>1. Spends(e, c, sig, dev) /\ c.link.last \in Directions
  BY SlotOf
<1>2. Spends(c, d, sig, dev)
  BY <1>1, SlotOf
<1>3. "DeviceToQic" # None /\ "QicToDevice" # None
  BY NoneIsNoValue
<1>4. c.link.q2d = None => c.link.last = "QicToDevice"
  BY <1>1 DEF Spends
<1>5. QED
  BY <1>2, <1>3, <1>4 DEF Spends

\* In a clock, a request is delivered, or comes two slots closer, or is held up.
LEMMA ReachCycle ==
  ASSUME NEW e, e.link.last \in Directions, Requested(e.link), NoAccess(e), BackShort(e.link),
         NEW sig, NEW dev, NEW c, Slotted(e, c, sig, dev), NEW d, Slotted(c, d, sig, dev)
  PROVE  /\ \/ /\ d.link.q2d = None /\ dev.mmioReady
               /\ d.toDevice.mmio = e.link.q2d.body /\ d.toQic.mmioReady = TRUE
            \/ Requested(d.link) /\ d.link.q2d.body = e.link.q2d.body /\ NoAccess(d)
         /\ Free(e.link, sig) /\ dev.mmioReady =>
              \/ d.link.q2d = None
              \/ Ahead(e.link) \in Int /\ Ahead(d.link) \in Int /\ Ahead(d.link) <= Ahead(e.link) - 2
<1>1. c.link.last \in Directions /\ BackShort(c.link)
  BY SlotOf, BackShortSlot
<1>2. \/ c.link.q2d = None /\ c.link.last = "QicToDevice" /\ dev.mmioReady
           /\ c.toDevice.mmio = e.link.q2d.body /\ c.toQic.mmioReady = TRUE
      \/ Requested(c.link) /\ c.link.q2d.body = e.link.q2d.body /\ NoAccess(c)
  BY RequestSlot
<1>3. c.link.q2d = None =>
        d.link.q2d = None /\ d.toDevice.mmio = c.toDevice.mmio /\ d.toQic.mmioReady = c.toQic.mmioReady
  BY DEF Slotted, Quiet, DeviceGets, QicGets, Same
<1>4. Requested(c.link) => c.link.q2d # None
  BY DEF Requested, OnLink
<1>5. \/ /\ d.link.q2d = None /\ dev.mmioReady
         /\ d.toDevice.mmio = e.link.q2d.body /\ d.toQic.mmioReady = TRUE
      \/ Requested(d.link) /\ d.link.q2d.body = e.link.q2d.body /\ NoAccess(d)
  <2>1. CASE c.link.q2d = None
    BY <1>2, <1>3, <1>4, <2>1
  <2>2. CASE c.link.q2d # None
    <3>1. Requested(c.link) /\ c.link.q2d.body = e.link.q2d.body /\ NoAccess(c)
      BY <1>2, <2>2
    <3>2. \/ d.link.q2d = None /\ dev.mmioReady
             /\ d.toDevice.mmio = c.link.q2d.body /\ d.toQic.mmioReady = TRUE
          \/ Requested(d.link) /\ d.link.q2d.body = c.link.q2d.body /\ NoAccess(d)
      BY <1>1, <3>1, RequestSlot
    <3>3. QED
      BY <3>1, <3>2
  <2>3. QED
    BY <2>1, <2>2
<1>6. ASSUME Free(e.link, sig), dev.mmioReady, d.link.q2d # None
      PROVE  Ahead(e.link) \in Int /\ Ahead(d.link) \in Int /\ Ahead(d.link) <= Ahead(e.link) - 2
  <2>1. c.link.q2d # None
    BY <1>3, <1>6
  <2>2. Free(c.link, sig) /\ Ahead(e.link) \in Int /\ Ahead(c.link) \in Int /\ Ahead(c.link) <= Ahead(e.link) - 1
    BY <1>6, <2>1, FreeSlot
  <2>3. Requested(c.link)
    BY <1>2, <2>1
  <2>4. Ahead(d.link) \in Int /\ Ahead(d.link) <= Ahead(c.link) - 1
    BY <1>1, <1>6, <2>2, <2>3, FreeSlot
  <2>5. QED
    BY <2>2, <2>4
<1>7. QED
  BY <1>5, <1>6

-----------------------------------------------------------------------------
(* One clock of the card, slot by slot, while the chip has not been stopped.                  *)

Slots(e, c) ==
  /\ Begun(link, e, Signals, Device)
  /\ Slotted(e, c, Signals, Device) /\ Slotted(c, Moves, Signals, Device)

Ongoing(a, b, e, c) ==
  /\ Clocked(a, b) /\ Slots(e, c) /\ a = e.link.q2d
  /\ Undisturbed(qic, qic', Signals, ToCard) /\ QicShape(qic')
  /\ qic' = Q!Clock(qic, Bus, ToCard) /\ BusShape(Bus) /\ ~Bus.reset
  /\ ToCard.mmioReady = Moves.toQic.mmioReady
  /\ seen' = Observe(ToChip.mmio)

Known ==
  /\ RoomInv /\ SameTransaction /\ OneNotification /\ WholeInv /\ AnswersInv
  /\ AccessShared /\ RequestReaches /\ SendersWait /\ OfferedAtOnce

LEMMA OngoingIs ==
  ASSUME RoomInv, WholeInv, CardClock
  PROVE  \E a, b, e, c : Ongoing(a, b, e, c)
<1>1. ShapeInv /\ BurstsShaped /\ LinkShape(link) /\ QicShape(qic)
  BY DEF RoomInv, WholeInv, ShapeInv
<1>2. /\ BusShape(Bus) /\ ~Bus.reset /\ qic' = Q!Clock(qic, Bus, ToCard) /\ QicShape(qic')
      /\ seen' = Observe(ToChip.mmio)
  BY <1>1, CardClockIs DEF ToCard, ToChip
<1>3. PICK a, b : Clocked(a, b)
  BY <1>1, ClockedIs
<1>4. Undisturbed(qic, qic', Signals, ToCard)
  BY <1>1, <1>2, UndisturbedIs DEF Signals
<1>5. Moves = L!Cycle(link, FALSE, Signals, Device)
  BY DEF Moves
<1>6. PICK e, c : Slots(e, c) /\ ClockShape(Moves)
  BY <1>1, <1>5, CycleIs DEF Slots
<1>7. ToCard.mmioReady = Moves.toQic.mmioReady
  BY <1>6, SeenByQic DEF ClockShape, ToCard
<1>8. a = e.link.q2d
  BY <1>3, <1>6 DEF Clocked, ToDeviceIs, Pending, Slots, Begun
<1>9. Ongoing(a, b, e, c)
  BY <1>2, <1>3, <1>4, <1>6, <1>7, <1>8 DEF Ongoing
<1>10. QED
  BY <1>9

\* What is on the link once messages have been begun.
LEMMA TypedBegun ==
  ASSUME Known, NEW a, NEW b, NEW e, NEW c, Ongoing(a, b, e, c)
  PROVE  e.link.last = link.last /\ e.link.last \in Directions /\ NoAccess(e) /\ TypedBack(e.link)
         /\ e.toDevice.responseReady = FALSE
<1>1. Begun(link, e, Signals, Device) /\ LinkShape(link) /\ ChipRoom(qdx) /\ Based(qdx)
  BY RoomIs DEF Ongoing, Slots, Known, RoomInv, ShapeInv, WholeInv, BurstsShaped, Based
<1>2. e.link.last = link.last /\ e.link.last \in Directions
  BY <1>1 DEF Begun, Known, WholeInv, BurstsShaped, Directions
<1>3. NoAccess(e) /\ e.toDevice.responseReady = FALSE
  BY <1>1 DEF Begun, NoAccess, L!NoQic
<1>4. ASSUME NEW tag, NEW bodies, NEW body \in bodies, NEW left \in Int
      PROVE  L!Message(tag, body, left) \in MessagesOf(tag, bodies)
  BY DEF MessagesOf, L!Message
<1>5. CASE link.d2q # None
  <2>1. PICK m : m = link.d2q
    OBVIOUS
  <2>2. /\ m # None /\ m = L!Message(m.tag, m.body, m.left) /\ m.tag \in ToQicTags
        /\ m.left \in 1..3 /\ m.left \in Int /\ e.link.d2q = m
    BY <1>1, <1>5, <2>1 DEF LinkShape, MessageShape, Begun, Known, SendersWait
  <2>3. CASE m.tag = "MmioResponse"
    BY <1>2, <1>3, <2>1, <2>2, <2>3 DEF Known, AnswersInv, OnLink, TypedBack, Back
  <2>4. CASE m.tag = "DmaRequest"
    <3>1. m.body \in Requests
      BY <2>1, <2>2, <2>4 DEF Known, WholeInv, BurstsShaped, OnLink
    <3>2. m \in MessagesOf("DmaRequest", Requests)
      BY <1>4, <2>2, <2>4, <3>1
    <3>3. QED
      BY <1>2, <1>3, <2>2, <3>2 DEF TypedBack, Back
  <2>5. CASE m.tag = "DmaWrite"
    <3>1. m.body \in Handles
      BY <2>1, <2>2, <2>5 DEF Known, WholeInv, BurstsShaped, OnLink
    <3>2. m \in WordMessages
      BY <1>4, <2>2, <2>5, <3>1 DEF WordMessages
    <3>3. QED
      BY <1>2, <1>3, <2>2, <3>2 DEF TypedBack, Back
  <2>6. CASE m.tag = "NotificationRequest"
    <3>1. m.body \in {0}
      BY <2>1, <2>2, <2>6 DEF Known, OneNotification, LinkNotifies
    <3>2. m \in MessagesOf("NotificationRequest", {0})
      BY <1>4, <2>2, <2>6, <3>1
    <3>3. QED
      BY <1>2, <1>3, <2>2, <3>2 DEF TypedBack, Back
  <2>7. QED
    BY <1>2, <1>3, <2>2, <2>3, <2>4, <2>5, <2>6 DEF ToQicTags
<1>6. CASE link.d2q = None
  <2>1. e.link.d2q = L!ToQicMessage(L!Notified(link, Signals), Signals, Device)
    BY <1>1, <1>6 DEF Begun
  <2>2. \/ e.link.d2q = None
        \/ /\ Device.response # None
           /\ e.link.d2q = L!Message("MmioResponse", Device.response, L!ResponseTokens(Device.response))
        \/ Device.dma # None /\ e.link.d2q = L!Message("DmaRequest", Device.dma, 3)
        \/ Device.write # None /\ e.link.d2q = L!Message("DmaWrite", Device.write, 2)
        \/ /\ Device.notification # None
           /\ e.link.d2q = L!Message("NotificationRequest", Device.notification, 1)
    BY <2>1 DEF L!ToQicMessage, L!DmaRequestTokens, L!WordTokens
  <2>3. CASE /\ Device.response # None
             /\ e.link.d2q = L!Message("MmioResponse", Device.response, L!ResponseTokens(Device.response))
    <3>1. PICK left \in {1, 3} : left = L!ResponseTokens(Device.response)
      BY DEF L!ResponseTokens
    <3>2. Device.response \in Answers
      BY <2>3 DEF Device, QicPort, Known, AnswersInv, ChipAnswers
    <3>3. e.link.d2q \in Responses /\ e.link.d2q.left \in 1..3
      <4>1. e.link.d2q = L!Message("MmioResponse", Device.response, left) /\ left \in Int /\ left \in 1..3
        BY <2>3, <3>1
      <4>2. QED
        BY <1>4, <3>2, <4>1 DEF Responses, L!Message
    <3>4. QED
      BY <1>2, <1>3, <3>3 DEF TypedBack, Back
  <2>4. CASE Device.dma # None /\ e.link.d2q = L!Message("DmaRequest", Device.dma, 3)
    <3>1. DmaRequest(qdx) # None /\ Device.dma = DmaRequest(qdx) /\ ChipShape(qdx)
      BY <1>1, <2>4 DEF Device, QicPort, ChipRoom
    <3>2. Device.dma \in Requests
      BY <1>1, <3>1, WantedIs, RequestShaped
    <3>3. e.link.d2q \in MessagesOf("DmaRequest", Requests) /\ e.link.d2q.left \in 1..3
      BY <1>4, <2>4, <3>2 DEF L!Message
    <3>4. QED
      BY <1>2, <1>3, <3>3 DEF TypedBack, Back
  <2>5. CASE Device.write # None /\ e.link.d2q = L!Message("DmaWrite", Device.write, 2)
    <3>1. qdx.state = "CqSend" /\ Device.write = qdx.completion[qdx.cqWord]
      BY <2>5 DEF Device, QicPort
    <3>2. qdx.completion = Present /\ qdx.cqWord \in 0..CqWords - 1
      BY <3>1 DEF Known, WholeInv, CompletionMade, CompletionLeaves
    <3>3. Device.write \in Handles
      BY <1>1, <3>1, <3>2, PresentShaped
    <3>4. e.link.d2q \in WordMessages /\ e.link.d2q.left \in 1..3
      BY <1>4, <2>5, <3>3 DEF WordMessages, L!Message
    <3>5. QED
      BY <1>2, <1>3, <3>4 DEF TypedBack, Back
  <2>6. CASE /\ Device.notification # None
             /\ e.link.d2q = L!Message("NotificationRequest", Device.notification, 1)
    <3>1. Device.notification \in {0}
      BY <2>6 DEF Device, QicPort
    <3>2. e.link.d2q \in MessagesOf("NotificationRequest", {0}) /\ e.link.d2q.left \in 1..3
      BY <1>4, <2>6, <3>1 DEF L!Message
    <3>3. QED
      BY <1>2, <1>3, <3>2 DEF TypedBack, Back
  <2>7. QED
    BY <1>2, <1>3, <2>2, <2>3, <2>4, <2>5, <2>6 DEF TypedBack
<1>7. QED
  BY <1>5, <1>6

-----------------------------------------------------------------------------
(* The chip goes on with what it does.                                                        *)

Running(a, b, e, c) == Ongoing(a, b, e, c) /\ (Working(qdx.state) => ReadyState(qdx'.state))

LEMMA RunningIs ==
  ASSUME RoomInv, NEW a, NEW b, NEW e, NEW c, Ongoing(a, b, e, c), ~seen'.stopped
  PROVE  ~seen.stopped /\ Running(a, b, e, c)
<1>1. seen'.stopped = (seen.stopped \/ (Working(qdx.state) /\ ~ReadyState(qdx'.state)))
  BY DEF Ongoing, Observe
<1>2. SeenShape(seen)
  BY DEF RoomInv, ShapeInv
<1>3. QED
  BY <1>1, <1>2 DEF SeenShape, Running

LEMMA RunsOn ==
  ASSUME NEW a, NEW b, NEW e, NEW c, Running(a, b, e, c), Working(qdx.state)
  PROVE  Engine(qdx, ToChip, Drive, qdx') /\ qdx'.state \notin {"Disabled", "Fault"}
<1>1. qdx'.state \notin {"Disabled", "Fault"} /\ qdx.state \notin {"Disabled", "Fault"}
  BY DEF Running, ReadyState, Working
<1>2. ~StateAccess(qdx, ToChip, qdx')
  BY <1>1, AccessAnswered
<1>3. QED
  BY <1>1, <1>2 DEF Running, Ongoing, Clocked, EngineClock

-----------------------------------------------------------------------------
(* The messages begun while the QIC offers a request.                                         *)

\* To the QIC, none that would hold up the request.
LEMMA NothingBegun ==
  ASSUME Known, NEW a, NEW b, NEW e, NEW c, Ongoing(a, b, e, c), qic.state.at = "WorkerOffer",
         qdx.response = None, link.last = "DeviceToQic", link.d2q = None
  PROVE  e.link.d2q = None
<1>1. Begun(link, e, Signals, Device) /\ LinkShape(link) /\ ChipShape(qdx)
  BY DEF Ongoing, Slots, Known, RoomInv, ShapeInv
<1>2. SignalsFit(qic, Bus, Device, Signals) /\ AfterClock(qic, qic', Signals)
  BY DEF Ongoing, Clocked
<1>3. ~Signals.writeReady /\ ~Signals.notified
  BY <1>2 DEF SignalsFit, AfterClock
<1>4. /\ qdx.state \notin Requesting
      /\ qdx.state = "Notify" => link.held # None \/ link.done # None
  BY DEF Known, OfferedAtOnce
<1>5. PICK n : n = L!Notified(link, Signals)
  OBVIOUS
<1>6. n.held = link.held /\ n.done = link.done
  BY <1>1, <1>3, <1>5, NotifiedIs DEF Done
<1>7. /\ Device.response = None /\ Device.dma = None
      /\ Device.notification # None => qdx.state = "Notify"
  BY <1>1, <1>4, WantedIs DEF Device, QicPort
<1>8. e.link.d2q = L!ToQicMessage(n, Signals, Device)
  BY <1>1, <1>5 DEF Begun
<1>9. QED
  BY <1>3, <1>4, <1>6, <1>7, <1>8 DEF L!ToQicMessage

\* A request for a burst it takes, while it offers a register access.
LEMMA TakesRequest ==
  ASSUME Known, NEW a, NEW b, NEW e, NEW c, Ongoing(a, b, e, c),
         qic.state.at \in {"WorkerOffer", "WorkerResponse"},
         ~Q!TimedOut(qic.state.wait), OnLink(link.d2q, "DmaRequest")
  PROVE  Signals.dmaReady
<1>1. QicShape(qic) /\ ChipShape(qdx)
  BY DEF Known, RoomInv, ShapeInv
<1>2. qdx.state \in Requesting /\ Q!ValidDma(link.d2q.body)
  BY DEF Known, SendersWait
<1>3. ~InBurst(Held(qic)) /\ link.d2q.body = DmaRequest(qdx) /\ link.d2q.body \in Requests
  BY <1>2 DEF Known, WholeInv, RequestOnLink, BurstsShaped
<1>4. qic.tail = None
  BY <1>1, <1>3 DEF QicShape, Q!LocalTail, Held, InBurst
<1>5. qic.suspended = None
  <2>1. SUFFICES ASSUME qic.suspended # None PROVE FALSE
    OBVIOUS
  <2>2. Held(qic) = Q!RequestBus(qic.suspended)
    BY <1>4, <2>1 DEF Held
  <2>3. qic.suspended.kind # "Dma"
    BY <1>3, <2>2 DEF InBurst, ForBus, Q!RequestBus
  <2>4. link.held # None
    BY <2>1, <2>3 DEF Known, OneNotification, QicNotifies
  <2>5. QED
    BY <1>2, <2>4 DEF Known, OneNotification, LinkNotifies, Requesting
<1>6. PICK v : v = ToQic(Device)
  OBVIOUS
<1>7. QicSide(Device)
  BY DEF QicSide, Device, QicPort
<1>8. v.dma = Device.dma
  BY <1>6, <1>7, SeenByQic
<1>9. v.dma = link.d2q.body
  BY <1>3, <1>8 DEF Device, QicPort
<1>10. v.dma # None /\ Q!ValidDma(v.dma)
  BY <1>2, <1>3, <1>9, NoneIsNoValue
<1>11. Q!AcceptsDmaDuringWorker(qic, v)
  BY <1>4, <1>5, <1>10 DEF Q!AcceptsDmaDuringWorker
<1>12. QED
  BY <1>6, <1>11 DEF Signals, Q!ToDevice

\* A request that comes through in this clock, or while the QIC still offers it.
Reaching(l) ==
  /\ qic.state.at = "WorkerOffer" /\ l.q2d.body = qic.state.op /\ qdx.response = None
  /\ Free(l, Signals) /\ Ahead(l) <= 2 * (Timeout - qic.state.wait)

LEMMA TypedWait ==
  ASSUME Known, qic.state.at = "WorkerOffer"
  PROVE  qic.state.wait \in Nat /\ Timeout \in Nat /\ Timeout >= 4
BY TimeoutAssumption DEF Known, OfferedAtOnce

\* Behind what the chip has sent.
LEMMA LineFree ==
  ASSUME Known, NEW a, NEW b, NEW e, NEW c, Ongoing(a, b, e, c), qic.state.at = "WorkerOffer",
         qdx.response = None,
         link.last = "DeviceToQic" /\ OnLink(link.d2q, "DmaRequest") => ~Q!TimedOut(qic.state.wait)
  PROVE  \/ Unreached(qdx, e.link, qic)
         \/ /\ Free(e.link, Signals)
            /\ link.last = "DeviceToQic" => e.link.d2q = link.d2q
<1>1. Begun(link, e, Signals, Device) /\ LinkShape(link) /\ QicShape(qic) /\ e.link.last = link.last
  BY TypedBegun DEF Ongoing, Slots, Known, RoomInv, ShapeInv
<1>2. CASE link.last # "DeviceToQic"
  BY <1>1, <1>2 DEF Free
<1>3. CASE link.last = "DeviceToQic" /\ link.d2q = None
  BY <1>1, <1>3, NothingBegun DEF Free
<1>4. CASE link.last = "DeviceToQic" /\ link.d2q # None
  <2>1. e.link.d2q = link.d2q /\ link.d2q.tag \in ToQicTags
    BY <1>1, <1>4 DEF Begun, LinkShape, MessageShape
  <2>2. CASE link.d2q.tag = "MmioResponse"
    BY <1>1, <1>4, <2>1, <2>2 DEF Unreached, OnLink
  <2>3. CASE link.d2q.tag = "DmaRequest"
    BY <1>1, <1>4, <2>1, <2>3, TakesRequest DEF Free, L!QicTakes, OnLink
  <2>4. CASE link.d2q.tag = "DmaWrite"
    <3>1. Held(qic).at = "DmaComplete"
          \/ (Held(qic).at = "DmaData" /\ Held(qic).request.direction = "DeviceToHost")
      BY <1>4, <2>4 DEF Known, SendersWait, OnLink
    <3>2. ~(Held(qic).at = "DmaData" /\ Held(qic).request.direction = "DeviceToHost")
      BY <1>1 DEF QicShape, Held, Q!RequestBus, Q!LocalTail, Q!FinalReadBuffer
    <3>3. QED
      BY <1>1, <1>4, <2>1, <2>4, <3>1, <3>2 DEF Unreached, OnLink
  <2>5. CASE link.d2q.tag = "NotificationRequest"
    BY <1>1, <1>4, <2>1, <2>5 DEF Free, L!QicTakes
  <2>6. QED
    BY <2>1, <2>2, <2>3, <2>4, <2>5 DEF ToQicTags
<1>5. QED
  BY <1>2, <1>3, <1>4

\* A request that was on the link.
LEMMA OldRequest ==
  ASSUME Known, NEW a, NEW b, NEW e, NEW c, Ongoing(a, b, e, c), OnLink(link.q2d, "MmioRequest")
  PROVE  Requested(e.link) /\ (Unreached(qdx, e.link, qic) \/ Reaching(e.link))
<1>1. Begun(link, e, Signals, Device) /\ e.link.last = link.last
  BY TypedBegun DEF Ongoing, Slots
<1>2. e.link.q2d = link.q2d /\ (link.d2q # None => e.link.d2q = link.d2q)
  BY <1>1 DEF Begun, OnLink
<1>3. Requested(e.link)
  BY <1>2 DEF Known, RequestReaches, Requested
<1>4. CASE Unreached(qdx, link, qic)
  BY <1>1, <1>2, <1>3, <1>4 DEF Unreached, OnLink
<1>5. CASE InTime(qdx, link, qic)
  <2>1. /\ qic.state.at = "WorkerOffer" /\ link.q2d.body = qic.state.op /\ qdx.response = None
        /\ Ahead(link) <= 2 * (Timeout - qic.state.wait)
    BY <1>5 DEF InTime
  <2>2. /\ qic.state.wait \in Nat /\ Timeout \in Nat /\ link.q2d.left \in 1..4
        /\ link.d2q # None => link.d2q.left \in 1..3
    BY <2>1, TypedWait DEF Known, RequestReaches, SendersWait
  <2>3. ASSUME link.last = "DeviceToQic", OnLink(link.d2q, "DmaRequest")
        PROVE  ~Q!TimedOut(qic.state.wait)
    <3>1. Ahead(link) = link.q2d.left + (1 + link.d2q.left)
      BY <2>3 DEF Ahead, OnLink
    <3>2. PICK w \in Nat, t \in Nat, m \in 1..4, n \in 1..3 :
            /\ w = qic.state.wait /\ t = Timeout /\ m = link.q2d.left /\ n = link.d2q.left
      BY <2>2, <2>3 DEF OnLink
    <3>3. m + (1 + n) <= 2 * (t - w)
      BY <2>1, <3>1, <3>2
    <3>4. ~(w >= t - 1)
      BY <3>2, <3>3
    <3>5. QED
      BY <3>2, <3>4 DEF Q!TimedOut
  <2>4. \/ Unreached(qdx, e.link, qic)
        \/ /\ Free(e.link, Signals)
           /\ link.last = "DeviceToQic" => e.link.d2q = link.d2q
    BY <2>1, <2>3, LineFree
  <2>5. (link.last = "DeviceToQic" => e.link.d2q = link.d2q) => Ahead(e.link) = Ahead(link)
    BY <1>1, <1>2 DEF Ahead
  <2>6. QED
    BY <1>2, <1>3, <2>1, <2>4, <2>5 DEF Reaching
<1>6. QED
  BY <1>3, <1>4, <1>5 DEF Known, RequestReaches

\* A request that the QIC has just offered.
LEMMA NewRequest ==
  ASSUME Known, NEW a, NEW b, NEW e, NEW c, Ongoing(a, b, e, c), link.q2d = None,
         OnLink(e.link.q2d, "MmioRequest")
  PROVE  Requested(e.link) /\ (Unreached(qdx, e.link, qic) \/ Reaching(e.link))
<1>1. Begun(link, e, Signals, Device) /\ e.link.last = link.last /\ e.link.last \in Directions
      /\ TypedBack(e.link)
  BY TypedBegun DEF Ongoing, Slots
<1>2. e.link.q2d = L!ToDeviceMessage(L!Notified(link, Signals), Signals)
  BY <1>1 DEF Begun
<1>3. /\ Signals.mmio # None
      /\ e.link.q2d = L!Message("MmioRequest", Signals.mmio, L!RequestTokens(Signals.mmio))
  BY <1>2 DEF L!ToDeviceMessage, L!Message, OnLink
<1>4. qic.state.at = "WorkerOffer" /\ ~Q!TimedOut(qic.state.wait) /\ Signals.mmio = qic.state.op
  BY <1>3 DEF Signals, Q!ToDevice
<1>5. PICK w \in Nat, t \in Nat : w = qic.state.wait /\ t = Timeout /\ t >= 4 /\ ~(w >= t - 1)
  BY <1>4, TypedWait DEF Q!TimedOut
<1>6. qic.state.op \in Accesses
  <2>1. peer.state.at = "WorkerData"
    BY <1>4 DEF Known, SameTransaction, QicGoesWith, RoomInv, ShapeInv, PeerShape, PeerPhases
  <2>2. QED
    BY <1>4, <2>1 DEF Known, AccessShared, AccessUnderWay
<1>7. PICK n \in {2, 4} : n = L!RequestTokens(Signals.mmio)
  BY DEF L!RequestTokens
<1>8. /\ e.link.q2d # None /\ e.link.q2d.tag = "MmioRequest" /\ e.link.q2d.body = qic.state.op
      /\ e.link.q2d.left = n
  BY <1>3, <1>4, <1>6, <1>7, RequestIsMessage
<1>9. Requested(e.link)
  BY <1>6, <1>7, <1>8 DEF Requested, OnLink
<1>10. CASE qdx.response # None
  BY <1>4, <1>9, <1>10 DEF Unreached
<1>11. CASE qdx.response = None
  <2>1. Unreached(qdx, e.link, qic) \/ Free(e.link, Signals)
    BY <1>4, <1>11, LineFree
  <2>2. Ahead(e.link) <= 2 * (t - w)
    <3>1. CASE e.link.last # "DeviceToQic"
      <4>1. Ahead(e.link) = n + 0
        BY <1>8, <3>1 DEF Ahead
      <4>2. QED
        BY <1>5, <4>1
    <3>2. CASE e.link.last = "DeviceToQic"
      <4>1. w = 0
        BY <1>1, <1>4, <1>5, <3>2 DEF Known, OfferedAtOnce
      <4>2. PICK m \in 0..3 : m = IF e.link.d2q = None THEN 0 ELSE e.link.d2q.left
        BY <1>1 DEF TypedBack
      <4>3. Ahead(e.link) = n + (1 + m)
        BY <1>8, <3>2, <4>2 DEF Ahead
      <4>4. QED
        BY <1>5, <4>1, <4>3
    <3>3. QED
      BY <3>1, <3>2
  <2>3. QED
    BY <1>4, <1>5, <1>8, <1>9, <1>11, <2>1, <2>2 DEF Reaching
<1>12. QED
  BY <1>10, <1>11

LEMMA BegunRequest ==
  ASSUME Known, NEW a, NEW b, NEW e, NEW c, Ongoing(a, b, e, c), OnLink(e.link.q2d, "MmioRequest")
  PROVE  Requested(e.link) /\ (Unreached(qdx, e.link, qic) \/ Reaching(e.link))
<1>1. CASE link.q2d = None
  BY <1>1, NewRequest
<1>2. CASE link.q2d # None
  <2>1. e.link.q2d = link.q2d
    BY <1>2 DEF Ongoing, Slots, Begun
  <2>2. QED
    BY <1>2, <2>1, OldRequest DEF OnLink
<1>3. QED
  BY <1>1, <1>2

-----------------------------------------------------------------------------
(* What becomes of it in a clock.                                                             *)

NoRequest == ~OnLink(link'.q2d, "MmioRequest") /\ NoAccess(Moves)

Delivered ==
  /\ link'.q2d = None /\ qic.state.at = "WorkerOffer" /\ qdx.response = None
  /\ ToChip.mmio = qic.state.op /\ ToCard.mmioReady = TRUE

Delayed(l) ==
  /\ NoAccess(Moves) /\ Requested(link') /\ link'.q2d.body = l.q2d.body
  /\ \/ Unreached(qdx, link', qic)
     \/ /\ Reaching(l) /\ Ahead(l) \in Int /\ Ahead(link') \in Int
        /\ Ahead(link') <= Ahead(l) - 2

\* What bars the line goes on barring it.
LEMMA BarredKeeps ==
  ASSUME Known, NEW a, NEW b, NEW e, NEW c, Ongoing(a, b, e, c), Requested(e.link),
         Unreached(qdx, e.link, qic), qdx.response = None
  PROVE  NoAccess(Moves) /\ Requested(link') /\ Unreached(qdx, link', qic)
<1>1. /\ e.link.last \in Directions /\ NoAccess(e) /\ TypedBack(e.link)
      /\ Slotted(e, c, Signals, Device) /\ Slotted(c, Moves, Signals, Device)
      /\ link' = Moves.link
      /\ SignalsFit(qic, Bus, Device, Signals) /\ Undisturbed(qic, qic', Signals, ToCard)
  BY TypedBegun DEF Ongoing, Slots, Clocked
<1>2. e.link.last = "DeviceToQic" /\ e.link.d2q # None /\ e.link.d2q \in Back
  BY <1>1 DEF Unreached, OnLink, TypedBack
<1>3. Barring(e.link, Signals)
  <2>1. CASE e.link.d2q.tag = "MmioResponse"
    <3>1. e.link.d2q \in Responses
      BY <1>2, <2>1 DEF Back, WordMessages, MessagesOf
    <3>2. QED
      BY <1>1, <1>2, <3>1 DEF Barring, Undisturbed, Unreached
  <2>2. CASE e.link.d2q.tag = "DmaWrite" /\ Held(qic).at = "DmaComplete"
    <3>1. e.link.d2q \in WordMessages
      BY <1>2, <2>2 DEF Back, Responses, MessagesOf
    <3>2. QED
      BY <1>1, <1>2, <2>2, <3>1 DEF Barring, SignalsFit
  <2>3. QED
    BY <2>1, <2>2 DEF Unreached, OnLink
<1>4. /\ NoAccess(Moves) /\ Requested(link') /\ Barring(link', Signals)
      /\ link'.d2q.tag = e.link.d2q.tag
  <2>1. NoAccess(c) /\ Requested(c.link) /\ Barring(c.link, Signals) /\ c.link.d2q.tag = e.link.d2q.tag
    BY <1>1, <1>3, BarredSlot
  <2>2. c.link.last \in Directions
    BY <1>1, SlotOf
  <2>3. /\ NoAccess(Moves) /\ Requested(Moves.link) /\ Barring(Moves.link, Signals)
        /\ Moves.link.d2q.tag = c.link.d2q.tag
    BY <1>1, <2>1, <2>2, BarredSlot
  <2>4. QED
    BY <1>1, <2>1, <2>3
<1>5. link'.d2q # None /\ link'.last = "DeviceToQic"
  BY <1>4, NoneIsNoValue DEF Barring, WordMessages
<1>6. QED
  BY <1>4, <1>5 DEF Unreached, OnLink

LEMMA RequestCycle ==
  ASSUME Known, NEW a, NEW b, NEW e, NEW c, Ongoing(a, b, e, c)
  PROVE  \/ NoRequest \/ Delivered
         \/ OnLink(e.link.q2d, "MmioRequest") /\ Delayed(e.link)
<1>1. /\ e.link.last \in Directions /\ NoAccess(e) /\ TypedBack(e.link) /\ BackShort(e.link)
      /\ Slotted(e, c, Signals, Device) /\ Slotted(c, Moves, Signals, Device)
      /\ link' = Moves.link /\ ToCard.mmioReady = Moves.toQic.mmioReady
  BY TypedBegun DEF Ongoing, Slots, Clocked, BackShort, TypedBack
<1>2. CASE ~OnLink(e.link.q2d, "MmioRequest")
  <2>1. ~OnLink(c.link.q2d, "MmioRequest") /\ NoAccess(c)
    BY <1>1, <1>2, OtherSlot
  <2>2. ~OnLink(Moves.link.q2d, "MmioRequest") /\ NoAccess(Moves)
    BY <1>1, <2>1, OtherSlot
  <2>3. QED
    BY <1>1, <2>2 DEF NoRequest
<1>3. CASE OnLink(e.link.q2d, "MmioRequest")
  <2>1. Requested(e.link) /\ (Unreached(qdx, e.link, qic) \/ Reaching(e.link))
    BY <1>3, BegunRequest
  <2>2. /\ Device.mmioReady = (qdx.response = None)
        /\ Requested(link') => link'.q2d # None
    BY DEF Device, QicPort, Requested, OnLink
  <2>3. /\ \/ /\ Moves.link.q2d = None /\ Device.mmioReady
              /\ Moves.toDevice.mmio = e.link.q2d.body /\ Moves.toQic.mmioReady = TRUE
           \/ Requested(Moves.link) /\ Moves.link.q2d.body = e.link.q2d.body /\ NoAccess(Moves)
        /\ Free(e.link, Signals) /\ Device.mmioReady =>
             \/ Moves.link.q2d = None
             \/ /\ Ahead(e.link) \in Int /\ Ahead(Moves.link) \in Int
                /\ Ahead(Moves.link) <= Ahead(e.link) - 2
    BY <1>1, <2>1, ReachCycle
  <2>4. CASE Unreached(qdx, e.link, qic)
    <3>1. CASE qdx.response # None
      BY <1>1, <1>3, <2>2, <2>3, <2>4, <3>1 DEF Delayed, Unreached
    <3>2. CASE qdx.response = None
      <4>1. NoAccess(Moves) /\ Requested(link') /\ Unreached(qdx, link', qic)
        BY <2>1, <2>4, <3>2, BarredKeeps
      <4>2. QED
        BY <1>1, <1>3, <2>2, <2>3, <4>1 DEF Delayed
    <3>3. QED
      BY <3>1, <3>2
  <2>5. CASE Reaching(e.link)
    <3>1. Free(e.link, Signals) /\ Device.mmioReady
      BY <2>2, <2>5 DEF Reaching
    <3>2. CASE Moves.link.q2d = None
      <4>1. Moves.toDevice.mmio = e.link.q2d.body /\ Moves.toQic.mmioReady = TRUE
        BY <1>1, <2>2, <2>3, <3>2
      <4>2. QED
        BY <1>1, <2>5, <3>2, <4>1 DEF Delivered, ToChip, Reaching
    <3>3. CASE Moves.link.q2d # None
      BY <1>1, <1>3, <2>3, <2>5, <3>1, <3>3 DEF Delayed
    <3>4. QED
      BY <3>2, <3>3
  <2>6. QED
    BY <2>1, <2>4, <2>5
<1>4. QED
  BY <1>2, <1>3

\* The chip and the QIC see it alike.
LEMMA AcceptedIs ==
  ASSUME Known, NEW a, NEW b, NEW e, NEW c, Ongoing(a, b, e, c)
  PROVE  \/ ToChip.mmio = None /\ ~ToCard.mmioReady
         \/ /\ qic.state.at = "WorkerOffer" /\ ToChip.mmio = qic.state.op /\ ToCard.mmioReady
            /\ link'.q2d = None
<1>1. ToCard.mmioReady = Moves.toQic.mmioReady
  BY DEF Ongoing
<1>2. QED
  BY <1>1, RequestCycle DEF NoRequest, Delivered, Delayed, NoAccess, ToChip

-----------------------------------------------------------------------------
(* Host and QIC go on with the same access.                                                   *)

LEMMA AccessUnderWayKept ==
  ASSUME NEW p, PeerShape(p), NEW pins, NEW p2, PeerMoves(p, pins, p2),
         p2.state.at \in {"WorkerAddress", "WorkerData"}
  PROVE  /\ p.state.at \in {"WorkerAddress", "WorkerData"} /\ p2.state.op = p.state.op
         /\ p2.state.at = "WorkerAddress" => p.state.at = "WorkerAddress"
<1>1. p.state.at \in {"Idle", "Grant", "WorkerAddress", "WorkerData"} \cup PeerPhases
  BY DEF PeerShape
<1>2. CASE p.state.at \in {"Idle", "Grant"}
  BY <1>2 DEF PeerMoves, P!Idle, P!Grant
<1>3. CASE p.state.at \in {"WorkerAddress", "WorkerData"}
  BY <1>3 DEF PeerMoves, P!Idle, P!WorkerData
<1>4. CASE p.state.at \in PeerPhases
  BY <1>4 DEF PeerMoves, P!Idle, PeerPhases
<1>5. QED
  BY <1>1, <1>2, <1>3, <1>4

\* What is applied in a clock of an access.
LEMMA AppliedIs ==
  ASSUME Known, NEW a, NEW b, NEW e, NEW c, Ongoing(a, b, e, c), AccessUnderWay
  PROVE  /\ ToChip.mmio = None /\ seen.applied = << >> => seen'.applied = << >>
         /\ \A op : ToChip.mmio = None /\ seen.applied = <<op>> => seen'.applied = <<op>>
         /\ ToChip.mmio # None /\ seen.applied = << >> => seen'.applied = <<ToChip.mmio>>
<1>1. seen'.applied = seen.applied \o (IF ToChip.mmio # None THEN <<ToChip.mmio>> ELSE << >>)
  BY DEF Ongoing, Observe
<1>2. << >> \o << >> = << >> /\ \A x : << >> \o <<x>> = <<x>> /\ <<x>> \o << >> = <<x>>
  OBVIOUS
<1>3. QED
  BY <1>1, <1>2

\* Where the QIC may be when the host waits for it.
LEMMA AccessAt ==
  ASSUME Known
  PROVE  /\ peer.state.at = "WorkerData" => qic.state.at \in Q!WorkerStates
         /\ qic.state.at \in Q!WorkerStates => peer.state.at = "WorkerData"
BY DEF Known, SameTransaction, QicGoesWith, Q!WorkerStates, RoomInv, ShapeInv, PeerShape, PeerPhases

LEMMA AccessSharedKept ==
  ASSUME Known, NEW a, NEW b, NEW e, NEW c, Ongoing(a, b, e, c), SameTransaction'
  PROVE  AccessShared'
<1>1. /\ QicShape(qic) /\ PeerShape(peer) /\ PeerMoves(peer, Pins, peer')
      /\ qic' = Q!Clock(qic, Bus, ToCard) /\ BusShape(Bus) /\ ~Bus.reset
      /\ Undisturbed(qic, qic', Signals, ToCard) /\ AccessShared /\ SameTransaction
  BY DEF Known, RoomInv, ShapeInv, Ongoing, Clocked
<1>2. ASSUME AccessUnderWay'
      PROVE  /\ AccessUnderWay /\ peer'.state.op = peer.state.op
             /\ peer'.state.at = "WorkerAddress" => peer.state.at = "WorkerAddress"
  BY <1>1, <1>2, AccessUnderWayKept DEF AccessUnderWay
<1>3. AccessUnderWay' => peer'.state.op \in Accesses
  BY <1>1, <1>2 DEF AccessShared
<1>4. ASSUME peer.state.at = "WorkerAddress"
      PROVE  ToChip.mmio = None /\ qic.state.at \notin Q!WorkerStates /\ seen.applied = << >>
             /\ seen'.applied = << >>
  <2>1. qic.state.at \notin Q!WorkerStates /\ qic.state.at # "WorkerOffer"
    BY <1>4, AccessAt DEF Q!WorkerStates
  <2>2. ToChip.mmio = None
    BY <2>1, AcceptedIs
  <2>3. QED
    BY <1>1, <1>4, <2>1, <2>2, AppliedIs DEF AccessShared, AccessUnderWay
<1>5. ASSUME peer'.state.at = "WorkerData", peer.state.at = "WorkerAddress"
      PROVE  qic'.state.at # "WorkerResponse" /\ qic'.state.op = peer'.state.op /\ seen'.applied = << >>
  <2>1. qic'.state.at \in Q!WorkerStates
    BY <1>5 DEF SameTransaction, QicGoesWith
  <2>2. Q!WorkerAddressCycle(Bus) => ~Bus.grant
    BY <1>1, BusIs DEF Bus
  <2>3. Q!WorkerAddressCycle(Bus) /\ qic'.state = Q!StartWorker(Bus)
    BY <1>1, <1>4, <1>5, <2>1, <2>2, AccessBegins
  <2>4. qic'.state = Q!WorkerData([register |-> peer.state.op.register, write |-> peer.state.op.write], 0)
    BY <1>1, <2>3, BusIs DEF Bus
  <2>5. peer.state.op \in Accesses /\ peer'.state.op = peer.state.op
    BY <1>1, <1>2, <1>5 DEF AccessUnderWay, AccessShared
  <2>6. peer.state.op = [register |-> peer.state.op.register, write |-> peer.state.op.write]
    BY <2>5, DriverAssumption
  <2>7. qic'.state = Q!WorkerData(peer.state.op, 0)
    BY <2>4, <2>6
  <2>8. qic'.state.at # "WorkerResponse" /\ qic'.state.op = peer.state.op
    BY <2>7, MadeStates DEF Q!WorkerData
  <2>9. QED
    BY <1>4, <1>5, <2>5, <2>8
<1>6. ASSUME peer'.state.at = "WorkerData", peer.state.at = "WorkerData"
      PROVE  IF qic'.state.at = "WorkerResponse" THEN seen'.applied = <<peer'.state.op>>
             ELSE qic'.state.op = peer'.state.op /\ seen'.applied = << >>
  <2>1. /\ qic.state.at \in Q!WorkerStates /\ qic'.state.at \in Q!WorkerStates
        /\ peer'.state.op = peer.state.op /\ AccessUnderWay /\ peer.state.op \in Accesses
    BY <1>1, <1>2, <1>6, AccessAt DEF AccessUnderWay, SameTransaction, QicGoesWith, AccessShared
  <2>2. /\ qic'.state.at # "WorkerResponse" =>
             qic.state.at # "WorkerResponse" /\ qic'.state.op = qic.state.op
        /\ Doing(qic'.state.at) => Doing(qic.state.at)
        /\ qic'.state.at = "WorkerOffer" => Doing(qic.state.at) \/ ~ToCard.mmioReady
    BY <1>1, <2>1, OffersIs
  <2>3. CASE qic.state.at = "WorkerResponse"
    <3>1. qic'.state.at = "WorkerResponse" /\ ToChip.mmio = None
      BY <2>2, <2>3, AcceptedIs
    <3>2. seen.applied = <<peer.state.op>>
      BY <1>1, <1>6, <2>3 DEF AccessShared
    <3>3. QED
      BY <2>1, <3>1, <3>2, AppliedIs
  <2>4. CASE qic.state.at # "WorkerResponse"
    <3>1. qic.state.op = peer.state.op /\ seen.applied = << >>
      BY <1>1, <1>6, <2>4 DEF AccessShared
    <3>2. CASE qic'.state.at = "WorkerResponse"
      <4>1. ToCard.mmioReady
        BY <1>1, <2>4, <3>2 DEF Undisturbed
      <4>2. ToChip.mmio = peer.state.op /\ ToChip.mmio # None
        BY <2>1, <3>1, <4>1, AcceptedIs, NoneIsNoValue
      <4>3. QED
        BY <2>1, <3>1, <3>2, <4>2, AppliedIs
    <3>3. CASE qic'.state.at # "WorkerResponse"
      <4>1. qic'.state.op = peer'.state.op
        BY <2>1, <2>2, <3>1, <3>3
      <4>2. Doing(qic'.state.at) \/ qic'.state.at = "WorkerOffer"
        BY <2>1, <3>3 DEF Doing, Q!WorkerStates
      <4>3. qic.state.at # "WorkerOffer" \/ ~ToCard.mmioReady
        BY <2>2, <4>2 DEF Doing
      <4>4. ToChip.mmio = None
        BY <4>3, AcceptedIs
      <4>5. QED
        BY <2>1, <3>1, <3>3, <4>1, <4>4, AppliedIs
    <3>4. QED
      BY <3>2, <3>3
  <2>5. QED
    BY <2>3, <2>4
<1>7. QED
  BY <1>2, <1>3, <1>4, <1>5, <1>6 DEF AccessShared, AccessUnderWay

-----------------------------------------------------------------------------
(* The request on the link is in time, or never comes.                                        *)

\* What the chip has sent is still a message after a clock.
LEMMA BackKept ==
  ASSUME Known, NEW a, NEW b, NEW e, NEW c, Ongoing(a, b, e, c)
  PROVE  TypedBack(link') /\ TypedBack(c.link) /\ c.link.last \in Directions
<1>1. /\ e.link.last \in Directions /\ TypedBack(e.link) /\ link' = Moves.link
      /\ Slotted(e, c, Signals, Device) /\ Slotted(c, Moves, Signals, Device)
  BY TypedBegun DEF Ongoing, Slots, Clocked
<1>2. TypedBack(c.link) /\ c.link.last \in Directions
  BY <1>1, BackSlot, SlotOf
<1>3. QED
  BY <1>1, <1>2, BackSlot

\* A burst that is over waits until the chip has been told.
LEMMA EndStays ==
  ASSUME NEW a, NEW b, Clocked(a, b), ~ToCard.completionReady, Held(qic).at = "DmaComplete"
  PROVE  Held(qic').at = "DmaComplete"
<1>1. HoldMoves(qic, qic', Bus, ToCard)
  BY DEF Clocked
<1>2. InBurst(Held(qic)) /\ ~ForBus(Held(qic))
  BY DEF InBurst, ForBus
<1>3. QED
  BY <1>1, <1>2 DEF HoldMoves, BurstMoves

\* So does an answer, while the QIC does not wait for it.
LEMMA AnswerStays ==
  ASSUME Known, NEW a, NEW b, NEW e, NEW c, Ongoing(a, b, e, c), OnLink(a, "MmioRequest"),
         ToChip.mmio = None, qic.state.at = "WorkerResponse" => qdx.response = None
  PROVE  qdx'.response = qdx.response
<1>1. /\ Slotted(e, c, Signals, Device) /\ Slotted(c, Moves, Signals, Device)
      /\ Carried(Moves, a, b, Signals, Device) /\ Undisturbed(qic, qic', Signals, ToCard)
      /\ StateAccess(qdx, ToChip, qdx') \/ EngineClock(qdx, ToChip, Drive, qdx')
      /\ ~e.toDevice.responseReady
  BY TypedBegun DEF Ongoing, Slots, Clocked
<1>2. qdx'.response = IF qdx.response # None /\ (ToChip.responseReady \/ ToChip.cancel) THEN None
                      ELSE qdx.response
  BY <1>1 DEF StateAccess, EngineClock
<1>3. ~ToChip.cancel
  BY <1>1 DEF Carried, OnLink, ToChip
<1>4. ToChip.responseReady => Signals.responseReady
  BY <1>1, AnswerGiven DEF ToChip
<1>5. Signals.responseReady => qic.state.at = "WorkerResponse"
  BY <1>1 DEF Undisturbed
<1>6. QED
  BY <1>2, <1>3, <1>4, <1>5

LEMMA RequestReachesKept ==
  ASSUME Known, NEW a, NEW b, NEW e, NEW c, Ongoing(a, b, e, c)
  PROVE  RequestReaches'
<1>1. SUFFICES ASSUME OnLink(link'.q2d, "MmioRequest")
               PROVE  /\ link'.q2d.left \in 1..4 /\ link'.q2d.body \in Accesses
                      /\ InTime(qdx', link', qic') \/ Unreached(qdx', link', qic')
  BY DEF RequestReaches, InTime, Unreached, Ahead, Held
<1>2. OnLink(e.link.q2d, "MmioRequest") /\ Delayed(e.link)
  BY <1>1, RequestCycle DEF NoRequest, Delivered, OnLink
<1>3. /\ Requested(link') /\ link'.q2d.body = e.link.q2d.body
      /\ ToChip.mmio = None /\ ~ToCard.mmioReady /\ OnLink(a, "MmioRequest")
  BY <1>2 DEF Delayed, NoAccess, Ongoing, ToChip
<1>4. Clocked(a, b) /\ Undisturbed(qic, qic', Signals, ToCard)
  BY DEF Ongoing
<1>5. CASE Unreached(qdx, link', qic)
  <2>1. qic.state.at # "WorkerResponse" /\ qic'.state.at # "WorkerResponse"
    BY <1>3, <1>4, <1>5 DEF Unreached, Undisturbed
  <2>2. qdx'.response = qdx.response
    BY <1>3, <2>1, AnswerStays
  <2>3. Held(qic).at = "DmaComplete" => Held(qic').at = "DmaComplete"
    <3>1. ~ToCard.completionReady
      BY <1>3, <1>4, GivenIs DEF OnLink
    <3>2. QED
      BY <1>4, <3>1, EndStays
  <2>4. Unreached(qdx', link', qic')
    BY <1>5, <2>1, <2>2, <2>3 DEF Unreached
  <2>5. QED
    BY <1>3, <2>4 DEF Requested
<1>6. CASE /\ Reaching(e.link) /\ Ahead(e.link) \in Int /\ Ahead(link') \in Int
           /\ Ahead(link') <= Ahead(e.link) - 2
  <2>1. /\ qic.state.at = "WorkerOffer" /\ e.link.q2d.body = qic.state.op /\ qdx.response = None
        /\ Ahead(e.link) <= 2 * (Timeout - qic.state.wait)
    BY <1>6 DEF Reaching
  <2>2. PICK w \in Nat, t \in Nat : w = qic.state.wait /\ t = Timeout
    BY <2>1, TypedWait
  <2>3. Ahead(link') >= 1
    <3>1. TypedBack(link') /\ link'.q2d.left \in 1..4
      BY <1>3, BackKept DEF Requested
    <3>2. PICK m \in 0..3 : m = IF link'.d2q = None THEN 0 ELSE link'.d2q.left
      BY <3>1 DEF TypedBack
    <3>3. Ahead(link') = link'.q2d.left + IF link'.last # "DeviceToQic" THEN 0 ELSE 1 + m
      BY <3>2 DEF Ahead
    <3>4. QED
      BY <3>1, <3>2, <3>3
  <2>4. PICK x \in Int, y \in Int : x = Ahead(e.link) /\ y = Ahead(link')
    BY <1>6
  <2>5. y >= 1 /\ y <= x - 2 /\ x <= 2 * (t - w)
    BY <1>6, <2>1, <2>2, <2>3, <2>4
  <2>6. ~Q!TimedOut(qic.state.wait) /\ y <= 2 * (t - (w + 1))
    <3>1. ~(w >= t - 1) /\ y <= 2 * (t - (w + 1))
      BY <2>2, <2>4, <2>5
    <3>2. QED
      BY <2>2, <3>1 DEF Q!TimedOut
  <2>7. /\ qic'.state.at = "WorkerOffer" /\ qic'.state.op = qic.state.op
        /\ qic'.state.wait = qic.state.wait + 1
    <3>1. QicShape(qic) /\ BusShape(Bus) /\ ~Bus.reset /\ qic' = Q!Clock(qic, Bus, ToCard)
      BY DEF Known, RoomInv, ShapeInv, Ongoing
    <3>2. qic.state.at \in Q!WorkerStates
      BY <2>1 DEF Q!WorkerStates
    <3>3. qic'.state.at = "WorkerOffer"
      BY <1>3, <2>1, <2>6, <3>1, <3>2, OffersIs
    <3>4. qic'.state.at \in Q!WorkerStates \ {"WorkerResponse"}
      BY <3>3 DEF Q!WorkerStates
    <3>5. qic'.state.op = qic.state.op
      BY <3>1, <3>2, <3>4, OffersIs
    <3>6. qic'.state.wait = qic.state.wait + 1
      BY <2>1, <3>1, <3>2, <3>3, OffersIs DEF Doing
    <3>7. QED
      BY <3>3, <3>5, <3>6
  <2>8. qdx'.response = None
    BY <1>3, <2>1, AnswerStays
  <2>9. InTime(qdx', link', qic')
    BY <1>3, <2>1, <2>2, <2>4, <2>6, <2>7, <2>8 DEF InTime
  <2>10. QED
    BY <1>3, <2>9 DEF Requested
<1>7. QED
  BY <1>2, <1>5, <1>6 DEF Delayed

-----------------------------------------------------------------------------
(* What the chip has sent.                                                                    *)

LEMMA SentBy ==
  ASSUME Known, NEW a, NEW b, NEW e, NEW c, Ongoing(a, b, e, c)
  PROVE  /\ OnLink(b, "DmaRequest") => qdx.state \in Requesting /\ Q!ValidDma(b.body)
         /\ OnLink(b, "DmaWrite") =>
              LET s == Held(qic) IN
              /\ qdx.state = "CqSend"
              /\ s.at = "DmaComplete" \/ (s.at = "DmaData" /\ s.request.direction = "DeviceToHost")
<1>1. ToQicIs(b, link, Signals, Device) /\ SignalsFit(qic, Bus, Device, Signals) /\ ChipShape(qdx)
  BY DEF Ongoing, Clocked, Known, RoomInv, ShapeInv
<1>2. CASE link.d2q # None
  BY <1>1, <1>2 DEF ToQicIs, Known, SendersWait
<1>3. CASE link.d2q = None
  <2>1. ASSUME OnLink(b, "DmaRequest")
        PROVE  qdx.state \in Requesting /\ Q!ValidDma(b.body)
    <3>1. Device.dma # None /\ b.body = Device.dma /\ Signals.dmaReady
      BY <1>1, <1>3, <2>1 DEF ToQicIs, OnLink
    <3>2. PICK v : v = ToQic(Device)
      OBVIOUS
    <3>3. QicSide(Device)
      BY DEF QicSide, Device, QicPort
    <3>4. v.dma = Device.dma
      BY <3>2, <3>3, SeenByQic
    <3>5. Q!AcceptsDmaWhenIdle(qic, Bus, v) \/ Q!AcceptsDmaDuringWorker(qic, v)
      BY <3>1, <3>2 DEF Signals, Q!ToDevice
    <3>6. Q!ValidDma(v.dma)
      BY <3>5 DEF Q!AcceptsDmaWhenIdle, Q!AcceptsDmaDuringWorker
    <3>7. qdx.state \in Requesting
      BY <1>1, <3>1, WantedIs DEF Device, QicPort
    <3>8. QED
      BY <3>1, <3>4, <3>6, <3>7
  <2>2. PICK s : s = Held(qic)
    OBVIOUS
  <2>3. ASSUME OnLink(b, "DmaWrite")
        PROVE  qdx.state = "CqSend" /\ s.at = "DmaData" /\ s.request.direction = "DeviceToHost"
    <3>1. Device.write # None /\ Signals.writeReady
      BY <1>1, <1>3, <2>3 DEF ToQicIs, OnLink
    <3>2. s.at = "DmaData" /\ s.request.direction # "HostToDevice"
      BY <1>1, <2>2, <3>1 DEF SignalsFit
    <3>3. BurstShape(s)
      BY <2>2 DEF Known, WholeInv, BurstsShaped
    <3>4. QED
      BY <3>1, <3>2, <3>3, StageHas DEF Device, QicPort
  <2>4. QED
    BY <2>1, <2>2, <2>3
<1>4. QED
  BY <1>2, <1>3

\* It asks for a burst with the state it has until the QIC has taken the request.
LEMMA AskerWaits ==
  ASSUME Known, NEW a, NEW b, NEW e, NEW c, Running(a, b, e, c), OnLink(link'.d2q, "DmaRequest")
  PROVE  qdx'.state \in Requesting /\ Q!ValidDma(link'.d2q.body)
<1>1. Clocked(a, b) /\ Same(link'.d2q, b)
  BY DEF Running, Ongoing, Clocked, Carried
<1>2. OnLink(b, "DmaRequest") /\ link'.d2q # None /\ link'.d2q.body = b.body
  BY <1>1 DEF Same, OnLink
<1>3. qdx.state \in Requesting /\ Q!ValidDma(b.body)
  BY <1>2, SentBy DEF Running
<1>4. ~ToChip.dmaReady
  BY <1>1, <1>2, GivenIs
<1>5. Engine(qdx, ToChip, Drive, qdx')
  BY <1>3, RunsOn DEF Working, ReadyState, Requesting
<1>6. qdx'.state \in Requesting
  BY <1>3, <1>4, <1>5 DEF Engine, Stays, RequestTaken, WordTaken, WordGiven, BurstDone,
     CompletionTaken, Goes1, Requesting
<1>7. QED
  BY <1>2, <1>3, <1>6

\* A word it sends has a burst in progress, or one that has failed.
LEMMA WriterWaits ==
  ASSUME Known, NEW a, NEW b, NEW e, NEW c, Running(a, b, e, c), OnLink(link'.d2q, "DmaWrite")
  PROVE  LET s == Held(qic') IN
         /\ qdx'.state = "CqSend"
         /\ s.at = "DmaComplete" \/ (s.at = "DmaData" /\ s.request.direction = "DeviceToHost")
<1>1. /\ Clocked(a, b) /\ Same(link'.d2q, b) /\ HoldMoves(qic, qic', Bus, ToCard)
  BY DEF Running, Ongoing, Clocked, Carried
<1>2. OnLink(b, "DmaWrite") /\ link'.d2q # None
  BY <1>1 DEF Same, OnLink
<1>3. PICK s : s = Held(qic)
  OBVIOUS
<1>4. /\ qdx.state = "CqSend"
      /\ s.at = "DmaComplete" \/ (s.at = "DmaData" /\ s.request.direction = "DeviceToHost")
  BY <1>2, <1>3, SentBy DEF Running
<1>5. ~ToChip.writeReady /\ ~ToCard.completionReady
  BY <1>1, <1>2, <1>4, GivenIs
<1>6. Engine(qdx, ToChip, Drive, qdx')
  BY <1>4, RunsOn DEF Working, ReadyState
<1>7. qdx'.state = "CqSend"
  BY <1>4, <1>5, <1>6 DEF Engine, Stays, RequestTaken, WordTaken, WordGiven, BurstDone,
     CompletionTaken, Goes1, Requesting
<1>8. CASE s.at = "DmaComplete"
  BY <1>1, <1>3, <1>5, <1>7, <1>8, EndStays
<1>9. CASE s.at = "DmaData" /\ s.request.direction = "DeviceToHost"
  <2>1. PICK n : n = Held(qic')
    OBVIOUS
  <2>2. n = s \/ BurstMoves(s, Bus, ToCard, n)
    BY <1>1, <1>3, <1>9, <2>1 DEF HoldMoves, InBurst, ForBus
  <2>3. n.at = "DmaComplete" \/ (n.at = "DmaData" /\ n.request.direction = "DeviceToHost")
    <3>1. CASE n = s
      BY <1>9, <3>1
    <3>2. CASE Fails(n)
      BY <3>2 DEF Fails, Q!DmaComplete
    <3>3. CASE BurstWaits(s, Bus, ToCard, n)
      BY <1>9, <3>3 DEF BurstWaits, Q!DmaData
    <3>4. CASE WriteMoves(s, Bus, ToCard, n)
      BY <1>9, <3>4 DEF WriteMoves, Q!DmaData, Q!DmaComplete
    <3>5. QED
      BY <1>9, <2>2, <3>1, <3>2, <3>3, <3>4 DEF BurstMoves, ReadMoves, ForBus
  <2>4. QED
    BY <1>7, <2>1, <2>3
<1>10. QED
  BY <1>4, <1>8, <1>9

LEMMA SendersWaitKept ==
  ASSUME Known, NEW a, NEW b, NEW e, NEW c, Running(a, b, e, c)
  PROVE  SendersWait'
<1>1. link'.d2q # None => link'.d2q.left \in 1..3
  BY BackKept DEF Running, TypedBack
<1>2. OnLink(link'.d2q, "DmaRequest") => qdx'.state \in Requesting /\ Q!ValidDma(link'.d2q.body)
  BY AskerWaits
<1>3. OnLink(link'.d2q, "DmaWrite") =>
        LET s == Held(qic') IN
        /\ qdx'.state = "CqSend"
        /\ s.at = "DmaComplete" \/ (s.at = "DmaData" /\ s.request.direction = "DeviceToHost")
  BY WriterWaits
<1>4. QED
  BY <1>1, <1>2, <1>3 DEF SendersWait, OnLink, Held

-----------------------------------------------------------------------------
(* The QIC offers the request, and the line turns.                                            *)

\* A request that is offered is on the link in the same clock, if nothing else is.
LEMMA OfferBegins ==
  ASSUME Known, NEW a, NEW b, NEW e, NEW c, Ongoing(a, b, e, c), qic.state.at = "WorkerOffer",
         ~Q!TimedOut(qic.state.wait)
  PROVE  e.link.q2d # None
<1>1. Begun(link, e, Signals, Device) /\ SignalsFit(qic, Bus, Device, Signals)
  BY DEF Ongoing, Slots, Clocked
<1>2. CASE link.q2d # None
  BY <1>1, <1>2 DEF Begun
<1>3. CASE link.q2d = None
  <2>1. Signals.mmio = qic.state.op /\ ~Signals.cancel
    BY <1>1 DEF Signals, Q!ToDevice, SignalsFit
  <2>2. peer.state.at = "WorkerData"
    BY AccessAt DEF Q!WorkerStates
  <2>3. qic.state.op \in Accesses /\ Signals.mmio # None
    BY <2>1, <2>2, NoneIsNoValue DEF Known, AccessShared, AccessUnderWay
  <2>4. e.link.q2d = L!Message("MmioRequest", Signals.mmio, L!RequestTokens(Signals.mmio))
    BY <1>1, <1>3, <2>1, <2>3 DEF Begun, L!ToDeviceMessage
  <2>5. PICK n \in {2, 4} : n = L!RequestTokens(Signals.mmio)
    BY DEF L!RequestTokens
  <2>6. n \in Int /\ e.link.q2d = L!Message("MmioRequest", Signals.mmio, n)
    BY <2>4, <2>5
  <2>7. QED
    BY <2>1, <2>3, <2>6, RequestIsMessage
<1>4. QED
  BY <1>2, <1>3

\* Where the QIC was when it begins, and when it offers.
LEMMA BegunAtOnce ==
  ASSUME Known, NEW a, NEW b, NEW e, NEW c, Ongoing(a, b, e, c)
  PROVE  /\ Doing(qic'.state.at) => qic'.state.wait = 0
         /\ qic'.state.at = "WorkerOffer" =>
              /\ qic.state.at \in Q!WorkerStates \ {"WorkerResponse"}
              /\ qic'.state.wait \in Nat
              /\ qic'.state.wait = 0 \/ (qic.state.at = "WorkerOffer" /\ ~Q!TimedOut(qic.state.wait))
<1>1. /\ QicShape(qic) /\ PeerShape(peer) /\ BusShape(Bus) /\ ~Bus.reset
      /\ qic' = Q!Clock(qic, Bus, ToCard)
  BY DEF Known, RoomInv, ShapeInv, Ongoing
<1>2. CASE qic.state.at \notin Q!WorkerStates
  <2>1. SUFFICES ASSUME qic'.state.at \in Q!WorkerStates
                 PROVE  Doing(qic'.state.at) /\ qic'.state.wait = 0
    BY DEF Doing, Q!WorkerStates
  <2>2. Q!WorkerAddressCycle(Bus) => ~Bus.grant
    BY <1>1, BusIs DEF Bus
  <2>3. qic'.state = Q!StartWorker(Bus)
    BY <1>1, <1>2, <2>1, <2>2, AccessBegins
  <2>4. PICK op : qic'.state = Q!WorkerData(op, 0)
    BY <2>3 DEF Q!StartWorker
  <2>5. QED
    BY <2>4 DEF Q!WorkerData, Doing
<1>3. CASE qic.state.at \in Q!WorkerStates
  <2>1. Bus.dataStrobe
    <3>1. peer.state.at = "WorkerData"
      BY <1>3, AccessAt
    <3>2. QED
      BY <3>1 DEF Bus, P!BusInputs
  <2>2. ~Doing(qic'.state.at)
    BY <1>1, <1>3, <2>1, OffersIs
  <2>3. ASSUME qic'.state.at = "WorkerOffer"
        PROVE  /\ qic.state.at \in Q!WorkerStates \ {"WorkerResponse"}
               /\ qic'.state.wait \in Nat
               /\ qic'.state.wait = 0 \/ (qic.state.at = "WorkerOffer" /\ ~Q!TimedOut(qic.state.wait))
    <3>1. \/ Doing(qic.state.at) /\ (qic.state.wait = 0 => qic'.state.wait = 0)
          \/ /\ qic.state.at = "WorkerOffer" /\ ~Q!TimedOut(qic.state.wait)
             /\ qic'.state.wait = qic.state.wait + 1
      BY <1>1, <1>3, <2>3, OffersIs
    <3>2. CASE Doing(qic.state.at) /\ (qic.state.wait = 0 => qic'.state.wait = 0)
      BY <1>3, <3>2 DEF Doing, Known, OfferedAtOnce
    <3>3. CASE /\ qic.state.at = "WorkerOffer" /\ ~Q!TimedOut(qic.state.wait)
               /\ qic'.state.wait = qic.state.wait + 1
      <4>1. PICK w \in Nat : w = qic.state.wait
        BY <3>3, TypedWait
      <4>2. qic'.state.wait = w + 1
        BY <3>3, <4>1
      <4>3. QED
        BY <1>3, <3>3, <4>2
    <3>4. QED
      BY <3>1, <3>2, <3>3
  <2>4. QED
    BY <2>2, <2>3
<1>4. QED
  BY <1>2, <1>3

\* What the chip has given, it does not give again.
LEMMA GivenOnce ==
  ASSUME Known, NEW a, NEW b, NEW e, NEW c, Running(a, b, e, c),
         ToChip.dmaReady \/ ToChip.writeReady
  PROVE  qdx'.state \notin Requesting \cup {"Notify"}
<1>1. Clocked(a, b) /\ Ongoing(a, b, e, c)
  BY DEF Running, Ongoing
<1>2. CASE ToChip.dmaReady
  <2>1. qdx.state \in Requesting
    BY <1>1, <1>2, GivenIs, SentBy
  <2>2. Engine(qdx, ToChip, Drive, qdx')
    BY <2>1, RunsOn DEF Working, ReadyState, Requesting
  <2>3. qdx'.state \in {"SqReceive", "CqSend"}
    BY <1>2, <2>1, <2>2 DEF Engine, Stays, RequestTaken, WordTaken, WordGiven, BurstDone,
       CompletionTaken, Goes1, Requesting
  <2>4. QED
    BY <2>3 DEF Requesting
<1>3. CASE ToChip.writeReady
  <2>1. qdx.state = "CqSend"
    BY <1>1, <1>3, GivenIs, SentBy
  <2>2. Engine(qdx, ToChip, Drive, qdx')
    BY <2>1, RunsOn DEF Working, ReadyState
  <2>3. qdx'.state \in {"CqSend", "CqCompletion"}
    BY <1>3, <2>1, <2>2 DEF Engine, Stays, RequestTaken, WordTaken, WordGiven, BurstDone,
       CompletionTaken, Goes1, Requesting
  <2>4. QED
    BY <2>3 DEF Requesting
<1>4. QED
  BY <1>2, <1>3

LEMMA OfferedAtOnceKept ==
  ASSUME Known, NEW a, NEW b, NEW e, NEW c, Running(a, b, e, c), OneNotification'
  PROVE  OfferedAtOnce'
<1>1. /\ Ongoing(a, b, e, c) /\ Clocked(a, b) /\ link' = Moves.link /\ TypedBack(c.link)
      /\ c.link.last \in Directions /\ e.link.last \in Directions
      /\ Slotted(e, c, Signals, Device) /\ Slotted(c, Moves, Signals, Device)
      /\ Undisturbed(qic, qic', Signals, ToCard)
  BY BackKept, TypedBegun DEF Running, Ongoing, Slots, Clocked
<1>2. Doing(qic'.state.at) => qic'.state.wait = 0
  BY <1>1, BegunAtOnce
<1>3. ASSUME qic'.state.at = "WorkerOffer"
      PROVE  /\ qic'.state.wait \in Nat
             /\ link'.last = "DeviceToQic" /\ link'.q2d = None => qic'.state.wait = 0
             /\ link'.last = "DeviceToQic" /\ link'.d2q = None =>
                  /\ qdx'.state \notin Requesting
                  /\ qdx'.state = "Notify" => link'.held # None \/ link'.done # None
  <2>1. /\ qic.state.at # "WorkerResponse" /\ qic'.state.wait \in Nat
        /\ qic'.state.wait = 0 \/ (qic.state.at = "WorkerOffer" /\ ~Q!TimedOut(qic.state.wait))
    BY <1>1, <1>3, BegunAtOnce
  <2>2. ASSUME link'.last = "DeviceToQic", link'.q2d = None
        PROVE  qic'.state.wait = 0
    <3>1. e.link.q2d = None
      BY <1>1, <2>2, GivenTurns
    <3>2. QED
      BY <1>1, <2>1, <3>1, OfferBegins
  <2>3. ASSUME link'.last = "DeviceToQic", link'.d2q = None
        PROVE  /\ qdx'.state \notin Requesting
               /\ qdx'.state = "Notify" => link'.held # None \/ link'.done # None
    <3>1. Signals.responseReady \/ ToChip.dmaReady \/ ToChip.writeReady \/ link'.held # None
      BY <1>1, <2>3, LastGiven DEF ToChip
    <3>2. ~Signals.responseReady
      BY <1>1, <2>1 DEF Undisturbed
    <3>3. CASE ToChip.dmaReady \/ ToChip.writeReady
      BY <3>3, GivenOnce
    <3>4. CASE link'.held # None
      <4>1. qdx'.state = "Notify"
        BY <3>4 DEF OneNotification, LinkNotifies
      <4>2. QED
        BY <3>4, <4>1 DEF Requesting
    <3>5. QED
      BY <3>1, <3>2, <3>3, <3>4
  <2>4. QED
    BY <2>1, <2>2, <2>3
<1>4. QED
  BY <1>2, <1>3 DEF OfferedAtOnce, Doing

-----------------------------------------------------------------------------
(* The invariant, and what the host sees.                                                     *)

LEMMA AccessClock ==
  ASSUME NotifyInv, WholeInv, AnswersInv, AccessInv, NotifyInv', CardClock
  PROVE  AccessInv'
<1>1. SUFFICES ASSUME ~seen'.stopped
               PROVE  AccessShared' /\ RequestReaches' /\ SendersWait' /\ OfferedAtOnce'
  BY DEF AccessInv
<1>2. RoomInv /\ SameTransaction /\ SameTransaction' /\ OneNotification'
  BY <1>1 DEF NotifyInv
<1>3. PICK a, b, e, c : Ongoing(a, b, e, c)
  BY <1>2, OngoingIs
<1>4. ~seen.stopped /\ Running(a, b, e, c)
  BY <1>1, <1>2, <1>3, RunningIs
<1>5. Known
  BY <1>2, <1>4 DEF NotifyInv, AccessInv, Known
<1>6. AccessShared'
  BY <1>2, <1>3, <1>5, AccessSharedKept
<1>7. RequestReaches'
  BY <1>3, <1>5, RequestReachesKept
<1>8. SendersWait'
  BY <1>4, <1>5, SendersWaitKept
<1>9. OfferedAtOnce'
  BY <1>2, <1>4, <1>5, OfferedAtOnceKept
<1>10. QED
  BY <1>6, <1>7, <1>8, <1>9

LEMMA NewAccess ==
  qic = Q!NewQic /\ link = L!NewLink /\ peer = P!NewPeer =>
    AccessShared /\ RequestReaches /\ SendersWait /\ OfferedAtOnce
<1>1. SUFFICES ASSUME qic = Q!NewQic, link = L!NewLink, peer = P!NewPeer
               PROVE  AccessShared /\ RequestReaches /\ SendersWait /\ OfferedAtOnce
  OBVIOUS
<1>2. /\ qic.state.at = "Idle" /\ link.q2d = None /\ link.d2q = None /\ peer.state.at = "Idle"
  BY <1>1 DEF Q!NewQic, Q!Idle, L!NewLink, P!NewPeer, P!Idle
<1>3. QED
  BY <1>2 DEF AccessShared, AccessUnderWay, RequestReaches, SendersWait, OfferedAtOnce, OnLink

LEMMA AccessDriven ==
  ASSUME RoomInv, SameTransaction, AccessInv, DriverAccess
  PROVE  AccessInv'
<1>1. /\ UNCHANGED <<qic, link, qdx>> /\ seen'.stopped = seen.stopped /\ seen'.applied = << >>
      /\ \E access \in Accesses : peer'.state = P!WorkerAddress(access)
  <2>1. ShapeInv
    BY DEF RoomInv
  <2>2. seen'.applied = << >>
    BY <2>1 DEF DriverAccess, ShapeInv, SeenShape
  <2>3. QED
    BY <2>1, <2>2, DriverAccessIs
<1>2. peer'.state.at = "WorkerAddress" /\ peer'.state.op \in Accesses
  BY <1>1 DEF P!WorkerAddress
<1>3. AccessShared'
  BY <1>1, <1>2 DEF AccessShared
<1>4. QED
  BY <1>1, <1>3 DEF AccessInv, RequestReaches, SendersWait, OfferedAtOnce, InTime, Unreached, Ahead

(* AccessInv is inductive on NotifyInv, WholeInv and AnswersInv: while the chip has not been
   stopped, host and QIC have the same access, which the chip has accepted when the QIC waits for
   its answer and not before, because a request on the link comes while the QIC still offers it,
   or never. *)
THEOREM AccessInvariant == Spec => []AccessInv
<1>1. Init => AccessInv
  BY NewAccess DEF Init, AccessInv
<1>2. /\ NotifyInv /\ WholeInv /\ AnswersInv /\ AccessInv /\ NotifyInv' /\ [Next]_cardVars
      => AccessInv'
  <2>1. SUFFICES ASSUME NotifyInv, WholeInv, AnswersInv, AccessInv, NotifyInv', [Next]_cardVars
                 PROVE  AccessInv'
    OBVIOUS
  <2>2. CASE CardClock
    BY <2>1, <2>2, AccessClock
  <2>3. CASE BusReset
    <3>1. (qic = Q!NewQic /\ link = L!NewLink /\ peer = P!NewPeer =>
             AccessShared /\ RequestReaches /\ SendersWait /\ OfferedAtOnce)'
      BY NewAccess, PTL
    <3>2. QED
      BY <2>3, <3>1, BusResetIs DEF AccessInv
  <2>4. CASE DriverAccess
    BY <2>1, <2>4, AccessDriven DEF NotifyInv
  <2>5. CASE UNCHANGED cardVars
    BY <2>1, <2>5 DEF cardVars, AccessInv, AccessShared, AccessUnderWay, RequestReaches, SendersWait,
       OfferedAtOnce, InTime, Unreached, Ahead
  <2>6. QED
    BY <2>1, <2>2, <2>3, <2>4, <2>5 DEF Next
<1>3. QED
  BY <1>1, <1>2, NotifyInvariant, WholeInvariant, AnswersInvariant, PTL DEF Spec

\* A success is the QIC's acknowledgement in the data phase.
LEMMA ResultIs ==
  ASSUME NEW p, PeerShape(p), p.state.at \in {"WorkerAddress", "WorkerData"}, NEW pins, NEW data,
         NEW p2 \in P!Clock(p, pins, data), p2.result # None, p2.result.kind # "Error"
  PROVE  p.state.at = "WorkerData" /\ pins.reply = "Ack"
<1>1. PICK q : q = [p EXCEPT !.got = None, !.result = None]
  OBVIOUS
<1>2. q = [state |-> p.state, result |-> None, words |-> p.words, address |-> p.address, got |-> None]
  BY <1>1 DEF PeerShape
<1>3. p2 \in P!FromWorker(q, pins, data)
  BY <1>1, <1>2 DEF P!Clock
<1>4. CASE pins.reply = "Err"
  <2>1. p2 = P!WorkerDone(q, [kind |-> "Error", data |-> None])
    BY <1>3, <1>4 DEF P!FromWorker
  <2>2. p2.result = [kind |-> "Error", data |-> None]
    BY <1>2, <2>1 DEF P!WorkerDone
  <2>3. QED
    BY <2>2
<1>5. CASE pins.reply # "Err" /\ pins.reply # "Ack"
  BY <1>2, <1>3, <1>5 DEF P!FromWorker
<1>6. CASE pins.reply = "Ack" /\ p.state.at = "WorkerAddress"
  <2>1. p2 = [q EXCEPT !.state = P!WorkerData(q.state.op)]
    BY <1>2, <1>3, <1>6 DEF P!FromWorker
  <2>2. p2.result = None
    BY <1>2, <2>1
  <2>3. QED
    BY <2>2
<1>7. QED
  BY <1>4, <1>5, <1>6

\* The QIC acknowledges when the chip has answered.
LEMMA AckMeans ==
  ASSUME Known, peer.state.at = "WorkerData", Pins.reply = "Ack"
  PROVE  qic.state.at = "WorkerResponse"
<1>1. qic.state.at \in Q!WorkerStates
  BY AccessAt
<1>2. Pins.reply = Q!WorkerReply(qic.state, Bus, ToQic(Moves.toQic))
  BY <1>1 DEF Pins, Q!CardPins, Q!Reply
<1>3. QED
  BY <1>2, NoneIsNoValue DEF Q!WorkerReply

\* What is applied by the end of a clock.
LEMMA AppliedBy ==
  ASSUME Known, NEW a, NEW b, NEW e, NEW c, Ongoing(a, b, e, c)
  PROVE  /\ ~AccessUnderWay => seen'.applied = << >>
         /\ AccessUnderWay => seen'.applied \in {<< >>, <<peer.state.op>>}
         /\ peer.state.at = "WorkerData" /\ qic.state.at = "WorkerResponse" =>
              seen'.applied = <<peer.state.op>>
<1>1. qic.state.at # "WorkerOffer" => ToChip.mmio = None
  BY AcceptedIs
<1>2. peer.state.at # "WorkerData" => ToChip.mmio = None
  <2>1. peer.state.at # "WorkerData" => qic.state.at # "WorkerOffer"
    BY AccessAt DEF Q!WorkerStates
  <2>2. QED
    BY <1>1, <2>1
<1>3. CASE ~AccessUnderWay
  <2>1. ToChip.mmio = None
    BY <1>2, <1>3 DEF AccessUnderWay
  <2>2. seen'.applied = << >> \o << >>
    BY <1>3, <2>1 DEF Ongoing, Observe
  <2>3. QED
    BY <1>3, <2>2 DEF AccessUnderWay
<1>4. CASE peer.state.at = "WorkerAddress"
  <2>1. ToChip.mmio = None /\ seen.applied = << >> /\ AccessUnderWay
    BY <1>2, <1>4 DEF Known, AccessShared, AccessUnderWay
  <2>2. QED
    BY <1>4, <2>1, AppliedIs
<1>5. CASE peer.state.at = "WorkerData" /\ qic.state.at = "WorkerResponse"
  <2>1. ToChip.mmio = None /\ seen.applied = <<peer.state.op>> /\ AccessUnderWay
    BY <1>1, <1>5 DEF Known, AccessShared, AccessUnderWay
  <2>2. seen'.applied = <<peer.state.op>>
    BY <2>1, AppliedIs
  <2>3. QED
    BY <2>1, <2>2
<1>6. CASE peer.state.at = "WorkerData" /\ qic.state.at # "WorkerResponse"
  <2>1. qic.state.op = peer.state.op /\ seen.applied = << >> /\ AccessUnderWay
    BY <1>6 DEF Known, AccessShared, AccessUnderWay
  <2>2. ToChip.mmio = None \/ ToChip.mmio = peer.state.op
    BY <2>1, AcceptedIs
  <2>3. seen'.applied \in {<< >>, <<peer.state.op>>}
    BY <2>1, <2>2, AppliedIs
  <2>4. QED
    BY <1>6, <2>1, <2>3
<1>7. QED
  BY <1>3, <1>4, <1>5, <1>6 DEF AccessUnderWay

AppliedOnce ==
  IF ~AccessUnderWay THEN seen'.applied = << >>
  ELSE peer'.result # None =>
         LET once == <<peer.state.op>> IN
         IF peer'.result.kind = "Error" THEN seen'.applied \in {<< >>, once}
         ELSE seen'.applied = once

LEMMA AppliedClock ==
  ASSUME NotifyInv, WholeInv, AnswersInv, AccessInv, ~seen.stopped, CardClock
  PROVE  AppliedOnce
<1>1. Known /\ RoomInv /\ PeerShape(peer)
  BY DEF NotifyInv, AccessInv, Known, RoomInv, ShapeInv
<1>2. PICK a, b, e, c : Ongoing(a, b, e, c)
  BY <1>1, OngoingIs
<1>3. PICK data : peer' \in P!Clock(peer, Pins, data)
  <2>1. Bus.reset = FALSE
    BY <1>1, BusIs DEF Bus
  <2>2. Step(Bus)
    BY DEF CardClock, Bus
  <2>3. Moves = L!Cycle(link, Bus.reset, Signals, Device)
    BY <2>1 DEF Moves
  <2>4. QED
    BY <2>1, <2>2, <2>3 DEF Step, Signals, Device, Pins
<1>4. ASSUME AccessUnderWay, peer'.result # None, peer'.result.kind # "Error"
      PROVE  seen'.applied = <<peer.state.op>>
  <2>1. peer.state.at = "WorkerData" /\ Pins.reply = "Ack"
    BY <1>1, <1>3, <1>4, ResultIs DEF AccessUnderWay
  <2>2. qic.state.at = "WorkerResponse"
    BY <1>1, <2>1, AckMeans
  <2>3. QED
    BY <1>1, <1>2, <2>1, <2>2, AppliedBy
<1>5. QED
  BY <1>1, <1>2, <1>4, AppliedBy DEF AppliedOnce

(* An access the host sees succeed was accepted by the chip once, and was the host's; one that
   fails was accepted at most once; nothing is accepted between accesses: for any sizes, any
   timeout of at least four clocks, any timing and faults of the host, any driver and resets at
   any time. *)
THEOREM AccessAppliedOnceProved == Spec => AccessAppliedOnce
<1>1. /\ NotifyInv /\ WholeInv /\ AnswersInv /\ AccessInv /\ [Next]_cardVars
      => [~seen.stopped => AppliedOnce]_cardVars
  <2>1. SUFFICES ASSUME NotifyInv, WholeInv, AnswersInv, AccessInv, ~seen.stopped, Next
                 PROVE  AppliedOnce
    OBVIOUS
  <2>2. CASE CardClock
    BY <2>1, <2>2, AppliedClock
  <2>3. CASE BusReset
    BY <2>3, BusResetIs DEF AppliedOnce, P!NewPeer, NewSeen
  <2>4. CASE DriverAccess
    <3>1. ShapeInv
      BY <2>1 DEF NotifyInv, RoomInv
    <3>2. seen'.applied = << >> /\ ~AccessUnderWay
      BY <2>4, <3>1 DEF DriverAccess, ShapeInv, SeenShape, AccessUnderWay, P!Idle
    <3>3. QED
      BY <3>2 DEF AppliedOnce
  <2>5. QED
    BY <2>1, <2>2, <2>3, <2>4 DEF Next
<1>2. QED
  BY <1>1, NotifyInvariant, WholeInvariant, AnswersInvariant, AccessInvariant, PTL
  DEF Spec, AccessAppliedOnce, AppliedOnce

-----------------------------------------------------------------------------
(* A message that is alone on the link, and has a receiver that takes it.                     *)

\* What the QIC sends but requests: a word, or a completion.
Forth == MessagesOf("DmaRead", Handles) \cup MessagesOf("DmaCompletion", Stages)
         \cup MessagesOf("NotificationCompletion", {0})

LEMMA ForthMessage ==
  ASSUME NEW m \in Forth
  PROVE  m # None /\ m.left \in Int /\ \A left \in Int : L!Message(m.tag, m.body, left) \in Forth
<1>1. m # None /\ m.left \in Int
  BY NoneIsNoValue DEF Forth, MessagesOf
<1>2. ASSUME NEW left \in Int
      PROVE  L!Message(m.tag, m.body, left) \in Forth
  <2>1. ASSUME NEW tag, NEW bodies, m \in MessagesOf(tag, bodies)
        PROVE  L!Message(m.tag, m.body, left) \in MessagesOf(tag, bodies)
    BY <1>2, <2>1 DEF MessagesOf, L!Message
  <2>2. QED
    BY <2>1 DEF Forth
<1>3. QED
  BY <1>1, <1>2

\* One slot of it: the line turns, or a token goes, or the last one and with it the message.
LEMMA ForthMoves ==
  ASSUME NEW c, c.link.last \in Directions, c.link.d2q = None, c.link.q2d \in Forth,
         NEW sig, NEW dev, L!DeviceTakes(c.link.q2d.tag, dev), NEW d, Slotted(c, d, sig, dev)
  PROVE  /\ d.link.d2q = None /\ d.link.last \in Directions
         /\ \/ c.link.last = "DeviceToQic" /\ d.link.last = None /\ d.link.q2d = c.link.q2d /\ Quiet(c, d)
            \/ /\ c.link.last # "DeviceToQic" /\ d.link.last = "QicToDevice" /\ c.link.q2d.left > 1
               /\ d.link.q2d \in Forth /\ d.link.q2d.tag = c.link.q2d.tag
               /\ d.link.q2d.body = c.link.q2d.body /\ d.link.q2d.left = c.link.q2d.left - 1
               /\ Quiet(c, d)
            \/ /\ c.link.last # "DeviceToQic" /\ d.link.last = "QicToDevice" /\ ~(c.link.q2d.left > 1)
               /\ d.link.q2d = None /\ DeviceGets(c, d, dev)
<1>1. Spends(c, d, sig, dev) /\ d.link.last \in Directions /\ Turns(c, d, sig, dev)
      /\ (Quiet(c, d) \/ DeviceGets(c, d, dev) \/ QicGets(c, d, sig))
  BY SlotOf DEF Slotted
<1>2. c.link.q2d # None /\ c.link.q2d.left \in Int /\ "DeviceToQic" \notin {None, "QicToDevice"}
  BY ForthMessage, NoneIsNoValue
<1>3. d.link.d2q = None /\ ~QicGets(c, d, sig)
  BY <1>1, <1>2 DEF Spends, QicGets
<1>4. CASE c.link.last = "DeviceToQic"
  <2>1. d.link.last = None /\ d.link.q2d = c.link.q2d
    BY <1>1, <1>2, <1>4 DEF Spends
  <2>2. ~DeviceGets(c, d, dev)
    BY <1>2, <2>1 DEF DeviceGets
  <2>3. QED
    BY <1>1, <1>3, <1>4, <2>1, <2>2
<1>5. CASE c.link.last # "DeviceToQic"
  <2>1. d.link.last = "QicToDevice" /\ Shorter(c.link.q2d, d.link.q2d, TRUE)
    BY <1>1, <1>2, <1>5 DEF Spends, Directions
  <2>2. CASE c.link.q2d.left > 1
    <3>1. d.link.q2d = L!Message(c.link.q2d.tag, c.link.q2d.body, c.link.q2d.left - 1)
      BY <2>1, <2>2 DEF Shorter
    <3>2. /\ d.link.q2d \in Forth /\ d.link.q2d.tag = c.link.q2d.tag
          /\ d.link.q2d.body = c.link.q2d.body /\ d.link.q2d.left = c.link.q2d.left - 1
      BY <1>2, <3>1, ForthMessage DEF L!Message
    <3>3. ~DeviceGets(c, d, dev)
      BY <3>2, ForthMessage DEF DeviceGets
    <3>4. QED
      BY <1>1, <1>3, <1>5, <2>1, <2>2, <3>2, <3>3
  <2>3. CASE ~(c.link.q2d.left > 1)
    <3>1. DeviceGets(c, d, dev)
      BY <1>1, <1>2, <1>5, <2>3 DEF Turns, Directions
    <3>2. QED
      BY <1>1, <1>3, <1>5, <2>1, <2>3, <3>1 DEF DeviceGets
  <2>4. QED
    BY <2>2, <2>3
<1>6. QED
  BY <1>4, <1>5

\* With nothing on the link, nothing happens.
LEMMA EmptySlot ==
  ASSUME NEW c, c.link.last \in Directions, c.link.q2d = None, c.link.d2q = None,
         NEW sig, NEW dev, NEW d, Slotted(c, d, sig, dev)
  PROVE  d.link.q2d = None /\ d.link.d2q = None /\ d.link.last = None /\ Quiet(c, d)
<1>1. Spends(c, d, sig, dev) /\ (Quiet(c, d) \/ DeviceGets(c, d, dev) \/ QicGets(c, d, sig))
  BY SlotOf DEF Slotted
<1>2. QED
  BY <1>1 DEF Spends, DeviceGets, QicGets

\* What the receiver has when it has got the message.
Got(m, d) ==
  /\ d.link.q2d = None
  /\ m.tag = "DmaRead" => d.toQic.readReady /\ d.toDevice.read = m.body
  /\ m.tag = "DmaCompletion" => d.toQic.completionReady /\ d.toDevice.completion = m.body
  /\ m.tag = "NotificationCompletion" => d.toDevice.notified

\* In a clock it is delivered, if it is no longer than a word and the line need not turn for one.
LEMMA ForthCycle ==
  ASSUME NEW e, e.link.last \in Directions, e.link.d2q = None, e.link.q2d \in Forth,
         e.link.q2d.left \in 1..2,
         NEW sig, NEW dev, L!DeviceTakes(e.link.q2d.tag, dev),
         NEW c, Slotted(e, c, sig, dev), NEW d, Slotted(c, d, sig, dev)
  PROVE  /\ d.link.d2q = None
         /\ \/ Got(e.link.q2d, d) /\ d.link.done = None
            \/ Got(e.link.q2d, d) /\ ~(e.link.q2d.tag = "NotificationCompletion" /\ e.link.done = e.link.q2d.body)
               /\ d.link.done = e.link.done
            \/ /\ e.link.q2d.left = 2 /\ e.link.last = "DeviceToQic"
               /\ d.link.q2d.left = 1 /\ d.link.last = "QicToDevice" /\ d.link.q2d # None
               /\ d.link.q2d.tag = e.link.q2d.tag /\ d.link.done = e.link.done
<1>n. "DeviceToQic" \notin {None, "QicToDevice"}
  BY NoneIsNoValue
<1>1. c.link.d2q = None /\ c.link.last \in Directions
  BY ForthMoves
<1>g. ASSUME NEW m, NEW x, NEW y, m = x.link.q2d, DeviceGets(x, y, dev)
      PROVE  /\ Got(m, y)
             /\ y.link.done = None \/ (/\ ~(m.tag = "NotificationCompletion" /\ x.link.done = m.body)
                                       /\ y.link.done = x.link.done)
  BY <1>g DEF Got, DeviceGets
<1>2. CASE c.link.last = None /\ c.link.q2d = e.link.q2d /\ Quiet(e, c) /\ e.link.last = "DeviceToQic"
  <2>1. c.link.q2d \in Forth /\ L!DeviceTakes(c.link.q2d.tag, dev) /\ c.link.done = e.link.done
    BY <1>2 DEF Quiet
  <2>2. CASE DeviceGets(c, d, dev)
    BY <1>1, <1>2, <1>g, <2>1, <2>2, ForthMoves
  <2>3. CASE ~DeviceGets(c, d, dev)
    <3>1. /\ d.link.d2q = None /\ d.link.last = "QicToDevice" /\ c.link.q2d.left > 1
          /\ d.link.q2d \in Forth /\ d.link.q2d.tag = c.link.q2d.tag
          /\ d.link.q2d.left = c.link.q2d.left - 1 /\ Quiet(c, d)
      BY <1>1, <1>2, <1>n, <2>1, <2>3, ForthMoves
    <3>2. e.link.q2d.left = 2 /\ d.link.q2d.left = 1
      BY <1>2, <3>1
    <3>3. QED
      BY <1>2, <2>1, <3>1, <3>2, ForthMessage DEF Quiet
  <2>4. QED
    BY <2>2, <2>3
<1>3. CASE /\ c.link.last = "QicToDevice" /\ e.link.q2d.left > 1
           /\ c.link.q2d \in Forth /\ c.link.q2d.tag = e.link.q2d.tag
           /\ c.link.q2d.body = e.link.q2d.body /\ c.link.q2d.left = e.link.q2d.left - 1
           /\ Quiet(e, c)
  <2>1. ~(c.link.q2d.left > 1) /\ L!DeviceTakes(c.link.q2d.tag, dev) /\ c.link.done = e.link.done
    BY <1>3 DEF Quiet
  <2>2. DeviceGets(c, d, dev) /\ d.link.d2q = None
    BY <1>1, <1>3, <1>n, <2>1, ForthMoves
  <2>3. Got(c.link.q2d, d)
    BY <1>g, <2>2
  <2>4. Got(e.link.q2d, d)
    BY <1>3, <2>3 DEF Got
  <2>5. QED
    BY <1>3, <1>g, <2>1, <2>2, <2>4
<1>4. CASE c.link.q2d = None /\ DeviceGets(e, c, dev)
  <2>1. d.link.q2d = None /\ d.link.d2q = None /\ Quiet(c, d)
    BY <1>1, <1>4, EmptySlot
  <2>2. Got(e.link.q2d, c)
    BY <1>4, <1>g
  <2>3. Got(e.link.q2d, d) /\ d.link.done = c.link.done
    BY <2>1, <2>2 DEF Got, Quiet
  <2>4. QED
    BY <1>4, <1>g, <2>1, <2>3
<1>5. QED
  BY <1>2, <1>3, <1>4, ForthMoves

\* One slot of a message to the QIC, if it is alone and the QIC takes it.
LEMMA BackMoves ==
  ASSUME NEW c, c.link.last \in Directions, TypedBack(c.link), c.link.q2d = None, c.link.d2q # None,
         NEW sig, L!QicTakes(c.link.d2q.tag, sig), NEW dev, NEW d, Slotted(c, d, sig, dev)
  PROVE  /\ d.link.q2d = None /\ d.link.last \in Directions /\ TypedBack(d.link)
         /\ c.link.d2q.left \in 1..3
         /\ \/ /\ c.link.last = "QicToDevice" /\ d.link.last = None /\ d.link.d2q = c.link.d2q
               /\ Quiet(c, d)
            \/ /\ c.link.last # "QicToDevice" /\ d.link.last = "DeviceToQic" /\ c.link.d2q.left > 1
               /\ d.link.d2q # None /\ d.link.d2q.tag = c.link.d2q.tag
               /\ d.link.d2q.left = c.link.d2q.left - 1 /\ Quiet(c, d)
            \/ /\ c.link.last # "QicToDevice" /\ d.link.last = "DeviceToQic" /\ c.link.d2q.left = 1
               /\ d.link.d2q = None /\ QicGets(c, d, sig)
<1>1. Spends(c, d, sig, dev) /\ d.link.last \in Directions /\ TypedBack(d.link)
      /\ (Quiet(c, d) \/ DeviceGets(c, d, dev) \/ QicGets(c, d, sig))
  BY SlotOf, BackSlot DEF Slotted
<1>2. c.link.d2q \in Back /\ c.link.d2q.left \in 1..3 /\ "QicToDevice" \notin {None, "DeviceToQic"}
  BY NoneIsNoValue DEF TypedBack
<1>3. d.link.q2d = None /\ ~DeviceGets(c, d, dev)
  BY <1>1 DEF Spends, DeviceGets
<1>4. CASE c.link.last = "QicToDevice"
  <2>1. d.link.last = None /\ d.link.d2q = c.link.d2q
    BY <1>1, <1>2, <1>4 DEF Spends
  <2>2. ~QicGets(c, d, sig)
    BY <2>1 DEF QicGets
  <2>3. QED
    BY <1>1, <1>2, <1>3, <1>4, <2>1, <2>2
<1>5. CASE c.link.last # "QicToDevice"
  <2>1. /\ d.link.last = "DeviceToQic" /\ Shorter(c.link.d2q, d.link.d2q, TRUE)
        /\ c.link.d2q.left > 1 \/ QicGets(c, d, sig)
    BY <1>1, <1>2, <1>5 DEF Spends, Directions
  <2>2. CASE c.link.d2q.left > 1
    <3>1. d.link.d2q = L!Message(c.link.d2q.tag, c.link.d2q.body, c.link.d2q.left - 1)
          /\ c.link.d2q.left - 1 \in Int
      BY <1>2, <2>1, <2>2 DEF Shorter
    <3>2. /\ d.link.d2q \in Back /\ d.link.d2q.tag = c.link.d2q.tag
          /\ d.link.d2q.left = c.link.d2q.left - 1
      BY <1>2, <3>1, BackMessage DEF L!Message
    <3>3. d.link.d2q # None /\ ~QicGets(c, d, sig)
      BY <3>2, BackMessage DEF QicGets
    <3>4. QED
      BY <1>1, <1>2, <1>3, <1>5, <2>1, <2>2, <3>2, <3>3
  <2>3. CASE ~(c.link.d2q.left > 1)
    <3>1. QicGets(c, d, sig) /\ c.link.d2q.left = 1
      BY <1>2, <2>1, <2>3
    <3>2. QED
      BY <1>1, <1>2, <1>3, <1>5, <2>1, <3>1 DEF QicGets
  <2>4. QED
    BY <2>2, <2>3
<1>6. QED
  BY <1>4, <1>5

\* In a clock a word to the QIC is delivered, or half of it if the line turns for it.
LEMMA WordCycle ==
  ASSUME NEW e, e.link.last \in Directions, TypedBack(e.link), e.link.q2d = None,
         OnLink(e.link.d2q, "DmaWrite"), e.link.d2q.left \in 1..2,
         NEW sig, sig.writeReady, NEW dev,
         NEW c, Slotted(e, c, sig, dev), NEW d, Slotted(c, d, sig, dev)
  PROVE  /\ d.link.q2d = None
         /\ \/ d.link.d2q = None /\ d.toQic.write = e.link.d2q.body
            \/ /\ e.link.d2q.left = 2 /\ e.link.last = "QicToDevice"
               /\ OnLink(d.link.d2q, "DmaWrite") /\ d.link.d2q.left = 1 /\ d.link.last = "DeviceToQic"
<1>n. "QicToDevice" \notin {None, "DeviceToQic"}
  BY NoneIsNoValue
<1>t. L!QicTakes("DmaWrite", sig) /\ e.link.d2q # None /\ e.link.d2q.tag = "DmaWrite"
  BY DEF L!QicTakes, OnLink
<1>0. Ebbs(e, c, sig) /\ Ebbs(c, d, sig)
  BY DEF Slotted
<1>1. c.link.q2d = None /\ TypedBack(c.link) /\ c.link.last \in Directions
  BY <1>t, BackMoves
<1>2. CASE e.link.last = "QicToDevice" /\ c.link.last = None /\ c.link.d2q = e.link.d2q
  <2>1. CASE QicGets(c, d, sig)
    BY <1>1, <1>2, <1>t, <2>1, BackMoves DEF QicGets
  <2>2. CASE ~QicGets(c, d, sig)
    BY <1>1, <1>2, <1>t, <1>n, <2>2, BackMoves DEF OnLink
  <2>3. QED
    BY <2>1, <2>2
<1>3. CASE /\ c.link.last = "DeviceToQic" /\ e.link.d2q.left > 1 /\ c.link.d2q # None
           /\ c.link.d2q.tag = e.link.d2q.tag /\ c.link.d2q.left = e.link.d2q.left - 1
           /\ Quiet(e, c)
  <2>1. c.link.d2q.left = 1 /\ c.link.d2q.body = e.link.d2q.body
    BY <1>3 DEF Quiet, Same
  <2>2. QicGets(c, d, sig) /\ d.link.q2d = None
    BY <1>1, <1>3, <1>t, <1>n, <2>1, BackMoves
  <2>3. QED
    BY <1>3, <1>t, <2>1, <2>2 DEF QicGets
<1>4. CASE c.link.d2q = None /\ QicGets(e, c, sig)
  <2>1. d.link.q2d = None /\ d.link.d2q = None /\ Quiet(c, d)
    BY <1>1, <1>4, EmptySlot
  <2>2. QED
    BY <1>4, <1>t, <2>1 DEF QicGets, Quiet
<1>5. QED
  BY <1>2, <1>3, <1>4, <1>t, BackMoves

-----------------------------------------------------------------------------
(* The answer to an access, which the QIC takes.                                              *)

\* The chip's word for it and the QIC's come together, when the message is gone.
Answering(c) ==
  IF c.toDevice.responseReady THEN c.toQic.response \in Answers /\ c.link.d2q = None
  ELSE c.toQic.response = None

LEMMA AnsweringSlot ==
  ASSUME NEW c, c.link.last \in Directions, TypedBack(c.link), c.toDevice.responseReady \in BOOLEAN,
         Answering(c), NEW sig, NEW dev, NEW d, Slotted(c, d, sig, dev)
  PROVE  Answering(d) /\ d.toDevice.responseReady \in BOOLEAN
         /\ (c.toDevice.responseReady => d.toDevice.responseReady)
<1>1. CASE Quiet(c, d)
  BY <1>1 DEF Quiet, Same, Answering
<1>2. CASE DeviceGets(c, d, dev)
  BY <1>2 DEF DeviceGets, Answering
<1>3. CASE QicGets(c, d, sig)
  <2>1. c.link.d2q \in Back /\ d.link.d2q = None /\ ~c.toDevice.responseReady
    BY <1>3 DEF QicGets, TypedBack, Answering
  <2>2. CASE c.link.d2q.tag = "MmioResponse"
    <3>1. c.link.d2q.body \in Answers
      BY <2>1, <2>2 DEF Back, Responses, WordMessages, MessagesOf
    <3>2. QED
      BY <1>3, <2>1, <2>2, <3>1 DEF QicGets, Answering
  <2>3. CASE c.link.d2q.tag # "MmioResponse"
    BY <1>3, <2>1, <2>3 DEF QicGets, Answering
  <2>4. QED
    BY <2>2, <2>3
<1>4. QED
  BY <1>1, <1>2, <1>3 DEF Slotted

\* The slots still needed, of a link with nothing to the chip on it.
LEMMA BehindIs ==
  ASSUME NEW l, TypedBack(l), l.last \in Directions
  PROVE  /\ Behind(l) \in Nat /\ Behind(l) >= 1 /\ Behind(l) <= 8
         /\ l.d2q # None => Behind(l) = (IF l.last = "QicToDevice" THEN 1 ELSE 0) + l.d2q.left
                                        + IF l.d2q.tag = "MmioResponse" THEN 0 ELSE 4
         /\ l.d2q = None /\ l.last # "QicToDevice" => Behind(l) = 3
<1>1. CASE l.d2q = None
  BY <1>1 DEF Behind
<1>2. CASE l.d2q # None
  <2>1. PICK n \in 1..3 : n = l.d2q.left
    BY <1>2 DEF TypedBack
  <2>2. QED
    BY <1>2, <2>1 DEF Behind
<1>3. QED
  BY <1>1, <1>2

\* What comes before the answer, or the answer itself, comes closer in each slot.
LEMMA AnswerSlot ==
  ASSUME NEW c, c.link.last \in Directions, TypedBack(c.link), c.link.q2d = None, c.link.d2q # None,
         NEW sig, L!QicTakes(c.link.d2q.tag, sig), NEW dev, NEW d, Slotted(c, d, sig, dev)
  PROVE  \/ d.toDevice.responseReady
         \/ d.link.d2q = None /\ d.link.last = "DeviceToQic" /\ Behind(d.link) <= Behind(c.link) - 2
         \/ /\ d.link.d2q # None /\ d.link.d2q.tag = c.link.d2q.tag
            /\ Behind(d.link) <= Behind(c.link) - 1
<1>n. "QicToDevice" \notin {None, "DeviceToQic"}
  BY NoneIsNoValue
<1>1. /\ d.link.q2d = None /\ d.link.last \in Directions /\ TypedBack(d.link)
      /\ c.link.d2q.left \in 1..3
  BY BackMoves
<1>2. /\ Behind(c.link) = (IF c.link.last = "QicToDevice" THEN 1 ELSE 0) + c.link.d2q.left
                          + IF c.link.d2q.tag = "MmioResponse" THEN 0 ELSE 4
      /\ d.link.d2q # None =>
           Behind(d.link) = (IF d.link.last = "QicToDevice" THEN 1 ELSE 0) + d.link.d2q.left
                            + IF d.link.d2q.tag = "MmioResponse" THEN 0 ELSE 4
      /\ d.link.d2q = None /\ d.link.last # "QicToDevice" => Behind(d.link) = 3
  BY <1>1, BehindIs
<1>3. CASE c.link.last = "QicToDevice" /\ d.link.last = None /\ d.link.d2q = c.link.d2q
  BY <1>1, <1>2, <1>3, <1>n
<1>4. CASE /\ c.link.last # "QicToDevice" /\ d.link.last = "DeviceToQic"
           /\ d.link.d2q # None /\ d.link.d2q.tag = c.link.d2q.tag
           /\ d.link.d2q.left = c.link.d2q.left - 1
  BY <1>1, <1>2, <1>4, <1>n
<1>5. CASE /\ c.link.last # "QicToDevice" /\ d.link.last = "DeviceToQic" /\ c.link.d2q.left = 1
           /\ d.link.d2q = None /\ QicGets(c, d, sig)
  <2>1. c.link.d2q.tag = "MmioResponse" => d.toDevice.responseReady
    BY <1>5 DEF QicGets
  <2>2. QED
    BY <1>2, <1>5, <1>n, <2>1
<1>6. QED
  BY <1>3, <1>4, <1>5, BackMoves

LEMMA AnswerCycle ==
  ASSUME NEW e, e.link.last \in Directions, TypedBack(e.link), e.link.q2d = None, e.link.d2q # None,
         e.toDevice.responseReady \in BOOLEAN, Answering(e),
         NEW sig, L!QicTakes(e.link.d2q.tag, sig), NEW dev,
         NEW c, Slotted(e, c, sig, dev), NEW d, Slotted(c, d, sig, dev)
  PROVE  /\ d.link.q2d = None
         /\ d.toDevice.responseReady \/ Behind(d.link) <= Behind(e.link) - 2
<1>n. "DeviceToQic" \notin {None, "QicToDevice"} /\ "QicToDevice" # None
  BY NoneIsNoValue
<1>1. c.link.q2d = None /\ c.link.last \in Directions /\ TypedBack(c.link)
      /\ Answering(c) /\ c.toDevice.responseReady \in BOOLEAN
  BY BackMoves, AnsweringSlot
<1>2. /\ Behind(e.link) \in Nat /\ Behind(c.link) \in Nat
  BY <1>1, BehindIs
<1>3. CASE c.link.d2q = None
  <2>1. d.link.q2d = None /\ d.link.d2q = None /\ d.link.last = None /\ Quiet(c, d)
    BY <1>1, <1>3, EmptySlot
  <2>2. c.toDevice.responseReady \/ (c.link.last = "DeviceToQic" /\ Behind(c.link) <= Behind(e.link) - 2)
    BY <1>3, AnswerSlot
  <2>3. Behind(d.link) = 3 /\ (c.link.last = "DeviceToQic" => Behind(c.link) = 3)
    BY <1>3, <1>n, <2>1 DEF Behind
  <2>4. CASE c.toDevice.responseReady
    BY <2>1, <2>4 DEF Quiet
  <2>5. CASE c.link.last = "DeviceToQic" /\ Behind(c.link) <= Behind(e.link) - 2
    BY <1>2, <2>1, <2>3, <2>5
  <2>6. QED
    BY <2>2, <2>4, <2>5
<1>4. CASE c.link.d2q # None
  <2>1. ~c.toDevice.responseReady
    BY <1>1, <1>4 DEF Answering
  <2>2. c.link.d2q.tag = e.link.d2q.tag /\ Behind(c.link) <= Behind(e.link) - 1
    BY <1>4, <2>1, AnswerSlot
  <2>3. TypedBack(d.link) /\ d.link.last \in Directions /\ d.link.q2d = None
    BY <1>1, <1>4, <2>2, BackMoves
  <2>4. Behind(d.link) \in Nat
    BY <2>3, BehindIs
  <2>5. d.toDevice.responseReady \/ Behind(d.link) <= Behind(c.link) - 1
    <3>1. \/ d.toDevice.responseReady
          \/ d.link.d2q = None /\ d.link.last = "DeviceToQic" /\ Behind(d.link) <= Behind(c.link) - 2
          \/ /\ d.link.d2q # None /\ d.link.d2q.tag = c.link.d2q.tag
             /\ Behind(d.link) <= Behind(c.link) - 1
      BY <1>1, <1>4, <2>2, AnswerSlot
    <3>2. QED
      BY <1>2, <2>4, <3>1
  <2>6. QED
    BY <1>2, <2>2, <2>3, <2>4, <2>5
<1>5. QED
  BY <1>3, <1>4

-----------------------------------------------------------------------------
(* One clock of a card that is in time.                                                       *)

\* An access that the chip takes is answered.
LEMMA AcceptAnswered ==
  ASSUME NEW d, ChipRoom(d), Based(d), ChipAnswers(d), d.response = None,
         NEW qli, qli.reset = FALSE, qli.mmio # None, Legal(qli.mmio),
         NEW signals, NEW e, e = Advance(d, qli, signals)
  PROVE  e.response # None
<1>1. PICK p : p = [d EXCEPT !.resetPulse = FALSE]
  OBVIOUS
<1>2. /\ ChipShape(p) /\ ChipRoom(p) /\ Based(p) /\ ChipAnswers(p) /\ p.response = None
  <2>1. /\ ChipShape(p) /\ p.state = d.state /\ p.error = d.error /\ p.sqSize = d.sqSize
        /\ p.cqSize = d.cqSize /\ p.response = d.response /\ p.sqBase = d.sqBase
        /\ p.cqBase = d.cqBase /\ p.sqHead = d.sqHead /\ p.sqTail = d.sqTail
        /\ p.cqHead = d.cqHead /\ p.cqTail = d.cqTail
    BY <1>1 DEF ChipRoom, ChipShape
  <2>2. QED
    BY <2>1, RoomKept DEF Based, ChipAnswers
<1>3. PICK m : m = AfterMmio(p, qli)
  OBVIOUS
<1>4. ChipRoom(m) /\ ChipShape(m)
  BY <1>1, <1>3, RegisterRoom DEF ChipRoom
<1>5. WriteOk # None /\ Refused # None
  BY NoneIsNoValue DEF Answers
<1>6. m.response # None
  <2> DEFINE name  == qli.mmio.register.name
             value == qli.mmio.register.value
  <2>1. m = AcceptMmio(p, qli.mmio)
    BY <1>2, <1>3 DEF AfterMmio, AcceptsMmio
  <2>2. CASE ~qli.mmio.write
    <3>1. m = [p EXCEPT !.response = ReadAccess(p, name)]
      BY <2>1, <2>2 DEF AcceptMmio
    <3>2. m.response = ReadAccess(p, name)
      BY <1>2, <3>1 DEF ChipShape
    <3>3. ReadAccess(p, name) \in Answers
      BY <1>2, ReadAnswered
    <3>4. QED
      BY <3>2, <3>3, NoneIsNoValue
  <2>3. CASE qli.mmio.write
    <3>1. m = WriteAccess(p, name, value)
      BY <2>1, <2>3 DEF AcceptMmio
    <3>2. m = Configure(p, name, value) \/ m = MoveQueue(p, name, value) \/ m = Refuse(p)
      BY <3>1 DEF WriteAccess
    <3>3. Refuse(p).response = Refused /\ RefuseMovement(p).response = Refused
      BY <1>2 DEF Refuse, RefuseMovement, ChipShape
    <3>4. Accepted(p).response = WriteOk /\ ChipShape(Accepted(p))
      BY <1>2 DEF Accepted, ChipShape
    <3>5. WriteControl(p, value).response = WriteOk
      BY <1>2 DEF WriteControl, Accepted, ChipShape
    <3>6. Configure(p, name, value).response \in {WriteOk, Refused}
      BY <3>3, <3>4, <3>5 DEF Configure, ChipShape
    <3>7. MoveQueue(p, name, value).response \in {WriteOk, Refused}
      BY <3>3, <3>4 DEF MoveQueue, ChipShape
    <3>8. QED
      BY <1>5, <3>2, <3>3, <3>6, <3>7
  <2>4. QED
    BY <2>2, <2>3
<1>7. e = Accepted(HardReset) \/ e = m \/ e = Progress(m, qli, signals)
  BY <1>1, <1>3 DEF Advance
<1>8. Progress(m, qli, signals).response = m.response
  BY <1>4, ProgressIs
<1>9. QED
  BY <1>5, <1>6, <1>7, <1>8, ResetIs

\* The exact wait of an access.
LEMMA WaitsIs ==
  ASSUME NEW q, QicShape(q), q.state.at \in {"WorkerOffer", "WorkerResponse"},
         ~Q!TimedOut(q.state.wait), NEW bus, BusShape(bus), ~bus.reset,
         NEW v, NEW q2, q2 = Q!Clock(q, bus, v)
  PROVE  LET s == q.state
             n == q2.state IN
         /\ s.at = "WorkerOffer" /\ v.mmioReady => n.at = "WorkerResponse" /\ n.wait = s.wait
         /\ s.at = "WorkerOffer" /\ ~v.mmioReady =>
              n.at = "WorkerOffer" /\ n.op = s.op /\ n.wait = s.wait + 1
         /\ s.at = "WorkerResponse" /\ bus.dataStrobe /\ v.response # None => n.at \notin Q!WorkerStates
         /\ s.at = "WorkerResponse" /\ v.response = None =>
              n.at = "WorkerResponse" /\ n.wait = s.wait + 1
<1>1. PICK s : s = q.state
  OBVIOUS
<1>2. PICK now : now = Now(q, bus)
  OBVIOUS
<1>3. now.state = s /\ QicState(s) /\ s.at \in Q!WorkerStates
  BY <1>1, <1>2 DEF Now, QicShape, Q!WorkerStates
<1>4. PICK n : n = Moved(q, bus, v)
  OBVIOUS
<1>5. n = Q!NextState(now, bus, v)
  BY <1>2, <1>4 DEF Moved
<1>6. PICK waiting : waiting = [s EXCEPT !.wait = @ + 1]
  OBVIOUS
<1>7. PICK x : x = q2.state
  OBVIOUS
<1>8. /\ Q!WorkerReply(s, bus, v) \in {"Ack", "Err"} => x.at \notin Q!WorkerStates
      /\ Q!WorkerReply(s, bus, v) \notin {"Ack", "Err"} => x = n
  BY <1>1, <1>3, <1>4, <1>7, AccessGoesOn
<1>9. waiting.at = s.at /\ waiting.wait = s.wait + 1 /\ (s.at = "WorkerOffer" => waiting.op = s.op)
  <2>1. waiting.at = s.at /\ (s.at = "WorkerOffer" => waiting.op = s.op)
    BY <1>3, <1>6, WaitingIs DEF Q!WorkerStates
  <2>2. "wait" \in DOMAIN s
    BY <1>3 DEF QicState, Q!WorkerStates, Q!WorkerResponse
  <2>3. QED
    BY <1>6, <2>1, <2>2
<1>10. None \notin {"Ack", "Err"}
  BY NoneIsNoValue
<1>11. CASE s.at = "WorkerOffer"
  <2>1. n = Q!FromWorkerOffer(s, v)
    BY <1>3, <1>5, <1>11 DEF Q!NextState
  <2>2. Q!WorkerReply(s, bus, v) = None
    BY <1>1, <1>11 DEF Q!WorkerReply
  <2>3. n = IF v.mmioReady THEN Q!WorkerResponse(~s.op.write, s.wait) ELSE waiting
    BY <1>1, <1>6, <2>1 DEF Q!FromWorkerOffer
  <2>4. x = n
    BY <1>8, <1>10, <2>2
  <2>5. QED
    BY <1>1, <1>7, <1>9, <1>11, <2>3, <2>4 DEF Q!WorkerResponse
<1>12. CASE s.at = "WorkerResponse"
  <2>1. n = Q!FromWorkerResponse(s, bus, v)
    BY <1>3, <1>5, <1>12 DEF Q!NextState
  <2>2. Q!WorkerReply(s, bus, v) = IF bus.dataStrobe /\ v.response # None
                                   THEN IF v.response = Q!RightAnswer(s.read) THEN "Ack" ELSE "Err"
                                   ELSE None
    BY <1>1, <1>12 DEF Q!WorkerReply
  <2>3. v.response = None => n = waiting /\ x = n
    BY <1>1, <1>6, <1>8, <1>10, <2>1, <2>2 DEF Q!FromWorkerResponse
  <2>4. bus.dataStrobe /\ v.response # None => x.at \notin Q!WorkerStates
    BY <1>8, <2>2
  <2>5. QED
    BY <1>1, <1>7, <1>9, <1>12, <2>3, <2>4
<1>13. QED
  BY <1>1, <1>11, <1>12

\* All that is known of a clock in which the chip is not stopped and the QIC repeats no word;
\* "b" is the message to the QIC once messages have been begun.
Timed(a, b, e, c) ==
  /\ Ongoing(a, b, e, c) /\ InService(a, b) /\ b = e.link.d2q
  /\ \E signals : qdx' = Advance(qdx, ToChip, signals)
  /\ ToChip.reset = FALSE /\ (ToChip.mmio # None => Legal(ToChip.mmio))
  /\ \E data : peer' \in P!Clock(peer, Pins, data)

LEMMA TimedIs ==
  ASSUME Known, CardClock, ~seen'.stopped, ~seen'.repeats
  PROVE  ~seen.stopped /\ ~seen.repeats /\ \E a, b, e, c : Timed(a, b, e, c)
<1>1. RoomInv /\ WholeInv /\ AnswersInv /\ ShapeInv /\ AccessesLegal /\ LinkShape(link)
  BY DEF Known, RoomInv, ShapeInv
<1>2. PICK a1, b1 : InService(a1, b1)
  BY <1>1, InServiceIs
<1>3. PICK a, b1o, e, c : Ongoing(a, b1o, e, c)
  BY <1>1, OngoingIs
<1>4. ~seen.stopped /\ ~seen.repeats
  BY <1>1, InServiceIs
<1>5. PICK b : b = e.link.d2q
  OBVIOUS
<1>6. a = a1
  BY <1>2, <1>3 DEF InService, Ongoing, Clocked, ToDeviceIs
<1>7. b = PendingBack(link, Signals, Device)
  BY <1>3, <1>5 DEF Ongoing, Slots, Begun, PendingBack
<1>8. Carried(Moves, a, b, Signals, Device)
  <2>1. Begun(link, e, Signals, Device) /\ a = e.link.q2d
    BY <1>3 DEF Ongoing, Slots
  <2>2. Same(e.link.q2d, a) /\ Same(e.link.d2q, b)
    BY <1>5, <2>1 DEF Same
  <2>3. /\ e.toQic.readReady = FALSE /\ e.toQic.completionReady = FALSE
        /\ e.toQic.dma = None /\ e.toQic.write = None
        /\ e.toDevice.reset = FALSE /\ e.toDevice.cancel = FALSE /\ e.toDevice.mmio = None
        /\ e.toDevice.read = None /\ e.toDevice.completion = None
        /\ e.toDevice.responseReady = FALSE /\ e.toDevice.dmaReady = FALSE
        /\ e.toDevice.writeReady = FALSE
    BY <2>1 DEF Begun, L!NoQic
  <2>4. Carried(e, a, b, Signals, Device)
    BY <2>2, <2>3 DEF Carried
  <2>5. Slotted(e, c, Signals, Device) /\ Slotted(c, Moves, Signals, Device)
    BY <1>3 DEF Ongoing, Slots
  <2>6. QED
    BY <2>4, <2>5, CarriedSlot
<1>9. ToQicIs(b, link, Signals, Device)
  BY <1>1, <1>7, PendingBackIs
<1>10. Clocked(a, b)
  BY <1>3, <1>8, <1>9 DEF Ongoing, Clocked
<1>11. InService(a, b)
  BY <1>2, <1>6, <1>10 DEF InService
<1>12. Ongoing(a, b, e, c)
  BY <1>3, <1>10 DEF Ongoing
<1>13. Bus.reset = FALSE /\ Moves = L!Cycle(link, Bus.reset, Signals, Device)
  BY <1>1, BusIs DEF Bus, Moves, ShapeInv
<1>14. Step(Bus)
  BY DEF CardClock, Bus
<1>15. ToChip.reset = FALSE
  BY <1>8 DEF Carried, ToChip
<1>16. /\ \E signals : qdx' = Advance(qdx, ToChip, signals)
       /\ \E data : peer' \in P!Clock(peer, Pins, data)
  BY <1>13, <1>14 DEF Step, Signals, Device, Pins, ToChip
<1>17. ToChip.mmio # None => Legal(ToChip.mmio)
  <2>1. Signals.mmio # None => Legal(Signals.mmio)
    BY <1>1 DEF Signals, Q!ToDevice, AccessesLegal
  <2>2. LegalClock(Moves)
    BY <1>1, <2>1, LegalCycle DEF Moves, AccessesLegal
  <2>3. QED
    BY <2>2 DEF LegalClock, ToChip
<1>18. Timed(a, b, e, c)
  BY <1>5, <1>11, <1>12, <1>15, <1>16, <1>17 DEF Timed
<1>19. QED
  BY <1>4, <1>18

\* What it is a clock of.
LEMMA TimedHas ==
  ASSUME Known, NEW a, NEW b, NEW e, NEW c, Timed(a, b, e, c)
  PROVE  /\ RoomInv /\ WholeInv /\ SameTransaction /\ AnswersInv /\ OneNotification
         /\ Clocked(a, b) /\ Ongoing(a, b, e, c) /\ InService(a, b) /\ Running(a, b, e, c)
         /\ ChipRoom(qdx) /\ Based(qdx) /\ QicShape(qic) /\ PeerShape(peer) /\ LinkShape(link)
         /\ BurstShape(Held(qic)) /\ BusShape(Bus) /\ ~Bus.reset
         /\ qic' = Q!Clock(qic, Bus, ToCard) /\ QicShape(qic')
         /\ link' = Moves.link /\ link'.last \in Directions
         /\ a = e.link.q2d /\ b = e.link.d2q
         /\ Same(link'.q2d, a) /\ Same(link'.d2q, b)
         /\ link.q2d # None => a = link.q2d
         /\ link.d2q # None => b = link.d2q
         /\ SignalsFit(qic, Bus, Device, Signals)
<1>1. RoomInv /\ WholeInv /\ SameTransaction /\ AnswersInv /\ OneNotification /\ ShapeInv
  BY DEF Known, RoomInv
<1>2. Ongoing(a, b, e, c) /\ InService(a, b) /\ Clocked(a, b) /\ Running(a, b, e, c)
  BY DEF Timed, Ongoing, InService, Running
<1>3. /\ ChipRoom(qdx) /\ Based(qdx) /\ BurstShape(Held(qic))
  BY <1>1, RoomIs DEF WholeInv, BurstsShaped, Based
<1>4. /\ link' = Moves.link /\ link'.last \in Directions
      /\ Carried(Moves, a, b, Signals, Device)
      /\ link.q2d # None => a = link.q2d
      /\ link.d2q # None => b = link.d2q
      /\ SignalsFit(qic, Bus, Device, Signals)
  BY <1>2 DEF Clocked, ToDeviceIs, ToQicIs, Directions
<1>5. Same(link'.q2d, a) /\ Same(link'.d2q, b)
  BY <1>4 DEF Carried
<1>6. QED
  BY <1>1, <1>2, <1>3, <1>4, <1>5 DEF ShapeInv, Ongoing, Timed

-----------------------------------------------------------------------------
(* What is on the link of a card that is in time.                                             *)

OnTime == Known /\ Serving /\ AccessInTime /\ BurstInTime

\* Between register accesses the QIC holds what it does.
LEMMA HeldFree ==
  ASSUME NEW q, QicShape(q)
  PROVE  /\ q.state.at \notin Q!WorkerStates => Held(q) = q.state /\ q.suspended = None /\ q.tail = None
         /\ q.state.at \in Q!WorkerStates /\ InBurst(Held(q)) /\ ~ForBus(Held(q)) =>
              q.tail = Held(q) /\ Q!LocalTail(q.tail)
<1>1. CASE q.state.at \notin Q!WorkerStates
  BY <1>1 DEF QicShape, Held
<1>2. CASE q.state.at \in Q!WorkerStates /\ InBurst(Held(q)) /\ ~ForBus(Held(q))
  <2>1. ~InBurst(q.state) \/ Held(q) # q.state
    BY <1>2 DEF InBurst, ForBus, Q!WorkerStates
  <2>2. ASSUME NEW k
        PROVE  Q!RequestBus(k).at = "RequestBus"
    BY DEF Q!RequestBus
  <2>3. q.tail # None
    BY <1>2, <2>1, <2>2 DEF Held, InBurst, ForBus
  <2>4. QED
    BY <1>2, <2>3 DEF Held, QicShape
<1>3. QED
  BY <1>1, <1>2

\* A chip that neither answers, nor asks, nor sends, nor notifies has nothing on the link.
LEMMA Alone ==
  ASSUME OnTime, NEW a, NEW b, NEW e, NEW c, Timed(a, b, e, c), qic.state.at # "WorkerResponse",
         qdx.state \notin Requesting \cup {"CqSend"},
         qdx.state # "Notify" \/ Done(link, Signals)
  PROVE  b = None
<1>1. /\ Begun(link, e, Signals, Device) /\ b = e.link.d2q /\ LinkShape(link) /\ ChipRoom(qdx)
      /\ OneNotification
  BY TimedHas DEF OnTime, Ongoing, Slots
<1>2. qdx.response = None
  BY DEF OnTime, AccessInTime
<1>3. Device.response = None /\ Device.write = None
  BY <1>2 DEF Device, QicPort
<1>4. Device.dma = None
  BY <1>1, WantedIs DEF Device, QicPort, ChipRoom
<1>5. Device.notification = IF qdx.state = "Notify" THEN 0 ELSE None
  BY DEF Device, QicPort
<1>6. link.d2q = None
  <2>1. ~OnLink(link.d2q, "MmioResponse") /\ ~OnLink(link.d2q, "DmaRequest") /\ ~OnLink(link.d2q, "DmaWrite")
    BY DEF OnTime, AccessInTime, Serving
  <2>2. ~OnLink(link.d2q, "NotificationRequest")
    BY <1>1 DEF OneNotification, LinkNotifies, OnLink, Done
  <2>3. QED
    BY <1>1, <2>1, <2>2 DEF OnLink, LinkShape, MessageShape, ToQicTags
<1>7. PICK n : n = L!Notified(link, Signals)
  OBVIOUS
<1>8. e.link.d2q = L!ToQicMessage(n, Signals, Device)
  BY <1>1, <1>6, <1>7 DEF Begun
<1>9. n.done = IF Done(link, Signals) THEN link.held ELSE link.done
  BY <1>1, <1>7, NotifiedIs
<1>10. n.held = None /\ n.done = None => Device.notification = None
  BY <1>5, <1>9 DEF Done
<1>11. QED
  BY <1>1, <1>3, <1>4, <1>8, <1>10 DEF L!ToQicMessage

\* A word on the link to the chip, and one from it, each with its burst.
LEMMA WordOf ==
  ASSUME OnTime, NEW a, NEW b, NEW e, NEW c, Timed(a, b, e, c)
  PROVE  /\ OnLink(a, "DmaRead") =>
              LET s == qic.state IN
              /\ Held(qic) = s /\ s.at = "DmaData" /\ s.request.direction = "HostToDevice"
              /\ s.buffer # None /\ a.body = s.buffer /\ qdx.state = "SqReceive"
              /\ link.q2d # None => HalfOnLink(s, link.q2d, "QicToDevice")
         /\ OnLink(b, "DmaWrite") =>
              LET s == qic.state IN
              /\ Held(qic) = s /\ s.at = "DmaData" /\ s.request.direction = "DeviceToHost"
              /\ s.buffer = None /\ qdx.state = "CqSend"
              /\ link.d2q # None => HalfOnLink(s, link.d2q, "DeviceToQic")
<1>1. /\ QicShape(qic) /\ BurstShape(Held(qic)) /\ Clocked(a, b) /\ SignalsFit(qic, Bus, Device, Signals)
      /\ RoomInv /\ WholeInv /\ Ongoing(a, b, e, c) /\ Known
      /\ link.q2d # None => a = link.q2d
      /\ link.d2q # None => b = link.d2q
  BY TimedHas DEF OnTime
<1>2. PICK s : s = Held(qic)
  OBVIOUS
<1>3. s.at \in {"DmaData", "DmaComplete"} /\ ~Q!LocalTail(s) => qic.state = s
  BY <1>1, <1>2, HeldFree DEF InBurst, ForBus
<1>4. s.at = "DmaComplete" => qdx.state \in Completing
  BY <1>2 DEF OnTime, BurstInTime
<1>5. ASSUME OnLink(a, "DmaRead")
      PROVE  /\ s = qic.state /\ s.at = "DmaData" /\ s.request.direction = "HostToDevice"
             /\ s.buffer # None /\ a.body = s.buffer /\ qdx.state = "SqReceive"
             /\ link.q2d # None => HalfOnLink(s, link.q2d, "QicToDevice")
  <2>1. CASE link.q2d # None
    <3>1. WordOnTheLink /\ a = link.q2d
      BY <1>1, <1>5, <2>1 DEF WordOnTheLink, OnLink
    <3>2. qdx.state = "SqReceive" /\ qic.tail = None
      BY <3>1 DEF OnTime, Serving
    <3>3. s.at # "DmaComplete"
      BY <1>4, <3>2 DEF Completing
    <3>4. s.at = "DmaData" /\ s.request.direction = "HostToDevice" /\ s.buffer # None /\ s.buffer = a.body
      BY <1>1, <1>2, <3>1, <3>3 DEF WholeInv, WordsOnLink
    <3>5. s = qic.state
      BY <1>1, <1>2, <3>2, <3>4, HeldFree, NoneIsNoValue DEF InBurst, ForBus, Q!LocalTail, Held, Q!RequestBus
    <3>6. ~ForHost(s)
      <4>1. s.request.direction = "HostToDevice" /\ s.buffer # None
        BY <3>4
      <4>2. QED
        BY <4>1 DEF ForHost
    <3>7. HalfOnLink(s, link.q2d, "QicToDevice")
      BY <1>2, <3>1, <3>4, <3>6 DEF OnTime, BurstInTime
    <3>8. QED
      BY <3>2, <3>4, <3>5, <3>7
  <2>2. CASE link.q2d = None
    <3>1. Signals.read # None /\ a.body = Signals.read
      BY <1>1, <1>5, <2>2 DEF Clocked, ToDeviceIs, OnLink
    <3>2. s = qic.state /\ s.at = "DmaData" /\ s.request.direction = "HostToDevice" /\ Signals.read = s.buffer
      BY <1>1, <1>2, <3>1 DEF SignalsFit
    <3>3. RequestOf(s).direction = "HostToDevice" /\ InBurst(s) /\ s.at # "DmaComplete"
      BY <3>2 DEF RequestOf, InBurst
    <3>4. qdx.state = "SqReceive"
      BY <1>1, <1>2, <3>3, BurstIs DEF OnTime
    <3>5. QED
      BY <2>2, <3>1, <3>2, <3>4
  <2>3. QED
    BY <2>1, <2>2
<1>6. ASSUME OnLink(b, "DmaWrite")
      PROVE  /\ s = qic.state /\ s.at = "DmaData" /\ s.request.direction = "DeviceToHost"
             /\ s.buffer = None /\ qdx.state = "CqSend"
             /\ link.d2q # None => HalfOnLink(s, link.d2q, "DeviceToQic")
  <2>1. qdx.state = "CqSend" /\ (s.at = "DmaComplete" \/ (s.at = "DmaData" /\ s.request.direction = "DeviceToHost"))
    BY <1>1, <1>2, <1>6, SentBy
  <2>2. s.at = "DmaData" /\ s.request.direction = "DeviceToHost"
    BY <1>4, <2>1 DEF Completing
  <2>3. s = qic.state
    BY <1>3, <2>2 DEF Q!LocalTail, Q!FinalReadBuffer
  <2>4. CASE link.d2q # None
    <3>1. OnLink(link.d2q, "DmaWrite") /\ ~WordOnTheLink
      BY <1>1, <1>6, <2>1, <2>4 DEF OnTime, Serving
    <3>2. ~ForHost(s)
      BY <1>2, <2>2, <3>1 DEF OnTime, BurstInTime
    <3>3. s.buffer = None
      BY <2>2, <3>2 DEF ForHost
    <3>4. HalfOnLink(s, link.d2q, "DeviceToQic")
      BY <1>2, <2>2, <3>1, <3>2 DEF OnTime, BurstInTime
    <3>5. QED
      BY <2>1, <2>2, <2>3, <3>3, <3>4
  <2>5. CASE link.d2q = None
    <3>1. Signals.writeReady
      BY <1>1, <1>6, <2>5 DEF Clocked, ToQicIs, OnLink
    <3>2. QED
      BY <1>1, <1>2, <2>1, <2>2, <2>3, <2>5, <3>1 DEF SignalsFit
  <2>6. QED
    BY <2>4, <2>5
<1>7. QED
  BY <1>2, <1>5, <1>6

\* No access of such a card is given up.
LEMMA NotGivenUp ==
  ASSUME LimitSuffices, OnTime, NEW a, NEW b, NEW e, NEW c, Timed(a, b, e, c)
  PROVE  LET s == qic.state IN
         /\ s.at = "WorkerOffer" => s.wait \in 0..3 /\ ~Q!TimedOut(s.wait)
         /\ s.at = "WorkerResponse" => s.wait \in 0..6 /\ ~Q!TimedOut(s.wait)
<1>1. PICK s : s = qic.state
  OBVIOUS
<1>2. Timeout \in Nat /\ Timeout >= 8
  BY TimeoutAssumption DEF LimitSuffices
<1>3. CASE s.at = "WorkerOffer"
  <2>1. s.wait \in Nat
    BY <1>1, <1>3 DEF OnTime, Known, OfferedAtOnce
  <2>2. CASE link.q2d = None
    BY <1>1, <1>2, <1>3, <2>2 DEF OnTime, AccessInTime, Q!TimedOut
  <2>3. CASE link.q2d # None
    <3>1. a = link.q2d
      BY <2>3, TimedHas DEF OnTime
    <3>2. ~OnLink(a, "DmaRead")
      BY <1>1, <1>3, WordOf
    <3>3. OnLink(link.q2d, "MmioRequest")
      BY <2>3, <3>1, <3>2 DEF OnTime, AccessInTime, OnLink
    <3>4. 2 * s.wait + Ahead(link) <= 8
      BY <1>1, <3>3 DEF OnTime, AccessInTime
    <3>5. link.q2d.left \in 1..4 /\ (link.d2q # None => link.d2q.left \in 1..3)
      BY <3>3 DEF OnTime, Known, RequestReaches, SendersWait
    <3>6. Ahead(link) \in Nat /\ Ahead(link) >= 1
      BY <3>5 DEF Ahead
    <3>7. QED
      BY <1>1, <1>2, <1>3, <2>1, <3>4, <3>6 DEF Q!TimedOut
  <2>4. QED
    BY <2>2, <2>3
<1>4. CASE s.at = "WorkerResponse"
  <2>1. s.wait \in Nat /\ 2 * s.wait + Behind(link) <= 14
    BY <1>1, <1>4 DEF OnTime, AccessInTime
  <2>2. link.d2q # None => link.d2q.left \in 1..3
    BY DEF OnTime, Known, SendersWait
  <2>3. Behind(link) \in Nat /\ Behind(link) >= 1
    BY <2>2 DEF Behind
  <2>4. QED
    BY <1>1, <1>2, <1>4, <2>1, <2>3 DEF Q!TimedOut
<1>5. QED
  BY <1>1, <1>3, <1>4

\* There is an access offered, or a message alone, or nothing, on its way to the chip.
OnItsWay(a, b, e) ==
  \/ OnLink(a, "MmioRequest") /\ qic.state.at = "WorkerOffer"
  \/ /\ a \in Forth /\ a.left \in 1..2 /\ (a.left = 2 => a.tag = "DmaRead" /\ link.q2d = None)
     /\ b = None /\ L!DeviceTakes(a.tag, Device) /\ qic.state.at \notin Q!WorkerStates
     /\ a.tag = "NotificationCompletion" => e.link.done = a.body
     /\ Done(link, Signals) => a.tag = "NotificationCompletion"
  \/ a = None /\ ~Done(link, Signals)

LEMMA DoneIs ==
  ASSUME OnTime, NEW a, NEW b, NEW e, NEW c, Timed(a, b, e, c), Done(link, Signals)
  PROVE  qic.state.at = "NotificationData" /\ qdx.state = "Notify" /\ link.held = 0
         /\ e.link.done = 0
<1>1. AfterClock(qic, qic', Signals) /\ Begun(link, e, Signals, Device) /\ OneNotification
  BY TimedHas DEF OnTime, Clocked, Ongoing, Slots
<1>2. QED
  BY <1>1 DEF Done, AfterClock, OneNotification, LinkNotifies, Begun

LEMMA OldOnItsWay ==
  ASSUME LimitSuffices, OnTime, NEW a, NEW b, NEW e, NEW c, Timed(a, b, e, c), link.q2d # None
  PROVE  OnItsWay(a, b, e)
<1>1. a = link.q2d /\ LinkShape(link)
  BY TimedHas DEF OnTime
<1>2. a.tag \in {"MmioRequest", "DmaRead"}
  BY <1>1 DEF OnTime, AccessInTime
<1>3. CASE a.tag = "MmioRequest"
  BY <1>1, <1>3 DEF OnTime, AccessInTime, OnLink, OnItsWay
<1>4. CASE a.tag = "DmaRead"
  <2>1. OnLink(a, "DmaRead")
    BY <1>1, <1>4 DEF OnLink
  <2>2. /\ qic.state.at = "DmaData" /\ qic.state.buffer # None /\ a.body = qic.state.buffer
        /\ qdx.state = "SqReceive" /\ a.left = 1 /\ Held(qic) = qic.state
    BY <1>1, <2>1, WordOf DEF HalfOnLink
  <2>3. a.body \in Handles
    BY <2>2, TimedHas, StageHas DEF OnTime
  <2>4. a \in Forth
    BY <1>1, <1>4, <2>2, <2>3 DEF LinkShape, MessageShape, L!Message, Forth, MessagesOf
  <2>5. b = None
    BY <2>2, Alone DEF Requesting
  <2>6. L!DeviceTakes(a.tag, Device)
    BY <1>4, <2>2 DEF L!DeviceTakes, Device, QicPort
  <2>7. ~Done(link, Signals)
    BY <2>2, DoneIs
  <2>8. QED
    BY <1>4, <2>2, <2>4, <2>5, <2>6, <2>7 DEF OnItsWay, Q!WorkerStates
<1>5. QED
  BY <1>2, <1>3, <1>4

LEMMA NewOnItsWay ==
  ASSUME LimitSuffices, OnTime, NEW a, NEW b, NEW e, NEW c, Timed(a, b, e, c), link.q2d = None
  PROVE  OnItsWay(a, b, e)
<1>1. /\ Begun(link, e, Signals, Device) /\ a = e.link.q2d /\ LinkShape(link)
      /\ SignalsFit(qic, Bus, Device, Signals) /\ BurstShape(Held(qic)) /\ QicShape(qic)
  BY TimedHas DEF OnTime, Ongoing, Slots
<1>2. PICK n : n = L!Notified(link, Signals)
  OBVIOUS
<1>3. a = L!ToDeviceMessage(n, Signals)
  BY <1>1, <1>2 DEF Begun
<1>4. n.done = (IF Done(link, Signals) THEN link.held ELSE None) /\ e.link.done = n.done
  BY <1>1, <1>2, NotifiedIs DEF OnTime, AccessInTime, Begun
<1>5. ~Signals.cancel
  BY <1>1, NotGivenUp DEF SignalsFit
<1>6. Done(link, Signals) => /\ Signals.mmio = None /\ Signals.read = None /\ Signals.completion = None
                             /\ link.held = 0
  BY <1>1, DoneIs DEF SignalsFit
<1>7. CASE Signals.mmio # None
  <2>1. qic.state.at = "WorkerOffer"
    BY <1>1, <1>7 DEF SignalsFit
  <2>2. a # None
    BY <1>1, <2>1, NotGivenUp, OfferBegins, TimedHas DEF OnTime
  <2>3. a.tag = "MmioRequest"
    BY <1>3, <1>5, <1>7 DEF L!ToDeviceMessage, L!Message
  <2>4. QED
    BY <2>1, <2>2, <2>3 DEF OnItsWay, OnLink
<1>8. CASE Signals.mmio = None /\ Signals.read # None
  <2>1. a = L!Message("DmaRead", Signals.read, 2)
    BY <1>3, <1>5, <1>8 DEF L!ToDeviceMessage, L!WordTokens
  <2>2. qic.state.at = "DmaData" /\ Signals.read = qic.state.buffer /\ Held(qic) = qic.state
        /\ qic.state.request.direction = "HostToDevice"
    BY <1>1, <1>8 DEF SignalsFit
  <2>3. Signals.read \in Handles
    BY <1>1, <1>8, <2>2, StageHas
  <2>4. a \in Forth
    BY <2>1, <2>3 DEF L!Message, Forth, MessagesOf
  <2>5. OnLink(a, "DmaRead")
    BY <2>1, <2>4, ForthMessage DEF L!Message, OnLink
  <2>6. qdx.state = "SqReceive"
    BY <2>5, WordOf
  <2>7. b = None
    BY <2>2, <2>6, Alone DEF Requesting
  <2>8. L!DeviceTakes(a.tag, Device)
    BY <2>1, <2>6 DEF L!DeviceTakes, Device, QicPort, L!Message
  <2>9. QED
    BY <1>6, <1>8, <2>1, <2>2, <2>4, <2>7, <2>8 DEF OnItsWay, Q!WorkerStates, L!Message
<1>9. CASE Signals.mmio = None /\ Signals.read = None /\ Signals.completion # None
  <2>1. a = L!Message("DmaCompletion", Signals.completion, 1)
    BY <1>3, <1>5, <1>9 DEF L!ToDeviceMessage
  <2>2. qic.state.at = "DmaComplete" /\ Signals.completion = qic.state /\ Held(qic) = qic.state
    BY <1>1, <1>9 DEF SignalsFit
  <2>3. Signals.completion \in Stages
    BY <1>1, <2>2 DEF BurstShape
  <2>4. a \in Forth
    BY <2>1, <2>3 DEF L!Message, Forth, MessagesOf
  <2>5. qdx.state \in Completing
    BY <2>2 DEF OnTime, BurstInTime
  <2>6. b = None
    BY <2>2, <2>5, Alone DEF Completing, Requesting
  <2>7. L!DeviceTakes(a.tag, Device)
    BY <2>1, <2>5 DEF L!DeviceTakes, Device, QicPort, L!Message, Completing
  <2>8. QED
    BY <1>6, <1>9, <2>1, <2>2, <2>4, <2>6, <2>7 DEF OnItsWay, Q!WorkerStates, L!Message
<1>10. CASE Signals.mmio = None /\ Signals.read = None /\ Signals.completion = None /\ Done(link, Signals)
  <2>1. qic.state.at = "NotificationData" /\ qdx.state = "Notify" /\ n.done = 0 /\ e.link.done = 0
    BY <1>4, <1>10, DoneIs
  <2>2. a = L!Message("NotificationCompletion", 0, 1)
    BY <1>3, <1>5, <1>10, <2>1, ZeroIsValue DEF L!ToDeviceMessage
  <2>3. a \in Forth
    BY <2>2 DEF L!Message, Forth, MessagesOf
  <2>4. b = None
    BY <1>10, <2>1, Alone DEF Requesting
  <2>5. L!DeviceTakes(a.tag, Device)
    BY <2>2 DEF L!DeviceTakes, L!Message
  <2>6. QED
    BY <2>1, <2>2, <2>3, <2>4, <2>5 DEF OnItsWay, Q!WorkerStates, L!Message
<1>11. CASE /\ Signals.mmio = None /\ Signals.read = None /\ Signals.completion = None
            /\ ~Done(link, Signals)
  BY <1>3, <1>4, <1>5, <1>11 DEF L!ToDeviceMessage, OnItsWay
<1>12. QED
  BY <1>7, <1>8, <1>9, <1>10, <1>11

LEMMA OnItsWayIs ==
  ASSUME LimitSuffices, OnTime, NEW a, NEW b, NEW e, NEW c, Timed(a, b, e, c)
  PROVE  OnItsWay(a, b, e)
  BY OldOnItsWay, NewOnItsWay

\* A message alone is delivered, or one half of a word that has just been begun.
LEMMA ForthIs ==
  ASSUME LimitSuffices, OnTime, NEW a, NEW b, NEW e, NEW c, Timed(a, b, e, c), a \in Forth
  PROVE  /\ qic.state.at \notin Q!WorkerStates
         /\ \/ Got(a, Moves) /\ link'.done = None
            \/ /\ a.tag = "DmaRead" /\ link.q2d = None /\ link'.done = None
               /\ link'.q2d # None /\ link'.q2d.tag = "DmaRead" /\ link'.q2d.left = 1
               /\ link'.last = "QicToDevice"
<1>1. /\ a \in Forth /\ a.left \in 1..2 /\ (a.left = 2 => a.tag = "DmaRead" /\ link.q2d = None)
      /\ b = None /\ L!DeviceTakes(a.tag, Device) /\ qic.state.at \notin Q!WorkerStates
      /\ a.tag = "NotificationCompletion" => e.link.done = a.body
      /\ Done(link, Signals) => a.tag = "NotificationCompletion"
  <2>1. a # None /\ ~OnLink(a, "MmioRequest")
    BY ForthMessage DEF Forth, MessagesOf, OnLink
  <2>2. QED
    BY <2>1, OnItsWayIs DEF OnItsWay
<1>2. /\ a = e.link.q2d /\ b = e.link.d2q /\ link' = Moves.link /\ Slots(e, c)
      /\ e.link.last \in Directions
  <2>1. Known /\ Ongoing(a, b, e, c) /\ b = e.link.d2q /\ link' = Moves.link
    BY TimedHas DEF OnTime
  <2>2. e.link.last \in Directions
    BY <2>1, TypedBegun
  <2>3. a = e.link.q2d /\ Slots(e, c)
    BY <2>1 DEF Ongoing
  <2>4. QED
    BY <2>1, <2>2, <2>3
<1>3. Slotted(e, c, Signals, Device) /\ Slotted(c, Moves, Signals, Device) /\ Begun(link, e, Signals, Device)
  BY <1>2 DEF Slots
<1>4. a.tag # "NotificationCompletion" => e.link.done = None
  BY <1>1, <1>3 DEF Begun, OnTime, AccessInTime
<1>5. \/ Got(a, Moves) /\ link'.done = None
      \/ Got(a, Moves) /\ ~(a.tag = "NotificationCompletion" /\ e.link.done = a.body)
         /\ link'.done = e.link.done
      \/ /\ a.left = 2
         /\ link'.q2d.left = 1 /\ link'.last = "QicToDevice" /\ link'.q2d # None
         /\ link'.q2d.tag = a.tag /\ link'.done = e.link.done
  BY <1>1, <1>2, <1>3, ForthCycle
<1>6. QED
  BY <1>1, <1>4, <1>5

\* Nothing but a request and half a word stays on the link to the chip.
LEMMA LinkKept ==
  ASSUME LimitSuffices, OnTime, NEW a, NEW b, NEW e, NEW c, Timed(a, b, e, c)
  PROVE  link'.done = None /\ (link'.q2d # None => link'.q2d.tag \in {"MmioRequest", "DmaRead"})
<1>1. /\ Same(link'.q2d, a) /\ Slots(e, c) /\ link' = Moves.link
  BY TimedHas DEF OnTime, Ongoing
<1>2. CASE a \in Forth
  BY <1>1, <1>2, ForthIs DEF Got
<1>3. CASE a \notin Forth
  <2>1. ~Done(link, Signals) /\ (a = None \/ OnLink(a, "MmioRequest"))
    <3>1. OnLink(a, "MmioRequest") /\ qic.state.at = "WorkerOffer" => ~Done(link, Signals)
      BY DoneIs
    <3>2. QED
      BY <1>3, <3>1, OnItsWayIs DEF OnItsWay
  <2>2. e.link.done = None /\ Slotted(e, c, Signals, Device) /\ Slotted(c, Moves, Signals, Device)
    BY <1>1, <2>1 DEF Slots, Begun, OnTime, AccessInTime
  <2>3. ASSUME NEW x, NEW y, Slotted(x, y, Signals, Device), x.link.done = None
        PROVE  y.link.done = None
    BY <2>3 DEF Slotted, Quiet, DeviceGets, QicGets
  <2>4. link'.done = None
    BY <1>1, <2>2, <2>3
  <2>5. QED
    BY <1>1, <2>1, <2>4 DEF Same, OnLink
<1>4. QED
  BY <1>2, <1>3

-----------------------------------------------------------------------------
(* The access.                                                                                *)

\* An access that is not offered does not reach the chip.
LEMMA NotOffered ==
  ASSUME LimitSuffices, OnTime, NEW a, NEW b, NEW e, NEW c, Timed(a, b, e, c),
         qic.state.at # "WorkerOffer"
  PROVE  ToChip.mmio = None /\ ~ToCard.mmioReady /\ ~OnLink(a, "MmioRequest")
         /\ ~OnLink(link'.q2d, "MmioRequest")
<1>1. ToChip.mmio = None /\ ~ToCard.mmioReady
  BY AcceptedIs, TimedHas DEF OnTime
<1>2. ~OnLink(a, "MmioRequest")
  BY OnItsWayIs, ForthMessage DEF OnItsWay, Forth, MessagesOf, OnLink
<1>3. QED
  BY <1>1, <1>2, TimedHas DEF OnTime, Same, OnLink

Taken ==
  /\ link'.q2d = None /\ ToCard.mmioReady /\ ToChip.mmio # None
  /\ qic'.state.at = "WorkerResponse" /\ qic'.state.wait = qic.state.wait
Offered ==
  /\ ToChip.mmio = None /\ ~ToCard.mmioReady
  /\ OnLink(link'.q2d, "MmioRequest") /\ link'.q2d.body = qic'.state.op
  /\ qic'.state.at = "WorkerOffer" /\ qic'.state.wait = qic.state.wait + 1
  /\ 2 * qic'.state.wait + Ahead(link') <= 8

\* Before its request, nothing on the link is never taken.
LEMMA NotUnreached ==
  ASSUME LimitSuffices, OnTime, NEW a, NEW b, NEW e, NEW c, Timed(a, b, e, c),
         qic.state.at = "WorkerOffer"
  PROVE  ~Unreached(qdx, link', qic) /\ qdx.response = None
<1>1. qdx.response = None
  BY DEF OnTime, AccessInTime
<1>2. /\ Same(link'.d2q, b) /\ Clocked(a, b) /\ (link.d2q # None => b = link.d2q)
      /\ Known /\ Ongoing(a, b, e, c)
  BY TimedHas DEF OnTime
<1>3. ~OnLink(b, "MmioResponse")
  <2>1. Device.response = None
    BY <1>1 DEF Device, QicPort
  <2>2. ~OnLink(link.d2q, "MmioResponse")
    BY DEF OnTime, AccessInTime
  <2>3. QED
    BY <1>2, <2>1, <2>2 DEF Clocked, ToQicIs, OnLink
<1>4. ~OnLink(b, "DmaWrite")
  BY WordOf
<1>5. ~OnLink(link'.d2q, "MmioResponse") /\ ~OnLink(link'.d2q, "DmaWrite")
  BY <1>2, <1>3, <1>4 DEF Same, OnLink
<1>6. QED
  BY <1>1, <1>5 DEF Unreached

LEMMA OfferGoes ==
  ASSUME LimitSuffices, OnTime, NEW a, NEW b, NEW e, NEW c, Timed(a, b, e, c),
         qic.state.at = "WorkerOffer"
  PROVE  Taken \/ Offered
<1>1. /\ QicShape(qic) /\ BusShape(Bus) /\ ~Bus.reset /\ qic' = Q!Clock(qic, Bus, ToCard)
      /\ Known /\ Ongoing(a, b, e, c) /\ Clocked(a, b) /\ Slots(e, c) /\ a = e.link.q2d
      /\ link' = Moves.link /\ ToCard.mmioReady = Moves.toQic.mmioReady
  BY TimedHas DEF OnTime, Ongoing
<1>2. qic.state.wait \in 0..3 /\ ~Q!TimedOut(qic.state.wait)
  BY NotGivenUp
<1>3. OnLink(a, "MmioRequest")
  <2>1. a # None
    BY <1>1, <1>2, OfferBegins
  <2>2. QED
    BY <2>1, OnItsWayIs DEF OnItsWay, Q!WorkerStates
<1>4. Requested(e.link) /\ NoAccess(e) /\ e.link.last \in Directions /\ TypedBack(e.link)
      /\ e.link.last = link.last
  BY <1>1, <1>3, BegunRequest, TypedBegun
<1>5. \/ link'.q2d = None /\ Moves.toQic.mmioReady = TRUE
      \/ Requested(link') /\ NoAccess(Moves)
  <2>1. BackShort(e.link)
    BY <1>4 DEF TypedBack, BackShort
  <2>2. QED
    BY <1>1, <1>4, <2>1, ReachCycle DEF Slots
<1>6. LET s == qic.state
          n == qic'.state IN
      /\ ToCard.mmioReady => n.at = "WorkerResponse" /\ n.wait = s.wait
      /\ ~ToCard.mmioReady => n.at = "WorkerOffer" /\ n.op = s.op /\ n.wait = s.wait + 1
  BY <1>1, <1>2, WaitsIs
<1>7. CASE link'.q2d = None /\ Moves.toQic.mmioReady = TRUE
  <2>1. ToCard.mmioReady = TRUE
    BY <1>1, <1>7
  <2>2. ToChip.mmio = qic.state.op
    BY <1>1, <2>1, AcceptedIs
  <2>3. qic.state.op # None
    <3>1. peer.state.at = "WorkerData"
      BY <1>1, AccessAt DEF Q!WorkerStates
    <3>2. qic.state.op \in Accesses
      BY <1>1, <3>1 DEF Known, AccessShared, AccessUnderWay
    <3>3. QED
      BY <3>2, NoneIsNoValue
  <2>4. QED
    BY <1>6, <1>7, <2>1, <2>2, <2>3 DEF Taken
<1>8. CASE Requested(link') /\ NoAccess(Moves)
  <2>1. ToChip.mmio = None /\ ~ToCard.mmioReady
    BY <1>1, <1>8 DEF NoAccess, ToChip
  <2>2. OnLink(link'.q2d, "MmioRequest") /\ link'.q2d # None
    BY <1>8 DEF Requested, OnLink
  <2>3. Delayed(e.link)
    BY <1>1, <2>2, RequestCycle DEF NoRequest, Delivered
  <2>4. /\ link'.q2d.body = e.link.q2d.body /\ Reaching(e.link)
        /\ Ahead(e.link) \in Int /\ Ahead(link') \in Int /\ Ahead(link') <= Ahead(e.link) - 2
    BY <2>3, NotUnreached DEF Delayed
  <2>5. 2 * qic.state.wait + Ahead(e.link) <= 8
    <3>1. CASE link.q2d # None
      <4>1. a = link.q2d
        BY <3>1, TimedHas DEF OnTime
      <4>2. 2 * qic.state.wait + Ahead(link) <= 8
        BY <1>3, <4>1 DEF OnTime, AccessInTime
      <4>3. link.last = "DeviceToQic" => e.link.d2q = link.d2q
        <5>1. CASE link.d2q = None
          BY <1>1, <5>1, NotUnreached, NothingBegun
        <5>2. CASE link.d2q # None
          BY <1>1, <5>2 DEF Slots, Begun
        <5>3. QED
          BY <5>1, <5>2
      <4>4. Ahead(e.link) = Ahead(link)
        BY <1>1, <1>4, <4>1, <4>3 DEF Ahead
      <4>5. QED
        BY <4>2, <4>4
    <3>2. CASE link.q2d = None
      <4>1. qic.state.wait = 0
        BY <3>2 DEF OnTime, AccessInTime
      <4>2. e.link.q2d.left \in 1..4 /\ (e.link.d2q # None => e.link.d2q.left \in 1..3)
        BY <1>4 DEF Requested, TypedBack
      <4>3. Ahead(e.link) <= 8
        BY <4>2 DEF Ahead
      <4>4. QED
        BY <2>4, <4>1, <4>3
    <3>3. QED
      BY <3>1, <3>2
  <2>6. 2 * qic'.state.wait + Ahead(link') <= 8
    BY <1>2, <1>6, <2>1, <2>4, <2>5
  <2>7. QED
    BY <1>6, <2>1, <2>2, <2>4, <2>6 DEF Offered, Reaching
<1>9. QED
  BY <1>5, <1>7, <1>8

\* What the chip makes of its answer in a clock in which it gets no access.
LEMMA ResponseKept ==
  ASSUME LimitSuffices, OnTime, NEW a, NEW b, NEW e, NEW c, Timed(a, b, e, c), ToChip.mmio = None
  PROVE  qdx'.response = IF qdx.response # None /\ ToChip.responseReady THEN None ELSE qdx.response
<1>1. /\ StateAccess(qdx, ToChip, qdx') \/ EngineClock(qdx, ToChip, Drive, qdx')
      /\ Carried(Moves, a, b, Signals, Device)
  BY TimedHas DEF OnTime, Clocked
<1>2. ~ToChip.cancel
  <2>1. ~OnLink(a, "MmioCancel")
    BY OnItsWayIs, ForthMessage DEF OnItsWay, Forth, MessagesOf, OnLink
  <2>2. QED
    BY <1>1, <2>1 DEF Carried, ToChip
<1>3. QED
  BY <1>1, <1>2 DEF StateAccess, EngineClock

\* While the QIC waits, the answer is given it, or it goes on waiting.
LEMMA AnswerGoes ==
  ASSUME LimitSuffices, OnTime, NEW a, NEW b, NEW e, NEW c, Timed(a, b, e, c),
         qic.state.at = "WorkerResponse"
  PROVE  \/ /\ Moves.toDevice.responseReady /\ link'.d2q = None
            /\ qdx'.response = None /\ qic'.state.at \notin Q!WorkerStates
         \/ /\ ~Moves.toDevice.responseReady /\ qdx'.response = qdx.response
            /\ qic'.state.at = "WorkerResponse" /\ qic'.state.wait = qic.state.wait + 1
<1>1. /\ QicShape(qic) /\ PeerShape(peer) /\ BusShape(Bus) /\ ~Bus.reset
      /\ qic' = Q!Clock(qic, Bus, ToCard)
      /\ Known /\ Ongoing(a, b, e, c) /\ Slots(e, c) /\ link' = Moves.link
  BY TimedHas DEF OnTime, Ongoing
<1>2. /\ Begun(link, e, Signals, Device) /\ Slotted(e, c, Signals, Device)
      /\ Slotted(c, Moves, Signals, Device)
  BY <1>1 DEF Slots
<1>3. /\ e.link.last \in Directions /\ TypedBack(e.link) /\ e.toDevice.responseReady = FALSE
      /\ TypedBack(c.link) /\ c.link.last \in Directions
  BY <1>1, TypedBegun, BackKept
<1>4. Answering(e) /\ e.toDevice.responseReady \in BOOLEAN
  BY <1>2, <1>3 DEF Answering, Begun
<1>5. Answering(c) /\ c.toDevice.responseReady \in BOOLEAN
  BY <1>2, <1>3, <1>4, AnsweringSlot
<1>6. Answering(Moves) /\ Moves.toDevice.responseReady \in BOOLEAN
  BY <1>2, <1>3, <1>5, AnsweringSlot
<1>7. qdx'.response = IF qdx.response # None /\ ToChip.responseReady THEN None ELSE qdx.response
  BY NotOffered, ResponseKept
<1>8. ToCard.response = IF Moves.toQic.response = None THEN None ELSE Moves.toQic.response.kind
  <2>1. PICK v : v = Moves.toQic
    OBVIOUS
  <2>2. QicSide(v)
    <3>1. LinkShape(link)
      BY DEF OnTime, Known, RoomInv, ShapeInv
    <3>2. PICK x, y : ClockShape(Moves) /\ x = y
      BY <3>1, CycleIs DEF Moves
    <3>3. QED
      BY <2>1, <3>2 DEF ClockShape
  <2>3. QED
    BY <2>1, <2>2 DEF ToCard, ToQic, QicSide
<1>9. Bus.dataStrobe
  <2>1. peer.state.at = "WorkerData"
    BY <1>1, AccessAt DEF Q!WorkerStates
  <2>2. QED
    BY <1>1, <2>1, BusIs DEF Bus
<1>10. ~Q!TimedOut(qic.state.wait)
  BY NotGivenUp
<1>11. CASE Moves.toDevice.responseReady
  <2>1. Moves.toQic.response \in Answers /\ link'.d2q = None
    BY <1>1, <1>6, <1>11 DEF Answering
  <2>2. Moves.toQic.response # None /\ Moves.toQic.response.kind \in {"ReadOk", "WriteOk", "Error"}
    BY <2>1, NoneIsNoValue DEF Answers, ReadsOf, WriteOk, Refused
  <2>3. ToCard.response # None
    BY <1>8, <2>2, NoneIsNoValue
  <2>4. qic'.state.at \notin Q!WorkerStates
    BY <1>1, <1>9, <1>10, <2>3, WaitsIs
  <2>5. QED
    BY <1>7, <1>11, <2>1, <2>4 DEF ToChip
<1>12. CASE ~Moves.toDevice.responseReady
  <2>1. ToCard.response = None
    BY <1>6, <1>8, <1>12 DEF Answering
  <2>2. qic'.state.at = "WorkerResponse" /\ qic'.state.wait = qic.state.wait + 1
    BY <1>1, <1>10, <2>1, WaitsIs
  <2>3. QED
    BY <1>7, <1>12, <2>2 DEF ToChip
<1>13. QED
  BY <1>11, <1>12

\* The QIC takes what comes before the answer.
LEMMA TakesBefore ==
  ASSUME LimitSuffices, OnTime, NEW a, NEW b, NEW e, NEW c, Timed(a, b, e, c),
         qic.state.at = "WorkerResponse"
  PROVE  e.link.q2d = None /\ e.link.d2q # None /\ L!QicTakes(e.link.d2q.tag, Signals)
<1>1. /\ QicShape(qic) /\ PeerShape(peer) /\ ChipShape(qdx) /\ LinkShape(link)
      /\ Known /\ Ongoing(a, b, e, c) /\ Begun(link, e, Signals, Device)
      /\ a = e.link.q2d /\ b = e.link.d2q /\ Clocked(a, b)
      /\ link.d2q # None => b = link.d2q
  BY TimedHas DEF OnTime, Ongoing, Slots, ChipRoom
<1>2. qdx.response # None /\ Device.response = qdx.response
  BY DEF OnTime, AccessInTime, Device, QicPort
<1>3. a = None
  BY OnItsWayIs DEF OnItsWay, Q!WorkerStates
<1>4. ~Q!TimedOut(qic.state.wait)
  BY NotGivenUp
<1>5. Signals.responseReady
  <2>1. peer.state.at = "WorkerData"
    BY <1>1, AccessAt DEF Q!WorkerStates
  <2>2. Bus.dataStrobe
    BY <1>1, <2>1, BusIs DEF Bus
  <2>3. QED
    BY <1>4, <2>2 DEF Signals, Q!ToDevice
<1>6. CASE link.d2q = None
  <2>1. b = L!Message("MmioResponse", Device.response, L!ResponseTokens(Device.response))
    BY <1>1, <1>2, <1>6 DEF Begun, L!ToQicMessage
  <2>2. b # None
    <3>1. Device.response \in Answers
      BY <1>2 DEF OnTime, Known, AnswersInv, ChipAnswers
    <3>2. L!ResponseTokens(Device.response) \in Int
      BY DEF L!ResponseTokens
    <3>3. b \in Responses
      BY <2>1, <3>1, <3>2 DEF L!Message, Responses, MessagesOf
    <3>4. QED
      BY <3>3, NoneIsNoValue
  <2>3. QED
    BY <1>1, <1>3, <1>5, <2>1, <2>2 DEF L!QicTakes, L!Message
<1>7. CASE link.d2q # None
  <2>1. link.d2q.tag \in ToQicTags /\ b = link.d2q
    BY <1>1, <1>7 DEF LinkShape, MessageShape
  <2>2. ~OnLink(b, "DmaWrite")
    BY WordOf
  <2>3. OnLink(link.d2q, "DmaRequest") => Signals.dmaReady
    BY <1>1, <1>4, TakesRequest
  <2>4. QED
    BY <1>1, <1>3, <1>5, <1>7, <2>1, <2>2, <2>3 DEF L!QicTakes, OnLink, ToQicTags
<1>8. QED
  BY <1>6, <1>7

\* An answer comes closer in every clock.
LEMMA AnswerNears ==
  ASSUME LimitSuffices, OnTime, NEW a, NEW b, NEW e, NEW c, Timed(a, b, e, c),
         qic.state.at = "WorkerResponse", ~Moves.toDevice.responseReady
  PROVE  Behind(link') \in Int /\ Behind(link) \in Int /\ Behind(link') <= Behind(link) - 2
<1>1. /\ Known /\ Ongoing(a, b, e, c) /\ link' = Moves.link /\ LinkShape(link)
      /\ Begun(link, e, Signals, Device)
      /\ Slotted(e, c, Signals, Device) /\ Slotted(c, Moves, Signals, Device)
  BY TimedHas DEF OnTime, Ongoing, Slots
<1>2. /\ e.link.last = link.last /\ e.link.last \in Directions /\ TypedBack(e.link)
      /\ e.toDevice.responseReady = FALSE /\ TypedBack(link') /\ link'.last \in Directions
  <2>1. link'.last \in Directions
    BY TimedHas DEF OnTime
  <2>2. QED
    BY <1>1, <2>1, TypedBegun, BackKept
<1>3. e.link.q2d = None /\ e.link.d2q # None /\ L!QicTakes(e.link.d2q.tag, Signals)
  BY TakesBefore
<1>4. Answering(e)
  BY <1>1, <1>2 DEF Answering, Begun
<1>5. Behind(link') <= Behind(e.link) - 2
  BY <1>1, <1>2, <1>3, <1>4, AnswerCycle
<1>6. Behind(e.link) <= Behind(link) /\ Behind(link) \in Int
  <2>1. CASE link.d2q # None
    <3>1. e.link.d2q = link.d2q
      BY <1>1, <2>1 DEF Begun
    <3>2. Behind(e.link) = Behind(link)
      BY <1>2, <3>1 DEF Behind
    <3>3. QED
      BY <1>2, <3>2, BehindIs
  <2>2. CASE link.d2q = None
    <3>1. e.link.d2q.tag = "MmioResponse"
      <4>1. Device.response # None
        BY DEF OnTime, AccessInTime, Device, QicPort
      <4>2. e.link.d2q = L!Message("MmioResponse", Device.response, L!ResponseTokens(Device.response))
        BY <1>1, <2>2, <4>1 DEF Begun, L!ToQicMessage
      <4>3. QED
        BY <4>2 DEF L!Message
    <3>2. e.link.d2q.left \in 1..3
      BY <1>2, <1>3 DEF TypedBack
    <3>3. QED
      BY <1>2, <1>3, <2>2, <3>1, <3>2 DEF Behind
  <2>3. QED
    BY <2>1, <2>2
<1>7. Behind(link') \in Int /\ Behind(e.link) \in Int
  BY <1>2, BehindIs
<1>8. QED
  BY <1>5, <1>6, <1>7

\* So that the access stays within its bounds.
LEMMA AccessTimely ==
  ASSUME LimitSuffices, OnTime, NEW a, NEW b, NEW e, NEW c, Timed(a, b, e, c)
  PROVE  AccessInTime'
<1>1. /\ Known /\ Running(a, b, e, c) /\ Ongoing(a, b, e, c) /\ Clocked(a, b)
      /\ Undisturbed(qic, qic', Signals, ToCard) /\ ToQicIs(b, link, Signals, Device)
      /\ Same(link'.d2q, b)
      /\ link.d2q # None => b = link.d2q
  <2>1. /\ Known /\ Running(a, b, e, c) /\ Ongoing(a, b, e, c) /\ Clocked(a, b)
        /\ Same(link'.d2q, b) /\ (link.d2q # None => b = link.d2q)
    BY TimedHas DEF OnTime
  <2>2. Undisturbed(qic, qic', Signals, ToCard)
    BY <2>1 DEF Ongoing
  <2>3. ToQicIs(b, link, Signals, Device)
    BY <2>1 DEF Clocked
  <2>4. QED
    BY <2>1, <2>2, <2>3
<1>2. link'.done = None /\ (link'.q2d # None => link'.q2d.tag \in {"MmioRequest", "DmaRead"})
  BY LinkKept
<1>3. qdx.response # None <=> qic.state.at = "WorkerResponse"
  BY DEF OnTime, AccessInTime
<1>4. qic'.state.at = "WorkerOffer" =>
        /\ qic.state.at # "WorkerResponse" /\ qic'.state.wait \in Nat
        /\ qic'.state.wait = 0 \/ qic.state.at = "WorkerOffer"
  BY <1>1, BegunAtOnce
<1>5. qic'.state.at = "WorkerResponse" => qic.state.at = "WorkerResponse" \/ ToCard.mmioReady
  BY <1>1 DEF Undisturbed
<1>6. OnLink(link'.d2q, "MmioResponse") => qic.state.at = "WorkerResponse" /\ link'.d2q # None
  <2>1. SUFFICES ASSUME OnLink(link'.d2q, "MmioResponse")
                 PROVE  qic.state.at = "WorkerResponse"
    BY DEF OnLink
  <2>2. OnLink(b, "MmioResponse")
    BY <1>1, <2>1 DEF Same, OnLink
  <2>3. CASE link.d2q # None
    BY <1>1, <2>2, <2>3 DEF OnTime, AccessInTime
  <2>4. CASE link.d2q = None
    <3>1. Device.response # None
      BY <1>1, <2>2, <2>4 DEF ToQicIs, OnLink
    <3>2. QED
      BY <1>3, <3>1 DEF Device, QicPort
  <2>5. QED
    BY <2>3, <2>4
<1>7. CASE qic.state.at = "WorkerOffer"
  <2>1. Taken \/ Offered
    BY <1>7, OfferGoes
  <2>2. CASE Taken
    <3>1. qdx'.response # None
      <4>1. PICK signals : qdx' = Advance(qdx, ToChip, signals)
        BY DEF Timed
      <4>2. /\ ToChip.reset = FALSE /\ ToChip.mmio # None /\ Legal(ToChip.mmio)
            /\ ChipRoom(qdx) /\ Based(qdx) /\ ChipAnswers(qdx)
        BY <2>2, TimedHas DEF Timed, Taken, OnTime, AnswersInv
      <4>3. qdx.response = None
        BY <1>3, <1>7
      <4>4. QED
        BY <4>1, <4>2, <4>3, AcceptAnswered
    <3>2. 2 * qic'.state.wait + Behind(link') <= 14 /\ qic'.state.wait \in Nat
      <4>1. qic.state.wait \in 0..3
        BY <1>7, NotGivenUp
      <4>2. Behind(link') \in Nat /\ Behind(link') <= 8
        <5>1. TypedBack(link') /\ link'.last \in Directions
          BY <1>1, BackKept, TimedHas DEF OnTime
        <5>2. QED
          BY <5>1, BehindIs
      <4>3. QED
        BY <2>2, <4>1, <4>2 DEF Taken
    <3>3. QED
      BY <1>2, <2>2, <3>1, <3>2 DEF AccessInTime, Taken, OnLink
  <2>3. CASE Offered
    <3>1. qdx'.response = None
      BY <1>3, <1>7, <2>3, ResponseKept DEF Offered
    <3>2. ~OnLink(link'.d2q, "MmioResponse")
      BY <1>6, <1>7
    <3>3. QED
      BY <1>2, <2>3, <3>1, <3>2 DEF AccessInTime, Offered, OnLink
  <2>4. QED
    BY <2>1, <2>2, <2>3
<1>8. CASE qic.state.at = "WorkerResponse"
  <2>1. ~OnLink(link'.q2d, "MmioRequest") /\ qic'.state.at # "WorkerOffer"
    BY <1>4, <1>8, NotOffered
  <2>2. CASE ~Moves.toDevice.responseReady
    <3>1. /\ qdx'.response # None /\ qic'.state.at = "WorkerResponse"
          /\ qic'.state.wait = qic.state.wait + 1
      BY <1>3, <1>8, <2>2, AnswerGoes
    <3>2. qic.state.wait \in Nat /\ 2 * qic.state.wait + Behind(link) <= 14
      BY <1>8 DEF OnTime, AccessInTime
    <3>3. Behind(link') \in Int /\ Behind(link) \in Int /\ Behind(link') <= Behind(link) - 2
      BY <1>8, <2>2, AnswerNears
    <3>4. qic'.state.wait \in Nat /\ 2 * qic'.state.wait + Behind(link') <= 14
      BY <3>1, <3>2, <3>3
    <3>5. QED
      BY <1>2, <2>1, <3>1, <3>4 DEF AccessInTime
  <2>3. CASE Moves.toDevice.responseReady
    <3>1. link'.d2q = None /\ qdx'.response = None /\ qic'.state.at \notin Q!WorkerStates
      BY <1>8, <2>3, AnswerGoes
    <3>2. QED
      BY <1>2, <2>1, <3>1 DEF AccessInTime, OnLink, Q!WorkerStates
  <2>4. QED
    BY <2>2, <2>3
<1>9. CASE qic.state.at \notin {"WorkerOffer", "WorkerResponse"}
  <2>1. ToChip.mmio = None /\ ~ToCard.mmioReady /\ ~OnLink(link'.q2d, "MmioRequest")
    BY <1>9, NotOffered
  <2>2. qdx'.response = None
    BY <1>3, <1>9, <2>1, ResponseKept
  <2>3. QED
    BY <1>2, <1>4, <1>5, <1>6, <1>9, <2>1, <2>2 DEF AccessInTime
<1>10. QED
  BY <1>7, <1>8, <1>9

-----------------------------------------------------------------------------
(* The burst.                                                                                 *)

\* How long the host takes.
LEMMA PhaseWaits ==
  ASSUME NEW at, NEW request, NEW beat, NEW faults, NEW t \in P!Phases(at, request, beat, faults)
  PROVE  t.at = at /\ t.wait \in Waits
  BY DEF P!Phases, P!Phase

\* The host as its clock finds it.
Waked(p, q) ==
  /\ q = [p EXCEPT !.got = None, !.result = None]
  /\ q = [state |-> p.state, result |-> None, words |-> p.words, address |-> p.address, got |-> None]

LEMMA WakedIs ==
  ASSUME NEW p, PeerShape(p)
  PROVE  \E q : Waked(p, q)
<1>1. PICK q : q = [p EXCEPT !.got = None, !.result = None]
  OBVIOUS
<1>2. q = [state |-> p.state, result |-> None, words |-> p.words, address |-> p.address, got |-> None]
  BY <1>1 DEF PeerShape
<1>3. QED
  BY <1>1, <1>2 DEF Waked

\* One clock later in the same phase.
Ticked(s, t) == t.at = s.at /\ t.wait = s.wait - 1

LEMMA PeerAddressed ==
  ASSUME NEW p, PeerShape(p), p.state.at = "Grant", NEW pins, pins.strobe # None,
         pins.strobe.kind = "HostDma", NEW data, NEW p2 \in P!Clock(p, pins, data)
  PROVE  p2.state.at = "DmaAddress" /\ p2.state.wait \in Waits
<1>1. PICK q : Waked(p, q)
  BY WakedIs
<1>2. p2 \in P!FromGrant(q, pins)
  BY <1>1 DEF P!Clock, Waked
<1>3. PICK t \in P!Phases("DmaAddress", pins.strobe.value, 0, Faults \cap {"Err"}) :
        p2 = [q EXCEPT !.state = t, !.words = << >>, !.address = pins.strobe.value.handle]
  BY <1>2 DEF P!FromGrant
<1>4. p2.state = t
  BY <1>1, <1>3 DEF Waked
<1>5. QED
  BY <1>4, PhaseWaits

LEMMA PeerAcknowledges ==
  ASSUME NEW p, PeerShape(p), p.state.at = "DmaAddress", NEW pins, pins.request,
         NEW data, NEW p2 \in P!Clock(p, pins, data)
  PROVE  /\ p.state.wait > 0 => Ticked(p.state, p2.state)
         /\ p.state.wait = 0 /\ p.state.fault # "Err" =>
              p2.state.at = "DmaData" /\ p2.state.wait \in Waits
<1>1. PICK q : Waked(p, q)
  BY WakedIs
<1>2. PICK s : s = p.state
  OBVIOUS
<1>3. q.state = s /\ s = P!Phase("DmaAddress", s.request, s.beat, s.wait, s.fault)
  BY <1>1, <1>2 DEF PeerShape, PeerPhases, Waked
<1>4. p2 \in P!FromAddress(q, P!Phases("DmaData", s.request, 0, P!DataFaults(s.request)))
  BY <1>1, <1>2, <1>3 DEF P!Clock, Waked
<1>5. ASSUME s.wait > 0
      PROVE  Ticked(s, p2.state)
  <2>1. p2 = [q EXCEPT !.state.wait = @ - 1]
    BY <1>3, <1>4, <1>5 DEF P!FromAddress
  <2>2. p2.state = [s EXCEPT !.wait = @ - 1]
    BY <1>1, <1>2, <2>1 DEF Waked
  <2>3. QED
    BY <1>3, <2>2 DEF P!Phase, Ticked
<1>6. ASSUME s.wait = 0, s.fault # "Err"
      PROVE  p2.state.at = "DmaData" /\ p2.state.wait \in Waits
  <2>1. PICK t \in P!Phases("DmaData", s.request, 0, P!DataFaults(s.request)) :
          p2 = [q EXCEPT !.state = t]
    <3>1. ~(s.wait > 0)
      BY <1>6
    <3>2. QED
      BY <1>3, <1>4, <1>6, <3>1 DEF P!FromAddress
  <2>2. p2.state = t
    BY <1>1, <2>1 DEF Waked
  <2>3. QED
    BY <2>2, PhaseWaits
<1>7. QED
  BY <1>2, <1>5, <1>6

LEMMA PeerTransfers ==
  ASSUME NEW p, PeerShape(p), p.state.at = "DmaData", NEW pins, pins.request,
         NEW data, NEW p2 \in P!Clock(p, pins, data)
  PROVE  /\ pins.strobe = None => p2.state = p.state
         /\ pins.strobe # None /\ p.state.wait > 0 => Ticked(p.state, p2.state)
         /\ (pins.strobe # None /\ p.state.wait = 0 /\ p.state.fault # "Err"
             /\ p.state.beat + 1 # p.state.request.words) =>
              p2.state.at = "DmaData" /\ p2.state.wait \in Waits
<1>1. PICK q : Waked(p, q)
  BY WakedIs
<1>2. PICK s : s = p.state
  OBVIOUS
<1>3. q.state = s /\ s = P!Phase("DmaData", s.request, s.beat, s.wait, s.fault)
  BY <1>1, <1>2 DEF PeerShape, PeerPhases, Waked
<1>4. p2 \in P!FromDmaData(q, pins)
  BY <1>1, <1>2, <1>3 DEF P!Clock, Waked
<1>5. ASSUME pins.strobe = None
      PROVE  p2.state = s
  BY <1>3, <1>4, <1>5 DEF P!FromDmaData
<1>6. ASSUME pins.strobe # None, s.wait > 0
      PROVE  Ticked(s, p2.state)
  <2>1. p2 = [q EXCEPT !.state.wait = @ - 1]
    BY <1>3, <1>4, <1>6 DEF P!FromDmaData
  <2>2. p2.state = [s EXCEPT !.wait = @ - 1]
    BY <1>1, <1>2, <2>1 DEF Waked
  <2>3. QED
    BY <1>3, <2>2 DEF P!Phase, Ticked
<1>7. ASSUME pins.strobe # None, s.wait = 0, s.fault # "Err", s.beat + 1 # s.request.words
      PROVE  p2.state.at = "DmaData" /\ p2.state.wait \in Waits
  <2>1. PICK taken : taken = IF P!Reads(s) THEN q
                             ELSE [q EXCEPT !.words = Append(@, pins.strobe.value)]
    OBVIOUS
  <2>2. taken = [state |-> s, result |-> None, words |-> taken.words, address |-> p.address, got |-> None]
    BY <1>1, <1>2, <2>1 DEF Waked
  <2>3. ~(s.wait > 0)
    BY <1>7
  <2>4. p2 \in {[taken EXCEPT !.state = next] :
                  next \in P!Phases("DmaData", s.request, s.beat + 1, P!DataFaults(s.request))}
    BY <1>3, <1>4, <1>7, <2>1, <2>3 DEF P!FromDmaData
  <2>5. PICK t \in P!Phases("DmaData", s.request, s.beat + 1, P!DataFaults(s.request)) :
          p2 = [taken EXCEPT !.state = t]
    BY <2>4
  <2>6. p2.state = t
    BY <2>2, <2>5
  <2>7. QED
    BY <2>6, PhaseWaits
<1>8. QED
  BY <1>2, <1>5, <1>6, <1>7

\* The card's side of the bus, and the QIC with the bus, or without need of it.
LEMMA PinsIs == Pins.request = Q!RequestsBus(qic) /\ Pins.strobe = Q!Strobe(qic.state, Bus)
<1>1. Pins = Q!CardPins(qic, Bus, ToQic(Moves.toQic))
  BY DEF Pins
<1>2. QED
  BY <1>1 DEF Q!CardPins

LEMMA GoesOn ==
  ASSUME OnTime, NEW a, NEW b, NEW e, NEW c, Timed(a, b, e, c),
         qic.state.at \in {"RequestBus", "DmaAddress", "DmaData"}, ~Q!WorkerAddressCycle(Bus),
         Bus.grant \/ ~Q!NeedsGrant(qic.state)
  PROVE  LET s == qic.state IN
         /\ s.at = "RequestBus" => qic'.state = Q!FromRequestBus(s, Bus)
         /\ s.at = "DmaAddress" => qic'.state = Q!FromDmaAddress(s, Bus)
         /\ s.at = "DmaData" => qic'.state = Q!FromDmaData(s, Bus, ToCard)
         /\ qic'.state.at \notin Q!WorkerStates => Held(qic') = qic'.state
<1>1. QicShape(qic) /\ QicShape(qic') /\ BusShape(Bus) /\ ~Bus.reset /\ qic' = Q!Clock(qic, Bus, ToCard)
  BY TimedHas DEF OnTime
<1>2. qic'.state = Moved(qic, Bus, ToCard)
  BY <1>1, QicFree DEF Q!WorkerStates
<1>3. Now(qic, Bus).state = qic.state
  BY <1>1 DEF QicShape, Now
<1>4. qic'.state.at \notin Q!WorkerStates => Held(qic') = qic'.state
  BY <1>1, HeldFree
<1>5. QED
  BY <1>2, <1>3, <1>4 DEF Moved, Q!NextState

\* What has ended well stays with a chip that waits for the completion.
LEMMA EndKept ==
  ASSUME LimitSuffices, OnTime, NEW a, NEW b, NEW e, NEW c, Timed(a, b, e, c),
         Held(qic).at = "DmaComplete", Held(qic') = Held(qic)
  PROVE  Held(qic').status # "Timeout" /\ qdx'.state \in Completing
<1>1. /\ RoomInv /\ InService(a, b) /\ Clocked(a, b) /\ ToDeviceIs(a, link, Signals)
      /\ Undisturbed(qic, qic', Signals, ToCard)
  BY TimedHas DEF OnTime, InService, Clocked
<1>2. Held(qic).status # "Timeout" /\ qdx.state \in Completing
  BY DEF OnTime, BurstInTime
<1>3. ToChip.completion = None
  <2>1. SUFFICES ASSUME ToChip.completion # None PROVE FALSE
    OBVIOUS
  <2>2. OnLink(a, "DmaCompletion") /\ ToCard.completionReady
    BY <1>1, <2>1, GivenIs
  <2>3. Signals.completion # None
    <3>1. CASE link.q2d # None
      BY <1>1, <2>2, <3>1 DEF ToDeviceIs, OnLink, OnTime, AccessInTime
    <3>2. CASE link.q2d = None
      BY <1>1, <2>2, <3>2 DEF ToDeviceIs, OnLink
    <3>3. QED
      BY <3>1, <3>2
  <2>4. Held(qic') = Q!Idle
    BY <1>1, <2>2, <2>3 DEF Undisturbed
  <2>5. QED
    BY <2>4 DEF Q!Idle
<1>4. QED
  BY <1>1, <1>2, <1>3, StaysServed DEF Served, Completing

\* No word is on the link while the burst waits for the host, or has no data phase.
Clear(l) == ~OnLink(l.q2d, "DmaRead") /\ ~OnLink(l.d2q, "DmaWrite")

LEMMA ClearIs ==
  ASSUME OnTime, NEW a, NEW b, NEW e, NEW c, Timed(a, b, e, c),
         qic.state.at = "DmaData" => ForHost(qic.state)
  PROVE  Clear(link) /\ Clear(link')
<1>1. /\ Same(link'.q2d, a) /\ Same(link'.d2q, b)
      /\ (link.q2d # None => a = link.q2d) /\ (link.d2q # None => b = link.d2q)
  BY TimedHas DEF OnTime
<1>2. ~OnLink(a, "DmaRead") /\ ~OnLink(b, "DmaWrite")
  <2>1. PICK s : s = qic.state
    OBVIOUS
  <2>2. s.at = "DmaData" => (s.request.direction = "HostToDevice") = (s.buffer = None)
    BY <2>1 DEF ForHost
  <2>3. OnLink(a, "DmaRead") => s.at = "DmaData" /\ s.request.direction = "HostToDevice" /\ s.buffer # None
    BY <2>1, WordOf
  <2>4. OnLink(b, "DmaWrite") => s.at = "DmaData" /\ s.request.direction = "DeviceToHost" /\ s.buffer = None
    BY <2>1, WordOf
  <2>5. QED
    BY <2>2, <2>3, <2>4
<1>3. QED
  BY <1>1, <1>2 DEF Clear, OnLink, Same

\* A burst that ends well has a chip that waits for it; one that fails, and has not, has left
\* nothing on the link.
LEMMA EndsInTime ==
  ASSUME Serving', Held(qic').at = "DmaComplete", Held(qic').status # "Timeout",
         Held(qic').status = "Ok" \/ Clear(link')
  PROVE  BurstInTime' \/ FailedBurst'
<1>1. PICK h : h = Held(qic')
  OBVIOUS
<1>2. h.status = "Ok" => qdx'.state \in Completing
  BY <1>1 DEF Serving
<1>3. CASE qdx'.state \in Completing
  BY <1>1, <1>3 DEF BurstInTime
<1>4. CASE qdx'.state \notin Completing
  BY <1>1, <1>2, <1>4 DEF FailedBurst, Clear, WordOnTheLink, OnLink
<1>5. QED
  BY <1>3, <1>4

\* The request has the bus.
LEMMA BusGiven ==
  ASSUME LimitSuffices, OnTime, NEW a, NEW b, NEW e, NEW c, Timed(a, b, e, c),
         qic.state.at = "RequestBus", ~Q!WorkerAddressCycle(Bus)
  PROVE  BurstInTime'
<1>1. qic'.state = Q!FromRequestBus(qic.state, Bus)
      /\ (qic'.state.at \notin Q!WorkerStates => Held(qic') = qic'.state)
  BY GoesOn DEF Q!NeedsGrant
<1>2. CASE Bus.grant /\ qic.state.work.kind = "Dma"
  <2>1. qic'.state = Q!DmaAddress(qic.state.work.request, 0) /\ Held(qic') = qic'.state
    BY <1>1, <1>2 DEF Q!FromRequestBus, Q!DmaAddress, Q!WorkerStates
  <2>2. peer.state.at = "Grant"
    <3>1. PeerShape(peer) /\ SameTransaction
      BY TimedHas DEF OnTime
    <3>2. peer.state.at \notin {"Idle", "WorkerAddress", "WorkerData"}
      BY <1>2, <3>1, BusIs DEF Bus
    <3>3. QED
      BY <3>1, <3>2 DEF SameTransaction, QicGoesWith, PeerShape, PeerPhases
  <2>3. peer'.state = P!Grant
    <3>1. Pins.strobe = None /\ Pins.request
      BY PinsIs DEF Q!Strobe, Q!RequestsBus
    <3>2. PeerMoves(peer, Pins, peer')
      BY TimedHas DEF OnTime, Clocked
    <3>3. QED
      BY <2>2, <3>1, <3>2 DEF PeerMoves
  <2>4. QED
    BY <2>1, <2>3 DEF BurstInTime, Q!DmaAddress, P!Grant
<1>3. CASE ~(Bus.grant /\ qic.state.work.kind = "Dma")
  <2>1. qic'.state.at \in {"RequestBus", "NotificationAddress"}
    BY <1>1, <1>3 DEF Q!FromRequestBus, Q!NotificationAddress
  <2>2. QED
    BY <1>1, <2>1 DEF BurstInTime, Q!WorkerStates
<1>4. QED
  BY <1>2, <1>3

\* The bus of a burst.
LEMMA BurstBus ==
  ASSUME OnTime, NEW a, NEW b, NEW e, NEW c, Timed(a, b, e, c)
  PROVE  LET p == peer.state IN
         /\ p.at \in {"Grant", "DmaAddress", "DmaData"} => Bus.grant /\ ~Q!WorkerAddressCycle(Bus)
         /\ p.at = "Grant" => ~Bus.ack /\ ~Bus.err
         /\ p.at \in {"DmaAddress", "DmaData"} =>
              /\ p.wait \in Nat
              /\ p.wait > 0 => ~Bus.ack /\ ~Bus.err
              /\ p.wait = 0 => IF p.fault = "Err" THEN Bus.err ELSE Bus.ack /\ ~Bus.err
<1>1. PeerShape(peer) /\ Bus = P!BusInputs(peer.state)
  BY TimedHas DEF OnTime, Bus
<1>2. peer.state.at \in {"DmaAddress", "DmaData"} => peer.state.wait \in Nat
  BY <1>1 DEF PeerShape, PeerPhases
<1>3. PICK p : p = peer.state
  OBVIOUS
<1>4. /\ Bus.grant = (p.at \notin {"Idle", "WorkerAddress", "WorkerData"})
      /\ Q!WorkerAddressCycle(Bus) => p.at = "WorkerAddress"
      /\ Bus.ack = (p.at \in PeerPhases /\ p.wait = 0 /\ p.fault # "Err")
      /\ Bus.err = (p.at \in PeerPhases /\ p.wait = 0 /\ p.fault = "Err")
  BY <1>1, <1>3, BusIs
<1>5. p.at \in {"DmaAddress", "DmaData"} => p.wait \in Nat
  BY <1>2, <1>3
<1>6. ASSUME p.at \in {"DmaAddress", "DmaData"}
      PROVE  /\ p.wait > 0 => ~Bus.ack /\ ~Bus.err
             /\ p.wait = 0 => IF p.fault = "Err" THEN Bus.err ELSE Bus.ack /\ ~Bus.err
  <2>1. p.wait > 0 => ~(p.wait = 0)
    BY <1>5, <1>6
  <2>2. p.at \in PeerPhases
    BY <1>6 DEF PeerPhases
  <2>3. QED
    BY <1>4, <2>1, <2>2
<1>7. QED
  BY <1>3, <1>4, <1>5, <1>6 DEF PeerPhases

LEMMA NotTimedOut ==
  ASSUME LimitSuffices, NEW w \in Nat, NEW v \in Nat, w + v <= Timeout - 2
  PROVE  ~Q!TimedOut(w)
BY TimeoutAssumption DEF LimitSuffices, Q!TimedOut

LEMMA WaitSuffices ==
  ASSUME LimitSuffices, NEW w \in Waits
  PROVE  w \in Nat /\ 1 + w <= Timeout - 2 /\ 0 + w <= Timeout - 2 /\ w <= Timeout - 2
BY TimeoutAssumption, PeerAssumption DEF LimitSuffices

\* The address phase.
LEMMA AddressTimely ==
  ASSUME LimitSuffices, OnTime, NEW a, NEW b, NEW e, NEW c, Timed(a, b, e, c),
         qic.state.at = "DmaAddress", Serving'
  PROVE  BurstInTime' \/ FailedBurst'
<1>1. PICK s : s = qic.state
  OBVIOUS
<1>2. Held(qic) = s /\ QicShape(qic) /\ s = Q!DmaAddress(s.request, s.wait) /\ PeerShape(peer)
      /\ (\E data : peer' \in P!Clock(peer, Pins, data))
  <2>1. QicShape(qic)
    BY TimedHas DEF OnTime
  <2>2. QED
    BY <1>1, <2>1, HeldFree, TimedHas DEF OnTime, Timed, QicShape, QicState, Q!WorkerStates
<1>3. s.wait \in Nat
      /\ IF peer.state.at = "Grant" THEN s.wait = 0
         ELSE peer.state.at = "DmaAddress" /\ s.wait + peer.state.wait <= Timeout - 2
  BY <1>1, <1>2 DEF OnTime, BurstInTime
<1>4. Bus.grant /\ ~Q!WorkerAddressCycle(Bus)
  BY <1>3, BurstBus
<1>5. qic'.state = Q!FromDmaAddress(s, Bus)
      /\ (qic'.state.at \notin Q!WorkerStates => Held(qic') = qic'.state)
  BY <1>1, <1>4, GoesOn
<1>6. ~Q!TimedOut(s.wait) /\ Timeout \in Nat
  <2>1. CASE peer.state.at = "Grant"
    BY <1>3, <2>1, TimeoutAssumption DEF LimitSuffices, Q!TimedOut
  <2>2. CASE peer.state.at # "Grant"
    BY <1>3, <2>2, BurstBus, NotTimedOut, TimeoutAssumption
  <2>3. QED
    BY <2>1, <2>2
<1>7. PICK t : t = [s EXCEPT !.wait = @ + 1]
  OBVIOUS
<1>8. t = Q!DmaAddress(s.request, s.wait + 1)
  BY <1>2, <1>7 DEF Q!DmaAddress
<1>9. qic'.state = IF Bus.err THEN Q!DmaComplete("BusError", 0)
                   ELSE IF Bus.ack THEN Q!DmaData(s.request, 0, 0, None) ELSE t
  BY <1>5, <1>6, <1>7 DEF Q!FromDmaAddress
<1>10. Held(qic') = qic'.state
  BY <1>5, <1>8, <1>9 DEF Q!DmaComplete, Q!DmaData, Q!DmaAddress, Q!WorkerStates
<1>11. Clear(link')
  BY <1>1, ClearIs
<1>12. Pins.request
  BY <1>1, PinsIs DEF Q!RequestsBus
<1>13. CASE peer.state.at = "Grant"
  <2>1. Pins.strobe = [kind |-> "HostDma", value |-> s.request]
    BY <1>1, <1>4, <1>6, PinsIs DEF Q!Strobe
  <2>2. Pins.strobe # None /\ Pins.strobe.kind = "HostDma"
    <3>1. BurstShape(s)
      BY <1>2, TimedHas DEF OnTime
    <3>2. s.request \in Requests
      BY <1>1, <3>1 DEF BurstShape, RequestOf
    <3>3. QED
      BY <2>1, <3>2, NoneIsNoValue
  <2>3. peer'.state.at = "DmaAddress" /\ peer'.state.wait \in Waits
    BY <1>2, <1>13, <2>2, PeerAddressed
  <2>4. qic'.state = t /\ s.wait = 0
    BY <1>3, <1>9, <1>13, BurstBus
  <2>5. PICK n : n = Held(qic') /\ n.at = "DmaAddress" /\ n.wait = 1
    BY <1>8, <1>10, <2>4 DEF Q!DmaAddress
  <2>6. 1 + peer'.state.wait <= Timeout - 2
    BY <2>3, WaitSuffices
  <2>7. QED
    BY <2>3, <2>5, <2>6 DEF BurstInTime
<1>14. CASE peer.state.at = "DmaAddress" /\ peer.state.wait > 0
  <2>1. peer'.state.at = "DmaAddress" /\ peer'.state.wait = peer.state.wait - 1
    BY <1>2, <1>12, <1>14, PeerAcknowledges DEF Ticked
  <2>2. qic'.state = t
    BY <1>9, <1>14, BurstBus
  <2>3. PICK v \in Nat : v = peer.state.wait
    BY <1>14, BurstBus
  <2>4. s.wait + v <= Timeout - 2 /\ v > 0
    BY <1>3, <1>14, <2>3
  <2>5. s.wait + 1 \in Nat /\ s.wait + 1 + peer'.state.wait <= Timeout - 2
    BY <1>3, <1>6, <2>1, <2>3, <2>4
  <2>6. PICK n : n = Held(qic') /\ n.at = "DmaAddress" /\ n.wait = s.wait + 1
    BY <1>8, <1>10, <2>2 DEF Q!DmaAddress
  <2>7. n.wait \in Nat /\ n.wait + peer'.state.wait <= Timeout - 2
    BY <2>5, <2>6
  <2>8. QED
    BY <2>1, <2>6, <2>7 DEF BurstInTime
<1>15. CASE peer.state.at = "DmaAddress" /\ peer.state.wait = 0 /\ peer.state.fault = "Err"
  <2>1. qic'.state = Q!DmaComplete("BusError", 0)
    BY <1>9, <1>15, BurstBus
  <2>2. Held(qic').at = "DmaComplete" /\ Held(qic').status # "Timeout"
    BY <1>10, <2>1 DEF Q!DmaComplete
  <2>3. QED
    BY <1>11, <2>2, EndsInTime
<1>16. CASE peer.state.at = "DmaAddress" /\ peer.state.wait = 0 /\ peer.state.fault # "Err"
  <2>1. peer'.state.at = "DmaData" /\ peer'.state.wait \in Waits
    BY <1>2, <1>12, <1>16, PeerAcknowledges
  <2>2. qic'.state = Q!DmaData(s.request, 0, 0, None)
    BY <1>9, <1>16, BurstBus
  <2>3. PICK n : n = Held(qic') /\ n.at = "DmaData" /\ n.wait = 0
    BY <1>10, <2>2 DEF Q!DmaData
  <2>4. ~OnLink(link'.d2q, "DmaWrite") /\ ~(link'.q2d # None /\ link'.q2d.tag = "DmaRead")
    BY <1>11 DEF Clear, OnLink
  <2>5. 0 + peer'.state.wait <= Timeout - 2 /\ peer'.state.wait <= Timeout - 2
    BY <2>1, WaitSuffices
  <2>6. QED
    BY <2>1, <2>3, <2>4, <2>5 DEF BurstInTime, WordOnTheLink
<1>17. QED
  BY <1>3, <1>13, <1>14, <1>15, <1>16, BurstBus

\* The data phase: what holds of it, and that it goes on.
LEMMA DataHas ==
  ASSUME OnTime, NEW a, NEW b, NEW e, NEW c, Timed(a, b, e, c), qic.state.at = "DmaData"
  PROVE  LET s == qic.state
             p == peer.state IN
         /\ Held(qic) = s /\ s = Q!DmaData(s.request, s.completed, s.wait, s.buffer) /\ BurstShape(s)
         /\ s.wait \in Nat /\ s.completed \in Nat
         /\ ~Q!FinalReadBuffer(s) =>
              /\ p.at = "DmaData" /\ p.wait \in Nat /\ p.wait <= Timeout - 2
              /\ p.request = s.request /\ p.beat = s.completed
              /\ Bus.grant /\ ~Q!WorkerAddressCycle(Bus) /\ Pins.request
         /\ ForHost(s) => ~Q!FinalReadBuffer(s) /\ s.wait + p.wait <= Timeout - 2
         /\ ~Q!WorkerAddressCycle(Bus) =>
              /\ qic'.state = Q!FromDmaData(s, Bus, ToCard)
              /\ qic'.state.at \notin Q!WorkerStates => Held(qic') = qic'.state
<1>1. PICK s, p : s = qic.state /\ p = peer.state
  OBVIOUS
<1>2. QicShape(qic) /\ BurstShape(Held(qic)) /\ PeersBurst
  BY TimedHas DEF OnTime, WholeInv
<1>3. Held(qic) = s /\ s = Q!DmaData(s.request, s.completed, s.wait, s.buffer) /\ BurstShape(s)
  BY <1>1, <1>2, HeldFree DEF QicShape, QicState, Q!WorkerStates
<1>4. s.wait \in Nat /\ s.completed \in Nat
  BY <1>1, <1>3 DEF BurstShape, Stages
<1>5. ASSUME ~Q!FinalReadBuffer(s)
      PROVE  /\ p.at = "DmaData" /\ p.wait \in Nat /\ p.wait <= Timeout - 2
             /\ p.request = s.request /\ p.beat = s.completed
             /\ Bus.grant /\ ~Q!WorkerAddressCycle(Bus) /\ Pins.request
  <2>1. p.at = "DmaData" /\ p.wait <= Timeout - 2
    BY <1>1, <1>3, <1>5 DEF OnTime, BurstInTime
  <2>2. p.wait \in Nat /\ Bus.grant /\ ~Q!WorkerAddressCycle(Bus)
    BY <1>1, <2>1, BurstBus
  <2>3. p.request = s.request /\ p.beat = s.completed
    BY <1>1, <1>2, <2>1 DEF PeersBurst
  <2>4. Pins.request
    BY <1>1, <1>5, PinsIs DEF Q!RequestsBus
  <2>5. QED
    BY <2>1, <2>2, <2>3, <2>4
<1>6. ASSUME ForHost(s)
      PROVE  ~Q!FinalReadBuffer(s) /\ s.wait + p.wait <= Timeout - 2
  <2>1. s.wait + p.wait <= Timeout - 2
    BY <1>1, <1>3, <1>6 DEF OnTime, BurstInTime
  <2>2. ~Q!FinalReadBuffer(s)
    BY <1>6 DEF ForHost, Q!FinalReadBuffer
  <2>3. QED
    BY <2>1, <2>2
<1>7. ASSUME ~Q!WorkerAddressCycle(Bus)
      PROVE  /\ qic'.state = Q!FromDmaData(s, Bus, ToCard)
             /\ qic'.state.at \notin Q!WorkerStates => Held(qic') = qic'.state
  <2>1. Bus.grant \/ ~Q!NeedsGrant(qic.state)
    BY <1>1, <1>5 DEF Q!NeedsGrant
  <2>2. QED
    BY <1>1, <1>7, <2>1, GoesOn
<1>8. QED
  BY <1>1, <1>3, <1>4, <1>5, <1>6, <1>7

\* A burst whose word waits for the host strobes it.
LEMMA Strobes ==
  ASSUME LimitSuffices, OnTime, NEW a, NEW b, NEW e, NEW c, Timed(a, b, e, c),
         qic.state.at = "DmaData", ForHost(qic.state)
  PROVE  Pins.strobe # None /\ ~Q!TimedOut(qic.state.wait)
<1>1. PICK s, p : s = qic.state /\ p = peer.state
  OBVIOUS
<1>2. /\ BurstShape(s) /\ s.wait \in Nat /\ p.wait \in Nat /\ Bus.grant
      /\ s.wait + p.wait <= Timeout - 2 /\ s.at = "DmaData"
  BY <1>1, DataHas
<1>3. ~Q!TimedOut(s.wait)
  BY <1>2, NotTimedOut
<1>4. IF s.request.direction = "HostToDevice" THEN s.buffer = None ELSE s.buffer # None
  BY <1>1 DEF ForHost
<1>5. PICK strobe : strobe = Q!Strobe(s, Bus)
  OBVIOUS
<1>6. strobe # None
  <2>1. Strobed(s, Bus, strobe)
    BY <1>2, <1>5, StrobedIs
  <2>2. QED
    BY <1>2, <1>3, <1>4, <2>1 DEF Strobed
<1>7. QED
  BY <1>1, <1>3, <1>5, <1>6, PinsIs

\* The host answers it.
LEMMA HostTimely ==
  ASSUME LimitSuffices, OnTime, NEW a, NEW b, NEW e, NEW c, Timed(a, b, e, c),
         qic.state.at = "DmaData", ForHost(qic.state), Serving'
  PROVE  BurstInTime' \/ FailedBurst'
<1>1. PICK s, p : s = qic.state /\ p = peer.state
  OBVIOUS
<1>2. /\ s = Q!DmaData(s.request, s.completed, s.wait, s.buffer) /\ BurstShape(s)
      /\ s.at = "DmaData" /\ s.wait \in Nat /\ s.completed \in Nat /\ ~Q!FinalReadBuffer(s)
      /\ p.at = "DmaData" /\ p.wait \in Nat /\ p.request = s.request /\ p.beat = s.completed
      /\ s.wait + p.wait <= Timeout - 2 /\ Pins.request
      /\ qic'.state = Q!FromDmaData(s, Bus, ToCard)
      /\ (qic'.state.at \notin Q!WorkerStates => Held(qic') = qic'.state)
  BY <1>1, DataHas
<1>3. Pins.strobe # None /\ ~Q!TimedOut(s.wait) /\ Clear(link')
  BY <1>1, Strobes, ClearIs
<1>4. PeerShape(peer) /\ (\E data : peer' \in P!Clock(peer, Pins, data)) /\ Timeout \in Nat
  BY TimedHas, TimeoutAssumption DEF OnTime, Timed
<1>5. ~OnLink(link'.d2q, "DmaWrite") /\ ~(link'.q2d # None /\ link'.q2d.tag = "DmaRead")
  BY <1>3 DEF Clear, OnLink
<1>6. CASE p.wait > 0
  <2>1. peer'.state.at = "DmaData" /\ peer'.state.wait = p.wait - 1
    BY <1>1, <1>2, <1>3, <1>4, <1>6, PeerTransfers DEF Ticked
  <2>2. ~Bus.ack /\ ~Bus.err
    BY <1>1, <1>2, <1>6, BurstBus
  <2>3. PICK t : t = [s EXCEPT !.wait = @ + 1]
    OBVIOUS
  <2>4. t = Q!DmaData(s.request, s.completed, s.wait + 1, s.buffer)
    BY <1>2, <2>3 DEF Q!DmaData
  <2>5. qic'.state = t
    BY <1>1, <1>2, <1>3, <2>2, <2>3 DEF Q!FromDmaData, Q!ReadWord, Q!WriteWord, ForHost
  <2>6. Held(qic') = t
    BY <1>2, <2>4, <2>5 DEF Q!DmaData, Q!WorkerStates
  <2>7. t.at = "DmaData" /\ ForHost(t) /\ t.wait = s.wait + 1
    BY <1>1, <2>4 DEF Q!DmaData, ForHost
  <2>8. t.wait + peer'.state.wait <= Timeout - 2 /\ peer'.state.wait <= Timeout - 2
    BY <1>2, <1>4, <1>6, <2>1, <2>7
  <2>9. QED
    BY <1>5, <2>1, <2>6, <2>7, <2>8 DEF BurstInTime
<1>7. CASE p.wait = 0 /\ p.fault = "Err"
  <2>1. Bus.err
    BY <1>1, <1>2, <1>7, BurstBus
  <2>2. qic'.state = Q!DmaComplete("BusError", s.completed)
    BY <1>1, <1>2, <1>3, <2>1 DEF Q!FromDmaData, Q!ReadWord, Q!WriteWord, ForHost
  <2>3. Held(qic').at = "DmaComplete" /\ Held(qic').status # "Timeout"
    BY <1>2, <2>2 DEF Q!DmaComplete, Q!WorkerStates
  <2>4. QED
    BY <1>3, <2>3, EndsInTime
<1>8. CASE p.wait = 0 /\ p.fault # "Err"
  <2>1. Bus.ack /\ ~Bus.err
    BY <1>1, <1>2, <1>8, BurstBus
  <2>2. s.completed + 1 # s.request.words => peer'.state.at = "DmaData" /\ peer'.state.wait \in Waits
    BY <1>1, <1>2, <1>3, <1>4, <1>8, PeerTransfers
  <2>3. s.completed + 1 # s.request.words =>
          peer'.state.at = "DmaData" /\ peer'.state.wait <= Timeout - 2
    BY <2>2, WaitSuffices
  <2>4. ASSUME NEW n, Held(qic') = n, n = Q!DmaData(s.request, s.completed + 1, 0, n.buffer),
               ~Q!FinalReadBuffer(n) => s.completed + 1 # s.request.words, ~ForHost(n)
        PROVE  BurstInTime'
    <3>1. n.at = "DmaData" /\ n.wait = 0
      BY <2>4 DEF Q!DmaData
    <3>2. QED
      BY <1>5, <2>3, <2>4, <3>1 DEF BurstInTime, WordOnTheLink
  <2>5. CASE s.request.direction = "HostToDevice" /\ Bus.data = None
    <3>1. qic'.state = Q!DmaComplete("ParityError", s.completed)
      BY <1>1, <1>2, <1>3, <2>1, <2>5 DEF Q!FromDmaData, Q!ReadWord, ForHost
    <3>2. Held(qic').at = "DmaComplete" /\ Held(qic').status # "Timeout"
      BY <1>2, <3>1 DEF Q!DmaComplete, Q!WorkerStates
    <3>3. QED
      BY <1>3, <3>2, EndsInTime
  <2>6. CASE s.request.direction = "HostToDevice" /\ Bus.data # None
    <3>1. PICK n : n = Q!DmaData(s.request, s.completed + 1, 0, Bus.data)
      OBVIOUS
    <3>2. qic'.state = n
      BY <1>1, <1>2, <1>3, <2>1, <2>6, <3>1 DEF Q!FromDmaData, Q!ReadWord, ForHost
    <3>3. Held(qic') = n
      BY <1>2, <3>1, <3>2 DEF Q!DmaData, Q!WorkerStates
    <3>4. n = Q!DmaData(s.request, s.completed + 1, 0, n.buffer) /\ ~ForHost(n)
          /\ (~Q!FinalReadBuffer(n) => s.completed + 1 # s.request.words)
      BY <2>6, <3>1 DEF Q!DmaData, ForHost, Q!FinalReadBuffer
    <3>5. QED
      BY <2>4, <3>3, <3>4
  <2>7. CASE s.request.direction # "HostToDevice" /\ s.completed + 1 = s.request.words
    <3>1. qic'.state = Q!DmaComplete("Ok", s.completed + 1)
      BY <1>1, <1>2, <1>3, <2>1, <2>7 DEF Q!FromDmaData, Q!WriteWord, ForHost
    <3>2. Held(qic').at = "DmaComplete" /\ Held(qic').status = "Ok"
      BY <1>2, <3>1 DEF Q!DmaComplete, Q!WorkerStates
    <3>3. QED
      BY <3>2, EndsInTime
  <2>8. CASE s.request.direction # "HostToDevice" /\ s.completed + 1 # s.request.words
    <3>1. PICK n : n = Q!DmaData(s.request, s.completed + 1, 0, None)
      OBVIOUS
    <3>2. qic'.state = n
      BY <1>1, <1>2, <1>3, <2>1, <2>8, <3>1 DEF Q!FromDmaData, Q!WriteWord, ForHost
    <3>3. Held(qic') = n
      BY <1>2, <3>1, <3>2 DEF Q!DmaData, Q!WorkerStates
    <3>4. n = Q!DmaData(s.request, s.completed + 1, 0, n.buffer) /\ ~ForHost(n)
          /\ (~Q!FinalReadBuffer(n) => s.completed + 1 # s.request.words)
      BY <2>8, <3>1 DEF Q!DmaData, ForHost, Q!FinalReadBuffer
    <3>5. QED
      BY <2>4, <3>3, <3>4
  <2>9. QED
    BY <2>5, <2>6, <2>7, <2>8
<1>9. QED
  BY <1>2, <1>6, <1>7, <1>8

\* A burst that has no word to strobe leaves the host as it is.
LEMMA NoStrobe ==
  ASSUME OnTime, NEW a, NEW b, NEW e, NEW c, Timed(a, b, e, c),
         qic.state.at = "DmaData", ~ForHost(qic.state), ~Q!FinalReadBuffer(qic.state)
  PROVE  peer'.state = peer.state
<1>1. PICK s : s = qic.state
  OBVIOUS
<1>2. BurstShape(s) /\ s.at = "DmaData" /\ peer.state.at = "DmaData" /\ Pins.request
  BY <1>1, DataHas
<1>3. Pins.strobe = None
  <2>1. Strobed(s, Bus, Pins.strobe)
    BY <1>1, <1>2, PinsIs, StrobedIs
  <2>2. QED
    BY <1>1, <1>2, <2>1 DEF Strobed, ForHost
<1>4. PeerShape(peer) /\ (\E data : peer' \in P!Clock(peer, Pins, data))
  BY TimedHas DEF OnTime, Timed
<1>5. QED
  BY <1>2, <1>3, <1>4, PeerTransfers

\* A word for the chip is on the link when the QIC has it, and has not waited for long.
LEMMA WordGoes ==
  ASSUME LimitSuffices, OnTime, NEW a, NEW b, NEW e, NEW c, Timed(a, b, e, c),
         qic.state.at = "DmaData", qic.state.request.direction = "HostToDevice",
         qic.state.buffer # None, ~Q!WorkerAddressCycle(Bus)
  PROVE  /\ a \in Forth /\ a.tag = "DmaRead" /\ ~Q!TimedOut(qic.state.wait)
         /\ link.q2d = None => qic.state.wait = 0
         /\ link.q2d # None => link.q2d.left = 1
<1>1. PICK s : s = qic.state
  OBVIOUS
<1>2. /\ Held(qic) = s /\ BurstShape(s) /\ s.wait \in Nat /\ ~ForHost(s)
      /\ (Bus.grant \/ Q!FinalReadBuffer(s)) /\ Timeout \in Nat /\ Timeout >= 8
  <2>1. ~ForHost(s)
    BY <1>1 DEF ForHost
  <2>2. QED
    BY <1>1, <2>1, DataHas, TimeoutAssumption DEF LimitSuffices
<1>3. ~OnLink(link.d2q, "DmaWrite")
  <2>1. link.d2q # None => b = link.d2q
    BY TimedHas DEF OnTime
  <2>2. ~OnLink(b, "DmaWrite")
    BY WordOf
  <2>3. QED
    BY <2>1, <2>2 DEF OnLink
<1>4. CASE link.q2d # None
  <2>1. a = link.q2d
    BY <1>4, TimedHas DEF OnTime
  <2>2. OnLink(a, "DmaRead")
    BY <1>4, <2>1 DEF OnTime, AccessInTime, OnLink
  <2>3. a \in Forth
    BY <2>2, OnItsWayIs DEF OnItsWay, OnLink
  <2>4. HalfOnLink(s, link.q2d, "QicToDevice")
    BY <1>1, <1>4, <2>2, WordOf
  <2>5. ~Q!TimedOut(s.wait) /\ link.q2d.left = 1
    BY <1>2, <2>4 DEF HalfOnLink, Q!TimedOut
  <2>6. QED
    BY <1>1, <1>4, <2>2, <2>3, <2>5 DEF OnLink
<1>5. CASE link.q2d = None
  <2>1. s.wait = 0
    BY <1>1, <1>2, <1>3, <1>5 DEF OnTime, BurstInTime, WordOnTheLink
  <2>2. ~Q!TimedOut(s.wait)
    BY <1>2, <2>1 DEF Q!TimedOut
  <2>3. Signals.read = s.buffer
    BY <1>1, <1>2, <2>2 DEF Signals, Q!ToDevice
  <2>4. /\ Begun(link, e, Signals, Device) /\ a = e.link.q2d /\ SignalsFit(qic, Bus, Device, Signals)
    BY TimedHas DEF OnTime, Ongoing, Slots
  <2>5. ~Signals.cancel /\ Signals.mmio = None
    BY <1>1, <2>4 DEF SignalsFit
  <2>6. PICK n : n = L!Notified(link, Signals)
    OBVIOUS
  <2>7. a = L!ToDeviceMessage(n, Signals)
    BY <1>5, <2>4, <2>6 DEF Begun
  <2>8. a = L!Message("DmaRead", s.buffer, 2)
    BY <1>1, <2>3, <2>5, <2>7 DEF L!ToDeviceMessage, L!WordTokens
  <2>9. s.buffer \in Handles
    BY <1>1, <1>2, StageHas
  <2>10. a \in Forth /\ a.tag = "DmaRead"
    BY <2>8, <2>9 DEF L!Message, Forth, MessagesOf
  <2>11. QED
    BY <1>1, <1>5, <2>1, <2>2, <2>10
<1>6. QED
  BY <1>4, <1>5

\* It is taken in this clock or the next.
LEMMA ReadTimely ==
  ASSUME LimitSuffices, OnTime, NEW a, NEW b, NEW e, NEW c, Timed(a, b, e, c),
         qic.state.at = "DmaData", qic.state.request.direction = "HostToDevice",
         qic.state.buffer # None, ~Q!WorkerAddressCycle(Bus), Serving'
  PROVE  BurstInTime' \/ FailedBurst'
<1>1. PICK s, p : s = qic.state /\ p = peer.state
  OBVIOUS
<1>2. /\ s = Q!DmaData(s.request, s.completed, s.wait, s.buffer) /\ BurstShape(s)
      /\ s.at = "DmaData" /\ s.wait \in Nat /\ s.completed \in Nat
      /\ (~Q!FinalReadBuffer(s) => p.at = "DmaData" /\ p.wait \in Nat /\ p.wait <= Timeout - 2)
      /\ qic'.state = Q!FromDmaData(s, Bus, ToCard)
      /\ (qic'.state.at \notin Q!WorkerStates => Held(qic') = qic'.state)
  BY <1>1, DataHas
<1>3. ~ForHost(s) /\ (~Q!FinalReadBuffer(s) => peer'.state = p)
  <2>1. ~ForHost(s)
    BY <1>1 DEF ForHost
  <2>2. QED
    BY <1>1, <2>1, NoStrobe
<1>4. /\ a \in Forth /\ a.tag = "DmaRead" /\ ~Q!TimedOut(s.wait)
      /\ (link.q2d = None => s.wait = 0)
  BY <1>1, WordGoes
<1>5. Clocked(a, b) /\ Same(link'.q2d, a) /\ Same(link'.d2q, b)
  BY TimedHas DEF OnTime
<1>6. ~OnLink(link'.d2q, "DmaWrite")
  <2>1. ~OnLink(b, "DmaWrite")
    BY WordOf
  <2>2. QED
    BY <1>5, <2>1 DEF OnLink, Same
<1>7. qic'.state = IF ~ToCard.readReady THEN [s EXCEPT !.wait = @ + 1]
                   ELSE IF s.completed = s.request.words THEN Q!DmaComplete("Ok", s.completed)
                   ELSE Q!DmaData(s.request, s.completed, 0, None)
  BY <1>1, <1>2, <1>4 DEF Q!FromDmaData, Q!ReadWord
<1>8. CASE ToCard.readReady /\ s.completed = s.request.words
  <2>1. qic'.state = Q!DmaComplete("Ok", s.completed)
    BY <1>7, <1>8
  <2>2. Held(qic').at = "DmaComplete" /\ Held(qic').status = "Ok"
    BY <1>2, <2>1 DEF Q!DmaComplete, Q!WorkerStates
  <2>3. QED
    BY <2>2, EndsInTime
<1>9. CASE ToCard.readReady /\ s.completed # s.request.words
  <2>1. PICK n : n = Q!DmaData(s.request, s.completed, 0, None)
    OBVIOUS
  <2>2. qic'.state = n
    BY <1>7, <1>9, <2>1
  <2>3. Held(qic') = n
    BY <1>2, <2>1, <2>2 DEF Q!DmaData, Q!WorkerStates
  <2>4. n.at = "DmaData" /\ n.wait = 0 /\ ForHost(n)
    BY <1>1, <2>1 DEF Q!DmaData, ForHost
  <2>5. peer'.state = p /\ p.at = "DmaData" /\ p.wait <= Timeout - 2 /\ 0 + p.wait <= Timeout - 2
    BY <1>2, <1>3, <1>9 DEF Q!FinalReadBuffer
  <2>6. QED
    BY <1>6, <2>3, <2>4, <2>5 DEF BurstInTime
<1>10. CASE ~ToCard.readReady
  <2>1. /\ link.q2d = None /\ link'.q2d # None /\ link'.q2d.tag = "DmaRead"
        /\ link'.q2d.left = 1 /\ link'.last = "QicToDevice"
    <3>1. ToCard.readReady = Moves.toQic.readReady
      BY <1>5 DEF Clocked
    <3>2. ~Got(a, Moves)
      BY <1>4, <1>10, <3>1 DEF Got
    <3>3. QED
      BY <1>4, <3>2, ForthIs
  <2>2. PICK n : n = [s EXCEPT !.wait = @ + 1]
    OBVIOUS
  <2>3. n = Q!DmaData(s.request, s.completed, 1, s.buffer)
    BY <1>2, <1>4, <2>1, <2>2 DEF Q!DmaData
  <2>4. qic'.state = n
    BY <1>7, <1>10, <2>2
  <2>5. Held(qic') = n
    BY <1>2, <2>3, <2>4 DEF Q!DmaData, Q!WorkerStates
  <2>6. n.at = "DmaData" /\ n.wait = 1 /\ ~ForHost(n) /\ (Q!FinalReadBuffer(s) => Q!FinalReadBuffer(n))
    BY <1>1, <2>3 DEF Q!DmaData, ForHost, Q!FinalReadBuffer
  <2>7. ~Q!FinalReadBuffer(n) => peer'.state.at = "DmaData" /\ peer'.state.wait <= Timeout - 2
    BY <1>2, <1>3, <2>6
  <2>8. link'.q2d # None /\ link'.q2d.tag = "DmaRead" /\ n.wait <= 1 /\ link'.q2d.left = 1
        /\ link'.last = "QicToDevice"
    BY <2>1, <2>6
  <2>9. QED
    BY <2>5, <2>6, <2>7, <2>8 DEF BurstInTime, WordOnTheLink, HalfOnLink
<1>11. QED
  BY <1>8, <1>9, <1>10

\* A chip that has the next word for the QIC sends it.
LEMMA WriterIs ==
  ASSUME OnTime, NEW a, NEW b, NEW e, NEW c, Timed(a, b, e, c), qic.state.at = "DmaData",
         qic.state.request.direction # "HostToDevice", qic.state.buffer = None
  PROVE  /\ qdx.state = "CqSend" /\ qdx.response = None /\ Device.write \in Handles
         /\ Device.response = None /\ Device.dma = None
         /\ link.d2q # None => OnLink(link.d2q, "DmaWrite")
<1>1. PICK s : s = qic.state
  OBVIOUS
<1>2. /\ Held(qic) = s /\ s.at = "DmaData" /\ BurstShape(s) /\ s.completed \in Nat
      /\ InBurst(Held(qic)) /\ Held(qic).at # "DmaComplete" /\ RequestOf(Held(qic)) = s.request
  BY <1>1, DataHas DEF InBurst, RequestOf
<1>3. RoomInv /\ WholeInv /\ Serving /\ ChipRoom(qdx) /\ Based(qdx) /\ LinkShape(link) /\ OneNotification
  BY TimedHas DEF OnTime
<1>4. qdx.state \in {"CqSend", "CqCompletion"} /\ s.request.words = CqWords
  BY <1>1, <1>2, <1>3, BurstIs
<1>5. s.completed < s.request.words /\ CqWords \in Nat
  BY <1>1, <1>2, <1>4, StageHas DEF BurstShape
<1>6. CompletionLeaves /\ CompletionMade
  BY <1>3 DEF WholeInv
<1>7. qdx.state = "CqSend" /\ qdx.cqWord \in 0..CqWords - 1 /\ qdx.completion = Present
  <2>1. Sent = s.completed + One(s.buffer)
    BY <1>2, <1>4, <1>6 DEF CompletionLeaves
  <2>2. Sent = s.completed
    BY <1>1, <1>2, <2>1 DEF One
  <2>3. qdx.state # "CqCompletion"
    BY <1>4, <1>5, <2>2, <1>2 DEF Sent
  <2>4. QED
    BY <1>4, <1>6, <2>3 DEF CompletionLeaves, CompletionMade
<1>8. qdx.response = None
  BY <1>1, <1>2 DEF OnTime, AccessInTime
<1>9. Device.write \in Handles
  BY <1>3, <1>7, PresentShaped DEF Device, QicPort
<1>10. Device.response = None /\ Device.dma = None
  BY <1>3, <1>7, <1>8, WantedIs DEF Device, QicPort, ChipRoom, Requesting
<1>11. link.d2q # None => OnLink(link.d2q, "DmaWrite")
  <2>1. ~OnLink(link.d2q, "MmioResponse") /\ ~OnLink(link.d2q, "DmaRequest")
    BY <1>1, <1>2, <1>7 DEF OnTime, AccessInTime, Serving, Requesting
  <2>2. ~OnLink(link.d2q, "NotificationRequest")
    BY <1>3, <1>7 DEF OneNotification, LinkNotifies, OnLink
  <2>3. QED
    BY <1>3, <2>1, <2>2 DEF OnLink, LinkShape, MessageShape, ToQicTags
<1>12. QED
  BY <1>7, <1>8, <1>9, <1>10, <1>11

\* The word is on the link when the QIC can take it.
LEMMA WriteGoes ==
  ASSUME LimitSuffices, OnTime, NEW a, NEW b, NEW e, NEW c, Timed(a, b, e, c),
         qic.state.at = "DmaData", qic.state.request.direction # "HostToDevice",
         qic.state.buffer = None
  PROVE  /\ a = None /\ OnLink(b, "DmaWrite") /\ b.body # None /\ b.left \in 1..2
         /\ Signals.writeReady /\ ~Q!TimedOut(qic.state.wait)
         /\ link.d2q = None => qic.state.wait = 0
         /\ link.d2q # None => b.left = 1
<1>1. PICK s : s = qic.state
  OBVIOUS
<1>2. /\ Held(qic) = s /\ s.at = "DmaData" /\ BurstShape(s) /\ s.wait \in Nat /\ ~ForHost(s)
      /\ ~Q!FinalReadBuffer(s) /\ Bus.grant /\ ~Q!WorkerAddressCycle(Bus)
      /\ Timeout \in Nat /\ Timeout >= 8
  <2>1. ~ForHost(s) /\ ~Q!FinalReadBuffer(s)
    BY <1>1 DEF ForHost, Q!FinalReadBuffer
  <2>2. QED
    BY <1>1, <2>1, DataHas, TimeoutAssumption DEF LimitSuffices
<1>3. /\ qdx.state = "CqSend" /\ Device.write \in Handles
      /\ Device.response = None /\ Device.dma = None
      /\ (link.d2q # None => OnLink(link.d2q, "DmaWrite"))
  BY WriterIs
<1>4. ~WordOnTheLink
  BY <1>3 DEF OnTime, Serving
<1>5. /\ (link.d2q # None => b = link.d2q) /\ Begun(link, e, Signals, Device) /\ b = e.link.d2q
      /\ LinkShape(link)
  BY TimedHas DEF OnTime, Ongoing, Slots
<1>6. ~Q!TimedOut(s.wait) => Signals.writeReady
  <2>1. s.completed < s.request.words /\ s.request.direction = "DeviceToHost"
    BY <1>1, <1>2, StageHas DEF BurstShape
  <2>2. QED
    BY <1>1, <1>2, <2>1 DEF Signals, Q!ToDevice, Q!LocalTail
<1>7. ASSUME link.d2q # None
      PROVE  OnLink(b, "DmaWrite") /\ b.body # None /\ b.left = 1 /\ ~Q!TimedOut(s.wait)
  <2>1. b = link.d2q /\ OnLink(b, "DmaWrite")
    BY <1>3, <1>5, <1>7
  <2>2. HalfOnLink(s, link.d2q, "DeviceToQic")
    BY <1>1, <1>7, <2>1, WordOf
  <2>3. b.left = 1 /\ ~Q!TimedOut(s.wait)
    BY <1>2, <2>1, <2>2 DEF HalfOnLink, Q!TimedOut
  <2>4. b.body # None
    BY <2>1, BodiesAre, TimedHas DEF OnTime
  <2>5. QED
    BY <1>1, <1>7, <2>1, <2>3, <2>4
<1>8. ASSUME link.d2q = None
      PROVE  OnLink(b, "DmaWrite") /\ b.body # None /\ b.left = 2 /\ ~Q!TimedOut(s.wait) /\ s.wait = 0
  <2>1. s.wait = 0
    BY <1>1, <1>2, <1>4, <1>8 DEF OnTime, BurstInTime, OnLink
  <2>2. ~Q!TimedOut(s.wait)
    BY <1>2, <2>1 DEF Q!TimedOut
  <2>3. Signals.writeReady
    BY <2>2, <1>6
  <2>4. PICK n : n = L!Notified(link, Signals)
    OBVIOUS
  <2>5. b = L!ToQicMessage(n, Signals, Device)
    BY <1>5, <1>8, <2>4 DEF Begun
  <2>6. Device.write # None
    BY <1>3, NoneIsNoValue
  <2>7. b = L!Message("DmaWrite", Device.write, 2)
    BY <1>3, <2>3, <2>5, <2>6 DEF L!ToQicMessage, L!WordTokens
  <2>8. b \in MessagesOf("DmaWrite", Handles)
    BY <1>3, <2>7 DEF MessagesOf, L!Message
  <2>9. b # None
    BY <2>8, NoneIsNoValue
  <2>10. QED
    BY <1>1, <1>8, <2>1, <2>2, <2>6, <2>7, <2>9 DEF OnLink, L!Message
<1>9. ~Q!TimedOut(s.wait) /\ OnLink(b, "DmaWrite")
  BY <1>7, <1>8
<1>10. Signals.writeReady
  BY <1>9, <1>6
<1>11. a = None
  <2>1. b # None
    BY <1>9 DEF OnLink
  <2>2. QED
    BY <1>1, <1>2, <2>1, OnItsWayIs DEF OnItsWay
<1>12. QED
  BY <1>1, <1>7, <1>8, <1>10, <1>11

\* The QIC takes it in this clock or the next.
LEMMA WriteTimely ==
  ASSUME LimitSuffices, OnTime, NEW a, NEW b, NEW e, NEW c, Timed(a, b, e, c),
         qic.state.at = "DmaData", qic.state.request.direction # "HostToDevice",
         qic.state.buffer = None
  PROVE  BurstInTime'
<1>1. PICK s, p : s = qic.state /\ p = peer.state
  OBVIOUS
<1>2. /\ ~ForHost(s) /\ ~Q!FinalReadBuffer(s)
      /\ s = Q!DmaData(s.request, s.completed, s.wait, s.buffer) /\ s.at = "DmaData"
      /\ s.wait \in Nat /\ p.at = "DmaData" /\ p.wait <= Timeout - 2 /\ peer'.state = p
      /\ qic'.state = Q!FromDmaData(s, Bus, ToCard)
      /\ (qic'.state.at \notin Q!WorkerStates => Held(qic') = qic'.state)
  <2>1. ~ForHost(s) /\ ~Q!FinalReadBuffer(s)
    BY <1>1 DEF ForHost, Q!FinalReadBuffer
  <2>2. QED
    BY <1>1, <2>1, DataHas, NoStrobe
<1>3. /\ a = None /\ OnLink(b, "DmaWrite") /\ b.body # None /\ b.left \in 1..2
      /\ Signals.writeReady /\ ~Q!TimedOut(s.wait)
      /\ (link.d2q = None => s.wait = 0) /\ (link.d2q # None => b.left = 1)
  BY <1>1, WriteGoes
<1>4. qic'.state = IF ToCard.write # None THEN Q!DmaData(s.request, s.completed, 0, ToCard.write)
                   ELSE [s EXCEPT !.wait = @ + 1]
  BY <1>1, <1>2, <1>3 DEF Q!FromDmaData, Q!WriteWord
<1>5. /\ a = e.link.q2d /\ b = e.link.d2q /\ link' = Moves.link /\ Known /\ Ongoing(a, b, e, c)
      /\ ToCard.write = Moves.toQic.write /\ Clocked(a, b) /\ Slots(e, c)
  <2>1. /\ Known /\ Ongoing(a, b, e, c) /\ Clocked(a, b) /\ a = e.link.q2d /\ b = e.link.d2q
        /\ link' = Moves.link
    BY TimedHas DEF OnTime
  <2>2. ToCard.write = Moves.toQic.write
    BY <2>1 DEF Clocked
  <2>3. Slots(e, c)
    BY <2>1 DEF Ongoing
  <2>4. QED
    BY <2>1, <2>2, <2>3
<1>6. e.link.last \in Directions /\ TypedBack(e.link)
  BY <1>5, TypedBegun
<1>7. /\ link'.q2d = None
      /\ \/ link'.d2q = None /\ ToCard.write = b.body
         \/ b.left = 2 /\ OnLink(link'.d2q, "DmaWrite") /\ link'.d2q.left = 1
            /\ link'.last = "DeviceToQic"
  <2>1. Slotted(e, c, Signals, Device) /\ Slotted(c, Moves, Signals, Device)
    BY <1>5 DEF Slots
  <2>2. /\ e.link.q2d = None /\ OnLink(e.link.d2q, "DmaWrite") /\ e.link.d2q.left \in 1..2
        /\ Signals.writeReady
    BY <1>3, <1>5
  <2>3. /\ Moves.link.q2d = None
        /\ \/ Moves.link.d2q = None /\ Moves.toQic.write = e.link.d2q.body
           \/ /\ e.link.d2q.left = 2
              /\ OnLink(Moves.link.d2q, "DmaWrite") /\ Moves.link.d2q.left = 1
              /\ Moves.link.last = "DeviceToQic"
    BY <1>6, <2>1, <2>2, WordCycle
  <2>4. QED
    BY <1>5, <2>3
<1>8. ~WordOnTheLink'
  BY <1>7 DEF WordOnTheLink
<1>9. CASE link'.d2q = None /\ ToCard.write = b.body
  <2>1. PICK n : n = Q!DmaData(s.request, s.completed, 0, ToCard.write)
    OBVIOUS
  <2>2. qic'.state = n
    BY <1>3, <1>4, <1>9, <2>1
  <2>3. Held(qic') = n
    BY <1>2, <2>1, <2>2 DEF Q!DmaData, Q!WorkerStates
  <2>4. n.at = "DmaData" /\ n.wait = 0 /\ ForHost(n)
    BY <1>1, <1>3, <1>9, <2>1 DEF Q!DmaData, ForHost
  <2>5. 0 + p.wait <= Timeout - 2 /\ ~OnLink(link'.d2q, "DmaWrite")
    <3>1. p.wait \in Nat
      BY <1>1, <1>2, BurstBus
    <3>2. QED
      BY <1>2, <1>9, <3>1 DEF OnLink
  <2>6. QED
    BY <1>2, <2>3, <2>4, <2>5 DEF BurstInTime
<1>10. CASE b.left = 2 /\ OnLink(link'.d2q, "DmaWrite") /\ link'.d2q.left = 1
            /\ link'.last = "DeviceToQic"
  <2>1. ToCard.write = None
    BY <1>5, <1>10, GivenIs DEF OnLink
  <2>2. s.wait = 0
    BY <1>3, <1>10
  <2>3. PICK n : n = [s EXCEPT !.wait = @ + 1]
    OBVIOUS
  <2>4. n = Q!DmaData(s.request, s.completed, 1, s.buffer)
    BY <1>2, <2>2, <2>3 DEF Q!DmaData
  <2>5. qic'.state = n
    BY <1>4, <2>1, <2>3
  <2>6. Held(qic') = n
    BY <1>2, <2>4, <2>5 DEF Q!DmaData, Q!WorkerStates
  <2>7. n.at = "DmaData" /\ n.wait = 1 /\ ~ForHost(n)
    BY <1>1, <2>4 DEF Q!DmaData, ForHost
  <2>8. n.wait <= 1 /\ link'.d2q.left = 1 /\ link'.last = "DeviceToQic"
    BY <1>10, <2>7
  <2>9. QED
    BY <1>2, <1>8, <1>10, <2>6, <2>7, <2>8 DEF BurstInTime, HalfOnLink
<1>11. QED
  BY <1>7, <1>9, <1>10

\* What the QIC keeps through a register access has no word on the link.
LEMMA KeptTimely ==
  ASSUME LimitSuffices, OnTime, NEW a, NEW b, NEW e, NEW c, Timed(a, b, e, c), Serving',
         Held(qic') = Held(qic), Q!WorkerAddressCycle(Bus) \/ qic.state.at # "DmaData",
         Held(qic).at # "DmaAddress"
  PROVE  BurstInTime'
<1>1. PICK h : h = Held(qic)
  OBVIOUS
<1>2. QicShape(qic) /\ QicShape(qic') /\ RoomInv /\ WholeInv /\ InService(a, b) /\ Clocked(a, b)
      /\ Same(link'.q2d, a) /\ Same(link'.d2q, b)
      /\ (link.q2d # None => a = link.q2d) /\ (link.d2q # None => b = link.d2q)
  BY TimedHas DEF OnTime
<1>3. CASE h.at = "DmaComplete"
  BY <1>1, <1>3, EndKept DEF BurstInTime
<1>4. CASE h.at = "DmaData"
  <2>1. Q!FinalReadBuffer(h) /\ (qic.state.at = "DmaData" => h = qic.state)
    <3>1. CASE qic.state.at \in Q!WorkerStates
      BY <1>1, <1>2, <1>4, <3>1, HeldFree DEF Q!WorkerStates, Q!LocalTail, InBurst, ForBus
    <3>2. CASE qic.state.at \notin Q!WorkerStates
      <4>1. h = qic.state
        BY <1>1, <1>2, <3>2, HeldFree
      <4>2. Q!WorkerAddressCycle(Bus)
        BY <1>4, <4>1
      <4>3. QED
        BY <1>4, <4>1, <4>2, DataHas
    <3>3. QED
      BY <3>1, <3>2
  <2>2. h.request.direction = "HostToDevice" /\ h.buffer # None /\ ~ForHost(h)
    BY <2>1 DEF Q!FinalReadBuffer, ForHost
  <2>3. ~OnLink(b, "DmaWrite")
    BY <1>1, <2>2, WordOf
  <2>4. ~WordOnTheLink /\ ~WordOnTheLink'
    <3>1. CASE qic.state.at # "DmaData"
      <4>1. ~OnLink(a, "DmaRead")
        BY <3>1, WordOf
      <4>2. QED
        BY <1>2, <4>1 DEF OnLink, Same, WordOnTheLink
    <3>2. CASE qic.state.at = "DmaData" /\ Q!WorkerAddressCycle(Bus)
      <4>1. h = qic.state /\ Q!LocalTail(qic.state)
        BY <2>1, <3>2 DEF Q!LocalTail
      <4>2. Interrupted(qic, Bus) /\ QicRecord(qic) /\ ~Bus.reset /\ Bus.grant \in BOOLEAN
            /\ qic.grantUsed \in BOOLEAN /\ qic' = Q!Clock(qic, Bus, ToCard)
            /\ Bus.address.valid
        BY <3>2, <4>1, TimedHas DEF OnTime, Interrupted, QicShape, QicRecord, BusShape
      <4>3. qic'.tail = qic.state
        BY <3>2, <4>2, ClockIs
      <4>4. qic.state # None
        <5>1. BurstShape(h) /\ h \in Stages
          BY <1>1, <1>4, TimedHas DEF OnTime, BurstShape
        <5>2. QED
          BY <4>1, <5>1, NoneIsNoValue
      <4>5. qic.tail = None
        BY <1>2, <3>2 DEF QicShape, Q!WorkerStates
      <4>6. ~WordOnTheLink
        BY <1>2, <4>3, <4>4, <4>5 DEF InService
      <4>7. ~WordOnTheLink'
        BY <4>3, <4>4 DEF Serving
      <4>8. QED
        BY <4>6, <4>7
    <3>3. QED
      BY <3>1, <3>2
  <2>5. ~OnLink(link.d2q, "DmaWrite") /\ ~OnLink(link'.d2q, "DmaWrite")
    BY <1>2, <2>3 DEF OnLink, Same
  <2>6. h.wait = 0
    BY <1>1, <1>4, <2>2, <2>4, <2>5 DEF OnTime, BurstInTime
  <2>7. PICK n : n = Held(qic') /\ n = h
    BY <1>1
  <2>8. QED
    BY <1>4, <2>1, <2>2, <2>4, <2>5, <2>6, <2>7 DEF BurstInTime
<1>5. CASE h.at \notin {"DmaAddress", "DmaData", "DmaComplete"}
  BY <1>1, <1>5 DEF BurstInTime
<1>6. QED
  BY <1>1, <1>3, <1>4, <1>5

\* The burst after a clock.
LEMMA BurstTimely ==
  ASSUME LimitSuffices, OnTime, NEW a, NEW b, NEW e, NEW c, Timed(a, b, e, c), Serving'
  PROVE  BurstInTime' \/ FailedBurst'
<1>1. PICK h : h = Held(qic)
  OBVIOUS
<1>2. /\ QicShape(qic) /\ HoldMoves(qic, qic', Bus, ToCard) /\ BurstShape(h)
      /\ QicRecord(qic) /\ ~Bus.reset /\ Bus.grant \in BOOLEAN /\ qic.grantUsed \in BOOLEAN
      /\ qic' = Q!Clock(qic, Bus, ToCard) /\ (Q!WorkerAddressCycle(Bus) => Bus.address.valid)
  <2>1. /\ QicShape(qic) /\ Clocked(a, b) /\ BurstShape(Held(qic)) /\ BusShape(Bus) /\ ~Bus.reset
        /\ qic' = Q!Clock(qic, Bus, ToCard)
    BY TimedHas DEF OnTime
  <2>2. HoldMoves(qic, qic', Bus, ToCard)
    BY <2>1 DEF Clocked
  <2>3. QED
    BY <1>1, <2>1, <2>2 DEF QicShape, QicRecord, BusShape
<1>3. ASSUME Held(qic').at \notin {"DmaAddress", "DmaData", "DmaComplete"}
      PROVE  BurstInTime'
  BY <1>3 DEF BurstInTime
<1>4. CASE ~InBurst(h)
  BY <1>1, <1>2, <1>3, <1>4, NoBurst
<1>5. CASE InBurst(h) /\ qic.state.at \in Q!WorkerStates
  <2>1. h # qic.state
    BY <1>5 DEF InBurst, ForBus, Q!WorkerStates
  <2>2. \/ Held(qic') = h /\ h.at # "DmaAddress"
        \/ ~InBurst(Held(qic'))
    BY <1>1, <1>2, <1>5, <2>1 DEF HoldMoves, Keeping
  <2>3. CASE Held(qic') = h /\ h.at # "DmaAddress"
    BY <1>1, <1>5, <2>3, KeptTimely DEF Q!WorkerStates
  <2>4. CASE ~InBurst(Held(qic'))
    BY <1>3, <2>4 DEF InBurst
  <2>5. QED
    BY <2>2, <2>3, <2>4
<1>6. CASE qic.state.at \notin Q!WorkerStates /\ ForBus(h)
  <2>1. h = qic.state /\ h.at = "RequestBus" /\ qic.tail = None
    BY <1>1, <1>2, <1>6, HeldFree DEF ForBus
  <2>2. CASE ~Q!WorkerAddressCycle(Bus)
    BY <2>1, <2>2, BusGiven
  <2>3. CASE Q!WorkerAddressCycle(Bus)
    <3>1. Interrupted(qic, Bus)
      BY <2>1, <2>3 DEF Interrupted
    <3>2. qic'.state = Q!StartWorker(Bus) /\ qic'.tail = None
      BY <1>2, <2>1, <2>3, <3>1, ClockIs
    <3>3. Held(qic').at \notin {"DmaAddress", "DmaData", "DmaComplete"}
      BY <3>2 DEF Held, Q!StartWorker, Q!WorkerData, Q!RequestBus
    <3>4. QED
      BY <1>3, <3>3
  <2>4. QED
    BY <2>2, <2>3
<1>7. CASE qic.state.at \notin Q!WorkerStates /\ h.at = "DmaAddress"
  BY <1>1, <1>2, <1>7, HeldFree, AddressTimely
<1>8. CASE qic.state.at \notin Q!WorkerStates /\ h.at = "DmaData"
  <2>1. h = qic.state /\ qic.tail = None
    BY <1>1, <1>2, <1>8, HeldFree
  <2>2. CASE Q!WorkerAddressCycle(Bus)
    <3>1. Q!LocalTail(qic.state) /\ Interrupted(qic, Bus)
      BY <1>8, <2>1, <2>2, DataHas DEF Q!LocalTail, Interrupted
    <3>2. qic'.tail = h
      BY <1>2, <1>8, <2>1, <2>2, <3>1, ClockIs
    <3>3. h # None
      BY <1>2, <1>8, NoneIsNoValue DEF BurstShape
    <3>4. Held(qic') = h
      BY <3>2, <3>3 DEF Held
    <3>5. QED
      BY <1>1, <1>8, <2>2, <3>4, KeptTimely
  <2>3. CASE ~Q!WorkerAddressCycle(Bus) /\ ForHost(h)
    BY <1>8, <2>1, <2>3, HostTimely
  <2>4. CASE ~Q!WorkerAddressCycle(Bus) /\ ~ForHost(h) /\ h.request.direction = "HostToDevice"
    BY <1>8, <2>1, <2>4, ReadTimely DEF ForHost
  <2>5. CASE ~ForHost(h) /\ h.request.direction # "HostToDevice"
    BY <1>8, <2>1, <2>5, WriteTimely DEF ForHost
  <2>6. QED
    BY <2>2, <2>3, <2>4, <2>5
<1>9. CASE qic.state.at \notin Q!WorkerStates /\ h.at = "DmaComplete"
  <2>1. h = qic.state
    BY <1>1, <1>2, <1>9, HeldFree
  <2>2. Held(qic') = h \/ Held(qic').at \notin {"DmaAddress", "DmaData", "DmaComplete"}
    <3>1. InBurst(h) /\ ~ForBus(h)
      BY <1>9 DEF InBurst, ForBus
    <3>2. BurstMoves(h, Bus, ToCard, Held(qic')) => Held(qic') \in {h, Q!Idle}
      BY <1>9, <3>1 DEF BurstMoves
    <3>3. QED
      BY <1>1, <1>2, <3>1, <3>2 DEF HoldMoves, Q!Idle
  <2>3. CASE Held(qic') = h
    BY <1>1, <1>9, <2>1, <2>3, KeptTimely
  <2>4. QED
    BY <1>3, <2>2, <2>3
<1>10. QED
  BY <1>4, <1>5, <1>6, <1>7, <1>8, <1>9 DEF InBurst

\* A burst that has failed stays as it is.
LEMMA FailedStays ==
  ASSUME Known, Serving, FailedBurst, NEW a, NEW b, NEW e, NEW c, Timed(a, b, e, c)
  PROVE  FailedBurst'
<1>1. PICK h : h = Held(qic)
  OBVIOUS
<1>2. /\ RoomInv /\ Clocked(a, b) /\ InService(a, b) /\ SignalsFit(qic, Bus, Device, Signals)
      /\ Same(link'.q2d, a) /\ Same(link'.d2q, b)
  BY TimedHas
<1>3. /\ h.at = "DmaComplete" /\ h.status # "Timeout" /\ qdx.state \notin Completing
      /\ ~WordOnTheLink /\ ~OnLink(link.d2q, "DmaWrite")
  BY <1>1 DEF FailedBurst
<1>4. ToChip.completion = None /\ ~ToCard.completionReady
  BY <1>2, <1>3, GivenIs DEF Completing
<1>5. ~OnLink(a, "DmaRead") /\ ~OnLink(b, "DmaWrite")
  <2>1. Signals.read = None /\ ~Signals.writeReady
    BY <1>1, <1>2, <1>3 DEF SignalsFit
  <2>2. ToDeviceIs(a, link, Signals) /\ ToQicIs(b, link, Signals, Device)
    BY <1>2 DEF Clocked
  <2>3. ~OnLink(a, "DmaRead")
    BY <1>3, <2>1, <2>2 DEF ToDeviceIs, WordOnTheLink, OnLink
  <2>4. ~OnLink(b, "DmaWrite")
    BY <1>3, <2>1, <2>2 DEF ToQicIs, OnLink
  <2>5. QED
    BY <2>3, <2>4
<1>6. ~WordOnTheLink' /\ ~OnLink(link'.d2q, "DmaWrite")
  BY <1>2, <1>5 DEF WordOnTheLink, OnLink, Same
<1>7. ToChip.read = None /\ ~ToChip.writeReady
  BY <1>2, <1>5, GivenIs
<1>8. qdx'.state \notin Completing
  <2>1. qdx.state \in Served
    BY <1>1, <1>3 DEF Serving, InBurst
  <2>2. Engine(qdx, ToChip, Drive, qdx')
    BY <1>2, <2>1, EngineGoesOn
  <2>3. QED
    BY <1>3, <1>4, <1>7, <2>1, <2>2 DEF Engine, Stays, RequestTaken, WordTaken, WordGiven, BurstDone,
         CompletionTaken, Goes1, Served, Completing, Requesting
<1>9. Held(qic') = h
  <2>1. HoldMoves(qic, qic', Bus, ToCard) /\ InBurst(h) /\ ~ForBus(h)
    BY <1>2, <1>3 DEF Clocked, InBurst, ForBus
  <2>2. QED
    BY <1>1, <1>3, <1>4, <2>1 DEF HoldMoves, BurstMoves
<1>10. PICK n : n = Held(qic') /\ n = h
  BY <1>9
<1>11. QED
  BY <1>3, <1>6, <1>8, <1>10 DEF FailedBurst

LEMMA TimelyClock ==
  ASSUME LimitSuffices, NotifyInv, WholeInv, AnswersInv, ServedInv, AccessInv, TimelyInv, ServedInv',
         CardClock
  PROVE  TimelyInv'
<1>1. SUFFICES ASSUME ~seen'.stopped, ~seen'.repeats
               PROVE  FailedBurst' \/ (AccessInTime' /\ BurstInTime')
  BY DEF TimelyInv
<1>2. RoomInv /\ SameTransaction
  BY DEF NotifyInv
<1>3. ~seen.stopped /\ ~seen.repeats
  BY <1>1, <1>2, InServiceIs
<1>4. Known /\ Serving /\ Serving'
  BY <1>1, <1>2, <1>3 DEF NotifyInv, AccessInv, ServedInv, Known
<1>5. PICK a, b, e, c : Timed(a, b, e, c)
  BY <1>1, <1>4, TimedIs
<1>6. CASE FailedBurst
  BY <1>4, <1>5, <1>6, FailedStays
<1>7. CASE AccessInTime /\ BurstInTime
  <2>1. OnTime
    BY <1>4, <1>7 DEF OnTime
  <2>2. AccessInTime'
    BY <1>5, <2>1, AccessTimely
  <2>3. BurstInTime' \/ FailedBurst'
    BY <1>4, <1>5, <2>1, BurstTimely
  <2>4. QED
    BY <2>2, <2>3
<1>8. QED
  BY <1>3, <1>6, <1>7 DEF TimelyInv

LEMMA NewTimely ==
  qic = Q!NewQic /\ link = L!NewLink /\ qdx.response = None => AccessInTime /\ BurstInTime
<1>1. SUFFICES ASSUME qic = Q!NewQic, link = L!NewLink, qdx.response = None
               PROVE  AccessInTime /\ BurstInTime
  OBVIOUS
<1>2. /\ Held(qic).at = "Idle" /\ qic.state.at = "Idle"
      /\ link.q2d = None /\ link.d2q = None /\ link.done = None
  BY <1>1, MadeStates DEF Held, Q!NewQic, L!NewLink
<1>3. AccessInTime
  BY <1>1, <1>2 DEF AccessInTime, OnLink
<1>4. QED
  BY <1>2, <1>3 DEF BurstInTime

\* The driver starts an access only while the host does nothing for the card.
LEMMA TimelyDriven ==
  ASSUME RoomInv, TimelyInv, DriverAccess
  PROVE  TimelyInv'
<1>1. ShapeInv
  BY DEF RoomInv
<1>2. /\ peer.state.at = "Idle" /\ UNCHANGED <<qic, link, qdx>>
      /\ seen'.stopped = seen.stopped /\ seen'.repeats = seen.repeats
  <2>1. seen'.repeats = seen.repeats
    BY <1>1 DEF DriverAccess, ShapeInv, SeenShape
  <2>2. QED
    BY <1>1, <2>1, DriverAccessIs DEF P!Idle
<1>3. FailedBurst => FailedBurst'
  BY <1>2 DEF FailedBurst, WordOnTheLink
<1>4. AccessInTime => AccessInTime'
  BY <1>2 DEF AccessInTime, Behind, Ahead
<1>5. ASSUME BurstInTime PROVE BurstInTime'
  <2>1. Held(qic).at # "DmaAddress"
    BY <1>2, <1>5 DEF BurstInTime
  <2>2. Held(qic).at = "DmaData" => Q!FinalReadBuffer(Held(qic))
    BY <1>2, <1>5 DEF BurstInTime
  <2>3. Held(qic).at = "DmaData" => ~ForHost(Held(qic))
    BY <2>2 DEF Q!FinalReadBuffer, ForHost
  <2>4. Held(qic') = Held(qic) /\ (WordOnTheLink <=> WordOnTheLink')
    BY <1>2 DEF WordOnTheLink
  <2>5. PICK h : h = Held(qic)
    OBVIOUS
  <2>6. h.at = "DmaData" =>
          IF WordOnTheLink THEN HalfOnLink(h, link.q2d, "QicToDevice")
          ELSE IF OnLink(link.d2q, "DmaWrite") THEN HalfOnLink(h, link.d2q, "DeviceToQic")
          ELSE h.wait = 0
    BY <1>5, <2>3, <2>5 DEF BurstInTime
  <2>7. h.at = "DmaComplete" => h.status # "Timeout" /\ qdx.state \in Completing
    BY <1>5, <2>5 DEF BurstInTime
  <2>8. QED
    BY <1>2, <2>1, <2>2, <2>3, <2>4, <2>5, <2>6, <2>7 DEF BurstInTime, HalfOnLink
<1>6. QED
  BY <1>2, <1>3, <1>4, <1>5 DEF TimelyInv

(* TimelyInv is inductive on the invariants before it, when the limit suffices: while the chip
   has not been stopped, and the QIC repeats no word, each wait of the QIC for the link or the
   host is within what link and host still need, or the burst has failed and stays so. *)
THEOREM TimelyInvariant ==
  ASSUME LimitSuffices
  PROVE  Spec => []TimelyInv
<1>1. Init => TimelyInv
  BY NewTimely DEF Init, TimelyInv, NewQdx, HardReset
<1>2. /\ NotifyInv /\ WholeInv /\ AnswersInv /\ ServedInv /\ AccessInv /\ TimelyInv /\ ServedInv'
      /\ [Next]_cardVars
      => TimelyInv'
  <2>1. SUFFICES ASSUME NotifyInv, WholeInv, AnswersInv, ServedInv, AccessInv, TimelyInv, ServedInv',
                        [Next]_cardVars
                 PROVE  TimelyInv'
    OBVIOUS
  <2>2. CASE CardClock
    BY <2>1, <2>2, TimelyClock
  <2>3. CASE BusReset
    <3>1. (qic = Q!NewQic /\ link = L!NewLink /\ qdx.response = None => AccessInTime /\ BurstInTime)'
      BY NewTimely, PTL
    <3>2. qdx'.response = None
      BY <2>3, BusResetIs DEF HardReset, NewQdx
    <3>3. QED
      BY <2>3, <3>1, <3>2, BusResetIs DEF TimelyInv
  <2>4. CASE DriverAccess
    BY <2>1, <2>4, TimelyDriven DEF NotifyInv
  <2>5. CASE UNCHANGED cardVars
    <3>1. UNCHANGED <<qic, link, qdx, peer, seen>>
      BY <2>5 DEF cardVars
    <3>2. FailedBurst => FailedBurst'
      BY <3>1 DEF FailedBurst, WordOnTheLink
    <3>3. AccessInTime => AccessInTime'
      BY <3>1 DEF AccessInTime, Behind, Ahead
    <3>4. BurstInTime => BurstInTime'
      <4>1. Held(qic') = Held(qic) /\ peer'.state = peer.state /\ (WordOnTheLink <=> WordOnTheLink')
        BY <3>1 DEF WordOnTheLink
      <4>2. SUFFICES ASSUME BurstInTime PROVE BurstInTime'
        OBVIOUS
      <4>3. PICK h, p : h = Held(qic) /\ p = peer.state
        OBVIOUS
      <4>4. h.at = "DmaAddress" =>
              /\ h.wait \in Nat
              /\ IF p.at = "Grant" THEN h.wait = 0 ELSE p.at = "DmaAddress" /\ h.wait + p.wait <= Timeout - 2
        BY <4>2, <4>3 DEF BurstInTime
      <4>5. h.at = "DmaData" /\ ~Q!FinalReadBuffer(h) => p.at = "DmaData" /\ p.wait <= Timeout - 2
        BY <4>2, <4>3 DEF BurstInTime
      <4>6. h.at = "DmaData" /\ ForHost(h) => h.wait + p.wait <= Timeout - 2 /\ ~OnLink(link.d2q, "DmaWrite")
        BY <4>2, <4>3 DEF BurstInTime
      <4>7. h.at = "DmaData" /\ ~ForHost(h) =>
              IF WordOnTheLink THEN HalfOnLink(h, link.q2d, "QicToDevice")
              ELSE IF OnLink(link.d2q, "DmaWrite") THEN HalfOnLink(h, link.d2q, "DeviceToQic")
              ELSE h.wait = 0
        BY <4>2, <4>3 DEF BurstInTime
      <4>8. h.at = "DmaComplete" => h.status # "Timeout" /\ qdx.state \in Completing
        BY <4>2, <4>3 DEF BurstInTime
      <4>9. Held(qic') = h /\ peer'.state = p
        BY <4>1, <4>3
      <4>10. QED
        BY <3>1, <4>1, <4>4, <4>5, <4>6, <4>7, <4>8, <4>9 DEF BurstInTime, HalfOnLink
    <3>5. QED
      BY <2>1, <3>1, <3>2, <3>3, <3>4 DEF TimelyInv
  <2>6. QED
    BY <2>1, <2>2, <2>3, <2>4, <2>5 DEF Next
<1>3. QED
  BY <1>1, <1>2, NotifyInvariant, WholeInvariant, AnswersInvariant, ServedInvariant, AccessInvariant,
     PTL DEF Spec

(* A chip in service never has a burst end with "Timeout", when the limit suffices: link and
   host are always in time for the QIC. *)
THEOREM NoBurstTimesOutProved ==
  ASSUME LimitSuffices
  PROVE  Spec => []NoBurstTimesOut
<1>1. RoomInv /\ TimelyInv => NoBurstTimesOut
  <2>1. SUFFICES ASSUME RoomInv, TimelyInv, ~seen.stopped, ~seen.repeats, qic.state.at = "DmaComplete"
                 PROVE  qic.state.status # "Timeout"
    BY DEF NoBurstTimesOut
  <2>2. QicShape(qic)
    BY <2>1 DEF RoomInv, ShapeInv
  <2>3. Held(qic) = qic.state
    BY <2>1, <2>2, HeldFree DEF Q!WorkerStates
  <2>4. QED
    BY <2>1, <2>3 DEF TimelyInv, FailedBurst, BurstInTime
<1>2. QED
  BY <1>1, RoomInvariant, TimelyInvariant, PTL

-----------------------------------------------------------------------------
(* The entry a completion goes to.                                                            *)

\* The host begins a burst only when the QIC is in the address phase.
LEMMA AddressedIs ==
  ASSUME RoomInv, WholeInv, NEW a, NEW b, Clocked(a, b), qic.state.at # "DmaAddress"
  PROVE  peer'.address = peer.address
<1>1. Pins.strobe = Q!Strobe(qic.state, Bus) /\ PeerBurst(peer, Pins, peer')
  BY DEF Clocked, Pins, Q!CardPins
<1>2. ~Addressed(peer, Pins)
  BY <1>1 DEF Addressed, Q!Strobe
<1>3. QED
  BY <1>1, <1>2 DEF PeerBurst

\* A burst is at its words, or has succeeded.
AtWords(s) == s.at = "DmaData" \/ (s.at = "DmaComplete" /\ s.status = "Ok")

LEMMA AtWordsMoves ==
  ASSUME NEW s, NEW bus, NEW v, NEW n, BurstMoves(s, bus, v, n), AtWords(n)
  PROVE  (s.at = "DmaAddress" /\ bus.ack) \/ AtWords(s)
<1>1. ~Fails(n)
  BY MadeStates DEF AtWords, Fails, Q!DmaComplete
<1>2. n.at # "DmaAddress"
  BY DEF AtWords
<1>3. ~(ForBus(s) /\ n = Q!DmaAddress(s.work.request, 0)) /\ ~(\E w : n = Q!DmaAddress(s.request, w))
  BY <1>2, MadeStates
<1>4. s.at = "DmaComplete" => n = s
  BY <1>1, <1>3, MadeStates DEF BurstMoves, AtWords, ForBus
<1>5. QED
  BY <1>1, <1>3, <1>4 DEF BurstMoves, AtWords

LEMMA EntryKept ==
  ASSUME RoomInv, SameTransaction, WholeInv, EntryAddressed, NEW a, NEW b, Clocked(a, b),
         QicShape(qic')
  PROVE  EntryAddressed'
<1>1. PICK h, h2 : h = Held(qic) /\ h2 = Held(qic')
  OBVIOUS
<1>2. /\ ChipShape(qdx) /\ HoldMoves(qic, qic', Bus, ToCard) /\ PeerBurst(peer, Pins, peer')
      /\ StateAccess(qdx, ToChip, qdx') \/ EngineClock(qdx, ToChip, Drive, qdx')
  BY DEF Clocked, RoomInv, ShapeInv
<1>3. ASSUME qic'.state.at = "DmaAddress", peer'.state.at = "DmaAddress"
      PROVE  peer'.address = qic'.state.request.handle
  <2>1. /\ h = qic.state /\ h.at = "DmaAddress" /\ qic'.state.request = h.request
        /\ Strobed(h, Bus, Pins.strobe)
    BY <1>1, <1>3, AddressPhase
  <2>2. CASE Addressed(peer, Pins)
    BY <1>2, <2>1, <2>2 DEF PeerBurst, Strobed, Addressed
  <2>3. CASE ~Addressed(peer, Pins)
    <3>1. peer.state.at = "DmaAddress" /\ peer'.address = peer.address
      BY <1>2, <1>3, <2>3 DEF PeerBurst
    <3>2. QED
      BY <2>1, <3>1 DEF EntryAddressed
  <2>4. QED
    BY <2>2, <2>3
<1>4. ASSUME qdx'.state \in {"CqSend", "CqCompletion"}, AtWords(h2)
      PROVE  peer'.address = Entry(qdx'.cqBase, qdx'.cqTail, CqWords)
  <2>1. \/ qdx.state \in {"CqSend", "CqCompletion"} /\ Stays(qdx, ToChip, Drive, qdx')
        \/ WordGiven(qdx, ToChip, qdx')
        \/ qdx.state = "CqRequest" /\ RequestTaken(qdx, ToChip, qdx')
    <3>1. qdx'.state \in Served
      BY <1>4 DEF Served
    <3>2. \/ qdx.state \in Served /\ \/ Stays(qdx, ToChip, Drive, qdx')
                                     \/ WordTaken(qdx, ToChip, qdx')
                                     \/ WordGiven(qdx, ToChip, qdx')
          \/ qdx.state \in Requesting /\ RequestTaken(qdx, ToChip, qdx')
      BY <1>2, <3>1, ServedIs
    <3>3. QED
      BY <1>4, <3>2 DEF Stays, WordTaken, RequestTaken
  <2>2. InBurst(h)
    <3>1. h2.at \in {"DmaData", "DmaComplete"}
      BY <1>4 DEF AtWords
    <3>2. QED
      BY <1>1, <1>2, <3>1, NoBurst
  <2>3. ~(qdx.state = "CqRequest" /\ RequestTaken(qdx, ToChip, qdx'))
    BY <1>1, <2>2, RequestGivenIs DEF RequestTaken
  <2>4. qdx.state \in {"CqSend", "CqCompletion"} /\ qdx'.cqTail = qdx.cqTail
    BY <2>1, <2>3 DEF Stays, WordGiven, Keeps
  <2>5. qdx'.cqBase = qdx.cqBase
    <3>1. SameBases(qdx, qdx')
      BY <1>2, <1>4, AtWork
    <3>2. QED
      BY <3>1 DEF SameBases
  <2>6. \/ h2 = h /\ h.at # "DmaAddress"
        \/ h = qic.state /\ BurstMoves(h, Bus, ToCard, h2)
    <3>1. InBurst(h2)
      BY <1>4 DEF AtWords, InBurst
    <3>2. ~(ForBus(h) /\ ~InBurst(h2))
      BY <3>1
    <3>3. QED
      BY <1>1, <1>2, <2>2, <3>1 DEF HoldMoves, Keeping
  <2>7. CASE AtWords(h)
    <3>1. peer.address = Entry(qdx.cqBase, qdx.cqTail, CqWords)
      BY <1>1, <2>4, <2>7 DEF EntryAddressed, AtWords
    <3>2. qic.state.at # "DmaAddress"
      <4>1. qic.state.at = "DmaAddress" => h = qic.state
        BY <1>1 DEF Held, RoomInv, ShapeInv, QicShape, Q!WorkerStates
      <4>2. QED
        BY <2>7, <4>1 DEF AtWords
    <3>3. peer'.address = peer.address
      BY <3>2, AddressedIs
    <3>4. QED
      BY <2>4, <2>5, <3>1, <3>3
  <2>8. CASE ~AtWords(h)
    <3>1. h = qic.state /\ h.at = "DmaAddress" /\ Bus.ack
      BY <1>4, <2>6, <2>8, AtWordsMoves
    <3>2. peer.state.at = "DmaAddress"
      BY <3>1, AckIs
    <3>3. peer'.address = peer.address
      BY <1>2, <3>2 DEF PeerBurst, Addressed
    <3>4. peer.address = h.request.handle
      BY <3>1, <3>2 DEF EntryAddressed
    <3>5. RequestOf(h) = PublishOf(qdx)
      <4>1. Wanted(qdx) = PublishOf(qdx)
        BY <1>2, <2>4, WantedIs DEF Fetching
      <4>2. QED
        BY <1>1, <2>2, <2>4, <3>1, <4>1 DEF WholeInv, OwnBurst, Served
    <3>6. h.request.handle = Entry(qdx.cqBase, qdx.cqTail, CqWords)
      BY <3>1, <3>5 DEF RequestOf, PublishOf, ForBus
    <3>7. QED
      BY <2>4, <2>5, <3>3, <3>4, <3>6
  <2>9. QED
    BY <2>7, <2>8
<1>5. QED
  BY <1>1, <1>3, <1>4 DEF EntryAddressed, AtWords

(* EntryAddressed is inductive on NotifyInv and WholeInv: the address the host has taken is the
   one the QIC drives, and that one the chip's. *)
THEOREM EntryAddressedInvariant == Spec => []EntryAddressed
<1>1. Init => EntryAddressed
  <2>1. NewQdx.state = "Disabled" /\ Q!Idle.at = "Idle"
    BY MadeStates DEF NewQdx
  <2>2. Init => qdx.state = "Disabled" /\ qic.state.at = "Idle"
    BY <2>1 DEF Init, Q!NewQic
  <2>3. QED
    BY <2>2 DEF EntryAddressed
<1>2. NotifyInv /\ WholeInv /\ EntryAddressed /\ [Next]_cardVars => EntryAddressed'
  <2>1. SUFFICES ASSUME NotifyInv, WholeInv, EntryAddressed, [Next]_cardVars PROVE EntryAddressed'
    OBVIOUS
  <2>2. RoomInv /\ SameTransaction /\ BurstsShaped /\ ShapeInv
    BY <2>1 DEF NotifyInv, RoomInv, WholeInv
  <2>3. CASE CardClock
    <3>1. QicShape(qic')
      BY <2>2, <2>3, CardClockIs DEF ShapeInv
    <3>2. PICK a, b : Clocked(a, b)
      BY <2>2, <2>3, ClockedIs
    <3>3. QED
      BY <2>1, <2>2, <3>1, <3>2, EntryKept
  <2>4. CASE BusReset
    <3>1. qdx' = HardReset /\ qic' = Q!NewQic
      BY <2>4, BusResetIs
    <3>2. PICK chip : chip = HardReset
      OBVIOUS
    <3>3. chip.state = "Disabled"
      BY <3>2, ResetIs
    <3>4. Q!NewQic.state.at = "Idle"
      BY MadeStates DEF Q!NewQic
    <3>5. QED
      BY <3>1, <3>2, <3>3, <3>4 DEF EntryAddressed
  <2>5. CASE DriverAccess
    <3>1. PICK access \in Accesses : peer' = P!StartWorker(peer, access)
      BY <2>5 DEF DriverAccess
    <3>2. PeerShape(peer)
      BY <2>2 DEF ShapeInv
    <3>3. peer'.address = peer.address /\ peer'.state.at = "WorkerAddress"
      BY <3>1, <3>2 DEF PeerShape, P!StartWorker, P!WorkerAddress
    <3>4. QED
      BY <2>1, <2>5, <3>3 DEF DriverAccess, EntryAddressed
  <2>6. CASE UNCHANGED cardVars
    BY <2>1, <2>6 DEF cardVars, EntryAddressed
  <2>7. QED
    BY <2>1, <2>3, <2>4, <2>5, <2>6 DEF Next
<1>3. QED
  BY <1>1, <1>2, NotifyInvariant, WholeInvariant, PTL DEF Spec

\* CQ_TAIL moves when the chip is told that its burst to the host has succeeded.
LEMMA TailMoves ==
  ASSUME RoomInv, SameTransaction, WholeInv, EntryAddressed, NEW a, NEW b, Clocked(a, b),
         qdx'.cqTail # qdx.cqTail, qdx'.state # "Disabled"
  PROVE  /\ peer'.address = Entry(qdx.cqBase, qdx.cqTail, CqWords)
         /\ peer'.words = [i \in 1..CqWords |-> Present[i - 1]]
<1>1. /\ StateAccess(qdx, ToChip, qdx') \/ EngineClock(qdx, ToChip, Drive, qdx')
      /\ ToDeviceIs(a, link, Signals) /\ SignalsFit(qic, Bus, Device, Signals)
      /\ WordsOnLink /\ CompletionLeaves
  BY DEF Clocked, WholeInv
<1>2. ~StateAccess(qdx, ToChip, qdx')
  BY ResetPulses DEF StateAccess, Rests, Untouched
<1>3. Engine(qdx, ToChip, Drive, qdx')
  BY <1>1, <1>2 DEF EngineClock
<1>4. BurstDone(qdx, ToChip, qdx')
  BY <1>3 DEF Engine, Stays, RequestTaken, WordTaken, WordGiven, CompletionTaken, Goes1, Keeps
<1>5. qdx.state = "CqCompletion" /\ ToChip.completion # None /\ ToChip.completion.status = "Ok"
  BY <1>4 DEF BurstDone, Keeps
<1>6. OnLink(a, "DmaCompletion") /\ ToChip.completion = a.body
  BY <1>5, GivenIs
<1>7. Held(qic).at = "DmaComplete" /\ a.body = Held(qic)
  BY <1>1, <1>6 DEF ToDeviceIs, OnLink, SignalsFit, WordsOnLink
<1>8. Written(CqWords)
  BY <1>1, <1>5, <1>6, <1>7 DEF CompletionLeaves
<1>9. qic.state.at \notin {"DmaAddress", "DmaData"}
  BY <1>7 DEF Held, RoomInv, ShapeInv, QicShape, Q!WorkerStates
<1>10. peer'.words = peer.words
  BY <1>9, WordsRest
<1>11. peer.address = Entry(qdx.cqBase, qdx.cqTail, CqWords)
  <2>1. Held(qic).status = "Ok"
    BY <1>5, <1>6, <1>7
  <2>2. QED
    BY <1>5, <1>7, <2>1 DEF EntryAddressed
<1>12. peer'.address = peer.address
  BY <1>9, AddressedIs
<1>13. QED
  BY <1>8, <1>10, <1>11, <1>12 DEF Written

(* CQ_TAIL moves only when the host has the whole completion of the command fetched last, in a
   burst to the entry CQ_TAIL named. *)
THEOREM PublishedIsWholeProved == Spec => PublishedIsWhole
<1> DEFINE Published == (qdx'.cqTail # qdx.cqTail /\ qdx'.state # "Disabled") =>
                          LET completion == MakeCompletion(Words(Fetched, SqWords)) IN
                          /\ peer'.address = Entry(qdx.cqBase, qdx.cqTail, CqWords)
                          /\ peer'.words = [i \in 1..CqWords |-> completion[i - 1]]
<1>1. NotifyInv /\ WholeInv /\ EntryAddressed /\ [Next]_cardVars => [Published]_cardVars
  <2>1. SUFFICES ASSUME NotifyInv, WholeInv, EntryAddressed, Next,
                        qdx'.cqTail # qdx.cqTail, qdx'.state # "Disabled"
                 PROVE  /\ peer'.address = Entry(qdx.cqBase, qdx.cqTail, CqWords)
                        /\ peer'.words = [i \in 1..CqWords |-> Present[i - 1]]
    BY DEF Present
  <2>2. RoomInv /\ SameTransaction /\ BurstsShaped /\ ShapeInv
    BY <2>1 DEF NotifyInv, RoomInv, WholeInv
  <2>3. CASE CardClock
    <3>1. PICK a, b : Clocked(a, b)
      BY <2>2, <2>3, ClockedIs
    <3>2. QED
      BY <2>1, <2>2, <3>1, TailMoves
  <2>4. CASE BusReset
    BY <2>1, <2>4, BusResetIs, ResetPulses
  <2>5. CASE DriverAccess
    BY <2>1, <2>5 DEF DriverAccess
  <2>6. QED
    BY <2>1, <2>3, <2>4, <2>5 DEF Next
<1>2. QED
  BY <1>1, WholeInvariant, NotifyInvariant, EntryAddressedInvariant, PTL DEF Spec, PublishedIsWhole
=============================================================================
