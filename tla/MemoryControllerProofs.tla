------------------------- MODULE MemoryControllerProofs -------------------------
(***************************************************************************)
(* Proofs about the memory path: for every memory, every latency and every *)
(* choice of resets, controller and backend together are the one-instant   *)
(* memory of MemoryService.                                                *)
(***************************************************************************)
EXTENDS MemoryController, TLAPS

-----------------------------------------------------------------------------
(* The backend's arithmetic and what its operators return.                  *)

LEMMA WordIndex ==
  ASSUME NEW a \in Nat
  PROVE  /\ a \div 4 \in Nat
         /\ a % 4 = 0 <=> a = 4 * (a \div 4)
         /\ \A w \in Nat : a = 4 * w => w = a \div 4
  BY Z3

\* InRange of the code is Served of the service.
LEMMA InRangeIsServed ==
  ASSUME NEW r \in Requested
  PROVE  InRange(r.address) <=> Service!Served(r)
<1>1. r.address \in Nat /\ Capacity \in Nat
  BY AddressesAreBytes, PathSizes DEF Requested, Request
<1>2. r.address % 4 = 0 => r.address = 4 * (r.address \div 4) /\ r.address \div 4 \in Nat
  BY <1>1, WordIndex
<1>3. QED
  BY <1>1, <1>2 DEF InRange, Service!Served

\* What the backend answers is what the service replies, and the controller keeps it as it is.
LEMMA AnswerIsReply ==
  ASSUME NEW r \in Requested, path.words \in ReadWords
  PROVE  /\ Answer(path.words, r) = Service!Reply(r)
         /\ Mapped(r, Answer(path.words, r)) = Answer(path.words, r)
         /\ Answer(path.words, r) \in Response
<1>1. InRange(r.address) <=> Service!Served(r)
  BY InRangeIsServed
<1>2. Answer(path.words, r) = Service!Reply(r)
  BY <1>1 DEF Answer, Reply, Service!Reply
<1>3. Mapped(r, Answer(path.words, r)) = Answer(path.words, r)
  BY DEF Mapped, Answer, Reply
<1>4. Answer(path.words, r) \in Response
  <2>1. CASE InRange(r.address) /\ ~r.write
    <3>1. r.address \div 4 \in 0 .. Capacity - 1
      <4>1. r.address \in Nat /\ Capacity \in Nat /\ r.address \div 4 < Capacity
        BY <2>1, AddressesAreBytes, PathSizes DEF InRange, Requested, Request
      <4>2. r.address \div 4 \in Nat
        BY <4>1, WordIndex
      <4>3. QED
        BY <4>1, <4>2
    <3>2. path.words[r.address \div 4] \in Word
      BY <3>1 DEF ReadWords
    <3>3. QED
      BY <2>1, <3>2 DEF Answer, Response
  <2>2. CASE ~(InRange(r.address) /\ ~r.write)
    BY <2>2 DEF Answer, Reply, Response
  <2>3. QED
    BY <2>1, <2>2
<1>5. QED
  BY <1>2, <1>3, <1>4

\* Memory after a request is what the service stores.
LEMMA WordsAfterIsStore ==
  ASSUME NEW r \in Requested, NEW words, words \in ReadWords
  PROVE  /\ WordsAfter(words, r) \in ReadWords
         /\ WordsAfter(words, r) =
              [w \in DOMAIN words |-> [l \in Lanes |->
                 IF r.write /\ r.address = 4 * w /\ l \in r.lanes THEN r.data[l] ELSE words[w][l]]]
<1> DEFINE Index == 0 .. Capacity - 1
           after(w) == [l \in Lanes |->
                 IF r.write /\ r.address = 4 * w /\ l \in r.lanes THEN r.data[l] ELSE words[w][l]]
<1>1. r.address \in Nat /\ Capacity \in Nat /\ DOMAIN words = Index
  BY AddressesAreBytes, PathSizes DEF Requested, Request, ReadWords
<1>2. /\ r.address \div 4 \in Nat
      /\ r.address % 4 = 0 <=> r.address = 4 * (r.address \div 4)
      /\ \A w \in Nat : r.address = 4 * w => w = r.address \div 4
  BY <1>1, WordIndex
<1>3. \A w \in Index : words[w] \in Word
  BY DEF ReadWords
<1>4. ASSUME NEW w \in Index, ~(r.write /\ r.address = 4 * w) PROVE after(w) = words[w]
  <2>1. words[w] = [l \in Lanes |-> words[w][l]]
    BY <1>3 DEF Word
  <2>2. QED
    BY <1>4, <2>1
<1>5. ASSUME NEW w \in Index, r.write, r.address = 4 * w
      PROVE  after(w) = MaskedWrite(words[w], r.data, r.lanes) /\ after(w) \in Word
  <2>1. r.data \in Word /\ words[w] \in Word
    BY <1>3, <1>5 DEF Requested
  <2>2. after(w) = MaskedWrite(words[w], r.data, r.lanes)
    BY <1>5 DEF MaskedWrite
  <2>3. after(w) \in Word
    BY <2>1 DEF Word
  <2>4. QED
    BY <2>2, <2>3
<1>6. CASE r.write /\ InRange(r.address)
  <2> DEFINE i == r.address \div 4
  <2>1. i \in Index /\ r.address = 4 * i
    BY <1>1, <1>2, <1>6 DEF InRange
  <2>2. \A w \in Index : w # i => r.address # 4 * w
    BY <1>1, <1>2
  <2>3. WordsAfter(words, r) = [words EXCEPT ![i] = MaskedWrite(words[i], r.data, r.lanes)]
    BY <1>6 DEF WordsAfter
  <2> HIDE DEF i, after
  <2>4. after(i) = MaskedWrite(words[i], r.data, r.lanes) /\ after(i) \in Word
    BY <1>5, <1>6, <2>1
  <2>5. \A w \in Index : w # i => after(w) = words[w]
    BY <1>4, <2>2
  <2>6. words \in [Index -> Word]
    BY DEF ReadWords
  <2>7. WordsAfter(words, r) = [w \in Index |-> after(w)]
    BY <2>1, <2>3, <2>4, <2>5, <2>6
  <2>8. WordsAfter(words, r) \in [Index -> Word]
    BY <2>1, <2>3, <2>4, <2>6
  <2>9. QED
    BY <1>1, <2>7, <2>8, Zenon DEF after, ReadWords
<1>7. CASE ~(r.write /\ InRange(r.address))
  <2>1. \A w \in Index : ~(r.write /\ r.address = 4 * w)
    BY <1>1, <1>2, <1>7 DEF InRange
  <2>2. WordsAfter(words, r) = words
    BY <1>7 DEF WordsAfter
  <2> HIDE DEF after
  <2>3. \A w \in Index : after(w) = words[w]
    BY <1>4, <2>1
  <2>4. words = [w \in Index |-> after(w)]
    BY <2>3 DEF ReadWords
  <2>5. QED
    BY <1>1, <2>2, <2>4 DEF after
<1>8. QED
  BY <1>6, <1>7

-----------------------------------------------------------------------------
(* One tick, as a change of the path.                                       *)

\* The path p, whatever its backend does of the request it has.
Ticked(p, q) ==
  /\ q \in Path /\ q.state = p.state /\ q.request = p.request /\ q.response = p.response
  /\ \/ /\ p.pending = Absent /\ q.pending = Absent
        /\ q.answer = p.answer /\ q.words = p.words
     \/ /\ p.pending # Absent /\ q.pending # Absent /\ q.pending.request = p.pending.request
        /\ q.answer = p.answer /\ q.words = p.words
     \/ /\ p.pending # Absent /\ q.pending = Absent
        /\ q.answer = Answer(p.words, p.pending.request)
        /\ q.words = WordsAfter(p.words, p.pending.request)

\* A request the backend has taken is told apart from none.
LEMMA PendingIsPresent ==
  ASSUME NEW r \in Requested, NEW n \in Nat
  PROVE  [request |-> r, left |-> n] # Absent
  BY AbsentIsFresh DEF Requested

LEMMA BackendTickIs ==
  ASSUME NEW p \in Path,
         p.pending # Absent => Answer(p.words, p.pending.request) \in Response
  PROVE  Ticked(p, BackendTick(p))
<1> DEFINE h == IF p.holdoff > 0 THEN p.holdoff - 1 ELSE 0
           q == BackendTick(p)
<1>1. h \in Nat /\ p.words \in ReadWords
  BY DEF Path
<1>2. CASE p.pending = Absent
  <2>1. q = [p EXCEPT !.holdoff = h]
    BY <1>2 DEF BackendTick
  <2> HIDE DEF h, q
  <2>2. QED
    BY <1>1, <1>2, <2>1 DEF Ticked, Path, q
<1>3. CASE p.pending # Absent /\ p.pending.left > 0
  <2> DEFINE b == [p.pending EXCEPT !.left = @ - 1]
  <2>1. p.pending \in [request : Requested, left : Nat]
    BY <1>3 DEF Path
  <2>2. b = [request |-> p.pending.request, left |-> p.pending.left - 1]
        /\ p.pending.request \in Requested /\ p.pending.left - 1 \in Nat
    BY <1>3, <2>1
  <2>3. b \in [request : Requested, left : Nat] /\ b.request = p.pending.request /\ b # Absent
    BY <2>2, PendingIsPresent
  <2>4. q = [p EXCEPT !.holdoff = h, !.pending = b]
    BY <1>3 DEF BackendTick, Path
  <2> HIDE DEF h, q, b
  <2>5. /\ q \in Path /\ q.state = p.state /\ q.request = p.request /\ q.response = p.response
        /\ q.pending = b /\ q.answer = p.answer /\ q.words = p.words
    BY <1>1, <2>3, <2>4 DEF Path
  <2>6. QED
    BY <1>3, <2>3, <2>5 DEF Ticked, q
<1>4. CASE p.pending # Absent /\ ~(p.pending.left > 0)
  <2> DEFINE r == p.pending.request
  <2>1. r \in Requested
    BY <1>4 DEF Path
  <2>2. q = [p EXCEPT !.holdoff = h, !.pending = Absent, !.answer = Answer(p.words, r),
                      !.words = WordsAfter(p.words, r)]
    BY <1>4 DEF BackendTick, Path
  <2>3. Answer(p.words, r) \in Response /\ WordsAfter(p.words, r) \in ReadWords
    BY <1>1, <1>4, <2>1, WordsAfterIsStore
  <2> HIDE DEF h, q, r
  <2>4. /\ q \in Path /\ q.state = p.state /\ q.request = p.request /\ q.response = p.response
        /\ q.pending = Absent /\ q.answer = Answer(p.words, r) /\ q.words = WordsAfter(p.words, r)
    BY <1>1, <2>2, <2>3 DEF Path
  <2>5. QED
    BY <1>4, <2>4 DEF Ticked, q, r
<1>5. QED
  BY <1>2, <1>3, <1>4

-----------------------------------------------------------------------------
(* Every step keeps the invariant, and is a step of the service or none of  *)
(* its business.                                                            *)

ServiceStep == [Service!Next]_(Service!vars)

LEMMA AbsentIsNoAnswer ==
  Absent \notin Response /\ Reply("Fault") \in Response /\ Reply("Fault") # Absent
  BY AbsentIsFresh DEF Reply, Response

LEMMA RequestedIsCalled ==
  ASSUME NEW r \in Requested
  PROVE  r \in Service!Calls /\ r # Absent
  BY AbsentIsFresh DEF Requested, Request, Service!Calls, Service!Contents, Word

LEMMA AcceptRequestImplements ==
  ASSUME PathInv, NEW r \in Requested, AcceptRequest(r)
  PROVE  PathInv' /\ ServiceStep
<1>1. path \in Path /\ path.state = "Idle" /\ accepted = Absent /\ accepted' = r
  BY DEF PathInv, AcceptRequest, HostRequestReady
<1>2. r \in Service!Calls /\ r # Absent
  BY RequestedIsCalled
<1>3. HostResponse(path) = Absent
  BY <1>1 DEF HostResponse
<1>4. CASE r.address % 4 # 0
  <2>1. path' = [path EXCEPT !.request = Absent, !.response = Reply("Fault"), !.state = "HostResponse"]
    BY <1>4 DEF AcceptRequest, AcceptHostRequest
  <2>2. /\ path' \in Path /\ path'.state = "HostResponse" /\ path'.response = Reply("Fault")
        /\ path'.pending = path.pending /\ path'.answer = path.answer /\ path'.words = path.words
    BY <1>1, <2>1, AbsentIsNoAnswer DEF Path, ControllerStates
  <2>3. PathInv'
    BY <1>1, <1>2, <2>2, AbsentIsNoAnswer DEF PathInv
  <2>4. Stray' = Stray
    BY <1>1, <2>2 DEF Stray
  <2>5. HostResponse(path)' = Service!Reply(r)
    BY <1>4, <2>2 DEF HostResponse, Reply, Service!Reply, Service!Served
  <2>6. Service!Accept(r)
    BY <1>1, <1>4, <2>2, <2>4, <2>5 DEF Service!Accept
  <2>7. QED
    BY <1>2, <2>3, <2>6 DEF ServiceStep, Service!Next
<1>5. CASE r.address % 4 = 0
  <2>1. path' = [path EXCEPT !.request = r, !.response = Absent, !.state = "BackendRequest"]
    BY <1>5 DEF AcceptRequest, AcceptHostRequest
  <2>2. /\ path' \in Path /\ path'.state = "BackendRequest" /\ path'.request = r
        /\ path'.pending = path.pending /\ path'.answer = path.answer /\ path'.words = path.words
    BY <1>1, <2>1 DEF Path, ControllerStates
  <2>3. PathInv'
    BY <1>1, <1>2, <2>2 DEF PathInv
  <2>4. Stray' = Stray
    BY <1>1, <2>2 DEF Stray
  <2>5. HostResponse(path)' = Absent
    BY <2>2 DEF HostResponse
  <2>6. Service!Accept(r)
    BY <1>1, <1>5, <2>2, <2>4, <2>5 DEF Service!Accept
  <2>7. QED
    BY <1>2, <2>3, <2>6 DEF ServiceStep, Service!Next
<1>6. QED
  BY <1>4, <1>5

\* The service sees nothing of a step that changes none of these.
LEMMA Unseen ==
  ASSUME path'.words = path.words, accepted' = accepted, HostResponse(path') = HostResponse(path),
         Stray' = Stray
  PROVE  ServiceStep
  BY DEF ServiceStep, Service!vars

LEMMA TickImplements ==
  ASSUME PathInv, Tick
  PROVE  PathInv' /\ ServiceStep
<1> DEFINE o == OfferToBackend(path)
           b == BackendTick(o)
           offers == path.state = "BackendRequest" /\ BackendReady(path)
<1>1. path \in Path /\ path.words \in ReadWords /\ accepted' = accepted
  BY DEF PathInv, Path, Tick
<1>2. /\ o \in Path /\ o.words = path.words /\ o.response = path.response
      /\ o.answer = path.answer /\ o.request = path.request
      /\ offers => /\ o.state = "BackendResponse" /\ o.pending # Absent
                   /\ o.pending.request = accepted
      /\ ~offers => o = path
  <2>1. CASE ~offers
    BY <1>1, <2>1 DEF OfferToBackend
  <2>2. CASE offers
    <3>1. path.request = accepted /\ accepted \in Requested /\ path.latency \in Nat
      BY <1>1, <2>2 DEF PathInv, Path
    <3> DEFINE s == [request |-> path.request, left |-> path.latency]
    <3>2. s \in [request : Requested, left : Nat] /\ s # Absent /\ s.request = accepted
      BY <3>1, PendingIsPresent
    <3>3. o = [path EXCEPT !.pending = s, !.state = "BackendResponse"]
      BY <2>2 DEF OfferToBackend
    <3> HIDE DEF s, o
    <3>4. QED
      BY <1>1, <2>2, <3>2, <3>3 DEF Path, ControllerStates
  <2>3. QED
    BY <2>1, <2>2
<1>3. path' = TakeFromBackend(b)
  BY DEF Tick, TickBackend
<1>4. o.pending # Absent => /\ o.pending.request \in Requested /\ o.answer = Absent
                            /\ Answer(path.words, o.pending.request) \in Response
                            /\ Answer(path.words, o.pending.request)
                                 = Service!Reply(o.pending.request)
                            /\ Mapped(o.pending.request, Answer(path.words, o.pending.request))
                                 = Answer(path.words, o.pending.request)
  <2>1. o.pending # Absent => o.pending.request \in Requested
    BY <1>2 DEF Path
  <2>2. o.pending # Absent => o.answer = Absent
    BY <1>2 DEF PathInv, BackendReady
  <2>3. QED
    BY <1>1, <2>1, <2>2, AnswerIsReply
<1>5. Ticked(o, b)
  BY <1>2, <1>4, BackendTickIs
<1>6. o.state = "BackendResponse" => /\ o.pending # Absent /\ o.pending.request = accepted
                                     /\ o.request = accepted /\ accepted # Absent
                                     /\ HostResponse(path) = Absent /\ Stray = Absent
  BY <1>2 DEF PathInv, BackendReady, HostResponse, Stray
<1>7. o.state # "BackendResponse" => o = path
  BY <1>2
<1> HIDE DEF o, b, offers
<1>8. CASE o.state = "BackendResponse" /\ b.pending # Absent
  <2>1. /\ b \in Path /\ b.state = "BackendResponse" /\ b.request = accepted
        /\ b.pending.request = accepted /\ b.answer = Absent /\ b.words = path.words
    BY <1>2, <1>4, <1>5, <1>6, <1>8 DEF Ticked
  <2>2. path' = b
    BY <1>3, <2>1 DEF TakeFromBackend
  <2>3. PathInv'
    BY <1>1, <1>6, <1>8, <2>1, <2>2 DEF PathInv
  <2>4. HostResponse(path') = Absent /\ Stray' = Absent
    BY <2>1, <2>2 DEF HostResponse, Stray
  <2>5. QED
    BY <1>1, <1>6, <1>8, <2>1, <2>2, <2>3, <2>4, Unseen
<1>9. CASE o.state = "BackendResponse" /\ b.pending = Absent
  <2>1. /\ b \in Path /\ b.state = "BackendResponse" /\ b.request = accepted
        /\ b.answer = Answer(path.words, accepted)
        /\ b.words = WordsAfter(path.words, accepted)
    BY <1>2, <1>4, <1>5, <1>6, <1>9 DEF Ticked
  <2>2. /\ accepted \in Requested /\ b.answer \in Response /\ b.answer # Absent
        /\ b.answer = Service!Reply(accepted) /\ Mapped(accepted, b.answer) = b.answer
    BY <1>4, <1>6, <1>9, <2>1, AbsentIsNoAnswer
  <2>3. path' = [b EXCEPT !.response = b.answer, !.state = "HostResponse", !.answer = Absent]
    BY <1>3, <2>1, <2>2 DEF TakeFromBackend
  <2>4. /\ path' \in Path /\ path'.state = "HostResponse" /\ path'.response = b.answer
        /\ path'.pending = Absent /\ path'.answer = Absent
        /\ path'.words = WordsAfter(path.words, accepted)
    BY <1>9, <2>1, <2>2, <2>3 DEF Path, ControllerStates
  <2>5. PathInv'
    BY <1>1, <1>6, <1>9, <2>2, <2>4 DEF PathInv
  <2>6. HostResponse(path)' = Service!Reply(accepted) /\ Stray' = Absent
    BY <2>2, <2>4 DEF HostResponse, Stray
  <2>7. Service!Store(accepted)
    BY <1>1, <2>2, <2>4, WordsAfterIsStore DEF Service!Store
  <2>8. Service!Perform
    BY <1>1, <1>6, <1>9, <2>6, <2>7 DEF Service!Perform
  <2>9. QED
    BY <2>5, <2>8 DEF ServiceStep, Service!Next
<1>10. CASE o.state # "BackendResponse" /\ (o.pending = Absent \/ b.pending # Absent)
  <2>1. /\ b \in Path /\ b.state = path.state /\ b.request = path.request
        /\ b.response = path.response /\ b.answer = path.answer /\ b.words = path.words
        /\ (b.pending = Absent) <=> (path.pending = Absent)
        /\ path.pending # Absent => b.pending.request = path.pending.request
    BY <1>5, <1>7, <1>10 DEF Ticked
  <2>2. path' = b
    BY <1>3, <1>7, <1>10, <2>1 DEF TakeFromBackend
  <2>3. PathInv'
    BY <1>1, <1>7, <1>10, <2>1, <2>2 DEF PathInv
  <2>4. HostResponse(path') = HostResponse(path) /\ Stray' = Stray
    BY <1>7, <1>10, <2>1, <2>2 DEF HostResponse, Stray
  <2>5. QED
    BY <1>1, <2>1, <2>2, <2>3, <2>4, Unseen
<1>11. CASE o.state # "BackendResponse" /\ o.pending # Absent /\ b.pending = Absent
  <2> DEFINE r == path.pending.request
  <2>1. /\ b \in Path /\ b.state = path.state /\ b.request = path.request
        /\ b.response = path.response /\ b.answer = Answer(path.words, r)
        /\ b.words = WordsAfter(path.words, r)
    BY <1>5, <1>7, <1>11 DEF Ticked
  <2>2. r \in Requested /\ b.answer = Service!Reply(r) /\ Stray = r
    BY <1>4, <1>7, <1>11, <2>1 DEF Stray
  <2>3. path' = b
    BY <1>3, <1>7, <1>11, <2>1 DEF TakeFromBackend
  <2> HIDE DEF r
  <2>4. PathInv'
    BY <1>1, <1>7, <1>11, <2>1, <2>3 DEF PathInv
  <2>5. HostResponse(path)' = HostResponse(path) /\ Stray' = Service!Reply(r)
    BY <1>7, <1>11, <2>1, <2>2, <2>3 DEF HostResponse, Stray
  <2>6. Service!Store(r)
    BY <1>1, <2>1, <2>2, <2>3, WordsAfterIsStore DEF Service!Store
  <2>7. r \in Service!Calls
    BY <2>2, RequestedIsCalled
  <2>8. Service!PerformStray
    BY <1>1, <2>2, <2>5, <2>6, <2>7 DEF Service!PerformStray
  <2>9. QED
    BY <2>4, <2>8 DEF ServiceStep, Service!Next
<1>12. QED
  BY <1>8, <1>9, <1>10, <1>11

\* The controller forgets what it held; the backend keeps its request.
LEMMA ForgottenIs ==
  ASSUME path \in Path
  PROVE  LET q == ResetController(path)
         IN /\ q \in Path /\ q.state = "Idle" /\ q.pending = path.pending
            /\ q.answer = path.answer /\ q.words = path.words
            /\ q = ConsumeHostResponse(path)
  BY DEF ResetController, ConsumeHostResponse, Path, ControllerStates

LEMMA ConsumeImplements ==
  ASSUME PathInv, Consume
  PROVE  PathInv' /\ ServiceStep
<1>1. path \in Path /\ path.state = "HostResponse" /\ accepted' = Absent
  BY DEF PathInv, Consume, HostResponse
<1>2. /\ path' \in Path /\ path'.state = "Idle" /\ path'.pending = path.pending
      /\ path'.answer = path.answer /\ path'.words = path.words
  BY <1>1, ForgottenIs DEF Consume
<1>3. PathInv'
  BY <1>1, <1>2 DEF PathInv
<1>4. HostResponse(path)' = Absent /\ Stray' = Stray
  BY <1>1, <1>2 DEF HostResponse, Stray
<1>5. Service!Take
  BY <1>1, <1>2, <1>4 DEF Service!Take, Consume
<1>6. QED
  BY <1>3, <1>5 DEF ServiceStep, Service!Next

LEMMA ResetBothImplements ==
  ASSUME PathInv, ResetBoth
  PROVE  PathInv' /\ ServiceStep
<1> DEFINE q == ResetController(path)
<1>1. path \in Path /\ accepted' = Absent /\ path' = ResetBackend(q)
  BY DEF PathInv, ResetBoth
<1>2. q \in Path /\ q.state = "Idle" /\ q.words = path.words
  BY <1>1, ForgottenIs
<1> HIDE DEF q
<1>3. /\ path' \in Path /\ path'.state = "Idle" /\ path'.pending = Absent
      /\ path'.answer = Absent /\ path'.words = path.words
  BY <1>1, <1>2 DEF ResetBackend, Path
<1>4. PathInv'
  BY <1>1, <1>3 DEF PathInv
<1>5. HostResponse(path)' = Absent /\ Stray' = Absent
  BY <1>3 DEF HostResponse, Stray
<1>6. Service!Cancel
  BY <1>1, <1>3, <1>5 DEF Service!Cancel
<1>7. QED
  BY <1>4, <1>6 DEF ServiceStep, Service!Next

LEMMA ResetControllerImplements ==
  ASSUME PathInv, ResetControllerOnly
  PROVE  PathInv' /\ ServiceStep
<1>1. path \in Path /\ accepted' = Absent /\ path' = ResetController(path)
  BY DEF PathInv, ResetControllerOnly
<1>2. /\ path' \in Path /\ path'.state = "Idle" /\ path'.pending = path.pending
      /\ path'.answer = path.answer /\ path'.words = path.words
  BY <1>1, ForgottenIs
<1>3. PathInv'
  BY <1>1, <1>2 DEF PathInv
<1>4. HostResponse(path)' = Absent
  BY <1>2 DEF HostResponse
<1>5. CASE path.state = "BackendResponse"
  <2>1. /\ path.pending # Absent /\ path.pending.request = accepted /\ accepted # Absent
        /\ HostResponse(path) = Absent /\ Stray = Absent
    BY <1>5 DEF PathInv, HostResponse, Stray
  <2>2. Stray' = accepted
    BY <1>2, <2>1 DEF Stray
  <2>3. Service!Abandon
    BY <1>1, <1>2, <1>4, <2>1, <2>2 DEF Service!Abandon
  <2>4. QED
    BY <1>3, <2>3 DEF ServiceStep, Service!Next
<1>6. CASE path.state # "BackendResponse"
  <2>1. Stray' = Stray
    BY <1>2, <1>6 DEF Stray
  <2>2. Service!Cancel
    BY <1>1, <1>2, <1>4, <2>1 DEF Service!Cancel
  <2>3. QED
    BY <1>3, <2>2 DEF ServiceStep, Service!Next
<1>7. QED
  BY <1>5, <1>6

-----------------------------------------------------------------------------
(* The invariant and the refinement.                                        *)

LEMMA InitImplements == Init => PathInv /\ Service!Init
<1> SUFFICES ASSUME Init PROVE PathInv /\ Service!Init
  OBVIOUS
<1>1. PICK latency \in Latencies, holdoff \in Holdoffs, words \in ReadWords :
        path = NewPath(latency, holdoff, words)
  BY DEF Init
<1>2. /\ path \in Path /\ path.state = "Idle" /\ path.pending = Absent /\ path.answer = Absent
      /\ path.words \in ReadWords
  BY <1>1, PathSizes DEF NewPath, Path, ControllerStates
<1>3. PathInv
  BY <1>2 DEF Init, PathInv
<1>4. Service!Init
  BY <1>2 DEF Init, Service!Init, HostResponse, Stray, ReadWords, Word, Service!Contents
<1>5. QED
  BY <1>3, <1>4

LEMMA StepImplements == PathInv /\ [Next]_vars => PathInv' /\ ServiceStep
<1> SUFFICES ASSUME PathInv, [Next]_vars PROVE PathInv' /\ ServiceStep
  OBVIOUS
<1>1. ASSUME NEW address \in Addresses, NEW write \in BOOLEAN, NEW lanes \in SUBSET Lanes,
             NEW data \in Word, AcceptRequest(RequestOf(address, write, lanes, data))
      PROVE  PathInv' /\ ServiceStep
  <2>1. RequestOf(address, write, lanes, data) \in Requested
    BY DEF RequestOf, Requested, Request
  <2>2. QED
    BY <1>1, <2>1, AcceptRequestImplements
<1>2. CASE Tick
  BY <1>2, TickImplements
<1>3. CASE Consume
  BY <1>3, ConsumeImplements
<1>4. CASE ResetBoth
  BY <1>4, ResetBothImplements
<1>5. CASE ResetControllerOnly
  BY <1>5, ResetControllerImplements
<1>6. CASE UNCHANGED vars
  <2>1. path' = path /\ accepted' = accepted
    BY <1>6 DEF vars
  <2>2. PathInv'
    BY <2>1 DEF PathInv
  <2>3. HostResponse(path') = HostResponse(path) /\ Stray' = Stray
    BY <2>1 DEF Stray
  <2>4. QED
    BY <2>1, <2>2, <2>3, Unseen
<1>7. QED
  BY <1>1, <1>2, <1>3, <1>4, <1>5, <1>6 DEF Next

(* The inductive invariant of the path (MemoryController!PathInv): the controller holds its
   client's request, and the backend that one, an abandoned one or none. *)
THEOREM PathInvariant == Spec => []PathInv
  BY InitImplements, StepImplements, PTL DEF Spec

\* Controller and backend keep their types.
THEOREM PathTypeCorrect == Spec => []TypeOK
<1>1. PathInv => TypeOK
  BY DEF PathInv, TypeOK, Path, Requested
<1>2. QED
  BY <1>1, PathInvariant, PTL

(* MemoryController over FakeMemory is linearizable: every request is performed on memory at
   one instant, the backend's execution, answered once with what that instant gave, or
   cancelled, and what a reset abandons is performed at most once and reaches nobody. *)
THEOREM ServiceImplemented == Spec => ImplementsService
<1>1. PathInv /\ [Next]_vars => [Service!Next]_(Service!vars)
  BY StepImplements DEF ServiceStep
<1>2. Init => Service!Init
  BY InitImplements
<1>3. QED
  BY <1>1, <1>2, PathInvariant, PTL DEF Spec, ImplementsService, Service!Spec

=============================================================================
