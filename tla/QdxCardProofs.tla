---------------------------- MODULE QdxCardProofs ----------------------------
(***************************************************************************)
(* Proofs about the queued card, for every size of the rings, commands and *)
(* completions, every timeout and set of driver accesses, and every wait   *)
(* and fault of the host.                                                  *)
(***************************************************************************)
EXTENDS QdxCard, TLAPS

-----------------------------------------------------------------------------
(* Queue positions.                                                         *)

LEMMA RemainderUnique ==
  ASSUME NEW M \in Nat \ {0}, NEW q \in Int, NEW r \in 0 .. M - 1
  PROVE  (M * q + r) % M = r
  BY Z3

LEMMA MinusIs ==
  ASSUME NEW a \in 0 .. Positions - 1, NEW b \in 0 .. Positions - 1
  PROVE  /\ Minus(a, b) = IF a >= b THEN a - b ELSE a - b + Positions
         /\ Minus(a, b) \in 0 .. Positions - 1
<1>1. Positions \in Nat \ {0}
  BY QueueAssumption
<1>2. CASE a >= b
  <2>1. a - b \in 0 .. Positions - 1 /\ a - b = Positions * 0 + (a - b)
    BY <1>1, <1>2
  <2>2. (Positions * 0 + (a - b)) % Positions = a - b
    BY <1>1, <2>1, RemainderUnique
  <2>3. QED
    BY <1>2, <2>1, <2>2 DEF Minus
<1>3. CASE ~(a >= b)
  <2>1. a - b + Positions \in 0 .. Positions - 1
        /\ a - b = Positions * (-1) + (a - b + Positions)
    BY <1>1, <1>3
  <2>2. (Positions * (-1) + (a - b + Positions)) % Positions = a - b + Positions
    BY <1>1, <2>1, RemainderUnique
  <2>3. QED
    BY <1>3, <2>1, <2>2 DEF Minus
<1>4. QED
  BY <1>2, <1>3

LEMMA Plus1Is ==
  ASSUME NEW a \in 0 .. Positions - 1
  PROVE  /\ Plus1(a) = IF a = Positions - 1 THEN 0 ELSE a + 1
         /\ Plus1(a) \in 0 .. Positions - 1
<1>1. Positions \in Nat \ {0}
  BY QueueAssumption
<1>2. CASE a = Positions - 1
  <2>1. (Positions * 1 + 0) % Positions = 0
    BY <1>1, RemainderUnique
  <2>2. a + 1 = Positions * 1 + 0
    BY <1>1, <1>2
  <2>3. QED
    BY <1>1, <1>2, <2>1, <2>2 DEF Plus1
<1>3. CASE a # Positions - 1
  <2>1. a + 1 \in 0 .. Positions - 1
    BY <1>1, <1>3
  <2>2. (Positions * 0 + (a + 1)) % Positions = a + 1
    BY <1>1, <2>1, RemainderUnique
  <2>3. Positions * 0 + (a + 1) = a + 1
    BY <1>1, <2>1
  <2>4. QED
    BY <1>3, <2>1, <2>2, <2>3 DEF Plus1
<1>4. QED
  BY <1>2, <1>3

\* The driver frees entries: moving CQ_HEAD within what is used leaves less used.
LEMMA UsedAfterHead ==
  ASSUME NEW t \in 0 .. Positions - 1, NEW h \in 0 .. Positions - 1, NEW p \in 0 .. Positions - 1,
         Minus(p, h) <= Minus(t, h)
  PROVE  Minus(t, p) <= Minus(t, h)
<1>1. Positions \in Nat \ {0}
  BY QueueAssumption
<1>2. /\ Minus(p, h) = IF p >= h THEN p - h ELSE p - h + Positions
      /\ Minus(t, h) = IF t >= h THEN t - h ELSE t - h + Positions
      /\ Minus(t, p) = IF t >= p THEN t - p ELSE t - p + Positions
  BY MinusIs
<1>3. QED
  BY <1>1, <1>2

\* The chip publishes one entry: one more is used.
LEMMA UsedAfterTail ==
  ASSUME NEW t \in 0 .. Positions - 1, NEW h \in 0 .. Positions - 1, Minus(t, h) < Ring
  PROVE  Minus(Plus1(t), h) <= Ring
<1>1. Positions \in Nat \ {0} /\ Ring \in Nat \ {0} /\ Ring < Positions
  BY QueueAssumption
<1>2. Plus1(t) = IF t = Positions - 1 THEN 0 ELSE t + 1
  BY Plus1Is
<1>3. Plus1(t) \in 0 .. Positions - 1
  BY Plus1Is
<1>4. /\ Minus(t, h) = IF t >= h THEN t - h ELSE t - h + Positions
      /\ Minus(Plus1(t), h) = IF Plus1(t) >= h THEN Plus1(t) - h ELSE Plus1(t) - h + Positions
  BY <1>3, MinusIs
<1>5. QED
  BY <1>1, <1>2, <1>3, <1>4

-----------------------------------------------------------------------------
(* One clock of the chip.                                                   *)

Making == {"SqRequest", "SqReceive", "SqCompletion", "EndpointOffer",
           "EndpointCompletion", "CqRequest", "CqSend", "CqCompletion"}

ChipRoom(d) ==
  /\ ChipShape(d)
  /\ {d.sqHead, d.sqTail, d.cqHead, d.cqTail} \subseteq 0 .. Positions - 1
  /\ CqUsed(d) <= Ring
  /\ d.state \in Making => CqUsed(d) < Ring

LEMMA NewChipRoom == ChipRoom(NewQdx) /\ ChipRoom(HardReset) /\ ChipRoom(Accepted(HardReset))
<1>1. Minus(0, 0) = 0 /\ 0 \in 0 .. Positions - 1 /\ 0 <= Ring
  BY MinusIs, QueueAssumption
<1>2. ASSUME NEW d, ChipShape(d), d.sqHead = 0, d.sqTail = 0, d.cqHead = 0, d.cqTail = 0,
             d.state = "Disabled"
      PROVE  ChipRoom(d)
  BY <1>1, <1>2 DEF ChipRoom, CqUsed, Making
<1>3. ChipRoom(NewQdx)
  BY <1>2 DEF ChipShape, NewQdx
<1>4. PICK h : h = HardReset
  OBVIOUS
<1>5. ChipShape(h) /\ h.sqHead = 0 /\ h.sqTail = 0 /\ h.cqHead = 0 /\ h.cqTail = 0
      /\ h.state = "Disabled"
  BY <1>4 DEF ChipShape, NewQdx, HardReset
<1>6. PICK e : e = [h EXCEPT !.response = WriteOk]
  OBVIOUS
<1>7. ChipShape(e) /\ e.sqHead = 0 /\ e.sqTail = 0 /\ e.cqHead = 0 /\ e.cqTail = 0
      /\ e.state = "Disabled"
  BY <1>5, <1>6 DEF ChipShape
<1>8. QED
  BY <1>2, <1>3, <1>4, <1>5, <1>6, <1>7 DEF Accepted

\* There is room as long as the positions stay and no completion is begun.
LEMMA RoomKept ==
  ASSUME NEW d, ChipRoom(d), NEW e, ChipShape(e), e.sqHead = d.sqHead, e.sqTail = d.sqTail,
         e.cqHead = d.cqHead, e.cqTail = d.cqTail, e.state \in Making => d.state \in Making
  PROVE  ChipRoom(e)
  BY DEF ChipRoom, CqUsed

LEMMA ResponseRoom ==
  ASSUME NEW d, ChipRoom(d), NEW answer, NEW e, e = [d EXCEPT !.response = answer]
  PROVE  ChipRoom(e) /\ e.state = d.state
<1>1. ChipShape(e) /\ e.sqHead = d.sqHead /\ e.sqTail = d.sqTail
      /\ e.cqHead = d.cqHead /\ e.cqTail = d.cqTail /\ e.state = d.state
  BY DEF ChipRoom, ChipShape
<1>2. QED
  BY <1>1, RoomKept

LEMMA RefusedRoom ==
  ASSUME NEW d, ChipRoom(d)
  PROVE  ChipRoom(Refuse(d)) /\ ChipRoom(Accepted(d)) /\ ChipRoom(RefuseMovement(d))
<1>1. ChipRoom(Refuse(d)) /\ ChipRoom(Accepted(d))
  BY ResponseRoom DEF Refuse, Accepted
<1>2. PICK e : e = RefuseMovement(d)
  OBVIOUS
<1>3. ChipShape(e) /\ e.sqHead = d.sqHead /\ e.sqTail = d.sqTail
      /\ e.cqHead = d.cqHead /\ e.cqTail = d.cqTail /\ e.state = "Fault"
  BY <1>2 DEF RefuseMovement, ChipRoom, ChipShape
<1>4. QED
  BY <1>1, <1>2, <1>3, RoomKept DEF Making

\* Configuring does not begin a completion.
LEMMA ConfigureRoom ==
  ASSUME NEW d, ChipRoom(d), d.state = "Disabled", NEW name, NEW value
  PROVE  ChipRoom(Configure(d, name, value))
<1>0. PICK a : a = Accepted(d)
  OBVIOUS
<1>1. ChipRoom(a) /\ a.state = "Disabled"
  BY <1>0, ResponseRoom DEF Accepted
<1>2. ASSUME NEW e, ChipShape(e), e.sqHead = a.sqHead, e.sqTail = a.sqTail,
             e.cqHead = a.cqHead, e.cqTail = a.cqTail, e.state \in {"Disabled", "ReadyIdle", "Fault"}
      PROVE  ChipRoom(e)
  BY <1>1, <1>2, RoomKept DEF Making
<1>3. CASE name = "Control"
  <2> DEFINE enable == "Enable" \in value
             set == [a EXCEPT !.notify = "Notify" \in value, !.enabled = enable]
  <2>1. PICK n : n = ("Notify" \in value)
    OBVIOUS
  <2>2. PICK b : b = enable
    OBVIOUS
  <2>3. PICK c : c = [a EXCEPT !.notify = n, !.enabled = b]
    OBVIOUS
  <2>4. ChipShape(c) /\ c.sqHead = a.sqHead /\ c.sqTail = a.sqTail
        /\ c.cqHead = a.cqHead /\ c.cqTail = a.cqTail /\ c.state = "Disabled"
    BY <1>1, <2>3 DEF ChipRoom, ChipShape
  <2>5. Configure(d, name, value) =
          IF ~enable THEN set
          ELSE IF ValidConfiguration(d) THEN [set EXCEPT !.error = None, !.state = "ReadyIdle"]
          ELSE [set EXCEPT !.error = "BadConfig", !.state = "Fault"]
    BY <1>0, <1>3 DEF Configure, WriteControl
  <2>6. set = c
    BY <2>1, <2>2, <2>3
  <2> HIDE DEF set, enable
  <2>7. \/ Configure(d, name, value) = c
        \/ Configure(d, name, value) = [c EXCEPT !.error = None, !.state = "ReadyIdle"]
        \/ Configure(d, name, value) = [c EXCEPT !.error = "BadConfig", !.state = "Fault"]
    BY <2>5, <2>6
  <2>8. ASSUME NEW r, NEW s, s \in {"ReadyIdle", "Fault"}, NEW e, e = [c EXCEPT !.error = r, !.state = s]
        PROVE  ChipRoom(e)
    <3>1. ChipShape(e) /\ e.sqHead = a.sqHead /\ e.sqTail = a.sqTail
          /\ e.cqHead = a.cqHead /\ e.cqTail = a.cqTail /\ e.state = s
      BY <2>4, <2>8 DEF ChipShape
    <3>2. QED
      BY <1>2, <2>8, <3>1
  <2>9. QED
    BY <1>2, <2>4, <2>7, <2>8
<1>4. CASE name # "Control"
  <2>1. PICK e : e = Configure(d, name, value)
    OBVIOUS
  <2>2. \/ e = [a EXCEPT !.sqBase = value] \/ e = [a EXCEPT !.sqSize = value]
        \/ e = [a EXCEPT !.cqBase = value] \/ e = [a EXCEPT !.cqSize = value]
        \/ e = Refuse(d)
    BY <1>0, <1>4, <2>1 DEF Configure
  <2>3. CASE e # Refuse(d)
    <3>1. ChipShape(e) /\ e.sqHead = a.sqHead /\ e.sqTail = a.sqTail
          /\ e.cqHead = a.cqHead /\ e.cqTail = a.cqTail /\ e.state = "Disabled"
      BY <1>1, <2>2, <2>3 DEF ChipRoom, ChipShape
    <3>2. QED
      BY <1>2, <2>1, <3>1
  <2>4. CASE e = Refuse(d)
    BY <2>1, <2>4, RefusedRoom
  <2>5. QED
    BY <2>3, <2>4
<1>5. QED
  BY <1>3, <1>4

LEMMA MoveQueueRoom ==
  ASSUME NEW d, ChipRoom(d), NEW name, NEW position,
         name \in {"SqTail", "CqHead"} => position \in 0 .. Positions - 1
  PROVE  ChipRoom(MoveQueue(d, name, position))
<1>0. PICK a : a = Accepted(d)
  OBVIOUS
<1>1. ChipRoom(a) /\ ChipShape(a) /\ a.cqTail = d.cqTail /\ a.cqHead = d.cqHead /\ a.state = d.state
  BY <1>0, ResponseRoom DEF Accepted, ChipRoom, ChipShape
<1>2. CASE name = "SqTail"
  <2>1. PICK e : e = [a EXCEPT !.sqTail = position]
    OBVIOUS
  <2>2. ChipShape(e) /\ e.sqHead = a.sqHead /\ e.sqTail = position
        /\ e.cqHead = a.cqHead /\ e.cqTail = a.cqTail /\ e.state = a.state
    BY <1>1, <2>1 DEF ChipShape
  <2>3. ChipRoom(e)
    BY <1>1, <1>2, <2>2 DEF ChipRoom, CqUsed
  <2>4. MoveQueue(d, name, position) = e \/ MoveQueue(d, name, position) = RefuseMovement(d)
    BY <1>0, <1>2, <2>1 DEF MoveQueue
  <2>5. QED
    BY <2>3, <2>4, RefusedRoom
<1>3. CASE name = "CqHead"
  <2>1. PICK e : e = [a EXCEPT !.cqHead = position]
    OBVIOUS
  <2>2. ChipShape(e) /\ e.sqHead = a.sqHead /\ e.sqTail = a.sqTail
        /\ e.cqHead = position /\ e.cqTail = a.cqTail /\ e.state = a.state
    BY <1>1, <2>1 DEF ChipShape
  <2>3. \/ MoveQueue(d, name, position) = RefuseMovement(d)
        \/ MoveQueue(d, name, position) = e /\ Minus(position, d.cqHead) <= CqUsed(d)
    BY <1>0, <1>3, <2>1 DEF MoveQueue
  <2>4. ASSUME Minus(position, d.cqHead) <= CqUsed(d)
        PROVE  ChipRoom(e)
    <3>1. position \in 0 .. Positions - 1 /\ d.cqHead \in 0 .. Positions - 1
          /\ d.cqTail \in 0 .. Positions - 1 /\ Minus(position, d.cqHead) <= Minus(d.cqTail, d.cqHead)
      BY <1>3, <2>4 DEF ChipRoom, CqUsed
    <3>2. Minus(d.cqTail, position) <= Minus(d.cqTail, d.cqHead)
      BY <3>1, UsedAfterHead
    <3>3. Minus(d.cqTail, position) \in Int /\ Minus(d.cqTail, d.cqHead) \in Int /\ Ring \in Int
      <4>1. Positions \in Nat /\ Ring \in Nat
        BY QueueAssumption
      <4>2. Minus(d.cqTail, position) \in 0 .. Positions - 1 /\ Minus(d.cqTail, d.cqHead) \in 0 .. Positions - 1
        BY <3>1, MinusIs
      <4>3. QED
        BY <4>1, <4>2
    <3>4. CqUsed(e) <= CqUsed(a) /\ CqUsed(e) \in Int /\ CqUsed(a) \in Int
      BY <1>1, <2>2, <3>2, <3>3 DEF CqUsed
    <3>5. CqUsed(a) <= Ring /\ (a.state \in Making => CqUsed(a) < Ring)
          /\ {a.sqHead, a.sqTail} \subseteq 0 .. Positions - 1
      BY <1>1 DEF ChipRoom
    <3>6. CqUsed(e) <= Ring /\ (e.state \in Making => CqUsed(e) < Ring)
      BY <2>2, <3>3, <3>4, <3>5
    <3>7. {e.sqHead, e.sqTail, e.cqHead, e.cqTail} \subseteq 0 .. Positions - 1
      BY <1>1, <2>2, <3>1, <3>5
    <3>8. QED
      BY <2>2, <3>6, <3>7 DEF ChipRoom
  <2>5. QED
    BY <2>3, <2>4, RefusedRoom
<1>4. CASE name \notin {"SqTail", "CqHead"}
  BY <1>4, RefusedRoom DEF MoveQueue
<1>5. QED
  BY <1>2, <1>3, <1>4

LEMMA AccessRoom ==
  ASSUME NEW d, ChipRoom(d), NEW access, Legal(access)
  PROVE  ChipRoom(AcceptMmio(d, access))
<1> DEFINE n == access.register.name
           v == access.register.value
<1>1. CASE ~access.write
  BY <1>1, ResponseRoom DEF AcceptMmio
<1>2. CASE access.write /\ d.state = "Disabled"
  BY <1>2, ConfigureRoom DEF AcceptMmio, WriteAccess
<1>3. CASE access.write /\ ReadyState(d.state)
  <2>1. AcceptMmio(d, access) = MoveQueue(d, n, v)
    BY <1>3 DEF AcceptMmio, WriteAccess, ReadyState
  <2>2. n \in {"SqTail", "CqHead"} => v \in 0 .. Positions - 1
    BY <1>3 DEF Legal
  <2>3. QED
    BY <2>1, <2>2, MoveQueueRoom
<1>4. CASE access.write /\ d.state # "Disabled" /\ ~ReadyState(d.state)
  BY <1>4, RefusedRoom DEF AcceptMmio, WriteAccess
<1>5. QED
  BY <1>1, <1>2, <1>3, <1>4 DEF Legal

LEMMA PublishedRoom ==
  ASSUME NEW d, ChipRoom(d), d.state = "CqCompletion", NEW completion
  PROVE  ChipRoom(CqPublished(d, completion))
<1>1. PICK e : e = CqPublished(d, completion)
  OBVIOUS
<1>2. PICK s : s = IF CqUsed(d) = 0 /\ d.notify THEN "Notify" ELSE "ReadyIdle"
  OBVIOUS
<1>3. PICK t : t = Plus1(d.cqTail)
  OBVIOUS
<1>4. t \in 0 .. Positions - 1 /\ Minus(t, d.cqHead) <= Ring
  BY <1>3, Plus1Is, UsedAfterTail DEF ChipRoom, CqUsed, Making
<1>5. e = [d EXCEPT !.cqTail = t, !.state = s] \/ e = [d EXCEPT !.error = "CqDma", !.state = "Fault"]
  BY <1>1, <1>2, <1>3 DEF CqPublished, ChipRoom, ChipShape
<1>6. ChipShape(d)
  BY DEF ChipRoom
<1>7. CASE e = [d EXCEPT !.cqTail = t, !.state = s]
  <2>1. ChipShape(e) /\ e.sqHead = d.sqHead /\ e.sqTail = d.sqTail
        /\ e.cqHead = d.cqHead /\ e.cqTail = t /\ e.state = s
    BY <1>6, <1>7 DEF ChipShape
  <2>2. s \notin Making
    BY <1>2 DEF Making
  <2>3. QED
    BY <1>1, <1>4, <2>1, <2>2 DEF ChipRoom, CqUsed
<1>8. CASE e = [d EXCEPT !.error = "CqDma", !.state = "Fault"]
  <2>1. ChipShape(e) /\ e.sqHead = d.sqHead /\ e.sqTail = d.sqTail
        /\ e.cqHead = d.cqHead /\ e.cqTail = d.cqTail /\ e.state = "Fault"
    BY <1>6, <1>8 DEF ChipShape
  <2>2. QED
    BY <1>1, <2>1, RoomKept DEF Making
<1>9. QED
  BY <1>5, <1>7, <1>8

LEMMA FetchedRoom ==
  ASSUME NEW d, ChipRoom(d), d.state = "SqCompletion", NEW completion
  PROVE  ChipRoom(SqFetched(d, completion))
<1>1. PICK e : e = SqFetched(d, completion)
  OBVIOUS
<1>3. PICK t : t = Plus1(d.sqHead)
  OBVIOUS
<1>4. t \in 0 .. Positions - 1
  BY <1>3, Plus1Is DEF ChipRoom
<1>5. e = [d EXCEPT !.sqHead = t, !.state = "EndpointOffer"]
      \/ e = [d EXCEPT !.error = "SqDma", !.state = "Fault"]
  BY <1>1, <1>3 DEF SqFetched, ChipRoom, ChipShape
<1>6. ChipShape(d)
  BY DEF ChipRoom
<1>7. CASE e = [d EXCEPT !.sqHead = t, !.state = "EndpointOffer"]
  <2>1. ChipShape(e) /\ e.sqHead = t /\ e.sqTail = d.sqTail
        /\ e.cqHead = d.cqHead /\ e.cqTail = d.cqTail
    BY <1>6, <1>7 DEF ChipShape
  <2>2. QED
    BY <1>1, <1>4, <2>1 DEF ChipRoom, CqUsed, Making
<1>8. CASE e = [d EXCEPT !.error = "SqDma", !.state = "Fault"]
  <2>1. ChipShape(e) /\ e.sqHead = d.sqHead /\ e.sqTail = d.sqTail
        /\ e.cqHead = d.cqHead /\ e.cqTail = d.cqTail /\ e.state = "Fault"
    BY <1>6, <1>8 DEF ChipShape
  <2>2. QED
    BY <1>1, <2>1, RoomKept DEF Making
<1>9. QED
  BY <1>5, <1>7, <1>8

LEMMA ReceivedRoom ==
  ASSUME NEW d, ChipRoom(d), d.state = "SqReceive", NEW word
  PROVE  ChipRoom(ReceiveWord(d, word))
<1>1. PICK e : e = ReceiveWord(d, word)
  OBVIOUS
<1>2. PICK c : c = [d.command EXCEPT ![d.sqWord] = word]
  OBVIOUS
<1>3. PICK s : s = IF d.sqWord = SqWords - 1 THEN "SqCompletion" ELSE d.state
  OBVIOUS
<1>4. PICK w : w = IF d.sqWord = SqWords - 1 THEN d.sqWord ELSE d.sqWord + 1
  OBVIOUS
<1>5. ChipShape(d)
  BY DEF ChipRoom
<1>6. e = [d EXCEPT !.command = c, !.state = s, !.sqWord = w]
  BY <1>1, <1>2, <1>3, <1>4, <1>5 DEF ReceiveWord, ChipShape
<1>7. ChipShape(e) /\ e.sqHead = d.sqHead /\ e.sqTail = d.sqTail
      /\ e.cqHead = d.cqHead /\ e.cqTail = d.cqTail
  BY <1>5, <1>6 DEF ChipShape
<1>8. QED
  BY <1>1, <1>7, RoomKept DEF Making

LEMMA SentRoom ==
  ASSUME NEW d, ChipRoom(d), d.state = "CqSend"
  PROVE  ChipRoom(WordSent(d))
<1>1. PICK e : e = WordSent(d)
  OBVIOUS
<1>3. PICK s : s = IF d.cqWord = CqWords - 1 THEN "CqCompletion" ELSE d.state
  OBVIOUS
<1>4. PICK w : w = IF d.cqWord = CqWords - 1 THEN d.cqWord ELSE d.cqWord + 1
  OBVIOUS
<1>5. ChipShape(d)
  BY DEF ChipRoom
<1>6. e = [d EXCEPT !.state = s, !.cqWord = w]
  BY <1>1, <1>3, <1>4, <1>5 DEF WordSent, ChipShape
<1>7. ChipShape(e) /\ e.sqHead = d.sqHead /\ e.sqTail = d.sqTail
      /\ e.cqHead = d.cqHead /\ e.cqTail = d.cqTail
  BY <1>5, <1>6 DEF ChipShape
<1>8. QED
  BY <1>1, <1>7, RoomKept DEF Making

LEMMA ProgressRoom ==
  ASSUME NEW d, ChipRoom(d), NEW qli, NEW ep
  PROVE  ChipRoom(Progress(d, qli, ep))
<1>0. PICK e : e = Progress(d, qli, ep)
  OBVIOUS
<1>1. CASE d.state = "CqCompletion"
  BY <1>1, PublishedRoom DEF Progress
<1>2. CASE d.state = "SqCompletion"
  BY <1>2, FetchedRoom DEF Progress
<1>3. CASE d.state = "SqReceive"
  BY <1>3, ReceivedRoom DEF Progress
<1>4. CASE d.state = "CqSend"
  BY <1>4, SentRoom DEF Progress
<1>5. CASE d.state = "ReadyIdle"
  <2>1. e = d \/ (CqUsed(d) < Ring /\ e = [d EXCEPT !.state = "SqRequest", !.sqWord = 0])
    BY <1>0, <1>5 DEF Progress
  <2>2. CASE e = [d EXCEPT !.state = "SqRequest", !.sqWord = 0] /\ CqUsed(d) < Ring
    <3>1. ChipShape(e) /\ e.sqHead = d.sqHead /\ e.sqTail = d.sqTail
          /\ e.cqHead = d.cqHead /\ e.cqTail = d.cqTail
      BY <2>2 DEF ChipRoom, ChipShape
    <3>2. QED
      BY <1>0, <2>2, <3>1 DEF ChipRoom, CqUsed
  <2>3. QED
    BY <1>0, <2>1, <2>2
<1>6. CASE d.state \in {"SqRequest", "EndpointOffer", "CqRequest", "EndpointCompletion"}
  <2>1. \/ e = d \/ e = [d EXCEPT !.state = "SqReceive", !.sqWord = 0]
        \/ e = [d EXCEPT !.state = "EndpointCompletion"]
        \/ e = [d EXCEPT !.state = "CqSend", !.cqWord = 0]
        \/ e = [d EXCEPT !.state = "CqRequest", !.completion = ep.completion, !.cqWord = 0]
    BY <1>0, <1>6 DEF Progress
  <2>2. ChipShape(e) /\ e.sqHead = d.sqHead /\ e.sqTail = d.sqTail
        /\ e.cqHead = d.cqHead /\ e.cqTail = d.cqTail
    BY <2>1 DEF ChipRoom, ChipShape
  <2>3. QED
    BY <1>0, <1>6, <2>2, RoomKept DEF Making
<1>7. CASE d.state = "Notify"
  <2>1. e = d \/ e = [d EXCEPT !.state = "ReadyIdle"]
    BY <1>0, <1>7 DEF Progress
  <2>2. CASE e = [d EXCEPT !.state = "ReadyIdle"]
    <3>1. ChipShape(e) /\ e.sqHead = d.sqHead /\ e.sqTail = d.sqTail
          /\ e.cqHead = d.cqHead /\ e.cqTail = d.cqTail /\ e.state = "ReadyIdle"
      BY <2>2 DEF ChipRoom, ChipShape
    <3>2. QED
      BY <1>0, <3>1, RoomKept DEF Making
  <2>3. QED
    BY <1>0, <2>1, <2>2
<1>8. CASE d.state \notin Making \cup {"ReadyIdle", "Notify"}
  <2>1. e = d
    BY <1>0, <1>8 DEF Progress, Making
  <2>2. QED
    BY <1>0, <2>1
<1>9. QED
  BY <1>1, <1>2, <1>3, <1>4, <1>5, <1>6, <1>7, <1>8 DEF Making

LEMMA AdvanceRoom ==
  ASSUME NEW d, ChipRoom(d), NEW qli, qli.mmio # None => Legal(qli.mmio), NEW ep
  PROVE  ChipRoom(Advance(d, qli, ep))
<1> DEFINE p == [d EXCEPT !.resetPulse = FALSE]
           m == AfterMmio(p, qli)
<1>1. ChipRoom(p)
  <2>1. PICK e : e = p
    OBVIOUS
  <2>2. ChipShape(e) /\ e.sqHead = d.sqHead /\ e.sqTail = d.sqTail
        /\ e.cqHead = d.cqHead /\ e.cqTail = d.cqTail /\ e.state = d.state
    BY <2>1 DEF ChipRoom, ChipShape
  <2>3. QED
    BY <2>1, <2>2, RoomKept
<1> HIDE DEF p
<1>2. ChipRoom(m)
  <2>1. m = p \/ m = [p EXCEPT !.response = None] \/ (qli.mmio # None /\ m = AcceptMmio(p, qli.mmio))
    BY DEF AfterMmio, AcceptsMmio
  <2>2. ChipRoom([p EXCEPT !.response = None])
    BY <1>1, ResponseRoom
  <2>3. QED
    BY <1>1, <2>1, <2>2, AccessRoom
<1>3. Advance(d, qli, ep) \in {HardReset, Accepted(HardReset), m, Progress(m, qli, ep)}
  BY DEF Advance, p
<1>4. QED
  BY <1>2, <1>3, NewChipRoom, ProgressRoom

-----------------------------------------------------------------------------
(* One slot of the link.                                                    *)

QicSide(q) ==
  q = [mmioReady |-> q.mmioReady, readReady |-> q.readReady,
       completionReady |-> q.completionReady, response |-> q.response,
       dma |-> q.dma, write |-> q.write, notification |-> q.notification]

DeviceSide(t) ==
  t = [reset |-> t.reset, cancel |-> t.cancel, mmio |-> t.mmio, responseReady |-> t.responseReady,
       dmaReady |-> t.dmaReady, read |-> t.read, writeReady |-> t.writeReady,
       completion |-> t.completion, notified |-> t.notified]

ClockShape(c) ==
  /\ c = [link |-> c.link, toQic |-> c.toQic, toDevice |-> c.toDevice]
  /\ LinkShape(c.link) /\ QicSide(c.toQic) /\ DeviceSide(c.toDevice)

\* A message that is still there is the same one.
Same(m, n) == m # None => n # None /\ m.tag = n.tag /\ m.body = n.body

\* Nothing is delivered.
Quiet(c, d) ==
  /\ d.toQic = c.toQic /\ d.toDevice = c.toDevice
  /\ Same(d.link.q2d, c.link.q2d) /\ Same(d.link.d2q, c.link.d2q)
  /\ d.link.held = c.link.held /\ d.link.done = c.link.done

\* The device gets the message of the QIC.
DeviceGets(c, d, dev) ==
  LET m == c.link.q2d IN
  /\ m # None /\ L!DeviceTakes(m.tag, dev)
  /\ d.link.q2d = None /\ d.link.d2q = c.link.d2q /\ d.link.held = c.link.held
  /\ d.link.done = IF m.tag = "NotificationCompletion" /\ c.link.done = m.body
                   THEN None ELSE c.link.done
  /\ d.toQic.mmioReady = IF m.tag = "MmioRequest" THEN TRUE ELSE c.toQic.mmioReady
  /\ d.toQic.readReady = IF m.tag = "DmaRead" THEN TRUE ELSE c.toQic.readReady
  /\ d.toQic.completionReady = IF m.tag = "DmaCompletion" THEN TRUE ELSE c.toQic.completionReady
  /\ d.toQic.response = c.toQic.response /\ d.toQic.dma = c.toQic.dma
  /\ d.toQic.write = c.toQic.write /\ d.toQic.notification = c.toQic.notification
  /\ d.toDevice.reset = c.toDevice.reset
  /\ d.toDevice.cancel = IF m.tag = "MmioCancel" THEN TRUE ELSE c.toDevice.cancel
  /\ d.toDevice.mmio = IF m.tag = "MmioRequest" THEN m.body ELSE c.toDevice.mmio
  /\ d.toDevice.responseReady = c.toDevice.responseReady
  /\ d.toDevice.dmaReady = c.toDevice.dmaReady
  /\ d.toDevice.read = IF m.tag = "DmaRead" THEN m.body ELSE c.toDevice.read
  /\ d.toDevice.writeReady = c.toDevice.writeReady
  /\ d.toDevice.completion = IF m.tag = "DmaCompletion" THEN m.body ELSE c.toDevice.completion
  /\ d.toDevice.notified = IF m.tag = "NotificationCompletion" THEN TRUE ELSE c.toDevice.notified

\* The QIC gets the message of the device.
QicGets(c, d, qicSignals) ==
  LET m == c.link.d2q
      new == m.tag = "NotificationRequest" /\ c.link.held = None IN
  /\ m # None /\ L!QicTakes(m.tag, qicSignals)
  /\ d.link.d2q = None /\ d.link.q2d = c.link.q2d /\ d.link.done = c.link.done
  /\ d.link.held = IF new THEN m.body ELSE c.link.held
  /\ d.toQic.mmioReady = c.toQic.mmioReady /\ d.toQic.readReady = c.toQic.readReady
  /\ d.toQic.completionReady = c.toQic.completionReady
  /\ d.toQic.response = IF m.tag = "MmioResponse" THEN m.body ELSE c.toQic.response
  /\ d.toQic.dma = IF m.tag = "DmaRequest" THEN m.body ELSE c.toQic.dma
  /\ d.toQic.write = IF m.tag = "DmaWrite" THEN m.body ELSE c.toQic.write
  /\ d.toQic.notification = IF new THEN m.body ELSE c.toQic.notification
  /\ d.toDevice.reset = c.toDevice.reset /\ d.toDevice.cancel = c.toDevice.cancel
  /\ d.toDevice.mmio = c.toDevice.mmio /\ d.toDevice.read = c.toDevice.read
  /\ d.toDevice.responseReady = IF m.tag = "MmioResponse" THEN TRUE ELSE c.toDevice.responseReady
  /\ d.toDevice.dmaReady = IF m.tag = "DmaRequest" THEN TRUE ELSE c.toDevice.dmaReady
  /\ d.toDevice.writeReady = IF m.tag = "DmaWrite" THEN TRUE ELSE c.toDevice.writeReady
  /\ d.toDevice.completion = c.toDevice.completion /\ d.toDevice.notified = c.toDevice.notified

LEMMA DeliverToDeviceIs ==
  ASSUME NEW c, ClockShape(c), c.link.q2d # None, NEW dev, L!DeviceTakes(c.link.q2d.tag, dev),
         NEW d, d = L!DeliverToDevice(c)
  PROVE  ClockShape(d) /\ DeviceGets(c, d, dev) /\ d.link.last = c.link.last
<1>0. PICK m : m = c.link.q2d
  OBVIOUS
<1>1. PICK l : l = c.link
  OBVIOUS
<1>2. PICK q : q = c.toQic
  OBVIOUS
<1>3. PICK t : t = c.toDevice
  OBVIOUS
<1> DEFINE sentLink(done, fault) == [q2d |-> None, d2q |-> l.d2q, last |-> l.last, held |-> l.held,
                                     done |-> done, fault |-> fault]
           sent == [c EXCEPT !.link.q2d = None]
<1>4. sent = [link |-> sentLink(l.done, l.fault), toQic |-> q, toDevice |-> t]
  BY <1>1, <1>2, <1>3 DEF ClockShape, LinkShape
<1>5. m.tag \in ToDeviceTags
  BY <1>0 DEF ClockShape, LinkShape, MessageShape
<1>6. QicSide(q) /\ DeviceSide(t)
  BY <1>2, <1>3 DEF ClockShape
<1>7. ASSUME NEW done, NEW fault PROVE LinkShape(sentLink(done, fault))
  BY <1>1 DEF ClockShape, LinkShape, MessageShape
<1> HIDE DEF sent
<1>8. ASSUME NEW q2, NEW t2, NEW done, NEW fault, QicSide(q2), DeviceSide(t2),
             d = [link |-> sentLink(done, fault), toQic |-> q2, toDevice |-> t2]
      PROVE  /\ d.link.last = l.last /\ ClockShape(d) /\ d.toQic = q2 /\ d.toDevice = t2
             /\ d.link.q2d = None /\ d.link.d2q = l.d2q /\ d.link.held = l.held /\ d.link.done = done
  BY <1>7, <1>8 DEF ClockShape
<1> HIDE DEF sentLink
<1>9. CASE m.tag = "MmioRequest"
  <2>1. d = [sent EXCEPT !.toDevice.mmio = m.body, !.toQic.mmioReady = TRUE]
    BY <1>0, <1>9 DEF L!DeliverToDevice, sent
  <2>2. PICK q2 : q2 = [q EXCEPT !.mmioReady = TRUE]
    OBVIOUS
  <2>3. PICK t2 : t2 = [t EXCEPT !.mmio = m.body]
    OBVIOUS
  <2>4. d = [link |-> sentLink(l.done, l.fault), toQic |-> q2, toDevice |-> t2]
    BY <1>4, <2>1, <2>2, <2>3
  <2>5. QicSide(q2) /\ DeviceSide(t2)
    BY <1>6, <2>2, <2>3 DEF QicSide, DeviceSide
  <2>6. /\ d.link.last = l.last /\ ClockShape(d) /\ d.toQic = q2 /\ d.toDevice = t2 /\ d.link.q2d = None
        /\ d.link.d2q = l.d2q /\ d.link.held = l.held /\ d.link.done = l.done
    BY <1>8, <2>4, <2>5
  <2>7. QED
    BY <1>0, <1>1, <1>2, <1>3, <1>6, <1>9, <2>2, <2>3, <2>6 DEF DeviceGets, QicSide, DeviceSide
<1>10. CASE m.tag = "MmioCancel"
  <2>1. d = [sent EXCEPT !.toDevice.cancel = TRUE]
    BY <1>0, <1>10 DEF L!DeliverToDevice, sent
  <2>2. PICK q2 : q2 = q
    OBVIOUS
  <2>3. PICK t2 : t2 = [t EXCEPT !.cancel = TRUE]
    OBVIOUS
  <2>4. d = [link |-> sentLink(l.done, l.fault), toQic |-> q2, toDevice |-> t2]
    BY <1>4, <2>1, <2>2, <2>3
  <2>5. QicSide(q2) /\ DeviceSide(t2)
    BY <1>6, <2>2, <2>3 DEF QicSide, DeviceSide
  <2>6. /\ d.link.last = l.last /\ ClockShape(d) /\ d.toQic = q2 /\ d.toDevice = t2 /\ d.link.q2d = None
        /\ d.link.d2q = l.d2q /\ d.link.held = l.held /\ d.link.done = l.done
    BY <1>8, <2>4, <2>5
  <2>7. QED
    BY <1>0, <1>1, <1>2, <1>3, <1>6, <1>10, <2>2, <2>3, <2>6 DEF DeviceGets, QicSide, DeviceSide
<1>11. CASE m.tag = "DmaRead"
  <2>1. d = [sent EXCEPT !.toDevice.read = m.body, !.toQic.readReady = TRUE]
    BY <1>0, <1>11 DEF L!DeliverToDevice, sent
  <2>2. PICK q2 : q2 = [q EXCEPT !.readReady = TRUE]
    OBVIOUS
  <2>3. PICK t2 : t2 = [t EXCEPT !.read = m.body]
    OBVIOUS
  <2>4. d = [link |-> sentLink(l.done, l.fault), toQic |-> q2, toDevice |-> t2]
    BY <1>4, <2>1, <2>2, <2>3
  <2>5. QicSide(q2) /\ DeviceSide(t2)
    BY <1>6, <2>2, <2>3 DEF QicSide, DeviceSide
  <2>6. /\ d.link.last = l.last /\ ClockShape(d) /\ d.toQic = q2 /\ d.toDevice = t2 /\ d.link.q2d = None
        /\ d.link.d2q = l.d2q /\ d.link.held = l.held /\ d.link.done = l.done
    BY <1>8, <2>4, <2>5
  <2>7. QED
    BY <1>0, <1>1, <1>2, <1>3, <1>6, <1>11, <2>2, <2>3, <2>6 DEF DeviceGets, QicSide, DeviceSide
<1>12. CASE m.tag = "DmaCompletion"
  <2>1. d = [sent EXCEPT !.toDevice.completion = m.body, !.toQic.completionReady = TRUE]
    BY <1>0, <1>12 DEF L!DeliverToDevice, sent
  <2>2. PICK q2 : q2 = [q EXCEPT !.completionReady = TRUE]
    OBVIOUS
  <2>3. PICK t2 : t2 = [t EXCEPT !.completion = m.body]
    OBVIOUS
  <2>4. d = [link |-> sentLink(l.done, l.fault), toQic |-> q2, toDevice |-> t2]
    BY <1>4, <2>1, <2>2, <2>3
  <2>5. QicSide(q2) /\ DeviceSide(t2)
    BY <1>6, <2>2, <2>3 DEF QicSide, DeviceSide
  <2>6. /\ d.link.last = l.last /\ ClockShape(d) /\ d.toQic = q2 /\ d.toDevice = t2 /\ d.link.q2d = None
        /\ d.link.d2q = l.d2q /\ d.link.held = l.held /\ d.link.done = l.done
    BY <1>8, <2>4, <2>5
  <2>7. QED
    BY <1>0, <1>1, <1>2, <1>3, <1>6, <1>12, <2>2, <2>3, <2>6 DEF DeviceGets, QicSide, DeviceSide
<1>13. CASE m.tag = "NotificationCompletion"
  <2>1. PICK done : done = IF l.done = m.body THEN None ELSE l.done
    OBVIOUS
  <2>2. PICK fault : fault = IF l.done = m.body THEN l.fault ELSE TRUE
    OBVIOUS
  <2>3. PICK t2 : t2 = [t EXCEPT !.notified = TRUE]
    OBVIOUS
  <2>4. d = IF l.done = m.body
            THEN [sent EXCEPT !.toDevice.notified = TRUE, !.link.done = None]
            ELSE [sent EXCEPT !.toDevice.notified = TRUE, !.link.fault = TRUE]
    BY <1>0, <1>1, <1>13 DEF L!DeliverToDevice, sent
  <2>5. d = [link |-> sentLink(done, fault), toQic |-> q, toDevice |-> t2]
    BY <1>4, <2>1, <2>2, <2>3, <2>4 DEF sentLink
  <2>6. DeviceSide(t2)
    BY <1>6, <2>3 DEF DeviceSide
  <2>7. /\ d.link.last = l.last /\ ClockShape(d) /\ d.toQic = q /\ d.toDevice = t2 /\ d.link.q2d = None
        /\ d.link.d2q = l.d2q /\ d.link.held = l.held /\ d.link.done = done
    BY <1>6, <1>8, <2>5, <2>6
  <2>8. QED
    BY <1>0, <1>1, <1>2, <1>3, <1>6, <1>13, <2>1, <2>3, <2>7 DEF DeviceGets, DeviceSide
<1>14. QED
  BY <1>5, <1>9, <1>10, <1>11, <1>12, <1>13 DEF ToDeviceTags

LEMMA DeliverToQicIs ==
  ASSUME NEW c, ClockShape(c), c.link.d2q # None, NEW qicSignals,
         L!QicTakes(c.link.d2q.tag, qicSignals), NEW d, d = L!DeliverToQic(c)
  PROVE  ClockShape(d) /\ QicGets(c, d, qicSignals) /\ d.link.last = c.link.last
<1>0. PICK m : m = c.link.d2q
  OBVIOUS
<1>1. PICK l : l = c.link
  OBVIOUS
<1>2. PICK q : q = c.toQic
  OBVIOUS
<1>3. PICK t : t = c.toDevice
  OBVIOUS
<1> DEFINE sentLink(held, fault) == [q2d |-> l.q2d, d2q |-> None, last |-> l.last, held |-> held,
                                     done |-> l.done, fault |-> fault]
           sent == [c EXCEPT !.link.d2q = None]
<1>4. sent = [link |-> sentLink(l.held, l.fault), toQic |-> q, toDevice |-> t]
  BY <1>1, <1>2, <1>3 DEF ClockShape, LinkShape
<1>5. m.tag \in ToQicTags
  BY <1>0 DEF ClockShape, LinkShape, MessageShape
<1>6. QicSide(q) /\ DeviceSide(t)
  BY <1>2, <1>3 DEF ClockShape
<1>7. ASSUME NEW held, NEW fault PROVE LinkShape(sentLink(held, fault))
  BY <1>1 DEF ClockShape, LinkShape, MessageShape
<1> HIDE DEF sent
<1>8. ASSUME NEW q2, NEW t2, NEW held, NEW fault, QicSide(q2), DeviceSide(t2),
             d = [link |-> sentLink(held, fault), toQic |-> q2, toDevice |-> t2]
      PROVE  /\ d.link.last = l.last /\ ClockShape(d) /\ d.toQic = q2 /\ d.toDevice = t2
             /\ d.link.d2q = None /\ d.link.q2d = l.q2d /\ d.link.held = held /\ d.link.done = l.done
  BY <1>7, <1>8 DEF ClockShape
<1> HIDE DEF sentLink
<1>9. CASE m.tag = "MmioResponse"
  <2>1. d = [sent EXCEPT !.toQic.response = m.body, !.toDevice.responseReady = TRUE]
    BY <1>0, <1>9 DEF L!DeliverToQic, sent
  <2>2. PICK q2 : q2 = [q EXCEPT !.response = m.body]
    OBVIOUS
  <2>3. PICK t2 : t2 = [t EXCEPT !.responseReady = TRUE]
    OBVIOUS
  <2>4. d = [link |-> sentLink(l.held, l.fault), toQic |-> q2, toDevice |-> t2]
    BY <1>4, <2>1, <2>2, <2>3
  <2>5. QicSide(q2) /\ DeviceSide(t2)
    BY <1>6, <2>2, <2>3 DEF QicSide, DeviceSide
  <2>6. /\ d.link.last = l.last /\ ClockShape(d) /\ d.toQic = q2 /\ d.toDevice = t2 /\ d.link.d2q = None
        /\ d.link.q2d = l.q2d /\ d.link.held = l.held /\ d.link.done = l.done
    BY <1>8, <2>4, <2>5
  <2>7. QED
    BY <1>0, <1>1, <1>2, <1>3, <1>6, <1>9, <2>2, <2>3, <2>6 DEF QicGets, QicSide, DeviceSide
<1>10. CASE m.tag = "DmaRequest"
  <2>1. d = [sent EXCEPT !.toQic.dma = m.body, !.toDevice.dmaReady = TRUE]
    BY <1>0, <1>10 DEF L!DeliverToQic, sent
  <2>2. PICK q2 : q2 = [q EXCEPT !.dma = m.body]
    OBVIOUS
  <2>3. PICK t2 : t2 = [t EXCEPT !.dmaReady = TRUE]
    OBVIOUS
  <2>4. d = [link |-> sentLink(l.held, l.fault), toQic |-> q2, toDevice |-> t2]
    BY <1>4, <2>1, <2>2, <2>3
  <2>5. QicSide(q2) /\ DeviceSide(t2)
    BY <1>6, <2>2, <2>3 DEF QicSide, DeviceSide
  <2>6. /\ d.link.last = l.last /\ ClockShape(d) /\ d.toQic = q2 /\ d.toDevice = t2 /\ d.link.d2q = None
        /\ d.link.q2d = l.q2d /\ d.link.held = l.held /\ d.link.done = l.done
    BY <1>8, <2>4, <2>5
  <2>7. QED
    BY <1>0, <1>1, <1>2, <1>3, <1>6, <1>10, <2>2, <2>3, <2>6 DEF QicGets, QicSide, DeviceSide
<1>11. CASE m.tag = "DmaWrite"
  <2>1. d = [sent EXCEPT !.toQic.write = m.body, !.toDevice.writeReady = TRUE]
    BY <1>0, <1>11 DEF L!DeliverToQic, sent
  <2>2. PICK q2 : q2 = [q EXCEPT !.write = m.body]
    OBVIOUS
  <2>3. PICK t2 : t2 = [t EXCEPT !.writeReady = TRUE]
    OBVIOUS
  <2>4. d = [link |-> sentLink(l.held, l.fault), toQic |-> q2, toDevice |-> t2]
    BY <1>4, <2>1, <2>2, <2>3
  <2>5. QicSide(q2) /\ DeviceSide(t2)
    BY <1>6, <2>2, <2>3 DEF QicSide, DeviceSide
  <2>6. /\ d.link.last = l.last /\ ClockShape(d) /\ d.toQic = q2 /\ d.toDevice = t2 /\ d.link.d2q = None
        /\ d.link.q2d = l.q2d /\ d.link.held = l.held /\ d.link.done = l.done
    BY <1>8, <2>4, <2>5
  <2>7. QED
    BY <1>0, <1>1, <1>2, <1>3, <1>6, <1>11, <2>2, <2>3, <2>6 DEF QicGets, QicSide, DeviceSide
<1>12. CASE m.tag = "NotificationRequest"
  <2>1. PICK held : held = IF l.held = None THEN m.body ELSE l.held
    OBVIOUS
  <2>2. PICK fault : fault = IF l.held = None THEN l.fault ELSE l.fault \/ l.held # m.body
    OBVIOUS
  <2>3. PICK q2 : q2 = IF l.held = None THEN [q EXCEPT !.notification = m.body] ELSE q
    OBVIOUS
  <2>4. d = IF l.held = None
            THEN [sent EXCEPT !.link.held = m.body, !.toQic.notification = m.body]
            ELSE [sent EXCEPT !.link.fault = @ \/ l.held # m.body]
    BY <1>0, <1>1, <1>12 DEF L!DeliverToQic, sent
  <2>5. d = [link |-> sentLink(held, fault), toQic |-> q2, toDevice |-> t]
    <3>1. CASE l.held = None
      BY <1>4, <2>1, <2>2, <2>3, <2>4, <3>1 DEF sentLink
    <3>2. CASE l.held # None
      <4>1. d = [sent EXCEPT !.link.fault = fault]
        BY <1>1, <1>4, <2>2, <2>4, <3>2 DEF sentLink
      <4>2. QED
        BY <1>4, <2>1, <2>3, <3>2, <4>1 DEF sentLink
    <3>3. QED
      BY <3>1, <3>2
  <2>6. QicSide(q2)
    BY <1>6, <2>3 DEF QicSide
  <2>7. /\ d.link.last = l.last /\ ClockShape(d) /\ d.toQic = q2 /\ d.toDevice = t /\ d.link.d2q = None
        /\ d.link.q2d = l.q2d /\ d.link.held = held /\ d.link.done = l.done
    BY <1>6, <1>8, <2>5, <2>6
  <2>8. QED
    BY <1>0, <1>1, <1>2, <1>3, <1>6, <1>12, <2>1, <2>3, <2>7 DEF QicGets, QicSide
<1>13. QED
  BY <1>5, <1>9, <1>10, <1>11, <1>12 DEF ToQicTags

\* The direction of the link, from one slot to the next.
Turns(c, d, qicSignals, dev) ==
  LET l == c.link IN
  /\ d.link.last \in {None, "QicToDevice", "DeviceToQic"}
  /\ (l.d2q # None /\ (l.last = "DeviceToQic" \/ (l.last = None /\ l.q2d = None))) =>
       d.link.last = "DeviceToQic" /\ (Quiet(c, d) \/ QicGets(c, d, qicSignals))
  /\ (l.q2d # None /\ l.last \in {None, "QicToDevice"}) =>
       /\ d.link.last = "QicToDevice"
       /\ l.q2d.left > 1 \/ ~L!DeviceTakes(l.q2d.tag, dev) \/ DeviceGets(c, d, dev)
  /\ (l.q2d = None /\ l.last = "QicToDevice") => d.link.last = None /\ Quiet(c, d)
  /\ (l.d2q = None /\ l.last = "DeviceToQic") =>
       d.link.last = None /\ Quiet(c, d) /\ d.link.q2d = l.q2d

\* The message to the QIC stays as it is, is a token shorter, or is delivered.
Ebbs(c, d, qicSignals) ==
  LET m == c.link.d2q IN
  \/ d.link.d2q = m \/ QicGets(c, d, qicSignals)
  \/ m # None /\ d.link.d2q = L!Message(m.tag, m.body, m.left - 1)

\* What a slot does to the message it moves.
Shorter(m, n, taken) ==
  IF m.left > 1 THEN n = L!Message(m.tag, m.body, m.left - 1) ELSE IF taken THEN n = None ELSE n = m

\* The slot is the message's whose turn it is, or idle.
Spends(c, d, qicSignals, dev) ==
  LET l == c.link
      n == d.link IN
  IF l.d2q # None /\ (l.last = "DeviceToQic" \/ (l.last = None /\ l.q2d = None))
  THEN /\ n.q2d = l.q2d /\ n.last = "DeviceToQic"
       /\ Shorter(l.d2q, n.d2q, L!QicTakes(l.d2q.tag, qicSignals))
       /\ l.d2q.left > 1 \/ ~L!QicTakes(l.d2q.tag, qicSignals) \/ QicGets(c, d, qicSignals)
  ELSE IF l.q2d # None /\ l.last \in {None, "QicToDevice"}
  THEN /\ n.d2q = l.d2q /\ n.last = "QicToDevice"
       /\ Shorter(l.q2d, n.q2d, L!DeviceTakes(l.q2d.tag, dev))
  ELSE n.q2d = l.q2d /\ n.d2q = l.d2q /\ n.last = None

Slotted(c, d, qicSignals, dev) ==
  /\ Quiet(c, d) \/ DeviceGets(c, d, dev) \/ QicGets(c, d, qicSignals)
  /\ Turns(c, d, qicSignals, dev) /\ Ebbs(c, d, qicSignals)
  /\ c.link.last \in {None, "QicToDevice", "DeviceToQic"} => Spends(c, d, qicSignals, dev)

LEMMA SlotIs ==
  ASSUME NEW c, ClockShape(c), NEW qicSignals, NEW dev, NEW d, d = L!Slot(c, qicSignals, dev)
  PROVE  ClockShape(d) /\ Slotted(c, d, qicSignals, dev)
<1> DEFINE turned == [c EXCEPT !.link.last = L!Direction(c.link)]
<1>0. PICK dir : dir = L!Direction(c.link)
  OBVIOUS
<1>1. PICK l : l = c.link
  OBVIOUS
<1>2. PICK q : q = c.toQic
  OBVIOUS
<1>3. PICK t : t = c.toDevice
  OBVIOUS
<1>4. c = [link |-> [q2d |-> l.q2d, d2q |-> l.d2q, last |-> l.last, held |-> l.held,
                     done |-> l.done, fault |-> l.fault], toQic |-> q, toDevice |-> t]
  BY <1>1, <1>2, <1>3 DEF ClockShape, LinkShape
<1>5. turned = [link |-> [q2d |-> l.q2d, d2q |-> l.d2q, last |-> dir, held |-> l.held,
                          done |-> l.done, fault |-> l.fault], toQic |-> q, toDevice |-> t]
  BY <1>0, <1>4
<1>6. ClockShape(turned) /\ Quiet(c, turned)
  BY <1>1, <1>2, <1>3, <1>5 DEF ClockShape, LinkShape, Quiet, Same
<1> HIDE DEF turned
<1>d. /\ None \notin {"QicToDevice", "DeviceToQic"} /\ dir \in {None, "QicToDevice", "DeviceToQic"}
      /\ dir = IF l.last = "DeviceToQic" /\ l.d2q # None THEN "DeviceToQic"
               ELSE IF l.q2d # None THEN "QicToDevice"
               ELSE IF l.d2q # None THEN "DeviceToQic" ELSE None
  BY <1>0, <1>1, NoneIsNoValue DEF L!Direction
<1>7. CASE dir = None \/ c.link.last \notin {None, dir}
  <2>1. d = [c EXCEPT !.link.last = None]
    BY <1>0, <1>7 DEF L!Slot
  <2>2. d = [link |-> [q2d |-> l.q2d, d2q |-> l.d2q, last |-> None, held |-> l.held,
                       done |-> l.done, fault |-> l.fault], toQic |-> q, toDevice |-> t]
    BY <1>4, <2>1
  <2>3. ClockShape(d) /\ Quiet(c, d)
    BY <1>1, <1>2, <1>3, <2>2 DEF ClockShape, LinkShape, Quiet, Same
  <2>4. d.link.last = None /\ d.link.q2d = l.q2d /\ d.link.d2q = l.d2q
    BY <2>2
  <2>5. Turns(c, d, qicSignals, dev)
    BY <1>1, <1>d, <1>7, <2>3, <2>4 DEF Turns
  <2>6. c.link.last \in {None, "QicToDevice", "DeviceToQic"} => Spends(c, d, qicSignals, dev)
    BY <1>1, <1>d, <1>7, <2>4 DEF Spends
  <2>7. QED
    BY <1>1, <2>3, <2>4, <2>5, <2>6 DEF Ebbs, Slotted
<1>8. CASE ~(dir = None \/ c.link.last \notin {None, dir}) /\ dir = "QicToDevice"
  <2>1. d = L!MoveToDevice(turned, dev)
    BY <1>0, <1>8 DEF L!Slot, turned
  <2>2. c.link.q2d # None
    BY <1>0, <1>8 DEF L!Direction
  <2>3. turned.link.q2d = c.link.q2d
    BY <1>1, <1>5
  <2>4. CASE turned.link.q2d.left > 1
    <3>1. d = [turned EXCEPT !.link.q2d.left = @ - 1]
      BY <2>1, <2>4 DEF L!MoveToDevice
    <3>2. PICK n : n = turned.link.q2d.left - 1
      OBVIOUS
    <3>3. d = [link |-> [q2d |-> [tag |-> l.q2d.tag, body |-> l.q2d.body, left |-> n],
                         d2q |-> l.d2q, last |-> dir, held |-> l.held,
                         done |-> l.done, fault |-> l.fault], toQic |-> q, toDevice |-> t]
      BY <1>1, <1>5, <2>2, <3>1, <3>2 DEF ClockShape, LinkShape, MessageShape, L!Message
    <3>4. ClockShape(d) /\ Quiet(c, d)
      BY <1>1, <1>2, <1>3, <2>2, <3>3 DEF ClockShape, LinkShape, MessageShape, L!Message, Quiet, Same
    <3>5. d.link.last = dir /\ d.link.d2q = l.d2q
      BY <3>3
    <3>6. d.link.q2d = L!Message(l.q2d.tag, l.q2d.body, l.q2d.left - 1)
      <4>1. n = l.q2d.left - 1
        BY <1>5, <3>2
      <4>2. QED
        BY <3>3, <4>1 DEF L!Message
    <3>7. Spends(c, d, qicSignals, dev)
      BY <1>1, <1>d, <1>8, <2>2, <2>3, <2>4, <3>5, <3>6 DEF Spends, Shorter
    <3>8. QED
      BY <1>1, <1>d, <1>8, <2>3, <2>4, <3>4, <3>5, <3>7 DEF Turns, Ebbs, Slotted
  <2>5. CASE ~(turned.link.q2d.left > 1) /\ L!DeviceTakes(turned.link.q2d.tag, dev)
    <3>1. d = L!DeliverToDevice(turned)
      BY <2>1, <2>5 DEF L!MoveToDevice
    <3>2. ClockShape(d) /\ DeviceGets(turned, d, dev)
      BY <1>6, <2>2, <2>3, <2>5, <3>1, DeliverToDeviceIs
    <3>3. DeviceGets(c, d, dev)
      BY <1>1, <1>2, <1>3, <1>5, <3>2 DEF DeviceGets
    <3>4. d.link.last = dir
      <4>1. turned.link.last = dir
        BY <1>5
      <4>2. QED
        BY <1>6, <2>2, <2>3, <2>5, <3>1, <4>1, DeliverToDeviceIs
    <3>5. Spends(c, d, qicSignals, dev)
      BY <1>1, <1>d, <1>8, <2>2, <2>3, <2>5, <3>3, <3>4 DEF Spends, Shorter, DeviceGets
    <3>6. QED
      BY <1>1, <1>d, <1>8, <3>2, <3>3, <3>4, <3>5 DEF Turns, DeviceGets, Ebbs, Slotted
  <2>6. CASE ~(turned.link.q2d.left > 1) /\ ~L!DeviceTakes(turned.link.q2d.tag, dev)
    <3>1. d = turned
      BY <2>1, <2>6 DEF L!MoveToDevice
    <3>2. ClockShape(d) /\ Quiet(c, d) /\ d.link.last = dir /\ d.link.d2q = l.d2q /\ d.link.q2d = l.q2d
      BY <1>5, <1>6, <3>1
    <3>3. Spends(c, d, qicSignals, dev)
      BY <1>1, <1>d, <1>8, <2>2, <2>3, <2>6, <3>2 DEF Spends, Shorter
    <3>4. QED
      BY <1>1, <1>d, <1>8, <2>3, <2>6, <3>2, <3>3 DEF Turns, Ebbs, Slotted
  <2>7. QED
    BY <2>4, <2>5, <2>6
<1>9. CASE ~(dir = None \/ c.link.last \notin {None, dir}) /\ dir # "QicToDevice"
  <2>1. d = L!MoveToQic(turned, qicSignals)
    BY <1>0, <1>9 DEF L!Slot, turned
  <2>2. c.link.d2q # None
    BY <1>0, <1>9 DEF L!Direction
  <2>3. turned.link.d2q = c.link.d2q
    BY <1>1, <1>5
  <2>4. CASE turned.link.d2q.left > 1
    <3>1. d = [turned EXCEPT !.link.d2q.left = @ - 1]
      BY <2>1, <2>4 DEF L!MoveToQic
    <3>2. PICK n : n = turned.link.d2q.left - 1
      OBVIOUS
    <3>3. d = [link |-> [q2d |-> l.q2d,
                         d2q |-> [tag |-> l.d2q.tag, body |-> l.d2q.body, left |-> n],
                         last |-> dir, held |-> l.held,
                         done |-> l.done, fault |-> l.fault], toQic |-> q, toDevice |-> t]
      BY <1>1, <1>5, <2>2, <3>1, <3>2 DEF ClockShape, LinkShape, MessageShape, L!Message
    <3>4. ClockShape(d) /\ Quiet(c, d)
      BY <1>1, <1>2, <1>3, <2>2, <3>3 DEF ClockShape, LinkShape, MessageShape, L!Message, Quiet, Same
    <3>5. d.link.last = dir /\ d.link.d2q = L!Message(l.d2q.tag, l.d2q.body, l.d2q.left - 1)
      <4>1. n = l.d2q.left - 1
        BY <1>5, <3>2
      <4>2. QED
        BY <3>3, <4>1 DEF L!Message
    <3>6. Spends(c, d, qicSignals, dev)
      <4>1. d.link.q2d = l.q2d
        BY <3>3
      <4>2. QED
        BY <1>1, <1>d, <1>9, <2>2, <2>3, <2>4, <3>5, <4>1 DEF Spends, Shorter
    <3>7. QED
      BY <1>1, <1>d, <1>9, <2>3, <2>4, <3>4, <3>5, <3>6 DEF Turns, Ebbs, Slotted
  <2>5. CASE ~(turned.link.d2q.left > 1) /\ L!QicTakes(turned.link.d2q.tag, qicSignals)
    <3>1. d = L!DeliverToQic(turned)
      BY <2>1, <2>5 DEF L!MoveToQic
    <3>2. ClockShape(d) /\ QicGets(turned, d, qicSignals)
      BY <1>6, <2>2, <2>3, <2>5, <3>1, DeliverToQicIs
    <3>3. QicGets(c, d, qicSignals)
      BY <1>1, <1>2, <1>3, <1>5, <3>2 DEF QicGets
    <3>4. d.link.last = dir
      <4>1. turned.link.last = dir
        BY <1>5
      <4>2. QED
        BY <1>6, <2>2, <2>3, <2>5, <3>1, <4>1, DeliverToQicIs
    <3>5. Spends(c, d, qicSignals, dev)
      BY <1>1, <1>d, <1>9, <2>2, <2>3, <2>5, <3>3, <3>4 DEF Spends, Shorter, QicGets
    <3>6. QED
      BY <1>1, <1>d, <1>9, <3>2, <3>3, <3>4, <3>5 DEF Turns, Ebbs, Slotted
  <2>6. CASE ~(turned.link.d2q.left > 1) /\ ~L!QicTakes(turned.link.d2q.tag, qicSignals)
    <3>1. d = turned
      BY <2>1, <2>6 DEF L!MoveToQic
    <3>2. ClockShape(d) /\ Quiet(c, d) /\ d.link.last = dir /\ d.link.d2q = l.d2q /\ d.link.q2d = l.q2d
      BY <1>5, <1>6, <3>1
    <3>3. Spends(c, d, qicSignals, dev)
      BY <1>1, <1>d, <1>9, <2>2, <2>3, <2>6, <3>2 DEF Spends, Shorter
    <3>4. QED
      BY <1>1, <1>d, <1>9, <2>3, <2>6, <3>2, <3>3 DEF Turns, Ebbs, Slotted
  <2>7. QED
    BY <2>4, <2>5, <2>6
<1>10. QED
  BY <1>7, <1>8, <1>9

-----------------------------------------------------------------------------
(* One clock of the link: what is begun, and two slots.                     *)

\* The notification the QIC has done with goes back.
Done(l, qicSignals) == l.held # None /\ qicSignals.notified

Begun(l, c, qicSignals, dev) ==
  /\ c.link.last = l.last
  /\ c.link.held = IF Done(l, qicSignals) THEN None ELSE l.held
  /\ c.link.done = IF Done(l, qicSignals) THEN l.held ELSE l.done
  /\ c.link.q2d = IF l.q2d = None THEN L!ToDeviceMessage(L!Notified(l, qicSignals), qicSignals)
                  ELSE l.q2d
  /\ c.link.d2q = IF l.d2q = None THEN L!ToQicMessage(L!Notified(l, qicSignals), qicSignals, dev)
                  ELSE l.d2q
  /\ c.toQic.mmioReady = FALSE /\ c.toQic.readReady = FALSE /\ c.toQic.completionReady = FALSE
  /\ c.toQic.response = None /\ c.toQic.dma = None /\ c.toQic.write = None
  /\ c.toQic.notification = c.link.held
  /\ c.toDevice = L!NoQic

LEMMA NotifiedIs ==
  ASSUME NEW l, LinkShape(l), NEW qicSignals, NEW n, n = L!Notified(l, qicSignals)
  PROVE  /\ n = [q2d |-> l.q2d, d2q |-> l.d2q, last |-> l.last,
                 held |-> IF Done(l, qicSignals) THEN None ELSE l.held,
                 done |-> IF Done(l, qicSignals) THEN l.held ELSE l.done, fault |-> l.fault]
  BY DEF LinkShape, L!Notified, Done

LEMMA MessagesShaped ==
  ASSUME NEW l, NEW qicSignals, NEW dev
  PROVE  /\ MessageShape(L!ToDeviceMessage(l, qicSignals), ToDeviceTags)
         /\ MessageShape(L!ToQicMessage(l, qicSignals, dev), ToQicTags)
<1>1. ASSUME NEW tag, NEW body, NEW left, NEW tags, tag \in tags
      PROVE  MessageShape(L!Message(tag, body, left), tags)
  BY <1>1 DEF MessageShape, L!Message
<1>2. MessageShape(None, ToDeviceTags) /\ MessageShape(None, ToQicTags)
  BY DEF MessageShape
<1>3. {"MmioRequest", "MmioCancel", "DmaRead", "DmaCompletion", "NotificationCompletion"} \subseteq ToDeviceTags
  BY DEF ToDeviceTags
<1>4. {"MmioResponse", "DmaRequest", "DmaWrite", "NotificationRequest"} \subseteq ToQicTags
  BY DEF ToQicTags
<1>5. QED
  BY <1>1, <1>2, <1>3, <1>4 DEF L!ToDeviceMessage, L!ToQicMessage

LEMMA CycleIs ==
  ASSUME NEW l, LinkShape(l), NEW qicSignals, NEW dev, NEW d, d = L!Cycle(l, FALSE, qicSignals, dev)
  PROVE  \E b, c : /\ ClockShape(b) /\ Begun(l, b, qicSignals, dev)
                   /\ ClockShape(c) /\ Slotted(b, c, qicSignals, dev)
                   /\ ClockShape(d) /\ Slotted(c, d, qicSignals, dev)
<1>1. PICK n : n = L!Notified(l, qicSignals)
  OBVIOUS
<1>2. PICK q2d : q2d = IF l.q2d = None THEN L!ToDeviceMessage(n, qicSignals) ELSE l.q2d
  OBVIOUS
<1>3. PICK d2q : d2q = IF l.d2q = None THEN L!ToQicMessage(n, qicSignals, dev) ELSE l.d2q
  OBVIOUS
<1>4. PICK held : held = IF Done(l, qicSignals) THEN None ELSE l.held
  OBVIOUS
<1>5. PICK done : done = IF Done(l, qicSignals) THEN l.held ELSE l.done
  OBVIOUS
<1>6. n = [q2d |-> l.q2d, d2q |-> l.d2q, last |-> l.last, held |-> held, done |-> done,
           fault |-> l.fault]
  BY <1>1, <1>4, <1>5, NotifiedIs
<1>7. PICK begun : begun = L!Begin(n, qicSignals, dev)
  OBVIOUS
<1>8. begun = [q2d |-> q2d, d2q |-> d2q, last |-> l.last, held |-> held, done |-> done,
               fault |-> l.fault]
  <2>1. begun = [n EXCEPT !.q2d = q2d, !.d2q = d2q]
    BY <1>2, <1>3, <1>6, <1>7 DEF L!Begin
  <2>2. QED
    BY <1>6, <2>1
<1>9. LinkShape(begun)
  <2>1. MessageShape(q2d, ToDeviceTags) /\ MessageShape(d2q, ToQicTags)
    BY <1>2, <1>3, MessagesShaped DEF LinkShape
  <2>2. QED
    BY <1>8, <2>1 DEF LinkShape
<1>10. PICK q : q = [L!NoDevice EXCEPT !.notification = held]
  OBVIOUS
<1>11. PICK b : b = [link |-> begun, toQic |-> q, toDevice |-> L!NoQic]
  OBVIOUS
<1>12. ClockShape(b)
  <2>1. QicSide(q) /\ DeviceSide(L!NoQic)
    BY <1>10 DEF QicSide, DeviceSide, L!NoDevice, L!NoQic
  <2>2. QED
    BY <1>9, <1>11, <2>1 DEF ClockShape
<1>13. Begun(l, b, qicSignals, dev)
  <2>1. /\ q.mmioReady = FALSE /\ q.readReady = FALSE /\ q.completionReady = FALSE
        /\ q.response = None /\ q.dma = None /\ q.write = None /\ q.notification = held
    BY <1>10 DEF L!NoDevice
  <2>2. QED
    BY <1>1, <1>2, <1>3, <1>4, <1>5, <1>8, <1>11, <2>1 DEF Begun
<1>14. PICK c : c = L!Slot(b, qicSignals, dev)
  OBVIOUS
<1>15. ClockShape(c) /\ Slotted(b, c, qicSignals, dev)
  BY <1>12, <1>14, SlotIs
<1>16. d = L!Slot(c, qicSignals, dev)
  BY <1>1, <1>7, <1>8, <1>10, <1>11, <1>14 DEF L!Cycle
<1>17. ClockShape(d) /\ Slotted(c, d, qicSignals, dev)
  BY <1>15, <1>16, SlotIs
<1>18. QED
  BY <1>12, <1>13, <1>15, <1>17

-----------------------------------------------------------------------------
(* One clock of the QIC.                                                    *)

QicRecord(q) ==
  q = [state |-> q.state, suspended |-> q.suspended, tail |-> q.tail, grantUsed |-> q.grantUsed]

\* A register access comes in between; the grant is withdrawn; the state's own next state; and
\* what is then put aside.
Interrupted(q, bus) == Q!WorkerAddressCycle(bus) /\ (q.state.at = "RequestBus" \/ Q!LocalTail(q.state))
Lost(q, bus) == ~Interrupted(q, bus) /\ ~bus.grant /\ Q!NeedsGrant(q.state)
Goes(q, bus) == ~Interrupted(q, bus) /\ ~Lost(q, bus)
Now(q, bus) == [q EXCEPT !.grantUsed = @ /\ bus.grant]
Moved(q, bus, device) == Q!NextState(Now(q, bus), bus, device)
Aside(q, device) ==
  IF Q!AcceptsDmaDuringWorker(q, device) THEN [kind |-> "Dma", request |-> device.dma]
  ELSE q.suspended

GoesTo(q, q2, n, u) == q2.state = n /\ q2.suspended = u /\ q2.tail = q.tail
Resumes(q, q2, u) ==
  IF q.tail # None THEN q2.state = q.tail /\ q2.suspended = u /\ q2.tail = None
  ELSE IF u # None THEN q2.state = Q!RequestBus(u) /\ q2.suspended = None /\ q2.tail = q.tail
  ELSE q2.state = Q!Idle /\ q2.suspended = u /\ q2.tail = q.tail

\* The clock of the QIC, by what it does with its registers.
LEMMA ClockIs ==
  ASSUME NEW q, NEW bus, NEW device, QicRecord(q), ~bus.reset, bus.grant \in BOOLEAN,
         q.grantUsed \in BOOLEAN, NEW q2, q2 = Q!Clock(q, bus, device)
  PROVE  /\ QicRecord(q2) /\ q2.grantUsed \in BOOLEAN
         /\ Interrupted(q, bus) =>
              /\ IF ~bus.address.valid THEN GoesTo(q, q2, q.state, q.suspended)
                 ELSE /\ q2.state = Q!StartWorker(bus)
                      /\ q2.suspended = IF q.state.at = "RequestBus" THEN q.state.work ELSE q.suspended
                      /\ q2.tail = IF q.state.at = "RequestBus" THEN q.tail ELSE q.state
              /\ q2.grantUsed = (q.grantUsed /\ bus.grant)
         /\ Lost(q, bus) =>
              /\ GoesTo(q, q2, Q!LoseGrant(q.state), q.suspended)
              /\ q2.grantUsed = (q.grantUsed /\ bus.grant)
         /\ Goes(q, bus) =>
              LET n == Moved(q, bus, device)
                  u == Aside(q, device) IN
              /\ IF n # Q!Idle THEN GoesTo(q, q2, n, u) ELSE Resumes(q, q2, u)
              /\ q2.grantUsed = ((q.grantUsed /\ bus.grant) \/ (q.state.at = "RequestBus" /\ bus.grant))
<1> DEFINE now == Now(q, bus)
           s == q.state
           t == q.tail
           n == Moved(q, bus, device)
           u == Aside(q, device)
           g == q.grantUsed /\ bus.grant
           g2 == g \/ (s.at = "RequestBus" /\ bus.grant)
           used == now.grantUsed \/ (now.state.at = "RequestBus" /\ bus.grant)
           rest == [now EXCEPT !.suspended = u, !.state = n, !.grantUsed = used]
<1>1. now = [state |-> s, suspended |-> q.suspended, tail |-> t, grantUsed |-> g]
  BY DEF QicRecord, Now
<1>2. u = IF Q!AcceptsDmaDuringWorker(now, device)
           THEN [kind |-> "Dma", request |-> device.dma] ELSE now.suspended
  BY <1>1 DEF Q!AcceptsDmaDuringWorker, Aside
<1>3. q2 = IF Interrupted(q, bus) THEN Q!Interrupt(now, bus)
           ELSE IF Lost(q, bus) THEN [now EXCEPT !.state = Q!LoseGrant(@)]
           ELSE Q!Resume(rest)
  BY <1>1, <1>2 DEF Q!Clock, Interrupted, Lost, Now, Moved
<1> HIDE DEF now, n, u
<1>4. rest = [state |-> n, suspended |-> u, tail |-> t, grantUsed |-> g2]
  <2>1. used = g2
    BY <1>1
  <2>2. rest = [now EXCEPT !.suspended = u, !.state = n, !.grantUsed = used]
    OBVIOUS
  <2> HIDE DEF used, g2, g, s, t, rest
  <2>3. QED
    BY <1>1, <2>1, <2>2
<1>5. g2 \in BOOLEAN /\ g \in BOOLEAN
  OBVIOUS
<1> HIDE DEF s, t, rest, g, g2
<1>6. CASE Interrupted(q, bus)
  <2>1. q2 = Q!Interrupt(now, bus) /\ ~Lost(q, bus) /\ ~Goes(q, bus)
    BY <1>3, <1>6 DEF Lost, Goes
  <2>2. CASE ~bus.address.valid
    <3>1. q2 = now
      BY <2>1, <2>2 DEF Q!Interrupt
    <3>2. QED
      BY <1>1, <1>5, <2>1, <2>2, <3>1 DEF QicRecord, GoesTo, s, t, g
  <2>3. CASE bus.address.valid
    <3>1. q2 = IF s.at = "RequestBus"
               THEN [now EXCEPT !.suspended = s.work, !.state = Q!StartWorker(bus)]
               ELSE [now EXCEPT !.tail = s, !.state = Q!StartWorker(bus)]
      BY <1>1, <2>1, <2>3 DEF Q!Interrupt
    <3>2. CASE s.at = "RequestBus"
      <4>1. q2 = [state |-> Q!StartWorker(bus), suspended |-> s.work, tail |-> t, grantUsed |-> g]
        BY <1>1, <3>1, <3>2
      <4>2. QED
        BY <1>5, <2>1, <2>3, <3>2, <4>1 DEF QicRecord, s, t, g
    <3>3. CASE s.at # "RequestBus"
      <4>1. q2 = [state |-> Q!StartWorker(bus), suspended |-> q.suspended, tail |-> s, grantUsed |-> g]
        BY <1>1, <3>1, <3>3
      <4>2. QED
        BY <1>5, <2>1, <2>3, <3>3, <4>1 DEF QicRecord, s, t, g
    <3>4. QED
      BY <3>2, <3>3
  <2>4. QED
    BY <2>2, <2>3
<1>7. CASE Lost(q, bus)
  <2>1. q2 = [now EXCEPT !.state = Q!LoseGrant(@)] /\ ~Interrupted(q, bus) /\ ~Goes(q, bus)
    BY <1>3, <1>7 DEF Lost, Goes
  <2>2. q2 = [state |-> Q!LoseGrant(s), suspended |-> q.suspended, tail |-> t, grantUsed |-> g]
    BY <1>1, <2>1
  <2>3. /\ GoesTo(q, q2, Q!LoseGrant(s), q.suspended) /\ q2.grantUsed = g
        /\ QicRecord(q2) /\ q2.grantUsed \in BOOLEAN
    BY <1>5, <2>2 DEF QicRecord, GoesTo, t
  <2>4. QED
    BY <2>1, <2>3 DEF s, g
<1>8. CASE Goes(q, bus)
  <2>1. q2 = Q!Resume(rest) /\ ~Interrupted(q, bus) /\ ~Lost(q, bus)
    BY <1>3, <1>8 DEF Goes
  <2>2. q2 = [state |-> IF n # Q!Idle THEN n ELSE IF t # None THEN t
                        ELSE IF u # None THEN Q!RequestBus(u) ELSE n,
              suspended |-> IF n = Q!Idle /\ t = None /\ u # None THEN None ELSE u,
              tail |-> IF n = Q!Idle /\ t # None THEN None ELSE t,
              grantUsed |-> g2]
    <3>1. CASE n # Q!Idle
      BY <1>4, <2>1, <3>1 DEF Q!Resume
    <3>2. CASE n = Q!Idle /\ t # None
      BY <1>4, <2>1, <3>2 DEF Q!Resume
    <3>3. CASE n = Q!Idle /\ t = None /\ u # None
      BY <1>4, <2>1, <3>3 DEF Q!Resume
    <3>4. CASE n = Q!Idle /\ t = None /\ u = None
      BY <1>4, <2>1, <3>4 DEF Q!Resume
    <3>5. QED
      BY <3>1, <3>2, <3>3, <3>4
  <2>3. q2.grantUsed = g2 /\ QicRecord(q2)
    BY <2>2 DEF QicRecord
  <2>4. IF n # Q!Idle THEN GoesTo(q, q2, n, u) ELSE Resumes(q, q2, u)
    BY <2>2 DEF GoesTo, Resumes, t
  <2>5. QED
    BY <1>5, <2>1, <2>3, <2>4 DEF n, u, g2, g, s
<1>9. QED
  BY <1>6, <1>7, <1>8 DEF Goes

\* The next state, by state.
MovesTo(q, bus, device, n) ==
  LET s == q.state IN
  /\ s.at = "Idle" =>
       \/ ~Q!WorkerAddressCycle(bus) /\ n = Q!Idle
       \/ Q!WorkerAddressCycle(bus) /\ n = Q!StartWorker(bus)
       \/ /\ ~Q!WorkerAddressCycle(bus) /\ Q!ManagerSlotAvailable(q, bus)
          /\ device.notification # None
          /\ n = Q!RequestBus([kind |-> "Notification", request |-> device.notification])
       \/ /\ ~Q!WorkerAddressCycle(bus) /\ Q!ManagerSlotAvailable(q, bus)
          /\ device.notification = None /\ device.dma # None
          /\ n = Q!RequestBus([kind |-> "Dma", request |-> device.dma])
  /\ s.at \in Q!WorkerStates =>
       IF Q!WorkerReply(s, bus, device) \in {"Ack", "Err"} THEN n = Q!Idle
       ELSE /\ n.at \in Q!WorkerStates
            /\ n.at # "WorkerResponse" => s.at # "WorkerResponse" /\ n.op = s.op
  /\ s.at = "RequestBus" =>
       n = IF ~bus.grant THEN s
           ELSE IF s.work.kind = "Dma" THEN Q!DmaAddress(s.work.request, 0)
           ELSE Q!NotificationAddress(s.work.request, 0)
  /\ s.at = "DmaAddress" =>
       \/ n.at = "DmaComplete"
       \/ n.at = "DmaAddress" /\ ~bus.ack /\ ~bus.err
       \/ n.at = "DmaData" /\ bus.ack /\ ~bus.err
  /\ s.at = "DmaData" => n.at \in {"DmaData", "DmaComplete"}
  /\ s.at = "DmaComplete" => n = IF device.completionReady THEN Q!Idle ELSE s
  /\ s.at = "NotificationAddress" =>
       \/ n = Q!Idle
       \/ n.at = "NotificationAddress" /\ n.request = s.request /\ ~bus.ack /\ ~bus.err
       \/ n.at = "NotificationData" /\ n.request = s.request /\ bus.ack /\ ~bus.err
  /\ s.at = "NotificationData" =>
       IF Q!TimedOut(s.wait) \/ bus.err \/ bus.ack THEN n = Q!Idle
       ELSE n.at = "NotificationData" /\ n.request = s.request

BusShape(bus) ==
  /\ bus.grant \in BOOLEAN /\ bus.dataStrobe \in BOOLEAN /\ bus.ack \in BOOLEAN /\ bus.err \in BOOLEAN
  /\ Q!WorkerAddressCycle(bus) => bus.address.valid = TRUE

LEMMA WaitingIs ==
  ASSUME NEW s, QicState(s), NEW n, n = [s EXCEPT !.wait = @ + 1],
         s.at \notin {"Idle", "RequestBus", "DmaComplete"}
  PROVE  /\ QicState(n) /\ n.at = s.at
         /\ s.at \in {"WorkerReadData", "WorkerWriteData", "WorkerOffer"} => n.op = s.op
         /\ s.at \in {"DmaAddress", "DmaData", "NotificationAddress", "NotificationData"} =>
              n.request = s.request
<1>1. PICK w : w = s.wait + 1
  OBVIOUS
<1>2. n = [s EXCEPT !.wait = w]
  BY <1>1
<1>3. CASE s.at \in {"WorkerReadData", "WorkerWriteData", "WorkerOffer"}
  <2>1. s = [at |-> s.at, op |-> s.op, wait |-> s.wait]
    BY <1>3 DEF QicState
  <2>2. n = [at |-> s.at, op |-> s.op, wait |-> w]
    BY <1>2, <2>1
  <2>3. QED
    BY <1>3, <2>2 DEF QicState
<1>4. CASE s.at = "WorkerResponse"
  <2>1. s = [at |-> s.at, read |-> s.read, wait |-> s.wait]
    BY <1>4 DEF QicState, Q!WorkerResponse
  <2>2. n = [at |-> s.at, read |-> s.read, wait |-> w]
    BY <1>2, <2>1
  <2>3. QED
    BY <1>4, <2>2 DEF QicState, Q!WorkerResponse
<1>5. CASE s.at \in {"DmaAddress", "NotificationAddress", "NotificationData"}
  <2>1. s = [at |-> s.at, request |-> s.request, wait |-> s.wait]
    BY <1>5 DEF QicState, Q!DmaAddress
  <2>2. n = [at |-> s.at, request |-> s.request, wait |-> w]
    BY <1>2, <2>1
  <2>3. QED
    BY <1>5, <2>2 DEF QicState, Q!DmaAddress
<1>6. CASE s.at = "DmaData"
  <2>1. s = [at |-> s.at, request |-> s.request, completed |-> s.completed, wait |-> s.wait,
             buffer |-> s.buffer]
    BY <1>6 DEF QicState, Q!DmaData
  <2>2. n = [at |-> s.at, request |-> s.request, completed |-> s.completed, wait |-> w,
             buffer |-> s.buffer]
    BY <1>2, <2>1
  <2>3. QED
    BY <1>6, <2>2 DEF QicState, Q!DmaData
<1>7. QED
  BY <1>3, <1>4, <1>5, <1>6 DEF QicState

\* The states as they are made.
LEMMA MadeStates ==
  /\ QicState(Q!Idle) /\ Q!Idle.at = "Idle"
  /\ \A op, w : QicState(Q!WorkerData(op, w)) /\ Q!WorkerData(op, w).op = op
       /\ Q!WorkerData(op, w).at \in {"WorkerReadData", "WorkerWriteData"}
  /\ \A op, w : QicState(Q!WorkerOffer(op, w)) /\ Q!WorkerOffer(op, w).op = op
       /\ Q!WorkerOffer(op, w).at = "WorkerOffer"
  /\ \A r, w : QicState(Q!WorkerResponse(r, w)) /\ Q!WorkerResponse(r, w).at = "WorkerResponse"
  /\ \A k : QicState(Q!RequestBus(k)) /\ Q!RequestBus(k).at = "RequestBus" /\ Q!RequestBus(k).work = k
  /\ \A r, w : QicState(Q!DmaAddress(r, w)) /\ Q!DmaAddress(r, w).at = "DmaAddress"
       /\ Q!DmaAddress(r, w).request = r
  /\ \A r, c, w, b : QicState(Q!DmaData(r, c, w, b)) /\ Q!DmaData(r, c, w, b).at = "DmaData"
  /\ \A t, c : QicState(Q!DmaComplete(t, c)) /\ Q!DmaComplete(t, c).at = "DmaComplete"
  /\ \A r, w : QicState(Q!NotificationAddress(r, w))
       /\ Q!NotificationAddress(r, w).at = "NotificationAddress"
       /\ Q!NotificationAddress(r, w).request = r
  /\ \A r, w : QicState(Q!NotificationData(r, w)) /\ Q!NotificationData(r, w).at = "NotificationData"
       /\ Q!NotificationData(r, w).request = r
<1>1. QicState(Q!Idle) /\ Q!Idle.at = "Idle"
  BY DEF QicState, Q!Idle
<1>2. ASSUME NEW op, NEW w
      PROVE  /\ QicState(Q!WorkerData(op, w)) /\ Q!WorkerData(op, w).op = op
             /\ Q!WorkerData(op, w).at \in {"WorkerReadData", "WorkerWriteData"}
  <2>1. PICK a : a = IF op.write THEN "WorkerWriteData" ELSE "WorkerReadData"
    OBVIOUS
  <2>2. a \in {"WorkerReadData", "WorkerWriteData"} /\ Q!WorkerData(op, w) = [at |-> a, op |-> op, wait |-> w]
    BY <2>1 DEF Q!WorkerData
  <2>3. QED
    BY <2>2 DEF QicState
<1>3. ASSUME NEW op, NEW w
      PROVE  QicState(Q!WorkerOffer(op, w)) /\ Q!WorkerOffer(op, w).op = op
             /\ Q!WorkerOffer(op, w).at = "WorkerOffer"
  BY DEF QicState, Q!WorkerOffer
<1>4. ASSUME NEW r, NEW w
      PROVE  QicState(Q!WorkerResponse(r, w)) /\ Q!WorkerResponse(r, w).at = "WorkerResponse"
  BY DEF QicState, Q!WorkerResponse
<1>5. ASSUME NEW k
      PROVE  QicState(Q!RequestBus(k)) /\ Q!RequestBus(k).at = "RequestBus" /\ Q!RequestBus(k).work = k
  BY DEF QicState, Q!RequestBus
<1>6. ASSUME NEW r, NEW w
      PROVE  QicState(Q!DmaAddress(r, w)) /\ Q!DmaAddress(r, w).at = "DmaAddress"
             /\ Q!DmaAddress(r, w).request = r
  BY DEF QicState, Q!DmaAddress
<1>7. ASSUME NEW r, NEW c, NEW w, NEW b
      PROVE  QicState(Q!DmaData(r, c, w, b)) /\ Q!DmaData(r, c, w, b).at = "DmaData"
  BY DEF QicState, Q!DmaData
<1>8. ASSUME NEW t, NEW c
      PROVE  QicState(Q!DmaComplete(t, c)) /\ Q!DmaComplete(t, c).at = "DmaComplete"
  BY DEF QicState, Q!DmaComplete
<1>9. ASSUME NEW r, NEW w
      PROVE  /\ QicState(Q!NotificationAddress(r, w))
             /\ Q!NotificationAddress(r, w).at = "NotificationAddress"
             /\ Q!NotificationAddress(r, w).request = r
  BY DEF QicState, Q!NotificationAddress
<1>10. ASSUME NEW r, NEW w
       PROVE  /\ QicState(Q!NotificationData(r, w)) /\ Q!NotificationData(r, w).at = "NotificationData"
              /\ Q!NotificationData(r, w).request = r
  BY DEF QicState, Q!NotificationData
<1>11. QED
  BY <1>1, <1>2, <1>3, <1>4, <1>5, <1>6, <1>7, <1>8, <1>9, <1>10

LEMMA MovedIs ==
  ASSUME NEW q, QicRecord(q), QicState(q.state), q.grantUsed \in BOOLEAN, NEW bus, BusShape(bus),
         NEW device, NEW n, n = Moved(q, bus, device)
  PROVE  QicState(n) /\ MovesTo(q, bus, device, n)
<1>1. PICK s : s = q.state
  OBVIOUS
<1>2. PICK now : now = Now(q, bus)
  OBVIOUS
<1>3. now = [state |-> s, suspended |-> q.suspended, tail |-> q.tail,
             grantUsed |-> q.grantUsed /\ bus.grant]
  BY <1>1, <1>2 DEF QicRecord, Now
<1>4. n = Q!NextState(now, bus, device) /\ now.state = s /\ QicState(s)
  BY <1>1, <1>2, <1>3 DEF Moved
<1>5. Q!ManagerSlotAvailable(now, bus) <=> Q!ManagerSlotAvailable(q, bus)
  <2>1. now.grantUsed = (q.grantUsed /\ bus.grant)
    BY <1>3
  <2>2. QED
    BY <2>1 DEF Q!ManagerSlotAvailable, BusShape
<1>6. \A x : x = Q!Idle => QicState(x)
  BY MadeStates
<1>7. CASE s.at = "Idle"
  <2>1. n = Q!FromIdle(now, bus, device)
    BY <1>4, <1>7 DEF Q!NextState
  <2>2. \/ ~Q!WorkerAddressCycle(bus) /\ n = Q!Idle
        \/ Q!WorkerAddressCycle(bus) /\ n = Q!StartWorker(bus)
        \/ /\ ~Q!WorkerAddressCycle(bus) /\ Q!ManagerSlotAvailable(now, bus)
           /\ device.notification # None
           /\ n = Q!RequestBus([kind |-> "Notification", request |-> device.notification])
        \/ /\ ~Q!WorkerAddressCycle(bus) /\ Q!ManagerSlotAvailable(now, bus)
           /\ device.notification = None /\ device.dma # None
           /\ n = Q!RequestBus([kind |-> "Dma", request |-> device.dma])
    BY <2>1 DEF Q!FromIdle, Q!AcceptsDmaWhenIdle, BusShape
  <2>3. QicState(n)
    BY <2>2, MadeStates DEF Q!StartWorker
  <2>4. QED
    BY <1>1, <1>5, <1>7, <2>2, <2>3 DEF MovesTo, Q!WorkerStates
<1>8. CASE s.at \in {"WorkerReadData", "WorkerWriteData"}
  <2>1. n = Q!FromWorkerData(s, bus)
    BY <1>4, <1>8 DEF Q!NextState
  <2>2. PICK w : w = [s EXCEPT !.wait = @ + 1]
    OBVIOUS
  <2>3. QicState(w) /\ w.at = s.at /\ w.op = s.op
    BY <1>4, <1>8, <2>2, WaitingIs
  <2>4. IF Q!WorkerReply(s, bus, device) \in {"Ack", "Err"} THEN n = Q!Idle
        ELSE n = w \/ n = Q!WorkerOffer(s.op, s.wait) \/ n = Q!WorkerOffer(s.op, 0)
    BY <1>8, <2>1, <2>2, NoneIsNoValue DEF Q!FromWorkerData, Q!WorkerReply, BusShape
  <2>5. QicState(n)
    BY <2>3, <2>4, MadeStates
  <2>6. Q!WorkerReply(s, bus, device) \notin {"Ack", "Err"} =>
          n.at \in {"WorkerReadData", "WorkerWriteData", "WorkerOffer"} /\ n.op = s.op
    BY <1>8, <2>3, <2>4, MadeStates
  <2>7. QED
    BY <1>1, <1>8, <2>4, <2>5, <2>6 DEF MovesTo, Q!WorkerStates
<1>9. CASE s.at = "WorkerOffer"
  <2>1. n = Q!FromWorkerOffer(s, device)
    BY <1>4, <1>9 DEF Q!NextState
  <2>2. PICK w : w = [s EXCEPT !.wait = @ + 1]
    OBVIOUS
  <2>3. QicState(w) /\ w.at = s.at /\ w.op = s.op
    BY <1>4, <1>9, <2>2, WaitingIs
  <2>4. IF Q!WorkerReply(s, bus, device) \in {"Ack", "Err"} THEN n = Q!Idle
        ELSE n = w \/ n = Q!WorkerResponse(~s.op.write, s.wait)
    BY <1>9, <2>1, <2>2, NoneIsNoValue DEF Q!FromWorkerOffer, Q!WorkerReply
  <2>5. QicState(n)
    BY <2>3, <2>4, MadeStates
  <2>6. Q!WorkerReply(s, bus, device) \notin {"Ack", "Err"} =>
          n.at \in {"WorkerResponse", "WorkerOffer"} /\ (n.at # "WorkerResponse" => n.op = s.op)
    BY <1>9, <2>3, <2>4, MadeStates
  <2>7. QED
    BY <1>1, <1>9, <2>4, <2>5, <2>6 DEF MovesTo, Q!WorkerStates
<1>10. CASE s.at = "WorkerResponse"
  <2>1. n = Q!FromWorkerResponse(s, bus, device)
    BY <1>4, <1>10 DEF Q!NextState
  <2>2. PICK w : w = [s EXCEPT !.wait = @ + 1]
    OBVIOUS
  <2>3. QicState(w) /\ w.at = s.at
    BY <1>4, <1>10, <2>2, WaitingIs
  <2>4. IF Q!WorkerReply(s, bus, device) \in {"Ack", "Err"} THEN n = Q!Idle ELSE n = w
    BY <1>10, <2>1, <2>2, NoneIsNoValue DEF Q!FromWorkerResponse, Q!WorkerReply
  <2>5. QicState(n)
    BY <2>3, <2>4, MadeStates
  <2>6. Q!WorkerReply(s, bus, device) \notin {"Ack", "Err"} => n.at = "WorkerResponse"
    BY <1>10, <2>3, <2>4
  <2>7. QED
    BY <1>1, <1>10, <2>4, <2>5, <2>6 DEF MovesTo, Q!WorkerStates
<1>11. CASE s.at = "RequestBus"
  <2>1. n = Q!FromRequestBus(s, bus)
    BY <1>4, <1>11 DEF Q!NextState
  <2>2. n = IF ~bus.grant THEN s
            ELSE IF s.work.kind = "Dma" THEN Q!DmaAddress(s.work.request, 0)
            ELSE Q!NotificationAddress(s.work.request, 0)
    BY <2>1 DEF Q!FromRequestBus
  <2>3. QicState(n)
    BY <1>4, <2>2, MadeStates
  <2>4. QED
    BY <1>1, <1>11, <2>2, <2>3 DEF MovesTo, Q!WorkerStates
<1>12. CASE s.at = "DmaAddress"
  <2>1. n = Q!FromDmaAddress(s, bus)
    BY <1>4, <1>12 DEF Q!NextState
  <2>2. PICK w : w = [s EXCEPT !.wait = @ + 1]
    OBVIOUS
  <2>3. QicState(w) /\ w.at = s.at
    BY <1>4, <1>12, <2>2, WaitingIs
  <2>4. \/ n = Q!DmaComplete("Timeout", 0) \/ n = Q!DmaComplete("BusError", 0)
        \/ n = Q!DmaData(s.request, 0, 0, None) /\ bus.ack /\ ~bus.err
        \/ n = w /\ ~bus.ack /\ ~bus.err
    BY <2>1, <2>2 DEF Q!FromDmaAddress, BusShape
  <2>5. QicState(n)
    BY <2>3, <2>4, MadeStates
  <2>6. \/ n.at = "DmaComplete"
        \/ n.at = "DmaAddress" /\ ~bus.ack /\ ~bus.err
        \/ n.at = "DmaData" /\ bus.ack /\ ~bus.err
    <3>1. CASE n = Q!DmaComplete("Timeout", 0) \/ n = Q!DmaComplete("BusError", 0)
      BY <3>1, MadeStates
    <3>2. CASE n = Q!DmaData(s.request, 0, 0, None) /\ bus.ack /\ ~bus.err
      BY <3>2, MadeStates
    <3>3. CASE n = w /\ ~bus.ack /\ ~bus.err
      BY <1>12, <2>3, <3>3
    <3>4. QED
      BY <2>4, <3>1, <3>2, <3>3
  <2>7. QED
    BY <1>1, <1>12, <2>5, <2>6 DEF MovesTo, Q!WorkerStates
<1>13. CASE s.at = "DmaData"
  <2>1. n = Q!FromDmaData(s, bus, device)
    BY <1>4, <1>13 DEF Q!NextState
  <2>2. PICK w : w = [s EXCEPT !.wait = @ + 1]
    OBVIOUS
  <2>3. QicState(w) /\ w.at = s.at
    BY <1>4, <1>13, <2>2, WaitingIs
  <2>4. n = w \/ (\E t, c : n = Q!DmaComplete(t, c)) \/ (\E r, c, v, b : n = Q!DmaData(r, c, v, b))
    <3>1. CASE Q!TimedOut(s.wait)
      BY <2>1, <3>1 DEF Q!FromDmaData
    <3>2. CASE ~Q!TimedOut(s.wait) /\ s.request.direction = "HostToDevice"
      <4>1. n = Q!ReadWord(s, bus, device)
        BY <2>1, <3>2 DEF Q!FromDmaData
      <4>2. QED
        BY <2>2, <4>1 DEF Q!ReadWord
    <3>3. CASE ~Q!TimedOut(s.wait) /\ s.request.direction # "HostToDevice"
      <4>1. n = Q!WriteWord(s, bus, device)
        BY <2>1, <3>3 DEF Q!FromDmaData
      <4>2. QED
        BY <2>2, <4>1 DEF Q!WriteWord
    <3>4. QED
      BY <3>1, <3>2, <3>3
  <2>5. QicState(n) /\ n.at \in {"DmaData", "DmaComplete"}
    BY <1>13, <2>3, <2>4, MadeStates
  <2>6. QED
    BY <1>1, <1>13, <2>5 DEF MovesTo, Q!WorkerStates
<1>14. CASE s.at = "DmaComplete"
  <2>1. n = IF device.completionReady THEN Q!Idle ELSE s
    BY <1>4, <1>14 DEF Q!NextState, Q!FromDmaComplete
  <2>2. QicState(n)
    BY <1>4, <2>1, MadeStates
  <2>3. QED
    BY <1>1, <1>14, <2>1, <2>2 DEF MovesTo, Q!WorkerStates
<1>15. CASE s.at = "NotificationAddress"
  <2>1. n = Q!FromNotificationAddress(s, bus)
    BY <1>4, <1>15 DEF Q!NextState
  <2>2. PICK w : w = [s EXCEPT !.wait = @ + 1]
    OBVIOUS
  <2>3. QicState(w) /\ w.at = s.at /\ w.request = s.request
    BY <1>4, <1>15, <2>2, WaitingIs
  <2>4. \/ n = Q!Idle
        \/ n = w /\ ~bus.ack /\ ~bus.err
        \/ n = Q!NotificationData(s.request, 0) /\ bus.ack /\ ~bus.err
    <3>1. CASE Q!TimedOut(s.wait) \/ bus.err
      BY <2>1, <3>1 DEF Q!FromNotificationAddress
    <3>2. CASE ~(Q!TimedOut(s.wait) \/ bus.err) /\ bus.ack
      BY <2>1, <3>2 DEF Q!FromNotificationAddress
    <3>3. CASE ~(Q!TimedOut(s.wait) \/ bus.err) /\ ~bus.ack
      BY <2>1, <2>2, <3>3 DEF Q!FromNotificationAddress
    <3>4. QED
      BY <3>1, <3>2, <3>3
  <2>5. QicState(n)
    BY <2>3, <2>4, MadeStates
  <2>6. \/ n = Q!Idle
        \/ n.at = "NotificationAddress" /\ n.request = s.request /\ ~bus.ack /\ ~bus.err
        \/ n.at = "NotificationData" /\ n.request = s.request /\ bus.ack /\ ~bus.err
    BY <1>15, <2>3, <2>4, MadeStates
  <2>7. QED
    BY <1>1, <1>15, <2>5, <2>6 DEF MovesTo, Q!WorkerStates
<1>16. CASE s.at = "NotificationData"
  <2>1. n = Q!FromNotificationData(s, bus)
    BY <1>4, <1>16 DEF Q!NextState
  <2>2. PICK w : w = [s EXCEPT !.wait = @ + 1]
    OBVIOUS
  <2>3. QicState(w) /\ w.at = s.at /\ w.request = s.request
    BY <1>4, <1>16, <2>2, WaitingIs
  <2>4. n = IF Q!TimedOut(s.wait) \/ bus.err \/ bus.ack THEN Q!Idle ELSE w
    BY <2>1, <2>2 DEF Q!FromNotificationData
  <2>5. QicState(n)
    BY <2>3, <2>4, MadeStates
  <2>6. QED
    BY <1>1, <1>16, <2>3, <2>4, <2>5 DEF MovesTo, Q!WorkerStates
<1>17. QED
  BY <1>4, <1>7, <1>8, <1>9, <1>10, <1>11, <1>12, <1>13, <1>14, <1>15, <1>16 DEF QicState

LEMMA LostIs ==
  ASSUME NEW s, QicState(s), Q!NeedsGrant(s), NEW n, n = Q!LoseGrant(s)
  PROVE  QicState(n) /\ n.at = IF s.at \in {"DmaAddress", "DmaData"} THEN "DmaComplete" ELSE "Idle"
  BY MadeStates DEF Q!LoseGrant, Q!NeedsGrant

\* A clock of the QIC keeps its shape.
LEMMA QicStaysShaped ==
  ASSUME NEW q, QicShape(q), NEW bus, BusShape(bus), ~bus.reset, NEW device,
         NEW q2, q2 = Q!Clock(q, bus, device)
  PROVE  QicShape(q2)
<1>0. QicRecord(q) /\ q.grantUsed \in BOOLEAN /\ QicState(q.state) /\ bus.grant \in BOOLEAN
  BY DEF QicShape, QicRecord, BusShape
<1>1. PICK n : n = Moved(q, bus, device)
  OBVIOUS
<1>2. PICK u : u = Aside(q, device)
  OBVIOUS
<1>3. /\ QicRecord(q2) /\ q2.grantUsed \in BOOLEAN
      /\ Interrupted(q, bus) =>
           IF ~bus.address.valid THEN GoesTo(q, q2, q.state, q.suspended)
           ELSE /\ q2.state = Q!StartWorker(bus)
                /\ q2.suspended = IF q.state.at = "RequestBus" THEN q.state.work ELSE q.suspended
                /\ q2.tail = IF q.state.at = "RequestBus" THEN q.tail ELSE q.state
      /\ Lost(q, bus) => GoesTo(q, q2, Q!LoseGrant(q.state), q.suspended)
      /\ Goes(q, bus) => IF n # Q!Idle THEN GoesTo(q, q2, n, u) ELSE Resumes(q, q2, u)
  BY <1>0, <1>1, <1>2, ClockIs
<1>4. QicState(n) /\ MovesTo(q, bus, device, n)
  BY <1>0, <1>1, MovedIs
<1>5. /\ u # None => q.suspended # None \/ q.state.at \in {"WorkerOffer", "WorkerResponse"}
      /\ u = None \/ q.tail = None
      /\ u # q.suspended => q.tail = None
  BY <1>2 DEF Aside, Q!AcceptsDmaDuringWorker, QicShape
<1>6. /\ q.tail # None => QicState(q.tail) /\ Q!LocalTail(q.tail)
      /\ q.suspended # None \/ q.tail # None => q.state.at \in Q!WorkerStates
      /\ q.suspended = None \/ q.tail = None
  BY DEF QicShape
<1>7. CASE Interrupted(q, bus)
  <2>1. /\ q2.state = Q!StartWorker(bus)
        /\ q2.suspended = IF q.state.at = "RequestBus" THEN q.state.work ELSE q.suspended
        /\ q2.tail = IF q.state.at = "RequestBus" THEN q.tail ELSE q.state
    BY <1>3, <1>7 DEF BusShape, Interrupted
  <2>2. q.state.at = "RequestBus" \/ Q!LocalTail(q.state)
    BY <1>7 DEF Interrupted
  <2>3. q.suspended = None /\ q.tail = None
    BY <1>6, <2>2 DEF Q!LocalTail, Q!WorkerStates
  <2>4. QicState(q2.state) /\ q2.state.at \in Q!WorkerStates
    BY <2>1, MadeStates DEF Q!StartWorker, Q!WorkerStates
  <2>5. q2.suspended = None \/ q2.tail = None
    BY <2>1, <2>3
  <2>6. q2.tail # None => QicState(q2.tail) /\ Q!LocalTail(q2.tail)
    BY <1>0, <2>1, <2>2, <2>3
  <2>7. QED
    BY <1>3, <2>4, <2>5, <2>6 DEF QicShape, QicRecord
<1>8. CASE Lost(q, bus)
  <2>1. Q!NeedsGrant(q.state) /\ q.state.at \notin Q!WorkerStates
    BY <1>8 DEF Lost, Q!NeedsGrant, Q!WorkerStates
  <2>2. GoesTo(q, q2, Q!LoseGrant(q.state), q.suspended)
    BY <1>3, <1>8
  <2>3. QicState(q2.state)
    BY <1>0, <2>1, <2>2, LostIs DEF GoesTo
  <2>4. q2.suspended = None /\ q2.tail = None
    BY <1>6, <2>1, <2>2 DEF GoesTo
  <2>5. QED
    BY <1>3, <2>3, <2>4 DEF QicShape, QicRecord
<1>9. CASE Goes(q, bus) /\ n # Q!Idle
  <2>1. q2.state = n /\ q2.suspended = u /\ q2.tail = q.tail
    BY <1>3, <1>9 DEF GoesTo
  <2>2. q2.suspended # None \/ q2.tail # None => n.at \in Q!WorkerStates
    <3>1. q2.suspended # None \/ q2.tail # None => q.state.at \in Q!WorkerStates
      BY <1>5, <1>6, <2>1 DEF Q!WorkerStates
    <3>2. QED
      BY <1>4, <1>9, <3>1 DEF MovesTo
  <2>3. QED
    BY <1>3, <1>4, <1>5, <1>6, <2>1, <2>2 DEF QicShape, QicRecord
<1>10. CASE Goes(q, bus) /\ n = Q!Idle
  <2>1. Resumes(q, q2, u)
    BY <1>3, <1>10
  <2>2. QicState(q2.state) /\ q2.suspended = None /\ q2.tail = None
    BY <1>5, <1>6, <2>1, MadeStates DEF Resumes
  <2>3. QED
    BY <1>3, <2>2 DEF QicShape, QicRecord
<1>11. QED
  BY <1>7, <1>8, <1>9, <1>10 DEF Goes

-----------------------------------------------------------------------------
(* One clock of the host.                                                   *)

LEMMA BusIs ==
  ASSUME NEW p, PeerShape(p), NEW bus, bus = P!BusInputs(p.state)
  PROVE  LET s == p.state IN
         /\ BusShape(bus) /\ bus.reset = FALSE
         /\ bus.grant = (s.at \notin {"Idle", "WorkerAddress", "WorkerData"})
         /\ bus.dataStrobe = (s.at = "WorkerData")
         /\ Q!WorkerAddressCycle(bus) =>
              /\ s.at = "WorkerAddress"
              /\ Q!StartWorker(bus) = Q!WorkerData([register |-> s.op.register, write |-> s.op.write], 0)
         /\ bus.ack = (s.at \in PeerPhases /\ s.wait = 0 /\ s.fault # "Err")
         /\ bus.err = (s.at \in PeerPhases /\ s.wait = 0 /\ s.fault = "Err")
<1>1. PICK s : s = p.state
  OBVIOUS
<1>2. /\ bus.reset = FALSE
      /\ bus.grant = (s.at \notin {"Idle", "WorkerAddress", "WorkerData"})
      /\ bus.dataStrobe = (s.at = "WorkerData")
  BY <1>1 DEF P!BusInputs
<1>3. /\ bus.ack = (s.at \in PeerPhases /\ s.wait = 0 /\ s.fault # "Err")
      /\ bus.err = (s.at \in PeerPhases /\ s.wait = 0 /\ s.fault = "Err")
  BY <1>1 DEF P!BusInputs, P!Answers, PeerPhases
<1>4. bus.address = IF s.at = "WorkerAddress"
                    THEN [register |-> s.op.register, write |-> s.op.write, valid |-> TRUE] ELSE None
  BY <1>1 DEF P!BusInputs
<1>5. Q!WorkerAddressCycle(bus) =>
        /\ s.at = "WorkerAddress"
        /\ bus.address = [register |-> s.op.register, write |-> s.op.write, valid |-> TRUE]
  BY <1>4 DEF Q!WorkerAddressCycle
<1>6. BusShape(bus)
  BY <1>2, <1>3, <1>5 DEF BusShape
<1>7. QED
  BY <1>1, <1>2, <1>3, <1>5, <1>6 DEF Q!StartWorker

PeerMoves(p, pins, p2) ==
  LET s == p.state IN
  /\ s.at = "Idle" => p2.state = IF pins.request THEN P!Grant ELSE P!Idle
  /\ s.at = "Grant" =>
       IF pins.strobe = None THEN p2.state = IF pins.request THEN P!Grant ELSE P!Idle
       ELSE IF pins.strobe.kind = "HostDma" THEN p2.state.at = "DmaAddress"
       ELSE p2.state.at = "NotificationAddress" /\ p2.state.request = pins.strobe.value
  /\ s.at = "WorkerAddress" =>
       p2.state = IF pins.reply = "Err" THEN P!Idle
                  ELSE IF pins.reply = "Ack" THEN P!WorkerData(s.op) ELSE s
  /\ s.at = "WorkerData" => p2.state = IF pins.reply \in {"Ack", "Err"} THEN P!Idle ELSE s
  /\ s.at \in PeerPhases /\ ~pins.request => p2.state = P!Idle
  /\ s.at \in PeerPhases /\ pins.request =>
       \/ p2.state = P!Idle
       \/ p2.state.at = s.at /\ p2.state.request = s.request /\ p2.state.fault = s.fault
          /\ s.at \in {"DmaAddress", "NotificationAddress"} /\ s.wait > 0
       \/ p2.state.at = s.at /\ s.at = "DmaData"
       \/ s.at = "DmaAddress" /\ p2.state.at = "DmaData" /\ s.wait = 0 /\ s.fault # "Err"
       \/ /\ s.at = "NotificationAddress" /\ p2.state.at = "NotificationData"
          /\ s.wait = 0 /\ s.fault # "Err" /\ p2.state.request = s.request /\ p2.state.fault = None
       \/ /\ s.at = "NotificationData" /\ p2.state.at = s.at /\ p2.state.request = s.request
          /\ p2.state.fault = s.fault
  /\ p2.got = IF /\ s.at = "NotificationData" /\ pins.request
                 /\ pins.strobe # None /\ s.wait = 0
              THEN s.request ELSE None

LEMMA PhasesAre ==
  ASSUME NEW at \in PeerPhases, NEW request, NEW beat, NEW faults,
         NEW s \in P!Phases(at, request, beat, faults)
  PROVE  /\ s = P!Phase(s.at, s.request, s.beat, s.wait, s.fault) /\ s.wait \in Nat
         /\ s.at = at /\ s.request = request /\ s.fault \in faults \cup {None}
<1>1. PICK wait \in Waits, fault \in faults \cup {None} : s = P!Phase(at, request, beat, wait, fault)
  BY DEF P!Phases
<1>2. QED
  BY <1>1, PeerAssumption DEF P!Phase

LEMMA PeerClockIs ==
  ASSUME NEW p, PeerShape(p), NEW pins, NEW data, NEW p2 \in P!Clock(p, pins, data)
  PROVE  PeerShape(p2) /\ PeerMoves(p, pins, p2)
<1>1. PICK s : s = p.state
  OBVIOUS
<1>2. PICK q : q = [p EXCEPT !.got = None, !.result = None]
  OBVIOUS
<1>3. q = [state |-> s, result |-> None, words |-> p.words, address |-> p.address, got |-> None]
  BY <1>1, <1>2 DEF PeerShape
<1>4. ASSUME NEW state, NEW e, e = [q EXCEPT !.state = state]
      PROVE  e = [state |-> state, result |-> None, words |-> p.words, address |-> p.address, got |-> None]
  BY <1>3, <1>4
<1>5. PeerShape(q) /\ q.state = s /\ q.got = None
  BY <1>1, <1>3 DEF PeerShape
<1>6. ASSUME NEW state, NEW result, NEW words, NEW address, NEW got, NEW e,
             e = [state |-> state, result |-> result, words |-> words, address |-> address, got |-> got],
             state = P!Idle \/ state = P!Grant
      PROVE  PeerShape(e) /\ e.state = state /\ e.got = got
  BY <1>6 DEF PeerShape, P!Idle, P!Grant, PeerPhases
<1>7. ASSUME NEW state, NEW result, NEW words, NEW address, NEW got, NEW e, state.at \in PeerPhases,
             e = [state |-> state, result |-> result, words |-> words, address |-> address, got |-> got],
             state = P!Phase(state.at, state.request, state.beat, state.wait, state.fault),
             state.wait \in Nat
      PROVE  PeerShape(e) /\ e.state = state /\ e.got = got
  BY <1>7 DEF PeerShape, PeerPhases
<1>8. CASE s.at = "Idle"
  <2>1. p2 \in P!FromIdle(q, pins)
    BY <1>1, <1>2, <1>8 DEF P!Clock
  <2>2. s = P!Idle
    BY <1>1, <1>8 DEF PeerShape, PeerPhases
  <2>3. \/ pins.request /\ p2 = [q EXCEPT !.state = P!Grant]
        \/ ~pins.request /\ p2 = q
    BY <2>1 DEF P!FromIdle
  <2>4. CASE pins.request /\ p2 = [q EXCEPT !.state = P!Grant]
    <3>1. PeerShape(p2) /\ p2.state = P!Grant /\ p2.got = None
      BY <1>4, <1>6, <2>4
    <3>2. QED
      BY <1>1, <1>8, <2>4, <3>1 DEF PeerMoves, PeerPhases
  <2>5. CASE ~pins.request /\ p2 = q
    BY <1>1, <1>5, <1>8, <2>2, <2>5 DEF PeerMoves, PeerPhases
  <2>6. QED
    BY <2>3, <2>4, <2>5
<1>9. CASE s.at = "Grant"
  <2>1. p2 \in P!FromGrant(q, pins)
    BY <1>1, <1>2, <1>9 DEF P!Clock
  <2>2. s = P!Grant
    BY <1>1, <1>9 DEF PeerShape, PeerPhases
  <2>3. CASE pins.strobe = None
    <3>1. p2 = IF pins.request THEN q ELSE [q EXCEPT !.state = P!Idle]
      BY <2>1, <2>3 DEF P!FromGrant
    <3>2. CASE pins.request
      BY <1>1, <1>5, <1>9, <2>2, <2>3, <3>1, <3>2 DEF PeerMoves, PeerPhases
    <3>3. CASE ~pins.request
      <4>1. PeerShape(p2) /\ p2.state = P!Idle /\ p2.got = None
        BY <1>4, <1>6, <3>1, <3>3
      <4>2. QED
        BY <1>1, <1>9, <2>3, <3>3, <4>1 DEF PeerMoves, PeerPhases
    <3>4. QED
      BY <3>2, <3>3
  <2>4. CASE pins.strobe # None /\ pins.strobe.kind = "HostDma"
    <3>1. PICK t \in P!Phases("DmaAddress", pins.strobe.value, 0, Faults \cap {"Err"}) :
            p2 = [q EXCEPT !.state = t, !.words = << >>, !.address = pins.strobe.value.handle]
      BY <2>1, <2>4 DEF P!FromGrant
    <3>2. p2 = [state |-> t, result |-> None, words |-> << >>, address |-> pins.strobe.value.handle, got |-> None]
      BY <1>3, <3>1
    <3>3. /\ t = P!Phase(t.at, t.request, t.beat, t.wait, t.fault) /\ t.wait \in Nat
          /\ t.at = "DmaAddress" /\ t.at \in PeerPhases
      BY PhasesAre DEF PeerPhases
    <3>4. PeerShape(p2) /\ p2.state = t /\ p2.got = None
      BY <1>7, <3>2, <3>3
    <3>5. QED
      BY <1>1, <1>9, <2>4, <3>3, <3>4 DEF PeerMoves, PeerPhases
  <2>5. CASE pins.strobe # None /\ pins.strobe.kind # "HostDma"
    <3>1. PICK t \in P!Phases("NotificationAddress", pins.strobe.value, 0, Faults \cap {"Err"}) :
            p2 = [q EXCEPT !.state = t]
      BY <2>1, <2>5 DEF P!FromGrant
    <3>2. p2 = [state |-> t, result |-> None, words |-> p.words, address |-> p.address, got |-> None]
      BY <1>4, <3>1
    <3>3. /\ t = P!Phase(t.at, t.request, t.beat, t.wait, t.fault) /\ t.wait \in Nat
          /\ t.at = "NotificationAddress" /\ t.at \in PeerPhases /\ t.request = pins.strobe.value
      BY PhasesAre DEF PeerPhases
    <3>4. PeerShape(p2) /\ p2.state = t /\ p2.got = None
      BY <1>7, <3>2, <3>3
    <3>5. QED
      BY <1>1, <1>9, <2>5, <3>3, <3>4 DEF PeerMoves, PeerPhases
  <2>6. QED
    BY <2>3, <2>4, <2>5
<1>10. CASE s.at \in {"WorkerAddress", "WorkerData"}
  <2>1. p2 \in P!FromWorker(q, pins, data)
    BY <1>1, <1>2, <1>10 DEF P!Clock
  <2>2. CASE pins.reply = "Err" \/ (pins.reply = "Ack" /\ s.at = "WorkerData")
    <3>1. \E result : p2 = P!WorkerDone(q, result)
      BY <1>5, <1>10, <2>1, <2>2 DEF P!FromWorker
    <3>2. PICK result : p2 = [state |-> P!Idle, result |-> result, words |-> p.words, address |-> p.address, got |-> None]
      BY <1>3, <3>1 DEF P!WorkerDone
    <3>3. PeerShape(p2) /\ p2.state = P!Idle /\ p2.got = None
      BY <1>6, <3>2
    <3>4. QED
      BY <1>1, <1>10, <2>2, <3>3 DEF PeerMoves, PeerPhases
  <2>3. CASE pins.reply \notin {"Ack", "Err"}
    <3>1. p2 = q
      BY <2>1, <2>3 DEF P!FromWorker
    <3>2. QED
      BY <1>1, <1>5, <1>10, <2>3, <3>1 DEF PeerMoves, PeerPhases
  <2>4. CASE pins.reply = "Ack" /\ s.at = "WorkerAddress"
    <3>1. p2 = [q EXCEPT !.state = P!WorkerData(s.op)]
      BY <1>5, <2>1, <2>4 DEF P!FromWorker
    <3>2. p2 = [state |-> P!WorkerData(s.op), result |-> None, words |-> p.words, address |-> p.address, got |-> None]
      BY <1>4, <3>1
    <3>3. PeerShape(p2) /\ p2.state = P!WorkerData(s.op) /\ p2.got = None
      BY <3>2 DEF PeerShape, PeerPhases, P!WorkerData
    <3>4. QED
      BY <1>1, <1>10, <2>4, <3>3 DEF PeerMoves, PeerPhases
  <2>5. QED
    BY <1>10, <2>2, <2>3, <2>4
<1>11. CASE s.at \in PeerPhases
  <2>0. /\ s = P!Phase(s.at, s.request, s.beat, s.wait, s.fault) /\ s.wait \in Nat
        /\ s.at \notin {"Idle", "Grant", "WorkerAddress", "WorkerData"}
    BY <1>1, <1>11 DEF PeerShape, PeerPhases
  <2>1. s.wait > 0 \/ s.wait = 0
    BY <2>0
  <2> DEFINE wait == [q EXCEPT !.state.wait = @ - 1]
  <2>2. s.wait > 0 =>
          PeerShape(wait) /\ wait.state.at = s.at /\ wait.state.request = s.request
            /\ wait.state.fault = s.fault /\ wait.got = None
    <3>1. SUFFICES ASSUME s.wait > 0
                   PROVE  PeerShape(wait) /\ wait.state.at = s.at /\ wait.state.request = s.request
                            /\ wait.state.fault = s.fault /\ wait.got = None
      OBVIOUS
    <3>2. PICK n : n = s.wait - 1
      OBVIOUS
    <3>3. n \in Nat
      BY <2>0, <3>1, <3>2
    <3>4. PICK t : t = P!Phase(s.at, s.request, s.beat, n, s.fault)
      OBVIOUS
    <3>5. wait = [state |-> t, result |-> None, words |-> p.words, address |-> p.address, got |-> None]
      BY <1>3, <2>0, <3>2, <3>4 DEF P!Phase
    <3>6. t = P!Phase(t.at, t.request, t.beat, t.wait, t.fault) /\ t.wait \in Nat
          /\ t.at = s.at /\ t.request = s.request /\ t.fault = s.fault
      BY <3>3, <3>4 DEF P!Phase
    <3>7. PICK e : e = wait
      OBVIOUS
    <3> HIDE DEF wait
    <3>8. PeerShape(e) /\ e.state = t /\ e.got = None
      BY <1>7, <1>11, <3>5, <3>6, <3>7
    <3>9. QED
      BY <3>6, <3>7, <3>8
  <2> HIDE DEF wait
  <2>3. ASSUME NEW e, e = [q EXCEPT !.state = P!Idle]
        PROVE  PeerShape(e) /\ e.state = P!Idle /\ e.got = None
    BY <1>4, <1>6, <2>3
  <2>4. CASE ~pins.request
    <3>1. p2 = [q EXCEPT !.state = P!Idle]
      BY <1>1, <1>2, <2>0, <2>4 DEF P!Clock
    <3>2. QED
      BY <1>1, <1>11, <2>3, <2>4, <3>1 DEF PeerMoves, PeerPhases
  <2>5. CASE pins.request /\ s.at = "DmaAddress"
    <3>1. p2 \in P!FromAddress(q, P!Phases("DmaData", s.request, 0, P!DataFaults(s.request)))
      BY <1>1, <1>2, <1>5, <2>0, <2>5 DEF P!Clock
    <3>2. CASE s.wait > 0
      <4>1. p2 = wait
        BY <1>5, <3>1, <3>2 DEF P!FromAddress, wait
      <4>2. QED
        BY <1>1, <2>2, <2>5, <3>2, <4>1 DEF PeerMoves, PeerPhases
    <3>3. CASE s.wait = 0 /\ s.fault = "Err"
      <4>1. p2 = [q EXCEPT !.state = P!Idle]
        BY <1>5, <3>1, <3>3 DEF P!FromAddress
      <4>2. QED
        BY <1>1, <2>3, <2>5, <4>1 DEF PeerMoves, PeerPhases
    <3>4. CASE s.wait = 0 /\ s.fault # "Err"
      <4>1. PICK t \in P!Phases("DmaData", s.request, 0, P!DataFaults(s.request)) :
              p2 = [q EXCEPT !.state = t]
        BY <1>5, <3>1, <3>4 DEF P!FromAddress
      <4>2. p2 = [state |-> t, result |-> None, words |-> p.words, address |-> p.address, got |-> None]
        BY <1>4, <4>1
      <4>3. /\ t = P!Phase(t.at, t.request, t.beat, t.wait, t.fault) /\ t.wait \in Nat
            /\ t.at = "DmaData" /\ t.at \in PeerPhases
        BY PhasesAre DEF PeerPhases
      <4>4. PeerShape(p2) /\ p2.state = t /\ p2.got = None
        BY <1>7, <4>2, <4>3
      <4>5. QED
        BY <1>1, <2>5, <3>4, <4>3, <4>4 DEF PeerMoves, PeerPhases
    <3>5. QED
      BY <2>1, <3>2, <3>3, <3>4
  <2>6. CASE pins.request /\ s.at = "NotificationAddress"
    <3>1. p2 \in P!FromAddress(q, P!Phases("NotificationData", s.request, 0, {}))
      BY <1>1, <1>2, <1>5, <2>0, <2>6 DEF P!Clock
    <3>2. CASE s.wait > 0
      <4>1. p2 = wait
        BY <1>5, <3>1, <3>2 DEF P!FromAddress, wait
      <4>2. QED
        BY <1>1, <2>2, <2>6, <3>2, <4>1 DEF PeerMoves, PeerPhases
    <3>3. CASE s.wait = 0 /\ s.fault = "Err"
      <4>1. p2 = [q EXCEPT !.state = P!Idle]
        BY <1>5, <3>1, <3>3 DEF P!FromAddress
      <4>2. QED
        BY <1>1, <2>3, <2>6, <4>1 DEF PeerMoves, PeerPhases
    <3>4. CASE s.wait = 0 /\ s.fault # "Err"
      <4>1. PICK t \in P!Phases("NotificationData", s.request, 0, {}) : p2 = [q EXCEPT !.state = t]
        BY <1>5, <3>1, <3>4 DEF P!FromAddress
      <4>2. p2 = [state |-> t, result |-> None, words |-> p.words, address |-> p.address, got |-> None]
        BY <1>4, <4>1
      <4>3. /\ t = P!Phase(t.at, t.request, t.beat, t.wait, t.fault) /\ t.wait \in Nat
            /\ t.at = "NotificationData" /\ t.at \in PeerPhases
            /\ t.request = s.request /\ t.fault = None
        BY PhasesAre DEF PeerPhases
      <4>4. PeerShape(p2) /\ p2.state = t /\ p2.got = None
        BY <1>7, <4>2, <4>3
      <4>5. QED
        BY <1>1, <2>6, <3>4, <4>3, <4>4 DEF PeerMoves, PeerPhases
    <3>5. QED
      BY <2>1, <3>2, <3>3, <3>4
  <2>7. CASE pins.request /\ s.at = "NotificationData"
    <3>1. p2 \in P!FromNotificationData(q, pins)
      BY <1>1, <1>2, <2>0, <2>7 DEF P!Clock
    <3>2. CASE pins.strobe = None
      <4>1. p2 = q
        BY <3>1, <3>2 DEF P!FromNotificationData
      <4>2. QED
        BY <1>1, <1>5, <2>7, <3>2, <4>1 DEF PeerMoves, PeerPhases
    <3>3. CASE pins.strobe # None /\ s.wait > 0
      <4>1. p2 = wait
        BY <1>5, <3>1, <3>3 DEF P!FromNotificationData, wait
      <4>2. s.wait # 0
        BY <2>0, <3>3
      <4>3. QED
        BY <1>1, <2>2, <2>7, <3>3, <4>1, <4>2 DEF PeerMoves, PeerPhases
    <3>4. CASE pins.strobe # None /\ s.wait = 0
      <4>1. p2 = [q EXCEPT !.state = P!Idle, !.got = s.request]
        BY <1>5, <3>1, <3>4 DEF P!FromNotificationData
      <4>2. p2 = [state |-> P!Idle, result |-> None, words |-> p.words, address |-> p.address, got |-> s.request]
        BY <1>3, <4>1
      <4>3. PeerShape(p2) /\ p2.state = P!Idle /\ p2.got = s.request
        BY <1>6, <4>2
      <4>4. QED
        BY <1>1, <2>7, <3>4, <4>3 DEF PeerMoves, PeerPhases
    <3>5. QED
      BY <2>1, <3>2, <3>3, <3>4
  <2>8. CASE pins.request /\ s.at = "DmaData"
    <3>1. p2 \in P!FromDmaData(q, pins)
      BY <1>1, <1>2, <2>0, <2>8 DEF P!Clock
    <3> DEFINE taken == IF P!Reads(q.state) THEN q
                        ELSE [q EXCEPT !.words = Append(@, pins.strobe.value)]
    <3>2. PICK w : taken = [state |-> s, result |-> None, words |-> w, address |-> p.address, got |-> None]
      <4>1. CASE P!Reads(q.state)
        BY <1>3, <4>1
      <4>2. CASE ~P!Reads(q.state)
        BY <1>3, <4>2
      <4>3. QED
        BY <4>1, <4>2
    <3>3. \/ p2 = q
          \/ s.wait > 0 /\ p2 = wait
          \/ p2 = [q EXCEPT !.state = P!Idle]
          \/ p2 = [taken EXCEPT !.state = P!Idle]
          \/ \E t \in P!Phases("DmaData", s.request, s.beat + 1, P!DataFaults(s.request)) :
               p2 = [taken EXCEPT !.state = t]
      BY <1>5, <3>1 DEF P!FromDmaData, wait
    <3> HIDE DEF taken
    <3>4. CASE p2 = q
      BY <1>1, <1>5, <2>8, <3>4 DEF PeerMoves, PeerPhases
    <3>5. CASE s.wait > 0 /\ p2 = wait
      BY <1>1, <2>2, <2>8, <3>5 DEF PeerMoves, PeerPhases
    <3>6. CASE p2 = [q EXCEPT !.state = P!Idle]
      BY <1>1, <2>3, <2>8, <3>6 DEF PeerMoves, PeerPhases
    <3>7. CASE p2 = [taken EXCEPT !.state = P!Idle]
      <4>1. p2 = [state |-> P!Idle, result |-> None, words |-> w, address |-> p.address, got |-> None]
        BY <3>2, <3>7
      <4>2. PeerShape(p2) /\ p2.state = P!Idle /\ p2.got = None
        BY <1>6, <4>1
      <4>3. QED
        BY <1>1, <2>8, <4>2 DEF PeerMoves, PeerPhases
    <3>8. ASSUME NEW t \in P!Phases("DmaData", s.request, s.beat + 1, P!DataFaults(s.request)),
                 p2 = [taken EXCEPT !.state = t]
          PROVE  PeerShape(p2) /\ PeerMoves(p, pins, p2)
      <4>1. p2 = [state |-> t, result |-> None, words |-> w, address |-> p.address, got |-> None]
        BY <3>2, <3>8
      <4>2. /\ t = P!Phase(t.at, t.request, t.beat, t.wait, t.fault) /\ t.wait \in Nat
            /\ t.at = "DmaData" /\ t.at \in PeerPhases
        BY PhasesAre DEF PeerPhases
      <4>3. PeerShape(p2) /\ p2.state = t /\ p2.got = None
        BY <1>7, <4>1, <4>2
      <4>4. QED
        BY <1>1, <2>8, <4>2, <4>3 DEF PeerMoves, PeerPhases
    <3>9. QED
      BY <3>3, <3>4, <3>5, <3>6, <3>7, <3>8
  <2>9. QED
    BY <1>11, <2>4, <2>5, <2>6, <2>7, <2>8 DEF PeerPhases
<1>12. QED
  BY <1>1, <1>8, <1>9, <1>10, <1>11 DEF PeerShape

-----------------------------------------------------------------------------
(* One clock of the card.                                                   *)

Bus     == P!BusInputs(peer.state)
Device  == QicPort(qdx)
Signals == Q!ToDevice(qic, Bus, ToQic(Device))
Moves   == L!Cycle(link, FALSE, Signals, Device)
Pins    == Q!CardPins(qic, Bus, ToQic(Moves.toQic))

\* What a clock does to the parts, given that they have their shapes.
LEMMA CardClockIs ==
  ASSUME ShapeInv, CardClock
  PROVE  /\ BusShape(Bus) /\ ~Bus.reset
         /\ \E endpointSignals : qdx' = Advance(qdx, Moves.toDevice, endpointSignals)
         /\ link' = Moves.link
         /\ qic' = Q!Clock(qic, Bus, ToQic(Moves.toQic)) /\ QicShape(qic')
         /\ PeerShape(peer') /\ PeerMoves(peer, Pins, peer')
         /\ seen' = Observe(Moves.toDevice.mmio) /\ SeenShape(seen')
<1>1. BusShape(Bus) /\ Bus.reset = FALSE
  BY BusIs DEF ShapeInv, Bus
<1>2. Step(Bus)
  BY DEF CardClock, Bus
<1>3. Moves = L!Cycle(link, Bus.reset, Signals, Device)
  BY <1>1 DEF Moves
<1>4. /\ \E endpointSignals : qdx' = Advance(qdx, Moves.toDevice, endpointSignals)
      /\ link' = Moves.link
      /\ qic' = Q!Clock(qic, Bus, ToQic(Moves.toQic))
      /\ \E data : peer' \in P!Clock(peer, Pins, data)
      /\ seen' = Observe(Moves.toDevice.mmio)
  BY <1>1, <1>2, <1>3 DEF Step, Signals, Device, Pins
<1>5. QicShape(qic')
  BY <1>1, <1>4, QicStaysShaped DEF ShapeInv
<1>6. PeerShape(peer') /\ PeerMoves(peer, Pins, peer')
  BY <1>4, PeerClockIs DEF ShapeInv
<1>7. SeenShape(seen')
  BY <1>4 DEF ShapeInv, SeenShape, Observe
<1>8. QED
  BY <1>1, <1>4, <1>5, <1>6, <1>7

LEMMA BusResetIs ==
  ASSUME BusReset
  PROVE  /\ qdx' = HardReset /\ link' = L!NewLink /\ qic' = Q!NewQic /\ peer' = P!NewPeer
         /\ seen' = NewSeen /\ endpoint' = None
<1>1. PICK bus : bus = [P!BusInputs(P!Idle) EXCEPT !.reset = TRUE]
  OBVIOUS
<1>2. Step(bus)
  BY <1>1 DEF BusReset
<1>3. bus.reset = TRUE
  BY <1>1 DEF P!BusInputs
<1>4. \A signals, device : /\ L!Cycle(link, bus.reset, signals, device).link = L!NewLink
                          /\ L!Cycle(link, bus.reset, signals, device).toDevice.reset = TRUE
  BY <1>3 DEF L!Cycle, L!NoQic
<1>5. \A qli, signals : qli.reset = TRUE => Advance(qdx, qli, signals) = HardReset
  BY DEF Advance
<1>6. link' = L!NewLink /\ qdx' = HardReset /\ endpoint' = None
  BY <1>2, <1>4, <1>5 DEF Step, EndpointClock, EndpointPort
<1>7. qic' = Q!NewQic /\ peer' = P!NewPeer /\ seen' = NewSeen
  BY <1>2, <1>3 DEF Step, Q!Clock
<1>8. QED
  BY <1>6, <1>7

LEMMA NewShapes ==
  /\ ChipShape(NewQdx) /\ ChipShape(HardReset) /\ LinkShape(L!NewLink) /\ QicShape(Q!NewQic)
  /\ PeerShape(P!NewPeer) /\ SeenShape(NewSeen)
<1>1. ChipShape(NewQdx) /\ ChipShape(HardReset)
  BY NewChipRoom DEF ChipRoom
<1>2. LinkShape(L!NewLink)
  BY DEF LinkShape, L!NewLink, MessageShape
<1>3. QicShape(Q!NewQic)
  BY DEF QicShape, Q!NewQic, QicState, Q!Idle
<1>4. PeerShape(P!NewPeer)
  BY DEF PeerShape, P!NewPeer, P!Idle, PeerPhases
<1>5. SeenShape(NewSeen)
  BY DEF SeenShape, NewSeen
<1>6. QED
  BY <1>1, <1>2, <1>3, <1>4, <1>5

-----------------------------------------------------------------------------
(* The driver's accesses are legal, wherever they have come to.             *)

LegalState(s) == s.at \in {"WorkerReadData", "WorkerWriteData", "WorkerOffer"} => Legal(s.op)

LegalClock(c) ==
  /\ c.link.q2d # None /\ c.link.q2d.tag = "MmioRequest" => Legal(c.link.q2d.body)
  /\ c.toDevice.mmio # None => Legal(c.toDevice.mmio)

LEMMA LegalSlot ==
  ASSUME NEW c, LegalClock(c), NEW qicSignals, NEW dev, NEW d, Slotted(c, d, qicSignals, dev)
  PROVE  LegalClock(d)
<1>1. CASE Quiet(c, d)
  BY <1>1 DEF LegalClock, Quiet, Same
<1>2. CASE DeviceGets(c, d, dev)
  BY <1>2 DEF LegalClock, DeviceGets
<1>3. CASE QicGets(c, d, qicSignals)
  BY <1>3 DEF LegalClock, QicGets
<1>4. QED
  BY <1>1, <1>2, <1>3 DEF Slotted

LEMMA LegalCycle ==
  ASSUME NEW l, LinkShape(l), NEW qicSignals, NEW dev, NEW d, d = L!Cycle(l, FALSE, qicSignals, dev),
         l.q2d # None /\ l.q2d.tag = "MmioRequest" => Legal(l.q2d.body),
         qicSignals.mmio # None => Legal(qicSignals.mmio)
  PROVE  LegalClock(d) /\ LinkShape(d.link)
<1>1. PICK b, c : /\ ClockShape(b) /\ Begun(l, b, qicSignals, dev)
                  /\ ClockShape(c) /\ Slotted(b, c, qicSignals, dev)
                  /\ ClockShape(d) /\ Slotted(c, d, qicSignals, dev)
  BY CycleIs
<1>2. PICK m : m = L!ToDeviceMessage(L!Notified(l, qicSignals), qicSignals)
  OBVIOUS
<1>3. m # None /\ m.tag = "MmioRequest" => Legal(m.body)
  BY <1>2 DEF L!ToDeviceMessage, L!Message
<1>4. b.link.q2d = (IF l.q2d = None THEN m ELSE l.q2d) /\ b.toDevice.mmio = None
  BY <1>1, <1>2 DEF Begun, L!NoQic
<1>5. LegalClock(b)
  BY <1>3, <1>4 DEF LegalClock
<1>6. LegalClock(c)
  BY <1>1, <1>5, LegalSlot
<1>7. LegalClock(d)
  BY <1>1, <1>6, LegalSlot
<1>8. QED
  BY <1>1, <1>7 DEF ClockShape

LEMMA LegalQic ==
  ASSUME NEW q, QicShape(q), LegalState(q.state), NEW bus, BusShape(bus), ~bus.reset, NEW device,
         NEW op, Legal(op), Q!WorkerAddressCycle(bus) => Q!StartWorker(bus) = Q!WorkerData(op, 0),
         NEW q2, q2 = Q!Clock(q, bus, device)
  PROVE  LegalState(q2.state)
<1>0. QicRecord(q) /\ q.grantUsed \in BOOLEAN /\ QicState(q.state) /\ bus.grant \in BOOLEAN
  BY DEF QicShape, QicRecord, BusShape
<1>1. PICK n : n = Moved(q, bus, device)
  OBVIOUS
<1>2. PICK u : u = Aside(q, device)
  OBVIOUS
<1>3. /\ Interrupted(q, bus) => q2.state = q.state \/ q2.state = Q!StartWorker(bus)
      /\ Lost(q, bus) => q2.state = Q!LoseGrant(q.state)
      /\ Goes(q, bus) => IF n # Q!Idle THEN q2.state = n ELSE Resumes(q, q2, u)
  BY <1>0, <1>1, <1>2, ClockIs DEF GoesTo
<1>4. QicState(n) /\ MovesTo(q, bus, device, n)
  BY <1>0, <1>1, MovedIs
<1>5. LegalState(Q!WorkerData(op, 0))
  BY MadeStates DEF LegalState
<1>6. CASE Interrupted(q, bus)
  BY <1>3, <1>5, <1>6 DEF Interrupted
<1>7. CASE Lost(q, bus)
  <2>1. q2.state.at \in {"DmaComplete", "Idle"}
    BY <1>0, <1>3, <1>7, LostIs DEF Lost
  <2>2. QED
    BY <2>1 DEF LegalState
<1>8. CASE Goes(q, bus) /\ n = Q!Idle
  <2>1. q2.state.at \in {"DmaData", "DmaComplete", "RequestBus", "Idle"}
    BY <1>3, <1>8, MadeStates DEF Resumes, QicShape, Q!LocalTail
  <2>2. QED
    BY <2>1 DEF LegalState
<1>9. CASE Goes(q, bus) /\ n # Q!Idle
  <2>1. LegalState(n)
    <3>1. CASE q.state.at = "Idle"
      BY <1>4, <1>5, <1>9, <3>1, MadeStates DEF MovesTo, LegalState
    <3>2. CASE q.state.at \in Q!WorkerStates
      BY <1>4, <1>9, <3>2 DEF MovesTo, LegalState, Q!WorkerStates
    <3>3. CASE q.state.at = "RequestBus"
      BY <1>4, <3>3, MadeStates DEF MovesTo, LegalState
    <3>4. CASE q.state.at \in {"DmaAddress", "DmaData", "DmaComplete"}
      BY <1>4, <1>9, <3>4 DEF MovesTo, LegalState
    <3>5. CASE q.state.at \in {"NotificationAddress", "NotificationData"}
      BY <1>4, <1>9, <3>5 DEF MovesTo, LegalState
    <3>6. QED
      BY <1>0, <3>1, <3>2, <3>3, <3>4, <3>5 DEF QicState, Q!WorkerStates
  <2>2. QED
    BY <1>3, <1>9, <2>1
<1>10. QED
  BY <1>6, <1>7, <1>8, <1>9 DEF Goes

-----------------------------------------------------------------------------
(* There is room for the completion.                                        *)

LEMMA RoomIs == RoomInv <=> ShapeInv /\ AccessesLegal /\ ChipRoom(qdx)
  BY DEF RoomInv, ShapeInv, ChipRoom, PositionsInRange, RoomForCompletion, Making

LEMMA RoomInit == Init => RoomInv
<1>1. SUFFICES ASSUME Init PROVE RoomInv
  OBVIOUS
<1>2. ShapeInv /\ ChipRoom(qdx)
  BY <1>1, NewShapes, NewChipRoom DEF Init, ShapeInv
<1>3. AccessesLegal
  BY <1>1 DEF Init, AccessesLegal, P!NewPeer, P!Idle, Q!NewQic, Q!Idle, L!NewLink
<1>4. QED
  BY <1>2, <1>3, RoomIs

LEMMA RoomClock ==
  ASSUME RoomInv, CardClock
  PROVE  RoomInv'
<1>0. ShapeInv /\ AccessesLegal /\ ChipRoom(qdx)
  BY RoomIs
<1>1. /\ BusShape(Bus) /\ ~Bus.reset
      /\ \E endpointSignals : qdx' = Advance(qdx, Moves.toDevice, endpointSignals)
      /\ link' = Moves.link
      /\ qic' = Q!Clock(qic, Bus, ToQic(Moves.toQic)) /\ QicShape(qic')
      /\ PeerShape(peer') /\ PeerMoves(peer, Pins, peer')
      /\ SeenShape(seen')
  BY <1>0, CardClockIs
<1>2. Signals.mmio # None => Legal(Signals.mmio)
  BY <1>0 DEF Signals, Q!ToDevice, AccessesLegal
<1>3. LegalClock(Moves) /\ LinkShape(Moves.link)
  BY <1>0, <1>2, LegalCycle DEF Moves, AccessesLegal, ShapeInv
<1>4. ChipRoom(qdx')
  BY <1>0, <1>1, <1>3, AdvanceRoom DEF LegalClock
<1>5. link'.q2d # None /\ link'.q2d.tag = "MmioRequest" => Legal(link'.q2d.body)
  BY <1>1, <1>3 DEF LegalClock
<1>6. LegalState(qic'.state)
  <2>1. CASE Q!WorkerAddressCycle(Bus)
    <3>1. PICK op : op = [register |-> peer.state.op.register, write |-> peer.state.op.write]
      OBVIOUS
    <3>2. peer.state.at = "WorkerAddress" /\ Q!StartWorker(Bus) = Q!WorkerData(op, 0)
      BY <1>0, <2>1, <3>1, BusIs DEF ShapeInv, Bus
    <3>3. Legal(op)
      BY <1>0, <3>1, <3>2 DEF AccessesLegal, Legal
    <3>4. QED
      BY <1>0, <1>1, <3>2, <3>3, LegalQic DEF AccessesLegal, LegalState, ShapeInv
  <2>2. CASE ~Q!WorkerAddressCycle(Bus)
    <3>1. PICK op : op = [register |-> [name |-> "Cap", value |-> 0], write |-> FALSE]
      OBVIOUS
    <3>2. Legal(op)
      BY <3>1 DEF Legal
    <3>3. QED
      BY <1>0, <1>1, <2>2, <3>2, LegalQic DEF AccessesLegal, LegalState, ShapeInv
  <2>3. QED
    BY <2>1, <2>2
<1>7. peer'.state.at \in {"WorkerAddress", "WorkerData"} => Legal(peer'.state.op)
  <2>1. PeerShape(peer) /\ (peer.state.at \in {"WorkerAddress", "WorkerData"} => Legal(peer.state.op))
    BY <1>0 DEF ShapeInv, AccessesLegal
  <2>2. peer.state.at \in {"Idle", "Grant", "WorkerAddress", "WorkerData"} \cup PeerPhases
    BY <2>1 DEF PeerShape
  <2>3. CASE peer.state.at \in {"Idle", "Grant"}
    BY <1>1, <2>3 DEF PeerMoves, P!Idle, P!Grant
  <2>4. CASE peer.state.at \in {"WorkerAddress", "WorkerData"}
    BY <1>1, <2>1, <2>4 DEF PeerMoves, P!Idle, P!WorkerData
  <2>5. CASE peer.state.at \in PeerPhases
    BY <1>1, <2>5 DEF PeerMoves, P!Idle, PeerPhases
  <2>6. QED
    BY <2>2, <2>3, <2>4, <2>5
<1>8. AccessesLegal'
  BY <1>5, <1>6, <1>7 DEF AccessesLegal, LegalState
<1>9. ShapeInv'
  BY <1>1, <1>3, <1>4 DEF ShapeInv, ChipRoom
<1>10. (RoomInv <=> ShapeInv /\ AccessesLegal /\ ChipRoom(qdx))'
  BY RoomIs, PTL
<1>11. QED
  BY <1>4, <1>8, <1>9, <1>10

LEMMA DriverAccessIs ==
  ASSUME ShapeInv, DriverAccess
  PROVE  /\ ShapeInv' /\ peer.state = P!Idle /\ UNCHANGED <<qic, link, qdx>>
         /\ \E access \in Accesses : peer'.state = P!WorkerAddress(access)
         /\ peer'.got = None /\ seen'.stopped = seen.stopped /\ seen'.owed = seen.owed
<1>1. PICK access \in Accesses : peer' = P!StartWorker(peer, access)
  BY DEF DriverAccess
<1>2. peer' = [state |-> P!WorkerAddress(access), result |-> None, words |-> peer.words, address |-> peer.address, got |-> None]
  BY <1>1 DEF ShapeInv, PeerShape, P!StartWorker
<1>3. PeerShape(peer')
  BY <1>2 DEF PeerShape, PeerPhases, P!WorkerAddress
<1>4. seen' = [applied |-> << >>, owed |-> seen.owed, stopped |-> seen.stopped, repeats |-> seen.repeats]
  BY DEF DriverAccess, ShapeInv, SeenShape
<1>5. SeenShape(seen')
  BY <1>4 DEF ShapeInv, SeenShape
<1>6. QED
  BY <1>2, <1>3, <1>4, <1>5 DEF DriverAccess, ShapeInv

(* RoomInv is inductive: each part keeps its shape, a driver's access stays legal, and the
   chip starts on a command only while there is room for its completion. *)
THEOREM RoomInvariant == Spec => []RoomInv
<1>1. Init => RoomInv
  BY RoomInit
<1>2. RoomInv /\ [Next]_cardVars => RoomInv'
  <2>1. SUFFICES ASSUME RoomInv, [Next]_cardVars PROVE RoomInv'
    OBVIOUS
  <2>0. (RoomInv <=> ShapeInv /\ AccessesLegal /\ ChipRoom(qdx))'
    BY RoomIs, PTL
  <2>2. CASE CardClock
    BY <2>1, <2>2, RoomClock
  <2>3. CASE BusReset
    <3>1. ShapeInv' /\ ChipRoom(qdx')
      BY <2>3, BusResetIs, NewShapes, NewChipRoom DEF ShapeInv
    <3>2. AccessesLegal'
      BY <2>3, BusResetIs DEF AccessesLegal, P!NewPeer, P!Idle, Q!NewQic, Q!Idle, L!NewLink
    <3>3. QED
      BY <2>0, <3>1, <3>2
  <2>4. CASE DriverAccess
    <3>1. /\ ShapeInv' /\ UNCHANGED <<qic, link, qdx>>
          /\ \E access \in Accesses : peer'.state = P!WorkerAddress(access)
      BY <2>1, <2>4, DriverAccessIs DEF RoomInv
    <3>2. AccessesLegal'
      BY <2>1, <3>1, DriverAssumption DEF RoomInv, AccessesLegal, P!WorkerAddress
    <3>3. QED
      BY <2>0, <2>1, <3>1, <3>2, RoomIs
  <2>5. CASE UNCHANGED cardVars
    BY <2>1, <2>5 DEF cardVars, RoomInv, ShapeInv, AccessesLegal, PositionsInRange, RoomForCompletion
  <2>6. QED
    BY <2>1, <2>2, <2>3, <2>4, <2>5 DEF Next
<1>3. QED
  BY <1>1, <1>2, PTL DEF Spec

(* While a command is being fetched, worked on or published there is room for its completion,
   so none is overwritten: for any ring, any timing of the bus and any driver. *)
THEOREM RoomProved == Spec => []RoomForCompletion
<1>1. RoomInv => RoomForCompletion
  BY DEF RoomInv
<1>2. QED
  BY <1>1, RoomInvariant, PTL

-----------------------------------------------------------------------------
(* The QIC with the bus: three ways a clock goes.                           *)

\* Between register accesses.
LEMMA QicFree ==
  ASSUME NEW q, QicShape(q), q.state.at \notin Q!WorkerStates, NEW bus, BusShape(bus), ~bus.reset,
         ~Q!WorkerAddressCycle(bus), NEW device, NEW q2, q2 = Q!Clock(q, bus, device)
  PROVE  /\ q2.suspended = None
         /\ IF ~bus.grant /\ Q!NeedsGrant(q.state) THEN q2.state = Q!LoseGrant(q.state)
            ELSE q2.state = Moved(q, bus, device)
<1>1. QicRecord(q) /\ q.grantUsed \in BOOLEAN /\ bus.grant \in BOOLEAN
  BY DEF QicShape, QicRecord, BusShape
<1>2. PICK n : n = Moved(q, bus, device)
  OBVIOUS
<1>3. PICK u : u = Aside(q, device)
  OBVIOUS
<1>4. /\ Lost(q, bus) => GoesTo(q, q2, Q!LoseGrant(q.state), q.suspended)
      /\ Goes(q, bus) => IF n # Q!Idle THEN GoesTo(q, q2, n, u) ELSE Resumes(q, q2, u)
  BY <1>1, <1>2, <1>3, ClockIs
<1>5. q.suspended = None /\ q.tail = None /\ u = None
  BY <1>3 DEF QicShape, Aside, Q!AcceptsDmaDuringWorker, Q!WorkerStates
<1>6. ~Interrupted(q, bus)
  BY DEF Interrupted
<1>7. CASE ~bus.grant /\ Q!NeedsGrant(q.state)
  BY <1>4, <1>5, <1>6, <1>7 DEF Lost, GoesTo
<1>8. CASE ~(~bus.grant /\ Q!NeedsGrant(q.state))
  <2>1. Goes(q, bus)
    BY <1>6, <1>8 DEF Goes, Lost
  <2>2. CASE n # Q!Idle
    BY <1>2, <1>4, <1>5, <1>8, <2>1, <2>2 DEF GoesTo
  <2>3. CASE n = Q!Idle
    BY <1>2, <1>4, <1>5, <1>8, <2>1, <2>3 DEF Resumes
  <2>4. QED
    BY <2>2, <2>3
<1>9. QED
  BY <1>7, <1>8

\* A register access begins, or waits for the QIC to find that it has lost the bus.
LEMMA QicAccessed ==
  ASSUME NEW q, QicShape(q), q.state.at \notin Q!WorkerStates, NEW bus, BusShape(bus), ~bus.reset,
         Q!WorkerAddressCycle(bus), ~bus.grant, NEW device, NEW q2, q2 = Q!Clock(q, bus, device)
  PROVE  IF Q!AnswersAddress(q.state)
         THEN /\ q2.state = Q!StartWorker(bus)
              /\ q2.suspended = IF q.state.at = "RequestBus" THEN q.state.work ELSE None
         ELSE q2.state.at \in {"DmaComplete", "Idle"} /\ q2.suspended = None
<1>1. QicRecord(q) /\ q.grantUsed \in BOOLEAN /\ bus.grant \in BOOLEAN /\ QicState(q.state)
  BY DEF QicShape, QicRecord, BusShape
<1>2. PICK n : n = Moved(q, bus, device)
  OBVIOUS
<1>3. PICK u : u = Aside(q, device)
  OBVIOUS
<1>4. /\ Interrupted(q, bus) =>
           IF ~bus.address.valid THEN GoesTo(q, q2, q.state, q.suspended)
           ELSE /\ q2.state = Q!StartWorker(bus)
                /\ q2.suspended = IF q.state.at = "RequestBus" THEN q.state.work ELSE q.suspended
      /\ Lost(q, bus) => GoesTo(q, q2, Q!LoseGrant(q.state), q.suspended)
      /\ Goes(q, bus) => IF n # Q!Idle THEN GoesTo(q, q2, n, u) ELSE Resumes(q, q2, u)
  BY <1>1, <1>2, <1>3, ClockIs
<1>5. q.suspended = None /\ u = None /\ bus.address.valid
  BY <1>3 DEF QicShape, Aside, Q!AcceptsDmaDuringWorker, Q!WorkerStates, BusShape
<1>6. CASE q.state.at = "RequestBus" \/ Q!LocalTail(q.state)
  BY <1>4, <1>5, <1>6 DEF Interrupted, Q!AnswersAddress
<1>7. CASE q.state.at = "Idle"
  <2>1. n = Q!StartWorker(bus)
    BY <1>1, <1>2, <1>7, MovedIs DEF MovesTo
  <2>2. n # Q!Idle
    BY <2>1, MadeStates DEF Q!StartWorker
  <2>3. Goes(q, bus)
    BY <1>7 DEF Goes, Lost, Interrupted, Q!LocalTail, Q!NeedsGrant
  <2>4. QED
    BY <1>4, <1>5, <1>7, <2>1, <2>2, <2>3 DEF GoesTo, Q!AnswersAddress
<1>8. CASE q.state.at \notin {"RequestBus", "Idle"} /\ ~Q!LocalTail(q.state)
  <2>1. Q!NeedsGrant(q.state) /\ ~Q!AnswersAddress(q.state)
    BY <1>1, <1>8 DEF QicState, Q!LocalTail, Q!NeedsGrant, Q!AnswersAddress, Q!WorkerStates
  <2>2. Lost(q, bus)
    BY <1>8, <2>1 DEF Lost, Interrupted
  <2>3. Q!LoseGrant(q.state).at \in {"DmaComplete", "Idle"}
    BY <1>1, <2>1, LostIs
  <2>4. QED
    BY <1>4, <1>5, <2>1, <2>2, <2>3 DEF GoesTo
<1>9. QED
  BY <1>6, <1>7, <1>8

\* During a register access.
LEMMA QicWorking ==
  ASSUME NEW q, QicShape(q), q.state.at \in Q!WorkerStates, NEW bus, BusShape(bus), ~bus.reset,
         NEW device, NEW q2, q2 = Q!Clock(q, bus, device)
  PROVE  \E u : /\ u = q.suspended \/ u.kind = "Dma"
                /\ IF Q!WorkerReply(q.state, bus, device) \in {"Ack", "Err"} THEN Resumes(q, q2, u)
                   ELSE q2.state.at \in Q!WorkerStates /\ q2.suspended = u
<1>1. QicRecord(q) /\ q.grantUsed \in BOOLEAN /\ bus.grant \in BOOLEAN /\ QicState(q.state)
  BY DEF QicShape, QicRecord, BusShape
<1>2. PICK n : n = Moved(q, bus, device)
  OBVIOUS
<1>3. PICK u : u = Aside(q, device)
  OBVIOUS
<1>4. Goes(q, bus) => IF n # Q!Idle THEN GoesTo(q, q2, n, u) ELSE Resumes(q, q2, u)
  BY <1>1, <1>2, <1>3, ClockIs
<1>5. Goes(q, bus)
  BY DEF Goes, Lost, Interrupted, Q!LocalTail, Q!NeedsGrant, Q!WorkerStates
<1>6. IF Q!WorkerReply(q.state, bus, device) \in {"Ack", "Err"} THEN n = Q!Idle
      ELSE n.at \in Q!WorkerStates
  BY <1>1, <1>2, MovedIs DEF MovesTo
<1>7. n.at \in Q!WorkerStates => n # Q!Idle
  BY MadeStates DEF Q!WorkerStates
<1>8. u = q.suspended \/ u.kind = "Dma"
  BY <1>3 DEF Aside
<1>9. QED
  BY <1>4, <1>5, <1>6, <1>7, <1>8 DEF GoesTo

-----------------------------------------------------------------------------
(* Host and card are in the same transaction.                               *)

LEMMA SameKept ==
  ASSUME NEW q, QicShape(q), NEW p, PeerShape(p), q.state.at \in QicGoesWith(p.state.at),
         NEW bus, bus = P!BusInputs(p.state), NEW device, NEW pins, pins = Q!CardPins(q, bus, device),
         NEW q2, q2 = Q!Clock(q, bus, device), NEW p2, PeerMoves(p, pins, p2)
  PROVE  q2.state.at \in QicGoesWith(p2.state.at)
<1> DEFINE s == p.state
           Free == {"Idle", "RequestBus", "DmaAddress", "DmaData", "DmaComplete",
                    "NotificationAddress", "NotificationData"}
<1>0. QicState(q.state) /\ QicRecord(q) /\ q.grantUsed \in BOOLEAN
  BY DEF QicShape, QicRecord
<1>1. /\ BusShape(bus) /\ ~bus.reset
      /\ bus.grant = (s.at \notin {"Idle", "WorkerAddress", "WorkerData"})
      /\ Q!WorkerAddressCycle(bus) =>
           /\ s.at = "WorkerAddress"
           /\ Q!StartWorker(bus) = Q!WorkerData([register |-> s.op.register, write |-> s.op.write], 0)
      /\ bus.ack = (s.at \in PeerPhases /\ s.wait = 0 /\ s.fault # "Err")
      /\ bus.err = (s.at \in PeerPhases /\ s.wait = 0 /\ s.fault = "Err")
  BY BusIs
<1>2. s.at \in {"Idle", "Grant", "WorkerAddress", "WorkerData"} \cup PeerPhases
  BY DEF PeerShape
<1>3. /\ pins.request = Q!RequestsBus(q) /\ pins.reply = Q!Reply(q, bus, device)
      /\ pins.strobe = Q!Strobe(q.state, bus)
  BY DEF Q!CardPins
<1>4. Free \cap Q!WorkerStates = {}
  BY DEF Q!WorkerStates
<1>5. PICK n : n = Moved(q, bus, device)
  OBVIOUS
<1>6. QicState(n) /\ MovesTo(q, bus, device, n)
  BY <1>0, <1>1, <1>5, MovedIs
<1>7. ASSUME q.state.at \in Free, ~Q!WorkerAddressCycle(bus)
      PROVE  /\ q2.state.at \in Free
             /\ IF ~bus.grant /\ Q!NeedsGrant(q.state) THEN q2.state.at \in {"DmaComplete", "Idle"}
                ELSE q2.state = n
  <2>1. IF ~bus.grant /\ Q!NeedsGrant(q.state) THEN q2.state = Q!LoseGrant(q.state) ELSE q2.state = n
    BY <1>1, <1>4, <1>5, <1>7, QicFree
  <2>2. Q!NeedsGrant(q.state) => Q!LoseGrant(q.state).at \in {"DmaComplete", "Idle"}
    BY <1>0, LostIs
  <2>3. n.at \in Free
    <3>1. CASE q.state.at = "Idle"
      BY <1>6, <1>7, <3>1, MadeStates DEF MovesTo
    <3>2. CASE q.state.at = "RequestBus"
      BY <1>6, <3>2, MadeStates DEF MovesTo
    <3>3. CASE q.state.at \in {"DmaAddress", "DmaData"}
      BY <1>6, <3>3 DEF MovesTo
    <3>4. CASE q.state.at = "DmaComplete"
      BY <1>6, <3>4, MadeStates DEF MovesTo
    <3>5. CASE q.state.at \in {"NotificationAddress", "NotificationData"}
      BY <1>6, <3>5, MadeStates DEF MovesTo
    <3>6. QED
      BY <1>7, <3>1, <3>2, <3>3, <3>4, <3>5
  <2>4. QED
    BY <2>1, <2>2, <2>3
<1> HIDE DEF Free
<1>8. \A at : at \in {"Idle", "WorkerAddress"} => QicGoesWith(at) = Free
  BY DEF QicGoesWith, Free
<1>9. CASE s.at = "Idle"
  <2>1. q.state.at \in Free /\ ~Q!WorkerAddressCycle(bus) /\ ~bus.grant
    BY <1>1, <1>8, <1>9
  <2>2. q2.state.at \in Free
    BY <1>7, <2>1
  <2>3. p2.state = IF pins.request THEN P!Grant ELSE P!Idle
    BY <1>9 DEF PeerMoves
  <2>4. CASE pins.request
    <3>1. q.suspended = None
      BY <1>4, <2>1 DEF QicShape
    <3>2. q.state.at = "RequestBus" \/ Q!NeedsGrant(q.state)
      BY <1>3, <2>4, <3>1 DEF Q!RequestsBus, Q!NeedsGrant
    <3>3. q2.state.at \in {"DmaComplete", "Idle", "RequestBus"}
      <4>1. CASE Q!NeedsGrant(q.state)
        BY <1>7, <2>1, <4>1
      <4>2. CASE ~Q!NeedsGrant(q.state)
        BY <1>6, <1>7, <2>1, <3>2, <4>2 DEF MovesTo
      <4>3. QED
        BY <4>1, <4>2
    <3>4. p2.state.at = "Grant"
      BY <2>3, <2>4 DEF P!Grant
    <3>5. QED
      BY <3>3, <3>4 DEF QicGoesWith
  <2>5. CASE ~pins.request
    BY <1>8, <2>2, <2>3, <2>5 DEF P!Idle
  <2>6. QED
    BY <2>4, <2>5
<1>10. CASE s.at = "WorkerAddress"
  <2>1. q.state.at \in Free /\ ~bus.grant /\ q.state.at \notin Q!WorkerStates
    BY <1>1, <1>4, <1>8, <1>10
  <2>2. p2.state = IF pins.reply = "Err" THEN P!Idle
                   ELSE IF pins.reply = "Ack" THEN P!WorkerData(s.op) ELSE s
    BY <1>10 DEF PeerMoves
  <2>3. CASE Q!WorkerAddressCycle(bus) /\ Q!AnswersAddress(q.state)
    <3>1. bus.address.valid = TRUE
      BY <1>1, <2>3 DEF BusShape
    <3>2. pins.reply = "Ack"
      BY <1>3, <2>1, <2>3, <3>1 DEF Q!Reply
    <3>3. q2.state = Q!StartWorker(bus)
      BY <1>1, <2>1, <2>3, QicAccessed
    <3>4. q2.state.at \in Q!WorkerStates
      BY <3>3, MadeStates DEF Q!StartWorker, Q!WorkerStates
    <3>5. p2.state.at = "WorkerData"
      BY <2>2, <3>2 DEF P!WorkerData
    <3>6. QED
      BY <3>4, <3>5 DEF QicGoesWith
  <2>4. CASE ~(Q!WorkerAddressCycle(bus) /\ Q!AnswersAddress(q.state))
    <3>1. pins.reply = None
      BY <1>3, <2>1, <2>4 DEF Q!Reply
    <3>2. p2.state.at = "WorkerAddress"
      BY <1>10, <2>2, <3>1, NoneIsNoValue
    <3>3. q2.state.at \in Free
      <4>1. CASE Q!WorkerAddressCycle(bus)
        <5>1. q2.state.at \in {"DmaComplete", "Idle"}
          BY <1>1, <2>1, <2>4, <4>1, QicAccessed
        <5>2. QED
          BY <5>1 DEF Free
      <4>2. CASE ~Q!WorkerAddressCycle(bus)
        BY <1>7, <2>1, <4>2
      <4>3. QED
        BY <4>1, <4>2
    <3>4. QED
      BY <1>8, <3>2, <3>3
  <2>5. QED
    BY <2>3, <2>4
<1>11. CASE s.at = "WorkerData"
  <2>1. q.state.at \in Q!WorkerStates
    BY <1>11 DEF QicGoesWith
  <2>2. PICK reply : reply = Q!WorkerReply(q.state, bus, device)
    OBVIOUS
  <2>3. p2.state = IF reply \in {"Ack", "Err"} THEN P!Idle ELSE s
    BY <1>3, <1>11, <2>1, <2>2 DEF PeerMoves, Q!Reply
  <2>4. PICK u : IF reply \in {"Ack", "Err"} THEN Resumes(q, q2, u) ELSE q2.state.at \in Q!WorkerStates
    BY <1>1, <2>1, <2>2, QicWorking
  <2>5. CASE reply \in {"Ack", "Err"}
    <3>1. q2.state.at \in {"DmaComplete", "DmaData", "RequestBus", "Idle"}
      BY <2>4, <2>5, MadeStates DEF Resumes, QicShape, Q!LocalTail
    <3>2. q2.state.at \in Free
      BY <3>1 DEF Free
    <3>3. QED
      BY <1>8, <2>3, <2>5, <3>2 DEF P!Idle
  <2>6. CASE reply \notin {"Ack", "Err"}
    BY <1>11, <2>3, <2>4, <2>6 DEF QicGoesWith
  <2>7. QED
    BY <2>5, <2>6
<1>12. CASE s.at \in {"Grant"} \cup PeerPhases
  <2>1. bus.grant /\ ~Q!WorkerAddressCycle(bus)
    BY <1>1, <1>12 DEF PeerPhases
  <2>2. q.state.at \in Free /\ q.state.at \notin Q!WorkerStates /\ q.suspended = None
    <3>1. q.state.at \in {"Idle", "RequestBus", "DmaAddress", "DmaData", "DmaComplete",
                          "NotificationAddress", "NotificationData"}
      BY <1>12 DEF QicGoesWith, PeerPhases
    <3>2. QED
      BY <1>4, <3>1 DEF QicShape, Free
  <2>3. q2.state = n /\ q2.state.at \in Free
    BY <1>7, <2>1, <2>2
  <2>4. p2.state = P!Idle => q2.state.at \in QicGoesWith(p2.state.at)
    BY <1>8, <2>3 DEF P!Idle
  <2>5. CASE s.at = "Grant"
    <3>1. q.state.at \in {"Idle", "RequestBus", "DmaAddress", "NotificationAddress", "DmaComplete"}
          /\ ~bus.ack
      BY <1>1, <2>5 DEF QicGoesWith, PeerPhases
    <3>2. CASE pins.request /\ pins.strobe = None
      <4>1. p2.state = P!Grant
        BY <2>5, <3>2 DEF PeerMoves
      <4>2. q.state.at \in {"RequestBus", "DmaAddress", "NotificationAddress"}
        BY <1>3, <2>2, <3>1, <3>2 DEF Q!RequestsBus
      <4>3. n.at \in {"DmaAddress", "NotificationAddress", "DmaComplete", "Idle"}
        BY <1>6, <2>1, <3>1, <4>2, MadeStates DEF MovesTo
      <4>4. QED
        BY <2>3, <4>1, <4>3 DEF QicGoesWith, P!Grant
    <3>3. CASE ~pins.request /\ pins.strobe = None
      BY <2>4, <2>5, <3>3 DEF PeerMoves
    <3>4. CASE pins.strobe # None
      <4>1. q.state.at \in {"DmaAddress", "NotificationAddress"}
        BY <1>3, <3>1, <3>4 DEF Q!Strobe
      <4>2. CASE q.state.at = "DmaAddress"
        <5>1. pins.strobe = [kind |-> "HostDma", value |-> q.state.request]
          BY <1>3, <3>4, <4>2 DEF Q!Strobe
        <5>2. p2.state.at = "DmaAddress"
          BY <2>5, <3>4, <5>1 DEF PeerMoves
        <5>3. n.at \in {"DmaAddress", "DmaComplete"}
          BY <1>6, <3>1, <4>2 DEF MovesTo
        <5>4. QED
          BY <2>3, <5>2, <5>3 DEF QicGoesWith
      <4>3. CASE q.state.at = "NotificationAddress"
        <5>1. pins.strobe = [kind |-> "Controller", value |-> q.state.request]
          BY <1>3, <3>4, <4>3 DEF Q!Strobe
        <5>2. p2.state.at = "NotificationAddress"
          BY <2>5, <3>4, <5>1 DEF PeerMoves
        <5>3. n.at \in {"NotificationAddress", "Idle"}
          BY <1>6, <3>1, <4>3, MadeStates DEF MovesTo
        <5>4. QED
          BY <2>3, <5>2, <5>3 DEF QicGoesWith
      <4>4. QED
        BY <4>1, <4>2, <4>3
    <3>5. QED
      BY <3>2, <3>3, <3>4
  <2>6. CASE s.at \in PeerPhases /\ ~pins.request
    BY <2>4, <2>6 DEF PeerMoves
  <2>7. CASE s.at \in PeerPhases /\ pins.request
    <3>1. q.state.at = s.at
      BY <1>3, <2>2, <2>7 DEF Q!RequestsBus, QicGoesWith, PeerPhases
    <3>2. \/ p2.state = P!Idle
          \/ p2.state.at = s.at /\ s.at \in {"DmaAddress", "NotificationAddress"} /\ s.wait > 0
          \/ p2.state.at = s.at /\ s.at = "DmaData"
          \/ s.at = "DmaAddress" /\ p2.state.at = "DmaData" /\ s.wait = 0 /\ s.fault # "Err"
          \/ /\ s.at = "NotificationAddress" /\ p2.state.at = "NotificationData"
             /\ s.wait = 0 /\ s.fault # "Err"
          \/ s.at = "NotificationData" /\ p2.state.at = s.at
      BY <2>7 DEF PeerMoves
    <3>3. s.wait > 0 => s.wait # 0
      OBVIOUS
    <3>4. CASE s.at = "DmaAddress"
      <4>1. /\ n.at \in {"DmaComplete", "DmaAddress", "DmaData"}
            /\ n.at = "DmaData" => bus.ack /\ ~bus.err
            /\ n.at = "DmaAddress" => ~bus.ack /\ ~bus.err
        BY <1>6, <3>1, <3>4 DEF MovesTo
      <4>2. p2.state.at = "DmaAddress" => n.at \in {"DmaComplete", "DmaAddress"}
        BY <1>1, <3>2, <3>3, <3>4, <4>1 DEF P!Idle
      <4>3. p2.state.at = "DmaData" => n.at \in {"DmaComplete", "DmaData"}
        <5>1. s.at \in PeerPhases /\ s.wait = 0 /\ s.fault # "Err" => bus.ack
          BY <1>1
        <5>2. p2.state.at = "DmaData" => s.wait = 0 /\ s.fault # "Err"
          BY <3>2, <3>4 DEF P!Idle
        <5>3. QED
          BY <2>7, <4>1, <5>1, <5>2
      <4>4. QED
        BY <2>3, <2>4, <3>2, <3>4, <4>2, <4>3 DEF QicGoesWith
    <3>5. CASE s.at = "DmaData"
      <4>1. n.at \in {"DmaComplete", "DmaData"}
        BY <1>6, <3>1, <3>5 DEF MovesTo
      <4>2. QED
        BY <2>3, <2>4, <3>2, <3>5, <4>1 DEF QicGoesWith
    <3>6. CASE s.at = "NotificationAddress"
      <4>1. /\ n.at \in {"Idle", "NotificationAddress", "NotificationData"}
            /\ n.at = "NotificationData" => bus.ack /\ ~bus.err
            /\ n.at = "NotificationAddress" => ~bus.ack /\ ~bus.err
        BY <1>6, <3>1, <3>6, MadeStates DEF MovesTo
      <4>2. p2.state.at = "NotificationAddress" => n.at \in {"Idle", "NotificationAddress"}
        BY <1>1, <3>2, <3>3, <3>6, <4>1 DEF P!Idle
      <4>3. p2.state.at = "NotificationData" => n.at \in {"Idle", "NotificationData"}
        <5>1. s.at \in PeerPhases /\ s.wait = 0 /\ s.fault # "Err" => bus.ack
          BY <1>1
        <5>2. p2.state.at = "NotificationData" => s.wait = 0 /\ s.fault # "Err"
          BY <3>2, <3>6 DEF P!Idle
        <5>3. QED
          BY <2>7, <4>1, <5>1, <5>2
      <4>4. QED
        BY <2>3, <2>4, <3>2, <3>6, <4>2, <4>3 DEF QicGoesWith
    <3>7. CASE s.at = "NotificationData"
      <4>1. n.at \in {"Idle", "NotificationData"}
        BY <1>6, <3>1, <3>7, MadeStates DEF MovesTo
      <4>2. QED
        BY <2>3, <2>4, <3>2, <3>7, <4>1 DEF QicGoesWith
    <3>8. QED
      BY <2>7, <3>4, <3>5, <3>6, <3>7 DEF PeerPhases
  <2>8. QED
    BY <1>12, <2>5, <2>6, <2>7
<1>13. QED
  BY <1>2, <1>9, <1>10, <1>11, <1>12
-----------------------------------------------------------------------------
(* The chip's notification.                                                 *)

LEMMA ZeroIsValue == 0 # None
  BY QueueAssumption

\* On its way through the link.
NotifyClock(c, notify, owing, held) ==
  /\ LinkNotifies(c.link, notify)
  /\ c.toQic.notification = c.link.held
  /\ c.toDevice.reset = FALSE /\ c.toDevice.notified \in BOOLEAN
  /\ c.toDevice.notified =>
       /\ notify /\ c.link.held = None /\ c.link.done = None
       /\ ~(c.link.d2q # None /\ c.link.d2q.tag = "NotificationRequest")
  /\ owing <=> c.link.done # None \/ c.toDevice.notified
  /\ held => c.link.held # None

LEMMA NotifySlot ==
  ASSUME NEW notify \in BOOLEAN, NEW owing \in BOOLEAN, NEW held \in BOOLEAN,
         NEW c, NotifyClock(c, notify, owing, held), NEW qicSignals, NEW dev,
         NEW d, Slotted(c, d, qicSignals, dev)
  PROVE  NotifyClock(d, notify, owing, held)
<1>1. CASE Quiet(c, d)
  BY <1>1 DEF NotifyClock, LinkNotifies, Quiet, Same
<1>2. CASE DeviceGets(c, d, dev)
  <2>1. CASE c.link.q2d.tag = "NotificationCompletion"
    <3>1. /\ c.link.q2d # None /\ d.link.q2d = None /\ d.link.d2q = c.link.d2q
          /\ d.link.held = c.link.held /\ d.toQic.notification = c.toQic.notification
          /\ d.toDevice.reset = c.toDevice.reset /\ d.toDevice.notified = TRUE
          /\ d.link.done = IF c.link.done = c.link.q2d.body THEN None ELSE c.link.done
      BY <1>2, <2>1 DEF DeviceGets
    <3>2. c.link.done # None /\ c.link.done = 0 /\ c.link.q2d.body = 0 /\ notify
      BY <2>1, <3>1 DEF NotifyClock, LinkNotifies
    <3>3. d.link.done = None
      BY <3>1, <3>2
    <3>4. c.link.held = None /\ ~(c.link.d2q # None /\ c.link.d2q.tag = "NotificationRequest")
      BY <3>2 DEF NotifyClock, LinkNotifies
    <3>5. QED
      BY <3>1, <3>2, <3>3, <3>4 DEF NotifyClock, LinkNotifies
  <2>2. CASE c.link.q2d.tag # "NotificationCompletion"
    <3>1. /\ d.link.q2d = None /\ d.link.d2q = c.link.d2q /\ d.link.done = c.link.done
          /\ d.link.held = c.link.held /\ d.toQic.notification = c.toQic.notification
          /\ d.toDevice.reset = c.toDevice.reset /\ d.toDevice.notified = c.toDevice.notified
      BY <1>2, <2>2 DEF DeviceGets
    <3>2. QED
      BY <3>1 DEF NotifyClock, LinkNotifies
  <2>3. QED
    BY <2>1, <2>2
<1>3. CASE QicGets(c, d, qicSignals)
  <2>1. /\ c.link.d2q # None /\ d.link.d2q = None /\ d.link.q2d = c.link.q2d
        /\ d.link.done = c.link.done
        /\ d.toDevice.reset = c.toDevice.reset /\ d.toDevice.notified = c.toDevice.notified
    BY <1>3 DEF QicGets
  <2>2. CASE c.link.d2q.tag = "NotificationRequest"
    <3>1. notify /\ c.link.d2q.body = 0 /\ c.link.held = None /\ c.link.done = None
          /\ ~c.toDevice.notified
      BY <2>1, <2>2 DEF NotifyClock, LinkNotifies
    <3>2. d.link.held = 0 /\ d.toQic.notification = 0
      BY <1>3, <2>2, <3>1 DEF QicGets
    <3>3. QED
      BY <2>1, <3>1, <3>2, ZeroIsValue DEF NotifyClock, LinkNotifies
  <2>3. CASE c.link.d2q.tag # "NotificationRequest"
    <3>1. d.link.held = c.link.held /\ d.toQic.notification = c.toQic.notification
      BY <1>3, <2>3 DEF QicGets
    <3>2. QED
      BY <2>1, <3>1 DEF NotifyClock, LinkNotifies
  <2>4. QED
    BY <2>2, <2>3
<1>4. QED
  BY <1>1, <1>2, <1>3 DEF Slotted

LEMMA NotifyCycle ==
  ASSUME NEW notify \in BOOLEAN, NEW l, LinkShape(l), LinkNotifies(l, notify), NEW qicSignals,
         NEW dev, dev.notification = IF notify THEN 0 ELSE None,
         NEW owing \in BOOLEAN, owing <=> Done(l, qicSignals) \/ l.done # None,
         NEW held \in BOOLEAN, held <=> l.held # None /\ ~Done(l, qicSignals),
         NEW d, d = L!Cycle(l, FALSE, qicSignals, dev)
  PROVE  NotifyClock(d, notify, owing, held) /\ QicSide(d.toQic)
<1>1. PICK b, c : /\ ClockShape(b) /\ Begun(l, b, qicSignals, dev)
                  /\ ClockShape(c) /\ Slotted(b, c, qicSignals, dev)
                  /\ ClockShape(d) /\ Slotted(c, d, qicSignals, dev)
  BY CycleIs
<1>2. PICK n : n = L!Notified(l, qicSignals)
  OBVIOUS
<1>3. /\ n.held = IF Done(l, qicSignals) THEN None ELSE l.held
      /\ n.done = IF Done(l, qicSignals) THEN l.held ELSE l.done
  BY <1>2, NotifiedIs
<1>4. PICK m : m = L!ToDeviceMessage(n, qicSignals)
  OBVIOUS
<1>5. PICK r : r = L!ToQicMessage(n, qicSignals, dev)
  OBVIOUS
<1>6. m # None /\ m.tag = "NotificationCompletion" => n.done # None /\ m.body = n.done
  BY <1>4 DEF L!ToDeviceMessage, L!Message
<1>7. r # None /\ r.tag = "NotificationRequest" =>
        n.held = None /\ n.done = None /\ dev.notification # None /\ r.body = dev.notification
  BY <1>5 DEF L!ToQicMessage, L!Message
<1>8. /\ b.link.held = n.held /\ b.link.done = n.done
      /\ b.link.q2d = IF l.q2d = None THEN m ELSE l.q2d
      /\ b.link.d2q = IF l.d2q = None THEN r ELSE l.d2q
      /\ b.toQic.notification = b.link.held
      /\ b.toDevice.reset = FALSE /\ b.toDevice.notified = FALSE
  BY <1>1, <1>2, <1>3, <1>4, <1>5 DEF Begun, L!NoQic
<1>9. NotifyClock(b, notify, owing, held)
  <2>1. CASE Done(l, qicSignals)
    <3>1. l.held # None /\ l.held = 0 /\ l.done = None /\ notify
      BY <2>1 DEF Done, LinkNotifies
    <3>2. b.link.held = None /\ b.link.done = 0 /\ b.link.done # None
      BY <1>3, <1>8, <2>1, <3>1
    <3>3. ~(b.link.d2q # None /\ b.link.d2q.tag = "NotificationRequest")
      BY <1>7, <1>8, <3>1, <3>2 DEF LinkNotifies
    <3>4. b.link.q2d # None /\ b.link.q2d.tag = "NotificationCompletion" => b.link.q2d.body = 0
      BY <1>6, <1>8, <3>1, <3>2 DEF LinkNotifies
    <3>5. LinkNotifies(b.link, notify)
      BY <3>1, <3>2, <3>3, <3>4 DEF LinkNotifies
    <3>6. QED
      BY <1>8, <2>1, <3>2, <3>5 DEF NotifyClock
  <2>2. CASE ~Done(l, qicSignals)
    <3>1. b.link.held = l.held /\ b.link.done = l.done
      BY <1>3, <1>8, <2>2
    <3>2. b.link.d2q # None /\ b.link.d2q.tag = "NotificationRequest" =>
            notify /\ b.link.d2q.body = 0 /\ b.link.held = None /\ b.link.done = None
      <4>1. CASE l.d2q = None
        BY <1>7, <1>8, <4>1
      <4>2. CASE l.d2q # None
        BY <1>8, <3>1, <4>2 DEF LinkNotifies
      <4>3. QED
        BY <4>1, <4>2
    <3>3. b.link.q2d # None /\ b.link.q2d.tag = "NotificationCompletion" =>
            b.link.done # None /\ b.link.q2d.body = 0
      BY <1>6, <1>8, <3>1 DEF LinkNotifies
    <3>4. LinkNotifies(b.link, notify)
      BY <3>1, <3>2, <3>3 DEF LinkNotifies
    <3>5. QED
      BY <1>8, <2>2, <3>1, <3>4 DEF NotifyClock
  <2>3. QED
    BY <2>1, <2>2
<1>10. NotifyClock(c, notify, owing, held)
  BY <1>1, <1>9, NotifySlot
<1>11. NotifyClock(d, notify, owing, held)
  BY <1>1, <1>10, NotifySlot
<1>12. QED
  BY <1>1, <1>11 DEF ClockShape

\* In the chip: it waits to be told, and nothing but a fault or the driver takes it out of that.
LEMMA ChipNotify ==
  ASSUME NEW d, ChipShape(d), d.state = "Notify", NEW qli, qli.reset = FALSE, qli.notified \in BOOLEAN,
         NEW signals, NEW e, e = Advance(d, qli, signals), ReadyState(e.state)
  PROVE  e.state = IF qli.notified THEN "ReadyIdle" ELSE "Notify"
<1>1. PICK p : p = [d EXCEPT !.resetPulse = FALSE]
  OBVIOUS
<1>2. ChipShape(p) /\ p.state = "Notify"
  BY <1>1 DEF ChipShape
<1>3. PICK m : m = AfterMmio(p, qli)
  OBVIOUS
<1>4. ChipShape(m) /\ m.state \in {"Notify", "Fault"}
  <2>1. ASSUME NEW r PROVE ChipShape([p EXCEPT !.response = r]) /\ [p EXCEPT !.response = r].state = "Notify"
    <3>1. PICK x : x = [p EXCEPT !.response = r]
      OBVIOUS
    <3>2. ChipShape(x) /\ x.state = "Notify"
      BY <1>2, <3>1 DEF ChipShape
    <3>3. QED
      BY <3>1, <3>2
  <2>2. ASSUME NEW r, NEW v, NEW x, x = [[p EXCEPT !.response = r] EXCEPT !.sqTail = v]
                                    \/ x = [[p EXCEPT !.response = r] EXCEPT !.cqHead = v]
        PROVE  ChipShape(x) /\ x.state = "Notify"
    <3>1. PICK y : y = [p EXCEPT !.response = r]
      OBVIOUS
    <3>2. ChipShape(y) /\ y.state = "Notify"
      BY <2>1, <3>1
    <3>3. x = [y EXCEPT !.sqTail = v] \/ x = [y EXCEPT !.cqHead = v]
      BY <2>2, <3>1
    <3>4. QED
      BY <3>2, <3>3 DEF ChipShape
  <2>3. ASSUME NEW x, x = RefuseMovement(p) PROVE ChipShape(x) /\ x.state = "Fault"
    BY <1>2, <2>3 DEF RefuseMovement, ChipShape
  <2>4. \A name, position :
          ChipShape(MoveQueue(p, name, position)) /\ MoveQueue(p, name, position).state \in {"Notify", "Fault"}
    <3>1. SUFFICES ASSUME NEW name, NEW position, NEW x, x = MoveQueue(p, name, position)
                   PROVE  ChipShape(x) /\ x.state \in {"Notify", "Fault"}
      OBVIOUS
    <3>2. \/ \E r : x = [p EXCEPT !.response = r]
          \/ x = [[p EXCEPT !.response = WriteOk] EXCEPT !.sqTail = position]
          \/ x = [[p EXCEPT !.response = WriteOk] EXCEPT !.cqHead = position]
          \/ x = RefuseMovement(p)
      BY <3>1 DEF MoveQueue, Accepted, Refuse
    <3>3. CASE \E r : x = [p EXCEPT !.response = r]
      BY <2>1, <3>3
    <3>4. CASE x = [[p EXCEPT !.response = WriteOk] EXCEPT !.sqTail = position]
      BY <2>2, <3>4
    <3>5. CASE x = [[p EXCEPT !.response = WriteOk] EXCEPT !.cqHead = position]
      BY <2>2, <3>5
    <3>6. QED
      BY <2>3, <3>2, <3>3, <3>4, <3>5
  <2>5. \A a : \/ \E r : AcceptMmio(p, a) = [p EXCEPT !.response = r]
               \/ AcceptMmio(p, a) = MoveQueue(p, a.register.name, a.register.value)
    BY <1>2 DEF AcceptMmio, WriteAccess, ReadyState
  <2>6. m = p \/ m = [p EXCEPT !.response = None] \/ m = AcceptMmio(p, qli.mmio)
    BY <1>3 DEF AfterMmio
  <2>7. CASE m = p
    BY <1>2, <2>7
  <2>8. CASE \E r : m = [p EXCEPT !.response = r]
    BY <2>1, <2>8
  <2>9. CASE m = AcceptMmio(p, qli.mmio)
    <3>1. \/ \E r : m = [p EXCEPT !.response = r]
          \/ m = MoveQueue(p, qli.mmio.register.name, qli.mmio.register.value)
      BY <2>5, <2>9
    <3>2. CASE m = MoveQueue(p, qli.mmio.register.name, qli.mmio.register.value)
      BY <2>4, <3>2
    <3>3. QED
      BY <2>8, <3>1, <3>2
  <2>10. QED
    BY <2>6, <2>7, <2>8, <2>9
<1>5. HardReset.state = "Disabled" /\ Accepted(HardReset).state = "Disabled"
  BY DEF HardReset, Accepted, NewQdx
<1>6. /\ ~SoftReset(d, qli)
      /\ IF m.state # d.state \/ ((d.response # None \/ AcceptsMmio(d, qli)) /\ ~LinkEvent(d, qli, signals))
         THEN e = m ELSE e = Progress(m, qli, signals)
  BY <1>1, <1>3, <1>5 DEF Advance, ReadyState
<1>7. m.state = "Notify"
  BY <1>4, <1>6 DEF ReadyState
<1>8. Progress(m, qli, signals) = IF qli.notified THEN [m EXCEPT !.state = "ReadyIdle"] ELSE m
  BY <1>7 DEF Progress
<1>9. [m EXCEPT !.state = "ReadyIdle"].state = "ReadyIdle"
  BY <1>4 DEF ChipShape
<1>10. qli.notified => LinkEvent(d, qli, signals)
  BY DEF LinkEvent
<1>11. QED
  BY <1>6, <1>7, <1>8, <1>9, <1>10

\* With the QIC: it takes one from the link, and lets it go when the host has acknowledged it.
LEMMA QicNotifyKept ==
  ASSUME NEW q, QicShape(q), Requests0(q), NEW bus, BusShape(bus), ~bus.reset, NEW op,
         Q!WorkerAddressCycle(bus) =>
           ~bus.grant /\ q.state.at \notin Q!WorkerStates /\ Q!StartWorker(bus) = Q!WorkerData(op, 0),
         NEW device, device.notification # None => device.notification = 0,
         NEW q2, q2 = Q!Clock(q, bus, device)
  PROVE  /\ Requests0(q2)
         /\ QicNotifies(q2) => QicNotifies(q) \/ device.notification # None
         /\ q.state.at = "NotificationData" /\ bus.grant /\ bus.ack => ~QicNotifies(q2)
<1>1. QicRecord(q) /\ q.grantUsed \in BOOLEAN /\ QicState(q.state)
  BY DEF QicShape, QicRecord
<1>2. CASE Q!WorkerAddressCycle(bus)
  <2>1. IF Q!AnswersAddress(q.state)
        THEN /\ q2.state = Q!WorkerData(op, 0)
             /\ q2.suspended = IF q.state.at = "RequestBus" THEN q.state.work ELSE None
        ELSE q2.state.at \in {"DmaComplete", "Idle"} /\ q2.suspended = None
    BY <1>2, QicAccessed
  <2>2. q2.state.at \notin {"RequestBus"} \cup Notifying
    BY <2>1, MadeStates DEF Notifying
  <2>3. q2.suspended # None => q2.suspended = q.state.work /\ q.state.at = "RequestBus"
    BY <2>1
  <2>4. QED
    BY <1>2, <2>2, <2>3 DEF QicNotifies, Requests0
<1>3. CASE ~Q!WorkerAddressCycle(bus) /\ q.state.at \notin Q!WorkerStates
  <2>1. PICK n : n = Moved(q, bus, device)
    OBVIOUS
  <2>2. /\ q2.suspended = None
        /\ IF ~bus.grant /\ Q!NeedsGrant(q.state) THEN q2.state = Q!LoseGrant(q.state) ELSE q2.state = n
    BY <1>3, <2>1, QicFree
  <2>3. MovesTo(q, bus, device, n)
    BY <1>1, <2>1, MovedIs
  <2>4. CASE ~bus.grant /\ Q!NeedsGrant(q.state)
    <3>1. q2.state.at \in {"DmaComplete", "Idle"}
      BY <1>1, <2>2, <2>4, LostIs
    <3>2. QED
      BY <2>2, <3>1, <2>4 DEF QicNotifies, Requests0, Notifying
  <2>5. CASE ~(~bus.grant /\ Q!NeedsGrant(q.state))
    <3>1. q2.state = n
      BY <2>2, <2>5
    <3>2. ASSUME n.at \notin {"RequestBus"} \cup Notifying
          PROVE  Requests0(q2) /\ ~QicNotifies(q2)
      BY <2>2, <3>1, <3>2 DEF QicNotifies, Requests0
    <3>3. CASE q.state.at = "Idle"
      <4>1. \/ n = Q!Idle
            \/ n = Q!RequestBus([kind |-> "Dma", request |-> device.dma])
            \/ device.notification # None
               /\ n = Q!RequestBus([kind |-> "Notification", request |-> device.notification])
        BY <1>3, <2>3, <3>3 DEF MovesTo
      <4>2. CASE n = Q!Idle
        BY <3>2, <3>3, <4>2, MadeStates DEF Notifying
      <4>3. CASE n = Q!RequestBus([kind |-> "Dma", request |-> device.dma])
        <5>1. n.at = "RequestBus" /\ n.work.kind = "Dma"
          BY <4>3, MadeStates
        <5>2. QED
          BY <2>2, <3>1, <3>3, <5>1 DEF QicNotifies, Requests0, Notifying
      <4>4. CASE device.notification # None
                 /\ n = Q!RequestBus([kind |-> "Notification", request |-> device.notification])
        <5>1. n.at = "RequestBus" /\ n.work.request = 0
          BY <4>4, MadeStates
        <5>2. QED
          BY <2>2, <3>1, <3>3, <4>4, <5>1 DEF QicNotifies, Requests0, Notifying
      <4>5. QED
        BY <4>1, <4>2, <4>3, <4>4
    <3>4. CASE q.state.at = "RequestBus"
      <4>1. n = IF ~bus.grant THEN q.state
                ELSE IF q.state.work.kind = "Dma" THEN Q!DmaAddress(q.state.work.request, 0)
                ELSE Q!NotificationAddress(q.state.work.request, 0)
        BY <2>3, <3>4 DEF MovesTo
      <4>2. CASE ~bus.grant
        BY <2>2, <3>1, <3>4, <4>1, <4>2 DEF QicNotifies, Requests0, Notifying
      <4>3. CASE bus.grant /\ q.state.work.kind = "Dma"
        BY <3>2, <3>4, <4>1, <4>3, MadeStates DEF Notifying
      <4>4. CASE bus.grant /\ q.state.work.kind # "Dma"
        <5>1. n.at = "NotificationAddress" /\ n.request = 0
          BY <3>4, <4>1, <4>4, MadeStates DEF Requests0
        <5>2. QED
          BY <2>2, <3>1, <3>4, <4>4, <5>1 DEF QicNotifies, Requests0, Notifying
      <4>5. QED
        BY <4>2, <4>3, <4>4
    <3>5. CASE q.state.at \in {"DmaAddress", "DmaData", "DmaComplete"}
      <4>1. n.at \in {"DmaAddress", "DmaData", "DmaComplete", "Idle"}
        BY <2>3, <3>5, MadeStates DEF MovesTo
      <4>2. QED
        BY <3>2, <3>5, <4>1 DEF Notifying
    <3>6. CASE q.state.at \in Notifying
      <4>1. n = Q!Idle \/ (n.at \in Notifying /\ n.request = q.state.request)
        BY <2>3, <3>6 DEF MovesTo, Notifying
      <4>2. q.state.at = "NotificationData" /\ bus.ack => n = Q!Idle
        BY <2>3 DEF MovesTo
      <4>3. CASE n = Q!Idle
        BY <3>2, <4>3, MadeStates DEF Notifying
      <4>4. CASE n # Q!Idle
        BY <2>2, <3>1, <3>6, <4>1, <4>2, <4>4 DEF QicNotifies, Requests0, Notifying
      <4>5. QED
        BY <4>3, <4>4
    <3>7. QED
      BY <1>1, <1>3, <3>3, <3>4, <3>5, <3>6 DEF QicState, Q!WorkerStates, Notifying
  <2>6. QED
    BY <2>4, <2>5
<1>4. CASE q.state.at \in Q!WorkerStates
  <2>1. PICK u : /\ u = q.suspended \/ u.kind = "Dma"
                 /\ Resumes(q, q2, u) \/ (q2.state.at \in Q!WorkerStates /\ q2.suspended = u)
    BY <1>4, QicWorking
  <2>2. u # None /\ u.kind # "Dma" => QicNotifies(q) /\ u.request = 0
    BY <2>1 DEF QicNotifies, Requests0
  <2>3. CASE q2.state.at \in Q!WorkerStates /\ q2.suspended = u
    BY <1>4, <2>2, <2>3 DEF QicNotifies, Requests0, Q!WorkerStates, Notifying
  <2>4. CASE Resumes(q, q2, u)
    <3>1. CASE q.tail # None
      <4>1. q2.state.at \in {"DmaComplete", "DmaData"} /\ q2.suspended = u
        BY <2>4, <3>1 DEF Resumes, QicShape, Q!LocalTail
      <4>2. QED
        BY <1>4, <2>2, <4>1 DEF QicNotifies, Requests0, Q!WorkerStates, Notifying
    <3>2. CASE q.tail = None /\ u # None
      <4>1. q2.state.at = "RequestBus" /\ q2.state.work = u /\ q2.suspended = None
        BY <2>4, <3>2, MadeStates DEF Resumes
      <4>2. QED
        BY <1>4, <2>2, <3>2, <4>1 DEF QicNotifies, Requests0, Q!WorkerStates, Notifying
    <3>3. CASE q.tail = None /\ u = None
      <4>1. q2.state.at = "Idle" /\ q2.suspended = None
        BY <2>4, <3>3, MadeStates DEF Resumes
      <4>2. QED
        BY <1>4, <4>1 DEF QicNotifies, Requests0, Q!WorkerStates, Notifying
    <3>4. QED
      BY <3>1, <3>2, <3>3
  <2>5. QED
    BY <2>1, <2>3, <2>4
<1>5. QED
  BY <1>2, <1>3, <1>4

\* With the host.
LEMMA PeerNotifiedKept ==
  ASSUME NEW q, Requests0(q), NEW p, PeerShape(p), PeerNotified(p.state),
         q.state.at \in QicGoesWith(p.state.at), NEW bus, NEW pins, pins.strobe = Q!Strobe(q.state, bus),
         NEW p2, PeerMoves(p, pins, p2)
  PROVE  PeerNotified(p2.state)
<1> DEFINE s == p.state
<1>1. s.at \in {"Idle", "Grant", "WorkerAddress", "WorkerData"} \cup PeerPhases
  BY DEF PeerShape
<1>2. ASSUME p2.state.at \notin Notifying PROVE PeerNotified(p2.state)
  BY <1>2 DEF PeerNotified, Notifying
<1>3. CASE s.at \in {"Idle", "WorkerAddress", "WorkerData"}
  <2>1. p2.state.at \in {"Idle", "Grant", "WorkerAddress", "WorkerData"}
    BY <1>3 DEF PeerMoves, P!Idle, P!Grant, P!WorkerData
  <2>2. QED
    BY <1>2, <2>1 DEF Notifying
<1>4. CASE s.at = "Grant"
  <2>1. CASE pins.strobe = None \/ pins.strobe.kind = "HostDma"
    <3>1. p2.state.at \in {"Idle", "Grant", "DmaAddress"}
      BY <1>4, <2>1 DEF PeerMoves, P!Idle, P!Grant
    <3>2. QED
      BY <1>2, <3>1 DEF Notifying
  <2>2. CASE pins.strobe # None /\ pins.strobe.kind # "HostDma"
    <3>1. q.state.at \in {"Idle", "RequestBus", "DmaAddress", "NotificationAddress", "DmaComplete"}
      BY <1>4 DEF QicGoesWith
    <3>2. q.state.at = "NotificationAddress" /\ pins.strobe.value = q.state.request
      BY <2>2, <3>1 DEF Q!Strobe
    <3>3. p2.state.at = "NotificationAddress" /\ p2.state.request = 0
      BY <1>4, <2>2, <3>2 DEF PeerMoves, Requests0, Notifying
    <3>4. QED
      BY <3>3 DEF PeerNotified
  <2>3. QED
    BY <2>1, <2>2
<1>5. CASE s.at \in PeerPhases
  <2>1. \/ p2.state = P!Idle
        \/ p2.state.at = s.at /\ p2.state.request = s.request /\ p2.state.fault = s.fault
        \/ p2.state.at = "DmaData"
        \/ /\ s.at = "NotificationAddress" /\ p2.state.at = "NotificationData"
           /\ p2.state.request = s.request /\ p2.state.fault = None
    BY <1>5 DEF PeerMoves
  <2>2. QED
    BY <2>1, NoneIsNoValue DEF PeerNotified, Notifying, P!Idle
<1>6. QED
  BY <1>1, <1>3, <1>4, <1>5
-----------------------------------------------------------------------------
(* One notification at a time, and each reaches the host once.              *)

Told == ~seen'.stopped =>
          /\ peer'.got # None => seen.owed
          /\ (qdx.state = "Notify" /\ qdx'.state = "ReadyIdle") => ~seen'.owed

LEMMA NotifyStep ==
  ASSUME NotifyInv, CardClock
  PROVE  NotifyInv' /\ Told
<1> DEFINE notify == qdx.state = "Notify"
           device == ToQic(Moves.toQic)
           done   == Done(link, Signals)
           s      == peer.state
<1>0. RoomInv /\ ShapeInv /\ SameTransaction /\ ChipShape(qdx) /\ QicShape(qic) /\ LinkShape(link)
      /\ PeerShape(peer) /\ SeenShape(seen)
  BY DEF NotifyInv, RoomInv, ShapeInv
<1>1. /\ BusShape(Bus) /\ ~Bus.reset
      /\ \E endpointSignals : qdx' = Advance(qdx, Moves.toDevice, endpointSignals)
      /\ link' = Moves.link
      /\ qic' = Q!Clock(qic, Bus, device)
      /\ PeerShape(peer') /\ PeerMoves(peer, Pins, peer')
      /\ seen' = Observe(Moves.toDevice.mmio)
  BY <1>0, CardClockIs
<1>2. RoomInv'
  BY <1>0, RoomClock
<1>3. Pins = Q!CardPins(qic, Bus, device)
  BY DEF Pins
<1>4. SameTransaction'
  BY <1>0, <1>1, <1>3, SameKept DEF SameTransaction, Bus
<1>5. SUFFICES ASSUME ~seen'.stopped
               PROVE  OneNotification' /\ (peer'.got # None => seen.owed)
                        /\ ((notify /\ qdx'.state = "ReadyIdle") => ~seen'.owed)
  BY <1>2, <1>4 DEF NotifyInv, Told
<1>6. /\ seen'.owed = IF qdx'.state = "Notify" /\ qdx.state # "Notify" THEN TRUE
                      ELSE seen.owed /\ peer'.got = None
      /\ seen'.stopped = (seen.stopped \/ (Working(qdx.state) /\ ~ReadyState(qdx'.state)))
  BY <1>1 DEF Observe
<1>7. ~seen.stopped /\ (Working(qdx.state) => ReadyState(qdx'.state))
  BY <1>5, <1>6
<1>8. /\ seen.owed = (notify /\ link.done = None)
      /\ LinkNotifies(link, notify)
      /\ QicNotifies(qic) => link.held # None
      /\ Requests0(qic) /\ PeerNotified(s)
  BY <1>7 DEF NotifyInv, OneNotification
<1>9. Device.notification = (IF notify THEN 0 ELSE None) /\ ToQic(Device).notification = Device.notification
  BY DEF Device, QicPort, ToQic
<1>10. PICK owing \in BOOLEAN : owing <=> done \/ link.done # None
  OBVIOUS
<1>11. PICK held \in BOOLEAN : held <=> link.held # None /\ ~done
  OBVIOUS
<1>12. NotifyClock(Moves, notify, owing, held) /\ QicSide(Moves.toQic)
  <2>1. notify \in BOOLEAN
    OBVIOUS
  <2>2. QED
    BY <1>0, <1>8, <1>9, <1>10, <1>11, <2>1, NotifyCycle DEF Moves
<1>13. device.notification = link'.held
  <2>1. device.notification = Moves.toQic.notification
    BY <1>12 DEF ToQic, QicSide
  <2>2. QED
    BY <1>1, <1>12, <2>1 DEF NotifyClock
<1>14. /\ LinkNotifies(link', notify) /\ Moves.toDevice.reset = FALSE
       /\ Moves.toDevice.notified \in BOOLEAN
       /\ Moves.toDevice.notified =>
            /\ notify /\ link'.held = None /\ link'.done = None
            /\ ~(link'.d2q # None /\ link'.d2q.tag = "NotificationRequest")
       /\ owing <=> link'.done # None \/ Moves.toDevice.notified
       /\ held => link'.held # None
  BY <1>1, <1>12 DEF NotifyClock
<1>15. notify => qdx'.state = IF Moves.toDevice.notified THEN "ReadyIdle" ELSE "Notify"
  BY <1>0, <1>1, <1>7, <1>14, ChipNotify DEF Working, ReadyState
<1>16. /\ Bus.grant = (s.at \notin {"Idle", "WorkerAddress", "WorkerData"})
       /\ Q!WorkerAddressCycle(Bus) =>
            /\ s.at = "WorkerAddress"
            /\ Q!StartWorker(Bus) = Q!WorkerData([register |-> s.op.register, write |-> s.op.write], 0)
       /\ Bus.ack = (s.at \in PeerPhases /\ s.wait = 0 /\ s.fault # "Err")
  BY <1>0, BusIs DEF Bus
<1>17. /\ Requests0(qic')
       /\ QicNotifies(qic') => QicNotifies(qic) \/ device.notification # None
       /\ qic.state.at = "NotificationData" /\ Bus.grant /\ Bus.ack => ~QicNotifies(qic')
  <2>1. device.notification # None => device.notification = 0
    BY <1>13, <1>14 DEF LinkNotifies
  <2>2. Q!WorkerAddressCycle(Bus) => ~Bus.grant /\ qic.state.at \notin Q!WorkerStates
    BY <1>0, <1>16 DEF SameTransaction, QicGoesWith, Q!WorkerStates
  <2>3. PICK op : op = [register |-> s.op.register, write |-> s.op.write]
    OBVIOUS
  <2>4. Q!WorkerAddressCycle(Bus) => Q!StartWorker(Bus) = Q!WorkerData(op, 0)
    BY <1>16, <2>3
  <2> HIDE DEF device
  <2>5. QED
    BY <1>0, <1>1, <1>8, <2>1, <2>2, <2>4, QicNotifyKept
<1>18. done <=> /\ link.held # None /\ qic.state.at = "NotificationData" /\ Bus.grant
                /\ ~Q!TimedOut(qic.state.wait) /\ Bus.ack
                /\ Device.notification = qic.state.request
  BY <1>9 DEF Done, Signals, Q!ToDevice, Q!Notified
<1>19. peer'.got = IF /\ s.at = "NotificationData" /\ Pins.request
                      /\ Pins.strobe # None /\ s.wait = 0
                   THEN s.request ELSE None
  BY <1>1 DEF PeerMoves
<1>20. Pins.request = Q!RequestsBus(qic) /\ Pins.strobe = Q!Strobe(qic.state, Bus)
  BY <1>3 DEF Q!CardPins
<1> HIDE DEF device, done
<1>21. done => peer'.got # None
  <2>1. SUFFICES ASSUME done PROVE peer'.got # None
    OBVIOUS
  <2>2. qic.state.at = "NotificationData" /\ s.at \in PeerPhases /\ s.wait = 0
    BY <1>16, <1>18, <2>1
  <2>3. s.at = "NotificationData"
    BY <1>0, <2>2 DEF SameTransaction, QicGoesWith, PeerPhases
  <2>4. Pins.request /\ Pins.strobe = [kind |-> "Data", value |-> None]
    BY <1>18, <1>20, <2>1, <2>2 DEF Q!RequestsBus, Q!Strobe
  <2>5. peer'.got = 0
    BY <1>8, <1>19, <2>2, <2>3, <2>4, NoneIsNoValue DEF PeerNotified, Notifying
  <2>6. QED
    BY <2>5, ZeroIsValue
<1>22. peer'.got # None => done /\ notify /\ link.done = None
  <2>1. SUFFICES ASSUME peer'.got # None PROVE done /\ notify /\ link.done = None
    OBVIOUS
  <2>2. s.at = "NotificationData" /\ Pins.strobe # None /\ s.wait = 0 /\ s.fault # "Err"
    BY <1>8, <1>19, <2>1 DEF PeerNotified
  <2>3. qic.state.at \in {"NotificationData", "Idle"}
    BY <1>0, <2>2 DEF SameTransaction, QicGoesWith
  <2>4. qic.state.at = "NotificationData" /\ ~Q!TimedOut(qic.state.wait)
    BY <1>20, <2>2, <2>3 DEF Q!Strobe
  <2>5. Bus.grant /\ Bus.ack
    BY <1>16, <2>2 DEF PeerPhases
  <2>6. link.held # None /\ qic.state.request = 0
    BY <1>8, <2>4 DEF QicNotifies, Requests0, Notifying
  <2>7. notify /\ link.done = None
    BY <1>8, <2>6 DEF LinkNotifies
  <2>8. QED
    BY <1>9, <1>18, <2>4, <2>5, <2>6, <2>7
<1>23. LinkNotifies(link', qdx'.state = "Notify")
  <2>1. CASE notify /\ ~Moves.toDevice.notified
    BY <1>14, <1>15, <2>1
  <2>2. CASE notify /\ Moves.toDevice.notified
    BY <1>14, <2>2 DEF LinkNotifies
  <2>3. CASE ~notify
    BY <1>14, <2>3 DEF LinkNotifies
  <2>4. QED
    BY <2>1, <2>2, <2>3
<1>24. seen'.owed = (qdx'.state = "Notify" /\ link'.done = None)
  <2>1. CASE ~notify
    <3>1. seen.owed = FALSE /\ link'.done = None
      BY <1>8, <1>14, <2>1 DEF LinkNotifies
    <3>2. QED
      BY <1>6, <2>1, <3>1
  <2>2. CASE notify /\ done
    <3>1. seen'.owed = FALSE /\ owing
      BY <1>6, <1>10, <1>21, <2>2
    <3>2. link'.done # None \/ Moves.toDevice.notified
      BY <1>14, <3>1
    <3>3. QED
      BY <1>15, <2>2, <3>1, <3>2
  <2>3. CASE notify /\ ~done
    <3>1. seen'.owed = (link.done = None)
      BY <1>6, <1>8, <1>22, <2>3
    <3>2. CASE link.done = None
      <4>1. link'.done = None /\ ~Moves.toDevice.notified
        BY <1>10, <1>14, <2>3, <3>2
      <4>2. QED
        BY <1>15, <2>3, <3>1, <3>2, <4>1
    <3>3. CASE link.done # None
      <4>1. link'.done # None \/ Moves.toDevice.notified
        BY <1>10, <1>14, <3>3
      <4>2. QED
        BY <1>15, <2>3, <3>1, <3>3, <4>1
    <3>4. QED
      BY <3>2, <3>3
  <2>4. QED
    BY <2>1, <2>2, <2>3
<1>25. QicNotifies(qic') => link'.held # None
  <2>1. SUFFICES ASSUME QicNotifies(qic'), device.notification = None PROVE FALSE
    BY <1>13
  <2>2. QicNotifies(qic)
    BY <1>17, <2>1
  <2>3. ~done
    BY <1>17, <1>18, <2>1
  <2>4. held
    BY <1>8, <1>11, <2>2, <2>3
  <2>5. QED
    BY <1>13, <1>14, <2>1, <2>4
<1>26. PeerNotified(peer'.state)
  BY <1>0, <1>1, <1>8, <1>20, PeerNotifiedKept DEF SameTransaction
<1>27. OneNotification'
  BY <1>17, <1>23, <1>24, <1>25, <1>26 DEF OneNotification
<1>28. peer'.got # None => seen.owed
  BY <1>8, <1>22
<1>29. (notify /\ qdx'.state = "ReadyIdle") => ~seen'.owed
  BY <1>24
<1>30. QED
  BY <1>27, <1>28, <1>29

LEMMA NewNotify ==
  ASSUME NEW l, l = L!NewLink, NEW q, q = Q!NewQic, NEW p, p = P!NewPeer
  PROVE  /\ q.state.at \in QicGoesWith(p.state.at)
         /\ l.done = None /\ LinkNotifies(l, FALSE) /\ ~QicNotifies(q) /\ Requests0(q)
         /\ PeerNotified(p.state) /\ p.got = None
<1>1. q.state.at = "Idle" /\ q.suspended = None /\ p.state.at = "Idle" /\ p.got = None
  BY DEF Q!NewQic, Q!Idle, P!NewPeer, P!Idle
<1>2. l.done = None /\ l.held = None /\ l.d2q = None /\ l.q2d = None
  BY DEF L!NewLink
<1>3. QED
  BY <1>1, <1>2 DEF QicGoesWith, LinkNotifies, QicNotifies, Requests0, PeerNotified, Notifying

LEMMA NotifyInit == Init => SameTransaction /\ OneNotification
<1>1. SUFFICES ASSUME Init PROVE SameTransaction /\ OneNotification
  OBVIOUS
<1>2. qdx.state = "Disabled" /\ seen.owed = FALSE
  BY <1>1 DEF Init, NewQdx, NewSeen
<1>3. link = L!NewLink /\ qic = Q!NewQic /\ peer = P!NewPeer
  BY <1>1 DEF Init
<1>4. LinkNotifies(link, FALSE) => LinkNotifies(link, qdx.state = "Notify")
  BY <1>2
<1>5. QED
  BY <1>2, <1>3, <1>4, NewNotify DEF SameTransaction, OneNotification

LEMMA NotifyNext ==
  ASSUME NotifyInv, [Next]_cardVars, RoomInv'
  PROVE  NotifyInv' /\ (Told \/ UNCHANGED cardVars)
<1>1. CASE CardClock
  BY <1>1, NotifyStep
<1>2. CASE BusReset
  <2>1. /\ qdx' = HardReset /\ link' = L!NewLink /\ qic' = Q!NewQic /\ peer' = P!NewPeer
        /\ seen' = NewSeen
    BY <1>2, BusResetIs
  <2>2. qdx'.state = "Disabled" /\ seen'.owed = FALSE /\ HardReset.state = "Disabled"
    BY <2>1 DEF HardReset, NewQdx, NewSeen
  <2>3. LinkNotifies(link', FALSE) => LinkNotifies(link', qdx'.state = "Notify")
    BY <2>2
  <2>4. (SameTransaction /\ OneNotification)' /\ peer'.got = None
    BY <2>1, <2>2, <2>3, NewNotify DEF SameTransaction, OneNotification
  <2>5. QED
    BY <2>2, <2>4 DEF NotifyInv, Told
<1>3. CASE DriverAccess
  <2>1. /\ peer.state = P!Idle /\ UNCHANGED <<qic, link, qdx>>
        /\ \E access \in Accesses : peer'.state = P!WorkerAddress(access)
        /\ peer'.got = None /\ seen'.stopped = seen.stopped /\ seen'.owed = seen.owed
    BY <1>3, DriverAccessIs DEF NotifyInv, RoomInv
  <2>2. peer.state.at = "Idle" /\ peer'.state.at = "WorkerAddress"
    BY <2>1 DEF P!Idle, P!WorkerAddress
  <2>3. SameTransaction'
    BY <2>1, <2>2 DEF NotifyInv, SameTransaction, QicGoesWith
  <2>4. OneNotification => OneNotification'
    BY <2>1, <2>2 DEF OneNotification, PeerNotified, Notifying
  <2>5. (qdx.state = "Notify" /\ qdx'.state = "ReadyIdle") => FALSE
    BY <2>1
  <2>6. QED
    BY <2>1, <2>3, <2>4, <2>5 DEF NotifyInv, Told
<1>4. CASE UNCHANGED cardVars
  <2>1. UNCHANGED <<qic, link, qdx, peer, seen>>
    BY <1>4 DEF cardVars
  <2>2. (SameTransaction /\ (~seen.stopped => OneNotification))'
    BY <2>1 DEF NotifyInv, SameTransaction, OneNotification
  <2>3. QED
    BY <1>4, <2>2 DEF NotifyInv
<1>5. QED
  BY <1>1, <1>2, <1>3, <1>4 DEF Next

(* NotifyInv is inductive: host and card are in the same transaction, and the chip's
   notification is in one place and owed until it has been acknowledged. *)
THEOREM NotifyInvariant == Spec => []NotifyInv
<1>1. RoomInv /\ Init => NotifyInv
  BY NotifyInit DEF NotifyInv
<1>2. NotifyInv /\ [Next]_cardVars /\ RoomInv' => NotifyInv'
  BY NotifyNext
<1>3. QED
  BY <1>1, <1>2, RoomInvariant, PTL DEF Spec

(* A notification reaches the host only when one is owed, once for it, and the chip goes on
   only when it has: for any sizes, any timing and faults of the host, any driver and resets
   at any time. *)
THEOREM NotifiedProved == Spec => NotifiedOnce
<1>1. NotifyInv /\ [Next]_cardVars /\ RoomInv' =>
        [~seen'.stopped =>
           /\ peer'.got # None => seen.owed
           /\ (qdx.state = "Notify" /\ qdx'.state = "ReadyIdle") => ~seen'.owed]_cardVars
  BY NotifyNext DEF Told
<1>2. QED
  BY <1>1, NotifyInvariant, RoomInvariant, PTL DEF Spec, NotifiedOnce

-----------------------------------------------------------------------------
(* One clock of the link, by what it carries: "a" is the message to the device that is on the
   link once messages have been begun, "b" the one to the QIC.                                *)

Carried(c, a, b, qicSignals, dev) ==
  LET l == c.link
      t == c.toDevice
      v == c.toQic IN
  /\ Same(l.q2d, a) /\ Same(l.d2q, b)
  /\ t.reset = FALSE
  /\ t.cancel => OnLink(a, "MmioCancel")
  /\ t.mmio # None => OnLink(a, "MmioRequest") /\ dev.mmioReady /\ l.q2d = None
  /\ t.read # None \/ v.readReady =>
       /\ OnLink(a, "DmaRead") /\ dev.readReady /\ l.q2d = None
       /\ t.read = a.body /\ v.readReady
  /\ t.completion # None \/ v.completionReady =>
       /\ OnLink(a, "DmaCompletion") /\ dev.completionReady /\ l.q2d = None
       /\ t.completion = a.body /\ v.completionReady
  /\ t.responseReady => OnLink(b, "MmioResponse")
  /\ t.dmaReady \/ v.dma # None =>
       /\ OnLink(b, "DmaRequest") /\ qicSignals.dmaReady /\ l.d2q = None
       /\ v.dma = b.body /\ t.dmaReady
  /\ t.writeReady \/ v.write # None =>
       /\ OnLink(b, "DmaWrite") /\ qicSignals.writeReady /\ l.d2q = None
       /\ v.write = b.body /\ t.writeReady

LEMMA CarriedSlot ==
  ASSUME NEW a, NEW b, NEW qicSignals, NEW dev, NEW c, Carried(c, a, b, qicSignals, dev),
         NEW d, Slotted(c, d, qicSignals, dev)
  PROVE  Carried(d, a, b, qicSignals, dev)
<1>1. CASE Quiet(c, d)
  <2>1. Same(d.link.q2d, a) /\ Same(d.link.d2q, b)
    BY <1>1 DEF Carried, Quiet, Same
  <2>2. /\ d.toQic = c.toQic /\ d.toDevice = c.toDevice
        /\ c.link.q2d = None => d.link.q2d = None
        /\ c.link.d2q = None => d.link.d2q = None
    BY <1>1 DEF Quiet, Same
  <2>3. QED
    BY <2>1, <2>2 DEF Carried
<1>2. CASE DeviceGets(c, d, dev)
  <2>1. /\ c.link.q2d # None /\ OnLink(a, c.link.q2d.tag) /\ a.body = c.link.q2d.body
        /\ d.link.q2d = None /\ d.link.d2q = c.link.d2q
    BY <1>2 DEF Carried, DeviceGets, Same, OnLink
  <2>2. /\ L!DeviceTakes(c.link.q2d.tag, dev)
        /\ c.link.q2d.tag = "MmioRequest" => dev.mmioReady
        /\ c.link.q2d.tag = "DmaRead" => dev.readReady
        /\ c.link.q2d.tag = "DmaCompletion" => dev.completionReady
    BY <1>2 DEF DeviceGets, L!DeviceTakes
  <2>3. /\ ~(c.toDevice.read # None \/ c.toQic.readReady) /\ c.toDevice.mmio = None
        /\ ~(c.toDevice.completion # None \/ c.toQic.completionReady)
    BY <2>1 DEF Carried
  <2>4. Same(d.link.q2d, a) /\ Same(d.link.d2q, b)
    BY <2>1 DEF Carried, Same
  <2>5. /\ d.toDevice.reset = FALSE
        /\ d.toDevice.cancel => OnLink(a, "MmioCancel")
        /\ d.toDevice.mmio # None => OnLink(a, "MmioRequest") /\ dev.mmioReady /\ d.link.q2d = None
    BY <1>2, <2>1, <2>2, <2>3 DEF Carried, DeviceGets, OnLink
  <2>6. d.toDevice.read # None \/ d.toQic.readReady =>
          /\ OnLink(a, "DmaRead") /\ dev.readReady /\ d.link.q2d = None
          /\ d.toDevice.read = a.body /\ d.toQic.readReady
    BY <1>2, <2>1, <2>2, <2>3 DEF DeviceGets, OnLink
  <2>7. d.toDevice.completion # None \/ d.toQic.completionReady =>
          /\ OnLink(a, "DmaCompletion") /\ dev.completionReady /\ d.link.q2d = None
          /\ d.toDevice.completion = a.body /\ d.toQic.completionReady
    BY <1>2, <2>1, <2>2, <2>3 DEF DeviceGets, OnLink
  <2>8. /\ d.toDevice.responseReady = c.toDevice.responseReady
        /\ d.toDevice.dmaReady = c.toDevice.dmaReady /\ d.toQic.dma = c.toQic.dma
        /\ d.toDevice.writeReady = c.toDevice.writeReady /\ d.toQic.write = c.toQic.write
    BY <1>2 DEF DeviceGets
  <2>9. /\ d.toDevice.responseReady => OnLink(b, "MmioResponse")
        /\ d.toDevice.dmaReady \/ d.toQic.dma # None =>
             /\ OnLink(b, "DmaRequest") /\ qicSignals.dmaReady /\ d.link.d2q = None
             /\ d.toQic.dma = b.body /\ d.toDevice.dmaReady
        /\ d.toDevice.writeReady \/ d.toQic.write # None =>
             /\ OnLink(b, "DmaWrite") /\ qicSignals.writeReady /\ d.link.d2q = None
             /\ d.toQic.write = b.body /\ d.toDevice.writeReady
    BY <2>1, <2>8 DEF Carried
  <2>10. QED
    BY <2>4, <2>5, <2>6, <2>7, <2>9 DEF Carried
<1>3. CASE QicGets(c, d, qicSignals)
  <2>1. /\ c.link.d2q # None /\ OnLink(b, c.link.d2q.tag) /\ b.body = c.link.d2q.body
        /\ d.link.d2q = None /\ d.link.q2d = c.link.q2d
    BY <1>3 DEF Carried, QicGets, Same, OnLink
  <2>2. /\ c.link.d2q.tag = "DmaRequest" => qicSignals.dmaReady
        /\ c.link.d2q.tag = "DmaWrite" => qicSignals.writeReady
    BY <1>3 DEF QicGets, L!QicTakes
  <2>3. /\ ~(c.toDevice.dmaReady \/ c.toQic.dma # None)
        /\ ~(c.toDevice.writeReady \/ c.toQic.write # None)
    BY <2>1 DEF Carried
  <2>4. Same(d.link.q2d, a) /\ Same(d.link.d2q, b)
    BY <2>1 DEF Carried, Same
  <2>5. d.toDevice.dmaReady \/ d.toQic.dma # None =>
          /\ OnLink(b, "DmaRequest") /\ qicSignals.dmaReady /\ d.link.d2q = None
          /\ d.toQic.dma = b.body /\ d.toDevice.dmaReady
    BY <1>3, <2>1, <2>2, <2>3 DEF QicGets, OnLink
  <2>6. d.toDevice.writeReady \/ d.toQic.write # None =>
          /\ OnLink(b, "DmaWrite") /\ qicSignals.writeReady /\ d.link.d2q = None
          /\ d.toQic.write = b.body /\ d.toDevice.writeReady
    BY <1>3, <2>1, <2>2, <2>3 DEF QicGets, OnLink
  <2>7. d.toDevice.responseReady => OnLink(b, "MmioResponse")
    BY <1>3, <2>1 DEF Carried, QicGets, OnLink
  <2>8. /\ d.toDevice.reset = c.toDevice.reset /\ d.toDevice.cancel = c.toDevice.cancel
        /\ d.toDevice.mmio = c.toDevice.mmio /\ d.toDevice.read = c.toDevice.read
        /\ d.toDevice.completion = c.toDevice.completion
        /\ d.toQic.readReady = c.toQic.readReady
        /\ d.toQic.completionReady = c.toQic.completionReady
    BY <1>3 DEF QicGets
  <2>9. QED
    BY <2>1, <2>4, <2>5, <2>6, <2>7, <2>8 DEF Carried
<1>4. QED
  BY <1>1, <1>2, <1>3 DEF Slotted

\* What is on the link once messages have been begun: what was there, or what a side asks for.
Pending(l, qicSignals) ==
  IF l.q2d = None THEN L!ToDeviceMessage(L!Notified(l, qicSignals), qicSignals) ELSE l.q2d

ToDeviceIs(a, l, qicSignals) ==
  /\ a = Pending(l, qicSignals)
  /\ IF l.q2d # None THEN a = l.q2d
     ELSE a # None =>
            /\ a.tag \in ToDeviceTags
            /\ a.tag = "MmioCancel" => qicSignals.cancel
            /\ a.tag = "MmioRequest" => qicSignals.mmio # None /\ a.body = qicSignals.mmio
            /\ a.tag = "DmaRead" => qicSignals.read # None /\ a.body = qicSignals.read
            /\ a.tag = "DmaCompletion" => qicSignals.completion # None /\ a.body = qicSignals.completion
            /\ a.tag = "NotificationCompletion" => Done(l, qicSignals) \/ l.done # None

ToQicIs(b, l, qicSignals, dev) ==
  IF l.d2q # None THEN b = l.d2q
  ELSE b # None =>
         /\ b.tag \in ToQicTags
         /\ b.tag = "MmioResponse" => dev.response # None
         /\ b.tag = "DmaRequest" => dev.dma # None /\ b.body = dev.dma /\ qicSignals.dmaReady
         /\ b.tag = "DmaWrite" => dev.write # None /\ b.body = dev.write /\ qicSignals.writeReady

LEMMA CarriedCycle ==
  ASSUME NEW l, LinkShape(l), NEW qicSignals, NEW dev, NEW d, d = L!Cycle(l, FALSE, qicSignals, dev)
  PROVE  /\ d.link.last \in {None, "QicToDevice", "DeviceToQic"}
         /\ \E a, b : /\ Carried(d, a, b, qicSignals, dev)
                      /\ ToDeviceIs(a, l, qicSignals) /\ ToQicIs(b, l, qicSignals, dev)
<1>1. PICK e, c : /\ ClockShape(e) /\ Begun(l, e, qicSignals, dev)
                  /\ ClockShape(c) /\ Slotted(e, c, qicSignals, dev)
                  /\ ClockShape(d) /\ Slotted(c, d, qicSignals, dev)
  BY CycleIs
<1>2. PICK a, b : a = e.link.q2d /\ b = e.link.d2q
  OBVIOUS
<1>3. Same(e.link.q2d, a) /\ Same(e.link.d2q, b)
  BY <1>2 DEF Same
<1>4. Carried(e, a, b, qicSignals, dev)
  <2>1. /\ e.toQic.readReady = FALSE /\ e.toQic.completionReady = FALSE
        /\ e.toQic.dma = None /\ e.toQic.write = None /\ e.toDevice = L!NoQic
    BY <1>1 DEF Begun
  <2>2. /\ e.toDevice.reset = FALSE /\ e.toDevice.cancel = FALSE /\ e.toDevice.mmio = None
        /\ e.toDevice.read = None /\ e.toDevice.completion = None
        /\ e.toDevice.responseReady = FALSE /\ e.toDevice.dmaReady = FALSE
        /\ e.toDevice.writeReady = FALSE
    BY <2>1 DEF L!NoQic
  <2>3. QED
    BY <1>3, <2>1, <2>2 DEF Carried
<1>5. Carried(d, a, b, qicSignals, dev)
  <2>1. Carried(c, a, b, qicSignals, dev)
    BY <1>1, <1>4, CarriedSlot
  <2>2. QED
    BY <1>1, <2>1, CarriedSlot
<1>6. PICK n : n = L!Notified(l, qicSignals)
  OBVIOUS
<1>7. ToDeviceIs(a, l, qicSignals)
  <2>0. a = Pending(l, qicSignals)
    BY <1>1, <1>2 DEF Begun, Pending
  <2>1. CASE l.q2d = None
    <3>1. a = L!ToDeviceMessage(n, qicSignals)
      BY <1>1, <1>2, <1>6, <2>1 DEF Begun
    <3>0. n.done # None => Done(l, qicSignals) \/ l.done # None
      BY <1>6, NotifiedIs
    <3>2. a # None =>
         /\ a.tag \in ToDeviceTags
         /\ a.tag = "MmioCancel" => qicSignals.cancel
         /\ a.tag = "MmioRequest" => qicSignals.mmio # None /\ a.body = qicSignals.mmio
         /\ a.tag = "DmaRead" => qicSignals.read # None /\ a.body = qicSignals.read
         /\ a.tag = "DmaCompletion" => qicSignals.completion # None /\ a.body = qicSignals.completion
         /\ a.tag = "NotificationCompletion" => Done(l, qicSignals) \/ l.done # None
      BY <3>0, <3>1 DEF L!ToDeviceMessage, L!Message, ToDeviceTags
    <3>3. QED
      BY <2>0, <2>1, <3>2 DEF ToDeviceIs
  <2>2. CASE l.q2d # None
    BY <1>1, <1>2, <2>0, <2>2 DEF Begun, ToDeviceIs
  <2>3. QED
    BY <2>1, <2>2
<1>8. ToQicIs(b, l, qicSignals, dev)
  <2>1. CASE l.d2q = None
    <3>1. b = L!ToQicMessage(n, qicSignals, dev)
      BY <1>1, <1>2, <1>6, <2>1 DEF Begun
    <3>2. b # None =>
         /\ b.tag \in ToQicTags
         /\ b.tag = "MmioResponse" => dev.response # None
         /\ b.tag = "DmaRequest" => dev.dma # None /\ b.body = dev.dma /\ qicSignals.dmaReady
         /\ b.tag = "DmaWrite" => dev.write # None /\ b.body = dev.write /\ qicSignals.writeReady
      BY <3>1 DEF L!ToQicMessage, L!Message, ToQicTags
    <3>3. QED
      BY <2>1, <3>2 DEF ToQicIs
  <2>2. CASE l.d2q # None
    BY <1>1, <1>2, <2>2 DEF Begun, ToQicIs
  <2>3. QED
    BY <2>1, <2>2
<1>9. d.link.last \in {None, "QicToDevice", "DeviceToQic"}
  BY <1>1 DEF Slotted, Turns
<1>10. QED
  BY <1>5, <1>7, <1>8, <1>9

-----------------------------------------------------------------------------
(* One clock of the chip, by what it does to a command and its completion.                    *)

SameBases(d, e) == e.sqBase = d.sqBase /\ e.cqBase = d.cqBase

\* The queue engine has not moved.
Untouched(d, e) ==
  /\ ChipShape(e)
  /\ e.sqHead = d.sqHead /\ e.cqTail = d.cqTail /\ e.command = d.command
  /\ e.completion = d.completion /\ e.sqWord = d.sqWord /\ e.cqWord = d.cqWord

Rests(d, e) == Untouched(d, e) /\ e.resetPulse = FALSE

EngineTo(d, error, state) == [d EXCEPT !.error = error, !.state = state]

Based(d) == {d.sqBase, d.cqBase} \subseteq Handles

\* The register side of a clock.
RegisterSide(d, qli, m) ==
  /\ Rests(d, m)
  /\ d.state # "Disabled" => SameBases(d, m) /\ m.state \in {d.state, "Fault"}
  /\ d.state = "Disabled" => m.state \in {"Disabled", "ReadyIdle", "Fault"}
  /\ d.state = "Fault" => m.state = "Fault"
  /\ m.state # d.state => qli.mmio # None /\ d.response = None /\ m.response \in {WriteOk, Refused}
  /\ qli.mmio = None =>
       m.response = IF d.response # None /\ (qli.responseReady \/ qli.cancel) THEN None
                    ELSE d.response
  /\ Based(d) /\ (qli.mmio # None => Legal(qli.mmio)) => Based(m)

LEMMA Accessed ==
  ASSUME NEW d, ChipShape(d), NEW qli, NEW p, p = [d EXCEPT !.resetPulse = FALSE],
         NEW m, m = AfterMmio(p, qli)
  PROVE  RegisterSide(d, qli, m)
<1>1. Rests(d, p) /\ SameBases(d, p) /\ p.state = d.state /\ p.response = d.response
  BY DEF ChipShape, Untouched, Rests, SameBases
<1>2. ASSUME NEW r, NEW x, x = [p EXCEPT !.response = r]
      PROVE  Rests(d, x) /\ SameBases(d, x) /\ x.state = d.state /\ x.response = r
  <2>1. ChipShape(p)
    BY <1>1 DEF Untouched, Rests
  <2>2. /\ ChipShape(x) /\ x.resetPulse = p.resetPulse /\ x.state = p.state /\ x.response = r
        /\ x.sqHead = p.sqHead /\ x.cqTail = p.cqTail /\ x.command = p.command
        /\ x.completion = p.completion /\ x.sqWord = p.sqWord /\ x.cqWord = p.cqWord
        /\ x.sqBase = p.sqBase /\ x.cqBase = p.cqBase
    BY <1>2, <2>1 DEF ChipShape
  <2>3. QED
    BY <1>1, <2>2 DEF Untouched, Rests, SameBases
<1>3. ASSUME NEW y, Rests(d, y), y.state = d.state, NEW v, NEW x,
             x \in {[y EXCEPT !.sqTail = v], [y EXCEPT !.cqHead = v], [y EXCEPT !.sqSize = v],
                    [y EXCEPT !.cqSize = v]}
      PROVE  Rests(d, x) /\ SameBases(y, x) /\ x.state = d.state /\ x.response = y.response
  <2>1. ChipShape(y)
    BY <1>3 DEF Untouched, Rests
  <2>2. /\ ChipShape(x) /\ x.resetPulse = y.resetPulse /\ x.state = y.state
        /\ x.response = y.response
        /\ x.sqHead = y.sqHead /\ x.cqTail = y.cqTail /\ x.command = y.command
        /\ x.completion = y.completion /\ x.sqWord = y.sqWord /\ x.cqWord = y.cqWord
        /\ x.sqBase = y.sqBase /\ x.cqBase = y.cqBase
    BY <1>3, <2>1 DEF ChipShape
  <2>3. QED
    BY <1>3, <2>2 DEF Untouched, Rests, SameBases
<1>4. ASSUME NEW y, Rests(d, y), y.state = d.state, NEW v, NEW x,
             x \in {[y EXCEPT !.sqBase = v], [y EXCEPT !.cqBase = v]}
      PROVE  /\ Rests(d, x) /\ x.state = d.state /\ x.response = y.response
             /\ Based(y) /\ v \in Handles => Based(x)
  <2>1. ChipShape(y)
    BY <1>4 DEF Untouched, Rests
  <2>2. /\ ChipShape(x) /\ x.resetPulse = y.resetPulse /\ x.state = y.state
        /\ x.response = y.response
        /\ x.sqHead = y.sqHead /\ x.cqTail = y.cqTail /\ x.command = y.command
        /\ x.completion = y.completion /\ x.sqWord = y.sqWord /\ x.cqWord = y.cqWord
        /\ {x.sqBase, x.cqBase} \subseteq {y.sqBase, y.cqBase, v}
    BY <1>4, <2>1 DEF ChipShape
  <2>3. QED
    BY <1>4, <2>2 DEF Untouched, Rests, Based
<1>5. ASSUME NEW y, Rests(d, y), SameBases(d, y), NEW error, NEW state, NEW x,
             x = EngineTo(y, error, state)
      PROVE  Rests(d, x) /\ SameBases(d, x) /\ x.state = state /\ x.response = y.response
  <2>1. ChipShape(y)
    BY <1>5 DEF Untouched, Rests
  <2>2. /\ ChipShape(x) /\ x.resetPulse = y.resetPulse /\ x.state = state
        /\ x.response = y.response
        /\ x.sqHead = y.sqHead /\ x.cqTail = y.cqTail /\ x.command = y.command
        /\ x.completion = y.completion /\ x.sqWord = y.sqWord /\ x.cqWord = y.cqWord
        /\ x.sqBase = y.sqBase /\ x.cqBase = y.cqBase
    BY <1>5, <2>1 DEF ChipShape, EngineTo
  <2>3. QED
    BY <1>5, <2>2 DEF Untouched, Rests, SameBases
<1>6. ASSUME NEW x, x = RefuseMovement(p)
      PROVE  Rests(d, x) /\ SameBases(d, x) /\ x.state = "Fault" /\ x.response = Refused
  <2>1. PICK y : y = [p EXCEPT !.response = Refused]
    OBVIOUS
  <2>2. Rests(d, y) /\ SameBases(d, y) /\ y.response = Refused
    BY <1>2, <2>1
  <2>3. ChipShape(y) /\ ChipShape(p)
    BY <1>1, <2>2 DEF Untouched, Rests
  <2>4. PICK z : z = EngineTo(y, "QueueProtocol", "Fault")
    OBVIOUS
  <2>5. x = z
    BY <1>6, <2>1, <2>3, <2>4 DEF RefuseMovement, ChipShape, EngineTo
  <2>6. QED
    BY <1>5, <2>2, <2>4, <2>5
<1>7. ASSUME NEW bits, NEW x, x = WriteControl(p, bits)
      PROVE  /\ Rests(d, x) /\ SameBases(d, x) /\ x.state \in {d.state, "ReadyIdle", "Fault"}
             /\ x.response = WriteOk
  <2>1. PICK y : y = Accepted(p)
    OBVIOUS
  <2>2. Rests(d, y) /\ SameBases(d, y) /\ y.state = d.state /\ y.response = WriteOk
    BY <1>2, <2>1 DEF Accepted
  <2>3. PICK notify, enabled : notify = ("Notify" \in bits) /\ enabled = ("Enable" \in bits)
    OBVIOUS
  <2>4. PICK z : z = [y EXCEPT !.notify = notify, !.enabled = enabled]
    OBVIOUS
  <2>5. Rests(d, z) /\ SameBases(d, z) /\ z.state = d.state /\ z.response = WriteOk
    <3>1. ChipShape(y)
      BY <2>2 DEF Untouched, Rests
    <3>2. /\ ChipShape(z) /\ z.resetPulse = y.resetPulse /\ z.state = y.state
          /\ z.response = y.response
          /\ z.sqHead = y.sqHead /\ z.cqTail = y.cqTail /\ z.command = y.command
          /\ z.completion = y.completion /\ z.sqWord = y.sqWord /\ z.cqWord = y.cqWord
          /\ z.sqBase = y.sqBase /\ z.cqBase = y.cqBase
      BY <2>4, <3>1 DEF ChipShape
    <3>3. QED
      BY <2>2, <3>2 DEF Untouched, Rests, SameBases
  <2>6. \/ x = z \/ x = EngineTo(z, None, "ReadyIdle") \/ x = EngineTo(z, "BadConfig", "Fault")
    BY <1>7, <2>1, <2>3, <2>4 DEF WriteControl, EngineTo
  <2>7. CASE x = z
    BY <2>5, <2>7
  <2>8. CASE x = EngineTo(z, None, "ReadyIdle")
    BY <1>5, <2>5, <2>8
  <2>9. CASE x = EngineTo(z, "BadConfig", "Fault")
    BY <1>5, <2>5, <2>9
  <2>10. QED
    BY <2>6, <2>7, <2>8, <2>9
<1>8. CASE qli.mmio = None \/ d.response # None
  <2>1. m = p \/ m = [p EXCEPT !.response = None]
    BY <1>1, <1>8 DEF AfterMmio, AcceptsMmio
  <2>2. /\ Rests(d, m) /\ SameBases(d, m) /\ m.state = d.state
        /\ qli.mmio = None =>
              m.response = IF d.response # None /\ (qli.responseReady \/ qli.cancel) THEN None
                           ELSE d.response
    <3>1. CASE d.response # None /\ (qli.responseReady \/ qli.cancel)
      <4>1. m = [p EXCEPT !.response = None]
        BY <1>1, <3>1 DEF AfterMmio
      <4>2. QED
        BY <1>2, <3>1, <4>1
    <3>2. CASE ~(d.response # None /\ (qli.responseReady \/ qli.cancel))
      <4>1. m = p
        BY <1>1, <1>8, <3>2 DEF AfterMmio, AcceptsMmio
      <4>2. QED
        BY <1>1, <3>2, <4>1
    <3>3. QED
      BY <3>1, <3>2
  <2>3. QED
    BY <1>8, <2>2 DEF SameBases, Based, RegisterSide
<1>9. CASE qli.mmio # None /\ d.response = None
  <2> DEFINE name  == qli.mmio.register.name
             value == qli.mmio.register.value
  <2>1. m = AcceptMmio(p, qli.mmio)
    BY <1>1, <1>9 DEF AfterMmio, AcceptsMmio
  <2>2. \/ \E r : m = [p EXCEPT !.response = r]
        \/ d.state = "Disabled" /\ m = WriteControl(p, value)
        \/ /\ d.state = "Disabled" /\ name \in {"SqBase", "CqBase"} /\ qli.mmio.write
           /\ m \in {[Accepted(p) EXCEPT !.sqBase = value], [Accepted(p) EXCEPT !.cqBase = value]}
        \/ m \in {[Accepted(p) EXCEPT !.sqTail = value], [Accepted(p) EXCEPT !.cqHead = value],
                  [Accepted(p) EXCEPT !.sqSize = value], [Accepted(p) EXCEPT !.cqSize = value]}
        \/ m = RefuseMovement(p) /\ d.state \notin {"Disabled", "Fault"}
    <3>1. CASE ~qli.mmio.write
      BY <2>1, <3>1 DEF AcceptMmio
    <3>2. CASE qli.mmio.write /\ d.state = "Disabled"
      <4>1. m = Configure(p, name, value)
        BY <1>1, <2>1, <3>2 DEF AcceptMmio, WriteAccess
      <4>2. QED
        BY <3>2, <4>1 DEF Configure, Refuse
    <3>3. CASE qli.mmio.write /\ d.state \notin {"Disabled", "Fault"}
      <4>1. m = MoveQueue(p, name, value)
        BY <1>1, <2>1, <3>3 DEF AcceptMmio, WriteAccess, ReadyState
      <4>2. QED
        BY <3>3, <4>1 DEF MoveQueue, Refuse
    <3>4. CASE qli.mmio.write /\ d.state = "Fault"
      <4>1. m = Refuse(p)
        BY <1>1, <2>1, <3>4 DEF AcceptMmio, WriteAccess, ReadyState
      <4>2. QED
        BY <4>1 DEF Refuse
    <3>5. QED
      BY <3>1, <3>2, <3>3, <3>4
  <2>3. PICK y : y = Accepted(p)
    OBVIOUS
  <2>4. Rests(d, y) /\ SameBases(d, y) /\ y.state = d.state
    BY <1>2, <2>3 DEF Accepted
  <2>5. CASE \E r : m = [p EXCEPT !.response = r]
    <3>1. PICK r : m = [p EXCEPT !.response = r]
      BY <2>5
    <3>2. Rests(d, m) /\ SameBases(d, m) /\ m.state = d.state
      BY <1>2, <3>1
    <3>3. QED
      BY <1>9, <3>2 DEF SameBases, Based, RegisterSide
  <2>6. CASE d.state = "Disabled" /\ m = WriteControl(p, value)
    <3>1. /\ Rests(d, m) /\ SameBases(d, m) /\ m.state \in {d.state, "ReadyIdle", "Fault"}
          /\ m.response = WriteOk
      BY <1>7, <2>6
    <3>2. QED
      BY <1>9, <2>6, <3>1 DEF SameBases, Based, RegisterSide
  <2>7. CASE /\ d.state = "Disabled" /\ name \in {"SqBase", "CqBase"} /\ qli.mmio.write
             /\ m \in {[Accepted(p) EXCEPT !.sqBase = value], [Accepted(p) EXCEPT !.cqBase = value]}
    <3>1. /\ Rests(d, m) /\ m.state = d.state
          /\ Based(y) /\ value \in Handles => Based(m)
      <4>1. m \in {[y EXCEPT !.sqBase = value], [y EXCEPT !.cqBase = value]}
        BY <2>3, <2>7
      <4>2. QED
        BY <1>4, <2>4, <4>1
    <3>2. Based(d) => Based(y)
      BY <2>4 DEF SameBases, Based, RegisterSide
    <3>3. Legal(qli.mmio) => value \in Handles
      BY <2>7 DEF Legal
    <3>4. QED
      BY <1>9, <2>7, <3>1, <3>2, <3>3 DEF RegisterSide
  <2>8. CASE m \in {[Accepted(p) EXCEPT !.sqTail = value], [Accepted(p) EXCEPT !.cqHead = value],
                     [Accepted(p) EXCEPT !.sqSize = value], [Accepted(p) EXCEPT !.cqSize = value]}
    <3>1. Rests(d, m) /\ SameBases(y, m) /\ m.state = d.state
      <4>1. m \in {[y EXCEPT !.sqTail = value], [y EXCEPT !.cqHead = value],
                    [y EXCEPT !.sqSize = value], [y EXCEPT !.cqSize = value]}
        BY <2>3, <2>8
      <4>2. QED
        BY <1>3, <2>4, <4>1
    <3>2. SameBases(d, m)
      BY <2>4, <3>1 DEF SameBases
    <3>3. QED
      BY <1>9, <3>1, <3>2 DEF SameBases, Based, RegisterSide
  <2>9. CASE m = RefuseMovement(p) /\ d.state \notin {"Disabled", "Fault"}
    <3>1. Rests(d, m) /\ SameBases(d, m) /\ m.state = "Fault" /\ m.response = Refused
      BY <1>6, <2>9
    <3>2. QED
      BY <1>9, <2>9, <3>1 DEF SameBases, Based, RegisterSide
  <2>10. QED
    BY <2>2, <2>5, <2>6, <2>7, <2>8, <2>9
<1>10. QED
  BY <1>8, <1>9

\* What the engine does in a clock, apart from the registers.
Keeps(d, e) == e.sqHead = d.sqHead /\ e.cqTail = d.cqTail /\ e.completion = d.completion

Stays(d, qli, signals, e) ==
  /\ e.state = d.state /\ Keeps(d, e) /\ e.command = d.command
  /\ e.sqWord = d.sqWord /\ e.cqWord = d.cqWord
  /\ d.state \in Requesting => ~qli.dmaReady
  /\ d.state = "SqReceive" => qli.read = None
  /\ d.state = "CqSend" => ~qli.writeReady
  /\ d.state \in {"SqCompletion", "CqCompletion"} => qli.completion = None
  /\ d.state = "EndpointOffer" => ~signals.commandReady
  /\ d.state = "EndpointCompletion" => signals.completion = None

RequestTaken(d, qli, e) ==
  /\ qli.dmaReady /\ Keeps(d, e) /\ e.command = d.command
  /\ \/ d.state = "SqRequest" /\ e.state = "SqReceive" /\ e.sqWord = 0
     \/ d.state = "CqRequest" /\ e.state = "CqSend" /\ e.cqWord = 0

WordTaken(d, qli, e) ==
  /\ d.state = "SqReceive" /\ qli.read # None /\ Keeps(d, e)
  /\ e.command = [d.command EXCEPT ![d.sqWord] = qli.read]
  /\ IF d.sqWord = SqWords - 1 THEN e.state = "SqCompletion"
     ELSE e.state = "SqReceive" /\ e.sqWord = d.sqWord + 1

WordGiven(d, qli, e) ==
  /\ d.state = "CqSend" /\ qli.writeReady /\ Keeps(d, e) /\ e.command = d.command
  /\ IF d.cqWord = CqWords - 1 THEN e.state = "CqCompletion" /\ e.cqWord = d.cqWord
     ELSE e.state = "CqSend" /\ e.cqWord = d.cqWord + 1

BurstDone(d, qli, e) ==
  /\ qli.completion # None /\ e.command = d.command /\ e.completion = d.completion
  /\ \/ d.state \in {"SqCompletion", "CqCompletion"} /\ e.state = "Fault" /\ Keeps(d, e)
     \/ /\ d.state = "SqCompletion" /\ e.state = "EndpointOffer"
        /\ e.sqHead = Plus1(d.sqHead) /\ e.cqTail = d.cqTail
     \/ /\ d.state = "CqCompletion" /\ e.state \in {"Notify", "ReadyIdle"}
        /\ e.sqHead = d.sqHead /\ e.cqTail = Plus1(d.cqTail)
        /\ qli.completion.status = "Ok"

CompletionTaken(d, signals, e) ==
  /\ d.state = "EndpointCompletion" /\ signals.completion # None /\ e.state = "CqRequest"
  /\ e.completion = signals.completion /\ e.command = d.command
  /\ e.sqHead = d.sqHead /\ e.cqTail = d.cqTail

Goes1(d, signals, e) ==
  /\ Keeps(d, e) /\ e.command = d.command
  /\ \/ d.state = "ReadyIdle" /\ e.state = "SqRequest"
     \/ d.state = "Notify" /\ e.state = "ReadyIdle"
     \/ d.state = "EndpointOffer" /\ signals.commandReady /\ e.state = "EndpointCompletion"

Engine(d, qli, signals, e) ==
  \/ Stays(d, qli, signals, e) \/ RequestTaken(d, qli, e) \/ WordTaken(d, qli, e)
  \/ WordGiven(d, qli, e) \/ BurstDone(d, qli, e) \/ CompletionTaken(d, signals, e)
  \/ Goes1(d, signals, e)

LEMMA ProgressIs ==
  ASSUME NEW d, ChipRoom(d), NEW qli, NEW signals, NEW e, e = Progress(d, qli, signals)
  PROVE  /\ Engine(d, qli, signals, e)
         /\ ChipShape(e) /\ SameBases(d, e) /\ e.response = d.response /\ e.resetPulse = d.resetPulse
<1>1. ChipShape(d) /\ (d.state = "EndpointCompletion" => CqUsed(d) < Ring)
  BY DEF ChipRoom, Making
<1>2. ASSUME e = d,
             d.state \in Requesting => ~qli.dmaReady,
             d.state = "SqReceive" => qli.read = None,
             d.state = "CqSend" => ~qli.writeReady,
             d.state \in {"SqCompletion", "CqCompletion"} => qli.completion = None,
             d.state = "EndpointOffer" => ~signals.commandReady,
             d.state = "EndpointCompletion" => signals.completion = None
      PROVE  /\ Engine(d, qli, signals, e)
             /\ ChipShape(e) /\ SameBases(d, e) /\ e.response = d.response
             /\ e.resetPulse = d.resetPulse
  BY <1>1, <1>2 DEF Engine, Stays, Keeps, SameBases
<1>3. CASE d.state = "ReadyIdle"
  <2>1. e = d \/ e = [d EXCEPT !.state = "SqRequest", !.sqWord = 0]
    BY <1>3 DEF Progress
  <2>2. CASE e = [d EXCEPT !.state = "SqRequest", !.sqWord = 0]
    <3>1. /\ ChipShape(e) /\ SameBases(d, e) /\ e.response = d.response
          /\ e.resetPulse = d.resetPulse /\ Keeps(d, e) /\ e.command = d.command
          /\ e.state = "SqRequest"
      BY <1>1, <2>2 DEF ChipShape, SameBases, Keeps
    <3>2. QED
      BY <1>3, <3>1 DEF Engine, Goes1
  <2>3. QED
    BY <1>2, <1>3, <2>1, <2>2 DEF Requesting
<1>4. CASE d.state \in Requesting
  <2>1. CASE qli.dmaReady
    <3>1. e = IF d.state = "SqRequest" THEN [d EXCEPT !.state = "SqReceive", !.sqWord = 0]
              ELSE [d EXCEPT !.state = "CqSend", !.cqWord = 0]
      BY <1>4, <2>1 DEF Progress, Requesting
    <3>2. /\ ChipShape(e) /\ SameBases(d, e) /\ e.response = d.response
          /\ e.resetPulse = d.resetPulse /\ Keeps(d, e) /\ e.command = d.command
          /\ d.state = "SqRequest" => e.state = "SqReceive" /\ e.sqWord = 0
          /\ d.state # "SqRequest" => e.state = "CqSend" /\ e.cqWord = 0
      BY <1>1, <3>1 DEF ChipShape, SameBases, Keeps
    <3>3. QED
      BY <1>4, <2>1, <3>2 DEF Engine, RequestTaken, Requesting
  <2>2. CASE ~qli.dmaReady
    <3>1. e = d
      BY <1>4, <2>2 DEF Progress, Requesting
    <3>2. QED
      BY <1>2, <1>4, <2>2, <3>1 DEF Requesting
  <2>3. QED
    BY <2>1, <2>2
<1>5. CASE d.state = "SqReceive"
  <2>1. CASE qli.read # None
    <3>1. e = ReceiveWord(d, qli.read)
      BY <1>5, <2>1 DEF Progress
    <3>2. /\ ChipShape(e) /\ SameBases(d, e) /\ e.response = d.response
          /\ e.resetPulse = d.resetPulse /\ Keeps(d, e)
          /\ e.command = [d.command EXCEPT ![d.sqWord] = qli.read]
          /\ IF d.sqWord = SqWords - 1 THEN e.state = "SqCompletion"
             ELSE e.state = "SqReceive" /\ e.sqWord = d.sqWord + 1
      <4>1. PICK command, state, word :
              /\ command = [d.command EXCEPT ![d.sqWord] = qli.read]
              /\ e = [d EXCEPT !.command = command, !.state = state, !.sqWord = word]
              /\ IF d.sqWord = SqWords - 1 THEN state = "SqCompletion"
                 ELSE state = "SqReceive" /\ word = d.sqWord + 1
        BY <1>5, <3>1 DEF ReceiveWord
      <4>2. /\ ChipShape(e) /\ SameBases(d, e) /\ e.response = d.response
            /\ e.resetPulse = d.resetPulse /\ Keeps(d, e) /\ e.command = command
            /\ e.state = state /\ e.sqWord = word
        BY <1>1, <4>1 DEF ChipShape, SameBases, Keeps
      <4>3. QED
        BY <4>1, <4>2
    <3>3. QED
      BY <1>5, <2>1, <3>2 DEF Engine, WordTaken
  <2>2. CASE qli.read = None
    <3>1. e = d
      BY <1>5, <2>2 DEF Progress
    <3>2. QED
      BY <1>2, <1>5, <2>2, <3>1 DEF Requesting
  <2>3. QED
    BY <2>1, <2>2
<1>6. CASE d.state = "CqSend"
  <2>1. CASE qli.writeReady
    <3>1. e = WordSent(d)
      BY <1>6, <2>1 DEF Progress
    <3>2. /\ ChipShape(e) /\ SameBases(d, e) /\ e.response = d.response
          /\ e.resetPulse = d.resetPulse /\ Keeps(d, e) /\ e.command = d.command
          /\ IF d.cqWord = CqWords - 1 THEN e.state = "CqCompletion" /\ e.cqWord = d.cqWord
             ELSE e.state = "CqSend" /\ e.cqWord = d.cqWord + 1
      <4>1. PICK state, word :
              /\ e = [d EXCEPT !.state = state, !.cqWord = word]
              /\ IF d.cqWord = CqWords - 1 THEN state = "CqCompletion" /\ word = d.cqWord
                 ELSE state = "CqSend" /\ word = d.cqWord + 1
        BY <1>6, <3>1 DEF WordSent
      <4>2. /\ ChipShape(e) /\ SameBases(d, e) /\ e.response = d.response
            /\ e.resetPulse = d.resetPulse /\ Keeps(d, e) /\ e.command = d.command
            /\ e.state = state /\ e.cqWord = word
        BY <1>1, <4>1 DEF ChipShape, SameBases, Keeps
      <4>3. QED
        BY <4>1, <4>2
    <3>3. QED
      BY <1>6, <2>1, <3>2 DEF Engine, WordGiven
  <2>2. CASE ~qli.writeReady
    <3>1. e = d
      BY <1>6, <2>2 DEF Progress
    <3>2. QED
      BY <1>2, <1>6, <2>2, <3>1 DEF Requesting
  <2>3. QED
    BY <2>1, <2>2
<1>7. CASE d.state \in {"SqCompletion", "CqCompletion"}
  <2>1. CASE qli.completion # None
    <3>1. e = IF d.state = "SqCompletion" THEN SqFetched(d, qli.completion)
              ELSE CqPublished(d, qli.completion)
      BY <1>7, <2>1 DEF Progress
    <3>2. PICK error, after :
            /\ after \in {"Notify", "ReadyIdle"}
            /\ \/ e = [d EXCEPT !.error = error, !.state = "Fault"]
               \/ d.state = "SqCompletion" /\ e = [d EXCEPT !.sqHead = Plus1(d.sqHead), !.state = "EndpointOffer"]
               \/ /\ d.state = "CqCompletion" /\ qli.completion.status = "Ok"
                  /\ e = [d EXCEPT !.cqTail = Plus1(d.cqTail), !.state = after]
      BY <1>7, <3>1 DEF SqFetched, CqPublished
    <3>3. CASE e = [d EXCEPT !.error = error, !.state = "Fault"]
      <4>1. /\ ChipShape(e) /\ SameBases(d, e) /\ e.response = d.response
            /\ e.resetPulse = d.resetPulse /\ Keeps(d, e) /\ e.command = d.command
            /\ e.state = "Fault" /\ e.completion = d.completion
        BY <1>1, <3>3 DEF ChipShape, SameBases, Keeps
      <4>2. QED
        BY <1>7, <2>1, <4>1 DEF Engine, BurstDone
    <3>4. CASE d.state = "SqCompletion" /\ e = [d EXCEPT !.sqHead = Plus1(d.sqHead), !.state = "EndpointOffer"]
      <4>1. /\ ChipShape(e) /\ SameBases(d, e) /\ e.response = d.response
            /\ e.resetPulse = d.resetPulse /\ e.command = d.command
            /\ e.state = "EndpointOffer" /\ e.completion = d.completion
            /\ e.sqHead = Plus1(d.sqHead) /\ e.cqTail = d.cqTail
        BY <1>1, <3>4 DEF ChipShape, SameBases
      <4>2. QED
        BY <1>7, <2>1, <3>4, <4>1 DEF Engine, BurstDone
    <3>5. CASE /\ d.state = "CqCompletion" /\ qli.completion.status = "Ok"
               /\ e = [d EXCEPT !.cqTail = Plus1(d.cqTail), !.state = after]
      <4>1. /\ ChipShape(e) /\ SameBases(d, e) /\ e.response = d.response
            /\ e.resetPulse = d.resetPulse /\ e.command = d.command
            /\ e.state = after /\ e.completion = d.completion
            /\ e.sqHead = d.sqHead /\ e.cqTail = Plus1(d.cqTail)
        BY <1>1, <3>5 DEF ChipShape, SameBases
      <4>2. QED
        BY <1>7, <2>1, <3>2, <3>5, <4>1 DEF Engine, BurstDone
    <3>6. QED
      BY <3>2, <3>3, <3>4, <3>5
  <2>2. CASE qli.completion = None
    <3>1. e = d
      BY <1>7, <2>2 DEF Progress
    <3>2. QED
      BY <1>2, <1>7, <2>2, <3>1 DEF Requesting
  <2>3. QED
    BY <2>1, <2>2
<1>8. CASE d.state = "EndpointOffer"
  <2>1. e = IF signals.commandReady THEN [d EXCEPT !.state = "EndpointCompletion"] ELSE d
    BY <1>8 DEF Progress
  <2>2. CASE signals.commandReady
    <3>1. /\ ChipShape(e) /\ SameBases(d, e) /\ e.response = d.response
          /\ e.resetPulse = d.resetPulse /\ Keeps(d, e) /\ e.command = d.command
          /\ e.state = "EndpointCompletion"
      BY <1>1, <2>1, <2>2 DEF ChipShape, SameBases, Keeps
    <3>2. QED
      BY <1>8, <2>2, <3>1 DEF Engine, Goes1
  <2>3. QED
    BY <1>2, <1>8, <2>1, <2>2 DEF Requesting
<1>9. CASE d.state = "EndpointCompletion"
  <2>1. e = IF signals.completion # None
            THEN [d EXCEPT !.state = "CqRequest", !.completion = signals.completion, !.cqWord = 0]
            ELSE d
    BY <1>1, <1>9 DEF Progress
  <2>2. CASE signals.completion # None
    <3>1. /\ ChipShape(e) /\ SameBases(d, e) /\ e.response = d.response
          /\ e.resetPulse = d.resetPulse /\ e.command = d.command
          /\ e.sqHead = d.sqHead /\ e.cqTail = d.cqTail /\ e.completion = signals.completion
          /\ e.state = "CqRequest"
      BY <1>1, <2>1, <2>2 DEF ChipShape, SameBases
    <3>2. QED
      BY <1>9, <2>2, <3>1 DEF Engine, CompletionTaken
  <2>3. QED
    BY <1>2, <1>9, <2>1, <2>2 DEF Requesting
<1>10. CASE d.state = "Notify"
  <2>1. e = IF qli.notified THEN [d EXCEPT !.state = "ReadyIdle"] ELSE d
    BY <1>10 DEF Progress
  <2>2. CASE qli.notified
    <3>1. /\ ChipShape(e) /\ SameBases(d, e) /\ e.response = d.response
          /\ e.resetPulse = d.resetPulse /\ Keeps(d, e) /\ e.command = d.command
          /\ e.state = "ReadyIdle"
      BY <1>1, <2>1, <2>2 DEF ChipShape, SameBases, Keeps
    <3>2. QED
      BY <1>10, <3>1 DEF Engine, Goes1
  <2>3. QED
    BY <1>2, <1>10, <2>1, <2>2 DEF Requesting
<1>11. CASE d.state \notin {"ReadyIdle", "SqRequest", "CqRequest", "SqReceive", "CqSend",
                            "SqCompletion", "CqCompletion", "EndpointOffer", "EndpointCompletion",
                            "Notify"}
  <2>1. e = d
    BY <1>11 DEF Progress
  <2>2. QED
    BY <1>2, <1>11, <2>1 DEF Requesting
<1>12. QED
  BY <1>3, <1>4, <1>5, <1>6, <1>7, <1>8, <1>9, <1>10, <1>11 DEF Requesting

\* A register access has put the chip in service, or has taken it out of it.
StateAccess(d, qli, e) ==
  /\ qli.mmio # None /\ d.response = None /\ e.response \in {WriteOk, Refused} /\ ChipShape(e)
  /\ \/ e = Accepted(HardReset)
     \/ /\ Rests(d, e)
        /\ \/ d.state = "Disabled" /\ e.state \in {"ReadyIdle", "Fault"}
           \/ d.state \notin {"Disabled", "Fault"} /\ e.state = "Fault" /\ SameBases(d, e)

EngineClock(d, qli, signals, e) ==
  /\ ChipShape(e) /\ e.resetPulse = FALSE
  /\ d.state # "Disabled" => SameBases(d, e)
  /\ qli.mmio = None =>
       e.response = IF d.response # None /\ (qli.responseReady \/ qli.cancel) THEN None ELSE d.response
  /\ Engine(d, qli, signals, e)

LEMMA RegisterRoom ==
  ASSUME NEW d, ChipRoom(d), NEW qli, qli.mmio # None => Legal(qli.mmio),
         NEW p, p = [d EXCEPT !.resetPulse = FALSE], NEW m, m = AfterMmio(p, qli)
  PROVE  ChipRoom(m)
<1>1. ChipRoom(p)
  <2>1. ChipShape(p) /\ p.sqHead = d.sqHead /\ p.sqTail = d.sqTail
        /\ p.cqHead = d.cqHead /\ p.cqTail = d.cqTail /\ p.state = d.state
    BY DEF ChipRoom, ChipShape
  <2>2. QED
    BY <2>1, RoomKept
<1>2. m = p \/ m = [p EXCEPT !.response = None] \/ (qli.mmio # None /\ m = AcceptMmio(p, qli.mmio))
  BY DEF AfterMmio, AcceptsMmio
<1>3. ChipRoom([p EXCEPT !.response = None])
  BY <1>1, ResponseRoom
<1>4. QED
  BY <1>1, <1>2, <1>3, AccessRoom

LEMMA ResetIs ==
  ASSUME NEW e, e \in {NewQdx, HardReset, Accepted(HardReset)}
  PROVE  /\ ChipShape(e) /\ Based(e) /\ e.state = "Disabled"
         /\ e.response = IF e = Accepted(HardReset) THEN WriteOk ELSE None
         /\ e.command = [i \in 0..SqWords - 1 |-> e.command[i]]
<1>1. NoBase \in Handles
  <2>1. NoBase.binding \in {base.binding : base \in Bases \cup {NoBase}}
    OBVIOUS
  <2>2. NoBase = [binding |-> NoBase.binding, offset |-> NoBase.offset] /\ NoBase.offset \in Int
    BY DEF NoBase
  <2>3. QED
    BY <2>1, <2>2 DEF Handles
<1>2. \A x : x \in {NewQdx, HardReset} =>
        /\ ChipShape(x) /\ Based(x) /\ x.state = "Disabled" /\ x.response = None
        /\ x.command = [i \in 0..SqWords - 1 |-> None]
  <2>1. /\ ChipShape(NewQdx) /\ Based(NewQdx) /\ NewQdx.state = "Disabled"
        /\ NewQdx.response = None /\ NewQdx.command = [i \in 0..SqWords - 1 |-> None]
    BY <1>1 DEF NewQdx, ChipShape, Based
  <2>2. PICK h : h = HardReset
    OBVIOUS
  <2>3. PICK n : n = NewQdx
    OBVIOUS
  <2>4. ChipShape(h) /\ Based(h) /\ h.state = "Disabled"
        /\ h.response = None /\ h.command = [i \in 0..SqWords - 1 |-> None]
    <3>1. h = [n EXCEPT !.resetPulse = TRUE]
      BY <2>2, <2>3 DEF HardReset
    <3>2. ChipShape(h) /\ h.sqBase = n.sqBase /\ h.cqBase = n.cqBase /\ h.state = n.state
          /\ h.response = n.response /\ h.command = n.command
      BY <2>1, <2>3, <3>1 DEF ChipShape
    <3>3. QED
      BY <2>1, <2>3, <3>2 DEF Based
  <2>5. QED
    BY <2>1, <2>2, <2>4
<1>3. PICK h, a : h = HardReset /\ a = Accepted(h)
  OBVIOUS
<1>4. ChipShape(a) /\ a.sqBase = h.sqBase /\ a.cqBase = h.cqBase /\ a.state = h.state
      /\ a.response = WriteOk /\ a.command = h.command
  BY <1>2, <1>3 DEF ChipShape, Accepted
<1>5. ChipShape(a) /\ Based(a) /\ a.state = "Disabled" /\ a.response = WriteOk
      /\ a.command = [i \in 0..SqWords - 1 |-> None]
  BY <1>2, <1>3, <1>4 DEF Based
<1>6. WriteOk # None
  BY NoneIsNoValue DEF Answers
<1>7. e = a \/ e \in {NewQdx, HardReset}
  BY <1>3
<1>8. HardReset # Accepted(HardReset) /\ NewQdx # Accepted(HardReset)
  BY <1>2, <1>3, <1>5, <1>6
<1>9. e.command = [i \in 0..SqWords - 1 |-> None]
  BY <1>2, <1>5, <1>7
<1>10. e.command = [i \in 0..SqWords - 1 |-> e.command[i]]
  BY <1>9
<1>11. QED
  BY <1>2, <1>3, <1>5, <1>7, <1>8, <1>10

LEMMA ChipMoves ==
  ASSUME NEW d, ChipRoom(d), NEW qli, qli.reset = FALSE, qli.mmio # None => Legal(qli.mmio),
         NEW signals, NEW e, e = Advance(d, qli, signals)
  PROVE  /\ StateAccess(d, qli, e) \/ EngineClock(d, qli, signals, e)
         /\ Based(d) => Based(e)
<1>0. PICK p : p = [d EXCEPT !.resetPulse = FALSE]
  OBVIOUS
<1>1. PICK m : m = AfterMmio(p, qli)
  OBVIOUS
<1>2. ChipRoom(m)
  BY <1>0, <1>1, RegisterRoom
<1>3. RegisterSide(d, qli, m)
  <2>1. ChipShape(d)
    BY DEF ChipRoom
  <2>2. QED
    BY <1>0, <1>1, <2>1, Accessed
<1>4. CASE SoftReset(d, qli)
  <2>1. e = Accepted(HardReset)
    BY <1>4 DEF Advance
  <2>2. ChipShape(e) /\ Based(e) /\ e.response = WriteOk
    BY <2>1, ResetIs
  <2>3. QED
    BY <1>4, <2>1, <2>2 DEF StateAccess, SoftReset, AcceptsMmio
<1>5. CASE ~SoftReset(d, qli) /\ m.state # d.state
  <2>1. e = m
    BY <1>0, <1>1, <1>5 DEF Advance
  <2>2. QED
    BY <1>3, <1>5, <2>1 DEF StateAccess, RegisterSide, Rests, Untouched
<1>6. CASE /\ ~SoftReset(d, qli) /\ m.state = d.state
           /\ d.response # None \/ AcceptsMmio(d, qli)
           /\ ~LinkEvent(d, qli, signals)
  <2>1. e = m
    BY <1>0, <1>1, <1>6 DEF Advance
  <2>2. d.state = "EndpointCompletion" => CqUsed(d) < Ring
    BY DEF ChipRoom, Making
  <2>3. /\ d.state \in Requesting => ~qli.dmaReady
        /\ d.state = "SqReceive" => qli.read = None
        /\ d.state = "CqSend" => ~qli.writeReady
        /\ d.state \in {"SqCompletion", "CqCompletion"} => qli.completion = None
        /\ d.state = "EndpointOffer" => ~signals.commandReady
        /\ d.state = "EndpointCompletion" => signals.completion = None
    BY <1>6, <2>2 DEF LinkEvent, Requesting
  <2>4. Stays(d, qli, signals, e)
    BY <1>3, <1>6, <2>1, <2>3 DEF Stays, RegisterSide, Rests, Untouched, Keeps
  <2>5. QED
    BY <1>3, <1>6, <2>1, <2>4 DEF EngineClock, Engine, RegisterSide, Rests, Untouched
<1>7. CASE /\ ~SoftReset(d, qli) /\ m.state = d.state
           /\ ~((d.response # None \/ AcceptsMmio(d, qli)) /\ ~LinkEvent(d, qli, signals))
  <2>1. e = Progress(m, qli, signals)
    BY <1>0, <1>1, <1>7 DEF Advance
  <2>2. /\ Engine(m, qli, signals, e)
        /\ ChipShape(e) /\ SameBases(m, e) /\ e.response = m.response /\ e.resetPulse = m.resetPulse
    BY <1>2, <2>1, ProgressIs
  <2>3. /\ m.state = d.state /\ m.sqHead = d.sqHead /\ m.cqTail = d.cqTail /\ m.command = d.command
        /\ m.completion = d.completion /\ m.sqWord = d.sqWord /\ m.cqWord = d.cqWord
    BY <1>3, <1>7 DEF RegisterSide, Rests, Untouched
  <2>4. Engine(d, qli, signals, e)
    <3>1. Stays(m, qli, signals, e) => Stays(d, qli, signals, e)
      BY <2>3 DEF Stays, Keeps
    <3>2. RequestTaken(m, qli, e) => RequestTaken(d, qli, e)
      BY <2>3 DEF RequestTaken, Keeps
    <3>3. WordTaken(m, qli, e) => WordTaken(d, qli, e)
      BY <2>3 DEF WordTaken, Keeps
    <3>4. WordGiven(m, qli, e) => WordGiven(d, qli, e)
      BY <2>3 DEF WordGiven, Keeps
    <3>5. BurstDone(m, qli, e) => BurstDone(d, qli, e)
      BY <2>3 DEF BurstDone, Keeps
    <3>6. CompletionTaken(m, signals, e) => CompletionTaken(d, signals, e)
      BY <2>3 DEF CompletionTaken
    <3>7. Goes1(m, signals, e) => Goes1(d, signals, e)
      BY <2>3 DEF Goes1, Keeps
    <3>8. QED
      BY <2>2, <3>1, <3>2, <3>3, <3>4, <3>5, <3>6, <3>7 DEF Engine
  <2>5. EngineClock(d, qli, signals, e)
    BY <1>3, <2>2, <2>4 DEF EngineClock, SameBases, RegisterSide, Rests
  <2>6. Based(d) => Based(e)
    BY <1>3, <2>2 DEF Based, SameBases, RegisterSide
  <2>7. QED
    BY <2>5, <2>6
<1>8. QED
  BY <1>4, <1>5, <1>6, <1>7

-----------------------------------------------------------------------------
(* One clock of the host in a burst.                                                          *)

\* The host counts a word: it has read one to the card, or has taken one.
Counted(p, pins) ==
  /\ p.state.at = "DmaData" /\ pins.request /\ pins.strobe # None
  /\ p.state.wait = 0 /\ p.state.fault # "Err"

Addressed(p, pins) == p.state.at = "Grant" /\ pins.strobe # None /\ pins.strobe.kind = "HostDma"

PeerBurst(p, pins, p2) ==
  LET s == p.state
      t == p2.state IN
  /\ t.at = "DmaAddress" =>
       \/ s.at = "DmaAddress" /\ t.request = s.request
       \/ Addressed(p, pins) /\ t.request = pins.strobe.value
  /\ t.at = "DmaData" =>
       \/ s.at = "DmaAddress" /\ t.request = s.request /\ t.beat = 0
       \/ /\ s.at = "DmaData" /\ t.request = s.request
          /\ t.beat = IF Counted(p, pins) THEN s.beat + 1 ELSE s.beat
  /\ p2.words = IF Addressed(p, pins) THEN << >>
                ELSE IF Counted(p, pins) /\ s.request.direction # "HostToDevice"
                THEN Append(p.words, pins.strobe.value) ELSE p.words
  /\ p2.address = IF Addressed(p, pins) THEN pins.strobe.value.handle ELSE p.address

LEMMA PeerBurstIs ==
  ASSUME NEW p, PeerShape(p), NEW pins, NEW data, NEW p2 \in P!Clock(p, pins, data)
  PROVE  PeerBurst(p, pins, p2)
<1>1. PICK s : s = p.state
  OBVIOUS
<1>2. PICK q : q = [p EXCEPT !.got = None, !.result = None]
  OBVIOUS
<1>3. q = [state |-> s, result |-> None, words |-> p.words, address |-> p.address, got |-> None]
  BY <1>1, <1>2 DEF PeerShape
<1>4. q.state = s /\ q.words = p.words /\ q.address = p.address
  BY <1>3
<1>5. s.at \in {"Idle", "Grant", "WorkerAddress", "WorkerData"} \cup PeerPhases
  BY <1>1 DEF PeerShape
<1>6. P!Idle.at = "Idle" /\ P!Grant.at = "Grant" /\ \A op : P!WorkerData(op).at = "WorkerData"
  BY DEF P!Idle, P!Grant, P!WorkerData
\* Outside a burst: words and address stay.
<1>7. ASSUME NEW state, state.at \notin {"DmaAddress", "DmaData"} \/ state = s, s.at # "DmaData",
             ~Addressed(p, pins), p2.state = state, p2.words = p.words, p2.address = p.address
      PROVE  PeerBurst(p, pins, p2)
  BY <1>1, <1>7 DEF PeerBurst, Counted
<1>8. CASE s.at = "Idle"
  <2>1. p2 \in P!FromIdle(q, pins)
    BY <1>1, <1>2, <1>8 DEF P!Clock
  <2>2. p2 = q \/ p2 = [q EXCEPT !.state = P!Grant]
    BY <2>1 DEF P!FromIdle
  <2>3. p2.words = p.words /\ p2.address = p.address /\ (p2.state = s \/ p2.state = P!Grant)
    BY <1>3, <2>2
  <2>4. QED
    BY <1>1, <1>6, <1>7, <1>8, <2>3 DEF Addressed
<1>9. CASE s.at = "Grant"
  <2>1. p2 \in P!FromGrant(q, pins)
    BY <1>1, <1>2, <1>9 DEF P!Clock
  <2>2. CASE pins.strobe = None
    <3>1. p2 = q \/ p2 = [q EXCEPT !.state = P!Idle]
      BY <2>1, <2>2 DEF P!FromGrant
    <3>2. p2.words = p.words /\ p2.address = p.address /\ (p2.state = s \/ p2.state = P!Idle)
      BY <1>3, <3>1
    <3>3. QED
      BY <1>1, <1>6, <1>7, <1>9, <2>2, <3>2 DEF Addressed
  <2>3. CASE pins.strobe # None /\ pins.strobe.kind = "HostDma"
    <3>1. PICK t \in P!Phases("DmaAddress", pins.strobe.value, 0, Faults \cap {"Err"}) :
            p2 = [q EXCEPT !.state = t, !.words = << >>, !.address = pins.strobe.value.handle]
      BY <2>1, <2>3 DEF P!FromGrant
    <3>2. p2.state = t /\ p2.words = << >> /\ p2.address = pins.strobe.value.handle
      BY <1>3, <3>1
    <3>3. t.at = "DmaAddress" /\ t.request = pins.strobe.value
      BY PhasesAre DEF PeerPhases
    <3>4. Addressed(p, pins)
      BY <1>1, <1>9, <2>3 DEF Addressed
    <3>5. QED
      BY <3>2, <3>3, <3>4 DEF PeerBurst
  <2>4. CASE pins.strobe # None /\ pins.strobe.kind # "HostDma"
    <3>1. PICK t \in P!Phases("NotificationAddress", pins.strobe.value, 0, Faults \cap {"Err"}) :
            p2 = [q EXCEPT !.state = t]
      BY <2>1, <2>4 DEF P!FromGrant
    <3>2. p2.state = t /\ p2.words = p.words /\ p2.address = p.address
      BY <1>3, <3>1
    <3>3. t.at = "NotificationAddress"
      BY PhasesAre DEF PeerPhases
    <3>4. QED
      BY <1>1, <1>7, <1>9, <2>4, <3>2, <3>3 DEF Addressed
  <2>5. QED
    BY <2>2, <2>3, <2>4
<1>10. CASE s.at \in {"WorkerAddress", "WorkerData"}
  <2>1. p2 \in P!FromWorker(q, pins, data)
    BY <1>1, <1>2, <1>10 DEF P!Clock
  <2>2. \/ p2 = q \/ p2 = [q EXCEPT !.state = P!WorkerData(s.op)]
        \/ \E result : p2 = [q EXCEPT !.state = P!Idle, !.result = result]
    <3>1. CASE pins.reply = "Err" \/ (pins.reply = "Ack" /\ s.at = "WorkerData")
      <4>1. \E result : p2 = P!WorkerDone(q, result)
        BY <1>4, <1>10, <2>1, <3>1 DEF P!FromWorker
      <4>2. QED
        BY <4>1 DEF P!WorkerDone
    <3>2. CASE pins.reply \notin {"Ack", "Err"}
      BY <1>4, <2>1, <3>2 DEF P!FromWorker
    <3>3. CASE pins.reply = "Ack" /\ s.at = "WorkerAddress"
      BY <1>4, <2>1, <3>3 DEF P!FromWorker
    <3>4. QED
      BY <1>10, <3>1, <3>2, <3>3
  <2>3. p2.words = p.words /\ p2.address = p.address /\ (p2.state = s \/ p2.state = P!Idle \/ p2.state = P!WorkerData(s.op))
    <3>1. CASE p2 = q
      BY <1>3, <3>1
    <3>2. CASE p2 = [q EXCEPT !.state = P!WorkerData(s.op)]
      BY <1>3, <3>2
    <3>3. CASE \E result : p2 = [q EXCEPT !.state = P!Idle, !.result = result]
      <4>1. PICK result : p2 = [q EXCEPT !.state = P!Idle, !.result = result]
        BY <3>3
      <4>2. QED
        BY <1>3, <4>1
    <3>4. QED
      BY <2>2, <3>1, <3>2, <3>3
  <2>4. QED
    BY <1>1, <1>6, <1>7, <1>10, <2>3 DEF Addressed
<1>11. CASE s.at \in PeerPhases
  <2>0. /\ s = P!Phase(s.at, s.request, s.beat, s.wait, s.fault) /\ s.wait \in Nat
        /\ s.at \notin {"Idle", "Grant", "WorkerAddress", "WorkerData"} /\ ~Addressed(p, pins)
    BY <1>1, <1>11 DEF PeerShape, PeerPhases, Addressed
  <2>1. PICK w : w = [q EXCEPT !.state.wait = @ - 1]
    OBVIOUS
  <2>2. /\ w.words = p.words /\ w.address = p.address /\ w.state.at = s.at /\ w.state.request = s.request
        /\ w.state.beat = s.beat
    <3>1. PICK n : n = s.wait - 1
      OBVIOUS
    <3>2. w = [state |-> P!Phase(s.at, s.request, s.beat, n, s.fault), result |-> None,
               words |-> p.words, address |-> p.address, got |-> None]
      BY <1>3, <2>0, <2>1, <3>1 DEF P!Phase
    <3>3. QED
      BY <3>2 DEF P!Phase
  <2>3. PICK i : i = [q EXCEPT !.state = P!Idle]
    OBVIOUS
  <2>4. i.words = p.words /\ i.address = p.address /\ i.state = P!Idle
    BY <1>3, <2>3
  <2>5. s.wait > 0 \/ s.wait = 0
    BY <2>0
  <2>6. CASE ~pins.request
    <3>1. p2 = i
      BY <1>1, <1>2, <1>4, <2>0, <2>3, <2>6 DEF P!Clock
    <3>2. QED
      BY <1>1, <1>6, <2>0, <2>4, <2>6, <3>1 DEF PeerBurst, Counted
  <2>7. CASE pins.request /\ s.at = "DmaAddress"
    <3>1. p2 \in P!FromAddress(q, P!Phases("DmaData", s.request, 0, P!DataFaults(s.request)))
      BY <1>1, <1>2, <1>4, <2>0, <2>7 DEF P!Clock
    <3>2. \/ p2 = w \/ p2 = i
          \/ \E t \in P!Phases("DmaData", s.request, 0, P!DataFaults(s.request)) :
               p2 = [q EXCEPT !.state = t]
      BY <1>4, <2>1, <2>3, <3>1 DEF P!FromAddress
    <3>3. CASE p2 = w
      BY <1>1, <2>0, <2>2, <2>7, <3>3 DEF PeerBurst, Counted
    <3>4. CASE p2 = i
      BY <1>1, <1>6, <2>0, <2>4, <2>7, <3>4 DEF PeerBurst, Counted
    <3>5. ASSUME NEW t \in P!Phases("DmaData", s.request, 0, P!DataFaults(s.request)),
                 p2 = [q EXCEPT !.state = t]
          PROVE  PeerBurst(p, pins, p2)
      <4>1. p2.state = t /\ p2.words = p.words /\ p2.address = p.address
        BY <1>3, <3>5
      <4>2. t.at = "DmaData" /\ t.request = s.request /\ t.beat = 0
        BY DEF P!Phases, P!Phase
      <4>3. QED
        BY <1>1, <2>0, <2>7, <4>1, <4>2 DEF PeerBurst, Counted
    <3>6. QED
      BY <3>2, <3>3, <3>4, <3>5
  <2>8. CASE pins.request /\ s.at \in {"NotificationAddress", "NotificationData"}
    <3>1. p2 \in IF s.at = "NotificationAddress"
                 THEN P!FromAddress(q, P!Phases("NotificationData", s.request, 0, {}))
                 ELSE P!FromNotificationData(q, pins)
      BY <1>1, <1>2, <1>4, <2>0, <2>8 DEF P!Clock
    <3>2. \/ p2 = w \/ p2 = i \/ p2 = q \/ p2 = [q EXCEPT !.state = P!Idle, !.got = s.request]
          \/ \E t \in P!Phases("NotificationData", s.request, 0, {}) : p2 = [q EXCEPT !.state = t]
      BY <1>4, <2>1, <2>3, <2>8, <3>1 DEF P!FromAddress, P!FromNotificationData
    <3>3. /\ p2.words = p.words /\ p2.address = p.address
          /\ p2.state.at \notin {"DmaAddress", "DmaData"}
      <4>1. CASE p2 = w
        BY <2>2, <2>8, <4>1
      <4>2. CASE p2 = i
        BY <1>6, <2>4, <4>2
      <4>3. CASE p2 = q
        BY <1>4, <2>8, <4>3
      <4>4. CASE p2 = [q EXCEPT !.state = P!Idle, !.got = s.request]
        <5>1. p2.words = p.words /\ p2.address = p.address /\ p2.state = P!Idle
          BY <1>3, <4>4
        <5>2. QED
          BY <1>6, <5>1
      <4>5. ASSUME NEW t \in P!Phases("NotificationData", s.request, 0, {}),
                   p2 = [q EXCEPT !.state = t]
            PROVE  p2.words = p.words /\ p2.address = p.address /\ p2.state.at \notin {"DmaAddress", "DmaData"}
        <5>1. p2.state = t /\ p2.words = p.words /\ p2.address = p.address
          BY <1>3, <4>5
        <5>2. t.at = "NotificationData"
          BY DEF P!Phases, P!Phase
        <5>3. QED
          BY <5>1, <5>2
      <4>6. QED
        BY <3>2, <4>1, <4>2, <4>3, <4>4, <4>5
    <3>4. QED
      BY <1>1, <2>0, <2>8, <3>3 DEF PeerBurst, Counted
  <2>9. CASE pins.request /\ s.at = "DmaData"
    <3>1. p2 \in P!FromDmaData(q, pins)
      BY <1>1, <1>2, <1>4, <2>0, <2>9 DEF P!Clock
    <3>2. PICK taken : taken = IF P!Reads(q.state) THEN q
                               ELSE [q EXCEPT !.words = Append(@, pins.strobe.value)]
      OBVIOUS
    <3>3. PICK a : a = IF s.request.direction # "HostToDevice"
                       THEN Append(p.words, pins.strobe.value) ELSE p.words
      OBVIOUS
    <3>4. taken = [state |-> s, result |-> None, words |-> a, address |-> p.address, got |-> None]
      <4>1. P!Reads(q.state) <=> s.request.direction = "HostToDevice"
        BY <1>4, <2>9 DEF P!Reads
      <4>2. CASE s.request.direction = "HostToDevice"
        BY <1>3, <3>2, <3>3, <4>1, <4>2
      <4>3. CASE s.request.direction # "HostToDevice"
        <5>1. a = Append(p.words, pins.strobe.value)
          BY <3>3, <4>3
        <5>2. taken = [q EXCEPT !.words = a]
          BY <1>4, <3>2, <4>1, <4>3, <5>1
        <5>3. QED
          BY <1>3, <5>2
      <4>4. QED
        BY <4>2, <4>3
    <3>5. CASE ~Counted(p, pins)
      <4>1. p2 = q \/ p2 = w \/ p2 = i
        BY <1>1, <1>4, <2>1, <2>3, <2>5, <2>9, <3>1, <3>5 DEF P!FromDmaData, Counted
      <4>2. \/ p2.words = p.words /\ p2.address = p.address /\ p2.state = P!Idle
            \/ /\ p2.words = p.words /\ p2.address = p.address /\ p2.state.at = "DmaData" /\ p2.state.request = s.request
               /\ p2.state.beat = s.beat
        BY <1>4, <2>2, <2>4, <2>9, <4>1
      <4>3. QED
        BY <1>1, <1>6, <2>0, <2>9, <3>5, <4>2 DEF PeerBurst
    <3>6. CASE Counted(p, pins)
      <4>1. \/ p2 = [taken EXCEPT !.state = P!Idle]
            \/ \E t \in P!Phases("DmaData", s.request, s.beat + 1, P!DataFaults(s.request)) :
                 p2 = [taken EXCEPT !.state = t]
        <5>1. pins.strobe # None /\ ~(s.wait > 0) /\ s.fault # "Err"
          BY <1>1, <3>6 DEF Counted
        <5>2. p2 \in IF s.beat + 1 = s.request.words THEN {[taken EXCEPT !.state = P!Idle]}
                    ELSE {[taken EXCEPT !.state = next] :
                            next \in P!Phases("DmaData", s.request, s.beat + 1, P!DataFaults(s.request))}
          BY <1>4, <3>1, <3>2, <5>1, Zenon DEF P!FromDmaData
        <5>3. QED
          BY <5>2
      <4>2. /\ p2.words = a /\ p2.address = p.address
            /\ \/ p2.state = P!Idle
               \/ /\ p2.state.at = "DmaData" /\ p2.state.request = s.request
                  /\ p2.state.beat = s.beat + 1
        <5>1. CASE p2 = [taken EXCEPT !.state = P!Idle]
          BY <3>4, <5>1
        <5>2. ASSUME NEW t \in P!Phases("DmaData", s.request, s.beat + 1, P!DataFaults(s.request)),
                     p2 = [taken EXCEPT !.state = t]
              PROVE  /\ p2.words = a /\ p2.address = p.address /\ p2.state.at = "DmaData" /\ p2.state.request = s.request
                     /\ p2.state.beat = s.beat + 1
          <6>1. p2.state = t /\ p2.words = a /\ p2.address = p.address
            BY <3>4, <5>2
          <6>2. t.at = "DmaData" /\ t.request = s.request /\ t.beat = s.beat + 1
            BY DEF P!Phases, P!Phase
          <6>3. QED
            BY <6>1, <6>2
        <5>3. QED
          BY <4>1, <5>1, <5>2
      <4>3. QED
        BY <1>1, <1>6, <2>0, <2>9, <3>3, <3>6, <4>2 DEF PeerBurst
    <3>7. QED
      BY <3>5, <3>6
  <2>10. QED
    BY <1>11, <2>6, <2>7, <2>8, <2>9 DEF PeerPhases
<1>12. QED
  BY <1>5, <1>8, <1>9, <1>10, <1>11

-----------------------------------------------------------------------------
(* One clock of the QIC in a burst.                                                           *)

Fails(n) == \E status \in Statuses \ {"Ok"} : \E c \in Nat : n = Q!DmaComplete(status, c)

BurstWaits(s, bus, v, n) ==
  /\ IF s.buffer # None
     THEN IF s.request.direction = "HostToDevice" THEN ~v.readReady ELSE ~bus.ack
     ELSE IF s.request.direction = "HostToDevice" THEN ~bus.ack ELSE v.write = None
  /\ \E w \in Nat : n = Q!DmaData(s.request, s.completed, w, s.buffer)

ReadMoves(s, bus, v, n) ==
  /\ s.request.direction = "HostToDevice"
  /\ \/ /\ s.buffer # None /\ v.readReady
        /\ n = IF s.completed = s.request.words THEN Q!DmaComplete("Ok", s.completed)
               ELSE Q!DmaData(s.request, s.completed, 0, None)
     \/ /\ s.buffer = None /\ bus.ack /\ bus.data # None
        /\ n = Q!DmaData(s.request, s.completed + 1, 0, bus.data)

WriteMoves(s, bus, v, n) ==
  /\ s.request.direction # "HostToDevice"
  /\ \/ /\ s.buffer # None /\ bus.ack
        /\ n = IF s.completed + 1 = s.request.words THEN Q!DmaComplete("Ok", s.completed + 1)
               ELSE Q!DmaData(s.request, s.completed + 1, 0, None)
     \/ /\ s.buffer = None /\ v.write # None
        /\ n = Q!DmaData(s.request, s.completed, 0, v.write)

BurstMoves(s, bus, v, n) ==
  \/ ForBus(s) /\ n = Q!DmaAddress(s.work.request, 0)
  \/ s.at \in {"DmaAddress", "DmaData"} /\ Fails(n)
  \/ s.at = "DmaAddress" /\ ~bus.ack /\ \E w : n = Q!DmaAddress(s.request, w)
  \/ s.at = "DmaAddress" /\ bus.ack /\ n = Q!DmaData(s.request, 0, 0, None)
  \/ s.at = "DmaData" /\ BurstWaits(s, bus, v, n)
  \/ s.at = "DmaData" /\ ~Q!TimedOut(s.wait) /\ (ReadMoves(s, bus, v, n) \/ WriteMoves(s, bus, v, n))
  \/ s.at = "DmaComplete" /\ n = IF v.completionReady THEN Q!Idle ELSE s

LEMMA FailsIs ==
  ASSUME NEW c \in Nat, NEW status \in {"Timeout", "BusError", "ParityError", "ProtocolError"},
         NEW n, n = Q!DmaComplete(status, c)
  PROVE  Fails(n)
BY DEF Fails, Statuses

LEMMA BurstNext ==
  ASSUME NEW q, QicRecord(q), QicState(q.state), BurstShape(q.state), NEW bus, BusShape(bus), NEW v,
         q.state.at \in {"DmaAddress", "DmaData"}, NEW n, n = Moved(q, bus, v)
  PROVE  BurstMoves(q.state, bus, v, n)
<1>1. PICK s : s = q.state
  OBVIOUS
<1>2. PICK now : now = Now(q, bus)
  OBVIOUS
<1>3. now.state = s
  BY <1>1, <1>2 DEF QicRecord, Now
<1>4. n = Q!NextState(now, bus, v) /\ QicState(s)
  BY <1>1, <1>2, <1>3 DEF Moved
<1>5. PICK w : w = [s EXCEPT !.wait = @ + 1]
  OBVIOUS
<1>6. 0 \in Nat
  OBVIOUS
<1>7. CASE s.at = "DmaAddress"
  <2>1. n = Q!FromDmaAddress(s, bus)
    BY <1>3, <1>4, <1>7 DEF Q!NextState
  <2>2. s = [at |-> "DmaAddress", request |-> s.request, wait |-> s.wait]
    BY <1>4, <1>7 DEF QicState, Q!DmaAddress
  <2>3. w = Q!DmaAddress(s.request, s.wait + 1)
    BY <1>5, <2>2 DEF Q!DmaAddress
  <2>4. \/ n = Q!DmaComplete("Timeout", 0) \/ n = Q!DmaComplete("BusError", 0)
        \/ n = Q!DmaData(s.request, 0, 0, None) /\ bus.ack
        \/ n = w /\ ~bus.ack
    BY <1>5, <2>1 DEF Q!FromDmaAddress, BusShape
  <2>5. QED
    BY <1>1, <1>6, <1>7, <2>3, <2>4, FailsIs DEF BurstMoves
<1>8. CASE s.at = "DmaData"
  <2>1. n = Q!FromDmaData(s, bus, v)
    BY <1>3, <1>4, <1>8 DEF Q!NextState
  <2>2. /\ s = [at |-> "DmaData", request |-> s.request, completed |-> s.completed,
                wait |-> s.wait, buffer |-> s.buffer]
        /\ s.completed \in Nat /\ s.wait \in Nat
    <3>1. s = [at |-> "DmaData", request |-> s.request, completed |-> s.completed,
               wait |-> s.wait, buffer |-> s.buffer]
      BY <1>4, <1>8 DEF QicState, Q!DmaData
    <3>2. s \in Stages
      BY <1>1, <1>8 DEF BurstShape
    <3>3. s \in [at : {"DmaData"}, request : Requests, completed : Nat, wait : Nat,
                 buffer : Handles \cup {None}]
      BY <1>8, <3>2 DEF Stages
    <3>4. QED
      BY <3>1, <3>3
  <2>3. PICK k \in Nat : k = s.wait + 1
    BY <2>2
  <2>4. w = Q!DmaData(s.request, s.completed, k, s.buffer)
    BY <1>5, <2>2, <2>3 DEF Q!DmaData
  <2>5. CASE Q!TimedOut(s.wait)
    <3>1. n = Q!DmaComplete("Timeout", s.completed)
      BY <2>1, <2>5 DEF Q!FromDmaData
    <3>2. Fails(n)
      BY <2>2, <3>1, FailsIs
    <3>3. QED
      BY <1>1, <1>8, <3>2 DEF BurstMoves
  <2>6. CASE ~Q!TimedOut(s.wait) /\ s.request.direction = "HostToDevice"
    <3>1. n = Q!ReadWord(s, bus, v)
      BY <2>1, <2>6 DEF Q!FromDmaData
    <3>2. \/ n = Q!DmaComplete("BusError", s.completed) \/ n = Q!DmaComplete("ParityError", s.completed)
          \/ ReadMoves(s, bus, v, n)
          \/ n = w /\ IF s.buffer # None THEN ~v.readReady ELSE ~bus.ack
      BY <1>5, <2>6, <3>1 DEF Q!ReadWord, ReadMoves
    <3>3. n = w /\ (IF s.buffer # None THEN ~v.readReady ELSE ~bus.ack) => BurstWaits(s, bus, v, n)
      BY <2>4, <2>6 DEF BurstWaits
    <3>4. QED
      BY <1>1, <1>8, <2>2, <2>6, <3>2, <3>3, FailsIs DEF BurstMoves
  <2>7. CASE ~Q!TimedOut(s.wait) /\ s.request.direction # "HostToDevice"
    <3>1. n = Q!WriteWord(s, bus, v)
      BY <2>1, <2>7 DEF Q!FromDmaData
    <3>2. \/ n = Q!DmaComplete("BusError", s.completed)
          \/ WriteMoves(s, bus, v, n)
          \/ n = w /\ IF s.buffer # None THEN ~bus.ack ELSE v.write = None
      BY <1>5, <2>7, <3>1 DEF Q!WriteWord, WriteMoves
    <3>3. n = w /\ (IF s.buffer # None THEN ~bus.ack ELSE v.write = None) => BurstWaits(s, bus, v, n)
      BY <2>4, <2>7 DEF BurstWaits
    <3>4. QED
      BY <1>1, <1>8, <2>2, <2>7, <3>2, <3>3, FailsIs DEF BurstMoves
  <2>8. QED
    BY <2>5, <2>6, <2>7
<1>9. QED
  BY <1>1, <1>7, <1>8

-----------------------------------------------------------------------------
\* What the QIC holds, from one clock to the next.
Keeping(h, q, q2) ==
  /\ h.at # "DmaAddress"
  /\ h.at = "DmaData" => /\ Q!FinalReadBuffer(h)
                         /\ q.state.at \in Q!WorkerStates \/ q2.state.at \in Q!WorkerStates

HoldMoves(q, q2, bus, v) ==
  LET h == Held(q)
      h2 == Held(q2) IN
  \/ h2 = h /\ Keeping(h, q, q2)
  \/ ~InBurst(h) /\ ~InBurst(h2)
  \/ ~InBurst(h) /\ v.dma # None /\ h2 = Q!RequestBus([kind |-> "Dma", request |-> v.dma])
  \/ ForBus(h) /\ ~InBurst(h2)
  \/ h = q.state /\ BurstMoves(h, bus, v, h2)

LEMMA HoldMovesIs ==
  ASSUME NEW q, QicShape(q), BurstShape(Held(q)), NEW bus, BusShape(bus), ~bus.reset, NEW v,
         NEW q2, q2 = Q!Clock(q, bus, v)
  PROVE  HoldMoves(q, q2, bus, v)
<1>0. QicRecord(q) /\ q.grantUsed \in BOOLEAN /\ QicState(q.state) /\ bus.grant \in BOOLEAN
  BY DEF QicShape, QicRecord, BusShape
<1>1. PICK n : n = Moved(q, bus, v)
  OBVIOUS
<1>2. PICK u : u = Aside(q, v)
  OBVIOUS
<1>3. /\ Interrupted(q, bus) =>
           /\ q2.state = Q!StartWorker(bus)
           /\ q2.suspended = IF q.state.at = "RequestBus" THEN q.state.work ELSE q.suspended
           /\ q2.tail = IF q.state.at = "RequestBus" THEN q.tail ELSE q.state
      /\ Lost(q, bus) => GoesTo(q, q2, Q!LoseGrant(q.state), q.suspended)
      /\ Goes(q, bus) => IF n # Q!Idle THEN GoesTo(q, q2, n, u) ELSE Resumes(q, q2, u)
  <2>1. Interrupted(q, bus) => bus.address.valid
    BY DEF Interrupted, BusShape
  <2>2. QED
    BY <1>0, <1>1, <1>2, <2>1, ClockIs
<1>4. QicState(n) /\ MovesTo(q, bus, v, n)
  BY <1>0, <1>1, MovedIs
<1>5. /\ q.suspended # None \/ q.tail # None => q.state.at \in Q!WorkerStates
      /\ q.suspended = None \/ q.tail = None
      /\ q.tail # None => Q!LocalTail(q.tail)
  BY DEF QicShape
<1>6. ASSUME NEW s, s.at \in Q!WorkerStates \cup {"Idle", "NotificationAddress", "NotificationData"}
      PROVE  ~InBurst(s)
  BY <1>6 DEF InBurst, ForBus, Q!WorkerStates
<1>7. \A k : Q!RequestBus(k).at = "RequestBus" /\ Q!RequestBus(k).work = k
  BY MadeStates
<1>8. Q!Idle.at = "Idle"
  BY MadeStates
<1>9. CASE Interrupted(q, bus)
  <2>1. q2.state.at \in Q!WorkerStates
    BY <1>3, <1>9, MadeStates DEF Q!StartWorker, Q!WorkerStates
  <2>2. CASE q.state.at = "RequestBus"
    <3>1. q.suspended = None /\ q.tail = None /\ q.state = Q!RequestBus(q.state.work)
      BY <1>0, <1>5, <2>2 DEF Q!WorkerStates, QicState
    <3>2. Held(q) = q.state
      BY <3>1 DEF Held
    <3>3. q2.suspended = q.state.work /\ q2.tail = None
      BY <1>3, <1>9, <2>2, <3>1
    <3>4. Held(q2) = IF q.state.work # None THEN q.state ELSE q2.state
      BY <3>1, <3>3 DEF Held
    <3>5. Keeping(q.state, q, q2)
      BY <2>2 DEF Keeping
    <3>6. ~InBurst(q.state) \/ ForBus(q.state)
      BY <2>2 DEF InBurst
    <3>7. ~InBurst(q2.state)
      BY <1>6, <2>1
    <3>8. QED
      BY <3>2, <3>4, <3>5, <3>6, <3>7 DEF HoldMoves
  <2>3. CASE q.state.at # "RequestBus"
    <3>1. Q!LocalTail(q.state) /\ q.state.at \in {"DmaComplete", "DmaData"}
      BY <1>9, <2>3 DEF Interrupted, Q!LocalTail
    <3>2. q.suspended = None /\ q.tail = None
      BY <1>5, <3>1 DEF Q!WorkerStates
    <3>3. Held(q) = q.state
      BY <3>2 DEF Held
    <3>4. q.state # None
      BY <3>1, <3>3, NoneIsNoValue DEF BurstShape
    <3>5. Held(q2) = q.state
      BY <1>3, <1>9, <2>3, <3>4 DEF Held
    <3>6. Keeping(q.state, q, q2)
      BY <2>1, <3>1 DEF Keeping, Q!LocalTail
    <3>7. QED
      BY <3>3, <3>5, <3>6 DEF HoldMoves
  <2>4. QED
    BY <2>2, <2>3
<1>10. CASE Lost(q, bus)
  <2>1. q.state.at \in {"DmaAddress", "DmaData", "NotificationAddress", "NotificationData"}
    BY <1>10 DEF Lost, Q!NeedsGrant
  <2>2. q.suspended = None /\ q.tail = None
    BY <1>5, <2>1 DEF Q!WorkerStates
  <2>3. Held(q) = q.state /\ Held(q2) = Q!LoseGrant(q.state)
    BY <1>3, <1>10, <2>2 DEF Held, GoesTo
  <2>4. CASE q.state.at \in {"DmaAddress", "DmaData"}
    <3>1. Fails(Q!LoseGrant(q.state))
      <4>1. CASE q.state.at = "DmaAddress"
        <5>1. Q!LoseGrant(q.state) = Q!DmaComplete("ProtocolError", 0)
          BY <4>1 DEF Q!LoseGrant
        <5>2. 0 \in Nat
          OBVIOUS
        <5>3. QED
          BY <5>1, <5>2, FailsIs
      <4>2. CASE q.state.at = "DmaData"
        <5>1. Q!LoseGrant(q.state) = Q!DmaComplete("ProtocolError", q.state.completed)
          BY <4>2 DEF Q!LoseGrant
        <5>2. q.state \in Stages
          BY <2>3, <4>2 DEF BurstShape
        <5>3. q.state.completed \in Nat
          BY <5>2 DEF Stages
        <5>4. QED
          BY <5>1, <5>3, FailsIs
      <4>3. QED
        BY <2>4, <4>1, <4>2
    <3>2. QED
      BY <2>3, <2>4, <3>1 DEF HoldMoves, BurstMoves
  <2>5. CASE q.state.at \in {"NotificationAddress", "NotificationData"}
    <3>1. Q!LoseGrant(q.state) = Q!Idle
      BY <2>5 DEF Q!LoseGrant
    <3>2. QED
      BY <1>6, <1>8, <2>3, <2>5, <3>1 DEF HoldMoves
  <2>6. QED
    BY <2>1, <2>4, <2>5
<1>11. CASE Goes(q, bus) /\ q.state.at \in Q!WorkerStates
  <2>1. n = Q!Idle \/ n.at \in Q!WorkerStates
    BY <1>4, <1>11 DEF MovesTo
  <2>2. CASE q.tail # None
    <3>1. u = None /\ q.suspended = None
      BY <1>2, <1>5, <2>2 DEF Aside, Q!AcceptsDmaDuringWorker
    <3>2. Held(q) = q.tail /\ Held(q2) = q.tail
      BY <1>3, <1>11, <2>2, <3>1 DEF Held, GoesTo, Resumes
    <3>3. Keeping(q.tail, q, q2)
      BY <1>5, <1>11, <2>2 DEF Keeping, Q!LocalTail
    <3>4. QED
      BY <3>2, <3>3 DEF HoldMoves
  <2>3. CASE q.tail = None /\ q.suspended # None
    <3>1. u = q.suspended
      BY <1>2, <2>3 DEF Aside, Q!AcceptsDmaDuringWorker
    <3>2. Held(q) = Q!RequestBus(u) /\ Held(q2) = Q!RequestBus(u)
      BY <1>3, <1>11, <2>3, <3>1 DEF Held, GoesTo, Resumes
    <3>3. Keeping(Q!RequestBus(u), q, q2)
      BY <1>7 DEF Keeping
    <3>4. QED
      BY <3>2, <3>3 DEF HoldMoves
  <2>4. CASE q.tail = None /\ q.suspended = None
    <3>1. Held(q) = q.state /\ ~InBurst(q.state)
      BY <1>6, <1>11, <2>4 DEF Held
    <3>2. Held(q2) = IF u # None THEN Q!RequestBus(u) ELSE n
      BY <1>3, <1>11, <2>4 DEF Held, GoesTo, Resumes
    <3>3. u # None => v.dma # None /\ u = [kind |-> "Dma", request |-> v.dma]
      BY <1>2, <2>4 DEF Aside, Q!AcceptsDmaDuringWorker
    <3>4. ~InBurst(n)
      BY <1>6, <1>8, <2>1
    <3>5. QED
      BY <3>1, <3>2, <3>3, <3>4 DEF HoldMoves
  <2>5. QED
    BY <2>2, <2>3, <2>4
<1>12. CASE Goes(q, bus) /\ q.state.at \notin Q!WorkerStates
  <2>1. q.tail = None /\ q.suspended = None
    BY <1>5, <1>12
  <2>2. u = None
    BY <1>2, <1>12, <2>1 DEF Aside, Q!AcceptsDmaDuringWorker, Q!WorkerStates
  <2>3. Held(q) = q.state /\ Held(q2) = n
    BY <1>3, <1>12, <2>1, <2>2 DEF Held, GoesTo, Resumes
  <2>4. CASE q.state.at = "Idle"
    <3>1. \/ n = Q!Idle \/ n = Q!StartWorker(bus)
          \/ n = Q!RequestBus([kind |-> "Notification", request |-> v.notification])
          \/ v.dma # None /\ n = Q!RequestBus([kind |-> "Dma", request |-> v.dma])
      BY <1>4, <2>4 DEF MovesTo
    <3>2. ~InBurst(q.state)
      BY <1>6, <2>4
    <3>3. ~InBurst(Q!Idle) /\ ~InBurst(Q!StartWorker(bus))
      BY <1>6, <1>8, MadeStates DEF Q!StartWorker, Q!WorkerStates
    <3>4. ~InBurst(Q!RequestBus([kind |-> "Notification", request |-> v.notification]))
      BY <1>7 DEF InBurst, ForBus
    <3>5. QED
      BY <2>3, <3>1, <3>2, <3>3, <3>4 DEF HoldMoves
  <2>5. CASE q.state.at = "RequestBus"
    <3>1. n = IF ~bus.grant THEN q.state
              ELSE IF q.state.work.kind = "Dma" THEN Q!DmaAddress(q.state.work.request, 0)
              ELSE Q!NotificationAddress(q.state.work.request, 0)
      BY <1>4, <2>5 DEF MovesTo
    <3>2. CASE ~bus.grant
      BY <2>3, <2>5, <3>1, <3>2 DEF HoldMoves, Keeping
    <3>3. CASE bus.grant /\ q.state.work.kind = "Dma"
      BY <2>3, <2>5, <3>1, <3>3 DEF HoldMoves, BurstMoves, ForBus
    <3>4. CASE bus.grant /\ q.state.work.kind # "Dma"
      <4>1. ~InBurst(q.state) /\ n.at = "NotificationAddress"
        BY <2>5, <3>1, <3>4, MadeStates DEF InBurst, ForBus
      <4>2. QED
        BY <1>6, <2>3, <4>1 DEF HoldMoves
    <3>5. QED
      BY <3>2, <3>3, <3>4
  <2>6. CASE q.state.at \in {"DmaAddress", "DmaData"}
    <3>1. BurstMoves(q.state, bus, v, n)
      BY <1>0, <1>1, <2>3, <2>6, BurstNext
    <3>2. QED
      BY <2>3, <3>1 DEF HoldMoves
  <2>7. CASE q.state.at = "DmaComplete"
    <3>1. n = IF v.completionReady THEN Q!Idle ELSE q.state
      BY <1>4, <2>7 DEF MovesTo
    <3>2. QED
      BY <2>3, <2>7, <3>1 DEF HoldMoves, BurstMoves
  <2>8. CASE q.state.at \in {"NotificationAddress", "NotificationData"}
    <3>1. n.at \in {"Idle", "NotificationAddress", "NotificationData"}
      BY <1>4, <1>8, <2>8 DEF MovesTo
    <3>2. QED
      BY <1>6, <2>3, <2>8, <3>1 DEF HoldMoves
  <2>9. QED
    BY <1>0, <1>12, <2>4, <2>5, <2>6, <2>7, <2>8 DEF QicState, Q!WorkerStates
<1>13. QED
  BY <1>9, <1>10, <1>11, <1>12 DEF Goes

-----------------------------------------------------------------------------
(* A request for a burst that the QIC does not take blocks the link.                          *)

\* What the link does meanwhile, and what of it reaches the device.
Blocking(l, qicSignals, d) ==
  LET a == Pending(l, qicSignals) IN
  /\ l.last = "DeviceToQic" \/ (l.last = None /\ a = None) =>
       d.link.last = "DeviceToQic" /\ d.toDevice = L!NoQic
  /\ (l.q2d = None /\ l.last \in {None, "QicToDevice"} /\ OnLink(a, "MmioCancel")) =>
       /\ d.link.q2d = None /\ d.link.last = None
       /\ d.toDevice.cancel /\ d.toDevice.mmio = None
  /\ (l.q2d = None /\ l.last = None /\ OnLink(a, "NotificationCompletion")) =>
       /\ d.link.q2d = None /\ d.link.last = None /\ d.link.done = None
       /\ d.toDevice.mmio = None

LEMMA BlockingIs ==
  ASSUME NEW l, LinkShape(l), OnLink(l.d2q, "DmaRequest"), NEW qicSignals, ~qicSignals.dmaReady,
         l.last \in {None, "QicToDevice", "DeviceToQic"}, NEW dev,
         NEW d, d = L!Cycle(l, FALSE, qicSignals, dev), d.link.d2q # None
  PROVE  Blocking(l, qicSignals, d) /\ d.link.last \in {None, "QicToDevice", "DeviceToQic"}
<1>1. PICK e, c : /\ ClockShape(e) /\ Begun(l, e, qicSignals, dev)
                  /\ ClockShape(c) /\ Slotted(e, c, qicSignals, dev)
                  /\ ClockShape(d) /\ Slotted(c, d, qicSignals, dev)
  BY CycleIs
<1>2. PICK a : a = Pending(l, qicSignals)
  OBVIOUS
<1>3. /\ e.link.q2d = a /\ OnLink(e.link.d2q, "DmaRequest") /\ e.link.last = l.last
      /\ e.toDevice = L!NoQic
  BY <1>1, <1>2 DEF Begun, Pending, OnLink
<1>4. c.link.d2q # None
  BY <1>1 DEF Slotted, Quiet, DeviceGets, QicGets, Same
<1>5. ~QicGets(e, c, qicSignals)
  BY <1>4 DEF QicGets
<1>6. ~QicGets(c, d, qicSignals)
  BY <1>1 DEF QicGets
<1>7. None \notin {"QicToDevice", "DeviceToQic"}
  BY NoneIsNoValue
<1>8. d.link.last \in {None, "QicToDevice", "DeviceToQic"}
  BY <1>1 DEF Slotted, Turns
<1>9. CASE l.last = "DeviceToQic" \/ (l.last = None /\ a = None)
  <2>1. c.link.last = "DeviceToQic" /\ Quiet(e, c)
    BY <1>1, <1>3, <1>5, <1>9 DEF Slotted, Turns, OnLink
  <2>2. d.link.last = "DeviceToQic" /\ Quiet(c, d)
    BY <1>1, <1>4, <1>6, <2>1 DEF Slotted, Turns
  <2>3. d.toDevice = L!NoQic
    BY <1>3, <2>1, <2>2 DEF Quiet
  <2>4. QED
    BY <1>2, <1>7, <1>8, <1>9, <2>2, <2>3 DEF Blocking, OnLink
<1>10. CASE /\ l.q2d = None /\ l.last \in {None, "QicToDevice"}
            /\ OnLink(a, "MmioCancel") \/ OnLink(a, "NotificationCompletion")
  <2>1. a.left = 1 /\ (a.tag = "NotificationCompletion" => a.body = L!Notified(l, qicSignals).done)
    BY <1>2, <1>10 DEF Pending, L!ToDeviceMessage, L!Message, OnLink
  <2>2. L!DeviceTakes(a.tag, dev)
    BY <1>10 DEF L!DeviceTakes, OnLink
  <2>3. c.link.last = "QicToDevice" /\ DeviceGets(e, c, dev)
    BY <1>1, <1>3, <1>10, <2>1, <2>2 DEF Slotted, Turns, OnLink
  <2>4. c.link.q2d = None
    BY <2>3 DEF DeviceGets
  <2>5. d.link.last = None /\ Quiet(c, d)
    BY <1>1, <2>3, <2>4 DEF Slotted, Turns
  <2>6. d.link.q2d = None
    BY <2>4, <2>5 DEF Quiet, Same
  <2>7. /\ d.toDevice.cancel = IF a.tag = "MmioCancel" THEN TRUE ELSE FALSE
        /\ d.toDevice.mmio = None
    <3>1. d.toDevice = c.toDevice
      BY <2>5 DEF Quiet
    <3>2. L!NoQic.cancel = FALSE /\ L!NoQic.mmio = None
      BY DEF L!NoQic
    <3>3. a.tag # "MmioRequest"
      BY <1>10 DEF OnLink
    <3>4. QED
      BY <1>3, <2>3, <3>1, <3>2, <3>3 DEF DeviceGets
  <2>8. a.tag = "NotificationCompletion" => d.link.done = None
    <3>1. e.link.done = L!Notified(l, qicSignals).done
      <4>1. PICK n : n = L!Notified(l, qicSignals)
        OBVIOUS
      <4>2. n.done = IF Done(l, qicSignals) THEN l.held ELSE l.done
        BY <4>1, NotifiedIs
      <4>3. QED
        BY <1>1, <4>1, <4>2 DEF Begun
    <3>2. a.tag = "NotificationCompletion" => c.link.done = None
      BY <1>3, <2>1, <2>3, <3>1 DEF DeviceGets
    <3>3. QED
      BY <2>5, <3>2 DEF Quiet
  <2>9. l.last # "DeviceToQic" /\ ~(l.last = None /\ a = None)
    BY <1>7, <1>10 DEF OnLink
  <2>10. QED
    BY <1>2, <1>8, <1>10, <2>5, <2>6, <2>7, <2>8, <2>9 DEF Blocking, OnLink
<1>11. CASE ~(l.last = "DeviceToQic" \/ (l.last = None /\ a = None))
            /\ ~(OnLink(a, "MmioCancel") \/ OnLink(a, "NotificationCompletion"))
  BY <1>2, <1>8, <1>11 DEF Blocking
<1>12. CASE l.q2d # None /\ ~(l.last = "DeviceToQic" \/ (l.last = None /\ a = None))
  BY <1>2, <1>8, <1>12 DEF Blocking
<1>13. QED
  BY <1>9, <1>10, <1>11, <1>12

-----------------------------------------------------------------------------
(* The chip's request on the link.                                                            *)

\* Which register accesses the QIC is with after a clock.
AfterClock(q, q2, signals) ==
  /\ signals.cancel => q2.state.at \notin Q!WorkerStates
  /\ q.state.at \notin Q!WorkerStates =>
       q2.state.at \notin Q!WorkerStates \/ q2.state.at \in {"WorkerReadData", "WorkerWriteData"}
  /\ signals.notified => q.state.at = "NotificationData"

LEMMA AfterClockIs ==
  ASSUME NEW q, QicShape(q), NEW bus, BusShape(bus), ~bus.reset, NEW v, NEW u,
         NEW signals, signals = Q!ToDevice(q, bus, v), NEW q2, q2 = Q!Clock(q, bus, u)
  PROVE  AfterClock(q, q2, signals)
<1>1. QicRecord(q) /\ QicState(q.state)
  BY DEF QicShape, QicRecord
<1>2. signals.cancel = Q!Cancels(q.state) /\ signals.notified = Q!Notified(q.state, bus, v)
  BY DEF Q!ToDevice
<1>3. ASSUME NEW w, Resumes(q, q2, w)
      PROVE  q2.state.at \notin Q!WorkerStates
  BY <1>3, MadeStates DEF Resumes, QicShape, Q!LocalTail, Q!WorkerStates
<1>4. signals.cancel => q2.state.at \notin Q!WorkerStates
  <2>1. SUFFICES ASSUME q.state.at = "WorkerResponse", Q!TimedOut(q.state.wait)
                 PROVE  q2.state.at \notin Q!WorkerStates
    BY <1>2 DEF Q!Cancels
  <2>2. q.state.at \in Q!WorkerStates /\ Q!WorkerReply(q.state, bus, u) = "Err"
    BY <2>1 DEF Q!WorkerStates, Q!WorkerReply
  <2>3. QED
    BY <1>3, <2>2, QicWorking
<1>5. ASSUME q.state.at \notin Q!WorkerStates
      PROVE  q2.state.at \notin Q!WorkerStates \/ q2.state.at \in {"WorkerReadData", "WorkerWriteData"}
  <2>1. Q!StartWorker(bus).at \in {"WorkerReadData", "WorkerWriteData"}
    BY MadeStates DEF Q!StartWorker
  <2>2. CASE Interrupted(q, bus)
    <3>1. q2.state \in {q.state, Q!StartWorker(bus)}
      BY <1>1, <2>2, ClockIs DEF BusShape, QicShape, GoesTo
    <3>2. QED
      BY <1>5, <2>1, <3>1
  <2>3. CASE Lost(q, bus)
    <3>1. q2.state = Q!LoseGrant(q.state) /\ Q!NeedsGrant(q.state)
      BY <1>1, <2>3, ClockIs DEF BusShape, QicShape, GoesTo, Lost
    <3>2. q2.state.at \in {"DmaComplete", "Idle"}
      BY <1>1, <3>1, LostIs
    <3>3. QED
      BY <3>2 DEF Q!WorkerStates
  <2>4. CASE Goes(q, bus)
    <3>1. PICK n : n = Moved(q, bus, u)
      OBVIOUS
    <3>2. GoesTo(q, q2, n, Aside(q, u)) \/ Resumes(q, q2, Aside(q, u))
      BY <1>1, <2>4, <3>1, ClockIs DEF BusShape, QicShape
    <3>3. MovesTo(q, bus, u, n)
      BY <1>1, <3>1, MovedIs DEF QicShape
    <3>4. n.at \notin Q!WorkerStates \/ n = Q!StartWorker(bus)
      BY <1>1, <1>5, <3>3, MadeStates DEF MovesTo, QicState, Q!WorkerStates
    <3>5. QED
      BY <1>3, <2>1, <3>2, <3>4 DEF GoesTo
  <2>5. QED
    BY <2>2, <2>3, <2>4 DEF Goes
<1>6. signals.notified => q.state.at = "NotificationData"
  BY <1>2 DEF Q!Notified
<1>7. QED
  BY <1>4, <1>5, <1>6 DEF AfterClock

-----------------------------------------------------------------------------
(* One clock of the card, by what it does to a burst.                                         *)

ToChip == Moves.toDevice
ToCard == ToQic(Moves.toQic)
Drive  == EndpointDrive(endpoint, EndpointPort(qdx, FALSE))

SignalsFit(q, bus, v, signals) ==
  LET s == q.state
      h == Held(q) IN
  /\ signals.read # None =>
       h = s /\ s.at = "DmaData" /\ s.request.direction = "HostToDevice" /\ signals.read = s.buffer
  /\ signals.completion # None => h = s /\ s.at = "DmaComplete" /\ signals.completion = s
  /\ signals.writeReady =>
       /\ h = s /\ s.at = "DmaData" /\ s.request.direction # "HostToDevice" /\ s.buffer = None
  /\ signals.dmaReady => v.dma # None /\ ~InBurst(h)
  /\ signals.mmio # None => s.at = "WorkerOffer"
  /\ signals.cancel => s.at = "WorkerResponse" /\ Q!TimedOut(s.wait)

LEMMA SignalsFitIs ==
  ASSUME NEW q, QicShape(q), NEW bus, NEW v, NEW signals, signals = Q!ToDevice(q, bus, v)
  PROVE  SignalsFit(q, bus, v, signals)
<1>1. /\ q.suspended # None \/ q.tail # None => q.state.at \in Q!WorkerStates
  BY DEF QicShape
<1>2. q.state.at \notin Q!WorkerStates => Held(q) = q.state
  BY <1>1 DEF Held
<1>3. signals.dmaReady => v.dma # None /\ ~InBurst(Held(q))
  <2>1. signals.dmaReady = (Q!AcceptsDmaWhenIdle(q, bus, v) \/ Q!AcceptsDmaDuringWorker(q, v))
    BY DEF Q!ToDevice
  <2>2. CASE Q!AcceptsDmaWhenIdle(q, bus, v)
    <3>1. q.state.at = "Idle" /\ v.dma # None
      BY <2>2, MadeStates DEF Q!AcceptsDmaWhenIdle
    <3>2. Held(q) = q.state
      BY <1>2, <3>1 DEF Q!WorkerStates
    <3>3. QED
      BY <3>1, <3>2 DEF InBurst, ForBus
  <2>3. CASE Q!AcceptsDmaDuringWorker(q, v)
    <3>1. Held(q) = q.state /\ q.state.at \in {"WorkerOffer", "WorkerResponse"} /\ v.dma # None
      BY <2>3 DEF Q!AcceptsDmaDuringWorker, Held
    <3>2. QED
      BY <3>1 DEF InBurst, ForBus
  <2>4. QED
    BY <2>1, <2>2, <2>3
<1>4. signals.read # None =>
        /\ q.state.at = "DmaData" /\ q.state.request.direction = "HostToDevice"
        /\ signals.read = q.state.buffer
  BY DEF Q!ToDevice
<1>5. signals.completion # None => q.state.at = "DmaComplete" /\ signals.completion = q.state
  BY DEF Q!ToDevice
<1>6. signals.writeReady =>
        q.state.at = "DmaData" /\ q.state.request.direction # "HostToDevice" /\ q.state.buffer = None
  BY DEF Q!ToDevice
<1>7. signals.mmio # None => q.state.at = "WorkerOffer"
  BY DEF Q!ToDevice
<1>8. signals.cancel => q.state.at = "WorkerResponse" /\ Q!TimedOut(q.state.wait)
  BY DEF Q!ToDevice, Q!Cancels
<1>9. QED
  BY <1>2, <1>3, <1>4, <1>5, <1>6, <1>7, <1>8 DEF SignalsFit, Q!WorkerStates

\* Of a response, the QIC sees its kind.
LEMMA SeenByQic ==
  ASSUME NEW t, QicSide(t), NEW v, v = ToQic(t)
  PROVE  /\ v.mmioReady = t.mmioReady /\ v.readReady = t.readReady
         /\ v.completionReady = t.completionReady /\ v.dma = t.dma /\ v.write = t.write
         /\ v.notification = t.notification
<1>1. PICK r : r = IF t.response = None THEN None ELSE t.response.kind
  OBVIOUS
<1>2. v = [t EXCEPT !.response = r]
  BY <1>1 DEF ToQic
<1>3. QED
  BY <1>2 DEF QicSide

Clocked(a, b) ==
  /\ Carried(Moves, a, b, Signals, Device)
  /\ ToDeviceIs(a, link, Signals) /\ ToQicIs(b, link, Signals, Device)
  /\ link' = Moves.link /\ link'.last \in {None, "QicToDevice", "DeviceToQic"}
  /\ OnLink(link.d2q, "DmaRequest") /\ ~Signals.dmaReady /\ link'.d2q # None =>
       Blocking(link, Signals, Moves)
  /\ StateAccess(qdx, ToChip, qdx') \/ EngineClock(qdx, ToChip, Drive, qdx')
  /\ Based(qdx) => Based(qdx')
  /\ endpoint' = EndpointClock(endpoint, EndpointPort(qdx, FALSE))
  /\ SignalsFit(qic, Bus, Device, Signals)
  /\ HoldMoves(qic, qic', Bus, ToCard) /\ AfterClock(qic, qic', Signals)
  /\ ToCard.readReady = Moves.toQic.readReady /\ ToCard.completionReady = Moves.toQic.completionReady
  /\ ToCard.dma = Moves.toQic.dma /\ ToCard.write = Moves.toQic.write
  /\ PeerBurst(peer, Pins, peer') /\ PeerMoves(peer, Pins, peer')

LEMMA ClockedIs ==
  ASSUME RoomInv, BurstsShaped, CardClock
  PROVE  \E a, b : Clocked(a, b)
<1>0. ShapeInv /\ AccessesLegal /\ ChipRoom(qdx)
  BY RoomIs
<1>1. /\ BusShape(Bus) /\ ~Bus.reset /\ Bus.reset = FALSE
      /\ link' = Moves.link
      /\ qic' = Q!Clock(qic, Bus, ToCard) /\ QicShape(qic')
      /\ PeerMoves(peer, Pins, peer')
  BY <1>0, CardClockIs, BusIs DEF ShapeInv, Bus, ToCard
<1>b. BurstShape(Held(qic)) /\ link.last \in {None, "QicToDevice", "DeviceToQic"}
  BY DEF BurstsShaped
<1>e. Moves.link.last \in {None, "QicToDevice", "DeviceToQic"}
  BY <1>0, CarriedCycle DEF Moves, ShapeInv
<1>2. PICK a, b : /\ Carried(Moves, a, b, Signals, Device)
                  /\ ToDeviceIs(a, link, Signals) /\ ToQicIs(b, link, Signals, Device)
  BY <1>0, CarriedCycle DEF Moves, ShapeInv
<1>3. ToChip.reset = FALSE
  BY <1>2 DEF Carried, ToChip
<1>4. Step(Bus)
  BY DEF CardClock, Bus
<1>5. Moves = L!Cycle(link, Bus.reset, Signals, Device)
  BY <1>1 DEF Moves
<1>6. /\ qdx' = Advance(qdx, ToChip, Drive)
      /\ endpoint' = EndpointClock(endpoint, EndpointPort(qdx, FALSE))
      /\ \E data : peer' \in P!Clock(peer, Pins, data)
  <2>1. /\ qdx' = Advance(qdx, Moves.toDevice, EndpointDrive(endpoint, EndpointPort(qdx, Moves.toDevice.reset)))
        /\ endpoint' = EndpointClock(endpoint, EndpointPort(qdx, Moves.toDevice.reset))
        /\ \E data : peer' \in P!Clock(peer, Pins, data)
    BY <1>1, <1>4, <1>5 DEF Step, Signals, Device, Pins
  <2>2. Moves.toDevice.reset = FALSE
    BY <1>3 DEF ToChip
  <2>3. QED
    BY <2>1, <2>2 DEF ToChip, Drive
<1>7. ToChip.mmio # None => Legal(ToChip.mmio)
  <2>1. Signals.mmio # None => Legal(Signals.mmio)
    BY <1>0 DEF Signals, Q!ToDevice, AccessesLegal
  <2>2. LegalClock(Moves)
    BY <1>0, <2>1, LegalCycle DEF Moves, AccessesLegal, ShapeInv
  <2>3. QED
    BY <2>2 DEF LegalClock, ToChip
<1>8. /\ StateAccess(qdx, ToChip, qdx') \/ EngineClock(qdx, ToChip, Drive, qdx')
      /\ Based(qdx) => Based(qdx')
  BY <1>0, <1>3, <1>6, <1>7, ChipMoves
<1>9. SignalsFit(qic, Bus, Device, Signals)
  <2>1. SignalsFit(qic, Bus, ToQic(Device), Signals)
    BY <1>0, SignalsFitIs DEF Signals, ShapeInv
  <2>2. ToQic(Device).dma = Device.dma
    <3>1. QicSide(Device)
      BY DEF QicSide, Device, QicPort
    <3>2. QED
      BY <3>1, SeenByQic
  <2>3. QED
    BY <2>1, <2>2 DEF SignalsFit
<1>10. HoldMoves(qic, qic', Bus, ToCard)
  BY <1>0, <1>1, <1>b, HoldMovesIs DEF ShapeInv
<1>c. AfterClock(qic, qic', Signals)
  BY <1>0, <1>1, AfterClockIs DEF ShapeInv, Signals
<1>d. OnLink(link.d2q, "DmaRequest") /\ ~Signals.dmaReady /\ link'.d2q # None =>
        Blocking(link, Signals, Moves)
  BY <1>0, <1>1, <1>b, BlockingIs DEF ShapeInv, Moves
<1>11. QicSide(Moves.toQic)
  <2>1. PICK c, e : ClockShape(Moves) /\ c = e
    BY <1>0, CycleIs DEF Moves, ShapeInv
  <2>2. QED
    BY <2>1 DEF ClockShape
<1>12. PeerBurst(peer, Pins, peer')
  BY <1>0, <1>6, PeerBurstIs DEF ShapeInv
<1>13. /\ ToCard.readReady = Moves.toQic.readReady /\ ToCard.completionReady = Moves.toQic.completionReady
       /\ ToCard.dma = Moves.toQic.dma /\ ToCard.write = Moves.toQic.write
  BY <1>11, SeenByQic DEF ToCard
<1>14. Clocked(a, b)
  BY <1>1, <1>2, <1>6, <1>8, <1>9, <1>10, <1>c, <1>d, <1>e, <1>12, <1>13 DEF Clocked
<1>15. QED
  BY <1>14

-----------------------------------------------------------------------------
(* The words of a command and of a completion.                                                *)

LEMMA HandleIs ==
  ASSUME NEW base \in Handles, NEW offset \in Int, NEW h, h = [base EXCEPT !.offset = offset]
  PROVE  h \in Handles /\ h = [binding |-> base.binding, offset |-> offset]
BY DEF Handles

LEMMA EntryShaped ==
  ASSUME NEW base \in Handles, NEW position \in Int, NEW words \in Nat
  PROVE  Entry(base, position, words) \in Handles
<1>1. PICK k : k = (base.offset + (position % Ring) * words * WordSize) % Window
  OBVIOUS
<1>2. k \in Int
  <2>1. base.offset \in Int /\ Ring \in Nat \ {0} /\ Window \in Nat \ {0}
    BY QueueAssumption DEF Handles
  <2>2. PICK r \in Int : r = position % Ring
    BY <2>1
  <2>3. PICK m \in Int : m = r * words * WordSize
    BY DEF WordSize
  <2>4. base.offset + m \in Int
    BY <2>1
  <2>5. QED
    BY <1>1, <2>1, <2>2, <2>3, <2>4
<1>3. Entry(base, position, words) = [base EXCEPT !.offset = k]
  BY <1>1 DEF Entry
<1>4. QED
  BY <1>2, <1>3, HandleIs

LEMMA WordShaped ==
  ASSUME NEW handle \in Handles, NEW words \in Nat, NEW i \in 0..words - 1
  PROVE  /\ Words(handle, words)[i] \in Handles
         /\ \A r : r.handle = handle => P!Word(r, i) = Words(handle, words)[i]
<1>1. PICK o \in Int : o = handle.offset + 4 * i
  BY DEF Handles
<1>2. Words(handle, words)[i] = [handle EXCEPT !.offset = o]
  BY <1>1 DEF Words
<1>3. \A r : r.handle = handle => P!Word(r, i) = [handle EXCEPT !.offset = o]
  BY <1>1 DEF P!Word
<1>4. QED
  BY <1>2, <1>3, HandleIs

\* The request of the chip, and the burst it waits for.
FetchOf(d) == [direction |-> "HostToDevice", handle |-> Entry(d.sqBase, d.sqHead, SqWords),
               words |-> SqWords]
PublishOf(d) == [direction |-> "DeviceToHost", handle |-> Entry(d.cqBase, d.cqTail, CqWords),
                 words |-> CqWords]

LEMMA WantedIs ==
  ASSUME NEW d, ChipShape(d)
  PROVE  /\ Wanted(d) = IF d.state \in Fetching THEN FetchOf(d) ELSE PublishOf(d)
         /\ d.state \in Requesting => DmaRequest(d) = Wanted(d)
         /\ d.state \notin Requesting => DmaRequest(d) = None
<1>1. PICK s : s = IF d.state \in Fetching THEN "SqRequest" ELSE "CqRequest"
  OBVIOUS
<1>2. PICK e : e = [d EXCEPT !.state = s]
  OBVIOUS
<1>3. /\ e.state = s /\ e.sqBase = d.sqBase /\ e.sqHead = d.sqHead /\ e.cqBase = d.cqBase
      /\ e.cqTail = d.cqTail
  BY <1>2 DEF ChipShape
<1>4. Wanted(d) = DmaRequest(e)
  BY <1>1, <1>2 DEF Wanted
<1>5. DmaRequest(e) = IF s = "SqRequest" THEN FetchOf(d) ELSE PublishOf(d)
  BY <1>1, <1>3 DEF DmaRequest, FetchOf, PublishOf
<1>6. Wanted(d) = IF d.state \in Fetching THEN FetchOf(d) ELSE PublishOf(d)
  BY <1>1, <1>4, <1>5
<1>7. d.state \in Requesting => DmaRequest(d) = IF d.state = "SqRequest" THEN FetchOf(d) ELSE PublishOf(d)
  BY DEF DmaRequest, Requesting, FetchOf, PublishOf
<1>8. QED
  BY <1>6, <1>7 DEF Requesting, Fetching, DmaRequest

LEMMA RequestShaped ==
  ASSUME NEW d, ChipRoom(d), Based(d)
  PROVE  FetchOf(d) \in Requests /\ PublishOf(d) \in Requests /\ Wanted(d) \in Requests
<1>1. d.sqHead \in Int /\ d.cqTail \in Int /\ SqWords \in Nat \ {0} /\ CqWords \in Nat \ {0}
  BY QueueAssumption DEF ChipRoom
<1>2. /\ Entry(d.sqBase, d.sqHead, SqWords) \in Handles
      /\ Entry(d.cqBase, d.cqTail, CqWords) \in Handles
  BY <1>1, EntryShaped DEF Based
<1>3. FetchOf(d) \in Requests /\ PublishOf(d) \in Requests
  BY <1>1, <1>2 DEF FetchOf, PublishOf, Requests
<1>4. QED
  BY <1>3, WantedIs DEF ChipRoom

\* The command fetched last, once SQ_HEAD has moved.
LEMMA FetchedIs ==
  ASSUME NEW position \in 0..Positions - 1
  PROVE  Minus(Plus1(position), 1) = position
<1>1. Positions \in Nat \ {0} /\ 1 \in 0..Positions - 1
  <2>1. Ring \in Nat \ {0} /\ Positions \in Nat /\ Ring < Positions
    BY QueueAssumption
  <2>2. QED
    BY <2>1
<1>2. Plus1(position) = IF position = Positions - 1 THEN 0 ELSE position + 1
  BY Plus1Is
<1>3. Plus1(position) \in 0..Positions - 1
  BY Plus1Is
<1>4. Minus(Plus1(position), 1) = IF Plus1(position) >= 1 THEN Plus1(position) - 1
                                  ELSE Plus1(position) - 1 + Positions
  BY <1>1, <1>3, MinusIs
<1>5. QED
  BY <1>1, <1>2, <1>3, <1>4

\* Each word of the completion repeats one of the command.
LEMMA EchoedIs ==
  ASSUME NEW i \in 0..CqWords - 1
  PROVE  Echoed(i) \in 0..SqWords - 1
<1>1. SqWords \in Nat \ {0} /\ CqWords \in Nat \ {0} /\ CqWords <= SqWords
  BY QueueAssumption
<1>2. QED
  BY <1>1 DEF Echoed

LEMMA PresentShaped ==
  ASSUME ChipRoom(qdx), Based(qdx), NEW i \in 0..CqWords - 1
  PROVE  Present[i] \in Handles
<1>1. Minus(qdx.sqHead, 1) \in Int
  <2>1. Positions \in Nat \ {0} /\ qdx.sqHead \in Int
    BY QueueAssumption DEF ChipRoom
  <2>2. QED
    BY <2>1 DEF Minus
<1>2. SqWords \in Nat
  BY QueueAssumption
<1>3. Fetched \in Handles
  BY <1>1, <1>2, EntryShaped DEF Fetched, Based
<1>4. Words(Fetched, SqWords)[Echoed(i)] \in Handles
  BY <1>2, <1>3, EchoedIs, WordShaped
<1>5. QED
  BY <1>4 DEF Present, MakeCompletion

\* The chip asks for the same burst as long as it is in the same state.
LEMMA SameWanted ==
  ASSUME NEW d, ChipShape(d), NEW e, ChipShape(e), SameBases(d, e), e.sqHead = d.sqHead,
         e.cqTail = d.cqTail, e.state \in Fetching <=> d.state \in Fetching
  PROVE  Wanted(e) = Wanted(d)
<1>1. FetchOf(e) = FetchOf(d) /\ PublishOf(e) = PublishOf(d)
  BY DEF FetchOf, PublishOf, SameBases
<1>2. QED
  BY <1>1, WantedIs

\* An access that puts the chip in service, or out of it, leaves an answer to be sent.
LEMMA AccessAnswered ==
  ASSUME NEW d, NEW qli, NEW e, StateAccess(d, qli, e)
  PROVE  /\ qli.mmio # None /\ d.response = None /\ e.response # None /\ ChipShape(e)
         /\ e.state \in {"Disabled", "Fault"} \/ (d.state = "Disabled" /\ e.state = "ReadyIdle")
         /\ d.state \notin {"Disabled", "Fault"} => e.state \in {"Disabled", "Fault"}
<1>1. None \notin {WriteOk, Refused}
  BY NoneIsNoValue DEF Answers
<1>2. e = Accepted(HardReset) => e.state = "Disabled"
  BY ResetIs
<1>3. QED
  BY <1>1, <1>2 DEF StateAccess

LEMMA RequestKept ==
  ASSUME RoomInv, WholeInv, NEW a, NEW b, Clocked(a, b)
  PROVE  RequestOnLink'
<1>0. /\ ShapeInv /\ ChipShape(qdx) /\ RequestOnLink
      /\ Carried(Moves, a, b, Signals, Device)
      /\ ToDeviceIs(a, link, Signals) /\ ToQicIs(b, link, Signals, Device)
      /\ link' = Moves.link
      /\ SignalsFit(qic, Bus, Device, Signals)
      /\ AfterClock(qic, qic', Signals)
  BY DEF RoomInv, ShapeInv, WholeInv, Clocked
<1>1. SUFFICES ASSUME OnLink(link'.d2q, "DmaRequest")
               PROVE  /\ ~InBurst(Held(qic'))
                      /\ IF qdx'.state \in Requesting THEN link'.d2q.body = DmaRequest(qdx')
                         ELSE Stuck(qdx', link', qic')
  BY DEF RequestOnLink
<1>2. OnLink(b, "DmaRequest") /\ b.body = link'.d2q.body /\ link'.d2q # None
  BY <1>0, <1>1 DEF Carried, Same, OnLink
<1>3. ~ToChip.dmaReady /\ ToCard.dma = None /\ ~ToChip.responseReady
  <2>1. ~(Moves.toDevice.dmaReady \/ Moves.toQic.dma # None) /\ ~Moves.toDevice.responseReady
    BY <1>0, <1>2 DEF Carried, OnLink
  <2>2. ToCard.dma = Moves.toQic.dma
    BY DEF Clocked
  <2>3. QED
    BY <2>1, <2>2 DEF ToChip
<1>4. Device.dma = DmaRequest(qdx) /\ Device.mmioReady = (qdx.response = None)
  BY DEF Device, QicPort
<1>5. link.d2q = None => Signals.dmaReady /\ Device.dma # None /\ b.body = Device.dma
  BY <1>0, <1>2 DEF ToQicIs, OnLink
<1>6. link.d2q # None => OnLink(link.d2q, "DmaRequest") /\ b.body = link.d2q.body
  BY <1>0, <1>2 DEF ToQicIs
<1>7. ~InBurst(Held(qic))
  <2>1. CASE link.d2q = None
    BY <1>0, <1>5, <2>1 DEF SignalsFit
  <2>2. CASE link.d2q # None
    BY <1>0, <1>6, <2>2 DEF RequestOnLink
  <2>3. QED
    BY <2>1, <2>2
<1>8. ~InBurst(Held(qic'))
  <2>1. HoldMoves(qic, qic', Bus, ToCard)
    BY DEF Clocked
  <2>2. ~BurstMoves(Held(qic), Bus, ToCard, Held(qic'))
    BY <1>7 DEF BurstMoves, InBurst
  <2>3. ~ForBus(Held(qic))
    BY <1>7 DEF InBurst
  <2>4. QED
    BY <1>3, <1>7, <2>1, <2>2, <2>3 DEF HoldMoves
<1>9. CASE qdx.state \in Requesting
  <2>1. b.body = DmaRequest(qdx)
    BY <1>0, <1>4, <1>5, <1>6, <1>9 DEF RequestOnLink
  <2>2. CASE StateAccess(qdx, ToChip, qdx')
    <3>1. /\ ToChip.mmio # None /\ qdx'.response # None
          /\ qdx'.state \in {"Disabled", "Fault"}
      BY <1>9, <2>2, AccessAnswered DEF Requesting
    <3>2. link'.q2d = None
      BY <1>0, <3>1 DEF Carried, ToChip
    <3>3. Stuck(qdx', link', qic')
      BY <3>1, <3>2 DEF Stuck
    <3>4. QED
      BY <1>8, <3>1, <3>3 DEF Requesting
  <2>3. CASE EngineClock(qdx, ToChip, Drive, qdx')
    <3>1. /\ ChipShape(qdx') /\ SameBases(qdx, qdx')
          /\ Stays(qdx, ToChip, Drive, qdx')
      BY <1>3, <1>9, <2>3 DEF EngineClock, Engine, Requesting, RequestTaken, WordTaken, WordGiven,
         BurstDone, CompletionTaken, Goes1
    <3>2. qdx'.state = qdx.state /\ qdx'.sqHead = qdx.sqHead /\ qdx'.cqTail = qdx.cqTail
      BY <3>1 DEF Stays, Keeps
    <3>3. DmaRequest(qdx') = DmaRequest(qdx)
      BY <1>0, <1>9, <3>1, <3>2, SameWanted, WantedIs
    <3>4. QED
      BY <1>2, <1>8, <1>9, <2>1, <3>2, <3>3
  <2>4. QED
    BY <2>2, <2>3 DEF Clocked
<1>10. CASE qdx.state \notin Requesting
  <2>1. Device.dma = None
    BY <1>0, <1>4, <1>10, WantedIs
  <2>2. OnLink(link.d2q, "DmaRequest") /\ Stuck(qdx, link, qic)
    BY <1>0, <1>5, <1>6, <1>10, <2>1 DEF RequestOnLink
  <2>3. ~Signals.dmaReady
    BY <1>0, <2>1 DEF SignalsFit
  <2>4. Blocking(link, Signals, Moves) /\ link'.last \in {None, "QicToDevice", "DeviceToQic"}
    BY <1>2, <2>2, <2>3 DEF Clocked
  <2>5. a = Pending(link, Signals)
    BY <1>0 DEF ToDeviceIs
  <2>6. qdx.state \in {"Disabled", "Fault"}
    BY <2>2 DEF Stuck
  <2>7. link.q2d = None => ~OnLink(a, "DmaRead") /\ ~OnLink(a, "DmaCompletion")
    <3>1. Signals.read = None /\ Signals.completion = None
      BY <1>0, <1>7 DEF SignalsFit, InBurst
    <3>2. QED
      BY <1>0, <3>1 DEF ToDeviceIs, OnLink
  <2>8. ToChip.mmio = None
    <3>1. SUFFICES ASSUME ToChip.mmio # None PROVE FALSE
      OBVIOUS
    <3>2. OnLink(a, "MmioRequest") /\ qdx.response = None
      BY <1>0, <1>4, <3>1 DEF Carried, ToChip
    <3>3. CASE link.last = "DeviceToQic"
      <4>1. ToChip = L!NoQic
        BY <2>4, <3>3 DEF Blocking, ToChip
      <4>2. QED
        BY <3>1, <4>1 DEF L!NoQic
    <3>4. CASE link.last # "DeviceToQic"
      <4>1. /\ link.q2d = None
            /\ qic.state.at \notin Q!WorkerStates \/ qic.state.at \in {"WorkerReadData", "WorkerWriteData"}
        BY <2>2, <3>2, <3>4 DEF Stuck
      <4>2. qic.state.at = "WorkerOffer"
        BY <1>0, <3>2, <4>1 DEF ToDeviceIs, OnLink, SignalsFit
      <4>3. QED
        BY <4>1, <4>2 DEF Q!WorkerStates
    <3>5. QED
      BY <3>3, <3>4
  <2>9. /\ qdx'.state = qdx.state
        /\ qdx'.response = IF qdx.response # None /\ ToChip.cancel THEN None ELSE qdx.response
    <3>1. EngineClock(qdx, ToChip, Drive, qdx')
      BY <2>8, AccessAnswered DEF Clocked
    <3>2. Stays(qdx, ToChip, Drive, qdx')
      BY <2>6, <3>1 DEF EngineClock, Engine, RequestTaken, WordTaken, WordGiven,
         BurstDone, CompletionTaken, Goes1
    <3>3. QED
      BY <1>3, <2>8, <3>1, <3>2 DEF EngineClock, Stays
  <2>10. Stuck(qdx', link', qic')
    <3>1. qdx'.state \in {"Disabled", "Fault"}
      BY <2>6, <2>9
    <3>2. CASE link.last = "DeviceToQic" \/ (link.last = None /\ a = None)
      <4>1. link'.last = "DeviceToQic"
        BY <1>0, <2>4, <2>5, <3>2 DEF Blocking
      <4>2. QED
        BY <3>1, <4>1 DEF Stuck
    <3>3. CASE ~(link.last = "DeviceToQic" \/ (link.last = None /\ a = None))
      <4>0. link.last \in {None, "QicToDevice"}
        BY <3>3 DEF WholeInv, BurstsShaped
      <4>1. CASE link.q2d = None /\ OnLink(a, "MmioCancel")
        <5>1. link'.q2d = None /\ link'.last = None /\ ToChip.cancel
          BY <1>0, <2>4, <2>5, <4>0, <4>1 DEF Blocking, ToChip
        <5>2. qic'.state.at \notin Q!WorkerStates
          BY <1>0, <4>1 DEF ToDeviceIs, OnLink, AfterClock
        <5>3. qdx'.response = None
          BY <2>9, <5>1
        <5>4. QED
          BY <3>1, <5>1, <5>2, <5>3 DEF Stuck
      <4>2. CASE ~(link.q2d = None /\ OnLink(a, "MmioCancel")) /\ qdx.response # None
        <5>1. a # None => a.tag \in {"MmioRequest", "NotificationCompletion"}
          <6>1. CASE link.q2d = None
            BY <1>0, <2>7, <4>2, <6>1 DEF ToDeviceIs, OnLink, ToDeviceTags
          <6>2. CASE link.q2d # None
            <7>1. a = link.q2d
              BY <1>0, <6>2 DEF ToDeviceIs
            <7>2. QED
              BY <2>2, <3>3, <4>2, <6>2, <7>1 DEF Stuck
          <6>3. QED
            BY <6>1, <6>2
        <5>2. ~ToChip.cancel
          BY <1>0, <5>1 DEF Carried, ToChip, OnLink
        <5>3. qdx'.response # None
          BY <2>9, <4>2, <5>2
        <5>4. link'.q2d # None => link'.q2d.tag \in {"MmioRequest", "NotificationCompletion"}
          BY <1>0, <5>1 DEF Carried, Same
        <5>5. QED
          BY <3>1, <5>3, <5>4 DEF Stuck
      <4>3. CASE ~(link.q2d = None /\ OnLink(a, "MmioCancel")) /\ qdx.response = None
        <5>1. /\ link.q2d = None /\ link.last = None /\ a # None
              /\ \/ qic.state.at \notin Q!WorkerStates
                 \/ qic.state.at \in {"WorkerReadData", "WorkerWriteData"} /\ link.done = None
          BY <2>2, <3>3, <4>3 DEF Stuck
        <5>2. ~OnLink(a, "MmioRequest")
          BY <1>0, <5>1 DEF ToDeviceIs, OnLink, SignalsFit, Q!WorkerStates
        <5>3. OnLink(a, "NotificationCompletion") /\ (Done(link, Signals) \/ link.done # None)
          BY <1>0, <2>7, <4>3, <5>1, <5>2 DEF ToDeviceIs, OnLink, ToDeviceTags
        <5>4. link'.q2d = None /\ link'.last = None /\ link'.done = None
          BY <1>0, <2>4, <2>5, <5>1, <5>3 DEF Blocking
        <5>5. qic.state.at \notin Q!WorkerStates
          BY <1>0, <5>1, <5>3 DEF Done, AfterClock
        <5>6. qdx'.response = None
          BY <2>9, <4>3
        <5>7. QED
          BY <1>0, <3>1, <5>4, <5>5, <5>6 DEF Stuck, AfterClock
      <4>4. QED
        BY <4>1, <4>2, <4>3
    <3>4. QED
      BY <3>2, <3>3
  <2>11. QED
    BY <1>8, <2>6, <2>9, <2>10 DEF Requesting
<1>11. QED
  BY <1>9, <1>10

-----------------------------------------------------------------------------
(* The requests, words and stages of a burst.                                                 *)

\* The host answers the phase the QIC is in.
LEMMA AckIs ==
  ASSUME RoomInv, SameTransaction, qic.state.at \in {"DmaAddress", "DmaData"}, Bus.ack
  PROVE  peer.state.at = qic.state.at /\ peer.state.wait = 0 /\ peer.state.fault # "Err"
<1>1. PeerShape(peer)
  BY DEF RoomInv, ShapeInv
<1>2. peer.state.at \in PeerPhases /\ peer.state.wait = 0 /\ peer.state.fault # "Err"
  BY <1>1, BusIs DEF Bus
<1>3. QED
  BY <1>2 DEF SameTransaction, QicGoesWith, PeerPhases

\* A word read from the host is the one the burst has come to.
LEMMA DataIs ==
  ASSUME RoomInv, SameTransaction, PeersBurst, BurstShape(qic.state), qic.state.at = "DmaData",
         qic.state.request.direction = "HostToDevice", qic.state.buffer = None,
         Bus.ack, Bus.data # None
  PROVE  LET s == qic.state IN
         /\ Bus.data = Words(s.request.handle, s.request.words)[s.completed]
         /\ Bus.data \in Handles
<1>1. /\ peer.state.at = "DmaData" /\ peer.state.request = qic.state.request
      /\ peer.state.beat = qic.state.completed
  BY AckIs DEF PeersBurst
<1>2. Bus.data = P!Word(qic.state.request, qic.state.completed)
  BY <1>1 DEF Bus, P!BusInputs
<1>3. /\ qic.state.request.handle \in Handles /\ qic.state.request.words \in Nat
      /\ qic.state.completed \in 0..qic.state.request.words - 1
  BY DEF BurstShape, Stages, Requests
<1>4. QED
  BY <1>2, <1>3, WordShaped

\* What the chip sends on the link.
LEMMA BodiesAre ==
  ASSUME RoomInv, WholeInv, NEW a, NEW b, Clocked(a, b)
  PROVE  /\ OnLink(b, "DmaRequest") => b.body \in Requests
         /\ OnLink(b, "DmaWrite") => b.body \in Handles \ {None}
         /\ link.d2q = None /\ OnLink(b, "DmaWrite") =>
              qdx.state = "CqSend" /\ b.body = Present[qdx.cqWord]
<1>1. ChipRoom(qdx) /\ Based(qdx) /\ ToQicIs(b, link, Signals, Device)
  BY RoomIs DEF WholeInv, BurstsShaped, Based, Clocked
<1>2. ChipShape(qdx)
  BY <1>1 DEF ChipRoom
<1>3. CASE link.d2q # None
  BY <1>1, <1>3 DEF ToQicIs, WholeInv, BurstsShaped
<1>4. CASE link.d2q = None
  <2>1. OnLink(b, "DmaRequest") => b.body \in Requests
    <3>1. SUFFICES ASSUME OnLink(b, "DmaRequest") PROVE b.body \in Requests
      OBVIOUS
    <3>2. b.body = DmaRequest(qdx) /\ DmaRequest(qdx) # None
      BY <1>1, <1>4, <3>1 DEF ToQicIs, OnLink, Device, QicPort
    <3>3. QED
      BY <1>1, <1>2, <3>2, WantedIs, RequestShaped
  <2>2. OnLink(b, "DmaWrite") =>
          /\ qdx.state = "CqSend" /\ b.body = Present[qdx.cqWord] /\ b.body \in Handles \ {None}
    <3>1. SUFFICES ASSUME OnLink(b, "DmaWrite")
                   PROVE  /\ qdx.state = "CqSend" /\ b.body = Present[qdx.cqWord]
                          /\ b.body \in Handles \ {None}
      OBVIOUS
    <3>2. b.body = Device.write /\ Device.write # None
      BY <1>1, <1>4, <3>1 DEF ToQicIs, OnLink
    <3>3. qdx.state = "CqSend" /\ b.body = qdx.completion[qdx.cqWord]
      BY <3>2 DEF Device, QicPort
    <3>4. qdx.completion = Present /\ qdx.cqWord \in 0..CqWords - 1
      BY <3>3 DEF WholeInv, CompletionMade, CompletionLeaves
    <3>5. QED
      BY <1>1, <3>2, <3>3, <3>4, PresentShaped
  <2>3. QED
    BY <2>1, <2>2
<1>5. QED
  BY <1>3, <1>4

\* What the QIC gets of it.
LEMMA GivenIs ==
  ASSUME NEW a, NEW b, Clocked(a, b)
  PROVE  /\ ToChip.dmaReady \/ ToCard.dma # None =>
              OnLink(b, "DmaRequest") /\ ToCard.dma = b.body /\ ToChip.dmaReady /\ link'.d2q = None
         /\ ToChip.writeReady \/ ToCard.write # None =>
              OnLink(b, "DmaWrite") /\ ToCard.write = b.body /\ ToChip.writeReady /\ link'.d2q = None
         /\ ToChip.read # None \/ ToCard.readReady =>
              OnLink(a, "DmaRead") /\ ToChip.read = a.body /\ ToCard.readReady /\ link'.q2d = None
              /\ qdx.state = "SqReceive"
         /\ ToChip.completion # None \/ ToCard.completionReady =>
              /\ OnLink(a, "DmaCompletion") /\ ToChip.completion = a.body /\ ToCard.completionReady
              /\ link'.q2d = None /\ qdx.state \in {"SqCompletion", "CqCompletion"}
<1>1. /\ Carried(Moves, a, b, Signals, Device) /\ link' = Moves.link
      /\ ToCard.readReady = Moves.toQic.readReady /\ ToCard.completionReady = Moves.toQic.completionReady
      /\ ToCard.dma = Moves.toQic.dma /\ ToCard.write = Moves.toQic.write
  BY DEF Clocked
<1>2. /\ Device.readReady => qdx.state = "SqReceive"
      /\ Device.completionReady => qdx.state \in {"SqCompletion", "CqCompletion"}
  BY DEF Device, QicPort
<1>3. QED
  BY <1>1, <1>2 DEF Carried, ToChip

LEMMA StageIs ==
  ASSUME NEW r \in Requests, NEW c \in Nat, NEW w \in Nat, NEW x \in Handles \cup {None},
         NEW n, n = Q!DmaData(r, c, w, x),
         IF r.direction = "HostToDevice" /\ x # None THEN c <= r.words ELSE c < r.words
  PROVE  BurstShape(n)
<1>1. /\ n.at = "DmaData" /\ n.request = r /\ n.completed = c /\ n.buffer = x
      /\ n = [at |-> "DmaData", request |-> r, completed |-> c, wait |-> w, buffer |-> x]
  BY DEF Q!DmaData
<1>2. n \in Stages
  BY <1>1 DEF Stages
<1>3. QED
  BY <1>1, <1>2 DEF BurstShape, ForBus

LEMMA EndIs ==
  ASSUME NEW status \in Statuses, NEW c \in Nat, NEW n, n = Q!DmaComplete(status, c)
  PROVE  BurstShape(n) /\ n.at = "DmaComplete" /\ n.status = status
<1>1. n = [at |-> "DmaComplete", status |-> status, completed |-> c] /\ n.at = "DmaComplete"
      /\ n.status = status
  BY DEF Q!DmaComplete
<1>2. n \in Stages
  BY <1>1 DEF Stages
<1>3. QED
  BY <1>1, <1>2 DEF BurstShape, ForBus

LEMMA StageHas ==
  ASSUME NEW s, BurstShape(s), s.at = "DmaData"
  PROVE  /\ s.request \in Requests /\ s.completed \in Nat /\ s.buffer \in Handles \cup {None}
         /\ s.request.words \in Nat \ {0} /\ s.request.handle \in Handles
         /\ s.request.direction \in {"HostToDevice", "DeviceToHost"}
BY DEF BurstShape, Stages, Requests

LEMMA BurstShapeKept ==
  ASSUME NEW s, BurstShape(s), NEW bus, NEW v, NEW n, BurstMoves(s, bus, v, n),
         (s.at = "DmaData" /\ s.request.direction = "HostToDevice" /\ s.buffer = None
           /\ bus.ack /\ bus.data # None) => bus.data \in Handles,
         v.write # None => v.write \in Handles
  PROVE  BurstShape(n)
<1>1. CASE ForBus(s) /\ n = Q!DmaAddress(s.work.request, 0)
  <2>1. n.at = "DmaAddress" /\ n.request = s.work.request /\ s.at = "RequestBus"
    BY <1>1, MadeStates DEF ForBus
  <2>2. s.work.request \in Requests
    BY <1>1, <2>1 DEF BurstShape, RequestOf
  <2>3. QED
    BY <2>1, <2>2 DEF BurstShape, ForBus, RequestOf
<1>2. CASE Fails(n)
  BY <1>2, EndIs DEF Fails
<1>3. CASE s.at = "DmaAddress" /\ \E w : n = Q!DmaAddress(s.request, w)
  <2>1. n.at = "DmaAddress" /\ n.request = s.request
    BY <1>3, MadeStates
  <2>2. s.request \in Requests
    BY <1>3 DEF BurstShape, RequestOf
  <2>3. QED
    BY <2>1, <2>2 DEF BurstShape, ForBus, RequestOf
<1>4. CASE s.at = "DmaAddress" /\ n = Q!DmaData(s.request, 0, 0, None)
  <2>1. s.request \in Requests
    BY <1>4 DEF BurstShape, RequestOf
  <2>2. s.request.words \in Nat \ {0}
    BY <2>1 DEF Requests
  <2>3. None \in Handles \cup {None} /\ 0 < s.request.words /\ 0 \in Nat
    BY <2>2
  <2>4. QED
    BY <1>4, <2>1, <2>3, StageIs
<1>5. CASE s.at = "DmaData" /\ BurstWaits(s, bus, v, n)
  <2>1. PICK w \in Nat : n = Q!DmaData(s.request, s.completed, w, s.buffer)
    BY <1>5 DEF BurstWaits
  <2>2. QED
    BY <1>5, <2>1, StageHas, StageIs DEF BurstShape
<1>6. CASE s.at = "DmaData" /\ ReadMoves(s, bus, v, n)
  <2>0. /\ s.request \in Requests /\ s.completed \in Nat /\ s.request.words \in Nat
        /\ s.request.direction = "HostToDevice"
        /\ IF s.buffer # None THEN s.completed <= s.request.words ELSE s.completed < s.request.words
    BY <1>6, StageHas DEF ReadMoves, BurstShape
  <2>1. CASE s.buffer # None /\ s.completed = s.request.words
    <3>1. n = Q!DmaComplete("Ok", s.completed) /\ "Ok" \in Statuses
      BY <1>6, <2>1 DEF ReadMoves, Statuses
    <3>2. QED
      BY <2>0, <3>1, EndIs
  <2>2. CASE s.buffer # None /\ s.completed # s.request.words
    <3>1. n = Q!DmaData(s.request, s.completed, 0, None)
      BY <1>6, <2>2 DEF ReadMoves
    <3>2. s.completed < s.request.words /\ 0 \in Nat /\ None \in Handles \cup {None}
      BY <2>0, <2>2
    <3>3. QED
      BY <2>0, <3>1, <3>2, StageIs
  <2>3. CASE s.buffer = None
    <3>1. /\ n = Q!DmaData(s.request, s.completed + 1, 0, bus.data)
          /\ bus.data # None /\ bus.data \in Handles \cup {None}
      BY <1>6, <2>0, <2>3 DEF ReadMoves
    <3>2. s.completed + 1 <= s.request.words /\ 0 \in Nat /\ s.completed + 1 \in Nat
      BY <2>0, <2>3
    <3>3. QED
      BY <2>0, <3>1, <3>2, StageIs
  <2>4. QED
    BY <2>1, <2>2, <2>3
<1>7. CASE s.at = "DmaData" /\ WriteMoves(s, bus, v, n)
  <2>0. /\ s.request \in Requests /\ s.completed \in Nat /\ s.request.words \in Nat
        /\ s.request.direction # "HostToDevice" /\ s.completed < s.request.words
    BY <1>7, StageHas DEF WriteMoves, BurstShape
  <2>1. CASE s.buffer # None /\ s.completed + 1 = s.request.words
    <3>1. n = Q!DmaComplete("Ok", s.completed + 1) /\ "Ok" \in Statuses /\ s.completed + 1 \in Nat
      BY <1>7, <2>0, <2>1 DEF WriteMoves, Statuses
    <3>2. QED
      BY <3>1, EndIs
  <2>2. CASE s.buffer # None /\ s.completed + 1 # s.request.words
    <3>1. n = Q!DmaData(s.request, s.completed + 1, 0, None)
      BY <1>7, <2>2 DEF WriteMoves
    <3>2. /\ s.completed + 1 < s.request.words /\ s.completed + 1 \in Nat
          /\ 0 \in Nat /\ None \in Handles \cup {None}
      BY <2>0, <2>2
    <3>3. QED
      BY <2>0, <3>1, <3>2, StageIs
  <2>3. CASE s.buffer = None
    <3>1. /\ n = Q!DmaData(s.request, s.completed, 0, v.write)
          /\ v.write \in Handles \cup {None} /\ 0 \in Nat
      BY <1>7, <2>3 DEF WriteMoves
    <3>2. QED
      BY <2>0, <3>1, StageIs
  <2>4. QED
    BY <2>1, <2>2, <2>3
<1>8. CASE s.at = "DmaComplete" /\ n = IF v.completionReady THEN Q!Idle ELSE s
  BY <1>8, MadeStates DEF BurstShape, ForBus
<1>9. QED
  BY <1>1, <1>2, <1>3, <1>4, <1>5, <1>6, <1>7, <1>8 DEF BurstMoves

LEMMA ShapedKept ==
  ASSUME RoomInv, SameTransaction, WholeInv, NEW a, NEW b, Clocked(a, b)
  PROVE  BurstsShaped'
<1>1. BurstsShaped /\ BurstShape(Held(qic)) /\ PeersBurst
  BY DEF WholeInv, BurstsShaped
<1>2. Based(qdx')
  BY <1>1 DEF Clocked, BurstsShaped, Based
<1>3. BurstShape(Held(qic'))
  <2>1. PICK h, h2 : h = Held(qic) /\ h2 = Held(qic')
    OBVIOUS
  <2>2. CASE h2 = h
    BY <1>1, <2>1, <2>2
  <2>3. CASE ~InBurst(h2)
    BY <2>1, <2>3 DEF InBurst, BurstShape
  <2>4. CASE ToCard.dma # None /\ h2 = Q!RequestBus([kind |-> "Dma", request |-> ToCard.dma])
    <3>1. ToCard.dma \in Requests
      BY <2>4, BodiesAre, GivenIs
    <3>2. h2.at = "RequestBus" /\ h2.work.request = ToCard.dma
      BY <2>4, MadeStates
    <3>3. QED
      BY <2>1, <3>1, <3>2 DEF BurstShape, RequestOf
  <2>5. CASE h = qic.state /\ BurstMoves(h, Bus, ToCard, h2)
    <3>1. ToCard.write # None => ToCard.write \in Handles
      BY BodiesAre, GivenIs
    <3>2. (h.at = "DmaData" /\ h.request.direction = "HostToDevice" /\ h.buffer = None
             /\ Bus.ack /\ Bus.data # None) => Bus.data \in Handles
      BY <1>1, <2>1, <2>5, DataIs
    <3>3. QED
      BY <1>1, <2>1, <2>5, <3>1, <3>2, BurstShapeKept
  <2>6. QED
    BY <2>1, <2>2, <2>3, <2>4, <2>5 DEF Clocked, HoldMoves
<1>4. /\ OnLink(link'.d2q, "DmaRequest") => link'.d2q.body \in Requests
      /\ OnLink(link'.d2q, "DmaWrite") => link'.d2q.body \in Handles \ {None}
  <2>1. Same(link'.d2q, b)
    BY DEF Clocked, Carried
  <2>2. QED
    BY <2>1, BodiesAre DEF Same, OnLink
<1>5. link'.last \in {None, "QicToDevice", "DeviceToQic"}
  BY DEF Clocked
<1>6. QED
  BY <1>2, <1>3, <1>4, <1>5 DEF BurstsShaped, Based

-----------------------------------------------------------------------------
(* A burst is the one the chip has asked for, and QIC and host are at the same word of it.    *)

\* The QIC takes a request only from a chip that asks for it, and while it has no burst.
LEMMA RequestGivenIs ==
  ASSUME RoomInv, WholeInv, NEW a, NEW b, Clocked(a, b), ToChip.dmaReady \/ ToCard.dma # None
  PROVE  ~InBurst(Held(qic)) /\ qdx.state \in Requesting /\ ToCard.dma = Wanted(qdx)
<1>1. /\ Carried(Moves, a, b, Signals, Device) /\ ToQicIs(b, link, Signals, Device)
      /\ SignalsFit(qic, Bus, Device, Signals) /\ RequestOnLink /\ ChipShape(qdx)
      /\ ToCard.dma = Moves.toQic.dma
  BY DEF Clocked, WholeInv, RoomInv, ShapeInv
<1>2. OnLink(b, "DmaRequest") /\ Signals.dmaReady /\ ToCard.dma = b.body
  BY <1>1 DEF Carried, ToChip
<1>3. Device.dma = DmaRequest(qdx)
  BY DEF Device, QicPort
<1>4. ~InBurst(Held(qic)) /\ DmaRequest(qdx) # None
  BY <1>1, <1>2, <1>3 DEF SignalsFit
<1>5. qdx.state \in Requesting /\ DmaRequest(qdx) = Wanted(qdx)
  BY <1>1, <1>4, WantedIs
<1>6. b.body = DmaRequest(qdx)
  BY <1>1, <1>2, <1>3, <1>5 DEF ToQicIs, OnLink, RequestOnLink
<1>7. QED
  BY <1>2, <1>4, <1>5, <1>6

\* A chip that waits for its burst has asked for it, now or before.
LEMMA ServedIs ==
  ASSUME NEW d, ChipShape(d), NEW qli, NEW signals, NEW e,
         StateAccess(d, qli, e) \/ EngineClock(d, qli, signals, e), e.state \in Served
  PROVE  /\ EngineClock(d, qli, signals, e)
         /\ \/ d.state \in Served /\ (Stays(d, qli, signals, e) \/ WordTaken(d, qli, e) \/ WordGiven(d, qli, e))
            \/ d.state \in Requesting /\ RequestTaken(d, qli, e)
         /\ Wanted(e) = Wanted(d) /\ (e.state \in Fetching <=> d.state \in Fetching)
<1>1. EngineClock(d, qli, signals, e)
  BY AccessAnswered DEF Served
<1>2. \/ d.state \in Served /\ (Stays(d, qli, signals, e) \/ WordTaken(d, qli, e) \/ WordGiven(d, qli, e))
      \/ d.state \in Requesting /\ RequestTaken(d, qli, e)
  BY <1>1 DEF EngineClock, Engine, Served, Requesting, Stays, RequestTaken, WordTaken, WordGiven,
     BurstDone, CompletionTaken, Goes1
<1>3. /\ ChipShape(e) /\ SameBases(d, e)
  BY <1>1, <1>2 DEF EngineClock, Served, Requesting
<1>4. /\ e.sqHead = d.sqHead /\ e.cqTail = d.cqTail
      /\ (e.state \in Fetching <=> d.state \in Fetching)
  BY <1>2 DEF Stays, RequestTaken, WordTaken, WordGiven, Keeps, Served, Requesting, Fetching
<1>5. QED
  BY <1>1, <1>2, <1>3, <1>4, SameWanted

\* A burst keeps its request.
LEMMA SameRequest ==
  ASSUME NEW s, NEW bus, NEW v, NEW n, BurstMoves(s, bus, v, n), InBurst(n), n.at # "DmaComplete"
  PROVE  InBurst(s) /\ s.at # "DmaComplete" /\ RequestOf(n) = RequestOf(s)
<1>1. CASE ForBus(s) /\ n = Q!DmaAddress(s.work.request, 0)
  BY <1>1, MadeStates DEF InBurst, ForBus, RequestOf
<1>2. CASE Fails(n)
  BY <1>2, MadeStates DEF Fails
<1>3. CASE s.at = "DmaAddress" /\ \E w : n = Q!DmaAddress(s.request, w)
  BY <1>3, MadeStates DEF InBurst, RequestOf
<1>4. CASE s.at \in {"DmaAddress", "DmaData"} /\ \E c, w, x : n = Q!DmaData(s.request, c, w, x)
  BY <1>4 DEF InBurst, RequestOf, Q!DmaData
<1>5. CASE \E c, t : n = Q!DmaComplete(t, c)
  BY <1>5, MadeStates
<1>6. CASE s.at = "DmaComplete" /\ n = IF v.completionReady THEN Q!Idle ELSE s
  BY <1>6, MadeStates DEF InBurst, ForBus
<1>7. BurstWaits(s, bus, v, n) => \E c, w, x : n = Q!DmaData(s.request, c, w, x)
  BY DEF BurstWaits
<1>8. ReadMoves(s, bus, v, n) \/ WriteMoves(s, bus, v, n) =>
        \/ \E c, w, x : n = Q!DmaData(s.request, c, w, x)
        \/ \E c, t : n = Q!DmaComplete(t, c)
  BY DEF ReadMoves, WriteMoves
<1>9. QED
  BY <1>1, <1>2, <1>3, <1>4, <1>5, <1>6, <1>7, <1>8 DEF BurstMoves

LEMMA OwnKept ==
  ASSUME RoomInv, WholeInv, NEW a, NEW b, Clocked(a, b)
  PROVE  OwnBurst'
<1>1. PICK h, h2 : h = Held(qic) /\ h2 = Held(qic')
  OBVIOUS
<1>2. SUFFICES ASSUME qdx'.state \in Served, InBurst(h2), h2.at # "DmaComplete"
               PROVE  RequestOf(h2) = Wanted(qdx')
  BY <1>1 DEF OwnBurst
<1>3. ChipShape(qdx) /\ OwnBurst
  BY DEF RoomInv, ShapeInv, WholeInv
<1>4. /\ qdx.state \in Served \/ (qdx.state \in Requesting /\ ToChip.dmaReady)
      /\ Wanted(qdx') = Wanted(qdx)
  BY <1>2, <1>3, ServedIs DEF Clocked, RequestTaken
<1>5. HoldMoves(qic, qic', Bus, ToCard)
  BY DEF Clocked
<1>6. CASE qdx.state \in Served
  <2>1. ToCard.dma = None
    BY <1>6, RequestGivenIs DEF Served, Requesting
  <2>2. InBurst(h) /\ h.at # "DmaComplete" /\ RequestOf(h2) = RequestOf(h)
    BY <1>1, <1>2, <1>5, <2>1, SameRequest DEF HoldMoves
  <2>3. QED
    BY <1>1, <1>3, <1>4, <1>6, <2>2 DEF OwnBurst
<1>7. CASE ToChip.dmaReady
  <2>1. ~InBurst(h) /\ ToCard.dma = Wanted(qdx)
    BY <1>1, <1>7, RequestGivenIs
  <2>2. h2 = Q!RequestBus([kind |-> "Dma", request |-> ToCard.dma])
    BY <1>1, <1>2, <1>5, <2>1, SameRequest DEF HoldMoves, InBurst
  <2>3. h2.at = "RequestBus" /\ h2.work.request = ToCard.dma
    BY <2>2, MadeStates
  <2>4. QED
    BY <1>4, <2>1, <2>3 DEF RequestOf
<1>8. QED
  BY <1>4, <1>6, <1>7

LEMMA WordsKept ==
  ASSUME RoomInv, WholeInv, NEW a, NEW b, Clocked(a, b)
  PROVE  WordsOnLink'
<1>1. PICK h, h2 : h = Held(qic) /\ h2 = Held(qic')
  OBVIOUS
<1>2. /\ Same(link'.q2d, a) /\ ToDeviceIs(a, link, Signals) /\ SignalsFit(qic, Bus, Device, Signals)
      /\ HoldMoves(qic, qic', Bus, ToCard) /\ WordsOnLink
  BY DEF Clocked, Carried, WholeInv
<1>3. ASSUME OnLink(a, "DmaRead")
      PROVE  h.at = "DmaComplete" \/ (/\ h.at = "DmaData" /\ h.request.direction = "HostToDevice"
                                      /\ h.buffer # None /\ h.buffer = a.body)
  BY <1>1, <1>2, <1>3 DEF ToDeviceIs, OnLink, SignalsFit, WordsOnLink, WordOnTheLink
<1>4. ASSUME OnLink(a, "DmaCompletion")
      PROVE  h.at = "DmaComplete" /\ a.body = h
  BY <1>1, <1>2, <1>4 DEF ToDeviceIs, OnLink, SignalsFit, WordsOnLink
<1>5. ASSUME OnLink(link'.q2d, "DmaRead")
      PROVE  h2.at = "DmaComplete" \/ (/\ h2.at = "DmaData" /\ h2.request.direction = "HostToDevice"
                                       /\ h2.buffer # None /\ h2.buffer = link'.q2d.body)
  <2>1. OnLink(a, "DmaRead") /\ a.body = link'.q2d.body /\ link'.q2d # None
    BY <1>2, <1>5 DEF Same, OnLink
  <2>2. ToCard.readReady # TRUE /\ ToCard.completionReady # TRUE
    BY <2>1, GivenIs DEF OnLink
  <2>3. CASE h2 = h
    BY <1>3, <2>1, <2>3
  <2>4. CASE BurstMoves(h, Bus, ToCard, h2)
    <3>1. CASE h.at = "DmaComplete"
      BY <2>2, <2>4, <3>1 DEF BurstMoves, ForBus
    <3>2. CASE h.at = "DmaData"
      <4>1. Fails(h2) \/ BurstWaits(h, Bus, ToCard, h2)
        BY <1>3, <2>1, <2>2, <2>4, <3>2 DEF BurstMoves, ForBus, ReadMoves, WriteMoves
      <4>2. CASE Fails(h2)
        BY <4>2, MadeStates DEF Fails
      <4>3. CASE BurstWaits(h, Bus, ToCard, h2)
        <5>1. h2.at = "DmaData" /\ h2.request = h.request /\ h2.buffer = h.buffer
          BY <4>3 DEF BurstWaits, Q!DmaData
        <5>2. QED
          BY <1>3, <2>1, <3>2, <5>1
      <4>4. QED
        BY <4>1, <4>2, <4>3
    <3>3. QED
      BY <1>3, <2>1, <3>1, <3>2
  <2>5. QED
    BY <1>1, <1>2, <1>3, <2>1, <2>3, <2>4 DEF HoldMoves, InBurst, ForBus
<1>6. ASSUME OnLink(link'.q2d, "DmaCompletion")
      PROVE  link'.q2d.body = h2 /\ h2.at = "DmaComplete"
  <2>1. OnLink(a, "DmaCompletion") /\ a.body = link'.q2d.body /\ link'.q2d # None
    BY <1>2, <1>6 DEF Same, OnLink
  <2>2. ToCard.completionReady # TRUE
    BY <2>1, GivenIs
  <2>3. BurstMoves(h, Bus, ToCard, h2) => h2 = h
    BY <1>4, <2>1, <2>2 DEF BurstMoves, ForBus
  <2>4. QED
    BY <1>1, <1>2, <1>4, <2>1, <2>3 DEF HoldMoves, InBurst, ForBus
<1>7. QED
  BY <1>1, <1>5, <1>6 DEF WordsOnLink, WordOnTheLink, OnLink

\* What the QIC strobes on the bus in a burst.
Strobed(s, bus, strobe) ==
  /\ strobe # None =>
       /\ s.at \in {"DmaAddress", "DmaData", "NotificationAddress", "NotificationData"}
       /\ strobe.kind = "HostDma" => s.at = "DmaAddress" /\ strobe.value = s.request
       /\ s.at = "DmaData" =>
            /\ strobe.value = s.buffer
            /\ IF s.request.direction = "HostToDevice" THEN s.buffer = None ELSE s.buffer # None
            /\ ~Q!TimedOut(s.wait)
  /\ (/\ s.at = "DmaData" /\ bus.grant /\ ~Q!TimedOut(s.wait)
      /\ IF s.request.direction = "HostToDevice" THEN s.buffer = None ELSE s.buffer # None) =>
       strobe # None

LEMMA StrobedIs ==
  ASSUME NEW s, BurstShape(s), NEW bus, NEW strobe, strobe = Q!Strobe(s, bus)
  PROVE  Strobed(s, bus, strobe)
<1>1. strobe # None =>
       /\ s.at \in {"DmaAddress", "DmaData", "NotificationAddress", "NotificationData"}
       /\ strobe.kind = "HostDma" => s.at = "DmaAddress" /\ strobe.value = s.request
       /\ s.at = "DmaData" =>
            /\ strobe.value = s.buffer
            /\ IF s.request.direction = "HostToDevice" THEN s.buffer = None ELSE s.buffer # None
            /\ ~Q!TimedOut(s.wait)
  BY DEF Q!Strobe
<1>2. ASSUME s.at = "DmaData", bus.grant, ~Q!TimedOut(s.wait),
             IF s.request.direction = "HostToDevice" THEN s.buffer = None ELSE s.buffer # None
      PROVE  strobe # None
  <2>1. /\ s.buffer \in Handles \cup {None} /\ s.completed \in Nat /\ s.request.words \in Nat
        /\ s.buffer = None => s.completed < s.request.words
    BY <1>2, StageHas DEF BurstShape
  <2>2. strobe = [kind |-> "Data", value |-> s.buffer]
    BY <1>2, <2>1 DEF Q!Strobe
  <2>3. QED
    BY <2>1, <2>2, NoneIsNoValue
<1>3. QED
  BY <1>1, <1>2 DEF Strobed

\* The host counts the words the QIC counts.
LEMMA CountsIs ==
  ASSUME RoomInv, SameTransaction, WholeInv, NEW a, NEW b, Clocked(a, b), qic.state.at = "DmaData",
         peer.state.at = "DmaData", peer'.state # P!Idle
  PROVE  Counted(peer, Pins) <=> Pins.strobe # None /\ Bus.ack
<1>1. PeerShape(peer)
  BY DEF RoomInv, ShapeInv
<1>2. Pins.request
  BY DEF Clocked, PeerMoves, PeerPhases
<1>3. Bus.ack = (peer.state.wait = 0 /\ peer.state.fault # "Err")
  BY <1>1, BusIs DEF Bus, PeerPhases
<1>4. QED
  BY <1>2, <1>3 DEF Counted

\* QIC and host are in the address phase after a clock: the QIC was in it before.
LEMMA AddressPhase ==
  ASSUME RoomInv, SameTransaction, WholeInv, NEW a, NEW b, Clocked(a, b), QicShape(qic'),
         qic'.state.at = "DmaAddress", peer'.state.at = "DmaAddress"
  PROVE  LET h == Held(qic) IN
         /\ h = qic.state /\ h.at = "DmaAddress" /\ Held(qic') = qic'.state
         /\ qic'.state.request = h.request /\ Strobed(h, Bus, Pins.strobe)
<1>1. PICK h, h2 : h = Held(qic) /\ h2 = Held(qic')
  OBVIOUS
<1>2. /\ BurstShape(h) /\ HoldMoves(qic, qic', Bus, ToCard)
      /\ PeerBurst(peer, Pins, peer') /\ Pins.strobe = Q!Strobe(qic.state, Bus)
  BY <1>1 DEF Clocked, WholeInv, BurstsShaped, Pins, Q!CardPins
<1>3. h2 = qic'.state /\ InBurst(h2)
  BY <1>1 DEF Held, QicShape, Q!WorkerStates, InBurst
<1>4. h = qic.state /\ BurstMoves(h, Bus, ToCard, h2)
  BY <1>1, <1>2, <1>3, MadeStates DEF HoldMoves, Keeping
<1>5. ASSUME h.at = "RequestBus" PROVE FALSE
  <2>1. Pins.strobe = None
    BY <1>2, <1>4, <1>5 DEF Q!Strobe
  <2>2. peer.state.at = "DmaAddress"
    BY <1>2, <2>1 DEF PeerBurst, Addressed
  <2>3. QED
    BY <1>4, <1>5, <2>2 DEF SameTransaction, QicGoesWith
<1>6. h.at = "DmaAddress" /\ \E w : h2 = Q!DmaAddress(h.request, w)
  <2>1. ~Fails(h2)
    BY <1>3, MadeStates DEF Fails
  <2>2. ~(h.at = "DmaAddress" /\ h2 = Q!DmaData(h.request, 0, 0, None))
    BY <1>3, MadeStates
  <2>3. ~BurstWaits(h, Bus, ToCard, h2) /\ ~ReadMoves(h, Bus, ToCard, h2) /\ ~WriteMoves(h, Bus, ToCard, h2)
    BY <1>3, MadeStates DEF BurstWaits, ReadMoves, WriteMoves
  <2>4. h.at # "DmaComplete"
    BY <1>3, <1>4, MadeStates DEF BurstMoves, ForBus
  <2>5. QED
    BY <1>4, <1>5, <2>1, <2>2, <2>3, <2>4 DEF BurstMoves, ForBus
<1>7. h2.request = h.request
  BY <1>6, MadeStates
<1>8. QED
  BY <1>1, <1>2, <1>3, <1>4, <1>6, <1>7, StrobedIs

LEMMA PeersKept ==
  ASSUME RoomInv, SameTransaction, WholeInv, NEW a, NEW b, Clocked(a, b), QicShape(qic')
  PROVE  PeersBurst'
<1>1. PICK h, h2 : h = Held(qic) /\ h2 = Held(qic')
  OBVIOUS
<1>2. /\ BurstShape(h) /\ HoldMoves(qic, qic', Bus, ToCard) /\ PeersBurst
      /\ PeerBurst(peer, Pins, peer') /\ PeerMoves(peer, Pins, peer') /\ PeerShape(peer)
  BY <1>1 DEF Clocked, WholeInv, BurstsShaped, RoomInv, ShapeInv
<1>3. qic'.state.at \notin Q!WorkerStates => h2 = qic'.state
  BY <1>1 DEF Held, QicShape
<1>4. Pins.strobe = Q!Strobe(qic.state, Bus)
  BY DEF Pins, Q!CardPins
<1>5. ASSUME qic'.state.at = "DmaAddress", peer'.state.at = "DmaAddress"
      PROVE  peer'.state.request = qic'.state.request /\ peer'.words = << >>
  <2>1. /\ h = qic.state /\ h.at = "DmaAddress" /\ h2 = qic'.state /\ h2.request = h.request
        /\ Strobed(h, Bus, Pins.strobe)
    BY <1>1, <1>5, AddressPhase
  <2>2. CASE Addressed(peer, Pins)
    BY <1>2, <1>5, <2>1, <2>2 DEF PeerBurst, Strobed, Addressed
  <2>3. CASE ~Addressed(peer, Pins)
    <3>1. peer.state.at = "DmaAddress" /\ peer'.state.request = peer.state.request
      BY <1>2, <1>5, <2>3 DEF PeerBurst
    <3>2. peer'.words = peer.words
      BY <1>2, <2>3, <3>1 DEF PeerBurst, Counted
    <3>3. QED
      BY <1>2, <2>1, <3>1, <3>2 DEF PeersBurst
  <2>4. QED
    BY <2>2, <2>3
<1>6. ASSUME qic'.state.at = "DmaData", peer'.state.at = "DmaData"
      PROVE  peer'.state.request = qic'.state.request /\ peer'.state.beat = qic'.state.completed
  <2>1. h2 = qic'.state /\ InBurst(h2)
    BY <1>3, <1>6 DEF Q!WorkerStates, InBurst
  <2>2. peer.state.at \in {"DmaAddress", "DmaData"} /\ peer'.state.request = peer.state.request
    BY <1>2, <1>6 DEF PeerBurst
  <2>3. qic.state.at \notin Q!WorkerStates
    BY <2>2 DEF SameTransaction, QicGoesWith, Q!WorkerStates
  <2>4. h = qic.state /\ BurstMoves(h, Bus, ToCard, h2)
    <3>1. ~Keeping(h, qic, qic') \/ h2 # h
      BY <1>6, <2>1, <2>3 DEF Keeping, Q!WorkerStates
    <3>2. QED
      BY <1>1, <1>2, <1>6, <2>1, <3>1, MadeStates DEF HoldMoves
  <2>5. ~Fails(h2)
    BY <1>6, <2>1, MadeStates DEF Fails
  <2>6. h.at \in {"DmaAddress", "DmaData"}
    BY <1>6, <2>1, <2>4, MadeStates DEF BurstMoves, ForBus
  <2>7. CASE h.at = "DmaAddress"
    <3>1. ~(\E w : h2 = Q!DmaAddress(h.request, w))
      BY <1>6, <2>1, MadeStates
    <3>2. Bus.ack /\ h2 = Q!DmaData(h.request, 0, 0, None)
      BY <2>4, <2>5, <2>7, <3>1 DEF BurstMoves, ForBus
    <3>3. h2.request = h.request /\ h2.completed = 0
      BY <3>2 DEF Q!DmaData
    <3>4. peer.state.at = "DmaAddress"
      BY <2>4, <2>7, <3>2, AckIs
    <3>5. peer'.state.beat = 0
      BY <1>2, <1>6, <3>4 DEF PeerBurst
    <3>6. QED
      BY <1>2, <2>1, <2>2, <2>4, <2>7, <3>3, <3>4, <3>5 DEF PeersBurst
  <2>8. CASE h.at = "DmaData"
    <3>1. peer.state.at = "DmaData" /\ Bus.grant
      <4>1. peer.state.at = "DmaData"
        BY <2>2, <2>4, <2>8 DEF SameTransaction, QicGoesWith
      <4>2. QED
        BY <1>2, <4>1, BusIs DEF Bus
    <3>2. peer.state.request = h.request /\ peer.state.beat = h.completed
      BY <1>2, <2>4, <2>8, <3>1 DEF PeersBurst
    <3>3. peer'.state.beat = IF Counted(peer, Pins) THEN h.completed + 1 ELSE h.completed
      BY <1>2, <1>6, <3>1, <3>2 DEF PeerBurst
    <3>4. Counted(peer, Pins) <=> Pins.strobe # None /\ Bus.ack
      <4>1. peer'.state # P!Idle
        BY <1>6 DEF P!Idle
      <4>2. QED
        BY <2>4, <2>8, <3>1, <4>1, CountsIs
    <3>5. Strobed(h, Bus, Pins.strobe)
      BY <1>2, <1>4, <2>4, StrobedIs
    <3>6. \/ BurstWaits(h, Bus, ToCard, h2)
          \/ ~Q!TimedOut(h.wait) /\ (ReadMoves(h, Bus, ToCard, h2) \/ WriteMoves(h, Bus, ToCard, h2))
      BY <2>4, <2>5, <2>8 DEF BurstMoves, ForBus
    <3>7. CASE BurstWaits(h, Bus, ToCard, h2)
      <4>1. h2.request = h.request /\ h2.completed = h.completed
        BY <3>7 DEF BurstWaits, Q!DmaData
      <4>2. ~Counted(peer, Pins)
        BY <2>8, <3>4, <3>5, <3>7 DEF BurstWaits, Strobed
      <4>3. QED
        BY <2>1, <2>2, <3>2, <3>3, <4>1, <4>2
    <3>8. CASE ~Q!TimedOut(h.wait) /\ ReadMoves(h, Bus, ToCard, h2)
      <4>1. h.request.direction = "HostToDevice" /\ h2.at = "DmaData"
        BY <1>6, <2>1, <3>8 DEF ReadMoves
      <4>2. CASE h.buffer # None
        <5>1. h2 = Q!DmaData(h.request, h.completed, 0, None)
          BY <3>8, <4>1, <4>2, MadeStates DEF ReadMoves
        <5>2. h2.request = h.request /\ h2.completed = h.completed
          BY <5>1 DEF Q!DmaData
        <5>3. ~Counted(peer, Pins)
          BY <2>8, <3>4, <3>5, <4>1, <4>2 DEF Strobed
        <5>4. QED
          BY <2>1, <2>2, <3>2, <3>3, <5>2, <5>3
      <4>3. CASE h.buffer = None
        <5>1. Bus.ack /\ h2 = Q!DmaData(h.request, h.completed + 1, 0, Bus.data)
          BY <3>8, <4>3 DEF ReadMoves
        <5>2. h2.request = h.request /\ h2.completed = h.completed + 1
          BY <5>1 DEF Q!DmaData
        <5>3. Counted(peer, Pins)
          BY <2>8, <3>1, <3>4, <3>5, <3>8, <4>1, <4>3, <5>1 DEF Strobed
        <5>4. QED
          BY <2>1, <2>2, <3>2, <3>3, <5>2, <5>3
      <4>4. QED
        BY <4>2, <4>3
    <3>9. CASE ~Q!TimedOut(h.wait) /\ WriteMoves(h, Bus, ToCard, h2)
      <4>1. h.request.direction # "HostToDevice" /\ h2.at = "DmaData"
        BY <1>6, <2>1, <3>9 DEF WriteMoves
      <4>2. CASE h.buffer # None
        <5>1. Bus.ack /\ h2 = Q!DmaData(h.request, h.completed + 1, 0, None)
          BY <3>9, <4>1, <4>2, MadeStates DEF WriteMoves
        <5>2. h2.request = h.request /\ h2.completed = h.completed + 1
          BY <5>1 DEF Q!DmaData
        <5>3. Counted(peer, Pins)
          BY <2>8, <3>1, <3>4, <3>5, <3>9, <4>1, <4>2, <5>1 DEF Strobed
        <5>4. QED
          BY <2>1, <2>2, <3>2, <3>3, <5>2, <5>3
      <4>3. CASE h.buffer = None
        <5>1. h2 = Q!DmaData(h.request, h.completed, 0, ToCard.write)
          BY <3>9, <4>3 DEF WriteMoves
        <5>2. h2.request = h.request /\ h2.completed = h.completed
          BY <5>1 DEF Q!DmaData
        <5>3. ~Counted(peer, Pins)
          BY <2>8, <3>4, <3>5, <4>1, <4>3 DEF Strobed
        <5>4. QED
          BY <2>1, <2>2, <3>2, <3>3, <5>2, <5>3
      <4>4. QED
        BY <4>2, <4>3
    <3>10. QED
      BY <3>6, <3>7, <3>8, <3>9
  <2>9. QED
    BY <2>6, <2>7, <2>8
<1>7. QED
  BY <1>5, <1>6 DEF PeersBurst

-----------------------------------------------------------------------------
(* The words of the command arrive in order.                                                  *)

\* The word on the link is the one the QIC holds.
LEMMA WordIs ==
  ASSUME WholeInv, NEW a, NEW b, Clocked(a, b), OnLink(a, "DmaRead")
  PROVE  /\ LET h == Held(qic) IN
            \/ h.at = "DmaComplete"
            \/ /\ h.at = "DmaData" /\ h.request.direction = "HostToDevice"
               /\ h.buffer # None /\ h.buffer = a.body
         /\ qdx.state = "SqReceive" => a.body = Words(Wanted(qdx).handle, SqWords)[qdx.sqWord]
<1>1. PICK h : h = Held(qic)
  OBVIOUS
<1>2. /\ ToDeviceIs(a, link, Signals) /\ SignalsFit(qic, Bus, Device, Signals)
      /\ WordsOnLink /\ CommandArrives
  BY DEF Clocked, WholeInv
<1>3. CASE link.q2d # None
  <2>1. a = link.q2d /\ WordOnTheLink
    BY <1>2, <1>3 DEF ToDeviceIs, OnLink, WordOnTheLink
  <2>2. QED
    BY <1>2, <2>1 DEF WordsOnLink, CommandArrives
<1>4. CASE link.q2d = None
  <2>1. Signals.read # None /\ a.body = Signals.read
    BY <1>2, <1>4 DEF ToDeviceIs, OnLink
  <2>2. /\ h.at = "DmaData" /\ h.request.direction = "HostToDevice"
        /\ h.buffer # None /\ h.buffer = a.body
    BY <1>1, <1>2, <2>1 DEF SignalsFit
  <2>3. QED
    BY <1>1, <1>2, <2>2 DEF CommandArrives
<1>5. QED
  BY <1>3, <1>4

\* Without a burst there is none in the next clock, but for one that is asked for.
LEMMA NoBurst ==
  ASSUME NEW q, NEW q2, NEW bus, NEW v, HoldMoves(q, q2, bus, v), ~InBurst(Held(q))
  PROVE  Held(q2).at \notin {"DmaAddress", "DmaData", "DmaComplete"}
BY MadeStates DEF HoldMoves, BurstMoves, InBurst, ForBus

\* A burst that is addressed, or has its bus, came from one that had not, or is new.
LEMMA Unstarted ==
  ASSUME NEW s, NEW bus, NEW v, NEW n, BurstMoves(s, bus, v, n), ForBus(n) \/ n.at = "DmaAddress"
  PROVE  ForBus(s) \/ s.at = "DmaAddress"
<1>1. ~Fails(n)
  BY MadeStates DEF Fails, ForBus
<1>2. ~BurstWaits(s, bus, v, n) /\ ~ReadMoves(s, bus, v, n) /\ ~WriteMoves(s, bus, v, n)
  BY MadeStates DEF BurstWaits, ReadMoves, WriteMoves, ForBus
<1>3. s.at = "DmaComplete" => ~(n = IF v.completionReady THEN Q!Idle ELSE s)
  BY MadeStates DEF ForBus
<1>4. QED
  BY <1>1, <1>2, <1>3 DEF BurstMoves

\* How the QIC comes to a word of a burst.
LEMMA ToDataIs ==
  ASSUME NEW s, NEW bus, NEW v, NEW n, BurstMoves(s, bus, v, n), n.at = "DmaData"
  PROVE  \/ s.at = "DmaAddress" /\ n.completed = 0 /\ n.buffer = None /\ n.request = s.request
         \/ /\ s.at = "DmaData" /\ BurstWaits(s, bus, v, n) /\ n.request = s.request
            /\ n.completed = s.completed /\ n.buffer = s.buffer
         \/ /\ s.at = "DmaData" /\ s.request.direction = "HostToDevice" /\ n.request = s.request
            /\ \/ /\ s.buffer # None /\ v.readReady
                  /\ n.completed = s.completed /\ n.buffer = None
               \/ /\ s.buffer = None /\ bus.ack /\ bus.data # None
                  /\ n.completed = s.completed + 1 /\ n.buffer = bus.data
         \/ /\ s.at = "DmaData" /\ s.request.direction # "HostToDevice" /\ n.request = s.request
            /\ \/ /\ s.buffer # None /\ bus.ack /\ ~Q!TimedOut(s.wait)
                  /\ n.completed = s.completed + 1 /\ n.buffer = None
               \/ /\ s.buffer = None /\ v.write # None /\ n.completed = s.completed
                  /\ n.buffer = v.write
<1>1. ~Fails(n)
  BY MadeStates DEF Fails
<1>2. ASSUME NEW r, NEW c, NEW w, NEW x, n = Q!DmaData(r, c, w, x)
      PROVE  n.request = r /\ n.completed = c /\ n.buffer = x
  BY <1>2 DEF Q!DmaData
<1>3. ~(ForBus(s) /\ n = Q!DmaAddress(s.work.request, 0)) /\ ~(\E w : n = Q!DmaAddress(s.request, w))
  BY MadeStates
<1>4. s.at # "DmaComplete"
  BY MadeStates DEF BurstMoves, ForBus, Fails
<1>5. CASE s.at = "DmaAddress" /\ n = Q!DmaData(s.request, 0, 0, None)
  BY <1>2, <1>5
<1>6. CASE s.at = "DmaData" /\ BurstWaits(s, bus, v, n)
  BY <1>2, <1>6 DEF BurstWaits
<1>7. CASE s.at = "DmaData" /\ ReadMoves(s, bus, v, n)
  <2>1. ~(\E c : n = Q!DmaComplete("Ok", c))
    BY MadeStates
  <2>2. QED
    BY <1>2, <1>7, <2>1 DEF ReadMoves
<1>8. CASE s.at = "DmaData" /\ ~Q!TimedOut(s.wait) /\ WriteMoves(s, bus, v, n)
  <2>1. ~(\E c : n = Q!DmaComplete("Ok", c))
    BY MadeStates
  <2>2. QED
    BY <1>2, <1>8, <2>1 DEF WriteMoves
<1>9. QED
  BY <1>1, <1>3, <1>4, <1>5, <1>6, <1>7, <1>8 DEF BurstMoves, ForBus

LEMMA FetchWanted ==
  ASSUME NEW d, ChipShape(d), d.state \in Fetching
  PROVE  /\ Wanted(d).direction = "HostToDevice" /\ Wanted(d).words = SqWords
         /\ Wanted(d).handle = Entry(d.sqBase, d.sqHead, SqWords)
BY WantedIs DEF FetchOf

\* A clock of the chip keeps the command buffer, or puts one word in it.
LEMMA CommandBuffer ==
  ASSUME NEW d, NEW qli, NEW signals, NEW e,
         StateAccess(d, qli, e) \/ EngineClock(d, qli, signals, e),
         d.command = [i \in 0..SqWords - 1 |-> d.command[i]]
  PROVE  e.command = [i \in 0..SqWords - 1 |-> e.command[i]]
<1>1. CASE e = Accepted(HardReset)
  BY <1>1, ResetIs
<1>2. CASE e.command = d.command
  BY <1>2
<1>3. CASE e.command = [d.command EXCEPT ![d.sqWord] = qli.read]
  <2>1. e.command = [i \in 0..SqWords - 1 |-> IF i = d.sqWord THEN qli.read ELSE d.command[i]]
    BY <1>3
  <2>2. QED
    BY <2>1
<1>4. QED
  BY <1>1, <1>2, <1>3 DEF StateAccess, Rests, Untouched, EngineClock, Engine, Stays, RequestTaken,
     WordTaken, WordGiven, BurstDone, CompletionTaken, Goes1

\* One word more.
Buffer(f) == f = [i \in 0..SqWords - 1 |-> f[i]]

Received(f, k, words) == \A i \in 0..k - 1 : f[i] = words[i]

Receives(f, k, words, g) == g = [f EXCEPT ![k] = words[k]]

LEMMA OneMore ==
  ASSUME NEW f, Buffer(f), NEW k \in 0..SqWords - 1, NEW words, Received(f, k, words),
         NEW g, Receives(f, k, words, g)
  PROVE  \A i \in 0..k : g[i] = words[i]
<1>1. SqWords \in Nat
  BY QueueAssumption
<1>2. TAKE i \in 0..k
<1>3. i \in 0..SqWords - 1 /\ (i # k => i \in 0..k - 1)
  BY <1>1
<1>4. g[i] = IF i = k THEN words[k] ELSE f[i]
  BY <1>3 DEF Buffer, Receives
<1>5. QED
  BY <1>3, <1>4 DEF Received

\* While the chip receives: what the QIC has after a clock.
ReceivedTo(h2, sqWord, words) ==
  /\ h2.at = "DmaData" => /\ h2.completed = sqWord + One(h2.buffer)
                          /\ h2.buffer # None => h2.buffer = words[sqWord]
  /\ ForBus(h2) \/ h2.at = "DmaAddress" => sqWord = 0

LEMMA ReceiveStays ==
  ASSUME RoomInv, SameTransaction, WholeInv, NEW a, NEW b, Clocked(a, b),
         qdx.state = "SqReceive", ToChip.read = None
  PROVE  ReceivedTo(Held(qic'), qdx.sqWord, Words(Wanted(qdx).handle, SqWords))
<1>1. PICK h, h2, words : h = Held(qic) /\ h2 = Held(qic') /\ words = Words(Wanted(qdx).handle, SqWords)
  OBVIOUS
<1>2. /\ ReceivedTo(h, qdx.sqWord, words) /\ qdx.sqWord \in 0..SqWords - 1
      /\ HoldMoves(qic, qic', Bus, ToCard) /\ BurstShape(h) /\ PeersBurst
  BY <1>1 DEF WholeInv, CommandArrives, ReceivedTo, Clocked, BurstsShaped
<1>3. ToCard.dma = None
  BY RequestGivenIs DEF Requesting
<1>4. (InBurst(h) /\ h.at # "DmaComplete") => RequestOf(h) = Wanted(qdx)
  BY <1>1 DEF WholeInv, OwnBurst, Served
<1>5. Wanted(qdx).direction = "HostToDevice" /\ Wanted(qdx).words = SqWords
  BY FetchWanted DEF RoomInv, ShapeInv, Fetching
<1>6. CASE h2 = h \/ ~InBurst(h2)
  BY <1>1, <1>2, <1>6 DEF ReceivedTo, InBurst
<1>7. CASE h = qic.state /\ BurstMoves(h, Bus, ToCard, h2)
  <2>1. (ForBus(h2) \/ h2.at = "DmaAddress") => qdx.sqWord = 0
    BY <1>2, <1>7, Unstarted DEF ReceivedTo
  <2>2. ASSUME h2.at = "DmaData"
        PROVE  /\ h2.completed = qdx.sqWord + One(h2.buffer)
               /\ h2.buffer # None => h2.buffer = words[qdx.sqWord]
    <3>1. CASE h.at = "DmaAddress" /\ h2.completed = 0 /\ h2.buffer = None
      BY <1>2, <3>1 DEF ReceivedTo, One
    <3>2. CASE h.at = "DmaData" /\ h2.completed = h.completed /\ h2.buffer = h.buffer
      BY <1>2, <3>2 DEF ReceivedTo
    <3>3. CASE h.at = "DmaData" /\ h.buffer # None /\ ToCard.readReady
      <4>1. OnLink(a, "DmaRead") /\ ToChip.read = a.body
        BY <3>3, GivenIs
      <4>2. h.buffer = a.body
        BY <1>1, <3>3, <4>1, WordIs
      <4>3. QED
        BY <3>3, <4>1, <4>2
    <3>4. CASE /\ h.at = "DmaData" /\ h.buffer = None /\ Bus.ack /\ Bus.data # None
               /\ h2.completed = h.completed + 1 /\ h2.buffer = Bus.data
      <4>1. h.request = Wanted(qdx)
        BY <1>4, <3>4 DEF InBurst, RequestOf
      <4>2. Bus.data = Words(Wanted(qdx).handle, SqWords)[h.completed]
        BY <1>2, <1>5, <1>7, <3>4, <4>1, DataIs
      <4>3. h.completed = qdx.sqWord
        BY <1>2, <3>4 DEF ReceivedTo, One
      <4>4. QED
        BY <1>1, <1>2, <3>4, <4>2, <4>3 DEF One
    <3>5. CASE h.at = "DmaData" /\ h.request.direction # "HostToDevice"
      BY <1>4, <1>5, <3>5 DEF InBurst, RequestOf
    <3>6. QED
      BY <1>7, <2>2, <3>1, <3>2, <3>3, <3>4, <3>5, ToDataIs
  <2>3. QED
    BY <1>1, <2>1, <2>2 DEF ReceivedTo
<1>8. QED
  BY <1>1, <1>2, <1>3, <1>6, <1>7 DEF HoldMoves

LEMMA ReceiveGoesOn ==
  ASSUME RoomInv, SameTransaction, WholeInv, NEW a, NEW b, Clocked(a, b),
         qdx.state = "SqReceive", ToChip.read # None, qdx.sqWord # SqWords - 1
  PROVE  ReceivedTo(Held(qic'), qdx.sqWord + 1, Words(Wanted(qdx).handle, SqWords))
<1>1. PICK h, h2, words : h = Held(qic) /\ h2 = Held(qic') /\ words = Words(Wanted(qdx).handle, SqWords)
  OBVIOUS
<1>2. /\ ReceivedTo(h, qdx.sqWord, words) /\ qdx.sqWord \in 0..SqWords - 1
      /\ HoldMoves(qic, qic', Bus, ToCard)
  BY <1>1 DEF WholeInv, CommandArrives, ReceivedTo, Clocked
<1>3. OnLink(a, "DmaRead") /\ ToCard.readReady
  BY GivenIs
<1>4. h.at = "DmaComplete" \/ (/\ h.at = "DmaData" /\ h.request.direction = "HostToDevice"
                               /\ h.buffer # None)
  BY <1>1, <1>3, WordIs
<1>5. h.at = "DmaData" => h.request = Wanted(qdx) /\ h.request.words = SqWords
                           /\ h.completed = qdx.sqWord + 1
  <2>1. h.at = "DmaData" => h.request = Wanted(qdx)
    BY <1>1 DEF WholeInv, OwnBurst, Served, InBurst, RequestOf
  <2>2. Wanted(qdx).words = SqWords
    BY FetchWanted DEF RoomInv, ShapeInv, Fetching
  <2>3. QED
    BY <1>2, <1>4, <2>1, <2>2 DEF ReceivedTo, One
<1>6. SqWords \in Nat /\ qdx.sqWord \in Nat
  BY <1>2, QueueAssumption
<1>7. CASE h2 = h /\ Keeping(h, qic, qic')
  <2>1. h.at = "DmaData" => h.completed = h.request.words
    BY <1>7 DEF Keeping, Q!FinalReadBuffer
  <2>2. h.at = "DmaComplete"
    BY <1>4, <1>5, <1>6, <2>1
  <2>3. QED
    BY <1>1, <1>7, <2>2 DEF ReceivedTo, ForBus
<1>8. CASE ~InBurst(h2)
  BY <1>1, <1>8 DEF ReceivedTo, InBurst
<1>9. CASE BurstMoves(h, Bus, ToCard, h2)
  <2>1. ~(ForBus(h2) \/ h2.at = "DmaAddress")
    BY <1>4, <1>9, Unstarted DEF ForBus
  <2>2. ASSUME h2.at = "DmaData"
        PROVE  h2.completed = h.completed /\ h2.buffer = None /\ h.at = "DmaData"
    BY <1>3, <1>4, <1>9, <2>2, ToDataIs DEF BurstWaits
  <2>3. QED
    BY <1>1, <1>5, <1>6, <2>1, <2>2 DEF ReceivedTo, One
<1>10. QED
  BY <1>1, <1>2, <1>4, <1>7, <1>8, <1>9 DEF HoldMoves, InBurst, ForBus

\* A table of the words of a command is the one that has them.
LEMMA WholeIs ==
  ASSUME NEW f, f = [i \in 0..SqWords - 1 |-> f[i]], NEW handle,
         \A i \in 0..SqWords - 1 : f[i] = Words(handle, SqWords)[i]
  PROVE  f = Words(handle, SqWords)
<1>1. PICK words : words = Words(handle, SqWords)
  OBVIOUS
<1>2. words = [i \in 0..SqWords - 1 |-> words[i]]
  BY <1>1 DEF Words
<1>3. [i \in 0..SqWords - 1 |-> f[i]] = [i \in 0..SqWords - 1 |-> words[i]]
  BY <1>1
<1>4. QED
  BY <1>1, <1>2, <1>3

\* The words of a command, as far as they have come.
LEMMA CommandKept ==
  ASSUME RoomInv, SameTransaction, WholeInv, NEW a, NEW b, Clocked(a, b)
  PROVE  CommandArrives' /\ CommandIsWhole'
<1>1. PICK h2, words, words2 :
        /\ h2 = Held(qic') /\ words = Words(Wanted(qdx).handle, SqWords)
        /\ words2 = Words(Wanted(qdx').handle, SqWords)
  OBVIOUS
<1>2. /\ ChipShape(qdx) /\ CommandArrives /\ CommandIsWhole
      /\ StateAccess(qdx, ToChip, qdx') \/ EngineClock(qdx, ToChip, Drive, qdx')
      /\ Same(link'.q2d, a)
  BY DEF RoomInv, ShapeInv, WholeInv, Clocked, Carried
<1>3. qdx'.command = [i \in 0..SqWords - 1 |-> qdx'.command[i]]
  BY <1>2, CommandBuffer DEF CommandArrives
<1>4. SqWords \in Nat \ {0} /\ SqWords \in Nat
  BY QueueAssumption
<1>5. qdx.state = "SqReceive" =>
        /\ qdx.sqWord \in 0..SqWords - 1
        /\ \A i \in 0..qdx.sqWord - 1 : qdx.command[i] = words[i]
        /\ OnLink(a, "DmaRead") => a.body = words[qdx.sqWord]
  BY <1>1, <1>2, WordIs DEF CommandArrives
<1>6. ASSUME qdx'.state = "SqReceive"
      PROVE  /\ qdx'.sqWord \in 0..SqWords - 1
             /\ \A i \in 0..qdx'.sqWord - 1 : qdx'.command[i] = words2[i]
             /\ WordOnTheLink' => link'.q2d.body = words2[qdx'.sqWord]
             /\ ReceivedTo(h2, qdx'.sqWord, words2)
  <2>1. words2 = words
    BY <1>1, <1>2, <1>6, ServedIs DEF Served
  <2>2. \/ qdx.state = "SqReceive" /\ Stays(qdx, ToChip, Drive, qdx')
        \/ qdx.state = "SqReceive" /\ WordTaken(qdx, ToChip, qdx')
        \/ qdx.state = "SqRequest" /\ RequestTaken(qdx, ToChip, qdx')
    <3>1. qdx'.state \in Served
      BY <1>6 DEF Served
    <3>2. \/ qdx.state \in Served /\ \/ Stays(qdx, ToChip, Drive, qdx')
                                     \/ WordTaken(qdx, ToChip, qdx')
                                     \/ WordGiven(qdx, ToChip, qdx')
          \/ qdx.state \in Requesting /\ RequestTaken(qdx, ToChip, qdx')
      BY <1>2, <3>1, ServedIs
    <3>3. QED
      BY <1>6, <3>2 DEF Stays, WordTaken, WordGiven, RequestTaken
  <2>3. CASE qdx.state = "SqReceive" /\ Stays(qdx, ToChip, Drive, qdx')
    <3>1. qdx'.sqWord = qdx.sqWord /\ qdx'.command = qdx.command /\ ToChip.read = None
      BY <2>3 DEF Stays
    <3>2. WordOnTheLink' => OnLink(a, "DmaRead") /\ link'.q2d.body = a.body
      BY <1>2 DEF WordOnTheLink, Same, OnLink
    <3>3. ReceivedTo(h2, qdx.sqWord, words)
      BY <1>1, <2>3, <3>1, ReceiveStays
    <3>4. QED
      BY <1>5, <2>1, <2>3, <3>1, <3>2, <3>3
  <2>4. CASE qdx.state = "SqReceive" /\ WordTaken(qdx, ToChip, qdx')
    <3>1. /\ ToChip.read # None /\ qdx.sqWord # SqWords - 1 /\ qdx'.sqWord = qdx.sqWord + 1
          /\ qdx'.command = [qdx.command EXCEPT ![qdx.sqWord] = ToChip.read]
      BY <1>6, <2>4 DEF WordTaken
    <3>2. ToChip.read = words[qdx.sqWord] /\ link'.q2d = None
      BY <1>5, <2>4, <3>1, GivenIs
    <3>3. qdx'.command = [qdx.command EXCEPT ![qdx.sqWord] = words[qdx.sqWord]]
      BY <3>1, <3>2
    <3>4. \A i \in 0..qdx.sqWord : qdx'.command[i] = words[i]
      <4>1. PICK f, g, k :
              /\ f = qdx.command /\ g = qdx'.command /\ k = qdx.sqWord /\ k \in 0..SqWords - 1
        BY <1>5, <2>4
      <4>2. Buffer(f) /\ Receives(f, k, words, g) /\ Received(f, k, words)
        BY <1>2, <1>5, <2>4, <3>3, <4>1 DEF CommandArrives, Buffer, Received, Receives
      <4>3. \A i \in 0..k : g[i] = words[i]
        BY <4>1, <4>2, OneMore
      <4>4. QED
        BY <4>1, <4>3
    <3>5. ReceivedTo(h2, qdx.sqWord + 1, words)
      BY <1>1, <2>4, <3>1, ReceiveGoesOn
    <3>6. qdx.sqWord + 1 \in 0..SqWords - 1 /\ qdx.sqWord + 1 - 1 = qdx.sqWord
      BY <1>4, <1>5, <2>4, <3>1
    <3>7. \A i \in 0..qdx'.sqWord - 1 : qdx'.command[i] = words[i]
      <4>1. PICK n : n = qdx'.sqWord - 1
        OBVIOUS
      <4>2. n = qdx.sqWord
        <5>1. qdx.sqWord \in Int
          BY <1>5, <2>4
        <5>2. QED
          BY <3>1, <4>1, <5>1
      <4>3. \A i \in 0..n : qdx'.command[i] = words[i]
        BY <3>4, <4>2
      <4>4. QED
        BY <4>1, <4>3
    <3>8. QED
      BY <2>1, <3>1, <3>2, <3>5, <3>6, <3>7 DEF WordOnTheLink
  <2>5. CASE qdx.state = "SqRequest" /\ RequestTaken(qdx, ToChip, qdx')
    <3>1. qdx'.sqWord = 0 /\ ToChip.dmaReady
      BY <1>6, <2>5 DEF RequestTaken
    <3>2. ~InBurst(Held(qic)) /\ HoldMoves(qic, qic', Bus, ToCard)
      BY <3>1, RequestGivenIs DEF Clocked
    <3>3. h2.at \notin {"DmaAddress", "DmaData", "DmaComplete"}
      BY <1>1, <3>2, NoBurst
    <3>4. ~WordOnTheLink'
      <4>1. WordsOnLink'
        BY WordsKept
      <4>2. QED
        BY <1>1, <3>3, <4>1 DEF WordsOnLink
    <3>5. 0 \in 0..SqWords - 1 /\ \A i \in 0..0 - 1 : qdx'.command[i] = words2[i]
      BY <1>4
    <3>6. QED
      BY <3>1, <3>3, <3>4, <3>5 DEF ReceivedTo
  <2>6. QED
    BY <2>2, <2>3, <2>4, <2>5
<1>7. ASSUME qdx'.state = "SqCompletion"
      PROVE  qdx'.command = words2
  <2>1. words2 = words
    BY <1>1, <1>2, <1>7, ServedIs DEF Served
  <2>2. \/ qdx.state = "SqCompletion" /\ Stays(qdx, ToChip, Drive, qdx')
        \/ qdx.state = "SqReceive" /\ WordTaken(qdx, ToChip, qdx')
    <3>1. qdx'.state \in Served
      BY <1>7 DEF Served
    <3>2. \/ qdx.state \in Served /\ \/ Stays(qdx, ToChip, Drive, qdx')
                                     \/ WordTaken(qdx, ToChip, qdx')
                                     \/ WordGiven(qdx, ToChip, qdx')
          \/ qdx.state \in Requesting /\ RequestTaken(qdx, ToChip, qdx')
      BY <1>2, <3>1, ServedIs
    <3>3. QED
      BY <1>7, <3>2 DEF Stays, WordTaken, WordGiven, RequestTaken
  <2>3. CASE qdx.state = "SqCompletion" /\ Stays(qdx, ToChip, Drive, qdx')
    BY <1>1, <1>2, <2>1, <2>3 DEF Stays, CommandArrives
  <2>4. CASE qdx.state = "SqReceive" /\ WordTaken(qdx, ToChip, qdx')
    <3>1. /\ ToChip.read # None /\ qdx.sqWord = SqWords - 1
          /\ qdx'.command = [qdx.command EXCEPT ![qdx.sqWord] = ToChip.read]
      BY <1>7, <2>4 DEF WordTaken
    <3>2. ToChip.read = words[qdx.sqWord]
      BY <1>5, <2>4, <3>1, GivenIs
    <3>3. qdx'.command = [qdx.command EXCEPT ![qdx.sqWord] = words[qdx.sqWord]]
      BY <3>1, <3>2
    <3>4. \A i \in 0..qdx.sqWord : qdx'.command[i] = words[i]
      <4>1. PICK f, g, k :
              /\ f = qdx.command /\ g = qdx'.command /\ k = qdx.sqWord /\ k \in 0..SqWords - 1
        BY <1>5, <2>4
      <4>2. Buffer(f) /\ Receives(f, k, words, g) /\ Received(f, k, words)
        BY <1>2, <1>5, <2>4, <3>3, <4>1 DEF CommandArrives, Buffer, Received, Receives
      <4>3. \A i \in 0..k : g[i] = words[i]
        BY <4>1, <4>2, OneMore
      <4>4. QED
        BY <4>1, <4>3
    <3>5. QED
      <4>1. PICK f, handle : f = qdx'.command /\ handle = Wanted(qdx).handle
        OBVIOUS
      <4>2. f = [i \in 0..SqWords - 1 |-> f[i]]
        BY <1>3, <4>1
      <4>3. \A i \in 0..SqWords - 1 : f[i] = Words(handle, SqWords)[i]
        BY <1>1, <3>1, <3>4, <4>1
      <4>4. f = Words(handle, SqWords)
        BY <4>2, <4>3, WholeIs
      <4>5. QED
        BY <1>1, <2>1, <4>1, <4>4
  <2>5. QED
    BY <2>2, <2>3, <2>4
<1>8. CommandArrives'
  BY <1>1, <1>3, <1>6, <1>7 DEF CommandArrives, ReceivedTo
<1>9. ASSUME qdx'.state = "EndpointOffer"
      PROVE  qdx'.command = Words(Entry(qdx'.sqBase, Minus(qdx'.sqHead, 1), SqWords), SqWords)
  <2>1. EngineClock(qdx, ToChip, Drive, qdx')
    BY <1>2, <1>9, AccessAnswered
  <2>2. \/ qdx.state = "EndpointOffer" /\ Stays(qdx, ToChip, Drive, qdx')
        \/ qdx.state = "SqCompletion" /\ BurstDone(qdx, ToChip, qdx')
    BY <1>9, <2>1 DEF EngineClock, Engine, Stays, WordTaken, WordGiven, RequestTaken, BurstDone,
       CompletionTaken, Goes1
  <2>3. qdx'.sqBase = qdx.sqBase
    BY <2>1, <2>2 DEF EngineClock, SameBases
  <2>4. CASE qdx.state = "EndpointOffer" /\ Stays(qdx, ToChip, Drive, qdx')
    BY <1>2, <2>3, <2>4 DEF Stays, Keeps, CommandIsWhole, Fetched
  <2>5. CASE qdx.state = "SqCompletion" /\ BurstDone(qdx, ToChip, qdx')
    <3>1. qdx'.command = words /\ qdx'.sqHead = Plus1(qdx.sqHead)
      BY <1>1, <1>2, <1>9, <2>5 DEF BurstDone, CommandArrives
    <3>2. Wanted(qdx).handle = Entry(qdx.sqBase, qdx.sqHead, SqWords)
      BY <1>2, <2>5, FetchWanted DEF Fetching
    <3>3. qdx.sqHead \in 0..Positions - 1
      BY DEF RoomInv, PositionsInRange
    <3>4. Minus(qdx'.sqHead, 1) = qdx.sqHead
      BY <3>1, <3>3, FetchedIs
    <3>5. QED
      BY <1>1, <2>3, <3>1, <3>2, <3>4
  <2>6. QED
    BY <2>2, <2>4, <2>5
<1>10. QED
  BY <1>8, <1>9 DEF CommandIsWhole, Fetched

-----------------------------------------------------------------------------
(* The endpoint makes the completion of the present command.                                  *)

LEMMA ResetPulses ==
  ASSUME NEW e, e \in {HardReset, Accepted(HardReset)}
  PROVE  e.resetPulse = TRUE /\ e.state = "Disabled"
<1>1. PICK n, h : n = NewQdx /\ h = HardReset
  OBVIOUS
<1>2. n = [NewQdx EXCEPT !.resetPulse = n.resetPulse] /\ ChipShape(n) /\ n.state = "Disabled"
  BY <1>1, ResetIs DEF NewQdx
<1>3. ChipShape(h) /\ h.resetPulse = TRUE /\ h.state = "Disabled"
  BY <1>1, <1>2 DEF HardReset, ChipShape
<1>4. PICK a : a = Accepted(h)
  OBVIOUS
<1>5. a.resetPulse = TRUE /\ a.state = "Disabled"
  BY <1>3, <1>4 DEF Accepted, ChipShape
<1>6. QED
  BY <1>1, <1>3, <1>4, <1>5

\* A chip that is at work has not been touched by a register access, and keeps its bases.
LEMMA AtWork ==
  ASSUME NEW d, ChipShape(d), NEW qli, NEW signals, NEW e,
         StateAccess(d, qli, e) \/ EngineClock(d, qli, signals, e),
         e.state \notin {"Disabled", "Fault", "ReadyIdle"}
  PROVE  EngineClock(d, qli, signals, e) /\ Engine(d, qli, signals, e) /\ e.resetPulse = FALSE
         /\ d.state \notin {"Disabled", "Fault"} /\ SameBases(d, e)
<1>1. EngineClock(d, qli, signals, e)
  BY AccessAnswered
<1>2. Engine(d, qli, signals, e) /\ e.resetPulse = FALSE /\ (d.state # "Disabled" => SameBases(d, e))
  BY <1>1 DEF EngineClock
<1>3. d.state \notin {"Disabled", "Fault"}
  BY <1>2 DEF Engine, Stays, RequestTaken, WordTaken, WordGiven, BurstDone, CompletionTaken, Goes1
<1>4. QED
  BY <1>1, <1>2, <1>3

LEMMA MadeKept ==
  ASSUME RoomInv, WholeInv, NEW a, NEW b, Clocked(a, b)
  PROVE  CompletionMade'
<1>1. /\ ChipShape(qdx) /\ CompletionMade /\ CommandIsWhole
      /\ StateAccess(qdx, ToChip, qdx') \/ EngineClock(qdx, ToChip, Drive, qdx')
      /\ endpoint' = EndpointClock(endpoint, EndpointPort(qdx, FALSE))
      /\ qdx.state = "EndpointCompletion" => CqUsed(qdx) < Ring
  BY DEF RoomInv, ShapeInv, WholeInv, Clocked, RoomForCompletion
<1>2. Drive.commandReady = (endpoint = None /\ ~qdx.resetPulse) /\ Drive.completion = endpoint
  BY DEF Drive, EndpointDrive, EndpointPort
<1>3. ASSUME endpoint' # None
      PROVE  /\ ~qdx.resetPulse
             /\ \/ /\ endpoint = None /\ qdx.state = "EndpointOffer"
                   /\ endpoint' = MakeCompletion(qdx.command)
                \/ endpoint # None /\ qdx.state = "Fault" /\ endpoint' = endpoint
  <2>1. ~qdx.resetPulse
    BY <1>1, <1>3 DEF EndpointClock, EndpointPort
  <2>2. CASE endpoint = None
    BY <1>1, <1>3, <2>1, <2>2 DEF EndpointClock, EndpointPort
  <2>3. CASE endpoint # None
    <3>1. qdx.state \in {"EndpointCompletion", "Fault"}
      BY <1>1, <2>1, <2>3 DEF CompletionMade
    <3>2. qdx.state # "EndpointCompletion" /\ endpoint' = endpoint
      BY <1>1, <1>3, <2>1, <2>3 DEF EndpointClock, EndpointPort
    <3>3. QED
      BY <2>1, <2>3, <3>1, <3>2
  <2>4. QED
    BY <2>2, <2>3
<1>4. ASSUME StateAccess(qdx, ToChip, qdx')
      PROVE  qdx'.resetPulse \/ qdx'.state \in {"Fault", "ReadyIdle"}
  <2>1. CASE qdx' = Accepted(HardReset)
    BY <2>1, ResetPulses
  <2>2. QED
    BY <1>4, <2>1 DEF StateAccess
<1>5. ASSUME endpoint' # None
      PROVE  qdx'.resetPulse \/ qdx'.state \in {"EndpointCompletion", "Fault"}
  <2>1. CASE StateAccess(qdx, ToChip, qdx')
    <3>1. qdx'.state = "ReadyIdle" /\ ~qdx'.resetPulse => qdx.state = "Disabled"
      BY <2>1, ResetPulses DEF StateAccess
    <3>2. QED
      BY <1>3, <1>4, <1>5, <2>1, <3>1
  <2>2. CASE EngineClock(qdx, ToChip, Drive, qdx')
    <3>1. Engine(qdx, ToChip, Drive, qdx')
      BY <2>2 DEF EngineClock
    <3>2. QED
      BY <1>2, <1>3, <1>5, <3>1 DEF Engine, Stays, RequestTaken, WordTaken, WordGiven, BurstDone,
         CompletionTaken, Goes1
  <2>3. QED
    BY <1>1, <2>1, <2>2
<1>6. ASSUME endpoint' # None, qdx'.state = "EndpointCompletion"
      PROVE  endpoint' = Present'
  <2>1. EngineClock(qdx, ToChip, Drive, qdx') /\ Engine(qdx, ToChip, Drive, qdx') /\ SameBases(qdx, qdx')
        /\ qdx.state # "Fault"
    BY <1>1, <1>6, AtWork
  <2>2. qdx.state = "EndpointOffer" /\ endpoint' = MakeCompletion(qdx.command)
    BY <1>3, <1>6, <2>1
  <2>3. qdx'.sqHead = qdx.sqHead /\ qdx'.sqBase = qdx.sqBase
    BY <1>6, <2>1, <2>2 DEF Engine, Stays, RequestTaken, WordTaken, WordGiven, BurstDone,
       CompletionTaken, Goes1, Keeps, SameBases
  <2>4. endpoint' = Present
    BY <1>1, <2>2 DEF CommandIsWhole, Present
  <2>5. QED
    BY <2>3, <2>4 DEF Present, Fetched
<1>7. ASSUME qdx'.state \in {"CqRequest", "CqSend", "CqCompletion"}
      PROVE  qdx'.completion = Present'
  <2>1. Engine(qdx, ToChip, Drive, qdx') /\ SameBases(qdx, qdx')
    BY <1>1, <1>7, AtWork
  <2>2. \/ /\ qdx.state \in {"CqRequest", "CqSend", "CqCompletion"}
           /\ qdx'.completion = qdx.completion /\ qdx'.sqHead = qdx.sqHead
        \/ CompletionTaken(qdx, Drive, qdx')
    BY <1>7, <2>1 DEF Engine, Stays, RequestTaken, WordTaken, WordGiven, BurstDone, Goes1, Keeps
  <2>3. qdx'.completion = Present /\ qdx'.sqHead = qdx.sqHead
    BY <1>1, <1>2, <2>2 DEF CompletionTaken, CompletionMade
  <2>4. qdx'.sqBase = qdx.sqBase
    BY <2>1 DEF SameBases
  <2>5. QED
    BY <2>3, <2>4 DEF Present, Fetched
<1>8. QED
  BY <1>5, <1>6, <1>7 DEF CompletionMade

-----------------------------------------------------------------------------
(* The words of the completion leave in order.                                                *)

\* What the host has of it.
Have(words, n, present) == words = [i \in 1..n |-> present[i - 1]]

LEMMA NoneYet ==
  ASSUME NEW present
  PROVE  Have(<< >>, 0, present)
<1>1. 1..0 = {}
  OBVIOUS
<1>2. QED
  BY <1>1 DEF Have

LEMMA OneMoreWritten ==
  ASSUME NEW words, NEW n \in Nat, NEW present, Have(words, n, present)
  PROVE  Have(Append(words, present[n]), n + 1, present)
<1>1. PICK w : w = present[n]
  OBVIOUS
<1>2. PICK p : p = [i \in 1..n |-> present[i - 1]]
  OBVIOUS
<1>3. Len(p) = n
  BY <1>2
<1>4. Append(p, w) = [i \in 1..n + 1 |-> IF i <= n THEN p[i] ELSE w]
  BY <1>2, <1>3
<1>5. ASSUME NEW i \in 1..n + 1
      PROVE  (IF i <= n THEN p[i] ELSE w) = present[i - 1]
  BY <1>1, <1>2
<1>6. Append(p, w) = [i \in 1..n + 1 |-> present[i - 1]]
  BY <1>4, <1>5
<1>7. QED
  BY <1>1, <1>2, <1>6 DEF Have

\* The words the host has change only with a burst that is addressed, or in its data phase.
LEMMA WordsRest ==
  ASSUME NEW a, NEW b, Clocked(a, b), qic.state.at \notin {"DmaAddress", "DmaData"}, SameTransaction
  PROVE  peer'.words = peer.words
<1>1. PeerBurst(peer, Pins, peer') /\ Pins.strobe = Q!Strobe(qic.state, Bus)
  BY DEF Clocked, Pins, Q!CardPins
<1>2. Pins.strobe # None =>
        qic.state.at \in {"NotificationAddress", "NotificationData"} /\ Pins.strobe.kind # "HostDma"
  BY <1>1 DEF Q!Strobe
<1>3. ~Addressed(peer, Pins)
  BY <1>2 DEF Addressed
<1>4. ~Counted(peer, Pins)
  BY <1>2 DEF Counted, SameTransaction, QicGoesWith
<1>5. QED
  BY <1>1, <1>3, <1>4 DEF PeerBurst

\* In the data phase of a burst to the host: it gets the word the QIC holds, when it acknowledges.
LEMMA WordWritten ==
  ASSUME RoomInv, SameTransaction, WholeInv, NEW a, NEW b, Clocked(a, b), qic.state.at = "DmaData",
         Held(qic) = qic.state, qic.state.request.direction # "HostToDevice",
         ~Q!TimedOut(qic.state.wait)
  PROVE  peer'.words = IF Bus.ack /\ qic.state.buffer # None
                       THEN Append(peer.words, qic.state.buffer) ELSE peer.words
<1>1. PICK s : s = qic.state
  OBVIOUS
<1>2. /\ PeerBurst(peer, Pins, peer') /\ Pins.strobe = Q!Strobe(s, Bus) /\ BurstShape(s)
      /\ PeersBurst /\ PeerShape(peer)
  BY <1>1 DEF Clocked, Pins, Q!CardPins, WholeInv, BurstsShaped, RoomInv, ShapeInv
<1>3. Strobed(s, Bus, Pins.strobe)
  BY <1>2, StrobedIs
<1>4. ~Addressed(peer, Pins)
  BY <1>1, <1>3 DEF Addressed, Strobed
<1>5. Pins.request
  BY <1>1 DEF Pins, Q!CardPins, Q!RequestsBus, Q!FinalReadBuffer
<1>6. Bus.ack = (peer.state.at \in PeerPhases /\ peer.state.wait = 0 /\ peer.state.fault # "Err")
      /\ Bus.grant = (peer.state.at \notin {"Idle", "WorkerAddress", "WorkerData"})
  BY <1>2, BusIs DEF Bus
<1>7. CASE Bus.ack /\ s.buffer # None
  <2>1. peer.state.at = "DmaData" /\ peer.state.wait = 0 /\ peer.state.fault # "Err"
    BY <1>1, <1>7, AckIs
  <2>2. peer.state.request = s.request
    BY <1>1, <1>2, <2>1 DEF PeersBurst
  <2>3. Pins.strobe # None /\ Pins.strobe.value = s.buffer
    BY <1>1, <1>3, <1>6, <1>7, <2>1 DEF Strobed
  <2>4. Counted(peer, Pins)
    BY <1>5, <2>1, <2>3 DEF Counted
  <2>5. QED
    BY <1>1, <1>2, <1>4, <1>7, <2>2, <2>3, <2>4 DEF PeerBurst
<1>8. CASE ~(Bus.ack /\ s.buffer # None)
  <2>1. ~Counted(peer, Pins)
    BY <1>1, <1>3, <1>6, <1>8 DEF Counted, Strobed, PeerPhases
  <2>2. QED
    BY <1>1, <1>2, <1>4, <1>8, <2>1 DEF PeerBurst
<1>9. QED
  BY <1>7, <1>8

\* While the chip sends: what the QIC and the host have after a clock.
SentTo(h2, sent, words, present) ==
  /\ h2.at = "DmaData" => /\ sent = h2.completed + One(h2.buffer)
                          /\ h2.buffer # None => h2.buffer = present[h2.completed]
                          /\ Have(words, h2.completed, present)
  /\ ForBus(h2) \/ h2.at = "DmaAddress" => sent = 0
  /\ h2.at = "DmaComplete" /\ h2.status = "Ok" => Have(words, CqWords, present)

\* A word the QIC takes is the next one, and it has a place for it.
LEMMA WordTakenIs ==
  ASSUME RoomInv, WholeInv, NEW a, NEW b, Clocked(a, b),
         qdx.state \in {"CqSend", "CqCompletion"}, ToCard.write # None \/ ToChip.writeReady
  PROVE  /\ ToCard.write # None /\ ToCard.write = Present[qdx.cqWord] /\ ToChip.writeReady
         /\ qdx.state = "CqSend" /\ link'.d2q = None
         /\ Held(qic).at = "DmaData" /\ Held(qic).buffer = None
<1>1. /\ OnLink(b, "DmaWrite") /\ ToCard.write = b.body /\ ToChip.writeReady /\ link'.d2q = None
  BY GivenIs
<1>2. b.body # None
  BY <1>1, BodiesAre
<1>3. /\ CompletionLeaves /\ ToQicIs(b, link, Signals, Device) /\ SignalsFit(qic, Bus, Device, Signals)
      /\ Signals.writeReady
  BY <1>1 DEF WholeInv, Clocked, Carried, ToChip
<1>4. qdx.state = "CqSend" /\ b.body = Present[qdx.cqWord]
  <2>1. CASE link.d2q = None
    BY <1>1, <2>1, BodiesAre
  <2>2. CASE link.d2q # None
    BY <1>1, <1>3, <2>2 DEF ToQicIs, CompletionLeaves
  <2>3. QED
    BY <2>1, <2>2
<1>5. Held(qic).at = "DmaData" /\ Held(qic).buffer = None
  BY <1>3 DEF SignalsFit
<1>6. QED
  BY <1>1, <1>2, <1>4, <1>5

LEMMA SendGoesOn ==
  ASSUME RoomInv, SameTransaction, WholeInv, NEW a, NEW b, Clocked(a, b),
         qdx.state \in {"CqSend", "CqCompletion"}
  PROVE  SentTo(Held(qic'), IF ToCard.write # None THEN Sent + 1 ELSE Sent, peer'.words, Present)
<1>1. PICK h, h2, present, sent, sent2 :
        /\ h = Held(qic) /\ h2 = Held(qic') /\ present = Present /\ sent = Sent
        /\ sent2 = IF ToCard.write # None THEN sent + 1 ELSE sent
  OBVIOUS
<1>2. /\ SentTo(h, sent, peer.words, present) /\ HoldMoves(qic, qic', Bus, ToCard)
      /\ BurstShape(h) /\ PeersBurst
  BY <1>1 DEF WholeInv, CompletionLeaves, SentTo, Have, Written, Clocked, BurstsShaped
<1>3. ToCard.dma = None
  BY RequestGivenIs DEF Requesting
<1>4. (InBurst(h) /\ h.at # "DmaComplete") =>
        RequestOf(h).direction = "DeviceToHost" /\ RequestOf(h).words = CqWords
  <2>1. ChipShape(qdx)
    BY DEF RoomInv, ShapeInv
  <2>2. Wanted(qdx) = PublishOf(qdx)
    BY <2>1, WantedIs DEF Fetching
  <2>3. (InBurst(h) /\ h.at # "DmaComplete") => RequestOf(h) = Wanted(qdx)
    BY <1>1 DEF WholeInv, OwnBurst, Served
  <2>4. QED
    BY <2>2, <2>3 DEF PublishOf
<1>5. ToCard.write # None => /\ h.at = "DmaData" /\ h.buffer = None /\ qdx.state = "CqSend"
                             /\ ToCard.write = present[qdx.cqWord] /\ sent = qdx.cqWord
  BY <1>1, WordTakenIs DEF Sent
<1>6. h.at # "DmaData" => sent2 = sent
  BY <1>1, <1>5
<1>7. Held(qic) # qic.state => qic.state.at \notin {"DmaAddress", "DmaData"}
  BY DEF Held, RoomInv, ShapeInv, QicShape, Q!WorkerStates
<1>8. CASE h2 = h /\ Keeping(h, qic, qic')
  <2>1. h.at # "DmaData"
    <3>1. h.at = "DmaData" => h.request.direction = "HostToDevice"
      BY <1>8 DEF Keeping, Q!FinalReadBuffer
    <3>2. QED
      BY <1>4, <3>1 DEF InBurst, RequestOf
  <2>2. h.at # "DmaAddress"
    BY <1>8 DEF Keeping
  <2>3. peer'.words = peer.words
    BY <1>1, <1>7, <2>1, <2>2, WordsRest
  <2>4. QED
    BY <1>1, <1>2, <1>6, <1>8, <2>1, <2>3 DEF SentTo
<1>9. CASE ~InBurst(h2)
  BY <1>1, <1>9 DEF SentTo, InBurst
<1>10. CASE h = qic.state /\ BurstMoves(h, Bus, ToCard, h2)
  <2>1. CASE ForBus(h) /\ h2 = Q!DmaAddress(h.work.request, 0)
    <3>1. h2.at = "DmaAddress" /\ h.at = "RequestBus"
      BY <2>1, MadeStates DEF ForBus
    <3>2. QED
      BY <1>1, <1>2, <1>6, <2>1, <3>1 DEF SentTo, ForBus
  <2>2. CASE Fails(h2)
    <3>1. h2.at = "DmaComplete" /\ h2.status # "Ok"
      BY <2>2, MadeStates DEF Fails, Q!DmaComplete
    <3>2. QED
      BY <1>1, <3>1 DEF SentTo, ForBus
  <2>3. CASE h.at = "DmaAddress" /\ \E w : h2 = Q!DmaAddress(h.request, w)
    <3>1. h2.at = "DmaAddress"
      BY <2>3, MadeStates
    <3>2. QED
      BY <1>1, <1>2, <1>6, <2>3, <3>1 DEF SentTo, ForBus
  <2>4. CASE h.at = "DmaAddress" /\ Bus.ack /\ h2 = Q!DmaData(h.request, 0, 0, None)
    <3>1. h2.at = "DmaData" /\ h2.completed = 0 /\ h2.buffer = None
      BY <2>4 DEF Q!DmaData
    <3>2. peer.state.at = "DmaAddress"
      BY <1>10, <2>4, AckIs
    <3>3. peer.words = << >>
      BY <1>2, <1>10, <2>4, <3>2 DEF PeersBurst
    <3>4. peer'.words = << >>
      BY <3>2, <3>3 DEF Clocked, PeerBurst, Addressed, Counted
    <3>5. Have(peer'.words, 0, present)
      BY <3>4, NoneYet
    <3>6. sent2 = 0
      BY <1>2, <1>6, <2>4 DEF SentTo
    <3>7. QED
      BY <1>1, <3>1, <3>5, <3>6 DEF SentTo, One, ForBus
  <2>5. ASSUME h.at = "DmaData"
        PROVE  /\ h.request.direction # "HostToDevice" /\ h.request.words = CqWords
               /\ h.completed \in Nat /\ sent = h.completed + One(h.buffer)
               /\ h.buffer # None => h.buffer = present[h.completed]
               /\ Have(peer.words, h.completed, present)
    BY <1>2, <1>4, <2>5, StageHas DEF SentTo, InBurst, RequestOf
  <2>6. CASE h.at = "DmaData" /\ BurstWaits(h, Bus, ToCard, h2)
    <3>1. h2.at = "DmaData" /\ h2.completed = h.completed /\ h2.buffer = h.buffer
      BY <2>6 DEF BurstWaits, Q!DmaData
    <3>2. peer'.words = peer.words
      <4>1. PeerBurst(peer, Pins, peer') /\ Pins.strobe = Q!Strobe(h, Bus) /\ PeerShape(peer)
        BY <1>10 DEF Clocked, Pins, Q!CardPins, RoomInv, ShapeInv
      <4>2. Strobed(h, Bus, Pins.strobe)
        BY <1>2, <4>1, StrobedIs
      <4>3. ~Addressed(peer, Pins)
        BY <2>6, <4>2 DEF Addressed, Strobed
      <4>4. Bus.ack = (peer.state.at \in PeerPhases /\ peer.state.wait = 0 /\ peer.state.fault # "Err")
        BY <4>1, BusIs DEF Bus
      <4>5. ~Counted(peer, Pins)
        BY <2>5, <2>6, <4>2, <4>4 DEF Counted, Strobed, PeerPhases, BurstWaits
      <4>6. QED
        BY <4>1, <4>3, <4>5 DEF PeerBurst
    <3>3. sent2 = sent
      BY <1>1, <1>5, <2>5, <2>6 DEF BurstWaits
    <3>4. QED
      BY <1>1, <2>5, <2>6, <3>1, <3>2, <3>3 DEF SentTo, ForBus
  <2>7. CASE h.at = "DmaData" /\ ~Q!TimedOut(h.wait) /\ ReadMoves(h, Bus, ToCard, h2)
    BY <2>5, <2>7 DEF ReadMoves
  <2>8. CASE h.at = "DmaData" /\ ~Q!TimedOut(h.wait) /\ WriteMoves(h, Bus, ToCard, h2)
    <3>1. peer'.words = IF Bus.ack /\ h.buffer # None THEN Append(peer.words, h.buffer) ELSE peer.words
      BY <1>1, <1>10, <2>5, <2>8, WordWritten
    <3>2. CASE h.buffer # None /\ Bus.ack
      <4>1. Have(peer'.words, h.completed + 1, present)
        <5>1. PICK w, n : w = peer.words /\ n = h.completed
          OBVIOUS
        <5>2. Have(Append(w, present[n]), n + 1, present)
          BY <2>5, <2>8, <5>1, OneMoreWritten
        <5>3. peer'.words = Append(w, present[n])
          BY <2>5, <2>8, <3>1, <3>2, <5>1
        <5>4. QED
          BY <5>1, <5>2, <5>3
      <4>2. sent2 = h.completed + 1
        BY <1>1, <1>5, <2>5, <2>8, <3>2 DEF One
      <4>3. CASE h.completed + 1 = h.request.words
        <5>1. h2 = Q!DmaComplete("Ok", h.completed + 1)
          BY <2>8, <3>2, <4>3 DEF WriteMoves
        <5>2. h2.at = "DmaComplete"
          BY <5>1, MadeStates
        <5>3. Have(peer'.words, CqWords, present)
          BY <2>5, <2>8, <4>1, <4>3
        <5>4. QED
          BY <1>1, <5>2, <5>3 DEF SentTo, ForBus
      <4>4. CASE h.completed + 1 # h.request.words
        <5>1. h2 = Q!DmaData(h.request, h.completed + 1, 0, None)
          BY <2>8, <3>2, <4>4 DEF WriteMoves
        <5>2. h2.at = "DmaData" /\ h2.completed = h.completed + 1 /\ h2.buffer = None
          BY <5>1 DEF Q!DmaData
        <5>3. h2.completed + 0 = h2.completed
          BY <2>5, <2>8, <5>2
        <5>4. QED
          BY <1>1, <4>1, <4>2, <5>2, <5>3 DEF SentTo, One, ForBus
      <4>5. QED
        BY <4>3, <4>4
    <3>3. CASE h.buffer = None /\ ToCard.write # None
      <4>1. h2 = Q!DmaData(h.request, h.completed, 0, ToCard.write)
        BY <2>8, <3>3 DEF WriteMoves
      <4>2. h2.at = "DmaData" /\ h2.completed = h.completed /\ h2.buffer = ToCard.write
        BY <4>1 DEF Q!DmaData
      <4>3. sent = h.completed /\ qdx.cqWord = h.completed /\ sent2 = h.completed + 1
        BY <1>1, <1>5, <2>5, <2>8, <3>3 DEF One
      <4>4. QED
        BY <1>1, <1>5, <2>5, <2>8, <3>1, <3>3, <4>2, <4>3 DEF SentTo, One, ForBus
    <3>4. QED
      BY <2>8, <3>2, <3>3 DEF WriteMoves
  <2>9. CASE h.at = "DmaComplete" /\ h2 = IF ToCard.completionReady THEN Q!Idle ELSE h
    <3>1. peer'.words = peer.words
      BY <1>10, <2>9, WordsRest
    <3>2. Q!Idle.at = "Idle"
      BY MadeStates
    <3>3. QED
      BY <1>1, <1>2, <1>6, <2>9, <3>1, <3>2 DEF SentTo, ForBus
  <2>10. QED
    BY <1>10, <2>1, <2>2, <2>3, <2>4, <2>6, <2>7, <2>8, <2>9 DEF BurstMoves
<1>11. QED
  BY <1>1, <1>2, <1>3, <1>8, <1>9, <1>10 DEF HoldMoves

LEMMA LeavesKept ==
  ASSUME RoomInv, SameTransaction, WholeInv, NEW a, NEW b, Clocked(a, b)
  PROVE  CompletionLeaves'
<1>1. PICK h2, present : h2 = Held(qic') /\ present = Present
  OBVIOUS
<1>2. SUFFICES ASSUME qdx'.state \in {"CqSend", "CqCompletion"}
      PROVE  /\ qdx'.cqWord \in 0..CqWords - 1
             /\ OnLink(link'.d2q, "DmaWrite") =>
                  qdx'.state = "CqSend" /\ link'.d2q.body = present[qdx'.cqWord]
             /\ SentTo(h2, Sent', peer'.words, present)
             /\ Present' = present
  BY <1>1 DEF CompletionLeaves, SentTo, Have, Written
<1>3. /\ ChipShape(qdx) /\ CompletionLeaves
      /\ StateAccess(qdx, ToChip, qdx') \/ EngineClock(qdx, ToChip, Drive, qdx')
      /\ Same(link'.d2q, b) /\ ToQicIs(b, link, Signals, Device)
  BY DEF RoomInv, ShapeInv, WholeInv, Clocked, Carried
<1>4. CqWords \in Nat \ {0}
  BY QueueAssumption
<1>5. \/ qdx.state \in {"CqSend", "CqCompletion"} /\ Stays(qdx, ToChip, Drive, qdx')
      \/ WordGiven(qdx, ToChip, qdx')
      \/ qdx.state = "CqRequest" /\ RequestTaken(qdx, ToChip, qdx')
  <2>1. qdx'.state \in Served
    BY <1>2 DEF Served
  <2>2. \/ qdx.state \in Served /\ \/ Stays(qdx, ToChip, Drive, qdx')
                                   \/ WordTaken(qdx, ToChip, qdx')
                                   \/ WordGiven(qdx, ToChip, qdx')
        \/ qdx.state \in Requesting /\ RequestTaken(qdx, ToChip, qdx')
    BY <1>3, <2>1, ServedIs
  <2>3. QED
    BY <1>2, <2>2 DEF Stays, WordTaken, RequestTaken
<1>6. Present' = present
  <2>1. SameBases(qdx, qdx')
    BY <1>2, <1>3, AtWork
  <2>2. qdx'.sqHead = qdx.sqHead
    BY <1>5 DEF Stays, WordGiven, RequestTaken, Keeps
  <2>3. QED
    BY <1>1, <2>1, <2>2 DEF Present, Fetched, SameBases
<1>7. Sent' = IF qdx'.state = "CqCompletion" THEN CqWords ELSE qdx'.cqWord
  BY DEF Sent
<1>8. qdx.state \in {"CqSend", "CqCompletion"} =>
        /\ SentTo(h2, IF ToCard.write # None THEN Sent + 1 ELSE Sent, peer'.words, present)
        /\ qdx.cqWord \in 0..CqWords - 1
  BY <1>1, <1>3, SendGoesOn DEF CompletionLeaves
<1>9. CASE qdx.state \in {"CqSend", "CqCompletion"} /\ Stays(qdx, ToChip, Drive, qdx')
  <2>1. qdx'.state = qdx.state /\ qdx'.cqWord = qdx.cqWord
        /\ (qdx.state = "CqSend" => ~ToChip.writeReady)
    BY <1>9 DEF Stays
  <2>2. ToCard.write = None
    BY <1>9, <2>1, WordTakenIs
  <2>3. Sent' = Sent
    BY <1>7, <2>1 DEF Sent
  <2>4. OnLink(link'.d2q, "DmaWrite") =>
          qdx.state = "CqSend" /\ link'.d2q.body = present[qdx.cqWord]
    <3>1. SUFFICES ASSUME OnLink(link'.d2q, "DmaWrite")
                   PROVE  qdx.state = "CqSend" /\ link'.d2q.body = present[qdx.cqWord]
      OBVIOUS
    <3>2. OnLink(b, "DmaWrite") /\ b.body = link'.d2q.body
      BY <1>3, <3>1 DEF Same, OnLink
    <3>3. CASE link.d2q = None
      BY <1>1, <3>2, <3>3, BodiesAre
    <3>4. CASE link.d2q # None
      BY <1>1, <1>3, <1>9, <3>2, <3>4 DEF ToQicIs, CompletionLeaves
    <3>5. QED
      BY <3>3, <3>4
  <2>5. QED
    BY <1>6, <1>8, <1>9, <2>1, <2>2, <2>3, <2>4
<1>10. CASE WordGiven(qdx, ToChip, qdx')
  <2>1. /\ qdx.state = "CqSend" /\ ToChip.writeReady
        /\ IF qdx.cqWord = CqWords - 1 THEN qdx'.state = "CqCompletion" /\ qdx'.cqWord = qdx.cqWord
           ELSE qdx'.state = "CqSend" /\ qdx'.cqWord = qdx.cqWord + 1
    BY <1>10 DEF WordGiven
  <2>2. ToCard.write # None /\ link'.d2q = None
    BY <2>1, WordTakenIs
  <2>3. Sent' = Sent + 1 /\ qdx'.cqWord \in 0..CqWords - 1
    BY <1>4, <1>7, <1>8, <2>1 DEF Sent
  <2>4. QED
    BY <1>6, <1>8, <2>1, <2>2, <2>3 DEF OnLink
<1>11. CASE qdx.state = "CqRequest" /\ RequestTaken(qdx, ToChip, qdx')
  <2>1. qdx'.state = "CqSend" /\ qdx'.cqWord = 0 /\ ToChip.dmaReady
    BY <1>11 DEF RequestTaken
  <2>2. ~InBurst(Held(qic)) /\ HoldMoves(qic, qic', Bus, ToCard) /\ link'.d2q = None
    BY <2>1, RequestGivenIs, GivenIs DEF Clocked
  <2>3. h2.at \notin {"DmaAddress", "DmaData", "DmaComplete"}
    BY <1>1, <2>2, NoBurst
  <2>4. Sent' = 0
    BY <1>7, <2>1
  <2>5. QED
    BY <1>4, <1>6, <2>1, <2>2, <2>3, <2>4 DEF SentTo, OnLink
<1>12. QED
  BY <1>5, <1>9, <1>10, <1>11

-----------------------------------------------------------------------------
(* The invariant of a command and its completion.                                             *)

New ==
  /\ qdx \in {NewQdx, HardReset} /\ endpoint = None
  /\ link = L!NewLink /\ qic = Q!NewQic /\ peer = P!NewPeer

LEMMA NewWhole == New => WholeInv
<1>1. SUFFICES ASSUME New PROVE WholeInv
  OBVIOUS
<1>2. /\ Based(qdx) /\ qdx.state = "Disabled"
      /\ qdx.command = [i \in 0..SqWords - 1 |-> qdx.command[i]]
  BY <1>1, ResetIs DEF New
<1>3. Held(qic) = Q!Idle /\ Held(qic).at = "Idle" /\ qic.state.at = "Idle"
  BY <1>1, MadeStates DEF New, Held, Q!NewQic
<1>4. link.q2d = None /\ link.d2q = None /\ link.last = None
  BY <1>1 DEF New, L!NewLink
<1>5. BurstsShaped
  BY <1>2, <1>3, <1>4 DEF BurstsShaped, BurstShape, ForBus, OnLink, Based
<1>6. RequestOnLink /\ WordsOnLink
  BY <1>3, <1>4 DEF RequestOnLink, WordsOnLink, WordOnTheLink, OnLink
<1>7. OwnBurst /\ PeersBurst
  BY <1>2, <1>3 DEF OwnBurst, PeersBurst, Served
<1>8. CommandArrives /\ CommandIsWhole /\ CompletionLeaves
  BY <1>2 DEF CommandArrives, CommandIsWhole, CompletionLeaves
<1>9. CompletionMade
  BY <1>1, <1>2 DEF CompletionMade, New
<1>10. QED
  BY <1>5, <1>6, <1>7, <1>8, <1>9 DEF WholeInv

LEMMA WholeInit == Init => WholeInv
BY NewWhole DEF Init, New

\* Of a driver's access, the burst sees only that the host is not in it.
LEMMA WholeAccess ==
  ASSUME ShapeInv, WholeInv, DriverAccess
  PROVE  WholeInv'
<1>1. PICK access \in Accesses : peer' = P!StartWorker(peer, access)
  BY DEF DriverAccess
<1>2. peer' = [state |-> P!WorkerAddress(access), result |-> None, words |-> peer.words, address |-> peer.address, got |-> None]
  BY <1>1 DEF ShapeInv, PeerShape, P!StartWorker
<1>3. peer'.words = peer.words /\ peer'.state.at = "WorkerAddress"
  BY <1>2 DEF P!WorkerAddress
<1>4. qic' = qic /\ link' = link /\ qdx' = qdx /\ endpoint' = endpoint
  BY DEF DriverAccess
<1>5. BurstsShaped' /\ RequestOnLink' /\ WordsOnLink' /\ OwnBurst'
  BY <1>4 DEF WholeInv, BurstsShaped, RequestOnLink, WordsOnLink, WordOnTheLink, OwnBurst
<1>6. PeersBurst'
  BY <1>3 DEF PeersBurst
<1>7. Present' = Present /\ Sent' = Sent
  BY <1>4 DEF Present, Fetched, Sent
<1>8. CommandArrives' /\ CommandIsWhole' /\ CompletionMade'
  BY <1>4, <1>7 DEF WholeInv, CommandArrives, WordOnTheLink, CommandIsWhole, Fetched, CompletionMade
<1>9. CompletionLeaves'
  BY <1>3, <1>4, <1>7 DEF WholeInv, CompletionLeaves, Written
<1>10. QED
  BY <1>5, <1>6, <1>8, <1>9 DEF WholeInv

LEMMA WholeStutter ==
  ASSUME WholeInv, UNCHANGED cardVars
  PROVE  WholeInv'
<1>1. qic' = qic /\ link' = link /\ qdx' = qdx /\ endpoint' = endpoint /\ peer' = peer
  BY DEF cardVars
<1>2. BurstsShaped' /\ RequestOnLink' /\ WordsOnLink' /\ OwnBurst' /\ PeersBurst'
  BY <1>1 DEF WholeInv, BurstsShaped, RequestOnLink, WordsOnLink, WordOnTheLink, OwnBurst, PeersBurst
<1>3. Present' = Present /\ Sent' = Sent
  BY <1>1 DEF Present, Fetched, Sent
<1>4. CommandArrives' /\ CommandIsWhole' /\ CompletionMade'
  BY <1>1, <1>3 DEF WholeInv, CommandArrives, WordOnTheLink, CommandIsWhole, Fetched, CompletionMade
<1>5. CompletionLeaves'
  BY <1>1, <1>3 DEF WholeInv, CompletionLeaves, Written
<1>6. QED
  BY <1>2, <1>4, <1>5 DEF WholeInv

LEMMA WholeClock ==
  ASSUME RoomInv, SameTransaction, WholeInv, CardClock, RoomInv'
  PROVE  WholeInv'
<1>1. PICK a, b : Clocked(a, b)
  BY ClockedIs DEF WholeInv
<1>2. QicShape(qic')
  BY DEF RoomInv, ShapeInv
<1>3. BurstsShaped'
  BY <1>1, ShapedKept
<1>4. RequestOnLink' /\ WordsOnLink' /\ OwnBurst'
  BY <1>1, RequestKept, WordsKept, OwnKept
<1>5. PeersBurst'
  BY <1>1, <1>2, PeersKept
<1>6. CommandArrives' /\ CommandIsWhole'
  BY <1>1, CommandKept
<1>7. CompletionMade' /\ CompletionLeaves'
  BY <1>1, MadeKept, LeavesKept
<1>8. QED
  BY <1>3, <1>4, <1>5, <1>6, <1>7 DEF WholeInv

(* WholeInv is inductive on NotifyInv: chip, link, QIC and host hold the same burst at the same
   word, so each word of a command arrives in its place and each of a completion leaves from
   its own, whatever interrupts or ends the burst. *)
THEOREM WholeInvariant == Spec => []WholeInv
<1>1. Init => WholeInv
  BY WholeInit
<1>2. NotifyInv /\ WholeInv /\ [Next]_cardVars /\ RoomInv' => WholeInv'
  <2>1. SUFFICES ASSUME NotifyInv, WholeInv, [Next]_cardVars, RoomInv' PROVE WholeInv'
    OBVIOUS
  <2>2. RoomInv /\ SameTransaction /\ ShapeInv
    BY <2>1 DEF NotifyInv, RoomInv
  <2>3. CASE CardClock
    BY <2>1, <2>2, <2>3, WholeClock
  <2>4. CASE BusReset
    <3>1. (New => WholeInv)'
      BY NewWhole, PTL
    <3>2. New'
      BY <2>4, BusResetIs DEF New
    <3>3. QED
      BY <3>1, <3>2
  <2>5. CASE DriverAccess
    BY <2>1, <2>2, <2>5, WholeAccess
  <2>6. CASE UNCHANGED cardVars
    BY <2>1, <2>6, WholeStutter
  <2>7. QED
    BY <2>1, <2>3, <2>4, <2>5, <2>6 DEF Next
<1>3. QED
  BY <1>1, <1>2, NotifyInvariant, RoomInvariant, PTL DEF Spec

(* The endpoint is offered whole commands only, each word from its place in the entry: for
   any sizes, any timing and faults of the host, any driver and resets at any time. *)
THEOREM CommandIsWholeProved == Spec => []CommandIsWhole
<1>1. WholeInv => CommandIsWhole
  BY DEF WholeInv
<1>2. QED
  BY <1>1, WholeInvariant, PTL

-----------------------------------------------------------------------------
(* What the QIC, and the link with it, do in a clock that register accesses do not disturb.   *)

\* A word or a completion is sent only in a clock that no register access interrupts; and
\* an answer is waited for only when the request has been taken.
Undisturbed(q, q2, signals, v) ==
  /\ signals.read # None \/ signals.completion # None => q2.state.at \notin Q!WorkerStates
  /\ signals.completion # None /\ v.completionReady => Held(q2) = Q!Idle
  /\ q2.state.at = "WorkerResponse" => q.state.at = "WorkerResponse" \/ v.mmioReady
  /\ signals.responseReady => q.state.at = "WorkerResponse"

LEMMA UndisturbedIs ==
  ASSUME NEW q, QicShape(q), NEW bus, BusShape(bus), ~bus.reset, NEW d,
         NEW signals, signals = Q!ToDevice(q, bus, d), NEW v, NEW q2, q2 = Q!Clock(q, bus, v)
  PROVE  Undisturbed(q, q2, signals, v)
<1>1. /\ QicRecord(q) /\ QicState(q.state) /\ q.grantUsed \in BOOLEAN /\ bus.grant \in BOOLEAN
      /\ q.suspended # None \/ q.tail # None => q.state.at \in Q!WorkerStates
      /\ q.tail # None => Q!LocalTail(q.tail)
  BY DEF QicShape, QicRecord, BusShape
<1>2. /\ signals.responseReady => q.state.at = "WorkerResponse"
      /\ signals.read # None => q.state.at = "DmaData" /\ ~(Q!LocalTail(q.state) /\ Q!WorkerAddressCycle(bus))
      /\ signals.completion # None =>
           q.state.at = "DmaComplete" /\ ~(Q!LocalTail(q.state) /\ Q!WorkerAddressCycle(bus))
  BY DEF Q!ToDevice
<1>3. PICK n : n = Moved(q, bus, v)
  OBVIOUS
<1>4. PICK u : u = Aside(q, v)
  OBVIOUS
<1>5. MovesTo(q, bus, v, n)
  BY <1>1, <1>3, MovedIs
<1>6. ASSUME signals.read # None \/ signals.completion # None
      PROVE  /\ q2.state.at \notin Q!WorkerStates
             /\ signals.completion # None /\ v.completionReady => Held(q2) = Q!Idle
  <2>1. q.state.at \in {"DmaData", "DmaComplete"} /\ ~Interrupted(q, bus)
    BY <1>2, <1>6 DEF Interrupted
  <2>2. q.state.at \notin Q!WorkerStates /\ q.tail = None /\ q.suspended = None
    BY <1>1, <2>1 DEF Q!WorkerStates
  <2>3. u = None
    BY <1>4, <2>1, <2>2 DEF Aside, Q!AcceptsDmaDuringWorker
  <2>4. CASE Lost(q, bus)
    <3>1. q2.state = Q!LoseGrant(q.state) /\ Q!NeedsGrant(q.state)
      BY <1>1, <2>4, ClockIs DEF GoesTo, Lost
    <3>2. q2.state.at \notin Q!WorkerStates
      BY <1>1, <3>1, LostIs DEF Q!WorkerStates
    <3>3. q.state.at = "DmaData"
      BY <2>1, <3>1 DEF Q!NeedsGrant
    <3>4. QED
      BY <1>2, <3>2, <3>3
  <2>5. CASE Goes(q, bus)
    <3>1. IF n # Q!Idle THEN GoesTo(q, q2, n, u) ELSE Resumes(q, q2, u)
      BY <1>1, <1>3, <1>4, <2>5, ClockIs
    <3>2. q2.state = n /\ q2.tail = None /\ q2.suspended = None
      BY <2>2, <2>3, <3>1 DEF GoesTo, Resumes
    <3>3. n.at \notin Q!WorkerStates
      BY <1>5, <2>1, MadeStates DEF MovesTo, Q!WorkerStates
    <3>4. signals.completion # None /\ v.completionReady => n = Q!Idle
      BY <1>2, <1>5, MadeStates DEF MovesTo
    <3>5. QED
      BY <3>2, <3>3, <3>4 DEF Held
  <2>6. QED
    BY <2>1, <2>4, <2>5 DEF Goes
<1>7. ASSUME q2.state.at = "WorkerResponse"
      PROVE  q.state.at = "WorkerResponse" \/ v.mmioReady
  <2>1. Q!StartWorker(bus).at # "WorkerResponse" /\ Q!Idle.at # "WorkerResponse"
    BY MadeStates DEF Q!StartWorker
  <2>2. CASE Interrupted(q, bus)
    <3>1. q2.state \in {q.state, Q!StartWorker(bus)}
      BY <1>1, <2>2, ClockIs DEF GoesTo
    <3>2. QED
      BY <1>7, <2>1, <3>1
  <2>3. CASE Lost(q, bus)
    <3>1. q2.state = Q!LoseGrant(q.state) /\ Q!NeedsGrant(q.state)
      BY <1>1, <2>3, ClockIs DEF GoesTo, Lost
    <3>2. q2.state.at \in {"DmaComplete", "Idle"}
      BY <1>1, <3>1, LostIs
    <3>3. QED
      BY <1>7, <3>2
  <2>4. CASE Goes(q, bus)
    <3>1. IF n # Q!Idle THEN GoesTo(q, q2, n, u) ELSE Resumes(q, q2, u)
      BY <1>1, <1>3, <1>4, <2>4, ClockIs
    <3>2. q2.state = n
      <4>1. ASSUME Resumes(q, q2, u) PROVE q2.state.at # "WorkerResponse"
        BY <1>1, <2>1, <4>1, MadeStates DEF Resumes, Q!LocalTail
      <4>2. QED
        BY <1>7, <3>1, <4>1 DEF GoesTo
    <3>3. n.at = "WorkerResponse" => q.state.at = "WorkerResponse" \/ v.mmioReady
      <4>1. PICK s : s = q.state
        OBVIOUS
      <4>2. PICK now : now = Now(q, bus)
        OBVIOUS
      <4>3. now.state = s
        BY <1>1, <4>1, <4>2 DEF Now, QicRecord
      <4>4. n = Q!NextState(now, bus, v)
        BY <1>3, <4>2 DEF Moved
      <4>5. PICK waiting : waiting = [s EXCEPT !.wait = @ + 1]
        OBVIOUS
      <4>6. CASE s.at \in {"WorkerReadData", "WorkerWriteData"}
        <5>1. n = Q!FromWorkerData(s, bus)
          BY <4>3, <4>4, <4>6 DEF Q!NextState
        <5>2. n = Q!Idle \/ n = waiting \/ \E op, w : n = Q!WorkerOffer(op, w)
          BY <4>5, <5>1 DEF Q!FromWorkerData
        <5>3. waiting.at = s.at
          BY <1>1, <4>1, <4>5, <4>6, WaitingIs
        <5>4. QED
          BY <4>6, <5>2, <5>3, MadeStates
      <4>7. CASE s.at = "WorkerOffer"
        <5>1. n = Q!FromWorkerOffer(s, v)
          BY <4>3, <4>4, <4>7 DEF Q!NextState
        <5>2. n = Q!Idle \/ n = waiting \/ v.mmioReady
          BY <4>5, <5>1 DEF Q!FromWorkerOffer
        <5>3. waiting.at = s.at
          BY <1>1, <4>1, <4>5, <4>7, WaitingIs
        <5>4. QED
          BY <4>7, <5>2, <5>3, MadeStates
      <4>8. CASE s.at \notin {"WorkerReadData", "WorkerWriteData", "WorkerOffer"}
        BY <1>1, <1>5, <2>1, <4>1, <4>8, MadeStates DEF MovesTo, QicState
      <4>9. QED
        BY <4>1, <4>6, <4>7, <4>8
    <3>4. QED
      BY <1>7, <3>2, <3>3
  <2>5. QED
    BY <2>2, <2>3, <2>4 DEF Goes
<1>8. QED
  BY <1>2, <1>6, <1>7 DEF Undisturbed

-----------------------------------------------------------------------------
(* What a register access is answered with is not None, and nor is the message with it.       *)

ChipAnswers(d) ==
  /\ d.error \in Errors /\ {d.sqSize, d.cqSize} \subseteq Sizes
  /\ d.response # None => d.response \in Answers

AnswersInv ==
  /\ ChipAnswers(qdx)
  /\ OnLink(link.d2q, "MmioResponse") => link.d2q \in Responses

LEMMA ReadAnswered ==
  ASSUME NEW d, ChipRoom(d), Based(d), ChipAnswers(d), NEW name
  PROVE  ReadAccess(d, name) \in Answers
<1>1. PICK r : r = ReadAccess(d, name)
  OBVIOUS
<1>2. PICK bits : bits = {bit \in {"Enable", "Notify"} : IF bit = "Enable" THEN d.enabled ELSE d.notify}
  OBVIOUS
<1>3. bits \in SUBSET {"Enable", "Notify"}
  BY <1>2
<1>4. Status(d.state) \in 0..2
  BY DEF Status
<1>5. ASSUME NEW contents, NEW x \in contents, ReadsOf(contents) \subseteq Answers
      PROVE  ReadOk(x) \in Answers
  <2>1. ReadOk(x) \in ReadsOf(contents)
    BY <1>5 DEF ReadOk, ReadsOf
  <2>2. QED
    BY <1>5, <2>1
<1>6. PICK positions, stati, controls : /\ positions = 0..Positions - 1 /\ stati = 0..2
                                        /\ controls = SUBSET {"Enable", "Notify"}
  OBVIOUS
<1>7. \A contents \in {{"Cap"}, stati, controls, Handles, Sizes, positions, Errors} :
        ReadsOf(contents) \subseteq Answers
  BY <1>6 DEF Answers
<1>8. /\ {d.sqHead, d.sqTail, d.cqHead, d.cqTail} \subseteq positions
      /\ {d.sqBase, d.cqBase} \subseteq Handles /\ {d.sqSize, d.cqSize} \subseteq Sizes
      /\ d.error \in Errors /\ Status(d.state) \in stati /\ bits \in controls
  BY <1>3, <1>4, <1>6 DEF ChipRoom, Based, ChipAnswers
<1>9. /\ ReadOk("Cap") \in Answers /\ ReadOk(d.error) \in Answers
      /\ ReadOk(Status(d.state)) \in Answers /\ ReadOk(bits) \in Answers
      /\ ReadOk(d.sqBase) \in Answers /\ ReadOk(d.cqBase) \in Answers
      /\ ReadOk(d.sqSize) \in Answers /\ ReadOk(d.cqSize) \in Answers
      /\ ReadOk(d.sqHead) \in Answers /\ ReadOk(d.sqTail) \in Answers
      /\ ReadOk(d.cqHead) \in Answers /\ ReadOk(d.cqTail) \in Answers
  <2>1. ReadOk("Cap") \in Answers
    <3>1. "Cap" \in {"Cap"}
      OBVIOUS
    <3>2. QED
      BY <1>5, <1>7, <3>1
  <2>2. ReadOk(d.error) \in Answers
    BY <1>5, <1>7, <1>8
  <2>3. ReadOk(Status(d.state)) \in Answers
    BY <1>5, <1>7, <1>8
  <2>4. ReadOk(bits) \in Answers
    BY <1>5, <1>7, <1>8
  <2>5. ReadOk(d.sqBase) \in Answers /\ ReadOk(d.cqBase) \in Answers
    BY <1>5, <1>7, <1>8
  <2>6. ReadOk(d.sqSize) \in Answers /\ ReadOk(d.cqSize) \in Answers
    BY <1>5, <1>7, <1>8
  <2>7. /\ ReadOk(d.sqHead) \in Answers /\ ReadOk(d.sqTail) \in Answers
        /\ ReadOk(d.cqHead) \in Answers /\ ReadOk(d.cqTail) \in Answers
    BY <1>5, <1>7, <1>8
  <2>8. QED
    BY <2>1, <2>2, <2>3, <2>4, <2>5, <2>6, <2>7
<1>10. Refused \in Answers
  BY DEF Answers
<1>11. ReadAccess(d, name) \in
         {Refused, ReadOk("Cap"), ReadOk(d.error), ReadOk(Status(d.state)), ReadOk(bits),
          ReadOk(d.sqBase), ReadOk(d.cqBase), ReadOk(d.sqSize), ReadOk(d.cqSize),
          ReadOk(d.sqHead), ReadOk(d.sqTail), ReadOk(d.cqHead), ReadOk(d.cqTail)}
  BY <1>2 DEF ReadAccess
<1>12. QED
  BY <1>9, <1>10, <1>11

LEMMA AccessAnswersKept ==
  ASSUME NEW d, ChipRoom(d), Based(d), ChipAnswers(d), NEW qli, qli.mmio # None => Legal(qli.mmio),
         NEW p, p = [d EXCEPT !.resetPulse = FALSE], NEW m, m = AfterMmio(p, qli)
  PROVE  ChipAnswers(m)
<1>1. WriteOk \in Answers /\ Refused \in Answers
  BY DEF Answers
<1>2. ChipShape(p) /\ ChipRoom(p) /\ Based(p) /\ ChipAnswers(p) /\ p.state = d.state
  <2>1. /\ ChipShape(p) /\ p.state = d.state /\ p.error = d.error /\ p.sqSize = d.sqSize
        /\ p.cqSize = d.cqSize /\ p.response = d.response /\ p.sqBase = d.sqBase
        /\ p.cqBase = d.cqBase /\ p.sqHead = d.sqHead /\ p.sqTail = d.sqTail
        /\ p.cqHead = d.cqHead /\ p.cqTail = d.cqTail
    BY DEF ChipRoom, ChipShape
  <2>2. QED
    BY <2>1, RoomKept DEF Based, ChipAnswers
<1>3. ASSUME NEW r, r = None \/ r \in Answers, NEW x, x = [p EXCEPT !.response = r]
      PROVE  ChipShape(x) /\ ChipAnswers(x)
  <2>1. /\ ChipShape(x) /\ x.response = r /\ x.error = p.error /\ x.sqSize = p.sqSize
        /\ x.cqSize = p.cqSize
    BY <1>2, <1>3 DEF ChipShape
  <2>2. QED
    BY <1>2, <1>3, <2>1 DEF ChipAnswers
<1>4. PICK y : y = [p EXCEPT !.response = WriteOk]
  OBVIOUS
<1>5. y = Accepted(p) /\ ChipShape(y) /\ ChipAnswers(y)
  BY <1>1, <1>3, <1>4 DEF Accepted
<1>s. ChipShape(y)
  BY <1>5
<1>6. ASSUME NEW v, NEW x, x \in {[y EXCEPT !.sqTail = v], [y EXCEPT !.cqHead = v],
                                  [y EXCEPT !.sqBase = v], [y EXCEPT !.cqBase = v]}
      PROVE  ChipAnswers(x)
  <2>1. x.response = y.response /\ x.error = y.error /\ x.sqSize = y.sqSize /\ x.cqSize = y.cqSize
    BY <1>s, <1>6 DEF ChipShape
  <2>2. QED
    BY <1>5, <2>1 DEF ChipAnswers
<1>7. ASSUME NEW v \in Sizes, NEW x, x \in {[y EXCEPT !.sqSize = v], [y EXCEPT !.cqSize = v]}
      PROVE  ChipAnswers(x)
  <2>1. x.response = y.response /\ x.error = y.error /\ {x.sqSize, x.cqSize} \subseteq {v, y.sqSize, y.cqSize}
    BY <1>s, <1>7 DEF ChipShape
  <2>2. QED
    BY <1>5, <1>7, <2>1 DEF ChipAnswers
<1>8. ASSUME NEW z, ChipShape(z), ChipAnswers(z), NEW error \in Errors, NEW state, NEW x,
             x = EngineTo(z, error, state)
      PROVE  ChipAnswers(x)
  <2>1. x.response = z.response /\ x.error = error /\ x.sqSize = z.sqSize /\ x.cqSize = z.cqSize
    BY <1>8 DEF ChipShape, EngineTo
  <2>2. QED
    BY <1>8, <2>1 DEF ChipAnswers
<1>9. ASSUME NEW x, x = RefuseMovement(p)
      PROVE  ChipAnswers(x)
  <2>1. PICK z : z = [p EXCEPT !.response = Refused]
    OBVIOUS
  <2>2. ChipShape(z) /\ ChipAnswers(z)
    BY <1>1, <1>3, <2>1
  <2>3. PICK w : w = EngineTo(z, "QueueProtocol", "Fault")
    OBVIOUS
  <2>4. x = w
    BY <1>2, <1>9, <2>1, <2>2, <2>3 DEF RefuseMovement, ChipShape, EngineTo
  <2>5. "QueueProtocol" \in Errors
    BY DEF Errors
  <2>6. QED
    BY <1>8, <2>2, <2>3, <2>4, <2>5
<1>10. ASSUME NEW bits, NEW x, x = WriteControl(p, bits)
       PROVE  ChipAnswers(x)
  <2>1. PICK notify, enabled : notify = ("Notify" \in bits) /\ enabled = ("Enable" \in bits)
    OBVIOUS
  <2>2. PICK z : z = [y EXCEPT !.notify = notify, !.enabled = enabled]
    OBVIOUS
  <2>3. ChipShape(z) /\ ChipAnswers(z)
    <3>1. /\ ChipShape(z) /\ z.response = y.response /\ z.error = y.error
          /\ z.sqSize = y.sqSize /\ z.cqSize = y.cqSize
      BY <1>5, <2>2 DEF ChipShape
    <3>2. QED
      BY <1>5, <3>1 DEF ChipAnswers
  <2>4. \/ x = z \/ x = EngineTo(z, None, "ReadyIdle") \/ x = EngineTo(z, "BadConfig", "Fault")
    BY <1>5, <1>10, <2>1, <2>2 DEF WriteControl, EngineTo
  <2>5. None \in Errors /\ "BadConfig" \in Errors
    BY DEF Errors
  <2>6. QED
    BY <1>8, <2>3, <2>4, <2>5
<1>11. CASE qli.mmio = None \/ p.response # None
  <2>1. m = p \/ m = [p EXCEPT !.response = None]
    BY <1>11 DEF AfterMmio, AcceptsMmio
  <2>2. QED
    BY <1>2, <1>3, <2>1
<1>12. CASE qli.mmio # None /\ p.response = None
  <2> DEFINE name  == qli.mmio.register.name
             value == qli.mmio.register.value
  <2>1. m = AcceptMmio(p, qli.mmio)
    BY <1>12 DEF AfterMmio, AcceptsMmio
  <2>2. \/ m = [p EXCEPT !.response = ReadAccess(p, name)] \/ m = [p EXCEPT !.response = Refused]
        \/ m = WriteControl(p, value) \/ m = RefuseMovement(p)
        \/ m \in {[y EXCEPT !.sqTail = value], [y EXCEPT !.cqHead = value],
                  [y EXCEPT !.sqBase = value], [y EXCEPT !.cqBase = value]}
        \/ /\ name \in {"SqSize", "CqSize"} /\ qli.mmio.write
           /\ m \in {[y EXCEPT !.sqSize = value], [y EXCEPT !.cqSize = value]}
    <3>1. CASE ~qli.mmio.write
      BY <2>1, <3>1 DEF AcceptMmio
    <3>2. CASE qli.mmio.write /\ p.state = "Disabled"
      <4>1. m = Configure(p, name, value)
        BY <2>1, <3>2 DEF AcceptMmio, WriteAccess
      <4>2. QED
        BY <1>5, <3>2, <4>1 DEF Configure, Refuse
    <3>3. CASE qli.mmio.write /\ p.state # "Disabled"
      <4>1. m = MoveQueue(p, name, value) \/ m = Refuse(p)
        BY <2>1, <3>3 DEF AcceptMmio, WriteAccess
      <4>2. QED
        BY <1>5, <3>3, <4>1 DEF MoveQueue, Refuse
    <3>4. QED
      BY <3>1, <3>2, <3>3
  <2>3. ReadAccess(p, name) \in Answers
    BY <1>2, ReadAnswered
  <2>4. name \in {"SqSize", "CqSize"} /\ qli.mmio.write => value \in Sizes
    BY <1>12 DEF Legal
  <2>5. CASE m = [p EXCEPT !.response = ReadAccess(p, name)] \/ m = [p EXCEPT !.response = Refused]
    BY <1>1, <1>3, <2>3, <2>5
  <2>6. CASE m = WriteControl(p, value) \/ m = RefuseMovement(p)
    BY <1>9, <1>10, <2>6
  <2>7. CASE m \in {[y EXCEPT !.sqTail = value], [y EXCEPT !.cqHead = value],
                     [y EXCEPT !.sqBase = value], [y EXCEPT !.cqBase = value]}
    BY <1>6, <2>7
  <2>8. CASE /\ name \in {"SqSize", "CqSize"} /\ qli.mmio.write
             /\ m \in {[y EXCEPT !.sqSize = value], [y EXCEPT !.cqSize = value]}
    BY <1>7, <2>4, <2>8
  <2>9. QED
    BY <2>2, <2>5, <2>6, <2>7, <2>8
<1>13. QED
  BY <1>11, <1>12

LEMMA ProgressAnswers ==
  ASSUME NEW d, ChipShape(d), ChipAnswers(d), NEW qli, NEW signals, NEW e, e = Progress(d, qli, signals)
  PROVE  ChipAnswers(e)
<1>1. ASSUME NEW x, x.error \in Errors, x.sqSize = d.sqSize, x.cqSize = d.cqSize, x.response = d.response
      PROVE  ChipAnswers(x)
  BY <1>1 DEF ChipAnswers
<1>2. d.error \in Errors /\ "SqDma" \in Errors /\ "CqDma" \in Errors
  BY DEF ChipAnswers, Errors
<1>3. CASE d.state \in {"ReadyIdle", "SqRequest", "EndpointOffer", "EndpointCompletion", "CqRequest", "Notify"}
  <2>1. \/ e = d \/ \E state : e = [d EXCEPT !.state = state]
        \/ \E state, word : e = [d EXCEPT !.state = state, !.sqWord = word]
        \/ \E state, word : e = [d EXCEPT !.state = state, !.cqWord = word]
        \/ \E state, completion, word :
             e = [d EXCEPT !.state = state, !.completion = completion, !.cqWord = word]
    BY <1>3 DEF Progress
  <2>2. e.error = d.error /\ e.sqSize = d.sqSize /\ e.cqSize = d.cqSize /\ e.response = d.response
    BY <2>1 DEF ChipShape
  <2>3. QED
    BY <1>1, <1>2, <2>2
<1>4. CASE d.state \in {"SqReceive", "CqSend"}
  <2>1. e = d \/ e = ReceiveWord(d, qli.read) \/ e = WordSent(d)
    BY <1>4 DEF Progress
  <2>2. \/ e = d
        \/ \E command, state, word : e = [d EXCEPT !.command = command, !.state = state, !.sqWord = word]
        \/ \E state, word : e = [d EXCEPT !.state = state, !.cqWord = word]
    <3>1. CASE e = ReceiveWord(d, qli.read)
      <4>1. PICK command : command = [d.command EXCEPT ![d.sqWord] = qli.read]
        OBVIOUS
      <4>2. PICK state, word : e = [d EXCEPT !.command = command, !.state = state, !.sqWord = word]
        BY <3>1, <4>1 DEF ReceiveWord
      <4>3. QED
        BY <4>2
    <3>2. CASE e = WordSent(d)
      BY <3>2 DEF WordSent
    <3>3. QED
      BY <2>1, <3>1, <3>2
  <2>3. e.error = d.error /\ e.sqSize = d.sqSize /\ e.cqSize = d.cqSize /\ e.response = d.response
    BY <2>2 DEF ChipShape
  <2>4. QED
    BY <1>1, <1>2, <2>3
<1>5. CASE d.state \in {"SqCompletion", "CqCompletion"}
  <2>1. e = d \/ e = SqFetched(d, qli.completion) \/ e = CqPublished(d, qli.completion)
    BY <1>5 DEF Progress
  <2>2. \/ e = d \/ \E head, state : e = [d EXCEPT !.sqHead = head, !.state = state]
        \/ \E tail, state : e = [d EXCEPT !.cqTail = tail, !.state = state]
        \/ \E state : e \in {[d EXCEPT !.error = "SqDma", !.state = state],
                             [d EXCEPT !.error = "CqDma", !.state = state]}
    <3>1. CASE e = SqFetched(d, qli.completion)
      BY <3>1 DEF SqFetched
    <3>2. CASE e = CqPublished(d, qli.completion)
      BY <3>2 DEF CqPublished
    <3>3. QED
      BY <2>1, <3>1, <3>2
  <2>3. e.error \in {d.error, "SqDma", "CqDma"} /\ e.sqSize = d.sqSize /\ e.cqSize = d.cqSize
        /\ e.response = d.response
    BY <2>2 DEF ChipShape
  <2>4. QED
    BY <1>1, <1>2, <2>3
<1>6. CASE d.state \notin {"ReadyIdle", "SqRequest", "EndpointOffer", "EndpointCompletion", "CqRequest",
                           "Notify", "SqReceive", "CqSend", "SqCompletion", "CqCompletion"}
  BY <1>6 DEF Progress
<1>7. QED
  BY <1>3, <1>4, <1>5, <1>6

LEMMA NewAnswers ==
  ASSUME NEW e, e \in {NewQdx, HardReset, Accepted(HardReset)}
  PROVE  ChipAnswers(e)
<1>1. 0 \in Sizes /\ None \in Errors /\ WriteOk \in Answers
  BY DEF Sizes, Errors, Answers
<1>2. PICK n : n = NewQdx
  OBVIOUS
<1>3. n.error = None /\ n.sqSize = 0 /\ n.cqSize = 0 /\ n.response = None /\ ChipShape(n)
  BY <1>2 DEF NewQdx, ChipShape
<1>4. PICK h : h = [n EXCEPT !.resetPulse = TRUE]
  OBVIOUS
<1>5. h = HardReset /\ h.error = None /\ h.sqSize = 0 /\ h.cqSize = 0 /\ h.response = None /\ ChipShape(h)
  BY <1>2, <1>3, <1>4 DEF HardReset, ChipShape
<1>6. PICK a : a = [h EXCEPT !.response = WriteOk]
  OBVIOUS
<1>7. a = Accepted(HardReset) /\ a.error = None /\ a.sqSize = 0 /\ a.cqSize = 0 /\ a.response = WriteOk
  BY <1>5, <1>6 DEF Accepted, ChipShape
<1>8. QED
  BY <1>1, <1>2, <1>3, <1>5, <1>7 DEF ChipAnswers

LEMMA AnswersAdvance ==
  ASSUME NEW d, ChipRoom(d), Based(d), ChipAnswers(d), NEW qli, qli.mmio # None => Legal(qli.mmio),
         NEW signals, NEW e, e = Advance(d, qli, signals)
  PROVE  ChipAnswers(e)
<1>1. PICK p : p = [d EXCEPT !.resetPulse = FALSE]
  OBVIOUS
<1>2. PICK m : m = AfterMmio(p, qli)
  OBVIOUS
<1>3. ChipRoom(m) /\ ChipAnswers(m)
  BY <1>1, <1>2, RegisterRoom, AccessAnswersKept
<1>4. e = HardReset \/ e = Accepted(HardReset) \/ e = m \/ e = Progress(m, qli, signals)
  BY <1>1, <1>2 DEF Advance
<1>5. ChipShape(m)
  BY <1>3 DEF ChipRoom
<1>6. QED
  BY <1>3, <1>4, <1>5, NewAnswers, ProgressAnswers

-----------------------------------------------------------------------------
(* An answer that the QIC does not wait for blocks the link.                                  *)

AnswerShaped(m) == OnLink(m, "MmioResponse") => m \in Responses

LEMMA AnswerEbbs ==
  ASSUME NEW c, NEW d, NEW qicSignals, Ebbs(c, d, qicSignals), AnswerShaped(c.link.d2q)
  PROVE  /\ AnswerShaped(d.link.d2q)
         /\ OnLink(c.link.d2q, "MmioResponse") /\ ~QicGets(c, d, qicSignals) =>
              OnLink(d.link.d2q, "MmioResponse")
<1>1. PICK m : m = c.link.d2q
  OBVIOUS
<1>2. CASE d.link.d2q = m
  BY <1>1, <1>2
<1>3. CASE QicGets(c, d, qicSignals)
  BY <1>3 DEF QicGets, AnswerShaped, OnLink
<1>4. CASE m # None /\ d.link.d2q = L!Message(m.tag, m.body, m.left - 1)
  <2>1. d.link.d2q.tag = m.tag
    BY <1>4 DEF L!Message
  <2>2. ASSUME OnLink(m, "MmioResponse")
        PROVE  d.link.d2q \in Responses /\ d.link.d2q # None
    <3>1. m \in Responses
      BY <1>1, <2>2 DEF AnswerShaped
    <3>2. d.link.d2q \in Responses
      BY <1>4, <3>1 DEF Responses, MessagesOf, L!Message
    <3>3. QED
      BY <3>2, NoneIsNoValue
  <2>3. QED
    BY <1>1, <1>4, <2>1, <2>2 DEF AnswerShaped, OnLink
<1>5. QED
  BY <1>1, <1>2, <1>3, <1>4 DEF Ebbs

LEMMA AnswerBlocks ==
  ASSUME NEW c, OnLink(c.link.d2q, "MmioResponse"), c.link.d2q \in Responses,
         c.link.last = "DeviceToQic", NEW qicSignals, ~qicSignals.responseReady, NEW dev,
         NEW d, Slotted(c, d, qicSignals, dev)
  PROVE  /\ OnLink(d.link.d2q, "MmioResponse") /\ d.link.d2q \in Responses
         /\ d.link.last = "DeviceToQic" /\ Quiet(c, d)
<1>1. ~QicGets(c, d, qicSignals)
  BY DEF QicGets, OnLink, L!QicTakes
<1>2. d.link.last = "DeviceToQic" /\ Quiet(c, d)
  BY <1>1 DEF Slotted, Turns, OnLink
<1>3. Ebbs(c, d, qicSignals) /\ AnswerShaped(c.link.d2q)
  BY DEF Slotted, AnswerShaped
<1>4. QED
  BY <1>1, <1>2, <1>3, AnswerEbbs DEF AnswerShaped

PendingBack(l, qicSignals, dev) ==
  IF l.d2q = None THEN L!ToQicMessage(L!Notified(l, qicSignals), qicSignals, dev) ELSE l.d2q

LEMMA BegunAnswer ==
  ASSUME NEW l, AnswerShaped(l.d2q), NEW qicSignals,
         NEW dev, dev.response # None => dev.response \in Answers,
         NEW b, b = PendingBack(l, qicSignals, dev)
  PROVE  AnswerShaped(b)
<1>1. ASSUME l.d2q = None, OnLink(b, "MmioResponse")
      PROVE  b \in Responses
  <2>1. PICK left : left = L!ResponseTokens(dev.response)
    OBVIOUS
  <2>2. left \in Int
    BY <2>1 DEF L!ResponseTokens
  <2>3. dev.response # None /\ b = L!Message("MmioResponse", dev.response, left)
    BY <1>1, <2>1 DEF PendingBack, L!ToQicMessage, OnLink, L!Message
  <2>4. QED
    BY <2>2, <2>3 DEF Responses, MessagesOf, L!Message
<1>2. QED
  BY <1>1 DEF AnswerShaped, PendingBack

LEMMA AnswersCycle ==
  ASSUME NEW l, LinkShape(l), AnswerShaped(l.d2q), NEW qicSignals,
         NEW dev, dev.response # None => dev.response \in Answers,
         NEW d, d = L!Cycle(l, FALSE, qicSignals, dev)
  PROVE  AnswerShaped(d.link.d2q)
<1>1. PICK e, c : /\ ClockShape(e) /\ Begun(l, e, qicSignals, dev)
                  /\ ClockShape(c) /\ Slotted(e, c, qicSignals, dev)
                  /\ ClockShape(d) /\ Slotted(c, d, qicSignals, dev)
  BY CycleIs
<1>2. AnswerShaped(e.link.d2q)
  <2>1. e.link.d2q = PendingBack(l, qicSignals, dev)
    BY <1>1 DEF Begun, PendingBack
  <2>2. QED
    BY <2>1, BegunAnswer
<1>3. AnswerShaped(c.link.d2q)
  BY <1>1, <1>2, AnswerEbbs DEF Slotted
<1>4. QED
  BY <1>1, <1>3, AnswerEbbs DEF Slotted

(* Such an answer goes on blocking the link; and while the chip is ready for it, a completion
   stays on the link only behind one. *)
Blocked(l, a, b, d, dev) ==
  /\ l.last = "DeviceToQic" /\ OnLink(b, "MmioResponse") =>
       /\ d.link.last = "DeviceToQic" /\ OnLink(d.link.d2q, "MmioResponse")
       /\ d.toDevice = L!NoQic /\ d.toQic.mmioReady = FALSE
  /\ (/\ l.q2d = None /\ OnLink(a, "DmaCompletion") /\ dev.completionReady
      /\ d.link.q2d # None /\ (b # None => b.tag = "MmioResponse")) =>
       l.last = "DeviceToQic" /\ OnLink(b, "MmioResponse")

LEMMA BlockedIs ==
  ASSUME NEW l, LinkShape(l), AnswerShaped(l.d2q), l.last \in {None, "QicToDevice", "DeviceToQic"},
         NEW qicSignals, ~qicSignals.responseReady,
         NEW dev, dev.response # None => dev.response \in Answers,
         NEW d, d = L!Cycle(l, FALSE, qicSignals, dev),
         NEW a, a = Pending(l, qicSignals), NEW b, b = PendingBack(l, qicSignals, dev)
  PROVE  Blocked(l, a, b, d, dev)
<1>1. PICK e, c : /\ ClockShape(e) /\ Begun(l, e, qicSignals, dev)
                  /\ ClockShape(c) /\ Slotted(e, c, qicSignals, dev)
                  /\ ClockShape(d) /\ Slotted(c, d, qicSignals, dev)
  BY CycleIs
<1>2. /\ e.link.q2d = a /\ e.link.d2q = b /\ e.link.last = l.last
      /\ e.toDevice = L!NoQic /\ e.toQic.mmioReady = FALSE
  BY <1>1 DEF Begun, Pending, PendingBack
<1>3. ASSUME l.last = "DeviceToQic", OnLink(b, "MmioResponse")
      PROVE  /\ d.link.last = "DeviceToQic" /\ OnLink(d.link.d2q, "MmioResponse")
             /\ d.toDevice = L!NoQic /\ d.toQic.mmioReady = FALSE
  <2>1. b \in Responses
    BY <1>3, BegunAnswer DEF AnswerShaped
  <2>2. /\ OnLink(c.link.d2q, "MmioResponse") /\ c.link.d2q \in Responses
        /\ c.link.last = "DeviceToQic" /\ Quiet(e, c)
    BY <1>1, <1>2, <1>3, <2>1, AnswerBlocks
  <2>3. /\ OnLink(d.link.d2q, "MmioResponse") /\ d.link.last = "DeviceToQic" /\ Quiet(c, d)
    BY <1>1, <2>2, AnswerBlocks
  <2>4. QED
    BY <1>2, <2>2, <2>3 DEF Quiet
<1>4. ASSUME l.q2d = None, OnLink(a, "DmaCompletion"), dev.completionReady, d.link.q2d # None,
             b # None => b.tag = "MmioResponse"
      PROVE  l.last = "DeviceToQic" /\ OnLink(b, "MmioResponse")
  <2>1. a.left = 1 /\ L!DeviceTakes(a.tag, dev) /\ a # None
    BY <1>4 DEF Pending, L!ToDeviceMessage, L!Message, OnLink, L!DeviceTakes
  <2>2. c.link.q2d # None
    BY <1>1, <1>4 DEF Slotted, Quiet, DeviceGets, QicGets, Same
  <2>3. ~DeviceGets(e, c, dev) /\ ~DeviceGets(c, d, dev)
    BY <1>4, <2>2 DEF DeviceGets
  <2>4. l.last = "DeviceToQic"
    BY <1>1, <1>2, <2>1, <2>3 DEF Slotted, Turns
  <2>5. b # None
    <3>1. SUFFICES ASSUME b = None PROVE FALSE
      OBVIOUS
    <3>2. c.link.last = None /\ c.link.q2d = a
      BY <1>1, <1>2, <2>4, <3>1 DEF Slotted, Turns
    <3>3. ~(c.link.q2d.left > 1) /\ L!DeviceTakes(c.link.q2d.tag, dev)
      BY <2>1, <3>2
    <3>4. Turns(c, d, qicSignals, dev)
      BY <1>1 DEF Slotted
    <3>5. QED
      BY <2>2, <2>3, <3>2, <3>3, <3>4 DEF Turns
  <2>6. QED
    BY <1>4, <2>4, <2>5 DEF OnLink
<1>5. QED
  BY <1>3, <1>4 DEF Blocked

(* What the chip answers an access with is a value, and the message with it stays one. *)
THEOREM AnswersInvariant == Spec => []AnswersInv
<1>1. ASSUME qdx \in {NewQdx, HardReset}, link = L!NewLink
      PROVE  AnswersInv
  BY <1>1, NewAnswers DEF AnswersInv, OnLink, L!NewLink
<1>2. Init => AnswersInv
  BY <1>1 DEF Init
<1>3. RoomInv /\ WholeInv /\ AnswersInv /\ [Next]_cardVars => AnswersInv'
  <2>1. SUFFICES ASSUME RoomInv, WholeInv, AnswersInv, [Next]_cardVars PROVE AnswersInv'
    OBVIOUS
  <2>2. CASE CardClock
    <3>1. ShapeInv /\ AccessesLegal /\ ChipRoom(qdx) /\ Based(qdx)
      BY <2>1, RoomIs DEF WholeInv, BurstsShaped, Based
    <3>2. /\ \E endpointSignals : qdx' = Advance(qdx, Moves.toDevice, endpointSignals)
          /\ link' = Moves.link
      BY <2>2, <3>1, CardClockIs
    <3>3. Signals.mmio # None => Legal(Signals.mmio)
      BY <3>1 DEF Signals, Q!ToDevice, AccessesLegal
    <3>4. LegalClock(Moves)
      BY <3>1, <3>3, LegalCycle DEF Moves, AccessesLegal, ShapeInv
    <3>5. ChipAnswers(qdx')
      BY <2>1, <3>1, <3>2, <3>4, AnswersAdvance DEF LegalClock, AnswersInv
    <3>6. Device.response # None => Device.response \in Answers
      BY <2>1 DEF AnswersInv, ChipAnswers, Device, QicPort
    <3>7. AnswerShaped(link'.d2q)
      BY <2>1, <3>1, <3>2, <3>6, AnswersCycle DEF AnswersInv, AnswerShaped, Moves, ShapeInv
    <3>8. QED
      BY <3>5, <3>7 DEF AnswersInv, AnswerShaped
  <2>3. CASE BusReset
    <3>1. qdx' = HardReset /\ link' = L!NewLink
      BY <2>3, BusResetIs
    <3>2. QED
      BY <3>1, NewAnswers DEF AnswersInv, OnLink, L!NewLink
  <2>4. CASE DriverAccess
    BY <2>1, <2>4 DEF DriverAccess, AnswersInv
  <2>5. CASE UNCHANGED cardVars
    BY <2>1, <2>5 DEF cardVars, AnswersInv
  <2>6. QED
    BY <2>1, <2>2, <2>3, <2>4, <2>5 DEF Next
<1>4. QED
  BY <1>2, <1>3, WholeInvariant, RoomInvariant, PTL DEF Spec

-----------------------------------------------------------------------------
(* One clock of a card whose chip has not been stopped.                                       *)

InService(a, b) ==
  /\ Clocked(a, b) /\ Undisturbed(qic, qic', Signals, ToCard) /\ QicShape(qic')
  /\ Working(qdx.state) => ReadyState(qdx'.state)
  /\ WordOnTheLink /\ qic.tail = None => qic'.tail = None
  /\ ToCard.mmioReady = Moves.toQic.mmioReady
  /\ ToQicIs(PendingBack(link, Signals, Device), link, Signals, Device)
  /\ ~Signals.responseReady =>
       Blocked(link, a, PendingBack(link, Signals, Device), Moves, Device)

LEMMA PendingBackIs ==
  ASSUME NEW l, LinkShape(l), NEW qicSignals, NEW dev, NEW b, b = PendingBack(l, qicSignals, dev)
  PROVE  ToQicIs(b, l, qicSignals, dev)
         /\ (l.d2q = None /\ OnLink(b, "NotificationRequest") => dev.notification # None)
<1>1. ASSUME l.d2q = None, b # None
      PROVE  /\ b.tag \in ToQicTags
             /\ b.tag = "MmioResponse" => dev.response # None
             /\ b.tag = "DmaRequest" => dev.dma # None /\ b.body = dev.dma /\ qicSignals.dmaReady
             /\ b.tag = "DmaWrite" => dev.write # None /\ b.body = dev.write /\ qicSignals.writeReady
             /\ b.tag = "NotificationRequest" => dev.notification # None
  BY <1>1 DEF PendingBack, L!ToQicMessage, L!Message, ToQicTags
<1>2. QED
  BY <1>1 DEF ToQicIs, PendingBack, OnLink

LEMMA InServiceIs ==
  ASSUME RoomInv, WholeInv, AnswersInv, CardClock, ~seen'.stopped, ~seen'.repeats
  PROVE  ~seen.stopped /\ ~seen.repeats /\ \E a, b : InService(a, b)
<1>1. ShapeInv /\ BurstsShaped /\ LinkShape(link) /\ QicShape(qic) /\ SeenShape(seen)
  BY DEF RoomInv, WholeInv, ShapeInv
<1>2. /\ BusShape(Bus) /\ ~Bus.reset /\ qic' = Q!Clock(qic, Bus, ToCard) /\ QicShape(qic')
      /\ seen' = Observe(Moves.toDevice.mmio)
  BY <1>1, CardClockIs DEF ToCard
<1>3. PICK a, b : Clocked(a, b)
  BY <1>1, ClockedIs
<1>4. Undisturbed(qic, qic', Signals, ToCard)
  BY <1>1, <1>2, UndisturbedIs DEF Signals
<1>5. /\ ~seen.stopped /\ ~seen.repeats
      /\ Working(qdx.state) => ReadyState(qdx'.state)
      /\ WordOnTheLink /\ qic.tail = None => qic'.tail = None
  <2>1. /\ seen'.stopped = (seen.stopped \/ (Working(qdx.state) /\ ~ReadyState(qdx'.state)))
        /\ seen'.repeats = (seen.repeats \/ (WordOnTheLink /\ qic.tail = None /\ qic'.tail # None))
    BY <1>2 DEF Observe
  <2>2. QED
    BY <1>1, <2>1 DEF SeenShape
<1>6. ToCard.mmioReady = Moves.toQic.mmioReady
  <2>1. Moves = L!Cycle(link, FALSE, Signals, Device)
    BY DEF Moves
  <2>2. ClockShape(Moves)
    BY <1>1, <2>1, CycleIs
  <2>3. QED
    BY <2>2, SeenByQic DEF ClockShape, ToCard
<1>7. ToQicIs(PendingBack(link, Signals, Device), link, Signals, Device)
  BY <1>1, PendingBackIs
<1>8. ASSUME ~Signals.responseReady
      PROVE  Blocked(link, a, PendingBack(link, Signals, Device), Moves, Device)
  <2>1. AnswerShaped(link.d2q) /\ (Device.response # None => Device.response \in Answers)
    BY DEF AnswersInv, AnswerShaped, ChipAnswers, Device, QicPort
  <2>2. a = Pending(link, Signals) /\ link.last \in {None, "QicToDevice", "DeviceToQic"}
    BY <1>1, <1>3 DEF Clocked, ToDeviceIs, BurstsShaped
  <2>3. QED
    BY <1>1, <1>8, <2>1, <2>2, BlockedIs DEF Moves
<1>9. InService(a, b)
  BY <1>2, <1>3, <1>4, <1>5, <1>6, <1>7, <1>8 DEF InService
<1>10. QED
  BY <1>5, <1>9

\* The chip that works goes on working.
LEMMA EngineGoesOn ==
  ASSUME RoomInv, NEW a, NEW b, InService(a, b), qdx.state \in Served \cup Requesting
  PROVE  Engine(qdx, ToChip, Drive, qdx')
<1>1. Working(qdx.state)
  BY DEF Working, ReadyState, Served, Requesting
<1>2. qdx'.state \notin {"Disabled", "Fault"} /\ qdx.state \notin {"Disabled", "Fault"}
  BY <1>1 DEF InService, ReadyState, Working
<1>3. ~StateAccess(qdx, ToChip, qdx')
  BY <1>2, AccessAnswered
<1>4. QED
  BY <1>3 DEF InService, Clocked, EngineClock

LEMMA StaysServed ==
  ASSUME RoomInv, NEW a, NEW b, InService(a, b), qdx.state \in Served, ToChip.completion = None
  PROVE  /\ qdx'.state \in Served
         /\ qdx.state \in Completing => qdx'.state = qdx.state
BY EngineGoesOn DEF Engine, Stays, RequestTaken, WordTaken, WordGiven, BurstDone, CompletionTaken,
   Goes1, Served, Requesting, Completing

\* When a completion is delivered the QIC is done with its burst.
LEMMA DoneWith ==
  ASSUME RoomInv, WholeInv, Serving, NEW a, NEW b, InService(a, b),
         ToChip.completion # None \/ ToCard.completionReady
  PROVE  Held(qic') = Q!Idle
<1>1. /\ OnLink(a, "DmaCompletion") /\ ToChip.completion = a.body /\ ToCard.completionReady
      /\ qdx.state \in Completing
  BY GivenIs DEF InService, Completing
<1>2. /\ ToDeviceIs(a, link, Signals) /\ WordsOnLink /\ BurstShape(Held(qic))
      /\ Undisturbed(qic, qic', Signals, ToCard)
  BY DEF InService, Clocked, WholeInv, BurstsShaped
<1>3. CASE link.q2d = None
  <2>1. Signals.completion # None
    BY <1>1, <1>2, <1>3 DEF ToDeviceIs, OnLink
  <2>2. QED
    BY <1>1, <1>2, <2>1 DEF Undisturbed
<1>4. CASE link.q2d # None
  <2>1. a = link.q2d
    BY <1>2, <1>4 DEF ToDeviceIs
  <2>2. /\ link.last = "DeviceToQic" /\ OnLink(link.d2q, "MmioResponse")
        /\ qic.state.at # "WorkerResponse"
    BY <1>1, <2>1 DEF Serving, Barred
  <2>3. PendingBack(link, Signals, Device) = link.d2q /\ ~Signals.responseReady
    BY <1>2, <2>2 DEF PendingBack, OnLink, Undisturbed
  <2>4. ToChip = L!NoQic
    BY <2>2, <2>3 DEF InService, Blocked, ToChip
  <2>5. a.body = Held(qic) /\ Held(qic) \in Stages
    BY <1>1, <1>2, <2>1 DEF WordsOnLink, BurstShape
  <2>6. QED
    BY <1>1, <2>4, <2>5, NoneIsNoValue DEF L!NoQic
<1>5. QED
  BY <1>3, <1>4

\* A burst keeps its chip.
LEMMA ServedKept ==
  ASSUME RoomInv, WholeInv, Serving, NEW a, NEW b, InService(a, b), InBurst(Held(qic'))
  PROVE  qdx'.state \in Served
<1>1. PICK h, h2 : h = Held(qic) /\ h2 = Held(qic')
  OBVIOUS
<1>2. HoldMoves(qic, qic', Bus, ToCard) /\ Clocked(a, b)
  BY DEF InService, Clocked
<1>3. Q!Idle.at = "Idle"
  BY MadeStates
<1>4. CASE InBurst(h)
  <2>1. qdx.state \in Served
    BY <1>1, <1>4 DEF Serving
  <2>2. ToChip.completion = None
    BY <1>3, DoneWith DEF InBurst, ForBus
  <2>3. QED
    BY <2>1, <2>2, StaysServed
<1>5. CASE ~InBurst(h)
  <2>1. ToCard.dma # None
    BY <1>1, <1>2, <1>5 DEF HoldMoves, BurstMoves, InBurst, ForBus
  <2>2. ToChip.dmaReady /\ qdx.state \in Requesting
    BY <1>2, <2>1, GivenIs, RequestGivenIs
  <2>3. Engine(qdx, ToChip, Drive, qdx')
    BY <2>2, EngineGoesOn
  <2>4. QED
    BY <2>2, <2>3 DEF Engine, Stays, RequestTaken, WordTaken, WordGiven, BurstDone,
       CompletionTaken, Goes1, Served, Requesting
<1>6. QED
  BY <1>4, <1>5

\* The burst for the chip's next word: a fetch, or a completion.
LEMMA BurstIs ==
  ASSUME RoomInv, WholeInv, Serving, InBurst(Held(qic)), Held(qic).at # "DmaComplete"
  PROVE  LET r == RequestOf(Held(qic)) IN
         /\ r = Wanted(qdx) /\ qdx.state \in Served
         /\ r.direction = "HostToDevice" => qdx.state = "SqReceive" /\ r.words = SqWords
         /\ r.direction # "HostToDevice" => qdx.state \in {"CqSend", "CqCompletion"} /\ r.words = CqWords
<1>1. /\ qdx.state \in Served /\ qdx.state # "SqCompletion" /\ ChipShape(qdx)
      /\ RequestOf(Held(qic)) = Wanted(qdx)
  BY DEF Serving, WholeInv, OwnBurst, RoomInv, ShapeInv
<1>2. Wanted(qdx) = IF qdx.state \in Fetching THEN FetchOf(qdx) ELSE PublishOf(qdx)
  BY <1>1, WantedIs
<1>3. FetchOf(qdx).direction = "HostToDevice" /\ FetchOf(qdx).words = SqWords
  BY DEF FetchOf
<1>4. PublishOf(qdx).direction = "DeviceToHost" /\ PublishOf(qdx).words = CqWords
  BY DEF PublishOf
<1>5. QED
  BY <1>1, <1>2, <1>3, <1>4 DEF Served, Fetching

\* The word the chip takes last is the last of the burst, which is over with it.
LEMMA LastWord ==
  ASSUME RoomInv, WholeInv, Serving, NEW a, NEW b, InService(a, b),
         qdx.state = "SqReceive", ToChip.read # None, qdx.sqWord = SqWords - 1
  PROVE  ~InBurst(Held(qic')) \/ Held(qic').at = "DmaComplete"
<1>1. PICK h, h2 : h = Held(qic) /\ h2 = Held(qic')
  OBVIOUS
<1>2. /\ HoldMoves(qic, qic', Bus, ToCard) /\ Clocked(a, b) /\ CommandArrives
      /\ ToDeviceIs(a, link, Signals) /\ SignalsFit(qic, Bus, Device, Signals)
      /\ Undisturbed(qic, qic', Signals, ToCard) /\ QicShape(qic) /\ QicShape(qic')
  BY DEF InService, Clocked, WholeInv, RoomInv, ShapeInv
<1>3. OnLink(a, "DmaRead") /\ ToCard.readReady
  BY <1>2, GivenIs
<1>4. h.at = "DmaComplete" \/ (/\ h.at = "DmaData" /\ h.request.direction = "HostToDevice"
                               /\ h.buffer # None)
  BY <1>1, <1>2, <1>3, WordIs
<1>5. CASE h.at = "DmaComplete"
  <2>1. BurstMoves(h, Bus, ToCard, h2) => h2 = h \/ h2 = Q!Idle
    BY <1>5 DEF BurstMoves, ForBus
  <2>2. h2 = h \/ ~InBurst(h2) \/ h2 = Q!Idle
    BY <1>1, <1>2, <1>5, <2>1 DEF HoldMoves, InBurst, ForBus
  <2>3. QED
    BY <1>1, <1>5, <2>2, MadeStates DEF InBurst, ForBus
<1>6. CASE h.at = "DmaData"
  <2>1. h.completed = h.request.words
    <3>1. h.request.words = SqWords
      BY <1>1, <1>4, <1>6, BurstIs DEF InBurst, RequestOf
    <3>2. h.completed = qdx.sqWord + 1
      BY <1>1, <1>2, <1>4, <1>6 DEF CommandArrives, One
    <3>3. SqWords \in Nat
      BY QueueAssumption
    <3>4. QED
      BY <3>1, <3>2, <3>3
  <2>2. ~(h2 = h /\ Keeping(h, qic, qic'))
    <3>1. SUFFICES ASSUME h2 = h, Keeping(h, qic, qic') PROVE FALSE
      OBVIOUS
    <3>2. qic.state.at \in Q!WorkerStates \/ qic'.state.at \in Q!WorkerStates
      BY <1>6, <3>1 DEF Keeping
    <3>3. CASE link.q2d = None
      <4>1. Signals.read # None
        BY <1>2, <1>3, <3>3 DEF ToDeviceIs, OnLink
      <4>2. qic'.state.at \notin Q!WorkerStates /\ qic.state.at = "DmaData"
        BY <1>2, <4>1 DEF Undisturbed, SignalsFit
      <4>3. QED
        BY <3>2, <4>2 DEF Q!WorkerStates
    <3>4. CASE link.q2d # None
      <4>1. WordOnTheLink
        BY <1>2, <1>3, <3>4 DEF ToDeviceIs, OnLink, WordOnTheLink
      <4>2. qic.tail = None /\ qic'.tail = None
        BY <4>1 DEF Serving, InService
      <4>3. qic.state = h /\ qic'.state = h
        <5>1. \A u : Q!RequestBus(u).at # "DmaData"
          BY MadeStates
        <5>2. QED
          BY <1>1, <1>6, <3>1, <4>2, <5>1 DEF Held
      <4>4. QED
        BY <1>6, <3>2, <4>3 DEF Q!WorkerStates
    <3>5. QED
      BY <3>3, <3>4
  <2>3. CASE BurstMoves(h, Bus, ToCard, h2)
    <3>1. Fails(h2) \/ ReadMoves(h, Bus, ToCard, h2)
      BY <1>3, <1>4, <1>6, <2>3 DEF BurstMoves, ForBus, BurstWaits, WriteMoves
    <3>2. ReadMoves(h, Bus, ToCard, h2) => h2 = Q!DmaComplete("Ok", h.completed)
      BY <1>4, <1>6, <2>1 DEF ReadMoves
    <3>3. QED
      BY <1>1, <3>1, <3>2, MadeStates DEF Fails
  <2>4. QED
    BY <1>1, <1>2, <1>6, <2>2, <2>3 DEF HoldMoves, InBurst, ForBus
<1>7. QED
  BY <1>4, <1>5, <1>6

LEMMA NotFetched ==
  ASSUME RoomInv, WholeInv, Serving, NEW a, NEW b, InService(a, b), InBurst(Held(qic')),
         Held(qic').at # "DmaComplete"
  PROVE  qdx'.state # "SqCompletion"
<1>1. PICK h, h2 : h = Held(qic) /\ h2 = Held(qic')
  OBVIOUS
<1>2. SUFFICES ASSUME qdx'.state = "SqCompletion" PROVE FALSE
  OBVIOUS
<1>3. /\ HoldMoves(qic, qic', Bus, ToCard) /\ Clocked(a, b) /\ ChipShape(qdx)
      /\ StateAccess(qdx, ToChip, qdx') \/ EngineClock(qdx, ToChip, Drive, qdx')
  BY DEF InService, Clocked, RoomInv, ShapeInv
<1>4. Engine(qdx, ToChip, Drive, qdx')
  BY <1>2, <1>3, AtWork
<1>5. qdx.state = "SqCompletion" \/ WordTaken(qdx, ToChip, qdx')
  BY <1>2, <1>4 DEF Engine, Stays, RequestTaken, WordGiven, BurstDone, CompletionTaken, Goes1
<1>6. CASE qdx.state = "SqCompletion"
  <2>1. ToCard.dma = None
    BY <1>3, <1>6, RequestGivenIs DEF Requesting
  <2>2. InBurst(h) => h.at = "DmaComplete"
    BY <1>1, <1>6 DEF Serving
  <2>3. h.at = "DmaComplete" /\ BurstMoves(h, Bus, ToCard, h2) => h2 = h \/ h2 = Q!Idle
    BY DEF BurstMoves, ForBus
  <2>4. BurstMoves(h, Bus, ToCard, h2) => InBurst(h)
    BY DEF BurstMoves, InBurst
  <2>5. h2 = h \/ h2 = Q!Idle
    BY <1>1, <1>3, <2>1, <2>2, <2>3, <2>4 DEF HoldMoves, InBurst
  <2>6. QED
    BY <1>1, <2>2, <2>5, MadeStates DEF InBurst, ForBus
<1>7. CASE WordTaken(qdx, ToChip, qdx')
  <2>1. qdx.state = "SqReceive" /\ ToChip.read # None /\ qdx.sqWord = SqWords - 1
    BY <1>2, <1>7 DEF WordTaken
  <2>2. QED
    BY <2>1, LastWord
<1>8. QED
  BY <1>5, <1>6, <1>7

\* A burst that has succeeded has a chip that has moved its last word.
LEMMA SucceededKept ==
  ASSUME RoomInv, WholeInv, Serving, NEW a, NEW b, InService(a, b),
         Held(qic').at = "DmaComplete", Held(qic').status = "Ok"
  PROVE  qdx'.state \in Completing
<1>1. PICK h, h2 : h = Held(qic) /\ h2 = Held(qic')
  OBVIOUS
<1>2. /\ HoldMoves(qic, qic', Bus, ToCard) /\ Clocked(a, b) /\ CommandArrives /\ CompletionLeaves
      /\ BurstShape(h)
  BY <1>1 DEF InService, Clocked, WholeInv, BurstsShaped
<1>3. ToChip.completion = None
  BY DoneWith, MadeStates
<1>4. CASE h2 = h
  <2>1. qdx.state \in Completing
    BY <1>1, <1>4 DEF Serving
  <2>2. QED
    BY <1>3, <2>1, StaysServed DEF Served, Completing
<1>5. CASE h = qic.state /\ BurstMoves(h, Bus, ToCard, h2) /\ h2 # h
  <2>1. ~Fails(h2)
    BY <1>1 DEF Fails, Q!DmaComplete
  <2>2. ~BurstWaits(h, Bus, ToCard, h2)
    BY <1>1, MadeStates DEF BurstWaits
  <2>3. /\ \A r, w : Q!DmaAddress(r, w).at # "DmaComplete"
        /\ \A r, c, w, x : Q!DmaData(r, c, w, x).at # "DmaComplete"
        /\ Q!Idle.at # "DmaComplete"
    BY MadeStates
  <2>4. h.at = "DmaData" /\ (ReadMoves(h, Bus, ToCard, h2) \/ WriteMoves(h, Bus, ToCard, h2))
    BY <1>1, <1>5, <2>1, <2>2, <2>3 DEF BurstMoves
  <2>5. /\ RequestOf(h) = h.request /\ InBurst(h)
        /\ h.request.direction = "HostToDevice" => qdx.state = "SqReceive" /\ h.request.words = SqWords
        /\ h.request.direction # "HostToDevice" =>
             qdx.state \in {"CqSend", "CqCompletion"} /\ h.request.words = CqWords
    BY <1>1, <2>4, BurstIs DEF InBurst, RequestOf
  <2>6. h.completed \in Nat /\ SqWords \in Nat \ {0} /\ CqWords \in Nat \ {0}
    BY <1>2, <2>4, StageHas, QueueAssumption
  <2>7. CASE ReadMoves(h, Bus, ToCard, h2)
    <3>1. /\ h.request.direction = "HostToDevice" /\ h.buffer # None /\ ToCard.readReady
          /\ h.completed = h.request.words
      BY <1>1, <2>3, <2>7 DEF ReadMoves
    <3>2. OnLink(a, "DmaRead") /\ ToChip.read = a.body
      BY <1>2, <3>1, GivenIs
    <3>3. ToChip.read # None
      BY <1>1, <1>2, <2>4, <3>1, <3>2, WordIs
    <3>4. h.completed = qdx.sqWord + 1 /\ qdx.sqWord \in Int
      BY <1>1, <1>2, <2>4, <2>5, <3>1 DEF CommandArrives, One
    <3>5. qdx.sqWord = SqWords - 1 /\ qdx.state = "SqReceive"
      BY <2>5, <2>6, <3>1, <3>4
    <3>6. Engine(qdx, ToChip, Drive, qdx')
      BY <3>5, EngineGoesOn DEF Served
    <3>7. QED
      BY <3>3, <3>5, <3>6 DEF Engine, Stays, RequestTaken, WordTaken, WordGiven, BurstDone,
         CompletionTaken, Goes1, Requesting, Completing
  <2>8. CASE WriteMoves(h, Bus, ToCard, h2)
    <3>1. /\ h.request.direction # "HostToDevice" /\ h.buffer # None
          /\ h.completed + 1 = h.request.words
      BY <1>1, <2>3, <2>8 DEF WriteMoves
    <3>2. Sent = h.completed + 1
      BY <1>1, <1>2, <2>4, <2>5, <3>1 DEF CompletionLeaves, One
    <3>3. qdx.cqWord \in 0..CqWords - 1
      BY <1>2, <2>5, <3>1 DEF CompletionLeaves
    <3>4. qdx.state = "CqCompletion"
      BY <2>5, <2>6, <3>1, <3>2, <3>3 DEF Sent
    <3>5. QED
      BY <1>3, <3>4, StaysServed DEF Served, Completing
  <2>9. QED
    BY <2>4, <2>7, <2>8
<1>6. QED
  <2>1. InBurst(h2)
    BY <1>1 DEF InBurst
  <2>2. \A u : Q!RequestBus(u).at # "DmaComplete"
    BY MadeStates
  <2>3. QED
    BY <1>1, <1>2, <1>4, <1>5, <2>1, <2>2 DEF HoldMoves

\* The messages on the link, each with the state of the chip that takes or has sent it.
LEMMA SendersKept ==
  ASSUME RoomInv, WholeInv, Serving, NEW a, NEW b, InService(a, b)
  PROVE  /\ OnLink(link'.d2q, "DmaRequest") => qdx'.state \in Requesting
         /\ OnLink(link'.d2q, "DmaWrite") => qdx'.state = "CqSend"
<1>1. /\ Clocked(a, b) /\ Same(link'.d2q, b) /\ ToQicIs(b, link, Signals, Device) /\ ChipShape(qdx)
  BY DEF InService, Clocked, Carried, RoomInv, ShapeInv
<1>2. ASSUME OnLink(link'.d2q, "DmaRequest")
      PROVE  qdx'.state \in Requesting
  <2>1. OnLink(b, "DmaRequest") /\ link'.d2q # None
    BY <1>1, <1>2 DEF Same, OnLink
  <2>2. qdx.state \in Requesting
    <3>1. CASE link.d2q # None
      BY <1>1, <2>1, <3>1 DEF ToQicIs, Serving
    <3>2. CASE link.d2q = None
      BY <1>1, <2>1, <3>2, WantedIs DEF ToQicIs, OnLink, Device, QicPort
    <3>3. QED
      BY <3>1, <3>2
  <2>3. ~ToChip.dmaReady
    BY <1>1, <2>1, GivenIs
  <2>4. QED
    BY <2>2, <2>3, EngineGoesOn DEF Engine, Stays, RequestTaken, WordTaken, WordGiven, BurstDone,
       CompletionTaken, Goes1, Requesting
<1>3. ASSUME OnLink(link'.d2q, "DmaWrite")
      PROVE  qdx'.state = "CqSend"
  <2>1. OnLink(b, "DmaWrite") /\ link'.d2q # None
    BY <1>1, <1>3 DEF Same, OnLink
  <2>2. qdx.state = "CqSend"
    <3>1. CASE link.d2q # None
      BY <1>1, <2>1, <3>1 DEF ToQicIs, Serving
    <3>2. CASE link.d2q = None
      BY <1>1, <2>1, <3>2 DEF ToQicIs, OnLink, Device, QicPort
    <3>3. QED
      BY <3>1, <3>2
  <2>3. ~ToChip.writeReady
    BY <1>1, <2>1, GivenIs
  <2>4. Engine(qdx, ToChip, Drive, qdx')
    BY <2>2, EngineGoesOn DEF Served
  <2>5. QED
    BY <2>2, <2>3, <2>4 DEF Engine, Stays, RequestTaken, WordTaken, WordGiven, BurstDone,
       CompletionTaken, Goes1
<1>4. QED
  BY <1>2, <1>3

LEMMA ReceiverKept ==
  ASSUME RoomInv, WholeInv, Serving, NEW a, NEW b, InService(a, b), OnLink(link'.q2d, "DmaRead")
  PROVE  qdx'.state = "SqReceive" /\ qic'.tail = None
<1>1. /\ Clocked(a, b) /\ Same(link'.q2d, a) /\ ToDeviceIs(a, link, Signals)
      /\ SignalsFit(qic, Bus, Device, Signals) /\ Undisturbed(qic, qic', Signals, ToCard)
      /\ QicShape(qic')
  BY DEF InService, Clocked, Carried
<1>2. OnLink(a, "DmaRead") /\ link'.q2d # None
  BY <1>1 DEF Same, OnLink
<1>3. qdx.state = "SqReceive" /\ qic'.tail = None
  <2>1. CASE link.q2d # None
    <3>1. WordOnTheLink
      BY <1>1, <1>2, <2>1 DEF ToDeviceIs, OnLink, WordOnTheLink
    <3>2. QED
      BY <3>1 DEF Serving, InService
  <2>2. CASE link.q2d = None
    <3>1. Signals.read # None
      BY <1>1, <1>2, <2>2 DEF ToDeviceIs, OnLink
    <3>2. /\ Held(qic).at = "DmaData" /\ Held(qic).request.direction = "HostToDevice"
          /\ qic'.state.at \notin Q!WorkerStates
      BY <1>1, <3>1 DEF SignalsFit, Undisturbed
    <3>3. qdx.state = "SqReceive"
      BY <3>2, BurstIs DEF InBurst, RequestOf
    <3>4. qic'.tail = None
      BY <1>1, <3>2 DEF QicShape
    <3>5. QED
      BY <3>3, <3>4
  <2>3. QED
    BY <2>1, <2>2
<1>4. ToChip.read = None
  BY <1>1, <1>2, GivenIs
<1>5. Engine(qdx, ToChip, Drive, qdx')
  BY <1>3, EngineGoesOn DEF Served
<1>6. QED
  BY <1>3, <1>4, <1>5 DEF Engine, Stays, RequestTaken, WordTaken, WordGiven, BurstDone,
     CompletionTaken, Goes1, Requesting

\* A completion is not delivered to a chip that waits for it only behind an answer.
LEMMA BarredKept ==
  ASSUME RoomInv, WholeInv, OneNotification, Serving, NEW a, NEW b, InService(a, b),
         OnLink(link'.q2d, "DmaCompletion")
  PROVE  Barred(qdx', link', qic')
<1>1. /\ Clocked(a, b) /\ Same(link'.q2d, a) /\ ToDeviceIs(a, link, Signals) /\ ChipShape(qdx)
      /\ SignalsFit(qic, Bus, Device, Signals) /\ Undisturbed(qic, qic', Signals, ToCard)
      /\ WordsOnLink /\ Carried(Moves, a, b, Signals, Device) /\ link' = Moves.link
      /\ ToCard.mmioReady = Moves.toQic.mmioReady
  BY DEF InService, Clocked, Carried, WholeInv, RoomInv, ShapeInv
<1>2. OnLink(a, "DmaCompletion") /\ link'.q2d # None
  BY <1>1 DEF Same, OnLink
<1>3. SUFFICES ASSUME qdx'.state \in Completing
               PROVE  /\ link'.last = "DeviceToQic" /\ OnLink(link'.d2q, "MmioResponse")
                      /\ qic'.state.at # "WorkerResponse"
  BY DEF Barred
<1>4. Held(qic).at = "DmaComplete"
  BY <1>1, <1>2 DEF ToDeviceIs, OnLink, WordsOnLink, SignalsFit
<1>5. qdx.state \in Completing
  <2>1. Engine(qdx, ToChip, Drive, qdx')
    BY <1>1, <1>3, AtWork DEF Completing, Clocked
  <2>2. ToChip.read = None
    BY <1>1, <1>2, GivenIs DEF OnLink
  <2>3. ~ToChip.writeReady
    BY <1>1, <1>4 DEF Carried, ToChip, SignalsFit
  <2>4. QED
    BY <1>3, <2>1, <2>2, <2>3 DEF Engine, Stays, RequestTaken, WordTaken, WordGiven, BurstDone,
       CompletionTaken, Goes1, Completing
<1>6. /\ link.last = "DeviceToQic" /\ OnLink(PendingBack(link, Signals, Device), "MmioResponse")
      /\ ~Signals.responseReady /\ qic.state.at # "WorkerResponse"
  <2>1. CASE link.q2d # None
    <3>1. /\ link.last = "DeviceToQic" /\ OnLink(link.d2q, "MmioResponse")
          /\ qic.state.at # "WorkerResponse"
      BY <1>1, <1>2, <1>5, <2>1 DEF ToDeviceIs, Serving, Barred
    <3>2. QED
      BY <1>1, <3>1 DEF PendingBack, OnLink, Undisturbed
  <2>2. CASE link.q2d = None
    <3>1. Signals.completion # None
      BY <1>1, <1>2, <2>2 DEF ToDeviceIs, OnLink
    <3>2. qic.state.at = "DmaComplete"
      BY <1>1, <3>1 DEF SignalsFit
    <3>3. ~Signals.responseReady
      BY <1>1, <3>2 DEF Undisturbed
    <3>4. Device.completionReady
      BY <1>5 DEF Device, QicPort, Completing
    <3>5. PICK answer : answer = PendingBack(link, Signals, Device)
      OBVIOUS
    <3>6. ToQicIs(answer, link, Signals, Device) /\ Blocked(link, a, answer, Moves, Device)
      BY <3>3, <3>5 DEF InService
    <3>7. answer # None => answer.tag = "MmioResponse"
      <4>1. CASE link.d2q = None
        <5>1. ~OnLink(answer, "NotificationRequest")
          BY <1>5, <3>5, <4>1, PendingBackIs DEF Device, QicPort, Completing, RoomInv, ShapeInv
        <5>2. Device.write = None /\ Device.dma = None
          BY <1>1, <1>5, WantedIs DEF Device, QicPort, Completing, Requesting
        <5>3. QED
          BY <3>6, <4>1, <5>1, <5>2 DEF ToQicIs, OnLink, ToQicTags
      <4>2. CASE link.d2q # None
        <5>1. answer = link.d2q /\ answer.tag \in ToQicTags
          BY <3>5, <4>2 DEF PendingBack, RoomInv, ShapeInv, LinkShape, MessageShape
        <5>2. ~OnLink(answer, "DmaRequest") /\ ~OnLink(answer, "DmaWrite")
          BY <1>5, <5>1 DEF Serving, Completing, Requesting
        <5>3. ~OnLink(answer, "NotificationRequest")
          BY <1>5, <5>1 DEF OneNotification, LinkNotifies, OnLink, Completing
        <5>4. QED
          BY <4>2, <5>1, <5>2, <5>3 DEF OnLink, ToQicTags
      <4>3. QED
        BY <4>1, <4>2
    <3>8. link.last = "DeviceToQic" /\ OnLink(answer, "MmioResponse")
      BY <1>1, <1>2, <2>2, <3>4, <3>6, <3>7 DEF Blocked
    <3>9. QED
      BY <3>2, <3>3, <3>5, <3>8
  <2>3. QED
    BY <2>1, <2>2
<1>7. /\ link'.last = "DeviceToQic" /\ OnLink(link'.d2q, "MmioResponse")
      /\ Moves.toQic.mmioReady = FALSE
  BY <1>1, <1>6 DEF InService, Blocked
<1>8. QED
  BY <1>1, <1>6, <1>7 DEF Undisturbed

LEMMA ServingKept ==
  ASSUME NotifyInv, WholeInv, AnswersInv, ServedInv, CardClock, ~seen'.stopped, ~seen'.repeats
  PROVE  Serving'
<1>1. RoomInv
  BY DEF NotifyInv
<1>2. PICK a, b : InService(a, b)
  BY <1>1, InServiceIs
<1>3. Serving /\ OneNotification
  BY <1>1, InServiceIs DEF ServedInv, NotifyInv
<1>4. InBurst(Held(qic')) => qdx'.state \in Served
  BY <1>1, <1>2, <1>3, ServedKept
<1>5. InBurst(Held(qic')) /\ Held(qic').at # "DmaComplete" => qdx'.state # "SqCompletion"
  BY <1>1, <1>2, <1>3, NotFetched
<1>6. Held(qic').at = "DmaComplete" /\ Held(qic').status = "Ok" => qdx'.state \in Completing
  BY <1>1, <1>2, <1>3, SucceededKept
<1>7. /\ OnLink(link'.d2q, "DmaRequest") => qdx'.state \in Requesting
      /\ OnLink(link'.d2q, "DmaWrite") => qdx'.state = "CqSend"
  BY <1>1, <1>2, <1>3, SendersKept
<1>8. WordOnTheLink' => qdx'.state = "SqReceive" /\ qic'.tail = None
  BY <1>1, <1>2, <1>3, ReceiverKept DEF WordOnTheLink, OnLink
<1>9. OnLink(link'.q2d, "DmaCompletion") => Barred(qdx', link', qic')
  BY <1>1, <1>2, <1>3, BarredKept
<1>10. QED
  BY <1>4, <1>5, <1>6, <1>7, <1>8, <1>9 DEF Serving

LEMMA NewServing == qic = Q!NewQic /\ link = L!NewLink => Serving
<1>1. SUFFICES ASSUME qic = Q!NewQic, link = L!NewLink PROVE Serving
  OBVIOUS
<1>2. Held(qic).at = "Idle" /\ link.q2d = None /\ link.d2q = None
  BY <1>1, MadeStates DEF Held, Q!NewQic, L!NewLink
<1>3. QED
  BY <1>2 DEF Serving, InBurst, ForBus, OnLink, WordOnTheLink

(* ServedInv is inductive on NotifyInv, WholeInv and AnswersInv: while the chip has not been
   stopped, and the QIC repeats no word, the chip waits for the burst the QIC has and for what the link
   has of it. *)
THEOREM ServedInvariant == Spec => []ServedInv
<1>1. Init => ServedInv
  BY NewServing DEF Init, ServedInv
<1>2. NotifyInv /\ WholeInv /\ AnswersInv /\ ServedInv /\ [Next]_cardVars => ServedInv'
  <2>1. SUFFICES ASSUME NotifyInv, WholeInv, AnswersInv, ServedInv, [Next]_cardVars,
                        ~seen'.stopped, ~seen'.repeats
                 PROVE  Serving'
    BY DEF ServedInv
  <2>2. CASE CardClock
    BY <2>1, <2>2, ServingKept
  <2>3. CASE BusReset
    <3>1. (qic = Q!NewQic /\ link = L!NewLink => Serving)'
      BY NewServing, PTL
    <3>2. QED
      BY <2>3, <3>1, BusResetIs
  <2>4. CASE DriverAccess
    <3>1. /\ qic' = qic /\ link' = link /\ qdx' = qdx
          /\ seen' = [seen EXCEPT !.applied = << >>] /\ SeenShape(seen)
      BY <2>1, <2>4 DEF DriverAccess, NotifyInv, RoomInv, ShapeInv
    <3>2. seen'.stopped = seen.stopped /\ seen'.repeats = seen.repeats
      BY <3>1 DEF SeenShape
    <3>3. QED
      BY <2>1, <3>1, <3>2 DEF ServedInv, Serving, WordOnTheLink
  <2>5. CASE UNCHANGED cardVars
    BY <2>1, <2>5 DEF cardVars, ServedInv, Serving, WordOnTheLink
  <2>6. QED
    BY <2>1, <2>2, <2>3, <2>4, <2>5 DEF Next
<1>3. QED
  BY <1>1, <1>2, NotifyInvariant, WholeInvariant, AnswersInvariant, PTL DEF Spec

(* What the link is about to deliver has a taker: for any sizes, any timing and faults of the
   host, any driver and resets at any time. *)
THEOREM DeliveryHasTakerProved == Spec => []DeliveryHasTaker
<1>1. WholeInv /\ ServedInv => DeliveryHasTaker
  <2>1. SUFFICES ASSUME WholeInv, Serving
                 PROVE  /\ WordOnTheLink => qdx.state = "SqReceive"
                        /\ OnLink(link.q2d, "DmaCompletion") /\ link.q2d.body.status = "Ok" =>
                             qdx.state \in Completing
    BY DEF ServedInv, DeliveryHasTaker, OnLink, Completing
  <2>2. OnLink(link.q2d, "DmaCompletion") =>
          link.q2d.body = Held(qic) /\ Held(qic).at = "DmaComplete"
    BY <2>1 DEF WholeInv, WordsOnLink
  <2>3. QED
    BY <2>1, <2>2 DEF Serving
<1>2. QED
  BY <1>1, WholeInvariant, ServedInvariant, PTL
=============================================================================
