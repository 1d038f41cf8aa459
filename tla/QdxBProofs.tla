------------------------------- MODULE QdxBProofs -------------------------------
(***************************************************************************)
(* Proofs about the block engine, for every size, every set of commands    *)
(* and burst lengths, and any contents of memory and so of the lists.      *)
(***************************************************************************)
EXTENDS QdxB, TLAPS, WellFoundedInduction

-----------------------------------------------------------------------------
(* Numbers.                                                                 *)

LEMMA Sizes ==
  /\ \A x \in Windows : x \in Nat
  /\ 0 \in Windows
  /\ OffsetSpace \in Nat /\ OffsetSpace > 0 /\ OffsetSpace % 4 = 0
  /\ \A n \in Bursts : n \in Nat /\ n > 0
  /\ 1 \in Bursts
  /\ MaxSg \in Nat /\ Blocks \in Nat /\ PayloadWords \in Nat
  /\ ReportWords \in 1 .. PayloadWords /\ 4 * PayloadWords < OffsetSpace
  BY QdxBConstants DEF WordBytes

LEMMA Division ==
  ASSUME NEW x \in Nat
  PROVE  x \div 4 \in Nat /\ x % 4 \in 0 .. 3 /\ x = 4 * (x \div 4) + (x % 4)
  BY Z3

LEMMA SumOfWords ==
  ASSUME NEW x \in Nat, NEW k \in Nat, x % 4 = 0
  PROVE  (x + 4 * k) % 4 = 0 /\ (x + 4 * k) \div 4 = (x \div 4) + k
  BY Z3

LEMMA LeastNumber ==
  ASSUME NEW T, T \subseteq Nat, T # {}
  PROVE  \E x \in T : \A y \in T : x <= y
<1> DEFINE R == {p \in Nat \X Nat : p[1] < p[2]}
<1>1. IsWellFoundedOn(R, Nat)
  BY NatLessThanWellFounded DEF OpToRel
<1>2. PICK x \in T : \A y \in T : ~ (<<y, x>> \in R)
  BY <1>1, WFMin
<1>3. ASSUME NEW y \in T PROVE x <= y
  <2>1. <<y, x>> \in Nat \X Nat /\ <<y, x>>[1] = y /\ <<y, x>>[2] = x
    OBVIOUS
  <2>2. ~ (y < x)
    BY <1>2, <2>1
  <2>3. QED
    BY <2>2
<1>4. QED
  BY <1>3

LEMMA MinIs ==
  ASSUME NEW T, T \subseteq Nat, T # {}
  PROVE  Min(T) \in T /\ \A y \in T : Min(T) =< y
<1>1. PICK x \in T : \A y \in T : x =< y
  BY LeastNumber
<1>2. QED
  BY <1>1, Zenon DEF Min

LEMMA MaxIs ==
  ASSUME NEW n \in Nat, NEW T, T \subseteq 0 .. n, T # {}
  PROVE  Max(T) \in T
<1> DEFINE U == {u \in 0 .. n : n - u \in T}
<1>1. U \subseteq Nat /\ U # {}
  <2>1. PICK t \in T : TRUE
    OBVIOUS
  <2>2. n - t \in U
    <3>1. t \in 0 .. n
      BY <2>1
    <3>2. n - (n - t) = t /\ n - t \in 0 .. n
      BY <3>1
    <3>3. QED
      BY <3>2
  <2>3. QED
    BY <2>2
<1>2. PICK u \in U : \A v \in U : u <= v
  BY <1>1, LeastNumber
<1>3. n - u \in T
  OBVIOUS
<1>4. ASSUME NEW y \in T PROVE n - u >= y
  <2>1. y \in 0 .. n /\ n - y \in 0 .. n /\ n - (n - y) = y
    OBVIOUS
  <2>2. n - y \in U
    BY <2>1
  <2>3. u <= n - y /\ u \in 0 .. n
    BY <1>2, <2>2
  <2>4. QED
    BY <2>1, <2>3
<1>5. QED
  BY <1>3, <1>4, Zenon DEF Max

\* The burst chosen is legal and not longer than what is left.
LEMMA ChooseBurstIs ==
  ASSUME NEW w \in Nat \ {0}
  PROVE  ChooseBurst(w) \in Bursts /\ ChooseBurst(w) \in 1 .. w
<1> DEFINE T == {n \in Bursts : n <= w}
<1>1. 1 \in Bursts /\ w \in Nat /\ w > 0 /\ \A n \in Bursts : n \in Nat /\ n > 0
  BY Sizes
<1>2. ASSUME NEW n \in T PROVE n \in 0 .. w
  BY <1>1, <1>2
<1>3. T \subseteq 0 .. w /\ 1 \in T
  BY <1>1, <1>2
<1>4. Max(T) \in T
  BY <1>3, MaxIs
<1>5. ChooseBurst(w) = Max(T)
  BY DEF ChooseBurst
<1> HIDE DEF T
<1>6. ChooseBurst(w) \in T
  BY <1>4, <1>5
<1>7. QED
  BY <1>1, <1>6 DEF T

-----------------------------------------------------------------------------
(* Handles.                                                                 *)

\* n words beginning k words into a checked range stay in it, and so in the window.
LEMMA StaysInRange ==
  ASSUME NEW h \in Word, NEW bytes \in Nat, HandleRangeOk(h, bytes),
         NEW k \in Nat, NEW n \in Nat \ {0}, (k + n) * WordBytes <= bytes
  PROVE  LET a == HandleAdd(h, k * WordBytes)
         IN  /\ a \in Word
             /\ a.offset % WordBytes = 0 /\ a.offset + n * WordBytes <= OffsetSpace
<1> DEFINE a == HandleAdd(h, k * WordBytes)
<1>1. h.offset \in Nat /\ h.window \in Windows /\ OffsetSpace \in Nat
      /\ h.offset % 4 = 0 /\ bytes <= OffsetSpace /\ h.offset <= OffsetSpace - bytes
  BY Sizes DEF Word, HandleRangeOk, WordBytes
<1>2. a = [window |-> h.window, offset |-> h.offset + 4 * k]
  BY DEF HandleAdd, Word, WordBytes
<1>3. /\ h.offset + 4 * k \in Nat /\ (h.offset + 4 * k) % 4 = 0
      /\ h.offset + 4 * k + 4 * n <= OffsetSpace
  BY <1>1, SumOfWords DEF WordBytes
<1> HIDE DEF a
<1>4. a \in Word
  BY <1>1, <1>2, <1>3 DEF Word
<1>5. QED
  BY <1>1, <1>2, <1>3, <1>4 DEF a, WordBytes

\* The words of a burst in a window are places of memory.
LEMMA PlacesOfBurst ==
  ASSUME NEW a \in Word, NEW n \in Nat, NEW m \in Nat, m < n,
         a.offset % WordBytes = 0, a.offset + n * WordBytes <= OffsetSpace
  PROVE  <<a.window, (a.offset \div WordBytes) + m>> \in Places
<1> DEFINE q == a.offset \div 4
           s == OffsetSpace \div 4
<1>1. a.offset \in Nat /\ a.window \in Windows /\ OffsetSpace \in Nat /\ OffsetSpace % 4 = 0
  BY Sizes DEF Word, WordBytes
<1>2. q \in Nat /\ a.offset = 4 * q /\ s \in Nat /\ OffsetSpace = 4 * s
  BY <1>1, Division DEF WordBytes
<1> HIDE DEF q, s
<1>3. q + m \in 0 .. s - 1
  BY <1>2 DEF WordBytes
<1>4. QED
  BY <1>1, <1>3 DEF Places, WordBytes, q, s

LEMMA LengthIs ==
  ASSUME NEW w \in Word
  PROVE  Length(w) \in Nat
<1>1. w.window \in Nat /\ w.offset \in Nat /\ OffsetSpace \in Nat
  BY Sizes DEF Word
<1>2. w.window * OffsetSpace \in Nat
  BY <1>1, Z3
<1>3. QED
  BY <1>1, <1>2 DEF Length

\* A segment that passed validation has whole words.
LEMMA SegmentIs ==
  ASSUME NEW e \in Endpoint, e.command \in Commands, e.command.sgCount <= MaxSg,
         NEW i \in 0 .. e.command.sgCount - 1
  PROVE  /\ i \in 0 .. MaxSg - 1 /\ e.sg[i].address \in Word /\ e.sg[i].length \in Word
         /\ Length(e.sg[i].length) \in Nat /\ SegmentWords(e, i) \in Nat
         /\ ValidEntries(e) =>
              /\ HandleRangeOk(e.sg[i].address, Length(e.sg[i].length))
              /\ Length(e.sg[i].length) = SegmentWords(e, i) * WordBytes
<1>1. e.command.sgCount \in Nat /\ MaxSg \in Nat
  BY QdxBConstants, Sizes DEF Command
<1>2. i \in 0 .. MaxSg - 1
  BY <1>1
<1>3. e.sg[i].address \in Word /\ e.sg[i].length \in Word
  BY <1>2 DEF Endpoint, Lists
<1>4. Length(e.sg[i].length) \in Nat
  BY <1>3, LengthIs
<1> DEFINE l == Length(e.sg[i].length)
<1>5. SegmentWords(e, i) = l \div 4 /\ (ValidEntries(e) => l % 4 = 0)
  BY DEF SegmentWords, ValidEntries, WordBytes
<1> HIDE DEF l
<1>6. l \div 4 \in Nat /\ (l % 4 = 0 => l = (l \div 4) * 4)
  BY <1>4, Division DEF l
<1>7. QED
  BY <1>2, <1>3, <1>4, <1>5, <1>6 DEF l, WordBytes, ValidEntries

-----------------------------------------------------------------------------
(* The engine's methods.                                                    *)

LEMMA CommandIs ==
  ASSUME NEW c \in Commands
  PROVE  /\ c # None /\ c.tag \in Nat /\ c.blocks \in Nat /\ c.sgCount \in Nat
         /\ c.data \in Word /\ c.sg \in Word /\ c.lba \in Nat /\ c.namespace \in Nat
  BY QdxBConstants DEF Command

\* The names of states, phases and kinds.
LEMMA Constants ==
  /\ "Idle" \in States /\ "FetchSg" \in States /\ "Transfer" \in States
  /\ "MediaCommit" \in States /\ "Complete" \in States
  /\ "Idle" \in Phases /\ "Request" \in Phases /\ "Transfer" \in Phases
  /\ "Completion" \in Phases
  /\ "None" \in Kinds /\ "SgAddress" \in Kinds /\ "SgLength" \in Kinds
  /\ "Payload" \in Kinds
  BY DEF States, Phases, Kinds

LEMMA FinishIs ==
  ASSUME NEW e \in Endpoint, e.command \in Commands,
         NEW status \in Statuses, NEW blocks \in Nat, NEW durable \in BOOLEAN
  PROVE  LET r == Finish(e, status, blocks, durable)
         IN  EndpointInv(r) /\ r.state = "Complete"
<1> DEFINE done == [tag |-> e.command.tag, status |-> status, durable |-> durable, blocks |-> blocks]
           r == Finish(e, status, blocks, durable)
<1>1. done \in Completion /\ done # None
  <2>1. done \in Completion
    BY CommandIs DEF Completion
  <2>2. QED
    BY <2>1, NoneIsNothing
<1>2. r = [e EXCEPT !.completion = done, !.dma = "Idle", !.req = None, !.state = "Complete"]
  BY DEF Finish
<1> HIDE DEF done, r
<1>3. /\ r \in Endpoint /\ r.state = "Complete" /\ r.completion = done /\ r.req = None
      /\ r.dma = "Idle" /\ r.command = e.command
  BY <1>1, <1>2, Constants DEF Endpoint
<1>4. r.command # None
  BY <1>3, CommandIs
<1>5. QED
  BY <1>1, <1>3, <1>4 DEF EndpointInv, Shape, r

\* A burst is asked for where it may be.
LEMMA RequestIs ==
  ASSUME NEW e \in Endpoint, e.command \in Commands, e.completion = None,
         NEW kind \in {"SgAddress", "SgLength", "Payload"}, NEW direction \in Directions,
         NEW address \in Word, NEW n \in Nat \ {0}, e.state \in {"FetchSg", "Transfer"}
  PROVE  LET r == Request(e, kind, direction, address, n)
         IN  /\ r \in Endpoint /\ Shape(r)
             /\ r.req = [direction |-> direction, address |-> address, words |-> n]
             /\ r.kind = kind /\ r.state = e.state /\ r.command = e.command /\ r.sg = e.sg
             /\ r.sgEntry = e.sgEntry /\ r.sgPart = e.sgPart /\ r.words = e.words
             /\ r.index = e.index /\ r.segment = e.segment /\ r.offset = e.offset
<1> DEFINE b == [direction |-> direction, address |-> address, words |-> n]
           r == Request(e, kind, direction, address, n)
<1>1. b \in BurstRequest /\ b # None /\ b.words = n
  <2>1. b \in BurstRequest
    BY DEF BurstRequest
  <2>2. QED
    BY <2>1, NoneIsNothing
<1> DEFINE half == [e EXCEPT !.req = b, !.kind = kind]
<1>2. r = [half EXCEPT !.moved = 0, !.dma = "Request"] /\ kind \in Kinds
  BY Constants DEF Request
<1> HIDE DEF b, r
<1>3. /\ half \in Endpoint /\ half.req = b /\ half.kind = kind
      /\ half.state = e.state /\ half.command = e.command /\ half.sg = e.sg
      /\ half.sgEntry = e.sgEntry /\ half.sgPart = e.sgPart /\ half.words = e.words
      /\ half.index = e.index /\ half.segment = e.segment /\ half.offset = e.offset
      /\ half.completion = e.completion
  BY <1>1, <1>2 DEF Endpoint
<1> HIDE DEF half
<1>4. /\ r \in Endpoint /\ r.moved = 0 /\ r.dma = "Request"
      /\ r.req = half.req /\ r.kind = half.kind
      /\ r.state = half.state /\ r.command = half.command /\ r.sg = half.sg
      /\ r.sgEntry = half.sgEntry /\ r.sgPart = half.sgPart /\ r.words = half.words
      /\ r.index = half.index /\ r.segment = half.segment /\ r.offset = half.offset
      /\ r.completion = half.completion
  BY <1>2, <1>3, Constants DEF Endpoint
<1>5. /\ r \in Endpoint /\ r.req = b /\ r.kind = kind /\ r.moved = 0 /\ r.dma = "Request"
      /\ r.state = e.state /\ r.command = e.command /\ r.sg = e.sg
      /\ r.sgEntry = e.sgEntry /\ r.sgPart = e.sgPart /\ r.words = e.words
      /\ r.index = e.index /\ r.segment = e.segment /\ r.offset = e.offset
      /\ r.completion = e.completion
  BY <1>3, <1>4
<1>6. r.command # None
  BY <1>5, CommandIs
<1>7. Shape(r)
  BY <1>1, <1>5, <1>6 DEF Shape
<1>8. QED
  BY <1>5, <1>7 DEF r, b

\* The next word of the list is inside the range the command was validated for.
LEMMA StartSgWordIs ==
  ASSUME NEW e \in Endpoint, e.completion = None, e.state = "FetchSg", e.index = 0,
         Moves(e.command), e.sgEntry < e.command.sgCount
  PROVE  EndpointInv(StartSgWordDma(e))
<1> DEFINE k == e.sgEntry * 2 + e.sgPart
           address == HandleAdd(e.command.sg, k * WordBytes)
           kind == IF e.sgPart = 0 THEN "SgAddress" ELSE "SgLength"
           r == StartSgWordDma(e)
<1>1. e.command \in Commands /\ e.command.sgCount \in Nat /\ e.command.sg \in Word
  BY CommandIs DEF Moves
<1>2. e.sgEntry \in Nat /\ e.sgPart \in {0, 1} /\ k \in Nat
  BY DEF Endpoint
<1> DEFINE bytes == e.command.sgCount * 2 * WordBytes
<1>3. HandleRangeOk(e.command.sg, bytes)
  BY <1>1, <1>2 DEF Moves, ValidBuffer
<1>4. (k + 1) * WordBytes <= bytes /\ bytes \in Nat
  BY <1>1, <1>2 DEF WordBytes
<1> HIDE DEF k, bytes
<1>5. address \in Word
  <2>1. 1 \in Nat \ {0}
    OBVIOUS
  <2>2. QED
    BY <1>1, <1>2, <1>3, <1>4, <2>1, StaysInRange
<1>6. kind \in {"SgAddress", "SgLength", "Payload"} /\ "HostToDevice" \in Directions
  BY DEF Directions
<1>7. r = Request(e, kind, "HostToDevice", address, 1)
  BY DEF StartSgWordDma, k
<1> HIDE DEF address, kind, r
<1>8. /\ r \in Endpoint /\ Shape(r) /\ r.kind = kind /\ r.state = "FetchSg"
      /\ r.req = [direction |-> "HostToDevice", address |-> address, words |-> 1]
      /\ r.command = e.command /\ r.sgEntry = e.sgEntry /\ r.sgPart = e.sgPart
      /\ r.index = e.index
  <2>1. e.command \in Commands /\ 1 \in Nat \ {0} /\ e.state \in {"FetchSg", "Transfer"}
    BY <1>1
  <2>2. QED
    BY <1>5, <1>6, <1>7, <2>1, RequestIs
<1>9. ListBurst(r)
  BY <1>8 DEF ListBurst, address, kind, k
<1>10. QED
  BY <1>8, <1>9 DEF EndpointInv, r

LEMMA PayloadDoneIs ==
  ASSUME NEW e \in Endpoint, e.completion = None, Moves(e.command)
  PROVE  EndpointInv(PayloadDone(e))
<1> DEFINE idle == [e EXCEPT !.dma = "Idle", !.req = None]
           r == PayloadDone(e)
<1>1. /\ idle \in Endpoint /\ idle.command = e.command /\ e.command \in Commands
      /\ idle.completion = None /\ idle.dma = "Idle" /\ idle.req = None
  BY Constants DEF Endpoint, Moves
<1>2. CASE e.command.opcode \in Writes
  <2>1. r = [idle EXCEPT !.state = "MediaCommit"]
    BY <1>2 DEF PayloadDone
  <2> HIDE DEF idle, r
  <2>2. /\ r \in Endpoint /\ r.command = e.command /\ r.completion = None
        /\ r.dma = "Idle" /\ r.req = None /\ r.state = "MediaCommit"
    BY <1>1, <2>1, Constants DEF Endpoint
  <2>3. r.command # None
    BY <1>1, <2>2, CommandIs
  <2>4. QED
    BY <1>2, <2>2, <2>3 DEF EndpointInv, Shape, r
<1>3. CASE e.command.opcode \notin Writes
  <2> DEFINE blocks == IF e.command.opcode = "Read" THEN e.command.blocks ELSE 0
  <2>1. r = Finish(idle, "Success", blocks, FALSE)
    BY <1>1, <1>3 DEF PayloadDone
  <2>2. blocks \in Nat /\ "Success" \in Statuses
    BY <1>1, CommandIs DEF Statuses
  <2> HIDE DEF idle, blocks
  <2>3. QED
    BY <1>1, <2>1, <2>2, FinishIs
<1>4. QED
  BY <1>2, <1>3

-----------------------------------------------------------------------------
(* The payload.                                                             *)

\* What a command that moves data has, and how far its transfer is.
LEMMA UnderwayIs ==
  ASSUME NEW e \in Endpoint, Underway(e)
  PROVE  /\ e.command \in Commands /\ e.command.sgCount \in Nat /\ e.command.data \in Word
         /\ e.command.sgCount <= MaxSg
         /\ e.words \in Nat /\ e.index \in Nat /\ e.index <= e.words /\ e.offset \in Nat
         /\ e.segment \in Nat /\ e.words * WordBytes \in Nat
         /\ e.command.sgCount = 0 => HandleRangeOk(e.command.data, e.words * WordBytes)
<1>1. e.command \in Commands
  BY DEF Underway, Moves
<1>2. e.words \in Nat
  BY Sizes DEF Endpoint
<1>3. QED
  BY <1>1, <1>2, CommandIs DEF Underway, Moves, ValidBuffer, Endpoint, WordBytes

\* Without a list the next burst goes on in the buffer.
LEMMA DirectBurstIs ==
  ASSUME NEW e \in Endpoint, e.completion = None, e.state = "Transfer", Underway(e),
         NEW direction \in Directions, e.index < e.words, e.command.sgCount = 0
  PROVE  EndpointInv(Request(e, "Payload", direction,
                             HandleAdd(e.command.data, e.index * WordBytes),
                             ChooseBurst(e.words - e.index)))
<1> DEFINE n == ChooseBurst(e.words - e.index)
           address == HandleAdd(e.command.data, e.index * WordBytes)
           bytes == e.words * WordBytes
           kind == "Payload"
           r == Request(e, kind, direction, address, n)
<1>1. /\ e.command \in Commands /\ e.words \in Nat /\ e.index \in Nat
      /\ HandleRangeOk(e.command.data, bytes) /\ bytes \in Nat /\ e.command.data \in Word
  BY UnderwayIs
<1>2. e.words - e.index \in Nat \ {0}
  BY <1>1
<1>3. n \in Bursts /\ n \in 1 .. (e.words - e.index)
  BY <1>2, ChooseBurstIs
<1> HIDE DEF n
<1>4. n \in Nat \ {0} /\ e.index + n <= e.words /\ (e.index + n) * WordBytes <= bytes
  BY <1>1, <1>3 DEF WordBytes
<1> HIDE DEF bytes
<1>5. address \in Word
  BY <1>1, <1>4, StaysInRange
<1>6. kind \in {"SgAddress", "SgLength", "Payload"} /\ e.state \in {"FetchSg", "Transfer"}
  OBVIOUS
<1> HIDE DEF address, kind, r
<1>7. /\ r \in Endpoint /\ Shape(r) /\ r.kind = kind /\ r.state = e.state
      /\ r.req = [direction |-> direction, address |-> address, words |-> n]
      /\ r.command = e.command /\ r.sg = e.sg /\ r.words = e.words /\ r.index = e.index
  BY <1>1, <1>4, <1>5, <1>6, RequestIs DEF r
<1>8. Underway(r)
  BY <1>7 DEF Underway, ValidEntries
<1>9. PayloadBurst(r)
  BY <1>3, <1>4, <1>7, <1>8 DEF PayloadBurst, address, kind
<1>10. QED
  BY <1>7, <1>9 DEF EndpointInv, r, n, address, kind

\* With a list it goes on in the present segment, and not beyond it.
LEMMA SegmentBurstIs ==
  ASSUME NEW e \in Endpoint, e.completion = None, e.state = "Transfer", Underway(e),
         NEW direction \in Directions, e.index < e.words,
         e.segment < e.command.sgCount, e.offset < SegmentWords(e, e.segment)
  PROVE  EndpointInv(SegmentBurst(e, direction))
<1> DEFINE left == {e.words - e.index, SegmentWords(e, e.segment) - e.offset}
           m == Min(left)
           n == ChooseBurst(m)
           h == e.sg[e.segment].address
           bytes == Length(e.sg[e.segment].length)
           address == HandleAdd(h, e.offset * WordBytes)
           kind == "Payload"
           r == SegmentBurst(e, direction)
<1>1. /\ e.command \in Commands /\ e.words \in Nat /\ e.index \in Nat /\ e.offset \in Nat
      /\ e.segment \in Nat /\ e.command.sgCount \in Nat /\ e.command.sgCount <= MaxSg
  BY UnderwayIs
<1>2. e.command.sgCount > 0 /\ e.segment \in 0 .. e.command.sgCount - 1
  BY <1>1
<1>3. ValidEntries(e)
  BY <1>2 DEF Underway
<1>4. /\ h \in Word /\ bytes \in Nat /\ HandleRangeOk(h, bytes)
      /\ SegmentWords(e, e.segment) \in Nat /\ bytes = SegmentWords(e, e.segment) * WordBytes
  BY <1>1, <1>2, <1>3, SegmentIs
<1>5. m \in left /\ \A x \in left : m =< x
  <2>1. left \subseteq Nat /\ left # {}
    BY <1>1, <1>4
  <2>2. QED
    BY <2>1, MinIs
<1>6. /\ e.words - e.index \in Nat \ {0}
      /\ SegmentWords(e, e.segment) - e.offset \in Nat \ {0}
  BY <1>1, <1>4
<1>7. m \in Nat \ {0} /\ m <= e.words - e.index /\ m <= SegmentWords(e, e.segment) - e.offset
  <2> HIDE DEF m
  <2>1. QED
    BY <1>5, <1>6
<1> HIDE DEF m
<1>8. n \in Bursts /\ n \in 1 .. m
  BY <1>7, ChooseBurstIs
<1> HIDE DEF n
<1>9. /\ n \in Nat \ {0} /\ e.index + n <= e.words
      /\ e.offset + n <= SegmentWords(e, e.segment)
      /\ (e.offset + n) * WordBytes <= bytes
  BY <1>1, <1>4, <1>7, <1>8 DEF WordBytes
<1>10. r = Request(e, kind, direction, address, n)
  BY DEF SegmentBurst, n, m
<1> HIDE DEF bytes, h
<1>11. address \in Word
  BY <1>1, <1>4, <1>9, StaysInRange
<1>12. kind \in {"SgAddress", "SgLength", "Payload"} /\ e.state \in {"FetchSg", "Transfer"}
  OBVIOUS
<1> HIDE DEF address, kind, r
<1>13. /\ r \in Endpoint /\ Shape(r) /\ r.kind = kind /\ r.state = e.state
       /\ r.req = [direction |-> direction, address |-> address, words |-> n]
       /\ r.command = e.command /\ r.sg = e.sg /\ r.words = e.words /\ r.index = e.index
       /\ r.segment = e.segment /\ r.offset = e.offset
  BY <1>1, <1>9, <1>10, <1>11, <1>12, RequestIs
<1>14. Underway(r) /\ SegmentWords(r, r.segment) = SegmentWords(e, e.segment)
  BY <1>13 DEF Underway, ValidEntries, SegmentWords
<1>15. PayloadBurst(r)
  BY <1>2, <1>8, <1>9, <1>13, <1>14 DEF PayloadBurst, address, kind, h
<1>16. QED
  BY <1>13, <1>15 DEF EndpointInv, r

\* The next segment with words left is where the walk over the list goes on.
LEMMA NextSegmentIs ==
  ASSUME NEW e \in Endpoint, Underway(e), e.command.sgCount > 0
  PROVE  LET r == NextSegment(e)
         IN  /\ r \in Endpoint /\ r.state = e.state /\ r.completion = e.completion
             /\ r.command = e.command /\ r.words = e.words /\ r.index = e.index
             /\ Underway(r)
             /\ \/ r.segment >= r.command.sgCount
                \/ /\ r.segment < r.command.sgCount
                   /\ r.offset < SegmentWords(r, r.segment)
<1> DEFINE left(i) == IF i = e.segment THEN e.offset ELSE 0
           open == {i \in e.segment .. e.command.sgCount - 1 : left(i) < SegmentWords(e, i)}
           next == IF open = {} THEN e.command.sgCount ELSE Min(open)
           offset == IF next = e.segment THEN e.offset ELSE 0
           r == NextSegment(e)
<1>1. e.segment \in Nat /\ e.command.sgCount \in Nat /\ e.offset \in Nat
  BY UnderwayIs
<1>2. /\ next \in Nat
      /\ \/ next >= e.command.sgCount
         \/ next < e.command.sgCount /\ left(next) < SegmentWords(e, next)
  <2>1. CASE open = {}
    BY <1>1, <2>1
  <2>2. CASE open # {}
    <3>1. open \subseteq Nat
      BY <1>1
    <3>2. next \in open
      BY <2>2, <3>1, MinIs
    <3> HIDE DEF next
    <3>3. /\ next \in e.segment .. e.command.sgCount - 1
          /\ left(next) < SegmentWords(e, next)
      BY <3>2
    <3>4. QED
      BY <1>1, <3>3
  <2>3. QED
    BY <2>1, <2>2
<1>3. r = [e EXCEPT !.segment = next, !.offset = offset]
  BY DEF NextSegment, Endpoint
<1>4. offset = left(next) /\ offset \in Nat
  BY <1>1
<1> HIDE DEF next, offset, r
<1>5. /\ r \in Endpoint /\ r.state = e.state /\ r.completion = e.completion
      /\ r.command = e.command /\ r.words = e.words /\ r.index = e.index /\ r.sg = e.sg
      /\ r.segment = next /\ r.offset = offset
  BY <1>2, <1>3, <1>4 DEF Endpoint
<1>6. Underway(r) /\ SegmentWords(r, next) = SegmentWords(e, next)
  BY <1>5 DEF Underway, ValidEntries, SegmentWords
<1>7. \/ r.segment >= r.command.sgCount
      \/ r.segment < r.command.sgCount /\ r.offset < SegmentWords(r, r.segment)
  BY <1>2, <1>4, <1>5, <1>6
<1>8. QED
  BY <1>5, <1>6, <1>7 DEF r

LEMMA StartPayloadIs ==
  ASSUME NEW e \in Endpoint, e.completion = None, e.state = "Transfer", Underway(e),
         NEW direction \in Directions
  PROVE  EndpointInv(StartPayloadDma(e, direction))
<1>1. /\ e.command \in Commands /\ Moves(e.command) /\ e.command.sgCount \in Nat
      /\ e.words \in Nat /\ e.index \in Nat
  BY UnderwayIs DEF Underway
<1>2. CASE e.index >= e.words
  BY <1>1, <1>2, PayloadDoneIs DEF StartPayloadDma
<1>3. CASE ~(e.index >= e.words) /\ e.command.sgCount = 0
  <2>1. e.index < e.words
    BY <1>1, <1>3
  <2>2. QED
    BY <1>3, <2>1, DirectBurstIs DEF StartPayloadDma
<1>4. CASE ~(e.index >= e.words) /\ e.command.sgCount # 0
  <2> DEFINE there == NextSegment(e)
             r == StartPayloadDma(e, direction)
  <2>1. e.index < e.words /\ e.command.sgCount > 0
    BY <1>1, <1>4
  <2>2. r = IF there.segment >= e.command.sgCount THEN Finish(there, "InvalidField", 0, FALSE)
            ELSE SegmentBurst(there, direction)
    BY <1>4 DEF StartPayloadDma
  <2>3. /\ there \in Endpoint /\ there.state = "Transfer" /\ there.completion = None
        /\ there.command = e.command /\ there.words = e.words /\ there.index = e.index
        /\ Underway(there)
        /\ \/ there.segment >= there.command.sgCount
           \/ /\ there.segment < there.command.sgCount
              /\ there.offset < SegmentWords(there, there.segment)
    BY <2>1, NextSegmentIs
  <2> HIDE DEF there, r
  <2>4. CASE there.segment >= e.command.sgCount
    <3>1. "InvalidField" \in Statuses /\ 0 \in Nat /\ FALSE \in BOOLEAN
      BY DEF Statuses
    <3>2. EndpointInv(Finish(there, "InvalidField", 0, FALSE))
      BY <1>1, <2>3, <3>1, FinishIs
    <3>3. QED
      BY <2>2, <2>4, <3>2 DEF r
  <2>5. CASE ~(there.segment >= e.command.sgCount)
    <3>1. there.segment < there.command.sgCount
          /\ there.offset < SegmentWords(there, there.segment)
      BY <2>3, <2>5
    <3>2. EndpointInv(SegmentBurst(there, direction))
      BY <2>1, <2>3, <3>1, SegmentBurstIs
    <3>3. QED
      BY <2>2, <2>5, <3>2 DEF r
  <2>6. QED
    BY <2>4, <2>5
<1>5. QED
  BY <1>2, <1>3, <1>4

-----------------------------------------------------------------------------
(* What is staged.                                                          *)

LEMMA NamespaceIs ==
  /\ Namespaces = {1, 2}
  /\ \A ns \in Namespaces : BlockWords[ns] \in 1 .. PayloadWords
  BY QdxBConstants DEF Namespaces

LEMMA ZeroIs ==
  /\ Zero \in Word /\ NoPayload \in Staging
  /\ \A k \in 0 .. OffsetSpace - 1 : [Zero EXCEPT !.offset = k] \in Word
<1>1. 0 \in Windows /\ 0 \in 0 .. OffsetSpace - 1
  BY Sizes
<1>2. Zero \in Word
  BY <1>1 DEF Zero, Word
<1>3. QED
  BY <1>2 DEF NoPayload, Staging, Word

LEMMA ReportIs ==
  ASSUME NEW c \in Commands, c.opcode = "IdentifyNamespace" => c.namespace \in Namespaces
  PROVE  Report(c) \in Staging
<1> DEFINE word(k) ==
      CASE c.opcode = "IdentifyNamespace" /\ k = 0 -> [Zero EXCEPT !.offset = c.namespace]
        [] c.opcode = "IdentifyNamespace" /\ k = 1 ->
             [Zero EXCEPT !.offset = BlockWords[c.namespace] * WordBytes]
        [] c.opcode = "GetHealth" /\ k = 0         -> [Zero EXCEPT !.offset = 1]
        [] OTHER -> Zero
<1>1. 1 \in 0 .. OffsetSpace - 1 /\ 2 \in 0 .. OffsetSpace - 1
  BY Sizes
<1>2. ASSUME c.opcode = "IdentifyNamespace"
      PROVE  /\ c.namespace \in 0 .. OffsetSpace - 1
             /\ BlockWords[c.namespace] * WordBytes \in 0 .. OffsetSpace - 1
  <2>1. c.namespace \in {1, 2} /\ BlockWords[c.namespace] \in 1 .. PayloadWords
    BY <1>2, NamespaceIs
  <2>2. QED
    BY <1>1, <2>1, Sizes DEF WordBytes
<1>3. ASSUME NEW k PROVE word(k) \in Word
  BY <1>1, <1>2, ZeroIs
<1>4. Report(c) = [k \in 0 .. PayloadWords - 1 |-> word(k)]
  BY DEF Report
<1> HIDE DEF word
<1>5. QED
  BY <1>3, <1>4 DEF Staging

LEMMA StagedIs ==
  ASSUME NEW ns \in Namespaces, NEW block \in Block(ns)
  PROVE  Staged(block) \in Staging
<1>1. \A k \in DOMAIN block : block[k] \in Word
  BY DEF Block
<1>2. QED
  BY <1>1, ZeroIs DEF Staged, Staging

Transfer(e, payload, words, direction) ==
  StartPayloadDma([e EXCEPT !.payload = payload, !.words = words, !.state = "Transfer"], direction)

\* The transfer of a command begins at the first word of its buffer.
LEMMA TransferIs ==
  ASSUME NEW e \in Endpoint, Moves(e.command), e.index = 0, e.completion = None,
         e.command.sgCount > 0 => ValidEntries(e),
         NEW payload \in Staging, NEW words \in 0 .. PayloadWords,
         words * WordBytes = TransferBytes(e.command), NEW direction \in Directions
  PROVE  EndpointInv(Transfer(e, payload, words, direction))
<1> DEFINE t == [e EXCEPT !.payload = payload, !.words = words, !.state = "Transfer"]
<1>1. /\ t \in Endpoint /\ t.state = "Transfer" /\ t.words = words /\ t.completion = None
      /\ t.command = e.command /\ t.index = 0 /\ t.sg = e.sg
  BY Constants DEF Endpoint
<1> HIDE DEF t
<1>2. words >= 0
  BY Sizes
<1>3. Underway(t)
  BY <1>1, <1>2 DEF Underway, ValidEntries
<1>4. EndpointInv(StartPayloadDma(t, direction))
  BY <1>1, <1>3, StartPayloadIs
<1>5. QED
  BY <1>4 DEF t, Transfer

LEMMA StartOperationIs ==
  ASSUME NEW e \in Endpoint, Moves(e.command), e.index = 0, e.completion = None,
         e.command.sgCount > 0 => ValidEntries(e), NEW m, WholeMedia(m), NEW works \in BOOLEAN
  PROVE  EndpointInv(StartOperation(e, m, works))
<1> DEFINE c == e.command
           r == StartOperation(e, m, works)
<1>1. c \in Commands /\ "HostToDevice" \in Directions /\ "DeviceToHost" \in Directions
  BY DEF Moves, Directions
<1>2. ASSUME c.opcode \notin Reports
      PROVE  /\ <<c.namespace, c.lba>> \in Extents /\ c.namespace \in Namespaces
             /\ BlockWords[c.namespace] \in 0 .. PayloadWords
             /\ BlockWords[c.namespace] * WordBytes = TransferBytes(c)
  <2>1. c.namespace \in Namespaces /\ <<c.namespace, c.lba>> \in Extents
    BY <1>2 DEF Moves, Extents
  <2>2. BlockWords[c.namespace] \in 1 .. PayloadWords
    BY <2>1, NamespaceIs
  <2>3. QED
    BY <1>2, <2>1, <2>2, Sizes DEF TransferBytes, WordBytes
<1>3. CASE c.opcode \in Reports
  <2>1. ReportWords \in 0 .. PayloadWords /\ ReportWords * WordBytes = TransferBytes(c)
    BY <1>3, Sizes DEF TransferBytes, WordBytes
  <2>2. Report(c) \in Staging
    BY <1>1, ReportIs DEF Moves
  <2>3. r = Transfer(e, Report(c), ReportWords, "DeviceToHost")
    BY <1>3 DEF StartOperation, Transfer
  <2>5. EndpointInv(Transfer(e, Report(c), ReportWords, "DeviceToHost"))
    BY <1>1, <2>1, <2>2, TransferIs
  <2> HIDE DEF r
  <2>4. EndpointInv(r)
    BY <2>3, <2>5
  <2>6. QED
    BY <2>4 DEF r
<1>4. CASE c.opcode \notin Reports /\ c.opcode \in Writes
  <2>1. r = Transfer(e, NoPayload, BlockWords[c.namespace], "HostToDevice")
    BY <1>4 DEF StartOperation, Transfer
  <2>2. EndpointInv(Transfer(e, NoPayload, BlockWords[c.namespace], "HostToDevice"))
    BY <1>1, <1>2, <1>4, ZeroIs, TransferIs
  <2> HIDE DEF r
  <2>3. EndpointInv(r)
    BY <2>1, <2>2
  <2>4. QED
    BY <2>3 DEF r
<1>5. CASE c.opcode \notin Reports /\ c.opcode \notin Writes /\ works
  <2> DEFINE block == m.blocks[<<c.namespace, c.lba>>]
  <2>1. block \in Block(c.namespace) /\ c.namespace \in Namespaces
    BY <1>2, <1>5 DEF WholeMedia
  <2>2. Staged(block) \in Staging
    BY <2>1, StagedIs
  <2>3. r = Transfer(e, Staged(block), BlockWords[c.namespace], "DeviceToHost")
    BY <1>5 DEF StartOperation, Transfer
  <2>4. EndpointInv(Transfer(e, Staged(block), BlockWords[c.namespace], "DeviceToHost"))
    BY <1>1, <1>2, <1>5, <2>2, TransferIs
  <2> HIDE DEF r
  <2>5. EndpointInv(r)
    BY <2>3, <2>4
  <2>6. QED
    BY <2>5 DEF r
<1>6. CASE c.opcode \notin Reports /\ c.opcode \notin Writes /\ ~works
  <2> DEFINE bare == [e EXCEPT !.payload = NoPayload]
  <2>1. bare \in Endpoint /\ bare.command = c
    BY ZeroIs DEF Endpoint
  <2>2. r = Finish(bare, "MediaError", 0, FALSE)
    BY <1>6 DEF StartOperation
  <2>3. "MediaError" \in Statuses /\ 0 \in Nat /\ FALSE \in BOOLEAN
    BY DEF Statuses
  <2> HIDE DEF r, bare
  <2>4. EndpointInv(r)
    BY <1>1, <2>1, <2>2, <2>3, FinishIs
  <2>5. QED
    BY <2>4 DEF r
<1>7. QED
  BY <1>3, <1>4, <1>5, <1>6

\* Nothing is committed before a word has moved: a command's transfer is never empty.
LEMMA NotCommitted ==
  ASSUME NEW e \in Endpoint, NEW kind, NEW direction, NEW address, NEW words
  PROVE  Request(e, kind, direction, address, words).state = e.state
  BY DEF Endpoint, Request

LEMMA Refusals ==
  /\ "InvalidField" \in Statuses /\ "MediaError" \in Statuses /\ "DmaFault" \in Statuses
  /\ 0 \in Nat /\ FALSE \in BOOLEAN
  BY DEF Statuses

LEMMA PayloadNotCommitted ==
  ASSUME NEW e \in Endpoint, Underway(e), NEW direction, e.state = "Transfer", e.index < e.words
  PROVE  StartPayloadDma(e, direction).state # "MediaCommit"
<1> DEFINE there == NextSegment(e)
<1>1. ~(e.index >= e.words) /\ e.command.sgCount \in Nat
  BY UnderwayIs
<1>2. CASE e.command.sgCount = 0
  BY <1>1, <1>2, NotCommitted DEF StartPayloadDma
<1>3. CASE e.command.sgCount # 0
  <2>1. there \in Endpoint /\ there.state = "Transfer" /\ there.command \in Commands
    BY <1>1, <1>3, UnderwayIs, NextSegmentIs
  <2>2. StartPayloadDma(e, direction) =
          IF there.segment >= e.command.sgCount THEN Finish(there, "InvalidField", 0, FALSE)
          ELSE SegmentBurst(there, direction)
    BY <1>1, <1>3 DEF StartPayloadDma
  <2> HIDE DEF there
  <2>3. SegmentBurst(there, direction).state = "Transfer"
    BY <2>1, NotCommitted DEF SegmentBurst
  <2>4. Finish(there, "InvalidField", 0, FALSE).state = "Complete"
    BY <2>1, Refusals, FinishIs
  <2>5. QED
    BY <2>2, <2>3, <2>4
<1>4. QED
  BY <1>2, <1>3

LEMMA TransferNotCommitted ==
  ASSUME NEW e \in Endpoint, Moves(e.command), e.index = 0,
         e.command.sgCount > 0 => ValidEntries(e),
         NEW payload \in Staging, NEW words \in 1 .. PayloadWords,
         words * WordBytes = TransferBytes(e.command), NEW direction
  PROVE  Transfer(e, payload, words, direction).state # "MediaCommit"
<1> DEFINE t == [e EXCEPT !.payload = payload, !.words = words, !.state = "Transfer"]
<1>1. words \in Nat /\ words > 0 /\ words \in 0 .. PayloadWords
  BY Sizes
<1>2. /\ t \in Endpoint /\ t.state = "Transfer" /\ t.words = words
      /\ t.command = e.command /\ t.index = 0 /\ t.sg = e.sg
  BY <1>1, Constants DEF Endpoint
<1> HIDE DEF t
<1>3. Underway(t) /\ t.index < t.words
  BY <1>1, <1>2 DEF Underway, ValidEntries
<1>4. StartPayloadDma(t, direction).state # "MediaCommit"
  BY <1>2, <1>3, PayloadNotCommitted
<1>5. QED
  BY <1>4 DEF t, Transfer

LEMMA OperationNotCommitted ==
  ASSUME NEW e \in Endpoint, Moves(e.command), e.index = 0,
         e.command.sgCount > 0 => ValidEntries(e), NEW m, WholeMedia(m), NEW works \in BOOLEAN
  PROVE  StartOperation(e, m, works).state # "MediaCommit"
<1> DEFINE c == e.command
           r == StartOperation(e, m, works)
           words == IF c.opcode \in Reports THEN ReportWords ELSE BlockWords[c.namespace]
<1>1. c \in Commands /\ (c.opcode \notin Reports => c.namespace \in Namespaces
                           /\ <<c.namespace, c.lba>> \in Extents)
  BY DEF Moves, Extents
<1>2. words \in 1 .. PayloadWords /\ words * WordBytes = TransferBytes(c)
  <2>1. words \in 1 .. PayloadWords
    BY <1>1, NamespaceIs, Sizes
  <2>2. QED
    BY <2>1, Sizes DEF TransferBytes, WordBytes
<1> HIDE DEF words
<1>3. ASSUME NEW payload \in Staging, NEW direction
      PROVE  Transfer(e, payload, words, direction).state # "MediaCommit"
  BY <1>2, TransferNotCommitted
<1>4. CASE c.opcode \in Reports
  <2>1. Report(c) \in Staging
    BY <1>1, ReportIs DEF Moves
  <2>2. r = Transfer(e, Report(c), words, "DeviceToHost")
    BY <1>4 DEF StartOperation, Transfer, words
  <2> HIDE DEF r
  <2>3. r.state # "MediaCommit"
    BY <1>3, <2>1, <2>2
  <2>4. QED
    BY <2>3 DEF r
<1>5. CASE c.opcode \notin Reports /\ c.opcode \in Writes
  <2>1. r = Transfer(e, NoPayload, words, "HostToDevice")
    BY <1>5 DEF StartOperation, Transfer, words
  <2> HIDE DEF r
  <2>2. r.state # "MediaCommit"
    BY <1>3, <2>1, ZeroIs
  <2>3. QED
    BY <2>2 DEF r
<1>6. CASE c.opcode \notin Reports /\ c.opcode \notin Writes /\ works
  <2> DEFINE block == m.blocks[<<c.namespace, c.lba>>]
  <2>1. block \in Block(c.namespace) /\ c.namespace \in Namespaces
    BY <1>1, <1>6 DEF WholeMedia
  <2>2. Staged(block) \in Staging
    BY <2>1, StagedIs
  <2>3. r = Transfer(e, Staged(block), words, "DeviceToHost")
    BY <1>6 DEF StartOperation, Transfer, words
  <2> HIDE DEF r, block
  <2>4. r.state # "MediaCommit"
    BY <1>3, <2>2, <2>3
  <2>5. QED
    BY <2>4 DEF r
<1>7. CASE c.opcode \notin Reports /\ c.opcode \notin Writes /\ ~works
  <2> DEFINE bare == [e EXCEPT !.payload = NoPayload]
  <2>1. bare \in Endpoint /\ bare.command \in Commands
    BY <1>1, ZeroIs DEF Endpoint
  <2>2. r = Finish(bare, "MediaError", 0, FALSE)
    BY <1>7 DEF StartOperation
  <2> HIDE DEF r, bare
  <2>3. r.state = "Complete"
    BY <2>1, <2>2, Refusals, FinishIs
  <2>4. QED
    BY <2>3 DEF r
<1>8. QED
  BY <1>4, <1>5, <1>6, <1>7

-----------------------------------------------------------------------------
(* A command.                                                               *)

\* What passes validation and moves data has a block and a buffer for it.
LEMMA ValidateIs ==
  ASSUME NEW c \in Commands
  PROVE  /\ Validate(c) \in Statuses
         /\ (Validate(c) = "Success" /\ c.opcode \notin {"Nop", "Flush"}) => Moves(c)
<1>1. /\ c.opcode \in Opcodes /\ c.blocks \in Nat /\ c.lba \in Nat /\ c.sgCount \in Nat
      /\ MaxSg \in Nat /\ Blocks \in Nat /\ MaxTransfer \in Nat
  BY QdxBConstants DEF Command
<1>2. Validate(c) \in Statuses
  BY DEF Validate, Statuses
<1>3. ASSUME Validate(c) = "Success", c.opcode \notin {"Nop", "Flush"}
      PROVE  Moves(c)
  <2>1. c.sgCount <= MaxSg /\ c.opcode \notin {"IdentifyIntegrity", "Reserved"}
    BY <1>1, <1>3 DEF Validate
  <2>2. c.opcode \in Reports \cup Writes \cup {"Read"}
    BY <1>1, <1>3, <2>1 DEF Opcodes, Reports, Writes
  <2>3. CASE c.opcode = "IdentifyController"
    <3>1. ValidBuffer(c)
      BY <1>3, <2>1, <2>3 DEF Validate
    <3>2. QED
      BY <2>1, <2>2, <2>3, <3>1 DEF Moves, Reports
  <2>4. CASE c.opcode \in {"IdentifyNamespace", "GetHealth"}
    <3>1. ValidBuffer(c) /\ (c.opcode = "IdentifyNamespace" => c.namespace \in Namespaces)
      BY <1>3, <2>1, <2>4 DEF Validate, Reports
    <3>2. QED
      BY <2>1, <2>2, <2>4, <3>1 DEF Moves, Reports
  <2>5. CASE c.opcode \in Writes \cup {"Read"}
    <3>1. /\ c.opcode \notin Reports
          /\ c.opcode \notin {"IdentifyController", "IdentifyNamespace", "GetHealth"}
      BY <2>5 DEF Writes, Reports
    <3>2. c.namespace \in Namespaces
      BY <1>3, <2>1, <2>5, <3>1 DEF Validate
    <3>3. c.blocks \in 1 .. MaxTransfer /\ ~(c.lba + c.blocks > Blocks) /\ ValidBuffer(c)
      BY <1>3, <2>1, <2>5, <3>1, <3>2 DEF Validate
    <3>4. c.lba \in 0 .. Blocks - 1
      BY <1>1, <3>3
    <3>5. QED
      BY <2>1, <2>2, <3>1, <3>2, <3>3, <3>4 DEF Moves, Extents
  <2>6. QED
    BY <2>2, <2>3, <2>4, <2>5 DEF Reports
<1>4. QED
  BY <1>2, <1>3

LEMMA NoSgIs == NoSg \in Lists
  BY ZeroIs DEF NoSg, Lists

LEMMA AcceptCommandIs ==
  ASSUME NEW e \in Endpoint, e.completion = None, NEW m, WholeMedia(m),
         NEW c \in Commands, NEW works \in BOOLEAN
  PROVE  LET r == AcceptCommand(e, m, c, works)
         IN  EndpointInv(r) /\ r.state # "MediaCommit"
<1> DEFINE here  == [e EXCEPT !.command = c, !.index = 0, !.segment = 0]
           near  == [here EXCEPT !.offset = 0]
           there == [near EXCEPT !.sgEntry = 0]
           taken == [there EXCEPT !.sgPart = 0, !.sg = NoSg]
           r == AcceptCommand(e, m, c, works)
           status == Validate(c)
<1>1. r = IF status # "Success" THEN Finish(taken, status, 0, FALSE)
          ELSE IF c.opcode = "Nop" THEN Finish(taken, "Success", 0, FALSE)
          ELSE IF c.opcode = "Flush"
          THEN Finish(taken, IF works THEN "Success" ELSE "MediaError", 0, FALSE)
          ELSE IF c.sgCount > 0 THEN StartSgWordDma([taken EXCEPT !.state = "FetchSg"])
          ELSE StartOperation(taken, m, works)
  BY DEF AcceptCommand
<1>2. /\ here \in Endpoint /\ here.command = c /\ here.index = 0 /\ here.completion = None
  BY DEF Endpoint
<1> HIDE DEF here
<1>3. near \in Endpoint /\ near.command = c /\ near.index = 0 /\ near.completion = None
  BY <1>2 DEF Endpoint
<1> HIDE DEF near
<1>4. /\ there \in Endpoint /\ there.command = c /\ there.index = 0
      /\ there.completion = None /\ there.sgEntry = 0
  BY <1>3 DEF Endpoint
<1> HIDE DEF there
<1>5. /\ taken \in Endpoint /\ taken.command = c /\ taken.index = 0
      /\ taken.completion = None /\ taken.sgEntry = 0
  BY <1>4, NoSgIs DEF Endpoint
<1> HIDE DEF taken, r, status
<1>6. /\ status \in Statuses /\ "Success" \in Statuses /\ "MediaError" \in Statuses
      /\ 0 \in Nat /\ FALSE \in BOOLEAN
  BY ValidateIs DEF Statuses, status
<1>7. CASE status # "Success" \/ c.opcode = "Nop" \/ c.opcode = "Flush"
  <2>1. PICK s \in Statuses : r = Finish(taken, s, 0, FALSE)
    BY <1>1, <1>6, <1>7
  <2>2. EndpointInv(r) /\ r.state # "MediaCommit"
    BY <1>5, <1>6, <2>1, FinishIs
  <2>3. QED
    BY <2>2 DEF r
<1>8. CASE status = "Success" /\ c.opcode \notin {"Nop", "Flush"}
  <2>1. Moves(c) /\ c.sgCount \in Nat
    BY <1>8, ValidateIs, CommandIs DEF status
  <2>2. CASE c.sgCount > 0
    <3> DEFINE f == [taken EXCEPT !.state = "FetchSg"]
    <3>1. /\ f \in Endpoint /\ f.state = "FetchSg" /\ f.command = c /\ f.index = 0
          /\ f.completion = None /\ f.sgEntry = 0
      BY <1>5, Constants DEF Endpoint
    <3>2. r = StartSgWordDma(f)
      BY <1>1, <1>8, <2>2
    <3> HIDE DEF f
    <3>3. EndpointInv(r)
      BY <2>1, <2>2, <3>1, <3>2, StartSgWordIs
    <3>4. r.state = "FetchSg"
      BY <3>1, <3>2, NotCommitted DEF StartSgWordDma
    <3>5. QED
      BY <3>3, <3>4 DEF r
  <2>3. CASE ~(c.sgCount > 0)
    <3>1. r = StartOperation(taken, m, works)
      BY <1>1, <1>8, <2>3
    <3>2. EndpointInv(r) /\ r.state # "MediaCommit"
      BY <1>5, <2>1, <2>3, <3>1, StartOperationIs, OperationNotCommitted
    <3>3. QED
      BY <3>2 DEF r
  <2>4. QED
    BY <2>2, <2>3
<1>9. QED
  BY <1>7, <1>8

-----------------------------------------------------------------------------
(* A burst.                                                                 *)

\* A burst lies in the window of its handle, and in the transfer.
LEMMA BurstFits ==
  ASSUME NEW e, EndpointInv(e), e.req # None
  PROVE  /\ e \in Endpoint /\ e.command \in Commands /\ e.completion = None
         /\ e.req \in BurstRequest /\ e.req.words \in Bursts
         /\ e.req.address.offset % WordBytes = 0
         /\ e.req.address.offset + e.req.words * WordBytes <= OffsetSpace
         /\ e.moved <= e.req.words
         /\ e.state \in {"FetchSg", "Transfer"}
         /\ e.state = "FetchSg" => e.kind \in {"SgAddress", "SgLength"}
         /\ e.state = "Transfer" => e.kind = "Payload" /\ e.index + e.req.words <= e.words
<1>1. /\ e \in Endpoint /\ Shape(e) /\ e.req \in BurstRequest /\ e.moved \in Nat
      /\ e.state \in {"FetchSg", "Transfer"} /\ e.dma \in {"Request", "Transfer", "Completion"}
      /\ e.completion = None
  BY DEF EndpointInv, Endpoint, Shape, Phases
<1>2. e.moved <= e.req.words
  BY <1>1 DEF Shape, BurstRequest
<1>3. CASE e.state = "FetchSg"
  <2> DEFINE k == e.sgEntry * 2 + e.sgPart
             bytes == e.command.sgCount * 2 * WordBytes
             a == HandleAdd(e.command.sg, k * WordBytes)
  <2>1. ListBurst(e)
    BY <1>3 DEF EndpointInv
  <2>2. /\ e.command \in Commands /\ e.command.sgCount \in Nat /\ e.command.sg \in Word
        /\ e.sgEntry \in Nat /\ e.sgPart \in {0, 1} /\ e.sgEntry < e.command.sgCount
        /\ e.req.words = 1 /\ e.req.address = a
    BY <1>1, <2>1, CommandIs DEF ListBurst, Moves, Endpoint
  <2>3. HandleRangeOk(e.command.sg, bytes)
    BY <2>1, <2>2 DEF ListBurst, Moves, ValidBuffer
  <2>4. k \in Nat /\ bytes \in Nat /\ (k + 1) * WordBytes <= bytes /\ 1 \in Nat \ {0}
    BY <2>2 DEF WordBytes
  <2> HIDE DEF k, bytes
  <2>5. a.offset % WordBytes = 0 /\ a.offset + 1 * WordBytes <= OffsetSpace
    BY <2>2, <2>3, <2>4, StaysInRange
  <2>6. e.kind \in {"SgAddress", "SgLength"}
    BY <2>1 DEF ListBurst
  <2> HIDE DEF a
  <2>7. QED
    BY <1>1, <1>2, <1>3, <2>2, <2>5, <2>6, Sizes
<1>4. CASE e.state = "Transfer"
  <2>1. PayloadBurst(e) /\ Underway(e)
    BY <1>4 DEF EndpointInv, PayloadBurst
  <2>2. /\ e.command \in Commands /\ e.command.sgCount \in Nat /\ e.command.data \in Word
        /\ e.command.sgCount <= MaxSg /\ e.segment \in Nat
        /\ e.words \in Nat /\ e.index \in Nat /\ e.offset \in Nat
        /\ e.words * WordBytes \in Nat
        /\ e.command.sgCount = 0 => HandleRangeOk(e.command.data, e.words * WordBytes)
    BY <1>1, <2>1, UnderwayIs
  <2>3. /\ e.req.words \in Bursts /\ e.index + e.req.words <= e.words
        /\ e.kind = "Payload" /\ e.req.words \in Nat \ {0}
    BY <2>1, Sizes DEF PayloadBurst
  <2>4. CASE e.command.sgCount = 0
    <3> DEFINE bytes == e.words * WordBytes
               n == e.req.words
               a == HandleAdd(e.command.data, e.index * WordBytes)
    <3>1. e.req.address = a
      BY <2>1, <2>4 DEF PayloadBurst
    <3>2. (e.index + n) * WordBytes <= bytes /\ bytes \in Nat
          /\ HandleRangeOk(e.command.data, bytes)
      BY <2>2, <2>3, <2>4 DEF WordBytes
    <3> HIDE DEF bytes
    <3>3. a.offset % WordBytes = 0 /\ a.offset + n * WordBytes <= OffsetSpace
      BY <2>2, <2>3, <3>2, StaysInRange
    <3> HIDE DEF a
    <3>4. QED
      BY <1>1, <1>2, <1>4, <2>2, <2>3, <3>1, <3>3
  <2>5. CASE e.command.sgCount # 0
    <3> DEFINE h == e.sg[e.segment].address
               bytes == Length(e.sg[e.segment].length)
               n == e.req.words
               a == HandleAdd(h, e.offset * WordBytes)
    <3>1. /\ e.req.address = a /\ e.segment < e.command.sgCount
          /\ e.offset + n <= SegmentWords(e, e.segment) /\ ValidEntries(e)
      BY <2>1, <2>2, <2>5 DEF PayloadBurst, Underway
    <3>2. e.segment \in 0 .. e.command.sgCount - 1
      BY <2>2, <3>1
    <3>3. /\ h \in Word /\ bytes \in Nat /\ HandleRangeOk(h, bytes)
          /\ SegmentWords(e, e.segment) \in Nat /\ bytes = SegmentWords(e, e.segment) * WordBytes
      BY <1>1, <2>2, <3>1, <3>2, SegmentIs
    <3>4. (e.offset + n) * WordBytes <= bytes
      BY <2>2, <2>3, <3>1, <3>3 DEF WordBytes
    <3> HIDE DEF bytes, h
    <3>5. a.offset % WordBytes = 0 /\ a.offset + n * WordBytes <= OffsetSpace
      BY <2>2, <2>3, <3>3, <3>4, StaysInRange
    <3> HIDE DEF a
    <3>6. QED
      BY <1>1, <1>2, <1>4, <2>2, <2>3, <3>1, <3>5
  <2>6. QED
    BY <2>4, <2>5
<1>5. QED
  BY <1>1, <1>3, <1>4

\* A word that arrives is stored inside the list or the staging buffer.
LEMMA StoreWordIs ==
  ASSUME NEW e, EndpointInv(e), e.dma = "Transfer", NEW word \in Word
  PROVE  LET r == StoreWord(e, word) IN EndpointInv(r) /\ r.dma = "Transfer"
<1> DEFINE r == StoreWord(e, word)
<1>1. /\ e \in Endpoint /\ Shape(e) /\ e.req # None /\ e.moved < e.req.words
  BY DEF EndpointInv, Shape
<1>2. /\ e.req \in BurstRequest /\ e.state \in {"FetchSg", "Transfer"}
      /\ e.state = "FetchSg" => e.kind \in {"SgAddress", "SgLength"}
      /\ e.state = "Transfer" => e.kind = "Payload" /\ e.index + e.req.words <= e.words
      /\ e.command \in Commands
  BY <1>1, BurstFits
<1>3. CASE e.state = "Transfer"
  <2> DEFINE k == e.index + e.moved
  <2>1. k \in 0 .. PayloadWords - 1
    <3>1. e.index \in Nat /\ e.moved \in Nat /\ e.req.words \in Nat /\ e.words \in 0 .. PayloadWords
      BY <1>1, <1>2 DEF Endpoint, BurstRequest
    <3>2. QED
      BY <1>1, <1>2, <1>3, <3>1, Sizes
  <2>2. r = [e EXCEPT !.payload[k] = word]
    BY <1>2, <1>3 DEF StoreWord
  <2>3. [e.payload EXCEPT ![k] = word] \in Staging
    BY <1>1, <2>1 DEF Endpoint, Staging
  <2>4. r = [e EXCEPT !.payload = [e.payload EXCEPT ![k] = word]]
    BY <1>1, <2>2 DEF Endpoint
  <2> HIDE DEF r, k
  <2>5. /\ r \in Endpoint /\ r.state = e.state /\ r.dma = e.dma /\ r.req = e.req
        /\ r.command = e.command /\ r.completion = e.completion /\ r.moved = e.moved
        /\ r.kind = e.kind /\ r.words = e.words /\ r.index = e.index /\ r.sg = e.sg
        /\ r.segment = e.segment /\ r.offset = e.offset
    BY <1>1, <2>3, <2>4 DEF Endpoint
  <2>6. PayloadBurst(r)
    BY <1>3, <2>5 DEF EndpointInv, PayloadBurst, Underway, ValidEntries, SegmentWords
  <2>7. Shape(r)
    BY <1>1, <2>5 DEF Shape
  <2>8. QED
    BY <1>3, <2>5, <2>6, <2>7 DEF EndpointInv, r
<1>4. CASE e.state = "FetchSg"
  <2>1. ListBurst(e) /\ e.sgEntry \in 0 .. MaxSg - 1
    <3>1. ListBurst(e)
      BY <1>4 DEF EndpointInv
    <3>2. e.sgEntry \in Nat /\ e.command.sgCount \in Nat /\ e.command.sgCount <= MaxSg
          /\ e.sgEntry < e.command.sgCount
      BY <1>1, <1>2, <3>1, CommandIs DEF ListBurst, Moves, Endpoint
    <3>3. QED
      BY <3>1, <3>2, Sizes
  <2>2. PICK list \in Lists : r = [e EXCEPT !.sg = list]
    <3>1. e.sg \in Lists
      BY <1>1 DEF Endpoint
    <3>2. CASE e.kind = "SgAddress"
      <4> DEFINE list == [e.sg EXCEPT ![e.sgEntry].address = word]
      <4>1. list \in Lists
        BY <2>1, <3>1 DEF Lists
      <4>2. r = [e EXCEPT !.sg = list]
        BY <1>1, <3>2 DEF StoreWord, Endpoint
      <4>3. QED
        BY <4>1, <4>2
    <3>3. CASE e.kind = "SgLength"
      <4> DEFINE list == [e.sg EXCEPT ![e.sgEntry].length = word]
      <4>1. list \in Lists
        BY <2>1, <3>1 DEF Lists
      <4>2. r = [e EXCEPT !.sg = list]
        BY <1>1, <3>3 DEF StoreWord, Endpoint
      <4>3. QED
        BY <4>1, <4>2
    <3>4. QED
      BY <1>2, <1>4, <3>2, <3>3
  <2> HIDE DEF r
  <2>3. /\ r \in Endpoint /\ r.state = e.state /\ r.dma = e.dma /\ r.req = e.req
        /\ r.command = e.command /\ r.completion = e.completion /\ r.moved = e.moved
        /\ r.kind = e.kind /\ r.sgEntry = e.sgEntry /\ r.sgPart = e.sgPart
        /\ r.index = e.index
    BY <1>1, <2>2 DEF Endpoint
  <2>4. ListBurst(r)
    BY <2>1, <2>3 DEF ListBurst
  <2>5. Shape(r)
    BY <1>1, <2>3 DEF Shape
  <2>6. QED
    BY <1>4, <2>3, <2>4, <2>5 DEF EndpointInv, r
<1>5. QED
  BY <1>2, <1>3, <1>4

LEMMA CountWordIs ==
  ASSUME NEW e, EndpointInv(e), e.dma = "Transfer"
  PROVE  EndpointInv(CountWord(e)) /\ CountWord(e).state # "MediaCommit"
<1> DEFINE moved == e.moved + 1
           dma == IF moved = e.req.words THEN "Completion" ELSE e.dma
           half == [e EXCEPT !.moved = moved]
           r == [half EXCEPT !.dma = dma]
<1>1. /\ e \in Endpoint /\ Shape(e) /\ e.req # None /\ e.moved < e.req.words
  BY DEF EndpointInv, Shape
<1>2. e.moved \in Nat /\ e.req.words \in Nat
  BY <1>1, BurstFits DEF Endpoint, BurstRequest
<1>3. moved \in Nat /\ dma \in Phases /\ CountWord(e) = r
  BY <1>1, <1>2, Constants DEF CountWord, Endpoint
<1>4. /\ dma \in {"Transfer", "Completion"}
      /\ dma = "Transfer" => moved < e.req.words
      /\ dma = "Completion" => moved = e.req.words
  BY <1>1, <1>2
<1> HIDE DEF moved, dma
<1>5. /\ half \in Endpoint /\ half.moved = moved /\ half.state = e.state /\ half.req = e.req
      /\ half.command = e.command /\ half.completion = e.completion /\ half.kind = e.kind
      /\ half.words = e.words /\ half.index = e.index /\ half.sg = e.sg
      /\ half.segment = e.segment /\ half.offset = e.offset
      /\ half.sgEntry = e.sgEntry /\ half.sgPart = e.sgPart
  BY <1>1, <1>3 DEF Endpoint
<1> HIDE DEF half
<1>6. /\ r \in Endpoint /\ r.moved = moved /\ r.dma = dma /\ r.state = e.state
      /\ r.req = e.req /\ r.command = e.command /\ r.completion = e.completion
      /\ r.kind = e.kind /\ r.words = e.words /\ r.index = e.index /\ r.sg = e.sg
      /\ r.segment = e.segment /\ r.offset = e.offset
      /\ r.sgEntry = e.sgEntry /\ r.sgPart = e.sgPart
  BY <1>3, <1>5 DEF Endpoint
<1> HIDE DEF r
<1>7. Shape(r)
  <2>1. /\ e.state = "Idle" <=> e.command = None
        /\ e.state = "Complete" <=> e.completion # None
        /\ e.state \in {"FetchSg", "Transfer"}
    BY <1>1 DEF Shape
  <2>2. r.dma # "Idle" /\ r.dma # "Request" /\ r.req # None
    BY <1>1, <1>4, <1>6
  <2>3. /\ r.dma = "Transfer" => r.moved < r.req.words
        /\ r.dma = "Completion" => r.moved = r.req.words
    BY <1>4, <1>6
  <2>4. QED
    BY <1>6, <2>1, <2>2, <2>3 DEF Shape
<1>8. r.state = "FetchSg" => ListBurst(r)
  BY <1>6 DEF EndpointInv, ListBurst
<1>9. r.state = "Transfer" => PayloadBurst(r)
  BY <1>6 DEF EndpointInv, PayloadBurst, Underway, ValidEntries, SegmentWords
<1>10. r.state # "MediaCommit"
  BY <1>1, <1>6 DEF Shape
<1>11. QED
  BY <1>3, <1>6, <1>7, <1>8, <1>9, <1>10 DEF EndpointInv

\* A burst that is done is followed by the next one, or by what the payload was for.
LEMMA BurstDoneIs ==
  ASSUME NEW e, EndpointInv(e), e.dma = "Completion", NEW m, WholeMedia(m), NEW works \in BOOLEAN
  PROVE  EndpointInv(BurstDone(e, m, works))
<1> DEFINE idle == [e EXCEPT !.dma = "Idle", !.req = None]
           r == BurstDone(e, m, works)
<1>1. e \in Endpoint /\ e.req # None
  BY DEF EndpointInv, Shape
<1>2. /\ e.req \in BurstRequest /\ e.state \in {"FetchSg", "Transfer"} /\ e.completion = None
      /\ e.state = "FetchSg" => e.kind \in {"SgAddress", "SgLength"}
      /\ e.state = "Transfer" => e.kind = "Payload" /\ e.index + e.req.words <= e.words
  BY <1>1, BurstFits
<1>3. /\ idle \in Endpoint /\ idle.state = e.state /\ idle.command = e.command
      /\ idle.completion = None /\ idle.sg = e.sg /\ idle.sgEntry = e.sgEntry
      /\ idle.sgPart = e.sgPart /\ idle.words = e.words /\ idle.index = e.index
      /\ idle.segment = e.segment /\ idle.offset = e.offset
  BY <1>1, <1>2, Constants DEF Endpoint
<1>4. CASE e.state = "FetchSg" /\ e.kind = "SgAddress"
  <2> DEFINE next == [idle EXCEPT !.sgPart = 1]
  <2>1. r = StartSgWordDma(next)
    BY <1>4 DEF BurstDone
  <2>2. ListBurst(e)
    BY <1>4 DEF EndpointInv
  <2> HIDE DEF idle, r
  <2>3. /\ next \in Endpoint /\ next.completion = None /\ next.state = "FetchSg"
        /\ next.index = 0 /\ next.command = e.command /\ next.sgEntry = e.sgEntry
    BY <1>3, <1>4, <2>2 DEF Endpoint, ListBurst
  <2> HIDE DEF next
  <2>4. EndpointInv(r)
    BY <2>1, <2>2, <2>3, StartSgWordIs DEF ListBurst
  <2>5. QED
    BY <2>4 DEF r
<1>5. CASE e.state = "FetchSg" /\ e.kind = "SgLength"
  <2> DEFINE next == [idle EXCEPT !.sgPart = 0, !.sgEntry = e.sgEntry + 1]
  <2>1. ListBurst(e) /\ Moves(e.command) /\ e.command \in Commands
    BY <1>5 DEF EndpointInv, ListBurst, Moves
  <2>2. r = SgEntryDone(idle, m, works)
    BY <1>5 DEF BurstDone
  <2> HIDE DEF idle, r
  <2>3. r = IF next.sgEntry < next.command.sgCount THEN StartSgWordDma(next)
            ELSE IF ValidSg(next) THEN StartOperation(next, m, works)
            ELSE Finish(next, "InvalidField", 0, FALSE)
    BY <1>3, <2>2 DEF SgEntryDone, Endpoint
  <2>4. /\ next \in Endpoint /\ next.completion = None /\ next.state = "FetchSg"
        /\ next.index = 0 /\ next.command = e.command
    <3>1. e.index = 0 /\ e.sgEntry + 1 \in Nat
      BY <1>1, <2>1 DEF ListBurst, Endpoint
    <3> DEFINE n == e.sgEntry + 1
               half == [idle EXCEPT !.sgPart = 0]
    <3>2. /\ half \in Endpoint /\ half.completion = None /\ half.state = "FetchSg"
          /\ half.index = 0 /\ half.command = e.command
      BY <1>3, <1>5, <3>1 DEF Endpoint
    <3>3. next = [half EXCEPT !.sgEntry = n] /\ n \in Nat
      BY <1>3, <3>1 DEF Endpoint
    <3> HIDE DEF half, next, n
    <3>4. QED
      BY <3>2, <3>3 DEF Endpoint
  <2> HIDE DEF next
  <2>5. CASE next.sgEntry < next.command.sgCount
    BY <2>1, <2>3, <2>4, <2>5, StartSgWordIs DEF r
  <2>6. CASE ~(next.sgEntry < next.command.sgCount) /\ ValidSg(next)
    <3>1. ValidEntries(next)
      BY <2>6 DEF ValidSg
    <3>2. r = StartOperation(next, m, works)
      BY <2>3, <2>6
    <3>3. EndpointInv(r)
      BY <2>1, <2>4, <3>1, <3>2, StartOperationIs
    <3>4. QED
      BY <3>3 DEF r
  <2>7. CASE ~(next.sgEntry < next.command.sgCount) /\ ~ValidSg(next)
    <3>1. "InvalidField" \in Statuses /\ 0 \in Nat /\ FALSE \in BOOLEAN
      BY DEF Statuses
    <3>2. r = Finish(next, "InvalidField", 0, FALSE)
      BY <2>3, <2>7
    <3>3. EndpointInv(r)
      BY <2>1, <2>4, <3>1, <3>2, FinishIs
    <3>4. QED
      BY <3>3 DEF r
  <2>8. QED
    BY <2>5, <2>6, <2>7
<1>6. CASE e.state = "Transfer"
  <2> DEFINE n == e.req.words
             offset == IF e.command.sgCount > 0 THEN e.offset + n ELSE e.offset
             next == [idle EXCEPT !.index = e.index + n, !.offset = offset]
  <2>1. Underway(e)
    BY <1>6 DEF EndpointInv, PayloadBurst
  <2>2. /\ n \in Nat /\ e.req.direction \in Directions /\ e.index + n <= e.words
        /\ e.index + n \in Nat /\ offset \in Nat
    BY <1>1, <1>2, <1>6 DEF BurstRequest, Endpoint
  <2>3. r = PayloadBurstDone(idle, e.req.direction, n)
    BY <1>2, <1>6 DEF BurstDone
  <2> HIDE DEF idle, r, n
  <2>4. r = StartPayloadDma(next, e.req.direction)
    BY <1>3, <2>3 DEF PayloadBurstDone, Endpoint
  <2> HIDE DEF offset
  <2>5. /\ next \in Endpoint /\ next.completion = None /\ next.state = "Transfer"
        /\ next.index = e.index + n /\ next.command = e.command /\ next.words = e.words
        /\ next.sg = e.sg
    BY <1>3, <1>6, <2>2 DEF Endpoint
  <2> HIDE DEF next
  <2>6. Underway(next)
    BY <2>1, <2>2, <2>5 DEF Underway, ValidEntries
  <2>7. EndpointInv(r)
    BY <2>2, <2>4, <2>5, <2>6, StartPayloadIs
  <2>8. QED
    BY <2>7 DEF r
<1>7. QED
  BY <1>2, <1>4, <1>5, <1>6

-----------------------------------------------------------------------------
(* The backends.                                                            *)

LEMMA WroteIs ==
  ASSUME NEW m, WholeMedia(m), NEW x \in Extents, NEW block \in Block(x[1])
  PROVE  WholeMedia(Wrote(m, x, block))
<1> DEFINE blocks == [m.blocks EXCEPT ![x] = block]
           unsynced == IF x[1] \in FileBacked THEN m.unsynced \cup {x} ELSE m.unsynced
           w == Wrote(m, x, block)
<1>1. w = [blocks |-> blocks, unsynced |-> unsynced]
  BY DEF Wrote
<1>2. DOMAIN m.blocks = Extents /\ \A y \in Extents : m.blocks[y] \in Block(y[1])
  <2>1. m.blocks = [y \in Extents |-> m.blocks[y]]
    BY DEF WholeMedia
  <2>2. QED
    BY <2>1 DEF WholeMedia
<1>3. blocks = [y \in Extents |-> blocks[y]] /\ \A y \in Extents : blocks[y] \in Block(y[1])
  BY <1>2
<1>4. unsynced \subseteq Extents
  BY DEF WholeMedia
<1> HIDE DEF blocks, unsynced, w
<1>5. WholeMedia(w)
  BY <1>1, <1>3, <1>4 DEF WholeMedia
<1>6. QED
  BY <1>5 DEF w

LEMMA TornIs ==
  ASSUME NEW ns, NEW old \in Block(ns), NEW new \in Block(ns), NEW n
  PROVE  Torn(old, new, n) \in Block(ns)
  BY DEF Torn, Block

LEMMA FlushedIs ==
  ASSUME NEW m, WholeMedia(m), NEW ns
  PROVE  WholeMedia(Flushed(m, ns))
<1> DEFINE u == {x \in m.unsynced : x[1] # ns}
           blocks == [x \in Extents |-> m.blocks[x]]
<1>1. m = [blocks |-> blocks, unsynced |-> m.unsynced] /\ u \subseteq Extents
  BY DEF WholeMedia
<1>2. Flushed(m, ns) = [blocks |-> blocks, unsynced |-> u]
  BY <1>1 DEF Flushed
<1>3. \A x \in Extents : blocks[x] \in Block(x[1])
  BY DEF WholeMedia
<1>4. blocks = [x \in Extents |-> blocks[x]]
  OBVIOUS
<1> HIDE DEF u, blocks
<1>5. QED
  BY <1>1, <1>2, <1>3, <1>4 DEF WholeMedia

\* A commit leaves whole blocks, whether the backend wrote them or tore one.
LEMMA CommitIs ==
  ASSUME NEW e, EndpointInv(e), e.state = "MediaCommit", WholeMedia(media), Commit(e)
  PROVE  EndpointInv(ep') /\ ep'.state = "Complete" /\ WholeMedia(media')
<1> DEFINE c == e.command
           x == <<c.namespace, c.lba>>
           block == [k \in 0 .. BlockWords[c.namespace] - 1 |-> e.payload[k]]
<1>1. /\ e \in Endpoint /\ c \in Commands /\ c.blocks \in Nat
      /\ x \in Extents /\ c.namespace \in Namespaces
  <2>1. e \in Endpoint /\ Moves(c) /\ c.opcode \in Writes
    BY DEF EndpointInv
  <2>2. c.opcode \notin Reports /\ c \in Commands
    BY <2>1 DEF Writes, Reports, Moves
  <2>3. QED
    BY <2>1, <2>2, CommandIs DEF Moves, Extents
<1>2. block \in Block(c.namespace)
  <2>1. BlockWords[c.namespace] \in 1 .. PayloadWords /\ PayloadWords \in Nat
    BY <1>1, NamespaceIs, Sizes
  <2>2. \A k \in 0 .. BlockWords[c.namespace] - 1 : e.payload[k] \in Word
    BY <1>1, <2>1 DEF Endpoint, Staging
  <2>3. QED
    BY <2>2 DEF Block
<1>3. x[1] = c.namespace
  OBVIOUS
<1>4. "Success" \in Statuses /\ "MediaError" \in Statuses /\ 0 \in Nat /\ FALSE \in BOOLEAN
  BY DEF Statuses
<1>5. CASE /\ media' = Wrote(media, x, block)
           /\ ep' = Finish(e, "Success", c.blocks, c.opcode = "WriteDurable")
  <2> DEFINE durable == c.opcode = "WriteDurable"
  <2>1. durable \in BOOLEAN
    OBVIOUS
  <2>2. ep' = Finish(e, "Success", c.blocks, durable)
    BY <1>5
  <2> HIDE DEF durable
  <2>3. EndpointInv(ep') /\ ep'.state = "Complete"
    BY <1>1, <1>4, <2>1, <2>2, FinishIs
  <2> HIDE DEF x, block
  <2>4. WholeMedia(Wrote(media, x, block))
    BY <1>1, <1>2, <1>3, WroteIs
  <2>5. QED
    BY <1>5, <2>3, <2>4
<1>6. CASE /\ \E words \in DOMAIN block :
                media' = Wrote(media, x, Torn(media.blocks[x], block, words))
           /\ ep' = Finish(e, "MediaError", 0, FALSE)
  <2>1. EndpointInv(ep') /\ ep'.state = "Complete"
    BY <1>1, <1>4, <1>6, FinishIs
  <2>2. PICK n : media' = Wrote(media, x, Torn(media.blocks[x], block, n))
    BY <1>6
  <2> HIDE DEF x, block
  <2>3. media.blocks[x] \in Block(c.namespace)
    BY <1>1, <1>3 DEF WholeMedia
  <2>4. Torn(media.blocks[x], block, n) \in Block(c.namespace)
    BY <1>2, <2>3, TornIs
  <2>5. WholeMedia(Wrote(media, x, Torn(media.blocks[x], block, n)))
    BY <1>1, <1>3, <2>4, WroteIs
  <2>6. QED
    BY <2>1, <2>2, <2>5
<1>7. QED
  BY <1>5, <1>6 DEF Commit

-----------------------------------------------------------------------------
(* The invariant.                                                           *)

LEMMA NewEndpointIs == EndpointInv(NewEndpoint) /\ NewEndpoint.state = "Idle"
<1>1. 0 \in 0 .. PayloadWords
  BY Sizes
<1>2. NewEndpoint \in Endpoint
  BY <1>1, NoSgIs, ZeroIs, Constants DEF NewEndpoint, Endpoint
<1>3. QED
  BY <1>2 DEF NewEndpoint, EndpointInv, Shape

LEMMA ImagesAre == \A image \in Images : image \in [Places -> Word]
  BY QdxBConstants

LEMMA InitInv == Init => QdxBInv
<1> SUFFICES ASSUME Init PROVE QdxBInv
  OBVIOUS
<1>1. EndpointInv(ep) /\ ep.state # "MediaCommit"
  BY NewEndpointIs DEF Init
<1>2. memory \in [Places -> Word]
  BY ImagesAre DEF Init
<1>3. WholeMedia(media)
  <2> DEFINE blocks == [x \in Extents |-> [k \in 0 .. BlockWords[x[1]] - 1 |-> Zero]]
  <2>1. media = [blocks |-> blocks, unsynced |-> {}]
    BY DEF Init
  <2>2. \A x \in Extents : blocks[x] \in Block(x[1])
    BY ZeroIs DEF Block
  <2>3. blocks = [x \in Extents |-> blocks[x]]
    OBVIOUS
  <2> HIDE DEF blocks
  <2>4. QED
    BY <2>1, <2>2, <2>3 DEF WholeMedia
<1>4. QED
  BY <1>1, <1>2, <1>3 DEF QdxBInv

\* An endpoint whose registers stay but for the phase of a burst not yet moving.
LEMMA DmaAcceptedIs ==
  ASSUME NEW e, EndpointInv(e), e.dma = "Request"
  PROVE  LET r == [e EXCEPT !.dma = "Transfer"] IN EndpointInv(r) /\ r.state = e.state
<1> DEFINE r == [e EXCEPT !.dma = "Transfer"]
<1>1. /\ e \in Endpoint /\ e.req # None /\ e.moved < e.req.words
      /\ e.state \in {"FetchSg", "Transfer"}
      /\ e.state = "Idle" <=> e.command = None
      /\ e.state = "Complete" <=> e.completion # None
  BY DEF EndpointInv, Shape
<1>2. /\ r \in Endpoint /\ r.moved = e.moved /\ r.dma = "Transfer" /\ r.state = e.state
      /\ r.req = e.req /\ r.command = e.command /\ r.completion = e.completion
      /\ r.kind = e.kind /\ r.words = e.words /\ r.index = e.index /\ r.sg = e.sg
      /\ r.segment = e.segment /\ r.offset = e.offset
      /\ r.sgEntry = e.sgEntry /\ r.sgPart = e.sgPart
  BY <1>1, Constants DEF Endpoint
<1> HIDE DEF r
<1>3. Shape(r)
  BY <1>1, <1>2 DEF Shape
<1>4. r.state = "FetchSg" => ListBurst(r)
  BY <1>2 DEF EndpointInv, ListBurst
<1>5. r.state = "Transfer" => PayloadBurst(r)
  BY <1>2 DEF EndpointInv, PayloadBurst, Underway, ValidEntries, SegmentWords
<1>6. QED
  BY <1>1, <1>2, <1>3, <1>4, <1>5 DEF EndpointInv, r

\* The next word of a burst has a place in memory.
LEMMA HereIs ==
  ASSUME QdxBInv, ep.dma = "Transfer"
  PROVE  Here \in Places /\ memory[Here] \in Word
<1> DEFINE a == ep.req.address
           n == ep.req.words
<1>1. ep.req # None /\ ep.moved < n /\ EndpointInv(ep) /\ memory \in [Places -> Word]
  BY DEF QdxBInv, EndpointInv, Shape
<1>2. /\ ep \in Endpoint /\ ep.req \in BurstRequest
      /\ a.offset % WordBytes = 0 /\ a.offset + n * WordBytes <= OffsetSpace
  BY <1>1, BurstFits
<1>3. a \in Word /\ n \in Nat /\ ep.moved \in Nat
  BY <1>2 DEF BurstRequest, Endpoint
<1>4. Here = <<a.window, (a.offset \div WordBytes) + ep.moved>>
  BY DEF Here
<1> HIDE DEF a, n
<1>5. Here \in Places
  BY <1>1, <1>2, <1>3, <1>4, PlacesOfBurst
<1>6. QED
  BY <1>1, <1>5

LEMMA SubmitInv == QdxBInv /\ Submit => QdxBInv'
<1> SUFFICES ASSUME QdxBInv, Submit PROVE QdxBInv'
  OBVIOUS
<1>1. EndpointInv(ep) /\ ep \in Endpoint /\ ep.completion = None /\ WholeMedia(media)
  BY DEF QdxBInv, EndpointInv, Shape, Submit
<1>2. memory' \in [Places -> Word]
  BY ImagesAre DEF Submit
<1>3. PICK c \in Commands, works \in BOOLEAN :
        /\ ep' = AcceptCommand(ep, media, c, works)
        /\ media' = IF c.opcode = "Flush" /\ works /\ Validate(c) = "Success"
                    THEN Flushed(media, c.namespace) ELSE media
  BY DEF Submit, Outcomes
<1>4. EndpointInv(ep') /\ ep'.state # "MediaCommit"
  BY <1>1, <1>3, AcceptCommandIs
<1>5. WholeMedia(media')
  BY <1>1, <1>3, FlushedIs
<1>6. QED
  BY <1>2, <1>4, <1>5 DEF QdxBInv

LEMMA TakeCompletionInv == QdxBInv /\ TakeCompletion => QdxBInv'
<1> SUFFICES ASSUME QdxBInv, TakeCompletion PROVE QdxBInv'
  OBVIOUS
<1> DEFINE half == [ep EXCEPT !.completion = None, !.command = None]
<1>1. /\ ep \in Endpoint /\ ep.req = None /\ ep.dma = "Idle"
  BY DEF QdxBInv, EndpointInv, Shape, TakeCompletion
<1>2. ep' = [half EXCEPT !.state = "Idle"]
  BY DEF TakeCompletion
<1>3. /\ half \in Endpoint /\ half.completion = None /\ half.command = None
      /\ half.req = None /\ half.dma = "Idle"
  BY <1>1 DEF Endpoint
<1> HIDE DEF half
<1>4. /\ ep' \in Endpoint /\ ep'.state = "Idle" /\ ep'.completion = None /\ ep'.command = None
      /\ ep'.req = None /\ ep'.dma = "Idle"
  BY <1>2, <1>3, Constants DEF Endpoint
<1>5. EndpointInv(ep')
  BY <1>4 DEF EndpointInv, Shape
<1>6. WholeMedia(media') /\ memory' \in [Places -> Word]
  BY DEF TakeCompletion, QdxBInv
<1>7. QED
  BY <1>4, <1>5, <1>6 DEF QdxBInv

LEMMA DmaAcceptedInv == QdxBInv /\ DmaAccepted => QdxBInv'
<1> SUFFICES ASSUME QdxBInv, DmaAccepted PROVE QdxBInv'
  OBVIOUS
<1>1. EndpointInv(ep) /\ ep.dma = "Request" /\ ep' = [ep EXCEPT !.dma = "Transfer"]
  BY DEF QdxBInv, DmaAccepted
<1>2. EndpointInv(ep') /\ ep'.state = ep.state
  BY <1>1, DmaAcceptedIs
<1>3. WholeMedia(media') /\ memory' \in [Places -> Word]
  BY DEF DmaAccepted, QdxBInv
<1>4. QED
  BY <1>2, <1>3 DEF QdxBInv

LEMMA WordToDeviceInv == QdxBInv /\ WordToDevice => QdxBInv'
<1> SUFFICES ASSUME QdxBInv, WordToDevice PROVE QdxBInv'
  OBVIOUS
<1> DEFINE word == memory[Here]
           stored == StoreWord(ep, word)
<1>1. EndpointInv(ep) /\ ep.dma = "Transfer" /\ ep' = CountWord(stored)
  BY DEF QdxBInv, WordToDevice
<1>2. word \in Word
  BY <1>1, HereIs
<1> HIDE DEF word
<1>3. EndpointInv(stored) /\ stored.dma = "Transfer"
  BY <1>1, <1>2, StoreWordIs
<1> HIDE DEF stored
<1>4. EndpointInv(ep') /\ ep'.state # "MediaCommit"
  BY <1>1, <1>3, CountWordIs
<1>5. WholeMedia(media') /\ memory' \in [Places -> Word]
  BY DEF WordToDevice, QdxBInv
<1>6. QED
  BY <1>4, <1>5 DEF QdxBInv

LEMMA WordToHostInv == QdxBInv /\ WordToHost => QdxBInv'
<1> SUFFICES ASSUME QdxBInv, WordToHost PROVE QdxBInv'
  OBVIOUS
<1> DEFINE k == ep.index + ep.moved
           word == ep.payload[k]
<1>1. /\ EndpointInv(ep) /\ ep.dma = "Transfer" /\ ep' = CountWord(ep)
      /\ memory' = [memory EXCEPT ![Here] = word] /\ ep.req.direction = "DeviceToHost"
  BY DEF QdxBInv, WordToHost
<1>2. EndpointInv(ep') /\ ep'.state # "MediaCommit"
  BY <1>1, CountWordIs
<1>3. Here \in Places
  BY <1>1, HereIs
<1>4. k \in 0 .. PayloadWords - 1
  <2>1. ep \in Endpoint /\ ep.req # None /\ ep.moved < ep.req.words
    BY <1>1 DEF EndpointInv, Shape
  <2>2. ep.state # "FetchSg"
    BY <1>1 DEF EndpointInv, ListBurst
  <2>3. ep.req \in BurstRequest /\ ep.index + ep.req.words <= ep.words
    BY <1>1, <2>1, <2>2, BurstFits
  <2>4. /\ ep.index \in Nat /\ ep.moved \in Nat /\ ep.req.words \in Nat
        /\ ep.words \in 0 .. PayloadWords
    BY <2>1, <2>3 DEF Endpoint, BurstRequest
  <2>5. QED
    BY <2>1, <2>3, <2>4, Sizes
<1> HIDE DEF k
<1>5. word \in Word
  BY <1>1, <1>4 DEF EndpointInv, Endpoint, Staging
<1>6. WholeMedia(media') /\ memory \in [Places -> Word]
  BY DEF WordToHost, QdxBInv
<1> HIDE DEF word
<1>7. memory' \in [Places -> Word]
  BY <1>1, <1>3, <1>5, <1>6
<1>8. QED
  BY <1>2, <1>6, <1>7 DEF QdxBInv

LEMMA DmaFailsInv == QdxBInv /\ DmaFails => QdxBInv'
<1> SUFFICES ASSUME QdxBInv, DmaFails PROVE QdxBInv'
  OBVIOUS
<1>1. EndpointInv(ep) /\ ep.req # None /\ ep' = Finish(ep, "DmaFault", 0, FALSE)
  BY DEF QdxBInv, DmaFails, EndpointInv, Shape, BurstFailed
<1>2. ep \in Endpoint /\ ep.command \in Commands
  BY <1>1, BurstFits
<1>3. EndpointInv(ep') /\ ep'.state = "Complete"
  BY <1>1, <1>2, Refusals, FinishIs
<1>4. WholeMedia(media') /\ memory' \in [Places -> Word]
  BY DEF DmaFails, QdxBInv
<1>5. QED
  BY <1>3, <1>4 DEF QdxBInv

LEMMA DmaCompletesInv == QdxBInv /\ DmaCompletes => QdxBInv'
<1> SUFFICES ASSUME QdxBInv, DmaCompletes PROVE QdxBInv'
  OBVIOUS
<1>1. EndpointInv(ep) /\ ep.dma = "Completion" /\ WholeMedia(media)
  BY DEF QdxBInv, DmaCompletes
<1>2. PICK works \in BOOLEAN :
        IF BurstDone(ep, media, works).state = "MediaCommit"
        THEN Commit(BurstDone(ep, media, works))
        ELSE ep' = BurstDone(ep, media, works) /\ UNCHANGED media
  BY DEF DmaCompletes, Outcomes
<1> DEFINE next == BurstDone(ep, media, works)
<1>3. EndpointInv(next)
  BY <1>1, BurstDoneIs
<1>4. memory' \in [Places -> Word]
  BY DEF DmaCompletes, QdxBInv
<1> HIDE DEF next
<1>5. CASE next.state = "MediaCommit"
  <2>1. Commit(next)
    BY <1>2, <1>5 DEF next
  <2>2. EndpointInv(ep') /\ ep'.state = "Complete" /\ WholeMedia(media')
    BY <1>1, <1>3, <1>5, <2>1, CommitIs
  <2>3. QED
    BY <1>4, <2>2 DEF QdxBInv
<1>6. CASE next.state # "MediaCommit"
  <2>1. ep' = next /\ media' = media
    BY <1>2, <1>6 DEF next
  <2>2. QED
    BY <1>1, <1>3, <1>4, <1>6, <2>1 DEF QdxBInv
<1>7. QED
  BY <1>5, <1>6

LEMMA ResetInv == QdxBInv /\ Reset => QdxBInv'
  BY NewEndpointIs DEF QdxBInv, Reset

\* Every step of the engine, of its DMA service and of software keeps the invariant.
LEMMA NextInv == QdxBInv /\ [Next]_vars => QdxBInv'
<1> SUFFICES ASSUME QdxBInv, [Next]_vars PROVE QdxBInv'
  OBVIOUS
<1>1. CASE Submit
  BY <1>1, SubmitInv
<1>2. CASE TakeCompletion
  BY <1>2, TakeCompletionInv
<1>3. CASE DmaAccepted
  BY <1>3, DmaAcceptedInv
<1>4. CASE WordToDevice
  BY <1>4, WordToDeviceInv
<1>5. CASE WordToHost
  BY <1>5, WordToHostInv
<1>6. CASE DmaFails
  BY <1>6, DmaFailsInv
<1>7. CASE DmaCompletes
  BY <1>7, DmaCompletesInv
<1>8. CASE Reset
  BY <1>8, ResetInv
<1>9. CASE UNCHANGED vars
  BY <1>9 DEF vars, QdxBInv
<1>10. QED
  BY <1>1, <1>2, <1>3, <1>4, <1>5, <1>6, <1>7, <1>8, <1>9 DEF Next, DmaClock

-----------------------------------------------------------------------------
(* The theorems.                                                            *)

(* In every reachable state a burst of the engine is the next word of the list its command
   names, or the next words of the buffer or of the present segment of it: what
   start_sg_word_dma and start_payload_dma ask for, across every answer of the DMA service,
   reset and failure, and for any list software may have put in memory. *)
THEOREM QdxBInvariant == Spec => []QdxBInv
<1>1. QdxBInv /\ [Next]_vars => QdxBInv'
  BY NextInv
<1>2. QED
  BY InitInv, <1>1, PTL DEF Spec

\* The types: among them that a command is never left waiting for its commit (commit_media).
THEOREM QdxBTypeCorrect == Spec => []TypeOK
<1>1. QdxBInv => TypeOK
  <2> SUFFICES ASSUME QdxBInv PROVE TypeOK
    OBVIOUS
  <2>1. /\ ep \in Endpoint /\ Shape(ep) /\ ep.state # "MediaCommit"
        /\ memory \in [Places -> Word] /\ WholeMedia(media)
    BY DEF QdxBInv, EndpointInv
  <2>2. /\ ep.state \in {"Idle", "FetchSg", "Transfer", "Complete"}
        /\ ep.dma \in {"Idle", "Request", "Transfer", "Completion"}
        /\ ep.sg \in [0 .. MaxSg - 1 -> [address : Word, length : Word]]
        /\ ep.payload \in [0 .. PayloadWords - 1 -> Word]
    BY <2>1 DEF Endpoint, States, Phases, Lists, Staging
  <2>3. /\ Moving <=> ep.dma # "Idle"
        /\ Moving <=> ep.state \in {"FetchSg", "Transfer"}
        /\ ep.state = "Idle" <=> ep.command = None
        /\ ep.state = "Complete" <=> ep.completion # None
    BY <2>1 DEF Shape, Moving
  <2>4. QED
    BY <2>1, <2>2, <2>3 DEF TypeOK, WholeMedia
<1>2. QED
  BY QdxBInvariant, <1>1, PTL

(* No burst leaves the window of its handle: the sum handle_add takes never carries into the
   bits that name the mapping, whatever the command and the list say. *)
THEOREM BurstInWindowProved == Spec => []BurstInWindow
<1>1. QdxBInv => BurstInWindow
  <2> SUFFICES ASSUME QdxBInv, Moving
               PROVE  /\ ep.req.address.offset % WordBytes = 0
                      /\ ep.req.address.offset + ep.req.words * WordBytes <= OffsetSpace
    BY DEF BurstInWindow
  <2>1. QED
    BY BurstFits DEF QdxBInv, Moving
<1>2. QED
  BY QdxBInvariant, <1>1, PTL

(* Every burst has one of the lengths the bus knows, and a payload burst ends inside the
   transfer, however start_payload_dma cuts segments and transfer into bursts. *)
THEOREM BurstInTransferProved == Spec => []BurstInTransfer
<1>1. QdxBInv => BurstInTransfer
  <2> SUFFICES ASSUME QdxBInv, Moving
               PROVE  /\ ep.req.words \in Bursts
                      /\ ep.moved <= ep.req.words
                      /\ ep.kind = "Payload" => ep.index + ep.req.words <= ep.words
    BY DEF BurstInTransfer
  <2>1. EndpointInv(ep) /\ ep.req # None
    BY DEF QdxBInv, Moving
  <2>2. QED
    BY <2>1, BurstFits
<1>2. QED
  BY QdxBInvariant, <1>1, PTL

-----------------------------------------------------------------------------
(* The walk over the list.                                                  *)

\* B counts the words before each segment of a list.
Counts(B, e) ==
  LET n == e.command.sgCount IN
  /\ B \in [0 .. n -> Nat] /\ B[0] = 0
  /\ \A i \in 1 .. n : B[i] = B[i - 1] + SegmentWords(e, i - 1)

\* The recursion of WordsBefore has a solution, built up entry by entry.
LEMMA CountsExist ==
  ASSUME NEW e, e.command.sgCount \in Nat,
         \A i \in 0 .. e.command.sgCount - 1 : SegmentWords(e, i) \in Nat
  PROVE  \E B : Counts(B, e)
<1> DEFINE n == e.command.sgCount
           sw(i) == SegmentWords(e, i)
           Upto(k, B) == /\ B \in [0 .. k -> Nat] /\ B[0] = 0
                         /\ \A i \in 1 .. k : B[i] = B[i - 1] + sw(i - 1)
           Missing == {k \in 0 .. n : ~ \E B : Upto(k, B)}
<1>1. n \in Nat /\ \A i \in 0 .. n - 1 : sw(i) \in Nat
  OBVIOUS
<1> HIDE DEF n, sw
<1>2. Missing = {}
  <2> SUFFICES ASSUME Missing # {} PROVE FALSE
    OBVIOUS
  <2>1. Missing \subseteq Nat
    BY <1>1
  <2>2. PICK k \in Missing : \A j \in Missing : k <= j
    BY <2>1, LeastNumber
  <2>3. k \in 0 .. n /\ ~ \E B : Upto(k, B)
    BY <2>2
  <2>4. CASE k = 0
    <3> DEFINE Z == [i \in 0 .. 0 |-> 0]
    <3>1. Upto(0, Z)
      OBVIOUS
    <3>2. QED
      BY <2>3, <2>4, <3>1
  <2>5. CASE k # 0
    <3>1. k - 1 \in 0 .. n /\ ~(k <= k - 1) /\ k \in Nat /\ k > 0
      BY <1>1, <2>3, <2>5
    <3>2. k - 1 \notin Missing
      BY <2>2, <3>1
    <3>3. PICK B : Upto(k - 1, B)
      BY <3>1, <3>2
    <3>4. sw(k - 1) \in Nat /\ B[k - 1] \in Nat
      <4>1. k - 1 \in 0 .. n - 1 /\ k - 1 \in 0 .. k - 1
        BY <1>1, <2>3, <3>1
      <4>2. QED
        BY <1>1, <3>3, <4>1
    <3> DEFINE C == [i \in 0 .. k |-> IF i = k THEN B[k - 1] + sw(k - 1) ELSE B[i]]
    <3>5. C \in [0 .. k -> Nat] /\ C[0] = 0
      BY <3>1, <3>3, <3>4
    <3>6. ASSUME NEW i \in 1 .. k PROVE C[i] = C[i - 1] + sw(i - 1)
      <4>1. i \in 0 .. k /\ i - 1 \in 0 .. k /\ i - 1 # k
        BY <3>1
      <4>2. CASE i = k
        BY <4>1, <4>2
      <4>3. CASE i # k
        <5>1. i \in 1 .. k - 1
          BY <3>1, <4>3
        <5>2. C[i] = B[i] /\ C[i - 1] = B[i - 1]
          BY <4>1, <4>3
        <5>3. QED
          BY <3>3, <5>1, <5>2
      <4>4. QED
        BY <4>2, <4>3
    <3> HIDE DEF C
    <3>7. Upto(k, C)
      BY <3>5, <3>6
    <3>8. QED
      BY <2>3, <3>7
  <2>6. QED
    BY <2>4, <2>5
<1>3. n \in 0 .. n
  BY <1>1
<1>4. PICK B : Upto(n, B)
  BY <1>2, <1>3
<1>5. QED
  BY <1>4 DEF Counts, n, sw

\* WordsBefore is that solution.
LEMMA WordsBeforeCounts ==
  ASSUME NEW e, e.command.sgCount \in Nat,
         \A i \in 0 .. e.command.sgCount - 1 : SegmentWords(e, i) \in Nat
  PROVE  Counts(WordsBefore(e), e)
<1> DEFINE n == e.command.sgCount
           sw(i) == SegmentWords(e, i)
           Solves(B) == B = [i \in 0 .. n |-> IF i = 0 THEN 0 ELSE B[i - 1] + sw(i - 1)]
           W == WordsBefore(e)
<1>1. n \in Nat /\ \A i \in 0 .. n - 1 : sw(i) \in Nat
  OBVIOUS
<1>2. W = CHOOSE B : Solves(B)
  BY DEF WordsBefore
<1>3. \E B : Solves(B)
  <2>1. PICK B : Counts(B, e)
    BY CountsExist
  <2>2. B \in [0 .. n -> Nat] /\ B[0] = 0 /\ \A i \in 1 .. n : B[i] = B[i - 1] + sw(i - 1)
    BY <2>1 DEF Counts
  <2> HIDE DEF n, sw
  <2>3. ASSUME NEW i \in 0 .. n
        PROVE  B[i] = IF i = 0 THEN 0 ELSE B[i - 1] + sw(i - 1)
    <3>1. i = 0 \/ i \in 1 .. n
      BY <1>1
    <3>2. QED
      BY <2>2, <3>1
  <2>4. Solves(B)
    BY <2>2, <2>3
  <2>5. QED
    BY <2>4
<1> HIDE DEF n, sw, W
<1>4. Solves(W)
  <2> HIDE DEF Solves
  <2>1. QED
    BY <1>2, <1>3
<1>5. /\ DOMAIN W = 0 .. n /\ W[0] = 0 /\ \A i \in 1 .. n : W[i] = W[i - 1] + sw(i - 1)
      /\ W = [i \in 0 .. n |-> W[i]]
  <2>1. W[0] = 0
    BY <1>1, <1>4
  <2>2. ASSUME NEW i \in 1 .. n PROVE W[i] = W[i - 1] + sw(i - 1)
    <3>1. i \in 0 .. n /\ i # 0
      BY <1>1
    <3>2. QED
      BY <1>4, <3>1
  <2>3. DOMAIN W = 0 .. n
    BY <1>4
  <2>4. W = [i \in 0 .. n |-> W[i]]
    BY <1>4, <2>3
  <2>5. QED
    BY <2>1, <2>2, <2>3, <2>4
<1>6. \A i \in 0 .. n : W[i] \in Nat
  <2> DEFINE Wrong == {i \in 0 .. n : W[i] \notin Nat}
  <2> SUFFICES ASSUME Wrong # {} PROVE FALSE
    OBVIOUS
  <2>1. Wrong \subseteq Nat
    BY <1>1
  <2>2. PICK k \in Wrong : \A j \in Wrong : k <= j
    BY <2>1, LeastNumber
  <2>3. k \in 0 .. n /\ W[k] \notin Nat /\ k # 0
    BY <1>5, <2>2
  <2>4. k \in 1 .. n /\ k - 1 \in 0 .. n - 1 /\ k - 1 \in 0 .. n /\ ~(k <= k - 1)
    BY <1>1, <2>3
  <2>5. W[k - 1] \in Nat
    BY <2>2, <2>4
  <2>6. W[k] = W[k - 1] + sw(k - 1) /\ sw(k - 1) \in Nat
    BY <1>1, <1>5, <2>4
  <2>7. QED
    BY <2>3, <2>5, <2>6
<1>7. W \in [0 .. n -> Nat]
  BY <1>5, <1>6
<1>8. QED
  BY <1>5, <1>7 DEF Counts, W, n, sw

\* A later segment has no fewer words before it.
LEMMA CountsGrow ==
  ASSUME NEW e, NEW B, Counts(B, e), e.command.sgCount \in Nat,
         \A i \in 0 .. e.command.sgCount - 1 : SegmentWords(e, i) \in Nat,
         NEW i \in 0 .. e.command.sgCount, NEW j \in 0 .. e.command.sgCount, i <= j
  PROVE  B[i] <= B[j]
<1> DEFINE n == e.command.sgCount
           Wrong == {k \in 0 .. n : i <= k /\ ~(B[i] <= B[k])}
<1>1. /\ n \in Nat /\ B \in [0 .. n -> Nat]
      /\ \A k \in 1 .. n : B[k] = B[k - 1] + SegmentWords(e, k - 1)
  BY DEF Counts
<1> SUFFICES ASSUME Wrong # {} PROVE FALSE
  OBVIOUS
<1> HIDE DEF n
<1>2. i \in 0 .. n /\ j \in 0 .. n
  BY DEF n
<1>3. PICK k \in Wrong : \A l \in Wrong : k <= l
  <2>1. Wrong \subseteq Nat
    BY <1>1
  <2>2. QED
    BY <2>1, LeastNumber
<1>4. k \in 0 .. n /\ i <= k /\ ~(B[i] <= B[k]) /\ B[i] \in Nat /\ B[k] \in Nat
  BY <1>1, <1>2, <1>3
<1>5. k # i
  BY <1>4
<1>6. k \in 1 .. n /\ k - 1 \in 0 .. n /\ k - 1 \in 0 .. n - 1 /\ i <= k - 1 /\ ~(k <= k - 1)
  BY <1>1, <1>2, <1>4, <1>5
<1>7. B[i] <= B[k - 1] /\ B[k - 1] \in Nat
  BY <1>1, <1>3, <1>6
<1>8. B[k] = B[k - 1] + SegmentWords(e, k - 1) /\ SegmentWords(e, k - 1) \in Nat
  BY <1>1, <1>6 DEF n
<1>9. QED
  BY <1>4, <1>7, <1>8

\* Lists of the same lengths have the same words before each segment.
LEMMA CountsAgree ==
  ASSUME NEW e, NEW f, NEW B, NEW C, Counts(B, e), Counts(C, f),
         e.command.sgCount \in Nat, f.command.sgCount = e.command.sgCount,
         \A i \in 0 .. e.command.sgCount - 1 : SegmentWords(f, i) = SegmentWords(e, i)
  PROVE  B = C
<1> DEFINE n == e.command.sgCount
           Wrong == {k \in 0 .. n : B[k] # C[k]}
<1>1. /\ n \in Nat /\ B \in [0 .. n -> Nat] /\ C \in [0 .. n -> Nat] /\ B[0] = C[0]
      /\ \A k \in 1 .. n : /\ B[k] = B[k - 1] + SegmentWords(e, k - 1)
                           /\ C[k] = C[k - 1] + SegmentWords(f, k - 1)
      /\ \A i \in 0 .. n - 1 : SegmentWords(f, i) = SegmentWords(e, i)
  BY DEF Counts
<1> HIDE DEF n
<1>2. Wrong = {}
  <2> SUFFICES ASSUME Wrong # {} PROVE FALSE
    OBVIOUS
  <2>1. Wrong \subseteq Nat
    BY <1>1
  <2>2. PICK k \in Wrong : \A l \in Wrong : k <= l
    BY <2>1, LeastNumber
  <2>3. k \in 0 .. n /\ B[k] # C[k] /\ k # 0
    BY <1>1, <2>2
  <2>4. k \in 1 .. n /\ k - 1 \in 0 .. n /\ k - 1 \in 0 .. n - 1 /\ ~(k <= k - 1)
    BY <1>1, <2>3
  <2>5. B[k - 1] = C[k - 1]
    BY <2>2, <2>4
  <2>6. QED
    BY <1>1, <2>3, <2>4, <2>5
<1>3. \A k \in 0 .. n : B[k] = C[k]
  BY <1>2
<1> HIDE DEF Wrong
<1>4. QED
  BY <1>1, <1>3

\* The words of every segment of a list that passed validation.
LEMMA SegmentsAre ==
  ASSUME NEW e \in Endpoint, Underway(e)
  PROVE  \A i \in 0 .. e.command.sgCount - 1 :
           /\ SegmentWords(e, i) \in Nat /\ SegmentWords(e, i) > 0
           /\ e.sg[i].address.offset \in Nat /\ e.sg[i].address.offset % WordBytes = 0
<1> SUFFICES ASSUME NEW i \in 0 .. e.command.sgCount - 1
             PROVE  /\ SegmentWords(e, i) \in Nat /\ SegmentWords(e, i) > 0
                    /\ e.sg[i].address.offset \in Nat
                    /\ e.sg[i].address.offset % WordBytes = 0
  OBVIOUS
<1>1. e.command \in Commands /\ e.command.sgCount <= MaxSg /\ e.command.sgCount \in Nat
  BY UnderwayIs
<1>2. e.command.sgCount > 0
  BY <1>1
<1>3. ValidEntries(e)
  BY <1>2 DEF Underway
<1> DEFINE l == Length(e.sg[i].length)
           w == SegmentWords(e, i)
<1>4. /\ e.sg[i].address \in Word /\ w \in Nat /\ l = w * WordBytes
      /\ HandleRangeOk(e.sg[i].address, l)
  BY <1>1, <1>3, SegmentIs
<1> HIDE DEF l, w
<1>5. w # 0 /\ e.sg[i].address.offset % WordBytes = 0
  BY <1>4 DEF HandleRangeOk, WordBytes
<1>6. e.sg[i].address.offset \in Nat
  BY <1>4, Sizes DEF Word
<1>7. QED
  BY <1>4, <1>5, <1>6 DEF w

LEMMA BeforeIs ==
  ASSUME NEW e \in Endpoint, Underway(e)
  PROVE  Counts(WordsBefore(e), e)
<1>1. e.command.sgCount \in Nat
  BY UnderwayIs
<1>2. QED
  BY <1>1, SegmentsAre, WordsBeforeCounts

\* Word "off" of segment i is the buffer's longword of that number.
LEMMA SegmentPlace ==
  ASSUME NEW e \in Endpoint, Underway(e), NEW m, Matches(e, m),
         NEW i \in 0 .. e.command.sgCount - 1, NEW off \in Nat, off < SegmentWords(e, i)
  PROVE  BufferPlace(m, e.command, WordsBefore(e)[i] + off) = PlaceOf(e.sg[i].address, off)
<1> DEFINE c == e.command
           n == c.sgCount
           listed == [sg |-> Listed(m, c), command |-> c]
           B == WordsBefore(e)
           k == B[i] + off
           here(j) == B[j] <= k /\ k < B[j + 1]
<1>1. n \in Nat /\ n # 0 /\ i \in 0 .. n - 1
  BY UnderwayIs
<1>2. Counts(B, e)
  BY BeforeIs
<1>3. \A j \in 0 .. n - 1 :
        /\ SegmentWords(e, j) \in Nat /\ SegmentWords(listed, j) = SegmentWords(e, j)
        /\ listed.sg[j].address = e.sg[j].address
  BY SegmentsAre DEF Matches, SegmentWords
<1>4. listed.command.sgCount = n
  OBVIOUS
<1>5. Counts(WordsBefore(listed), listed)
  <2> HIDE DEF listed
  <2>1. \A j \in 0 .. listed.command.sgCount - 1 : SegmentWords(listed, j) \in Nat
    BY <1>3, <1>4
  <2>2. QED
    BY <1>1, <1>4, <2>1, WordsBeforeCounts
<1> HIDE DEF listed, B
<1>6. WordsBefore(listed) = B
  BY <1>1, <1>2, <1>3, <1>4, <1>5, CountsAgree
<1>7. BufferPlace(m, c, k) =
        LET j == CHOOSE j \in 0 .. n - 1 : here(j)
        IN  PlaceOf(listed.sg[j].address, k - B[j])
  BY <1>1, <1>6 DEF BufferPlace, listed
<1>8. /\ \A j \in 0 .. n : B[j] \in Nat
      /\ \A j \in 0 .. n - 1 : B[j + 1] = B[j] + SegmentWords(e, j)
  <2>1. B \in [0 .. n -> Nat] /\ \A j \in 1 .. n : B[j] = B[j - 1] + SegmentWords(e, j - 1)
    BY <1>2 DEF Counts
  <2>2. ASSUME NEW j \in 0 .. n - 1 PROVE B[j + 1] = B[j] + SegmentWords(e, j)
    <3>1. j + 1 \in 1 .. n /\ (j + 1) - 1 = j
      BY <1>1
    <3>2. QED
      BY <2>1, <3>1
  <2>3. QED
    BY <2>1, <2>2
<1>9. here(i)
  <2>1. B[i + 1] = B[i] + SegmentWords(e, i) /\ B[i] \in Nat /\ SegmentWords(e, i) \in Nat
    BY <1>1, <1>3, <1>8
  <2>2. QED
    BY <2>1
<1>10. ASSUME NEW j \in 0 .. n - 1, here(j) PROVE j = i
  <2>1. /\ i \in 0 .. n /\ j \in 0 .. n /\ i + 1 \in 0 .. n /\ j + 1 \in 0 .. n
        /\ B[i] \in Nat /\ B[j] \in Nat /\ B[i + 1] \in Nat /\ B[j + 1] \in Nat /\ k \in Nat
    BY <1>1, <1>8
  <2>2. CASE i < j
    <3>1. B[i + 1] <= B[j]
      <4>1. i + 1 <= j
        BY <2>1, <2>2
      <4>2. QED
        BY <1>1, <1>2, <1>3, <2>1, <4>1, CountsGrow
    <3>2. QED
      BY <1>9, <1>10, <2>1, <3>1
  <2>3. CASE j < i
    <3>1. B[j + 1] <= B[i]
      <4>1. j + 1 <= i
        BY <2>1, <2>3
      <4>2. QED
        BY <1>1, <1>2, <1>3, <2>1, <4>1, CountsGrow
    <3>2. QED
      BY <1>9, <1>10, <2>1, <3>1
  <2>4. QED
    BY <2>1, <2>2, <2>3
<1> HIDE DEF here
<1>11. (CHOOSE j \in 0 .. n - 1 : here(j)) = i
  BY <1>1, <1>9, <1>10
<1>12. BufferPlace(m, c, k) = PlaceOf(listed.sg[i].address, k - B[i])
  BY <1>7, <1>11
<1>13. k - B[i] = off
  BY <1>1, <1>8
<1>14. QED
  BY <1>1, <1>3, <1>12, <1>13 DEF B

\* The place of a burst's next word is that of the next word of the buffer.
LEMMA BurstPlace ==
  ASSUME NEW e \in Endpoint, PayloadBurst(e), NEW m, Placed(e, m), e.moved < e.req.words
  PROVE  /\ BufferPlace(m, e.command, e.index + e.moved) = PlaceOf(e.req.address, e.moved)
         /\ e.index + e.moved \in Span(e.command)
         /\ Span(e.command) = 0 .. e.words - 1 /\ e.words \in Nat
<1>1. /\ Underway(e) /\ e.req.words \in Nat /\ e.moved \in Nat /\ e.index \in Nat
      /\ e.words \in Nat /\ e.offset \in Nat /\ e.segment \in Nat
      /\ e.command \in Commands /\ e.command.sgCount \in Nat /\ e.command.data \in Word
      /\ e.index + e.req.words <= e.words
  BY UnderwayIs, Sizes DEF PayloadBurst, Endpoint
<1>2. e.index + e.moved \in Span(e.command) /\ Span(e.command) = 0 .. e.words - 1
  <2>1. TransferBytes(e.command) = 4 * e.words
    BY <1>1 DEF Underway, WordBytes
  <2>2. TransferBytes(e.command) \div 4 = e.words
    BY <1>1, <2>1, SumOfWords
  <2>3. QED
    BY <1>1, <2>2 DEF Span, WordBytes
<1>3. ASSUME NEW h, h.offset \in Nat, h.offset % WordBytes = 0, NEW x \in Nat,
             h = [window |-> h.window, offset |-> h.offset]
      PROVE  PlaceOf(HandleAdd(h, x * WordBytes), e.moved) = PlaceOf(h, x + e.moved)
  <2> DEFINE a == HandleAdd(h, x * WordBytes)
  <2>1. a = [window |-> h.window, offset |-> h.offset + 4 * x]
    BY <1>3 DEF HandleAdd, WordBytes
  <2>2. (h.offset + 4 * x) \div 4 = (h.offset \div 4) + x /\ h.offset \div 4 \in Nat
    BY <1>3, SumOfWords, Division DEF WordBytes
  <2>3. (a.offset \div 4) + e.moved = (h.offset \div 4) + (x + e.moved)
    BY <1>1, <1>3, <2>1, <2>2
  <2>4. a.window = h.window
    BY <2>1
  <2> HIDE DEF a
  <2>5. QED
    BY <2>3, <2>4 DEF PlaceOf, WordBytes, a
<1>4. CASE e.command.sgCount = 0
  <2> DEFINE h == e.command.data
  <2>1. HandleRangeOk(h, TransferBytes(e.command))
    BY <1>1, <1>4 DEF Underway, Moves, ValidBuffer
  <2>2. h.offset \in Nat /\ h.offset % WordBytes = 0 /\ h = [window |-> h.window, offset |-> h.offset]
    BY <1>1, <2>1, Sizes DEF HandleRangeOk, Word
  <2>3. e.req.address = HandleAdd(h, e.index * WordBytes)
    BY <1>4 DEF PayloadBurst
  <2>4. BufferPlace(m, e.command, e.index + e.moved) = PlaceOf(h, e.index + e.moved)
    BY <1>4 DEF BufferPlace
  <2> HIDE DEF h
  <2>5. PlaceOf(e.req.address, e.moved) = PlaceOf(h, e.index + e.moved)
    BY <1>1, <1>3, <2>2, <2>3
  <2>6. QED
    BY <1>1, <1>2, <2>4, <2>5
<1>5. CASE e.command.sgCount # 0
  <2> DEFINE h == e.sg[e.segment].address
             s == e.segment
             B == WordsBefore(e)
  <2>1. /\ e.command.sgCount > 0 /\ s \in 0 .. e.command.sgCount - 1
        /\ Matches(e, m) /\ B[s] + e.offset = e.index
        /\ e.offset + e.req.words <= SegmentWords(e, s)
        /\ e.req.address = HandleAdd(h, e.offset * WordBytes)
    BY <1>1, <1>5 DEF Placed, PayloadBurst
  <2>2. SegmentWords(e, s) \in Nat /\ h.offset \in Nat /\ h.offset % WordBytes = 0
    BY <1>1, <2>1, SegmentsAre
  <2>3. h = [window |-> h.window, offset |-> h.offset]
    <3>1. s \in 0 .. MaxSg - 1
      BY <1>1, <2>1, UnderwayIs, Sizes
    <3>2. h \in Word
      BY <3>1 DEF Endpoint, Lists
    <3>3. QED
      BY <3>2 DEF Word
  <2>4. e.offset + e.moved \in Nat /\ e.offset + e.moved < SegmentWords(e, s)
    BY <1>1, <2>1, <2>2
  <2>5. B[s] \in Nat
    BY <1>1, <2>1, BeforeIs DEF Counts
  <2>6. B[s] + (e.offset + e.moved) = e.index + e.moved
    BY <1>1, <2>1, <2>5
  <2>7. BufferPlace(m, e.command, B[s] + (e.offset + e.moved)) = PlaceOf(h, e.offset + e.moved)
    BY <1>1, <2>1, <2>4, SegmentPlace
  <2> HIDE DEF h
  <2>8. PlaceOf(e.req.address, e.moved) = PlaceOf(h, e.offset + e.moved)
    BY <1>1, <1>3, <2>1, <2>2, <2>3
  <2>9. QED
    BY <1>1, <1>2, <2>6, <2>7, <2>8
<1>6. QED
  BY <1>4, <1>5

-----------------------------------------------------------------------------
(* The engine's methods, and the payload.                                   *)

LEMMA PlacedSame ==
  ASSUME NEW e, NEW f, NEW m, Placed(e, m), f.sg = e.sg, f.command = e.command,
         f.segment = e.segment, f.offset = e.offset, f.index = e.index
  PROVE  Placed(f, m)
<1>1. WordsBefore(f) = WordsBefore(e)
  BY DEF WordsBefore, SegmentWords
<1>2. SegmentWords(f, f.segment) = SegmentWords(e, e.segment)
  BY DEF SegmentWords
<1>3. QED
  BY <1>1, <1>2 DEF Placed, Matches

LEMMA DeliveredSame ==
  ASSUME NEW e, NEW f, NEW m, NEW d, NEW n, Delivered(e, m, d, n),
         f.payload = e.payload, f.command = e.command
  PROVE  Delivered(f, m, d, n)
  BY DEF Delivered

LEMMA FinishHas ==
  ASSUME NEW e \in Endpoint, NEW status, NEW blocks, NEW durable
  PROVE  LET r == Finish(e, status, blocks, durable)
         IN  r.state = "Complete" /\ r.command = e.command /\ r.completion.status = status
<1> DEFINE done == [tag |-> e.command.tag, status |-> status, durable |-> durable, blocks |-> blocks]
           r == Finish(e, status, blocks, durable)
<1>1. r = [e EXCEPT !.completion = done, !.dma = "Idle", !.req = None, !.state = "Complete"]
  BY DEF Finish
<1>2. done.status = status
  OBVIOUS
<1> HIDE DEF done, r
<1>3. r.state = "Complete" /\ r.command = e.command /\ r.completion = done
  BY <1>1 DEF Endpoint
<1>4. QED
  BY <1>2, <1>3 DEF r

\* What is refused, and what is no read, says nothing about the buffer.
LEMMA FinishWhole ==
  ASSUME NEW e \in Endpoint, NEW status, NEW blocks, NEW durable, NEW m, NEW d,
         status # "Success" \/ e.command.opcode # "Read"
  PROVE  Whole(Finish(e, status, blocks, durable), m, d)
<1> DEFINE r == Finish(e, status, blocks, durable)
<1>1. r.state = "Complete" /\ r.command = e.command /\ r.completion.status = status
  BY FinishHas
<1> HIDE DEF r
<1>2. Whole(r, m, d)
  BY <1>1 DEF Whole, ReadWhole
<1>3. QED
  BY <1>2 DEF r

LEMMA RequestHas ==
  ASSUME NEW e \in Endpoint, NEW kind, NEW direction, NEW address, NEW words
  PROVE  LET r == Request(e, kind, direction, address, words)
         IN  /\ r.state = e.state /\ r.command = e.command /\ r.payload = e.payload
             /\ r.sg = e.sg /\ r.sgEntry = e.sgEntry /\ r.sgPart = e.sgPart
             /\ r.segment = e.segment /\ r.offset = e.offset /\ r.index = e.index
             /\ r.moved = 0 /\ r.req.direction = direction
             /\ r.words = e.words /\ r.dma = "Request"
<1> DEFINE b == [direction |-> direction, address |-> address, words |-> words]
           r == Request(e, kind, direction, address, words)
<1>1. r = [e EXCEPT !.req = b, !.kind = kind, !.moved = 0, !.dma = "Request"]
      /\ b.direction = direction
  BY DEF Request
<1> HIDE DEF b, r
<1>2. /\ r.state = e.state /\ r.command = e.command /\ r.payload = e.payload
      /\ r.sg = e.sg /\ r.sgEntry = e.sgEntry /\ r.sgPart = e.sgPart
      /\ r.segment = e.segment /\ r.offset = e.offset /\ r.index = e.index
      /\ r.moved = 0 /\ r.req = b /\ r.words = e.words /\ r.dma = "Request"
  BY <1>1 DEF Endpoint
<1>3. QED
  BY <1>1, <1>2 DEF r

\* A burst asked for has moved nothing yet.
LEMMA RequestWhole ==
  ASSUME NEW e \in Endpoint, e.state = "Transfer", NEW m, NEW d, Placed(e, m),
         Delivered(e, m, d, e.index), NEW kind, NEW address, NEW words
  PROVE  Whole(Request(e, kind, Way(e.command), address, words), m, d)
<1> DEFINE direction == Way(e.command)
           r == Request(e, kind, direction, address, words)
<1>1. /\ r.state = e.state /\ r.command = e.command /\ r.payload = e.payload
      /\ r.sg = e.sg /\ r.segment = e.segment /\ r.offset = e.offset /\ r.index = e.index
      /\ r.moved = 0 /\ r.req.direction = direction
  BY RequestHas
<1> HIDE DEF r
<1>2. Placed(r, m) /\ Delivered(r, m, d, e.index)
  BY <1>1, PlacedSame, DeliveredSame
<1>3. r.index + r.moved = e.index
  BY <1>1 DEF Endpoint
<1>4. Whole(r, m, d)
  BY <1>1, <1>2, <1>3 DEF Whole, ReadWhole
<1>5. QED
  BY <1>4 DEF r

\* The words of a command that transfers a block.
LEMMA BlockIs ==
  ASSUME NEW e \in Endpoint, Underway(e), e.command.opcode \in Writes \cup {"Read"}
  PROVE  /\ e.words = BlockWords[e.command.namespace]
         /\ BlockWords[e.command.namespace] \in 1 .. PayloadWords
<1>1. e.command.opcode \notin Reports /\ e.words \in Nat
  BY UnderwayIs DEF Writes, Reports
<1>2. BlockWords[e.command.namespace] \in 1 .. PayloadWords
  BY <1>1, NamespaceIs DEF Underway, Moves, Extents
<1>3. e.words * 4 = 4 * BlockWords[e.command.namespace]
  BY <1>1 DEF Underway, TransferBytes, WordBytes
<1>4. QED
  BY <1>1, <1>2, <1>3, Sizes

\* The payload is done when all of it is delivered.
LEMMA PayloadDoneWhole ==
  ASSUME NEW e \in Endpoint, Underway(e), e.index >= e.words, NEW m, NEW d,
         Delivered(e, m, d, e.index)
  PROVE  Whole(PayloadDone(e), m, d)
<1> DEFINE idle == [e EXCEPT !.dma = "Idle", !.req = None]
           r == PayloadDone(e)
           c == e.command
<1>1. /\ idle \in Endpoint /\ idle.command = c /\ idle.payload = e.payload
  BY Constants DEF Endpoint
<1>2. e.index = e.words /\ e.words \in Nat
  BY UnderwayIs
<1>3. CASE c.opcode \in Writes
  <2>1. r = [idle EXCEPT !.state = "MediaCommit"]
    BY <1>3 DEF PayloadDone
  <2> HIDE DEF idle, r
  <2>2. r.command = c /\ r.payload = e.payload /\ r.state = "MediaCommit"
    BY <1>1, <2>1 DEF Endpoint
  <2>3. e.index = BlockWords[c.namespace]
    BY <1>2, <1>3, BlockIs
  <2>4. Delivered(r, m, d, BlockWords[c.namespace])
    BY <2>2, <2>3, DeliveredSame
  <2>5. Whole(r, m, d)
    BY <2>2, <2>4 DEF Whole, ReadWhole
  <2>6. QED
    BY <2>5 DEF r
<1>4. CASE c.opcode \notin Writes
  <2> DEFINE blocks == IF c.opcode = "Read" THEN c.blocks ELSE 0
  <2>1. r = Finish(idle, "Success", blocks, FALSE)
    BY <1>1, <1>4 DEF PayloadDone
  <2> HIDE DEF idle, r, blocks
  <2>2. r.state = "Complete" /\ r.command = c
    <3>1. \A status, bl, durable : /\ Finish(idle, status, bl, durable).state = "Complete"
                                   /\ Finish(idle, status, bl, durable).command = idle.command
      BY <1>1, FinishHas
    <3>2. QED
      BY <1>1, <2>1, <3>1, Zenon
  <2>3. ASSUME c.opcode = "Read", NEW k \in 0 .. BlockWords[c.namespace] - 1
        PROVE  m[BufferPlace(m, c, k)] = d.blocks[<<c.namespace, c.lba>>][k]
    <3>1. e.index = BlockWords[c.namespace]
      BY <1>2, <2>3, BlockIs
    <3>2. e.payload[k] = m[BufferPlace(m, c, k)]
      BY <2>3, <3>1 DEF Delivered
    <3>3. e.payload[k] = d.blocks[<<c.namespace, c.lba>>][k]
      BY <2>3 DEF Delivered
    <3>4. QED
      BY <3>2, <3>3
  <2>4. ReadWhole(r, m, d)
    BY <2>2, <2>3 DEF ReadWhole
  <2>5. Whole(r, m, d)
    BY <2>2, <2>4 DEF Whole
  <2>6. QED
    BY <2>5 DEF r
<1>5. QED
  BY <1>3, <1>4

\* The walk over the list skips no word: every segment has one.
LEMMA NextSegmentPlaced ==
  ASSUME NEW e \in Endpoint, Underway(e), e.command.sgCount > 0, NEW m, Placed(e, m),
         NextSegment(e).segment < e.command.sgCount
  PROVE  /\ Placed(NextSegment(e), m) /\ NextSegment(e).payload = e.payload
<1> DEFINE left(i) == IF i = e.segment THEN e.offset ELSE 0
           n == e.command.sgCount
           s == e.segment
           open == {i \in s .. n - 1 : left(i) < SegmentWords(e, i)}
           next == IF open = {} THEN n ELSE Min(open)
           offset == IF next = s THEN e.offset ELSE 0
           B == WordsBefore(e)
           r == NextSegment(e)
<1>1. /\ s \in Nat /\ n \in Nat /\ e.offset \in Nat /\ e.index \in Nat
      /\ Matches(e, m) /\ s < n /\ e.offset <= SegmentWords(e, s) /\ B[s] + e.offset = e.index
  BY UnderwayIs DEF Placed
<1>2. \A i \in 0 .. n - 1 : SegmentWords(e, i) \in Nat /\ SegmentWords(e, i) > 0
  BY SegmentsAre
<1>3. \A i \in 0 .. n : B[i] \in Nat
  BY BeforeIs DEF Counts
<1>4. r = [e EXCEPT !.segment = next, !.offset = offset]
  BY DEF NextSegment, Endpoint
<1>5. s \in 0 .. n - 1 /\ open \subseteq Nat
  BY <1>1
<1> HIDE DEF offset, B, r
<1>6. /\ r.segment = next /\ r.offset = offset /\ r.command = e.command /\ r.sg = e.sg
      /\ r.index = e.index /\ r.payload = e.payload
  BY <1>4 DEF Endpoint
<1>7. WordsBefore(r) = B /\ \A i : SegmentWords(r, i) = SegmentWords(e, i)
  BY <1>6 DEF B, WordsBefore, SegmentWords
<1>8. next < n
  BY <1>6 DEF r
<1>9. open # {} /\ next = Min(open)
  BY <1>1, <1>8
<1>10. next \in open /\ \A i \in open : next =< i
  BY <1>5, <1>9, MinIs
<1> HIDE DEF next
<1>11. next \in s .. n - 1 /\ left(next) < SegmentWords(e, next)
  BY <1>10
<1>12. CASE e.offset < SegmentWords(e, s)
  <2>1. s \in open
    BY <1>1, <1>5, <1>12
  <2>2. next = s
    BY <1>1, <1>10, <1>11, <2>1
  <2>3. QED
    BY <1>1, <1>6, <1>7, <2>2 DEF Placed, Matches, offset, r, B
<1>13. CASE ~(e.offset < SegmentWords(e, s))
  <2>1. e.offset = SegmentWords(e, s)
    BY <1>1, <1>2, <1>5, <1>13
  <2>2. next # s /\ next \in s + 1 .. n - 1
    BY <1>1, <1>11, <1>13
  <2>3. s + 1 \in open
    <3>1. s + 1 \in s .. n - 1 /\ s + 1 # s /\ s + 1 \in 0 .. n - 1
      BY <1>1, <2>2
    <3>2. QED
      BY <1>2, <3>1
  <2>4. next = s + 1
    BY <1>1, <1>10, <2>2, <2>3
  <2>5. B[s + 1] = B[s] + SegmentWords(e, s)
    <3>1. s + 1 \in 1 .. n /\ (s + 1) - 1 = s
      BY <1>1
    <3>2. QED
      BY <3>1, BeforeIs DEF Counts, B
  <2>6. offset = 0 /\ B[next] + 0 = e.index
    BY <1>1, <1>3, <1>5, <2>1, <2>2, <2>4, <2>5 DEF offset
  <2>7. 0 <= SegmentWords(e, next)
    BY <1>2, <1>5, <1>11
  <2>8. Placed(r, m)
    BY <1>1, <1>6, <1>7, <1>8, <2>6, <2>7 DEF Placed, Matches
  <2>9. QED
    BY <1>6, <2>8 DEF r
<1>14. QED
  BY <1>12, <1>13

\* The next burst goes on where the payload is, and after the last one all of it is there.
LEMMA StartPayloadWhole ==
  ASSUME NEW e \in Endpoint, e.completion = None, e.state = "Transfer", Underway(e),
         NEW m, NEW d, Placed(e, m), Delivered(e, m, d, e.index)
  PROVE  Whole(StartPayloadDma(e, Way(e.command)), m, d)
<1> DEFINE direction == Way(e.command)
           there == NextSegment(e)
           r == StartPayloadDma(e, direction)
<1>1. /\ e.command \in Commands /\ e.command.sgCount \in Nat
      /\ e.words \in Nat /\ e.index \in Nat
  BY UnderwayIs
<1>2. CASE e.index >= e.words
  BY <1>2, PayloadDoneWhole DEF StartPayloadDma
<1>3. CASE ~(e.index >= e.words) /\ e.command.sgCount = 0
  BY <1>3, RequestWhole DEF StartPayloadDma
<1>4. CASE ~(e.index >= e.words) /\ e.command.sgCount # 0
  <2>1. e.command.sgCount > 0
    BY <1>1, <1>4
  <2>2. /\ there \in Endpoint /\ there.state = "Transfer" /\ there.command = e.command
        /\ there.index = e.index
    BY <2>1, NextSegmentIs
  <2>3. r = IF there.segment >= e.command.sgCount THEN Finish(there, "InvalidField", 0, FALSE)
            ELSE SegmentBurst(there, direction)
    BY <1>4 DEF StartPayloadDma
  <2>4. there.segment \in Nat
    BY <2>2 DEF Endpoint
  <2>5. CASE there.segment >= e.command.sgCount
    <3> HIDE DEF there, r
    <3>1. Whole(r, m, d)
      BY <2>2, <2>3, <2>5, FinishWhole
    <3>2. QED
      BY <3>1 DEF r
  <2>6. CASE ~(there.segment >= e.command.sgCount)
    <3>1. there.segment < e.command.sgCount
      BY <1>1, <2>4, <2>6
    <3>2. Placed(there, m) /\ there.payload = e.payload
      BY <2>1, <3>1, NextSegmentPlaced
    <3> HIDE DEF there, r
    <3>3. Delivered(there, m, d, there.index)
      BY <2>2, <3>2, DeliveredSame
    <3>4. r = SegmentBurst(there, Way(there.command))
      BY <2>2, <2>3, <2>6
    <3>5. Whole(r, m, d)
      BY <2>2, <3>2, <3>3, <3>4, RequestWhole DEF SegmentBurst
    <3>6. QED
      BY <3>5 DEF r
  <2>7. QED
    BY <2>5, <2>6
<1>5. QED
  BY <1>2, <1>3, <1>4

\* The transfer of a command begins with nothing moved, at the first word of its buffer.
LEMMA TransferWhole ==
  ASSUME NEW e \in Endpoint, Moves(e.command), e.index = 0, e.segment = 0, e.offset = 0,
         e.completion = None, NEW m, NEW d,
         e.command.sgCount > 0 => ValidEntries(e) /\ Matches(e, m),
         NEW payload \in Staging, NEW words \in 0 .. PayloadWords,
         words * WordBytes = TransferBytes(e.command),
         e.command.opcode \notin Writes => Apart(m, e.command),
         e.command.opcode = "Read" =>
           \A k \in 0 .. BlockWords[e.command.namespace] - 1 :
             payload[k] = d.blocks[<<e.command.namespace, e.command.lba>>][k]
  PROVE  Whole(Transfer(e, payload, words, Way(e.command)), m, d)
<1> DEFINE t == [e EXCEPT !.payload = payload, !.words = words, !.state = "Transfer"]
<1>1. /\ t \in Endpoint /\ t.state = "Transfer" /\ t.words = words /\ t.completion = None
      /\ t.command = e.command /\ t.index = 0 /\ t.sg = e.sg /\ t.segment = 0 /\ t.offset = 0
      /\ t.payload = payload
  BY Constants DEF Endpoint
<1>2. Transfer(e, payload, words, Way(e.command)) = StartPayloadDma(t, Way(t.command))
  BY <1>1 DEF Transfer
<1> HIDE DEF t
<1>3. Underway(t) /\ t.command.sgCount \in Nat
  <2>1. words >= 0
    BY Sizes
  <2>2. Underway(t)
    BY <1>1, <2>1 DEF Underway, ValidEntries
  <2>3. QED
    BY <1>1, <2>2, UnderwayIs
<1>4. Placed(t, m)
  <2>1. SUFFICES ASSUME t.command.sgCount > 0
                 PROVE  /\ Matches(t, m)
                        /\ t.segment < t.command.sgCount /\ t.offset <= SegmentWords(t, t.segment)
                        /\ WordsBefore(t)[t.segment] + t.offset = t.index
    BY DEF Placed
  <2>2. Matches(t, m)
    BY <1>1, <2>1 DEF Matches
  <2>3. SegmentWords(t, 0) \in Nat
    BY <1>1, <1>3, <2>1, SegmentsAre
  <2>4. WordsBefore(t)[0] = 0
    BY <1>1, <1>3, BeforeIs DEF Counts
  <2>5. QED
    BY <1>1, <2>1, <2>2, <2>3, <2>4
<1>5. Delivered(t, m, d, t.index)
  BY <1>1 DEF Delivered
<1>6. QED
  BY <1>1, <1>2, <1>3, <1>4, <1>5, StartPayloadWhole

\* A read has staged the block it names, and a write has everything to come.
LEMMA StartOperationWhole ==
  ASSUME NEW e \in Endpoint, Moves(e.command), e.index = 0, e.segment = 0, e.offset = 0,
         e.completion = None, NEW m, NEW d, WholeMedia(d), NEW works \in BOOLEAN,
         e.command.sgCount > 0 => ValidEntries(e) /\ Matches(e, m),
         e.command.opcode \notin Writes => Apart(m, e.command)
  PROVE  Whole(StartOperation(e, d, works), m, d)
<1> DEFINE c == e.command
           r == StartOperation(e, d, works)
           words == IF c.opcode \in Reports THEN ReportWords ELSE BlockWords[c.namespace]
           block == d.blocks[<<c.namespace, c.lba>>]
<1>1. c \in Commands /\ (c.opcode \notin Reports => c.namespace \in Namespaces
                           /\ <<c.namespace, c.lba>> \in Extents)
  BY DEF Moves, Extents
<1>2. words \in 0 .. PayloadWords /\ words * WordBytes = TransferBytes(c)
  <2>1. words \in 1 .. PayloadWords
    BY <1>1, NamespaceIs, Sizes
  <2>2. QED
    BY <2>1, Sizes DEF TransferBytes, WordBytes
<1>3. c.opcode \in Reports \cup Writes \cup {"Read"}
  BY DEF Moves
<1> HIDE DEF words
<1>4. ASSUME NEW payload \in Staging,
             c.opcode = "Read" => \A k \in 0 .. BlockWords[c.namespace] - 1 : payload[k] = block[k]
      PROVE  Whole(Transfer(e, payload, words, Way(c)), m, d)
  BY <1>2, <1>4, TransferWhole
<1>5. CASE c.opcode \in Reports
  <2>1. Report(c) \in Staging /\ c.opcode # "Read" /\ Way(c) = "DeviceToHost"
    BY <1>1, <1>5, ReportIs DEF Moves, Reports, Way, Writes
  <2>2. r = Transfer(e, Report(c), words, "DeviceToHost")
    BY <1>5 DEF StartOperation, Transfer, words
  <2> HIDE DEF r
  <2>3. Whole(r, m, d)
    BY <1>4, <2>1, <2>2
  <2>4. QED
    BY <2>3 DEF r
<1>6. CASE c.opcode \notin Reports /\ c.opcode \in Writes
  <2>1. c.opcode # "Read" /\ Way(c) = "HostToDevice"
    BY <1>6 DEF Way, Writes
  <2>2. r = Transfer(e, NoPayload, words, "HostToDevice")
    BY <1>6 DEF StartOperation, Transfer, words
  <2> HIDE DEF r
  <2>3. Whole(r, m, d)
    BY <1>4, <2>1, <2>2, ZeroIs
  <2>4. QED
    BY <2>3 DEF r
<1>7. CASE c.opcode \notin Reports /\ c.opcode \notin Writes /\ works
  <2>1. block \in Block(c.namespace) /\ c.namespace \in Namespaces
    BY <1>1, <1>7 DEF WholeMedia
  <2>2. BlockWords[c.namespace] \in 1 .. PayloadWords /\ PayloadWords \in Nat
    BY <2>1, NamespaceIs, Sizes
  <2>3. Staged(block) \in Staging
    BY <2>1, StagedIs
  <2>4. \A k \in 0 .. BlockWords[c.namespace] - 1 : Staged(block)[k] = block[k]
    <3> DEFINE n == BlockWords[c.namespace]
    <3>1. DOMAIN block = 0 .. n - 1 /\ n \in Nat /\ n <= PayloadWords
      BY <2>1, <2>2 DEF Block
    <3> HIDE DEF n, block
    <3>2. ASSUME NEW k \in 0 .. n - 1 PROVE Staged(block)[k] = block[k]
      <4>1. k \in 0 .. PayloadWords - 1
        BY <2>2, <3>1
      <4>2. QED
        BY <3>1, <4>1 DEF Staged
    <3>3. QED
      BY <3>2 DEF n
  <2>5. r = Transfer(e, Staged(block), words, "DeviceToHost") /\ Way(c) = "DeviceToHost"
    BY <1>7 DEF StartOperation, Transfer, words, Way
  <2> HIDE DEF r, block
  <2>6. Whole(Transfer(e, Staged(block), words, Way(c)), m, d)
    BY <1>4, <2>3, <2>4 DEF block
  <2>7. Whole(r, m, d)
    BY <2>5, <2>6
  <2>8. QED
    BY <2>7 DEF r
<1>8. CASE c.opcode \notin Reports /\ c.opcode \notin Writes /\ ~works
  <2> DEFINE bare == [e EXCEPT !.payload = NoPayload]
  <2>1. bare \in Endpoint
    BY ZeroIs DEF Endpoint
  <2>2. r = Finish(bare, "MediaError", 0, FALSE)
    BY <1>8 DEF StartOperation
  <2> HIDE DEF r, bare
  <2>3. Whole(r, m, d)
    BY <2>1, <2>2, FinishWhole
  <2>4. QED
    BY <2>3 DEF r
<1>9. QED
  BY <1>5, <1>6, <1>7, <1>8

LEMMA ListFetchedSame ==
  ASSUME NEW e, NEW f, NEW m, NEW n, ListFetched(e, m, n), f.sg = e.sg, f.command = e.command
  PROVE  ListFetched(f, m, n)
  BY DEF ListFetched

\* The next word of the list is asked for, and the ones before it are there.
LEMMA StartSgWordWhole ==
  ASSUME NEW e \in Endpoint, e.state = "FetchSg", e.segment = 0, e.offset = 0,
         NEW m \in Images, NEW d, ListFetched(e, m, 2 * e.sgEntry + e.sgPart)
  PROVE  Whole(StartSgWordDma(e), m, d)
<1> DEFINE kind == IF e.sgPart = 0 THEN "SgAddress" ELSE "SgLength"
           address == HandleAdd(e.command.sg, (e.sgEntry * 2 + e.sgPart) * WordBytes)
           r == StartSgWordDma(e)
<1>1. r = Request(e, kind, "HostToDevice", address, 1)
  BY DEF StartSgWordDma
<1> HIDE DEF r, kind, address
<1>2. /\ r.state = "FetchSg" /\ r.command = e.command /\ r.sg = e.sg
      /\ r.sgEntry = e.sgEntry /\ r.sgPart = e.sgPart /\ r.segment = 0 /\ r.offset = 0
      /\ r.moved = 0
  BY <1>1, RequestHas
<1>3. 2 * r.sgEntry + r.sgPart + r.moved = 2 * e.sgEntry + e.sgPart
  BY <1>2 DEF Endpoint
<1>4. ListFetched(r, m, 2 * e.sgEntry + e.sgPart)
  BY <1>2, ListFetchedSame
<1>5. Whole(r, m, d)
  BY <1>2, <1>3, <1>4 DEF Whole, ReadWhole
<1>6. QED
  BY <1>5 DEF r

\* A list found valid once fetched is valid in memory, so the buffer it names is apart from it.
LEMMA ApartOnceFetched ==
  ASSUME NEW e \in Endpoint, Moves(e.command), NEW m \in Images,
         e.command.sgCount > 0 => ValidSg(e) /\ Matches(e, m), Followed(e.command)
  PROVE  e.command.opcode \notin Writes => Apart(m, e.command)
<1> SUFFICES ASSUME e.command.opcode \notin Writes PROVE Apart(m, e.command)
  OBVIOUS
<1> DEFINE c == e.command
           listed == [sg |-> Listed(m, c), command |-> c]
<1>1. c \in Commands /\ c.sgCount \in Nat /\ c.sgCount <= MaxSg
  BY CommandIs DEF Moves
<1>2. ASSUME c.sgCount > 0 PROVE ValidSg(listed)
  <2>1. ValidEntries(e) /\ WordsBefore(e)[c.sgCount] * WordBytes >= TransferBytes(c)
        /\ Matches(e, m)
    BY <1>2 DEF ValidSg
  <2>2. \A i \in 0 .. c.sgCount - 1 :
          /\ listed.sg[i].address = e.sg[i].address /\ listed.sg[i].length = e.sg[i].length
          /\ SegmentWords(listed, i) = SegmentWords(e, i) /\ SegmentWords(e, i) \in Nat
    BY <1>1, <2>1, SegmentIs DEF Matches, SegmentWords
  <2>3. listed.command = c
    OBVIOUS
  <2> HIDE DEF listed
  <2>4. Counts(WordsBefore(e), e)
    BY <1>1, <2>2, WordsBeforeCounts
  <2>5. Counts(WordsBefore(listed), listed)
    BY <1>1, <2>2, <2>3, WordsBeforeCounts
  <2>6. WordsBefore(listed) = WordsBefore(e)
    BY <1>1, <2>2, <2>3, <2>4, <2>5, CountsAgree
  <2>7. ValidEntries(listed)
    BY <2>1, <2>2, <2>3 DEF ValidEntries
  <2>8. QED
    BY <2>1, <2>3, <2>6, <2>7 DEF ValidSg
<1>3. ListedOk(m, c)
  BY <1>2 DEF ListedOk
<1>4. QED
  BY <1>1, <1>3 DEF Followed, SoftwareKeepsApart

\* A command accepted has a list to fetch, or its transfer begins.
LEMMA AcceptCommandWhole ==
  ASSUME NEW e \in Endpoint, e.completion = None, NEW m \in Images, NEW d, WholeMedia(d),
         NEW c \in Commands, NEW works \in BOOLEAN, Followed(c)
  PROVE  Whole(AcceptCommand(e, d, c, works), m, d)
<1> DEFINE here  == [e EXCEPT !.command = c, !.index = 0, !.segment = 0]
           near  == [here EXCEPT !.offset = 0]
           there == [near EXCEPT !.sgEntry = 0]
           taken == [there EXCEPT !.sgPart = 0, !.sg = NoSg]
           r == AcceptCommand(e, d, c, works)
           status == Validate(c)
<1>1. r = IF status # "Success" THEN Finish(taken, status, 0, FALSE)
          ELSE IF c.opcode = "Nop" THEN Finish(taken, "Success", 0, FALSE)
          ELSE IF c.opcode = "Flush"
          THEN Finish(taken, IF works THEN "Success" ELSE "MediaError", 0, FALSE)
          ELSE IF c.sgCount > 0 THEN StartSgWordDma([taken EXCEPT !.state = "FetchSg"])
          ELSE StartOperation(taken, d, works)
  BY DEF AcceptCommand
<1>2. /\ here \in Endpoint /\ here.command = c /\ here.index = 0 /\ here.completion = None
      /\ here.segment = 0
  BY DEF Endpoint
<1> HIDE DEF here
<1>3. /\ near \in Endpoint /\ near.command = c /\ near.index = 0 /\ near.completion = None
      /\ near.segment = 0 /\ near.offset = 0
  BY <1>2 DEF Endpoint
<1> HIDE DEF near
<1>4. /\ there \in Endpoint /\ there.command = c /\ there.index = 0 /\ there.completion = None
      /\ there.sgEntry = 0 /\ there.segment = 0 /\ there.offset = 0
  BY <1>3 DEF Endpoint
<1> HIDE DEF there
<1>5. /\ taken \in Endpoint /\ taken.command = c /\ taken.index = 0 /\ taken.completion = None
      /\ taken.sgEntry = 0 /\ taken.sgPart = 0 /\ taken.segment = 0 /\ taken.offset = 0
  BY <1>4, NoSgIs DEF Endpoint
<1> HIDE DEF taken, r, status
<1>6. CASE status # "Success" \/ c.opcode = "Nop" \/ c.opcode = "Flush"
  <2>1. PICK s \in {status, "Success", "MediaError"} :
          /\ r = Finish(taken, s, 0, FALSE)
          /\ s # "Success" \/ c.opcode # "Read"
    BY <1>1, <1>6
  <2>2. Whole(r, m, d)
    BY <1>5, <2>1, FinishWhole
  <2>3. QED
    BY <2>2 DEF r
<1>7. CASE status = "Success" /\ c.opcode \notin {"Nop", "Flush"}
  <2>1. Moves(c) /\ c.sgCount \in Nat
    BY <1>7, ValidateIs, CommandIs DEF status
  <2>2. CASE c.sgCount > 0
    <3> DEFINE f == [taken EXCEPT !.state = "FetchSg"]
    <3>1. /\ f \in Endpoint /\ f.state = "FetchSg" /\ f.command = c
          /\ f.sgEntry = 0 /\ f.sgPart = 0 /\ f.segment = 0 /\ f.offset = 0
      BY <1>5, Constants DEF Endpoint
    <3>2. r = StartSgWordDma(f)
      BY <1>1, <1>7, <2>2
    <3> HIDE DEF f
    <3>3. 2 * f.sgEntry + f.sgPart = 0
      BY <3>1
    <3>4. ListFetched(f, m, 0)
      BY <2>1, <3>1 DEF ListFetched
    <3>5. Whole(r, m, d)
      BY <3>1, <3>2, <3>3, <3>4, StartSgWordWhole
    <3>6. QED
      BY <3>5 DEF r
  <2>3. CASE ~(c.sgCount > 0)
    <3>1. r = StartOperation(taken, d, works)
      BY <1>1, <1>7, <2>3
    <3>2. c.opcode \notin Writes => Apart(m, c)
      BY <1>5, <2>1, <2>3, ApartOnceFetched
    <3>3. Whole(r, m, d)
      BY <1>5, <2>1, <2>3, <3>1, <3>2, StartOperationWhole
    <3>4. QED
      BY <3>3 DEF r
  <2>4. QED
    BY <2>2, <2>3
<1>8. QED
  BY <1>6, <1>7

-----------------------------------------------------------------------------
(* A burst, and the payload.                                                *)

\* The next word of a burst has a place in memory.
LEMMA BurstInPlaces ==
  ASSUME NEW e, EndpointInv(e), e.dma = "Transfer"
  PROVE  PlaceOf(e.req.address, e.moved) \in Places
<1> DEFINE a == e.req.address
           n == e.req.words
<1>1. e.req # None /\ e.moved < n
  BY DEF EndpointInv, Shape
<1>2. /\ e \in Endpoint /\ e.req \in BurstRequest
      /\ a.offset % WordBytes = 0 /\ a.offset + n * WordBytes <= OffsetSpace
  BY <1>1, BurstFits
<1>3. a \in Word /\ n \in Nat /\ e.moved \in Nat
  BY <1>2 DEF BurstRequest, Endpoint
<1> HIDE DEF a, n
<1>4. <<a.window, (a.offset \div WordBytes) + e.moved>> \in Places
  BY <1>1, <1>2, <1>3, PlacesOfBurst
<1>5. QED
  BY <1>4 DEF PlaceOf, a

\* The place of the list's word that a burst fetches.
LEMMA ListWordPlace ==
  ASSUME NEW e \in Endpoint, ListBurst(e)
  PROVE  PlaceOf(e.req.address, 0) = ListPlace(e.command, e.sgEntry, e.sgPart)
<1> DEFINE h == e.command.sg
           k == 2 * e.sgEntry + e.sgPart
           a == HandleAdd(h, (e.sgEntry * 2 + e.sgPart) * WordBytes)
<1>1. /\ e.command \in Commands /\ e.command.sgCount \in Nat /\ h \in Word
      /\ e.sgEntry \in Nat /\ e.sgPart \in {0, 1} /\ e.sgEntry < e.command.sgCount
  BY CommandIs DEF ListBurst, Moves, Endpoint
<1>2. HandleRangeOk(h, e.command.sgCount * 2 * WordBytes)
  BY <1>1 DEF ListBurst, Moves, ValidBuffer
<1>3. h.offset \in Nat /\ h.offset % 4 = 0
  BY <1>1, <1>2, Sizes DEF HandleRangeOk, Word, WordBytes
<1>4. a = [window |-> h.window, offset |-> h.offset + 4 * k] /\ k \in Nat
  <2>1. (e.sgEntry * 2 + e.sgPart) * WordBytes = 4 * k /\ k \in Nat
    BY <1>1 DEF WordBytes
  <2> HIDE DEF k
  <2>2. QED
    BY <1>1, <2>1 DEF HandleAdd, Word
<1> HIDE DEF k
<1>5. (h.offset + 4 * k) \div 4 = (h.offset \div 4) + k /\ h.offset \div 4 \in Nat
  BY <1>3, <1>4, SumOfWords, Division
<1>6. e.req.address = a
  BY DEF ListBurst
<1> HIDE DEF a
<1>7. PlaceOf(e.req.address, 0) = <<h.window, (h.offset \div 4) + k>>
  BY <1>4, <1>5, <1>6 DEF PlaceOf, WordBytes
<1>8. (h.offset \div 4) + k = (h.offset \div 4) + 2 * e.sgEntry + e.sgPart
  BY <1>1, <1>5 DEF k
<1>9. QED
  BY <1>7, <1>8 DEF ListPlace, WordBytes

\* The endpoint after a word is counted.
LEMMA CountWordHas ==
  ASSUME NEW e \in Endpoint
  PROVE  LET r == CountWord(e)
         IN  /\ r.moved = e.moved + 1 /\ r.state = e.state /\ r.req = e.req
             /\ r.command = e.command /\ r.payload = e.payload /\ r.sg = e.sg
             /\ r.segment = e.segment /\ r.offset = e.offset /\ r.index = e.index
             /\ r.sgEntry = e.sgEntry /\ r.sgPart = e.sgPart /\ r.completion = e.completion
<1> DEFINE n == e.moved + 1
           dma == IF n = e.req.words THEN "Completion" ELSE e.dma
           r == CountWord(e)
<1>1. r = [e EXCEPT !.moved = n, !.dma = dma]
  BY DEF CountWord, Endpoint
<1> HIDE DEF n, dma, r
<1>2. /\ r.moved = n /\ r.state = e.state /\ r.req = e.req
      /\ r.command = e.command /\ r.payload = e.payload /\ r.sg = e.sg
      /\ r.segment = e.segment /\ r.offset = e.offset /\ r.index = e.index
      /\ r.sgEntry = e.sgEntry /\ r.sgPart = e.sgPart /\ r.completion = e.completion
  BY <1>1 DEF Endpoint
<1>3. QED
  BY <1>2 DEF r, n

\* A word of the list is fetched to where the walk expects it.
LEMMA ListWordWhole ==
  ASSUME NEW e, EndpointInv(e), e.dma = "Transfer", e.state = "FetchSg", NEW m, NEW d,
         Whole(e, m, d)
  PROVE  Whole(CountWord(StoreWord(e, m[PlaceOf(e.req.address, e.moved)])), m, d)
<1> DEFINE word == m[PlaceOf(e.req.address, e.moved)]
           f == StoreWord(e, word)
           r == CountWord(f)
           c == e.command
           x == e.sgEntry
           n == 2 * e.sgEntry + e.sgPart
<1>1. e \in Endpoint /\ ListBurst(e) /\ e.moved < e.req.words
  BY DEF EndpointInv, Shape
<1>2. /\ c \in Commands /\ c.sgCount \in Nat /\ c.sgCount <= MaxSg /\ MaxSg \in Nat
      /\ x \in Nat /\ e.sgPart \in {0, 1} /\ x < c.sgCount
      /\ e.moved \in Nat /\ e.req.words = 1
  BY <1>1, CommandIs, Sizes DEF ListBurst, Moves, Endpoint
<1>3. e.moved = 0 /\ x \in 0 .. c.sgCount - 1 /\ x \in 0 .. MaxSg - 1 /\ n \in Nat
  BY <1>1, <1>2
<1>4. word = m[ListPlace(c, x, e.sgPart)]
  BY <1>1, <1>3, ListWordPlace
<1>5. /\ m \in Images /\ e.segment = 0 /\ e.offset = 0 /\ ListFetched(e, m, n + 0)
  BY <1>3 DEF Whole
<1>6. n + 0 = n
  BY <1>3
<1>7. e.sg \in Lists
  BY <1>1 DEF Endpoint
<1> HIDE DEF word
<1> DEFINE Updated(list) == [e EXCEPT !.sg = list]
<1>8. PICK list :
        /\ f = Updated(list)
        /\ \A i \in 0 .. c.sgCount - 1 :
             /\ list[i].address = IF i = x /\ e.sgPart = 0 THEN word ELSE e.sg[i].address
             /\ list[i].length = IF i = x /\ e.sgPart = 1 THEN word ELSE e.sg[i].length
  <2>1. ASSUME NEW i \in 0 .. c.sgCount - 1 PROVE i \in 0 .. MaxSg - 1
    BY <1>2
  <2>2. CASE e.sgPart = 0
    <3> DEFINE list == [e.sg EXCEPT ![x].address = word]
    <3>1. f = Updated(list)
      BY <1>1, <2>2 DEF StoreWord, ListBurst, Endpoint
    <3>2. \A i \in 0 .. MaxSg - 1 :
             /\ list[i].address = IF i = x THEN word ELSE e.sg[i].address
             /\ list[i].length = e.sg[i].length
      BY <1>3, <1>7 DEF Lists
    <3> HIDE DEF list, f, Updated
    <3>3. \A i \in 0 .. c.sgCount - 1 :
            /\ list[i].address = IF i = x /\ e.sgPart = 0 THEN word ELSE e.sg[i].address
            /\ list[i].length = IF i = x /\ e.sgPart = 1 THEN word ELSE e.sg[i].length
      BY <2>1, <2>2, <3>2
    <3>4. QED
      BY <3>1, <3>3
  <2>3. CASE e.sgPart = 1
    <3> DEFINE list == [e.sg EXCEPT ![x].length = word]
    <3>1. f = Updated(list)
      BY <1>1, <2>3 DEF StoreWord, ListBurst, Endpoint
    <3>2. \A i \in 0 .. MaxSg - 1 :
             /\ list[i].length = IF i = x THEN word ELSE e.sg[i].length
             /\ list[i].address = e.sg[i].address
      BY <1>3, <1>7 DEF Lists
    <3> HIDE DEF list, f, Updated
    <3>3. \A i \in 0 .. c.sgCount - 1 :
            /\ list[i].address = IF i = x /\ e.sgPart = 0 THEN word ELSE e.sg[i].address
            /\ list[i].length = IF i = x /\ e.sgPart = 1 THEN word ELSE e.sg[i].length
      BY <2>1, <2>3, <3>2
    <3>4. QED
      BY <3>1, <3>3
  <2>4. QED
    BY <1>2, <2>2, <2>3
<1> HIDE DEF f, r
<1>9. /\ f.state = "FetchSg" /\ f.command = c /\ f.sg = list /\ f.sgEntry = x
      /\ f.sgPart = e.sgPart /\ f.segment = 0 /\ f.offset = 0 /\ f.moved = 0
  BY <1>1, <1>3, <1>5, <1>8 DEF Endpoint
<1>10. /\ r.state = "FetchSg" /\ r.command = c /\ r.sg = list /\ r.sgEntry = x
       /\ r.sgPart = e.sgPart /\ r.segment = 0 /\ r.offset = 0 /\ r.moved = 1
  <2> DEFINE dma == IF f.moved + 1 = f.req.words THEN "Completion" ELSE f.dma
             one == f.moved + 1
  <2>1. r = [f EXCEPT !.moved = one, !.dma = dma]
    BY <1>8 DEF r, CountWord, Endpoint
  <2>2. one = 1
    BY <1>9
  <2> HIDE DEF dma, one
  <2>3. /\ r.state = f.state /\ r.command = f.command /\ r.sg = f.sg /\ r.sgEntry = f.sgEntry
        /\ r.sgPart = f.sgPart /\ r.segment = f.segment /\ r.offset = f.offset /\ r.moved = one
    BY <1>1, <1>8, <2>1 DEF Endpoint
  <2>4. QED
    BY <1>9, <2>2, <2>3
<1>11. ListFetched(r, m, n + 1)
  <2> SUFFICES ASSUME NEW i \in 0 .. c.sgCount - 1
               PROVE  /\ 2 * i < n + 1     => list[i].address = Listed(m, c)[i].address
                      /\ 2 * i + 1 < n + 1 => list[i].length = Listed(m, c)[i].length
    BY <1>10 DEF ListFetched
  <2>1. /\ 2 * i < n     => e.sg[i].address = Listed(m, c)[i].address
        /\ 2 * i + 1 < n => e.sg[i].length = Listed(m, c)[i].length
    BY <1>5, <1>6 DEF ListFetched
  <2>2. /\ Listed(m, c)[i].address = m[ListPlace(c, i, 0)]
        /\ Listed(m, c)[i].length = m[ListPlace(c, i, 1)]
    BY DEF Listed
  <2>3. i \in Nat
    BY <1>2
  <2>4. CASE i = x
    <3>1. CASE e.sgPart = 0
      BY <1>2, <1>4, <1>8, <2>2, <2>4, <3>1
    <3>2. CASE e.sgPart = 1
      BY <1>2, <1>4, <1>8, <2>1, <2>2, <2>4, <3>2
    <3>3. QED
      BY <1>2, <3>1, <3>2
  <2>5. CASE i # x
    BY <1>2, <1>8, <2>1, <2>3, <2>5
  <2>6. QED
    BY <2>4, <2>5
<1>12. 2 * r.sgEntry + r.sgPart + r.moved = n + 1
  BY <1>2, <1>10
<1>13. Whole(r, m, d)
  BY <1>5, <1>10, <1>11, <1>12 DEF Whole, ReadWhole
<1>14. QED
  BY <1>13 DEF r, f, word

\* A word of a write is staged where its place in the buffer says.
LEMMA PayloadWordWhole ==
  ASSUME NEW e, EndpointInv(e), e.dma = "Transfer", e.state = "Transfer",
         e.req.direction = "HostToDevice", NEW m, NEW d, Whole(e, m, d)
  PROVE  Whole(CountWord(StoreWord(e, m[PlaceOf(e.req.address, e.moved)])), m, d)
<1> DEFINE word == m[PlaceOf(e.req.address, e.moved)]
           f == StoreWord(e, word)
           r == CountWord(f)
           c == e.command
           n == e.index + e.moved
<1>1. e \in Endpoint /\ PayloadBurst(e) /\ e.moved < e.req.words
  BY DEF EndpointInv, Shape
<1>2. /\ Placed(e, m) /\ Delivered(e, m, d, n) /\ Way(c) = "HostToDevice"
  BY DEF Whole
<1>3. c.opcode \in Writes /\ c.opcode # "Read"
  BY <1>2 DEF Way, Writes
<1>4. word = m[BufferPlace(m, c, n)] /\ BufferPlace(m, c, n) \in Places
  BY <1>1, <1>2, BurstPlace, BurstInPlaces
<1>5. /\ e.index \in Nat /\ e.moved \in Nat /\ n \in Nat /\ n \in 0 .. PayloadWords - 1
      /\ e.index + (e.moved + 1) = n + 1
  <2>1. /\ e.index \in Nat /\ e.moved \in Nat /\ e.words \in 0 .. PayloadWords
        /\ e.req.words \in Nat /\ e.index + e.req.words <= e.words
    BY <1>1, Sizes DEF PayloadBurst, Endpoint
  <2>2. QED
    BY <1>1, <2>1, Sizes
<1> HIDE DEF word
<1> DEFINE payload == [e.payload EXCEPT ![n] = word]
<1>6. f = [e EXCEPT !.payload = payload]
  BY <1>1 DEF StoreWord, PayloadBurst, Endpoint
<1>7. \A k \in 0 .. n : payload[k] = IF k = n THEN word ELSE e.payload[k]
  <2>1. e.payload \in [0 .. PayloadWords - 1 -> Word] /\ PayloadWords \in Nat
    BY <1>1, Sizes DEF Endpoint, Staging
  <2> HIDE DEF n
  <2>2. \A k \in 0 .. n : k \in 0 .. PayloadWords - 1
    BY <1>5, <2>1
  <2>3. QED
    BY <1>5, <2>1, <2>2
<1> HIDE DEF payload, f, r, n
<1>8. /\ r.state = "Transfer" /\ r.command = c /\ r.payload = payload /\ r.sg = e.sg
      /\ r.segment = e.segment /\ r.offset = e.offset /\ r.index = e.index
      /\ r.moved = e.moved + 1 /\ r.req = e.req
  <2> DEFINE one == f.moved + 1
             dma == IF one = f.req.words THEN "Completion" ELSE f.dma
  <2>1. r = [f EXCEPT !.moved = one, !.dma = dma]
    BY <1>6 DEF r, CountWord, Endpoint
  <2> HIDE DEF dma
  <2>2. /\ f.state = "Transfer" /\ f.command = c /\ f.payload = payload /\ f.sg = e.sg
        /\ f.segment = e.segment /\ f.offset = e.offset /\ f.index = e.index
        /\ f.moved = e.moved /\ f.req = e.req
    BY <1>1, <1>6 DEF Endpoint
  <2>3. one = e.moved + 1
    BY <2>2
  <2> HIDE DEF one
  <2>4. /\ r.state = f.state /\ r.command = f.command /\ r.payload = f.payload /\ r.sg = f.sg
        /\ r.segment = f.segment /\ r.offset = f.offset /\ r.index = f.index
        /\ r.moved = one /\ r.req = f.req
    BY <1>1, <1>6, <2>1 DEF Endpoint
  <2>5. QED
    BY <2>2, <2>3, <2>4
<1>9. Placed(r, m)
  BY <1>2, <1>8, PlacedSame
<1>10. Delivered(r, m, d, n + 1)
  <2>1. ASSUME NEW k \in 0 .. (n + 1) - 1
        PROVE  BufferPlace(m, c, k) \in Places /\ payload[k] = m[BufferPlace(m, c, k)]
    <3>1. k \in 0 .. n /\ (k = n \/ k \in 0 .. n - 1)
      BY <1>5
    <3>2. QED
      BY <1>2, <1>4, <1>7, <3>1 DEF Delivered
  <2>2. QED
    BY <1>3, <1>8, <2>1 DEF Delivered
<1>11. r.index + r.moved = n + 1
  BY <1>5, <1>8
<1>12. Whole(r, m, d)
  BY <1>2, <1>8, <1>9, <1>10, <1>11, Zenon DEF Whole, ReadWhole, Way
<1>13. QED
  BY <1>12 DEF r, f, word

\* The list of a command lies in memory.
LEMMA ListPlaces ==
  ASSUME NEW c, Moves(c), NEW i \in 0 .. c.sgCount - 1, NEW part \in {0, 1}
  PROVE  ListPlace(c, i, part) \in Places
<1> DEFINE n == c.sgCount * 2
           x == 2 * i + part
           q == c.sg.offset \div WordBytes
<1>1. c \in Commands /\ c.sgCount \in Nat /\ c.sg \in Word
  BY CommandIs DEF Moves
<1>2. i \in Nat /\ n \in Nat /\ x \in Nat /\ x < n /\ c.sgCount # 0
  BY <1>1
<1>3. HandleRangeOk(c.sg, n * WordBytes)
  BY <1>1, <1>2 DEF Moves, ValidBuffer
<1>4. c.sg.offset \in Nat /\ OffsetSpace \in Nat
  BY <1>1, Sizes DEF Word
<1> HIDE DEF n
<1>5. n * WordBytes \in Nat
  BY <1>2 DEF WordBytes
<1>6. c.sg.offset % WordBytes = 0 /\ c.sg.offset + n * WordBytes <= OffsetSpace
  BY <1>3, <1>4, <1>5 DEF HandleRangeOk
<1>7. q \in Nat
  BY <1>4, Division DEF WordBytes
<1>8. q + x = q + 2 * i + part
  <2> HIDE DEF q
  <2>1. QED
    BY <1>2, <1>7
<1> HIDE DEF x
<1>9. <<c.sg.window, q + x>> \in Places
  BY <1>1, <1>2, <1>6, PlacesOfBurst
<1>10. QED
  BY <1>8, <1>9 DEF ListPlace

\* Memory w is memory m but for place p, which is none of the list of c.
WrittenApart(m, w, p, c) ==
  /\ \A x \in Places : x # p => w[x] = m[x]
  /\ \A i \in 0 .. c.sgCount - 1, part \in {0, 1} : p # ListPlace(c, i, part)

\* A word written apart from the list leaves the buffer where it was.
LEMMA BufferStays ==
  ASSUME NEW c, Moves(c), NEW m, NEW w, NEW p, WrittenApart(m, w, p, c)
  PROVE  Listed(w, c) = Listed(m, c) /\ \A k : BufferPlace(w, c, k) = BufferPlace(m, c, k)
<1>1. ASSUME NEW i \in 0 .. c.sgCount - 1, NEW part \in {0, 1}
      PROVE  w[ListPlace(c, i, part)] = m[ListPlace(c, i, part)]
  BY ListPlaces DEF WrittenApart
<1>2. Listed(w, c) = Listed(m, c)
  BY <1>1 DEF Listed
<1>3. QED
  BY <1>2 DEF BufferPlace

\* A word of a read goes to its place in the buffer, and leaves the list and the others.
LEMMA DeliveredWordWhole ==
  ASSUME NEW e, EndpointInv(e), e.dma = "Transfer", e.req.direction = "DeviceToHost",
         NEW m \in [Places -> Word], NEW d, Whole(e, m, d)
  PROVE  LET p == PlaceOf(e.req.address, e.moved)
             w == [m EXCEPT ![p] = e.payload[e.index + e.moved]]
         IN  /\ Whole(CountWord(e), w, d)
             /\ e.command.opcode \notin Writes /\ p \in Buffer(m, e.command)
<1> DEFINE p == PlaceOf(e.req.address, e.moved)
           n == e.index + e.moved
           word == e.payload[n]
           w == [m EXCEPT ![p] = word]
           r == CountWord(e)
           c == e.command
<1>1. e \in Endpoint /\ e.moved < e.req.words /\ e.req # None
  BY DEF EndpointInv, Shape
<1>2. e.state = "Transfer"
  BY <1>1, BurstFits DEF EndpointInv, ListBurst
<1>3. PayloadBurst(e) /\ Moves(c)
  BY <1>2 DEF EndpointInv, PayloadBurst, Underway
<1>4. Placed(e, m) /\ Delivered(e, m, d, n) /\ Way(c) = "DeviceToHost"
  BY <1>2 DEF Whole
<1>5. c.opcode \notin Writes
  BY <1>4 DEF Way
<1>6. /\ p = BufferPlace(m, c, n) /\ n \in Span(c) /\ p \in Places
      /\ Span(c) = 0 .. e.words - 1 /\ e.words \in Nat
  BY <1>1, <1>3, <1>4, BurstPlace, BurstInPlaces
<1>7. Apart(m, c)
  BY <1>4, <1>5 DEF Delivered
<1>8. /\ e.index \in Nat /\ e.moved \in Nat /\ n \in Nat
      /\ e.index + (e.moved + 1) = n + 1
  BY <1>1 DEF Endpoint
<1>9. 0 .. n - 1 \subseteq Span(c)
  BY <1>6, <1>8
<1> HIDE DEF n, word
<1>10. \A i \in 0 .. c.sgCount - 1, part \in {0, 1} : p # ListPlace(c, i, part)
  BY <1>6, <1>7 DEF Apart
<1> HIDE DEF p
<1>11. w[p] = word /\ \A x \in Places : x # p => w[x] = m[x]
  BY <1>6
<1> HIDE DEF w, r
<1>12. Listed(w, c) = Listed(m, c) /\ \A k : BufferPlace(w, c, k) = BufferPlace(m, c, k)
  <2>1. WrittenApart(m, w, p, c)
    BY <1>10, <1>11 DEF WrittenApart
  <2>2. QED
    BY <1>3, <2>1, BufferStays
<1>13. /\ r.state = "Transfer" /\ r.command = c /\ r.payload = e.payload /\ r.sg = e.sg
       /\ r.segment = e.segment /\ r.offset = e.offset /\ r.index = e.index
       /\ r.moved = e.moved + 1 /\ r.req = e.req
  BY <1>1, <1>2, CountWordHas DEF r
<1>14. Placed(r, w)
  <2>1. Placed(e, w)
    BY <1>4, <1>12 DEF Placed, Matches
  <2>2. QED
    BY <1>13, <2>1, PlacedSame
<1>15. Apart(w, c)
  BY <1>7, <1>12 DEF Apart
<1>16. ASSUME NEW k \in 0 .. (n + 1) - 1
       PROVE  BufferPlace(w, c, k) \in Places /\ e.payload[k] = w[BufferPlace(w, c, k)]
  <2>1. k = n \/ k \in 0 .. n - 1
    BY <1>8
  <2>2. CASE k = n
    BY <1>6, <1>11, <1>12, <2>2 DEF word
  <2>3. CASE k \in 0 .. n - 1
    <3>1. k # n /\ k \in Span(c)
      BY <1>8, <1>9, <2>3
    <3>2. BufferPlace(m, c, k) # p
      BY <1>6, <1>7, <3>1 DEF Apart
    <3>3. BufferPlace(m, c, k) \in Places /\ e.payload[k] = m[BufferPlace(m, c, k)]
      BY <1>4, <2>3 DEF Delivered
    <3>4. QED
      BY <1>11, <1>12, <3>2, <3>3
  <2>4. QED
    BY <2>1, <2>2, <2>3
<1>17. Delivered(r, w, d, n + 1)
  <2>1. c.opcode = "Read" =>
          \A k \in 0 .. BlockWords[c.namespace] - 1 :
            e.payload[k] = d.blocks[<<c.namespace, c.lba>>][k]
    BY <1>4 DEF Delivered
  <2>2. QED
    BY <1>13, <1>15, <1>16, <2>1 DEF Delivered
<1>18. r.index + r.moved = n + 1
  BY <1>8, <1>13
<1>19. Whole(r, w, d)
  BY <1>4, <1>13, <1>14, <1>17, <1>18, Zenon DEF Whole, ReadWhole, Way
<1>20. p \in Buffer(m, c)
  BY <1>6 DEF Buffer
<1>21. QED
  BY <1>5, <1>19, <1>20 DEF w, r, p, n, word

\* The burst after one that is done continues what is there.
LEMMA BurstDoneWhole ==
  ASSUME NEW e, EndpointInv(e), e.dma = "Completion", NEW m, NEW d, WholeMedia(d),
         NEW works \in BOOLEAN, Whole(e, m, d), Followed(e.command)
  PROVE  Whole(BurstDone(e, d, works), m, d)
<1> DEFINE idle == [e EXCEPT !.dma = "Idle", !.req = None]
           r == BurstDone(e, d, works)
           c == e.command
<1>1. e \in Endpoint /\ e.req # None /\ e.moved = e.req.words
  BY DEF EndpointInv, Shape
<1>2. /\ e.req \in BurstRequest /\ e.state \in {"FetchSg", "Transfer"} /\ e.completion = None
      /\ e.state = "FetchSg" => e.kind \in {"SgAddress", "SgLength"}
      /\ e.state = "Transfer" => e.kind = "Payload" /\ e.index + e.req.words <= e.words
  BY <1>1, BurstFits
<1>3. /\ idle \in Endpoint /\ idle.state = e.state /\ idle.command = c
      /\ idle.completion = None /\ idle.sg = e.sg /\ idle.sgEntry = e.sgEntry
      /\ idle.sgPart = e.sgPart /\ idle.words = e.words /\ idle.index = e.index
      /\ idle.segment = e.segment /\ idle.offset = e.offset /\ idle.payload = e.payload
  BY <1>1, <1>2, Constants DEF Endpoint
<1>4. ASSUME e.state = "FetchSg"
      PROVE  /\ ListBurst(e) /\ Moves(c) /\ c \in Commands /\ c.sgCount \in Nat
             /\ e.sgEntry \in Nat /\ e.sgEntry < c.sgCount /\ e.index = 0
             /\ m \in Images /\ e.segment = 0 /\ e.offset = 0
             /\ ListFetched(e, m, 2 * e.sgEntry + e.sgPart + 1)
  <2>1. ListBurst(e) /\ Moves(c) /\ c \in Commands
    BY <1>4 DEF EndpointInv, ListBurst, Moves
  <2>2. e.moved = 1
    BY <1>1, <2>1 DEF ListBurst
  <2>3. QED
    BY <1>1, <1>4, <2>1, <2>2, CommandIs DEF Whole, ListBurst, Endpoint
<1>5. CASE e.state = "FetchSg" /\ e.kind = "SgAddress"
  <2> DEFINE next == [idle EXCEPT !.sgPart = 1]
  <2>1. r = StartSgWordDma(next)
    BY <1>5 DEF BurstDone
  <2>2. e.sgPart = 0
    BY <1>1, <1>4, <1>5 DEF ListBurst, Endpoint
  <2> HIDE DEF idle, r
  <2>3. /\ next \in Endpoint /\ next.state = "FetchSg" /\ next.sg = e.sg
        /\ next.command = c /\ next.sgEntry = e.sgEntry /\ next.sgPart = 1
        /\ next.segment = 0 /\ next.offset = 0
    BY <1>3, <1>4, <1>5 DEF Endpoint
  <2> HIDE DEF next
  <2>4. 2 * next.sgEntry + next.sgPart = 2 * e.sgEntry + e.sgPart + 1
    BY <1>4, <1>5, <2>2, <2>3
  <2>5. ListFetched(next, m, 2 * e.sgEntry + e.sgPart + 1)
    BY <1>4, <1>5, <2>3, ListFetchedSame
  <2>6. Whole(r, m, d)
    BY <1>4, <1>5, <2>1, <2>3, <2>4, <2>5, StartSgWordWhole
  <2>7. QED
    BY <2>6 DEF r
<1>6. CASE e.state = "FetchSg" /\ e.kind = "SgLength"
  <2> DEFINE half == [idle EXCEPT !.sgPart = 0]
             n == e.sgEntry + 1
             next == [half EXCEPT !.sgEntry = n]
  <2>1. r = SgEntryDone(idle, d, works)
    BY <1>6 DEF BurstDone
  <2>2. e.sgPart = 1
    BY <1>1, <1>4, <1>6 DEF ListBurst, Endpoint
  <2> HIDE DEF idle, r
  <2>3. r = IF next.sgEntry < next.command.sgCount THEN StartSgWordDma(next)
            ELSE IF ValidSg(next) THEN StartOperation(next, d, works)
            ELSE Finish(next, "InvalidField", 0, FALSE)
    BY <1>3, <2>1 DEF SgEntryDone, Endpoint
  <2>4. /\ half \in Endpoint /\ half.completion = None /\ half.state = "FetchSg"
        /\ half.index = 0 /\ half.command = c /\ half.sg = e.sg /\ half.sgPart = 0
        /\ half.segment = 0 /\ half.offset = 0
    BY <1>3, <1>4, <1>6 DEF Endpoint
  <2>5. n \in Nat
    BY <1>4, <1>6
  <2> HIDE DEF half, n
  <2>6. /\ next \in Endpoint /\ next.completion = None /\ next.state = "FetchSg"
        /\ next.index = 0 /\ next.command = c /\ next.sg = e.sg /\ next.sgPart = 0
        /\ next.sgEntry = n /\ next.segment = 0 /\ next.offset = 0
    BY <2>4, <2>5 DEF Endpoint
  <2> HIDE DEF next
  <2>7. /\ 2 * next.sgEntry + next.sgPart = 2 * e.sgEntry + e.sgPart + 1
        /\ 2 * n = 2 * e.sgEntry + e.sgPart + 1
    BY <1>4, <1>6, <2>2, <2>6 DEF n
  <2>8. ListFetched(next, m, 2 * e.sgEntry + e.sgPart + 1)
    BY <1>4, <1>6, <2>6, ListFetchedSame
  <2>9. CASE next.sgEntry < next.command.sgCount
    <3>1. Whole(r, m, d)
      BY <1>4, <1>6, <2>3, <2>6, <2>7, <2>8, <2>9, StartSgWordWhole
    <3>2. QED
      BY <3>1 DEF r
  <2>10. CASE ~(next.sgEntry < next.command.sgCount) /\ ValidSg(next)
    <3>1. n = c.sgCount
      BY <1>4, <1>6, <2>6, <2>10 DEF n
    <3>2. ListFetched(next, m, 2 * n)
      BY <2>7, <2>8
    <3>3. Matches(next, m)
      <4> SUFFICES ASSUME NEW i \in 0 .. c.sgCount - 1
                   PROVE  /\ next.sg[i].address = Listed(m, c)[i].address
                          /\ next.sg[i].length = Listed(m, c)[i].length
        BY <2>6 DEF Matches
      <4>1. 2 * i < 2 * n /\ 2 * i + 1 < 2 * n
        BY <1>4, <1>6, <3>1
      <4>2. QED
        BY <2>6, <3>2, <4>1 DEF ListFetched
    <3>4. ValidEntries(next) /\ Moves(next.command) /\ m \in Images /\ Followed(next.command)
      BY <1>4, <1>6, <2>6, <2>10 DEF ValidSg
    <3>5. next.command.opcode \notin Writes => Apart(m, next.command)
      BY <2>6, <2>10, <3>3, <3>4, ApartOnceFetched
    <3>6. r = StartOperation(next, d, works)
      BY <2>3, <2>10
    <3>7. Whole(r, m, d)
      BY <2>6, <3>3, <3>4, <3>5, <3>6, StartOperationWhole
    <3>8. QED
      BY <3>7 DEF r
  <2>11. CASE ~(next.sgEntry < next.command.sgCount) /\ ~ValidSg(next)
    <3>1. r = Finish(next, "InvalidField", 0, FALSE)
      BY <2>3, <2>11
    <3>2. Whole(r, m, d)
      BY <2>6, <3>1, FinishWhole
    <3>3. QED
      BY <3>2 DEF r
  <2>12. QED
    BY <2>9, <2>10, <2>11
<1>7. CASE e.state = "Transfer"
  <2> DEFINE n == e.req.words
             offset == IF c.sgCount > 0 THEN e.offset + n ELSE e.offset
             index == e.index + n
             next == [idle EXCEPT !.index = index, !.offset = offset]
  <2>1. PayloadBurst(e) /\ Underway(e)
    BY <1>7 DEF EndpointInv, PayloadBurst
  <2>2. /\ n \in Nat /\ e.req.direction = Way(c) /\ e.index + n <= e.words
        /\ index \in Nat /\ offset \in Nat /\ e.offset \in Nat /\ e.index \in Nat
        /\ e.segment \in Nat /\ c.sgCount \in Nat
    BY <1>1, <1>2, <1>7, <2>1, UnderwayIs DEF BurstRequest, Endpoint, Whole
  <2>3. Placed(e, m) /\ Delivered(e, m, d, index)
    BY <1>1, <1>7 DEF Whole
  <2>4. r = PayloadBurstDone(idle, e.req.direction, n)
    BY <1>2, <1>7 DEF BurstDone
  <2> HIDE DEF idle, r
  <2>5. r = StartPayloadDma(next, Way(c))
    BY <1>3, <2>2, <2>4 DEF PayloadBurstDone, Endpoint
  <2>6. c.sgCount > 0 =>
          /\ e.segment \in 0 .. c.sgCount - 1 /\ SegmentWords(e, e.segment) \in Nat
          /\ offset = e.offset + n /\ offset <= SegmentWords(e, e.segment)
          /\ WordsBefore(e)[e.segment] \in Nat
          /\ WordsBefore(e)[e.segment] + offset = index
    <3> SUFFICES ASSUME c.sgCount > 0
                 PROVE  /\ e.segment \in 0 .. c.sgCount - 1 /\ SegmentWords(e, e.segment) \in Nat
                        /\ offset = e.offset + n /\ offset <= SegmentWords(e, e.segment)
                        /\ WordsBefore(e)[e.segment] \in Nat
                        /\ WordsBefore(e)[e.segment] + offset = index
      OBVIOUS
    <3>1. /\ e.segment \in 0 .. c.sgCount - 1 /\ e.offset + n <= SegmentWords(e, e.segment)
          /\ WordsBefore(e)[e.segment] + e.offset = e.index /\ offset = e.offset + n
      BY <2>1, <2>2, <2>3 DEF PayloadBurst, Placed
    <3>2. SegmentWords(e, e.segment) \in Nat
      BY <1>1, <2>1, <3>1, SegmentsAre
    <3>3. WordsBefore(e)[e.segment] \in Nat
      BY <1>1, <2>1, <2>2, <3>1, BeforeIs DEF Counts
    <3>4. WordsBefore(e)[e.segment] + (e.offset + n) = e.index + n
      BY <2>2, <3>1, <3>3
    <3>5. QED
      BY <3>1, <3>2, <3>3, <3>4
  <2> HIDE DEF offset, index, n
  <2>7. /\ next \in Endpoint /\ next.completion = None /\ next.state = "Transfer"
        /\ next.index = index /\ next.command = c /\ next.words = e.words
        /\ next.sg = e.sg /\ next.segment = e.segment /\ next.offset = offset
        /\ next.payload = e.payload
    BY <1>3, <1>7, <2>2 DEF Endpoint
  <2> HIDE DEF next
  <2>8. Underway(next)
    BY <2>1, <2>2, <2>7 DEF Underway, ValidEntries, index
  <2>9. WordsBefore(next) = WordsBefore(e) /\ \A i : SegmentWords(next, i) = SegmentWords(e, i)
    BY <2>7 DEF WordsBefore, SegmentWords
  <2>10. Placed(next, m)
    BY <2>3, <2>6, <2>7, <2>9 DEF Placed, Matches
  <2>11. Delivered(next, m, d, next.index)
    BY <2>3, <2>7, DeliveredSame
  <2>12. Whole(r, m, d)
    BY <2>5, <2>7, <2>8, <2>10, <2>11, StartPayloadWhole
  <2>13. QED
    BY <2>12 DEF r
<1>8. QED
  BY <1>2, <1>5, <1>6, <1>7

-----------------------------------------------------------------------------
(* The command stays until its completion is taken.                         *)

LEMMA PayloadKeepsCommand ==
  ASSUME NEW e \in Endpoint, Underway(e), NEW direction
  PROVE  StartPayloadDma(e, direction).command = e.command
<1> DEFINE c == e.command
           idle == [e EXCEPT !.dma = "Idle", !.req = None]
           there == NextSegment(e)
           r == StartPayloadDma(e, direction)
<1>1. c.sgCount \in Nat
  BY UnderwayIs
<1>2. CASE e.index >= e.words
  <2>1. idle \in Endpoint /\ idle.command = c
    BY Constants DEF Endpoint
  <2>2. r = IF c.opcode \in Writes THEN [idle EXCEPT !.state = "MediaCommit"]
            ELSE Finish(idle, "Success", IF c.opcode = "Read" THEN c.blocks ELSE 0, FALSE)
    BY <1>2 DEF StartPayloadDma, PayloadDone
  <2> HIDE DEF idle, r
  <2>3. \A status, blocks, durable : Finish(idle, status, blocks, durable).command = c
    BY <2>1, FinishHas
  <2>4. [idle EXCEPT !.state = "MediaCommit"].command = c
    BY <2>1 DEF Endpoint
  <2>5. r.command = c
    <3>1. CASE c.opcode \in Writes
      BY <2>2, <2>4, <3>1
    <3>2. CASE c.opcode \notin Writes
      BY <2>2, <2>3, <3>2, Zenon
    <3>3. QED
      BY <3>1, <3>2
  <2>6. QED
    BY <2>5 DEF r
<1>3. CASE ~(e.index >= e.words) /\ c.sgCount = 0
  BY <1>3, RequestHas DEF StartPayloadDma
<1>4. CASE ~(e.index >= e.words) /\ c.sgCount # 0
  <2>1. there \in Endpoint /\ there.command = c
    BY <1>1, <1>4, NextSegmentIs
  <2>2. r = IF there.segment >= c.sgCount THEN Finish(there, "InvalidField", 0, FALSE)
            ELSE SegmentBurst(there, direction)
    BY <1>4 DEF StartPayloadDma
  <2> HIDE DEF there, r
  <2>3. SegmentBurst(there, direction).command = c
    BY <2>1, RequestHas DEF SegmentBurst
  <2>4. \A status, blocks, durable : Finish(there, status, blocks, durable).command = c
    BY <2>1, FinishHas
  <2>5. r.command = c
    <3>1. CASE there.segment >= c.sgCount
      BY <2>2, <2>4, <3>1, Zenon
    <3>2. CASE ~(there.segment >= c.sgCount)
      BY <2>2, <2>3, <3>2
    <3>3. QED
      BY <3>1, <3>2
  <2>6. QED
    BY <2>5 DEF r
<1>5. QED
  BY <1>2, <1>3, <1>4

LEMMA TransferKeepsCommand ==
  ASSUME NEW e \in Endpoint, Moves(e.command), e.index = 0,
         e.command.sgCount > 0 => ValidEntries(e),
         NEW payload \in Staging, NEW words \in 0 .. PayloadWords,
         words * WordBytes = TransferBytes(e.command), NEW direction
  PROVE  Transfer(e, payload, words, direction).command = e.command
<1> DEFINE t == [e EXCEPT !.payload = payload, !.words = words, !.state = "Transfer"]
<1>1. /\ t \in Endpoint /\ t.words = words /\ t.command = e.command /\ t.index = 0
      /\ t.sg = e.sg
  BY Constants DEF Endpoint
<1> HIDE DEF t
<1>2. words >= 0
  BY Sizes
<1>3. Underway(t)
  BY <1>1, <1>2 DEF Underway, ValidEntries
<1>4. StartPayloadDma(t, direction).command = e.command
  BY <1>1, <1>3, PayloadKeepsCommand
<1>5. QED
  BY <1>4 DEF t, Transfer

LEMMA OperationKeepsCommand ==
  ASSUME NEW e \in Endpoint, Moves(e.command), e.index = 0,
         e.command.sgCount > 0 => ValidEntries(e), NEW d, WholeMedia(d), NEW works \in BOOLEAN
  PROVE  StartOperation(e, d, works).command = e.command
<1> DEFINE c == e.command
           r == StartOperation(e, d, works)
           words == IF c.opcode \in Reports THEN ReportWords ELSE BlockWords[c.namespace]
           block == d.blocks[<<c.namespace, c.lba>>]
           bare == [e EXCEPT !.payload = NoPayload]
<1>1. c \in Commands /\ (c.opcode \notin Reports => c.namespace \in Namespaces
                           /\ <<c.namespace, c.lba>> \in Extents)
  BY DEF Moves, Extents
<1>2. words \in 0 .. PayloadWords /\ words * WordBytes = TransferBytes(c)
  <2>1. words \in 1 .. PayloadWords
    BY <1>1, NamespaceIs, Sizes
  <2>2. QED
    BY <2>1, Sizes DEF TransferBytes, WordBytes
<1>3. r = IF c.opcode \in Reports THEN Transfer(e, Report(c), words, "DeviceToHost")
          ELSE IF c.opcode \in Writes THEN Transfer(e, NoPayload, words, "HostToDevice")
          ELSE IF works THEN Transfer(e, Staged(block), words, "DeviceToHost")
          ELSE Finish(bare, "MediaError", 0, FALSE)
  BY DEF StartOperation, Transfer
<1> HIDE DEF words, r
<1>4. ASSUME NEW payload \in Staging, NEW direction
      PROVE  Transfer(e, payload, words, direction).command = c
  BY <1>2, TransferKeepsCommand
<1>5. CASE c.opcode \in Reports
  <2>1. Report(c) \in Staging
    BY <1>1, ReportIs DEF Moves
  <2>2. QED
    BY <1>3, <1>4, <1>5, <2>1 DEF r
<1>6. CASE c.opcode \notin Reports /\ c.opcode \in Writes
  BY <1>3, <1>4, <1>6, ZeroIs DEF r
<1>7. CASE c.opcode \notin Reports /\ c.opcode \notin Writes /\ works
  <2>1. block \in Block(c.namespace) /\ c.namespace \in Namespaces
    BY <1>1, <1>7 DEF WholeMedia
  <2>2. Staged(block) \in Staging
    BY <2>1, StagedIs
  <2> HIDE DEF block
  <2>3. QED
    BY <1>3, <1>4, <1>7, <2>2 DEF r
<1>8. CASE c.opcode \notin Reports /\ c.opcode \notin Writes /\ ~works
  <2>1. bare \in Endpoint /\ bare.command = c
    BY ZeroIs DEF Endpoint
  <2>2. r = Finish(bare, "MediaError", 0, FALSE)
    BY <1>3, <1>8
  <2> HIDE DEF bare
  <2>3. \A status, blocks, durable : Finish(bare, status, blocks, durable).command = c
    BY <2>1, FinishHas
  <2>4. QED
    BY <2>2, <2>3, Zenon DEF r
<1>9. QED
  BY <1>5, <1>6, <1>7, <1>8

LEMMA BurstDoneKeepsCommand ==
  ASSUME NEW e, EndpointInv(e), e.dma = "Completion", NEW d, WholeMedia(d), NEW works \in BOOLEAN
  PROVE  BurstDone(e, d, works).command = e.command
<1> DEFINE idle == [e EXCEPT !.dma = "Idle", !.req = None]
           r == BurstDone(e, d, works)
           c == e.command
<1>1. e \in Endpoint /\ e.req # None
  BY DEF EndpointInv, Shape
<1>2. /\ e.req \in BurstRequest /\ e.state \in {"FetchSg", "Transfer"} /\ e.completion = None
      /\ e.state = "FetchSg" => e.kind \in {"SgAddress", "SgLength"}
      /\ e.state = "Transfer" => e.kind = "Payload" /\ e.index + e.req.words <= e.words
  BY <1>1, BurstFits
<1>3. /\ idle \in Endpoint /\ idle.command = c /\ idle.sg = e.sg /\ idle.sgEntry = e.sgEntry
      /\ idle.words = e.words /\ idle.index = e.index /\ idle.offset = e.offset
  BY <1>1, <1>2, Constants DEF Endpoint
<1>4. CASE e.state = "FetchSg" /\ e.kind = "SgAddress"
  <2> DEFINE next == [idle EXCEPT !.sgPart = 1]
  <2>1. r = StartSgWordDma(next)
    BY <1>4 DEF BurstDone
  <2> HIDE DEF idle, r
  <2>2. next \in Endpoint /\ next.command = c
    BY <1>3 DEF Endpoint
  <2> HIDE DEF next
  <2>3. r.command = c
    BY <2>1, <2>2, RequestHas DEF StartSgWordDma
  <2>4. QED
    BY <2>3 DEF r
<1>5. CASE e.state = "FetchSg" /\ e.kind = "SgLength"
  <2> DEFINE half == [idle EXCEPT !.sgPart = 0]
             n == e.sgEntry + 1
             next == [half EXCEPT !.sgEntry = n]
  <2>1. ListBurst(e) /\ Moves(c) /\ e.index = 0 /\ n \in Nat
    BY <1>1, <1>5 DEF EndpointInv, ListBurst, Endpoint
  <2>2. r = SgEntryDone(idle, d, works)
    BY <1>5 DEF BurstDone
  <2> HIDE DEF idle, r
  <2>3. r = IF next.sgEntry < next.command.sgCount THEN StartSgWordDma(next)
            ELSE IF ValidSg(next) THEN StartOperation(next, d, works)
            ELSE Finish(next, "InvalidField", 0, FALSE)
    BY <1>3, <2>2 DEF SgEntryDone, Endpoint
  <2>4. half \in Endpoint /\ half.command = c /\ half.index = 0
    BY <1>3, <2>1 DEF Endpoint
  <2> HIDE DEF half, n
  <2>5. next \in Endpoint /\ next.command = c /\ next.index = 0
    BY <2>1, <2>4 DEF Endpoint
  <2> HIDE DEF next
  <2>6. StartSgWordDma(next).command = c
    BY <2>5, RequestHas DEF StartSgWordDma
  <2>7. ValidSg(next) => StartOperation(next, d, works).command = c
    BY <2>1, <2>5, OperationKeepsCommand DEF ValidSg
  <2>8. \A status, blocks, durable : Finish(next, status, blocks, durable).command = c
    BY <2>5, FinishHas
  <2>9. r.command = c
    <3>1. CASE ~(next.sgEntry < next.command.sgCount) /\ ~ValidSg(next)
      BY <2>3, <2>8, <3>1, Zenon
    <3>2. CASE next.sgEntry < next.command.sgCount \/ ValidSg(next)
      BY <2>3, <2>6, <2>7, <3>2
    <3>3. QED
      BY <3>1, <3>2
  <2>10. QED
    BY <2>9 DEF r
<1>6. CASE e.state = "Transfer"
  <2> DEFINE n == e.req.words
             offset == IF c.sgCount > 0 THEN e.offset + n ELSE e.offset
             index == e.index + n
             next == [idle EXCEPT !.index = index, !.offset = offset]
  <2>1. Underway(e)
    BY <1>6 DEF EndpointInv, PayloadBurst
  <2>2. n \in Nat /\ index <= e.words /\ index \in Nat /\ offset \in Nat
    BY <1>1, <1>2, <1>6 DEF BurstRequest, Endpoint
  <2>3. r = PayloadBurstDone(idle, e.req.direction, n)
    BY <1>2, <1>6 DEF BurstDone
  <2> HIDE DEF idle, r
  <2>4. r = StartPayloadDma(next, e.req.direction)
    BY <1>3, <2>3 DEF PayloadBurstDone, Endpoint
  <2> HIDE DEF offset, index, n
  <2>5. /\ next \in Endpoint /\ next.index = index /\ next.command = c /\ next.words = e.words
        /\ next.sg = e.sg
    BY <1>3, <2>2 DEF Endpoint
  <2> HIDE DEF next
  <2>6. Underway(next)
    BY <2>1, <2>2, <2>5 DEF Underway, ValidEntries
  <2>7. r.command = c
    BY <2>4, <2>5, <2>6, PayloadKeepsCommand
  <2>8. QED
    BY <2>7 DEF r
<1>7. QED
  BY <1>2, <1>4, <1>5, <1>6

LEMMA AcceptsTheCommand ==
  ASSUME NEW e \in Endpoint, e.completion = None, NEW d, WholeMedia(d),
         NEW c \in Commands, NEW works \in BOOLEAN
  PROVE  AcceptCommand(e, d, c, works).command = c
<1> DEFINE here  == [e EXCEPT !.command = c, !.index = 0, !.segment = 0]
           near  == [here EXCEPT !.offset = 0]
           there == [near EXCEPT !.sgEntry = 0]
           taken == [there EXCEPT !.sgPart = 0, !.sg = NoSg]
           fetch == [taken EXCEPT !.state = "FetchSg"]
           r == AcceptCommand(e, d, c, works)
           status == Validate(c)
           refused == status # "Success" \/ c.opcode = "Nop" \/ c.opcode = "Flush"
<1>1. r = IF status # "Success" THEN Finish(taken, status, 0, FALSE)
          ELSE IF c.opcode = "Nop" THEN Finish(taken, "Success", 0, FALSE)
          ELSE IF c.opcode = "Flush"
          THEN Finish(taken, IF works THEN "Success" ELSE "MediaError", 0, FALSE)
          ELSE IF c.sgCount > 0 THEN StartSgWordDma(fetch)
          ELSE StartOperation(taken, d, works)
  BY DEF AcceptCommand
<1>2. here \in Endpoint /\ here.command = c /\ here.index = 0
  BY DEF Endpoint
<1> HIDE DEF here
<1>3. near \in Endpoint /\ near.command = c /\ near.index = 0
  BY <1>2 DEF Endpoint
<1> HIDE DEF near
<1>4. there \in Endpoint /\ there.command = c /\ there.index = 0
  BY <1>3 DEF Endpoint
<1> HIDE DEF there
<1>5. taken \in Endpoint /\ taken.command = c /\ taken.index = 0
  BY <1>4, NoSgIs DEF Endpoint
<1> HIDE DEF taken
<1>6. fetch \in Endpoint /\ fetch.command = c
  BY <1>5, Constants DEF Endpoint
<1> HIDE DEF fetch, r, status
<1>7. \A s, blocks, durable : Finish(taken, s, blocks, durable).command = c
  BY <1>5, FinishHas
<1>8. StartSgWordDma(fetch).command = c
  BY <1>6, RequestHas DEF StartSgWordDma
<1>9. ~refused /\ ~(c.sgCount > 0) => StartOperation(taken, d, works).command = c
  <2> SUFFICES ASSUME ~refused, ~(c.sgCount > 0)
               PROVE  StartOperation(taken, d, works).command = c
    OBVIOUS
  <2>1. Moves(c)
    BY ValidateIs DEF status
  <2>2. QED
    BY <1>5, <2>1, OperationKeepsCommand
<1>10. CASE refused
  <2>1. \E s : r = Finish(taken, s, 0, FALSE)
    BY <1>1, <1>10
  <2>2. PICK s : r = Finish(taken, s, 0, FALSE)
    BY <2>1
  <2>3. Finish(taken, s, 0, FALSE).command = c
    BY <1>7, Zenon
  <2>4. QED
    BY <2>2, <2>3 DEF r
<1>11. CASE ~refused
  BY <1>1, <1>8, <1>9, <1>11 DEF r
<1>12. QED
  BY <1>10, <1>11

LEMMA StoreKeepsCommand ==
  ASSUME NEW e, EndpointInv(e), e.dma = "Transfer", NEW word \in Word
  PROVE  CountWord(StoreWord(e, word)).command = e.command
<1> DEFINE f == StoreWord(e, word)
<1>1. e \in Endpoint /\ e.kind \in {"SgAddress", "SgLength", "Payload"}
  <2>1. e \in Endpoint /\ e.req # None
    BY DEF EndpointInv, Shape
  <2>2. QED
    BY <2>1, BurstFits
<1>2. f.command = e.command
  BY <1>1 DEF StoreWord, Endpoint
<1>3. f \in Endpoint
  BY StoreWordIs DEF EndpointInv
<1> HIDE DEF f
<1>4. CountWord(f).command = e.command
  BY <1>2, <1>3, CountWordHas
<1>5. QED
  BY <1>4 DEF f

-----------------------------------------------------------------------------
(* The invariant of the payload.                                            *)

\* Only the blocks of the backends matter, and not the phase of a burst.
LEMMA WholeSame ==
  ASSUME NEW e, NEW m, NEW d, NEW b, Whole(e, m, d), b.blocks = d.blocks
  PROVE  Whole(e, m, b)
  BY DEF Whole, Delivered, ReadWhole

LEMMA AcceptedWhole ==
  ASSUME NEW e \in Endpoint, NEW m, NEW d, Whole(e, m, d)
  PROVE  LET r == [e EXCEPT !.dma = "Transfer"]
         IN  Whole(r, m, d) /\ r.state = e.state /\ r.command = e.command
<1> DEFINE r == [e EXCEPT !.dma = "Transfer"]
<1>1. /\ r.state = e.state /\ r.command = e.command /\ r.payload = e.payload
      /\ r.sg = e.sg /\ r.segment = e.segment /\ r.offset = e.offset /\ r.index = e.index
      /\ r.sgEntry = e.sgEntry /\ r.sgPart = e.sgPart /\ r.moved = e.moved
      /\ r.req = e.req /\ r.completion = e.completion
  BY DEF Endpoint
<1> HIDE DEF r
<1>2. /\ Placed(e, m) => Placed(r, m)
      /\ \A n : Delivered(e, m, d, n) => Delivered(r, m, d, n)
      /\ \A n : ListFetched(e, m, n) => ListFetched(r, m, n)
  BY <1>1, PlacedSame, DeliveredSame, ListFetchedSame
<1>3. ReadWhole(e, m, d) => ReadWhole(r, m, d)
  BY <1>1 DEF ReadWhole
<1>4. Whole(r, m, d)
  BY <1>1, <1>2, <1>3 DEF Whole
<1>5. QED
  BY <1>1, <1>4 DEF r

LEMMA SubmitWhole == QdxBInv /\ Submit => WholeInv'
<1> SUFFICES ASSUME QdxBInv, Submit, Followed(ep'.command) PROVE Whole(ep', memory', media')
  BY DEF WholeInv
<1>1. ep \in Endpoint /\ ep.completion = None /\ WholeMedia(media)
  BY DEF QdxBInv, EndpointInv, Shape, Submit
<1>2. memory' \in Images
  BY DEF Submit
<1>3. PICK c \in Commands, works \in BOOLEAN :
        /\ ep' = AcceptCommand(ep, media, c, works)
        /\ media' = IF c.opcode = "Flush" /\ works /\ Validate(c) = "Success"
                    THEN Flushed(media, c.namespace) ELSE media
  BY DEF Submit, Outcomes
<1>4. Followed(c)
  BY <1>1, <1>3, AcceptsTheCommand
<1>5. Whole(ep', memory', media)
  BY <1>1, <1>2, <1>3, <1>4, AcceptCommandWhole
<1>6. media'.blocks = media.blocks
  BY <1>1, <1>3 DEF Flushed, WholeMedia
<1>7. QED
  BY <1>5, <1>6, WholeSame

LEMMA WordToDeviceWhole == QdxBInv /\ WholeInv /\ WordToDevice => WholeInv'
<1> SUFFICES ASSUME QdxBInv, WholeInv, WordToDevice, ep'.state # "Idle", Followed(ep'.command)
             PROVE  Whole(ep', memory', media')
  BY DEF WholeInv
<1> DEFINE word == memory[PlaceOf(ep.req.address, ep.moved)]
<1>1. /\ EndpointInv(ep) /\ ep.dma = "Transfer" /\ ep.req.direction = "HostToDevice"
      /\ ep' = CountWord(StoreWord(ep, word)) /\ memory' = memory /\ media' = media
  BY DEF QdxBInv, WordToDevice, Here, PlaceOf
<1>2. word \in Word
  BY <1>1, BurstInPlaces DEF QdxBInv
<1>3. ep'.command = ep.command /\ ep.state \in {"FetchSg", "Transfer"}
  <2>1. ep.req # None
    BY <1>1 DEF EndpointInv, Shape
  <2> HIDE DEF word
  <2>2. QED
    BY <1>1, <1>2, <2>1, StoreKeepsCommand, BurstFits
<1>4. Whole(ep, memory, media)
  BY <1>3 DEF WholeInv
<1>5. Whole(CountWord(StoreWord(ep, word)), memory, media)
  BY <1>1, <1>3, <1>4, ListWordWhole, PayloadWordWhole
<1>6. QED
  BY <1>1, <1>5

LEMMA WordToHostWhole == QdxBInv /\ WholeInv /\ WordToHost => WholeInv'
<1> SUFFICES ASSUME QdxBInv, WholeInv, WordToHost, ep'.state # "Idle", Followed(ep'.command)
             PROVE  Whole(ep', memory', media')
  BY DEF WholeInv
<1> DEFINE p == PlaceOf(ep.req.address, ep.moved)
<1>1. /\ EndpointInv(ep) /\ ep.dma = "Transfer" /\ ep.req.direction = "DeviceToHost"
      /\ ep' = CountWord(ep) /\ media' = media /\ memory \in [Places -> Word]
      /\ memory' = [memory EXCEPT ![p] = ep.payload[ep.index + ep.moved]]
  BY DEF QdxBInv, WordToHost, Here, PlaceOf
<1>2. ep'.command = ep.command /\ ep.state # "Idle"
  <2>1. ep \in Endpoint /\ ep.req # None
    BY <1>1 DEF EndpointInv, Shape
  <2>2. QED
    BY <1>1, <2>1, CountWordHas, BurstFits
<1>3. Whole(ep, memory, media)
  BY <1>2 DEF WholeInv
<1>4. QED
  BY <1>1, <1>3, DeliveredWordWhole

LEMMA DmaFailsWhole == QdxBInv /\ DmaFails => WholeInv'
<1> SUFFICES ASSUME QdxBInv, DmaFails PROVE Whole(ep', memory', media')
  BY DEF WholeInv
<1>1. ep \in Endpoint /\ ep' = Finish(ep, "DmaFault", 0, FALSE)
  BY DEF QdxBInv, EndpointInv, DmaFails, BurstFailed
<1>2. QED
  BY <1>1, FinishWhole

\* What a burst done leads to, before the media are written.
LEMMA BurstDoneStep ==
  ASSUME QdxBInv, DmaCompletes
  PROVE  \E works \in BOOLEAN : LET next == BurstDone(ep, media, works) IN
           /\ EndpointInv(next) /\ next.command = ep.command
           /\ WholeInv /\ Followed(ep.command) => Whole(next, memory, media)
           /\ IF next.state = "MediaCommit" THEN Commit(next)
              ELSE ep' = next /\ UNCHANGED media
           /\ UNCHANGED memory /\ ep.state # "Idle"
<1>1. EndpointInv(ep) /\ ep.dma = "Completion" /\ WholeMedia(media)
  BY DEF QdxBInv, DmaCompletes
<1>2. PICK works \in BOOLEAN :
        IF BurstDone(ep, media, works).state = "MediaCommit"
        THEN Commit(BurstDone(ep, media, works))
        ELSE ep' = BurstDone(ep, media, works) /\ UNCHANGED media
  BY DEF DmaCompletes, Outcomes
<1> DEFINE next == BurstDone(ep, media, works)
<1>3. EndpointInv(next) /\ next.command = ep.command
  BY <1>1, BurstDoneIs, BurstDoneKeepsCommand
<1>4. ep.state # "Idle"
  <2>1. ep.req # None
    BY <1>1 DEF EndpointInv, Shape
  <2>2. QED
    BY <1>1, <2>1, BurstFits
<1>5. WholeInv /\ Followed(ep.command) => Whole(next, memory, media)
  BY <1>1, <1>4, BurstDoneWhole DEF WholeInv
<1>6. UNCHANGED memory
  BY DEF DmaCompletes
<1> HIDE DEF next
<1>7. IF next.state = "MediaCommit" THEN Commit(next) ELSE ep' = next /\ UNCHANGED media
  BY <1>2 DEF next
<1>8. QED
  BY <1>3, <1>4, <1>5, <1>6, <1>7 DEF next

\* A commit ends with the block written, or a part of it and an error.
LEMMA CommitWrites ==
  ASSUME NEW e, Commit(e)
  PROVE  LET c == e.command
             x == <<c.namespace, c.lba>>
             block == [k \in 0 .. BlockWords[c.namespace] - 1 |-> e.payload[k]]
         IN  \/ /\ media' = Wrote(media, x, block)
                /\ \E durable : ep' = Finish(e, "Success", c.blocks, durable)
             \/ /\ \E words \in DOMAIN block :
                     media' = Wrote(media, x, Torn(media.blocks[x], block, words))
                /\ \E durable : ep' = Finish(e, "MediaError", 0, durable)
<1> DEFINE c == e.command
           x == <<c.namespace, c.lba>>
           block == [k \in 0 .. BlockWords[c.namespace] - 1 |-> e.payload[k]]
           whole == media' = Wrote(media, x, block)
           part == \E words \in DOMAIN block :
                     media' = Wrote(media, x, Torn(media.blocks[x], block, words))
<1>1. \/ whole /\ ep' = Finish(e, "Success", c.blocks, c.opcode = "WriteDurable")
      \/ part /\ ep' = Finish(e, "MediaError", 0, FALSE)
  BY DEF Commit
<1> HIDE DEF whole, part
<1>2. \/ whole /\ \E durable : ep' = Finish(e, "Success", c.blocks, durable)
      \/ part /\ \E durable : ep' = Finish(e, "MediaError", 0, durable)
  BY <1>1, Zenon
<1>3. QED
  BY <1>2 DEF whole, part

LEMMA CommitFinishes ==
  ASSUME NEW e, Commit(e)
  PROVE  \E status, blocks, durable : ep' = Finish(e, status, blocks, durable)
<1>1. \/ \E durable : ep' = Finish(e, "Success", e.command.blocks, durable)
      \/ \E durable : ep' = Finish(e, "MediaError", 0, durable)
  BY CommitWrites
<1>2. QED
  BY <1>1, Zenon

LEMMA DmaCompletesWhole == QdxBInv /\ WholeInv /\ DmaCompletes => WholeInv'
<1> SUFFICES ASSUME QdxBInv, WholeInv, DmaCompletes, ep'.state # "Idle", Followed(ep'.command)
             PROVE  Whole(ep', memory', media')
  BY DEF WholeInv
<1>1. PICK works \in BOOLEAN : LET next == BurstDone(ep, media, works) IN
           /\ EndpointInv(next) /\ next.command = ep.command
           /\ WholeInv /\ Followed(ep.command) => Whole(next, memory, media)
           /\ IF next.state = "MediaCommit" THEN Commit(next)
              ELSE ep' = next /\ UNCHANGED media
           /\ UNCHANGED memory /\ ep.state # "Idle"
  BY BurstDoneStep
<1> DEFINE next == BurstDone(ep, media, works)
<1> HIDE DEF next
<1>2. /\ EndpointInv(next) /\ next.command = ep.command /\ memory' = memory
      /\ Followed(ep.command) => Whole(next, memory, media)
      /\ IF next.state = "MediaCommit" THEN Commit(next)
              ELSE ep' = next /\ UNCHANGED media
  BY <1>1 DEF next
<1>3. CASE next.state = "MediaCommit"
  <2>1. PICK status, blocks, durable : ep' = Finish(next, status, blocks, durable)
    BY <1>2, <1>3, CommitFinishes
  <2>2. next \in Endpoint /\ next.command.opcode # "Read"
    BY <1>2, <1>3 DEF EndpointInv, Writes
  <2>3. QED
    BY <2>1, <2>2, FinishWhole
<1>4. CASE next.state # "MediaCommit"
  <2>1. ep' = next /\ media' = media
    BY <1>2, <1>4
  <2>2. Followed(ep.command)
    BY <1>2, <2>1
  <2>3. QED
    BY <1>2, <2>1, <2>2
<1>5. QED
  BY <1>3, <1>4

\* The initial state and every step keep the payload and the buffer in agreement.
LEMMA InitWhole == Init => WholeInv
  BY DEF Init, NewEndpoint, WholeInv

LEMMA NextWhole == QdxBInv /\ WholeInv /\ [Next]_vars => WholeInv'
<1> SUFFICES ASSUME QdxBInv, WholeInv, [Next]_vars PROVE WholeInv'
  OBVIOUS
<1>1. CASE Submit
  BY <1>1, SubmitWhole
<1>2. CASE TakeCompletion
  <2>1. ep'.state = "Idle"
    BY <1>2 DEF TakeCompletion, QdxBInv, EndpointInv, Endpoint
  <2>2. QED
    BY <2>1 DEF WholeInv
<1>3. CASE DmaAccepted
  <2>1. /\ ep \in Endpoint /\ ep' = [ep EXCEPT !.dma = "Transfer"]
        /\ memory' = memory /\ media' = media
    BY <1>3 DEF DmaAccepted, QdxBInv, EndpointInv
  <2>2. ep'.state = ep.state /\ ep'.command = ep.command
    BY <2>1 DEF Endpoint
  <2>3. QED
    BY <2>1, <2>2, AcceptedWhole DEF WholeInv
<1>4. CASE WordToDevice
  BY <1>4, WordToDeviceWhole
<1>5. CASE WordToHost
  BY <1>5, WordToHostWhole
<1>6. CASE DmaFails
  BY <1>6, DmaFailsWhole
<1>7. CASE DmaCompletes
  BY <1>7, DmaCompletesWhole
<1>8. CASE Reset
  BY <1>8 DEF Reset, NewEndpoint, WholeInv
<1>9. CASE UNCHANGED vars
  BY <1>9 DEF vars, WholeInv
<1>10. QED
  BY <1>1, <1>2, <1>3, <1>4, <1>5, <1>6, <1>7, <1>8, <1>9 DEF Next, DmaClock

-----------------------------------------------------------------------------
(* What a step writes.                                                      *)

\* What WritesAreWhole, and OnlyTheBuffer, say of a step.
BlockWritten(x) ==
  LET c == ep.command
      sent == [k \in 0 .. BlockWords[x[1]] - 1 |-> memory[BufferPlace(memory, c, k)]] IN
  /\ c.opcode \in Writes /\ x = <<c.namespace, c.lba>>
  /\ \/ media'.blocks[x] = sent /\ ep'.completion.status = "Success"
     \/ /\ \E n \in DOMAIN sent : media'.blocks[x] = Torn(media.blocks[x], sent, n)
        /\ ep'.completion.status = "MediaError"

WholeWrites == \A x \in Extents : media'.blocks[x] # media.blocks[x] => BlockWritten(x)

BufferWritten(p) == ep.command.opcode \notin Writes /\ p \in Buffer(memory, ep.command)

BufferWrites ==
  ep.state # "Idle" => \A p \in Places : memory'[p] # memory[p] => BufferWritten(p)

\* Only the commit of a write changes a block.
LEMMA OnlyCommitsWrite ==
  ASSUME QdxBInv, [Next]_vars, ~DmaCompletes
  PROVE  media'.blocks = media.blocks
<1>1. CASE Submit
  <2>1. PICK ns : media' = Flushed(media, ns) \/ media' = media
    BY <1>1 DEF Submit
  <2>2. media = [blocks |-> media.blocks, unsynced |-> media.unsynced]
    BY DEF QdxBInv, WholeMedia
  <2>3. QED
    BY <2>1, <2>2 DEF Flushed
<1>2. CASE ~Submit
  BY <1>2 DEF Next, DmaClock, vars, TakeCompletion, DmaAccepted, WordToDevice, WordToHost,
              DmaFails, Reset
<1>3. QED
  BY <1>1, <1>2

\* A commit writes the block its command names, from the payload.
LEMMA CommitWritesTheBlock ==
  ASSUME NEW e, e \in Endpoint, WholeMedia(media), <<e.command.namespace, e.command.lba>> \in Extents,
         Commit(e)
  PROVE  LET c == e.command
             x == <<c.namespace, c.lba>>
             block == [k \in 0 .. BlockWords[c.namespace] - 1 |-> e.payload[k]]
         IN  /\ \A y \in Extents : y # x => media'.blocks[y] = media.blocks[y]
             /\ \/ media'.blocks[x] = block /\ ep'.completion.status = "Success"
                \/ /\ \E n \in DOMAIN block : media'.blocks[x] = Torn(media.blocks[x], block, n)
                   /\ ep'.completion.status = "MediaError"
<1> DEFINE c == e.command
           x == <<c.namespace, c.lba>>
           block == [k \in 0 .. BlockWords[c.namespace] - 1 |-> e.payload[k]]
<1>1. \/ /\ media' = Wrote(media, x, block)
         /\ \E durable : ep' = Finish(e, "Success", c.blocks, durable)
      \/ /\ \E words \in DOMAIN block :
              media' = Wrote(media, x, Torn(media.blocks[x], block, words))
         /\ \E durable : ep' = Finish(e, "MediaError", 0, durable)
  BY CommitWrites
<1>2. \A status, blocks, durable : Finish(e, status, blocks, durable).completion.status = status
  BY FinishHas
<1> HIDE DEF x, block, c
<1>3. x \in Extents
  BY DEF x, c
<1>4. \A b : LET w == Wrote(media, x, b) IN
               w.blocks[x] = b /\ \A y \in Extents : y # x => w.blocks[y] = media.blocks[y]
  <2>1. media.blocks = [y \in Extents |-> media.blocks[y]]
    BY DEF WholeMedia
  <2>2. QED
    BY <1>3, <2>1 DEF Wrote
<1>5. CASE /\ media' = Wrote(media, x, block)
           /\ \E durable : ep' = Finish(e, "Success", c.blocks, durable)
  <2>1. ep'.completion.status = "Success"
    BY <1>2, <1>5
  <2>2. media'.blocks[x] = block /\ \A y \in Extents : y # x => media'.blocks[y] = media.blocks[y]
    BY <1>4, <1>5
  <2>3. QED
    BY <2>1, <2>2 DEF x, block, c
<1>6. CASE /\ \E words \in DOMAIN block :
                media' = Wrote(media, x, Torn(media.blocks[x], block, words))
           /\ \E durable : ep' = Finish(e, "MediaError", 0, durable)
  <2>1. ep'.completion.status = "MediaError"
    BY <1>2, <1>6
  <2>2. PICK n \in DOMAIN block : media' = Wrote(media, x, Torn(media.blocks[x], block, n))
    BY <1>6
  <2>3. /\ media'.blocks[x] = Torn(media.blocks[x], block, n)
        /\ \A y \in Extents : y # x => media'.blocks[y] = media.blocks[y]
    BY <1>4, <2>2
  <2>4. \E i \in DOMAIN block : media'.blocks[x] = Torn(media.blocks[x], block, i)
    BY <2>3
  <2>5. QED
    BY <2>1, <2>3, <2>4 DEF x, block, c
<1>7. QED
  BY <1>1, <1>5, <1>6

LEMMA StepWritesWhole == QdxBInv /\ WholeInv /\ [Next]_vars => WholeWrites
<1> SUFFICES ASSUME QdxBInv, WholeInv, [Next]_vars, NEW y \in Extents,
                    media'.blocks[y] # media.blocks[y]
             PROVE  BlockWritten(y)
  BY DEF WholeWrites
<1>1. DmaCompletes
  BY OnlyCommitsWrite
<1>2. PICK works \in BOOLEAN : LET next == BurstDone(ep, media, works) IN
           /\ EndpointInv(next) /\ next.command = ep.command
           /\ WholeInv /\ Followed(ep.command) => Whole(next, memory, media)
           /\ IF next.state = "MediaCommit" THEN Commit(next)
              ELSE ep' = next /\ UNCHANGED media
           /\ UNCHANGED memory /\ ep.state # "Idle"
  BY <1>1, BurstDoneStep
<1> DEFINE next == BurstDone(ep, media, works)
           c == ep.command
           x == <<c.namespace, c.lba>>
           block == [k \in 0 .. BlockWords[c.namespace] - 1 |-> next.payload[k]]
           sent == [k \in 0 .. BlockWords[c.namespace] - 1 |-> memory[BufferPlace(memory, c, k)]]
<1> HIDE DEF next
<1>3. /\ EndpointInv(next) /\ next.command = c /\ next.state = "MediaCommit" /\ Commit(next)
      /\ Followed(c) => Whole(next, memory, media)
  BY <1>2 DEF next
<1>4. /\ next \in Endpoint /\ c \in Commands /\ c.opcode \in Writes /\ x \in Extents
      /\ BlockWords[c.namespace] \in Nat
  <2>1. next \in Endpoint /\ Moves(c) /\ c.opcode \in Writes
    BY <1>3 DEF EndpointInv
  <2>2. c.opcode \notin Reports /\ c \in Commands
    BY <2>1 DEF Writes, Reports, Moves
  <2>3. x \in Extents /\ c.namespace \in Namespaces
    BY <2>1, <2>2 DEF Moves, Extents
  <2>4. QED
    BY <2>1, <2>2, <2>3, NamespaceIs, Sizes
<1>5. block = sent
  <2>1. Whole(next, memory, media)
    BY <1>3, <1>4 DEF Followed
  <2>2. Delivered(next, memory, media, BlockWords[c.namespace])
    BY <1>3, <2>1 DEF Whole
  <2>3. \A k \in 0 .. BlockWords[c.namespace] - 1 : next.payload[k] = memory[BufferPlace(memory, c, k)]
    BY <1>3, <2>2 DEF Delivered
  <2>4. QED
    BY <2>3
<1>6. /\ \A z \in Extents : z # x => media'.blocks[z] = media.blocks[z]
      /\ \/ media'.blocks[x] = block /\ ep'.completion.status = "Success"
         \/ /\ \E n \in DOMAIN block : media'.blocks[x] = Torn(media.blocks[x], block, n)
            /\ ep'.completion.status = "MediaError"
  <2> DEFINE d == next.command
             z == <<d.namespace, d.lba>>
             there == [k \in 0 .. BlockWords[d.namespace] - 1 |-> next.payload[k]]
  <2>1. z \in Extents /\ WholeMedia(media)
    BY <1>3, <1>4 DEF QdxBInv
  <2>2. /\ \A w \in Extents : w # z => media'.blocks[w] = media.blocks[w]
        /\ \/ media'.blocks[z] = there /\ ep'.completion.status = "Success"
           \/ /\ \E n \in DOMAIN there : media'.blocks[z] = Torn(media.blocks[z], there, n)
              /\ ep'.completion.status = "MediaError"
    BY <1>3, <1>4, <2>1, CommitWritesTheBlock
  <2>3. z = x /\ there = block
    BY <1>3
  <2> HIDE DEF z, there, x, block
  <2>4. QED
    BY <2>2, <2>3
<1>7. y = x /\ x[1] = c.namespace
  BY <1>6
<1> HIDE DEF block
<1>8. \/ media'.blocks[x] = sent /\ ep'.completion.status = "Success"
      \/ /\ \E n \in DOMAIN sent : media'.blocks[x] = Torn(media.blocks[x], sent, n)
         /\ ep'.completion.status = "MediaError"
  BY <1>5, <1>6
<1>9. QED
  BY <1>4, <1>7, <1>8 DEF BlockWritten

\* Only a word of a read or of a report changes memory while a command is there.
LEMMA StepWritesBuffer ==
  SoftwareKeepsApart /\ QdxBInv /\ WholeInv /\ [Next]_vars => BufferWrites
<1> SUFFICES ASSUME SoftwareKeepsApart, QdxBInv, WholeInv, [Next]_vars, ep.state # "Idle",
                    NEW q \in Places, memory'[q] # memory[q]
             PROVE  BufferWritten(q)
  BY DEF BufferWrites
<1>1. WordToHost
  BY DEF Next, DmaClock, vars, Submit, TakeCompletion, DmaAccepted, WordToDevice, DmaFails,
         DmaCompletes, Reset
<1> DEFINE p == PlaceOf(ep.req.address, ep.moved)
<1>2. /\ EndpointInv(ep) /\ ep.dma = "Transfer" /\ ep.req.direction = "DeviceToHost"
      /\ memory \in [Places -> Word]
      /\ memory' = [memory EXCEPT ![p] = ep.payload[ep.index + ep.moved]]
  BY <1>1 DEF QdxBInv, WordToHost, Here, PlaceOf
<1>3. q = p
  BY <1>2
<1>4. Whole(ep, memory, media)
  BY DEF WholeInv, Followed
<1>5. ep.command.opcode \notin Writes /\ p \in Buffer(memory, ep.command)
  BY <1>2, <1>4, DeliveredWordWhole
<1>6. QED
  BY <1>3, <1>5 DEF BufferWritten

-----------------------------------------------------------------------------
(* The theorems about payloads.                                             *)

(* While a command moves, the engine's place in its list of segments is that of the next word
   of the buffer, and what has moved so far is in agreement in the payload, in the buffer and,
   for a read, in the block: the walk of start_payload_dma over segments and bursts, with the
   list as it was fetched word by word.  For a command that reads, as long as software keeps
   its buffer apart from its list. *)
THEOREM QdxBWholeInvariant == Spec => []WholeInv
<1>1. Init => QdxBInv /\ WholeInv
  BY InitInv, InitWhole
<1>2. QdxBInv /\ WholeInv /\ [Next]_vars => (QdxBInv /\ WholeInv)'
  BY NextInv, NextWhole
<1>3. QED
  BY <1>1, <1>2, PTL DEF Spec

(* A block changes in one step, into the words of the command's buffer in order, whatever list
   describes the buffer, or into a part of them when the backend fails and the completion says
   so.  No write that was aborted, refused or reset reaches the media (commit_media). *)
THEOREM WritesAreWholeProved == Spec => WritesAreWhole
<1>1. QdxBInv /\ WholeInv /\ [Next]_vars => [WholeWrites]_vars
  BY StepWritesWhole
<1>2. Spec => [][WholeWrites]_vars
  BY QdxBInvariant, QdxBWholeInvariant, <1>1, PTL DEF Spec
<1>3. QED
  BY <1>2 DEF WritesAreWhole, WholeWrites, BlockWritten

(* A read that completes with success has put the whole block into the buffer, every word at
   its place, if software keeps the buffer apart from the list. *)
THEOREM ReadsAreWholeProved ==
  ASSUME SoftwareKeepsApart PROVE Spec => []ReadsAreWhole
<1>1. WholeInv => ReadsAreWhole
  <2> SUFFICES ASSUME WholeInv, ep.state = "Complete" PROVE ReadsAreWhole
    BY DEF ReadsAreWhole
  <2>1. Whole(ep, memory, media)
    BY DEF WholeInv, Followed
  <2>2. QED
    BY <2>1 DEF Whole, ReadWhole, ReadsAreWhole
<1>2. QED
  BY QdxBWholeInvariant, <1>1, PTL

(* No command touches memory outside the buffer it names, and one that writes the media
   touches none, if software keeps the buffers that are read into apart from their lists. *)
THEOREM OnlyTheBufferProved ==
  ASSUME SoftwareKeepsApart PROVE Spec => OnlyTheBuffer
<1>1. QdxBInv /\ WholeInv /\ [Next]_vars => [BufferWrites]_vars
  BY StepWritesBuffer
<1>2. Spec => [][BufferWrites]_vars
  BY QdxBInvariant, QdxBWholeInvariant, <1>1, PTL DEF Spec
<1>3. QED
  BY <1>2 DEF OnlyTheBuffer, BufferWrites, BufferWritten

-----------------------------------------------------------------------------
(* The events of a command.                                                 *)

\* What a transfer goes on with: its next burst from place i of n words, or its end.
GoesOn(r, n, i) ==
  \/ r.state \in {"MediaCommit", "Complete"}
  \/ r.state = "Transfer" /\ r.dma = "Request" /\ r.words = n /\ r.index = i

LEMMA PayloadGoesOn ==
  ASSUME NEW e \in Endpoint, Underway(e), e.state = "Transfer", NEW direction
  PROVE  GoesOn(StartPayloadDma(e, direction), e.words, e.index)
<1> DEFINE c == e.command
           idle == [e EXCEPT !.dma = "Idle", !.req = None]
           there == NextSegment(e)
           r == StartPayloadDma(e, direction)
<1>1. c.sgCount \in Nat
  BY UnderwayIs
<1>2. CASE e.index >= e.words
  <2>1. idle \in Endpoint
    BY Constants DEF Endpoint
  <2>2. r = IF c.opcode \in Writes THEN [idle EXCEPT !.state = "MediaCommit"]
            ELSE Finish(idle, "Success", IF c.opcode = "Read" THEN c.blocks ELSE 0, FALSE)
    BY <1>2 DEF StartPayloadDma, PayloadDone
  <2> HIDE DEF idle, r
  <2>3. \A status, blocks, durable : Finish(idle, status, blocks, durable).state = "Complete"
    BY <2>1, FinishHas
  <2>4. [idle EXCEPT !.state = "MediaCommit"].state = "MediaCommit"
    BY <2>1 DEF Endpoint
  <2>5. r.state \in {"MediaCommit", "Complete"}
    <3>1. CASE c.opcode \in Writes
      BY <2>2, <2>4, <3>1
    <3>2. CASE c.opcode \notin Writes
      BY <2>2, <2>3, <3>2, Zenon
    <3>3. QED
      BY <3>1, <3>2
  <2>6. QED
    BY <2>5 DEF r, GoesOn
<1>3. CASE ~(e.index >= e.words) /\ c.sgCount = 0
  BY <1>3, RequestHas DEF StartPayloadDma, GoesOn
<1>4. CASE ~(e.index >= e.words) /\ c.sgCount # 0
  <2>1. /\ there \in Endpoint /\ there.state = "Transfer"
        /\ there.words = e.words /\ there.index = e.index
    BY <1>1, <1>4, NextSegmentIs
  <2>2. r = IF there.segment >= c.sgCount THEN Finish(there, "InvalidField", 0, FALSE)
            ELSE SegmentBurst(there, direction)
    BY <1>4 DEF StartPayloadDma
  <2> HIDE DEF there, r
  <2>3. GoesOn(SegmentBurst(there, direction), e.words, e.index)
    BY <2>1, RequestHas DEF SegmentBurst, GoesOn
  <2>4. \A status, blocks, durable : Finish(there, status, blocks, durable).state = "Complete"
    BY <2>1, FinishHas
  <2>5. GoesOn(r, e.words, e.index)
    <3>1. CASE there.segment >= c.sgCount
      <4>1. r.state = "Complete"
        BY <2>2, <2>4, <3>1, Zenon
      <4>2. QED
        BY <4>1 DEF GoesOn
    <3>2. CASE ~(there.segment >= c.sgCount)
      BY <2>2, <2>3, <3>2
    <3>3. QED
      BY <3>1, <3>2
  <2>6. QED
    BY <2>5 DEF r
<1>5. QED
  BY <1>2, <1>3, <1>4

\* A transfer is of whole words, and there are some.
LEMMA WordsOfTransfer ==
  ASSUME NEW c, Moves(c)
  PROVE  \E n \in 1 .. PayloadWords :
           TransferBytes(c) = n * WordBytes /\ TransferBytes(c) \div WordBytes = n
<1> DEFINE n == IF c.opcode \in Reports THEN ReportWords ELSE BlockWords[c.namespace]
<1>1. c.opcode \notin Reports => c.namespace \in Namespaces
  BY DEF Moves, Extents
<1>2. n \in 1 .. PayloadWords
  BY <1>1, NamespaceIs, Sizes
<1>3. TransferBytes(c) = n * 4
  BY <1>2, Sizes DEF TransferBytes, WordBytes
<1> HIDE DEF n
<1>4. n \in Nat /\ (n * 4) \div 4 = n
  BY <1>2, Sizes
<1>5. QED
  BY <1>2, <1>3, <1>4 DEF WordBytes

LEMMA OperationGoesOn ==
  ASSUME NEW e \in Endpoint, Moves(e.command), e.index = 0,
         e.command.sgCount > 0 => ValidEntries(e), NEW d, WholeMedia(d), NEW works \in BOOLEAN
  PROVE  GoesOn(StartOperation(e, d, works), TransferBytes(e.command) \div WordBytes, 0)
<1> DEFINE c == e.command
           r == StartOperation(e, d, works)
           words == IF c.opcode \in Reports THEN ReportWords ELSE BlockWords[c.namespace]
           block == d.blocks[<<c.namespace, c.lba>>]
           bare == [e EXCEPT !.payload = NoPayload]
           size == TransferBytes(c) \div WordBytes
<1>1. c \in Commands /\ (c.opcode \notin Reports => c.namespace \in Namespaces
                           /\ <<c.namespace, c.lba>> \in Extents)
  BY DEF Moves, Extents
<1>2. words \in 0 .. PayloadWords /\ words * WordBytes = TransferBytes(c) /\ words = size
  <2>1. words \in 1 .. PayloadWords
    BY <1>1, NamespaceIs, Sizes
  <2>2. words * WordBytes = TransferBytes(c)
    BY <2>1, Sizes DEF TransferBytes, WordBytes
  <2>3. PICK n \in 1 .. PayloadWords : TransferBytes(c) = n * WordBytes /\ size = n
    BY WordsOfTransfer
  <2> HIDE DEF words, size
  <2>4. words = n
    BY <2>1, <2>2, <2>3, Sizes DEF WordBytes
  <2>5. QED
    BY <2>1, <2>2, <2>3, <2>4, Sizes
<1>3. r = IF c.opcode \in Reports THEN Transfer(e, Report(c), words, "DeviceToHost")
          ELSE IF c.opcode \in Writes THEN Transfer(e, NoPayload, words, "HostToDevice")
          ELSE IF works THEN Transfer(e, Staged(block), words, "DeviceToHost")
          ELSE Finish(bare, "MediaError", 0, FALSE)
  BY DEF StartOperation, Transfer
<1> HIDE DEF words, r, size
<1>4. ASSUME NEW payload \in Staging, NEW direction
      PROVE  GoesOn(Transfer(e, payload, words, direction), size, 0)
  <2> DEFINE t == [e EXCEPT !.payload = payload, !.words = words, !.state = "Transfer"]
  <2>1. /\ t \in Endpoint /\ t.words = words /\ t.command = e.command /\ t.index = 0
        /\ t.sg = e.sg /\ t.state = "Transfer"
    BY <1>2, Constants DEF Endpoint
  <2> HIDE DEF t
  <2>2. words >= 0
    BY <1>2, Sizes
  <2>3. Underway(t)
    BY <1>2, <2>1, <2>2 DEF Underway, ValidEntries
  <2>4. GoesOn(StartPayloadDma(t, direction), words, 0)
    BY <2>1, <2>3, PayloadGoesOn
  <2>5. QED
    BY <1>2, <2>4 DEF t, Transfer
<1>5. CASE c.opcode \in Reports
  <2>1. Report(c) \in Staging
    BY <1>1, ReportIs DEF Moves
  <2>2. QED
    BY <1>3, <1>4, <1>5, <2>1 DEF r, size
<1>6. CASE c.opcode \notin Reports /\ c.opcode \in Writes
  BY <1>3, <1>4, <1>6, ZeroIs DEF r, size
<1>7. CASE c.opcode \notin Reports /\ c.opcode \notin Writes /\ works
  <2>1. block \in Block(c.namespace) /\ c.namespace \in Namespaces
    BY <1>1, <1>7 DEF WholeMedia
  <2>2. Staged(block) \in Staging
    BY <2>1, StagedIs
  <2> HIDE DEF block
  <2>3. QED
    BY <1>3, <1>4, <1>7, <2>2 DEF r, size
<1>8. CASE c.opcode \notin Reports /\ c.opcode \notin Writes /\ ~works
  <2>1. bare \in Endpoint
    BY ZeroIs DEF Endpoint
  <2>2. r = Finish(bare, "MediaError", 0, FALSE)
    BY <1>3, <1>8
  <2> HIDE DEF bare
  <2>3. \A status, blocks, durable : Finish(bare, status, blocks, durable).state = "Complete"
    BY <2>1, FinishHas
  <2>4. r.state = "Complete"
    BY <2>2, <2>3, Zenon
  <2>5. QED
    BY <2>4 DEF r, GoesOn
<1>9. QED
  BY <1>5, <1>6, <1>7, <1>8

\* What follows a burst that is done: the next word of the list, or the transfer going on.
LEMMA BurstDoneGoesOn ==
  ASSUME NEW e, EndpointInv(e), e.dma = "Completion", NEW d, WholeMedia(d), NEW works \in BOOLEAN
  PROVE  LET r == BurstDone(e, d, works) IN
         \/ /\ e.state = "FetchSg" /\ r.state = "FetchSg" /\ r.dma = "Request"
            /\ 2 * r.sgEntry + r.sgPart = 2 * e.sgEntry + e.sgPart + 1
         \/ e.state = "FetchSg" /\ GoesOn(r, TransferBytes(e.command) \div WordBytes, 0)
         \/ e.state = "Transfer" /\ GoesOn(r, e.words, e.index + e.req.words)
<1> DEFINE idle == [e EXCEPT !.dma = "Idle", !.req = None]
           r == BurstDone(e, d, works)
           c == e.command
           size == TransferBytes(c) \div WordBytes
           Onward == /\ r.state = "FetchSg" /\ r.dma = "Request"
                     /\ 2 * r.sgEntry + r.sgPart = 2 * e.sgEntry + e.sgPart + 1
<1>1. e \in Endpoint /\ e.req # None
  BY DEF EndpointInv, Shape
<1>2. /\ e.req \in BurstRequest /\ e.state \in {"FetchSg", "Transfer"} /\ e.completion = None
      /\ e.state = "FetchSg" => e.kind \in {"SgAddress", "SgLength"}
      /\ e.state = "Transfer" => e.kind = "Payload" /\ e.index + e.req.words <= e.words
  BY <1>1, BurstFits
<1>3. /\ idle \in Endpoint /\ idle.command = c /\ idle.sg = e.sg /\ idle.sgEntry = e.sgEntry
      /\ idle.words = e.words /\ idle.index = e.index /\ idle.offset = e.offset
      /\ idle.state = e.state
  BY <1>1, <1>2, Constants DEF Endpoint
<1>4. CASE e.state = "FetchSg" /\ e.kind = "SgAddress"
  <2> DEFINE next == [idle EXCEPT !.sgPart = 1]
  <2>1. r = StartSgWordDma(next) /\ ListBurst(e)
    BY <1>4 DEF BurstDone, EndpointInv
  <2>2. e.sgPart = 0 /\ e.sgEntry \in Nat
    BY <1>1, <1>4, <2>1 DEF ListBurst, Endpoint
  <2> HIDE DEF idle, r
  <2>3. /\ next \in Endpoint /\ next.sgPart = 1 /\ next.sgEntry = e.sgEntry
        /\ next.state = "FetchSg"
    BY <1>3, <1>4 DEF Endpoint
  <2> HIDE DEF next
  <2>4. /\ r.state = "FetchSg" /\ r.dma = "Request"
        /\ r.sgEntry = e.sgEntry /\ r.sgPart = 1
    BY <2>1, <2>3, RequestHas DEF StartSgWordDma
  <2>5. Onward
    BY <2>2, <2>4
  <2>6. QED
    BY <1>4, <2>5 DEF r
<1>5. CASE e.state = "FetchSg" /\ e.kind = "SgLength"
  <2> DEFINE half == [idle EXCEPT !.sgPart = 0]
             n == e.sgEntry + 1
             next == [half EXCEPT !.sgEntry = n]
  <2>1. ListBurst(e) /\ Moves(c) /\ e.index = 0 /\ n \in Nat /\ e.sgEntry \in Nat
    BY <1>1, <1>5 DEF EndpointInv, ListBurst, Endpoint
  <2>2. r = SgEntryDone(idle, d, works) /\ e.sgPart = 1
    BY <1>1, <1>5, <2>1 DEF BurstDone, ListBurst, Endpoint
  <2> HIDE DEF idle, r
  <2>3. r = IF next.sgEntry < next.command.sgCount THEN StartSgWordDma(next)
            ELSE IF ValidSg(next) THEN StartOperation(next, d, works)
            ELSE Finish(next, "InvalidField", 0, FALSE)
    BY <1>3, <2>2 DEF SgEntryDone, Endpoint
  <2>4. /\ half \in Endpoint /\ half.command = c /\ half.index = 0 /\ half.sgPart = 0
        /\ half.state = "FetchSg"
    BY <1>3, <1>5, <2>1 DEF Endpoint
  <2> HIDE DEF half, n
  <2>5. /\ next \in Endpoint /\ next.command = c /\ next.index = 0 /\ next.sgPart = 0
        /\ next.sgEntry = n /\ next.state = "FetchSg"
    BY <2>1, <2>4 DEF Endpoint
  <2> HIDE DEF next
  <2>6. CASE next.sgEntry < next.command.sgCount
    <3>1. r = StartSgWordDma(next)
      BY <2>3, <2>6
    <3>2. r.state = "FetchSg" /\ r.dma = "Request" /\ r.sgEntry = n /\ r.sgPart = 0
      BY <2>5, <3>1, RequestHas DEF StartSgWordDma
    <3>3. Onward
      BY <2>1, <2>2, <3>2 DEF n
    <3>4. QED
      BY <1>5, <3>3 DEF r
  <2>7. CASE ~(next.sgEntry < next.command.sgCount) /\ ValidSg(next)
    <3>1. r = StartOperation(next, d, works) /\ ValidEntries(next)
      BY <2>3, <2>7 DEF ValidSg
    <3>2. Moves(next.command) /\ next.index = 0
      BY <2>1, <2>5
    <3>3. GoesOn(r, TransferBytes(next.command) \div WordBytes, 0)
      BY <2>5, <3>1, <3>2, OperationGoesOn
    <3>4. GoesOn(r, size, 0)
      BY <2>5, <3>3
    <3>5. QED
      BY <1>5, <3>4 DEF r
  <2>8. CASE ~(next.sgEntry < next.command.sgCount) /\ ~ValidSg(next)
    <3>1. r = Finish(next, "InvalidField", 0, FALSE)
      BY <2>3, <2>8
    <3>2. \A status, blocks, durable : Finish(next, status, blocks, durable).state = "Complete"
      BY <2>5, FinishHas
    <3>3. r.state = "Complete"
      BY <3>1, <3>2, Zenon
    <3>4. GoesOn(r, size, 0)
      BY <3>3 DEF GoesOn
    <3>5. QED
      BY <1>5, <3>4 DEF r
  <2>9. QED
    BY <2>6, <2>7, <2>8
<1>6. CASE e.state = "Transfer"
  <2> DEFINE n == e.req.words
             offset == IF c.sgCount > 0 THEN e.offset + n ELSE e.offset
             index == e.index + n
             next == [idle EXCEPT !.index = index, !.offset = offset]
  <2>1. Underway(e)
    BY <1>6 DEF EndpointInv, PayloadBurst
  <2>2. n \in Nat /\ index <= e.words /\ index \in Nat /\ offset \in Nat
    BY <1>1, <1>2, <1>6 DEF BurstRequest, Endpoint
  <2>3. r = PayloadBurstDone(idle, e.req.direction, n)
    BY <1>2, <1>6 DEF BurstDone
  <2> HIDE DEF idle, r
  <2>4. r = StartPayloadDma(next, e.req.direction)
    BY <1>3, <2>3 DEF PayloadBurstDone, Endpoint
  <2> HIDE DEF offset, index, n
  <2>5. /\ next \in Endpoint /\ next.index = index /\ next.command = c /\ next.words = e.words
        /\ next.sg = e.sg /\ next.state = "Transfer"
    BY <1>3, <1>6, <2>2 DEF Endpoint
  <2> HIDE DEF next
  <2>6. Underway(next)
    BY <2>1, <2>2, <2>5 DEF Underway, ValidEntries
  <2>7. GoesOn(r, e.words, index)
    BY <2>4, <2>5, <2>6, PayloadGoesOn
  <2>8. QED
    BY <1>6, <2>7 DEF r, index, n
<1>7. QED
  BY <1>2, <1>4, <1>5, <1>6

\* What a burst under way leaves to be done, as a number.
LEMMA LeftIs ==
  ASSUME NEW e, EndpointInv(e), e.req # None
  PROVE  LET had == IF e.dma = "Request" THEN 0 ELSE 1 + e.moved
             size == TransferBytes(e.command) \div WordBytes IN
         /\ Left(e) \in Nat /\ Left(e) > 0
         /\ e.moved \in Nat /\ e.moved <= e.req.words
         /\ e.req.words \in Nat /\ e.req.words > 0
         /\ e.state = "FetchSg" =>
              /\ e.req.words = 1 /\ size \in Nat
              /\ 2 * e.command.sgCount \in Int /\ 2 * e.sgEntry + e.sgPart \in Nat
              /\ 2 * e.sgEntry + e.sgPart < 2 * e.command.sgCount
              /\ Left(e) = 3 * (2 * e.command.sgCount - (2 * e.sgEntry + e.sgPart) + size) - had
         /\ e.state = "Transfer" =>
              /\ e.words \in Nat /\ e.index \in Nat /\ e.index + e.req.words <= e.words
              /\ Left(e) = 3 * (e.words - e.index) - had
<1> DEFINE had == IF e.dma = "Request" THEN 0 ELSE 1 + e.moved
           size == TransferBytes(e.command) \div WordBytes
           place == 2 * e.sgEntry + e.sgPart
           list == 2 * e.command.sgCount
           n == e.req.words
<1>1. /\ e \in Endpoint /\ e.moved \in Nat /\ e.moved <= n /\ n \in Bursts
      /\ e.state \in {"FetchSg", "Transfer"} /\ e.command \in Commands
      /\ e.state = "Transfer" => e.index + n <= e.words
  BY BurstFits DEF Endpoint
<1>2. n \in Nat /\ n > 0 /\ had \in Nat /\ had <= 1 + n
  BY <1>1, Sizes
<1>3. CASE e.state = "FetchSg"
  <2>1. /\ Moves(e.command) /\ e.sgEntry < e.command.sgCount /\ n = 1
        /\ e.sgEntry \in Nat /\ e.sgPart \in {0, 1} /\ e.command.sgCount \in Nat
    BY <1>1, <1>3, CommandIs DEF EndpointInv, ListBurst, Endpoint
  <2>2. size \in Nat
    BY <2>1, WordsOfTransfer
  <2>3. Left(e) = 3 * ((list - place) + size) - had
    BY <1>3 DEF Left
  <2>4. place \in Nat /\ list \in Nat /\ place < list
    BY <2>1
  <2> HIDE DEF had, size, place, list, n
  <2>5. Left(e) \in Nat /\ Left(e) > 0
    BY <1>2, <2>1, <2>2, <2>3, <2>4
  <2>6. QED
    BY <1>1, <1>2, <1>3, <2>1, <2>2, <2>3, <2>4, <2>5 DEF had, size, place, list, n
<1>4. CASE e.state = "Transfer"
  <2>1. e.words \in Nat /\ e.index \in Nat /\ e.index + n <= e.words
    BY <1>1, <1>4 DEF Endpoint
  <2>2. Left(e) = 3 * (e.words - e.index) - had
    BY <1>4 DEF Left
  <2> HIDE DEF had, n
  <2>3. Left(e) \in Nat /\ Left(e) > 0
    BY <1>2, <2>1, <2>2
  <2>4. QED
    BY <1>1, <1>2, <1>4, <2>1, <2>2, <2>3 DEF had, n
<1>5. QED
  BY <1>1, <1>3, <1>4

\* What EveryEventIsProgress says of a step.
Progress ==
  (ep.state # "Idle" /\ ep'.state # "Idle" /\ ep' # ep) =>
    /\ Left(ep') \in Nat /\ Left(ep') < Left(ep)
    /\ ep'.req # None \/ ep'.completion # None

\* A word that moves is one event less, whatever it is stored in.
LEMMA WordIsProgress ==
  ASSUME NEW e, EndpointInv(e), e.dma = "Transfer", NEW f,
         EndpointInv(f), f.dma = "Transfer", EndpointInv(CountWord(f)),
         f.state = e.state, f.req = e.req, f.moved = e.moved, f.command = e.command,
         f.words = e.words, f.index = e.index, f.sgEntry = e.sgEntry, f.sgPart = e.sgPart
  PROVE  LET r == CountWord(f) IN
         Left(r) \in Nat /\ Left(r) < Left(e) /\ r.req # None
<1> DEFINE r == CountWord(f)
           n == e.moved + 1
<1>1. e.req # None /\ e \in Endpoint /\ f \in Endpoint
  BY DEF EndpointInv, Shape
<1>2. /\ r.moved = n /\ r.state = e.state /\ r.req = e.req /\ r.command = e.command
      /\ r.index = e.index /\ r.sgEntry = e.sgEntry /\ r.sgPart = e.sgPart
  BY <1>1, CountWordHas
<1>3. r.words = e.words /\ r.dma # "Request"
  <2> DEFINE dma == IF n = f.req.words THEN "Completion" ELSE f.dma
  <2>1. r = [f EXCEPT !.moved = n, !.dma = dma] /\ dma # "Request"
    BY <1>1 DEF CountWord, Endpoint
  <2> HIDE DEF dma, r
  <2>2. QED
    BY <1>1, <2>1 DEF Endpoint
<1> HIDE DEF r
<1>4. EndpointInv(r)
  BY DEF r
<1>5. e.state \in {"FetchSg", "Transfer"} /\ e.moved \in Nat
  BY <1>1, BurstFits DEF Endpoint
<1>6. Left(r) \in Nat
  BY <1>1, <1>2, <1>4, LeftIs
<1>7. Left(r) = Left(e) - 1
  <2>1. CASE e.state = "FetchSg"
    <3> DEFINE left == 3 * (2 * e.command.sgCount - (2 * e.sgEntry + e.sgPart)
                            + (TransferBytes(e.command) \div WordBytes))
    <3>1. Left(e) = left - (1 + e.moved) /\ Left(r) = left - (1 + n)
      BY <1>2, <1>3, <2>1 DEF Left
    <3>2. left \in Int
      <4>1. /\ 2 * e.command.sgCount \in Int /\ 2 * e.sgEntry + e.sgPart \in Nat
            /\ TransferBytes(e.command) \div WordBytes \in Nat
        BY <1>1, <2>1, LeftIs
      <4>2. QED
        BY <4>1
    <3> HIDE DEF left
    <3>3. QED
      BY <1>5, <3>1, <3>2
  <2>2. CASE e.state = "Transfer"
    <3>1. Left(e) = 3 * (e.words - e.index) - (1 + e.moved)
          /\ Left(r) = 3 * (e.words - e.index) - (1 + n)
      BY <1>2, <1>3, <2>2 DEF Left
    <3>2. e.words \in Nat /\ e.index \in Nat
      BY <1>1, Sizes DEF Endpoint
    <3>3. QED
      BY <1>5, <3>1, <3>2
  <2>3. QED
    BY <1>5, <2>1, <2>2
<1>8. Left(e) \in Nat
  BY <1>1, LeftIs
<1>9. QED
  BY <1>1, <1>2, <1>6, <1>7, <1>8 DEF r

\* Storing a word changes only the list or the payload.
LEMMA StoreWordHas ==
  ASSUME NEW e, EndpointInv(e), e.dma = "Transfer", NEW word \in Word
  PROVE  LET f == StoreWord(e, word) IN
         /\ EndpointInv(f) /\ f.dma = "Transfer"
         /\ f.state = e.state /\ f.req = e.req /\ f.moved = e.moved /\ f.command = e.command
         /\ f.words = e.words /\ f.index = e.index /\ f.sgEntry = e.sgEntry
         /\ f.sgPart = e.sgPart
<1>1. e \in Endpoint /\ e.kind \in {"SgAddress", "SgLength", "Payload"}
  <2>1. e \in Endpoint /\ e.req # None
    BY DEF EndpointInv, Shape
  <2>2. QED
    BY <2>1, BurstFits
<1> DEFINE f == StoreWord(e, word)
<1>2. EndpointInv(f)
  BY StoreWordIs
<1>3. /\ f.dma = "Transfer"
      /\ f.state = e.state /\ f.req = e.req /\ f.moved = e.moved /\ f.command = e.command
      /\ f.words = e.words /\ f.index = e.index /\ f.sgEntry = e.sgEntry
      /\ f.sgPart = e.sgPart
  BY <1>1 DEF StoreWord, Endpoint
<1>4. QED
  BY <1>2, <1>3

\* The end of a command leaves nothing to do.
LEMMA FinishIsProgress ==
  ASSUME NEW e, EndpointInv(e), e.req # None, NEW g \in Endpoint,
         NEW status, NEW blocks, NEW durable
  PROVE  Left(Finish(g, status, blocks, durable)) = 0 /\ 0 < Left(e)
<1>1. Finish(g, status, blocks, durable).state = "Complete"
  BY FinishHas
<1>2. Left(e) \in Nat /\ Left(e) > 0
  BY LeftIs
<1>3. QED
  BY <1>1, <1>2 DEF Left

\* The end of a burst: the next one has less to do, and without one the command is done.
LEMMA DmaCompletesIsProgress ==
  ASSUME QdxBInv, DmaCompletes
  PROVE  Left(ep') \in Nat /\ Left(ep') < Left(ep)
<1>1. EndpointInv(ep) /\ ep.dma = "Completion" /\ WholeMedia(media)
  BY DEF QdxBInv, DmaCompletes
<1>2. ep \in Endpoint /\ ep.req # None /\ ep.moved = ep.req.words
  BY <1>1 DEF EndpointInv, Shape
<1>3. PICK works \in BOOLEAN :
        IF BurstDone(ep, media, works).state = "MediaCommit"
        THEN Commit(BurstDone(ep, media, works))
        ELSE ep' = BurstDone(ep, media, works) /\ UNCHANGED media
  BY DEF DmaCompletes, Outcomes
<1> DEFINE next == BurstDone(ep, media, works)
           size == TransferBytes(ep.command) \div WordBytes
<1>4. EndpointInv(next) /\ next.command = ep.command
  BY <1>1, BurstDoneIs, BurstDoneKeepsCommand
<1>5. \/ /\ ep.state = "FetchSg" /\ next.state = "FetchSg" /\ next.dma = "Request"
         /\ 2 * next.sgEntry + next.sgPart = 2 * ep.sgEntry + ep.sgPart + 1
      \/ ep.state = "FetchSg" /\ GoesOn(next, size, 0)
      \/ ep.state = "Transfer" /\ GoesOn(next, ep.words, ep.index + ep.req.words)
  BY <1>1, BurstDoneGoesOn
<1>6. IF next.state = "MediaCommit" THEN Commit(next) ELSE ep' = next
  BY <1>3
<1> HIDE DEF next
<1>7. next \in Endpoint
  BY <1>4 DEF EndpointInv
<1>8. Left(ep) \in Nat /\ Left(ep) > 0
  BY <1>1, <1>2, LeftIs
<1>9. CASE next.state = "MediaCommit"
  <2>1. PICK status, blocks, durable : ep' = Finish(next, status, blocks, durable)
    BY <1>6, <1>9, CommitFinishes
  <2>2. Left(ep') = 0
    BY <1>1, <1>2, <1>7, <2>1, FinishIsProgress
  <2>3. QED
    BY <1>8, <2>2
<1>10. CASE next.state = "Complete"
  <2>1. Left(ep') = 0
    BY <1>6, <1>10 DEF Left
  <2>2. QED
    BY <1>8, <2>1
<1>11. CASE ep.state = "FetchSg" /\ next.state \notin {"MediaCommit", "Complete"}
  <2> DEFINE list == 2 * ep.command.sgCount
             place == 2 * ep.sgEntry + ep.sgPart
  <2>1. /\ ep.req.words = 1 /\ size \in Nat /\ list \in Int /\ place \in Nat /\ place < list
        /\ Left(ep) = 3 * (list - place + size) - (1 + ep.moved)
    BY <1>1, <1>2, <1>11, LeftIs
  <2>2. Left(ep) = 3 * (list - place + size) - 2
    BY <1>2, <2>1
  <2>3. CASE /\ next.state = "FetchSg" /\ next.dma = "Request"
             /\ 2 * next.sgEntry + next.sgPart = place + 1
    <3>1. Left(next) = 3 * (list - (2 * next.sgEntry + next.sgPart) + size) - 0
      BY <1>4, <2>3 DEF Left
    <3> HIDE DEF list, place, size
    <3>2. Left(next) = 3 * (list - (place + 1) + size)
      BY <2>1, <2>3, <3>1
    <3>3. QED
      BY <1>6, <1>8, <1>11, <2>1, <2>2, <3>2
  <2>4. CASE GoesOn(next, size, 0)
    <3>1. next.state = "Transfer" /\ next.dma = "Request" /\ next.words = size /\ next.index = 0
      BY <1>11, <2>4 DEF GoesOn
    <3>2. Left(next) = 3 * (size - 0) - 0
      BY <3>1 DEF Left
    <3> HIDE DEF list, place, size
    <3>3. Left(next) = 3 * size
      BY <2>1, <3>2
    <3>4. QED
      BY <1>6, <1>11, <2>1, <2>2, <3>3
  <2>5. QED
    BY <1>5, <1>11, <2>3, <2>4
<1>12. CASE ep.state = "Transfer" /\ next.state \notin {"MediaCommit", "Complete"}
  <2> DEFINE n == ep.req.words
  <2>1. /\ ep.words \in Nat /\ ep.index \in Nat /\ n \in Nat /\ n > 0
        /\ ep.index + n <= ep.words
        /\ Left(ep) = 3 * (ep.words - ep.index) - (1 + n)
    BY <1>1, <1>2, <1>12, LeftIs
  <2>2. /\ next.state = "Transfer" /\ next.dma = "Request" /\ next.words = ep.words
        /\ next.index = ep.index + n
    BY <1>5, <1>12 DEF GoesOn
  <2>3. Left(next) = 3 * (ep.words - (ep.index + n)) - 0
    BY <2>2 DEF Left
  <2> HIDE DEF n
  <2>4. Left(next) \in Nat /\ Left(next) < Left(ep)
    BY <2>1, <2>3
  <2>5. QED
    BY <1>6, <1>12, <2>4
<1>13. QED
  BY <1>5, <1>9, <1>10, <1>11, <1>12

LEMMA StepIsProgress == QdxBInv /\ [Next]_vars => Progress
<1> SUFFICES ASSUME QdxBInv, [Next]_vars, ep.state # "Idle", ep'.state # "Idle", ep' # ep
             PROVE  /\ Left(ep') \in Nat /\ Left(ep') < Left(ep)
                    /\ ep'.req # None \/ ep'.completion # None
  BY DEF Progress
<1>1. EndpointInv(ep) /\ ep \in Endpoint
  BY DEF QdxBInv, EndpointInv
<1>2. ep'.req # None \/ ep'.completion # None
  <2>1. QdxBInv'
    BY NextInv
  <2>2. EndpointInv(ep') /\ ep'.state # "MediaCommit"
    BY <2>1 DEF QdxBInv
  <2>3. ep'.state \in {"FetchSg", "Transfer", "Complete"}
    BY <2>2 DEF EndpointInv, Endpoint, States
  <2>4. QED
    BY <2>2, <2>3 DEF EndpointInv, Shape
<1>3. CASE DmaAccepted
  <2>1. ep.dma = "Request" /\ ep' = [ep EXCEPT !.dma = "Transfer"]
    BY <1>3 DEF DmaAccepted
  <2>2. ep.req # None /\ ep.moved \in Nat
    BY <1>1, <2>1 DEF EndpointInv, Shape, Endpoint
  <2>3. EndpointInv(ep') /\ ep'.req # None
    BY <1>1, <2>1, <2>2, DmaAcceptedIs DEF Endpoint
  <2>4. Left(ep') \in Nat /\ Left(ep) \in Nat
    BY <1>1, <2>2, <2>3, LeftIs
  <2>5. Left(ep') = Left(ep) - (1 + ep.moved)
    <3>1. /\ ep'.dma = "Transfer" /\ ep'.moved = ep.moved /\ ep'.state = ep.state
          /\ ep'.command = ep.command /\ ep'.words = ep.words /\ ep'.index = ep.index
          /\ ep'.sgEntry = ep.sgEntry /\ ep'.sgPart = ep.sgPart
      BY <1>1, <2>1 DEF Endpoint
    <3>2. ep.state \in {"FetchSg", "Transfer"}
      BY <1>1, <2>2, BurstFits
    <3>3. CASE ep.state = "FetchSg"
      <4> DEFINE left == 3 * (2 * ep.command.sgCount - (2 * ep.sgEntry + ep.sgPart)
                              + (TransferBytes(ep.command) \div WordBytes))
      <4>1. Left(ep) = left - 0 /\ Left(ep') = left - (1 + ep.moved)
        BY <2>1, <3>1, <3>3 DEF Left
      <4>2. /\ 2 * ep.command.sgCount \in Int /\ 2 * ep.sgEntry + ep.sgPart \in Nat
            /\ TransferBytes(ep.command) \div WordBytes \in Nat
        BY <1>1, <2>2, <3>3, LeftIs
      <4>3. left \in Int
        BY <4>2
      <4> HIDE DEF left
      <4>4. QED
        BY <2>2, <4>1, <4>3
    <3>4. CASE ep.state = "Transfer"
      <4>1. Left(ep) = 3 * (ep.words - ep.index) - 0
            /\ Left(ep') = 3 * (ep.words - ep.index) - (1 + ep.moved)
        BY <2>1, <3>1, <3>4 DEF Left
      <4>2. ep.words \in Nat /\ ep.index \in Nat
        BY <1>1, Sizes DEF Endpoint
      <4>3. QED
        BY <2>2, <4>1, <4>2
    <3>5. QED
      BY <3>2, <3>3, <3>4
  <2>6. QED
    BY <1>2, <2>2, <2>4, <2>5
<1>4. CASE WordToDevice
  <2>1. /\ ep.dma = "Transfer" /\ memory[Here] \in Word
        /\ ep' = CountWord(StoreWord(ep, memory[Here]))
    BY <1>4, HereIs DEF WordToDevice
  <2> DEFINE f == StoreWord(ep, memory[Here])
  <2>2. /\ EndpointInv(f) /\ f.dma = "Transfer"
        /\ f.state = ep.state /\ f.req = ep.req /\ f.moved = ep.moved /\ f.command = ep.command
        /\ f.words = ep.words /\ f.index = ep.index /\ f.sgEntry = ep.sgEntry
        /\ f.sgPart = ep.sgPart
    BY <1>1, <2>1, StoreWordHas
  <2> HIDE DEF f
  <2>3. EndpointInv(CountWord(f))
    BY <2>2, CountWordIs
  <2>4. Left(CountWord(f)) \in Nat /\ Left(CountWord(f)) < Left(ep)
    BY <1>1, <2>1, <2>2, <2>3, WordIsProgress
  <2>5. QED
    BY <1>2, <2>1, <2>4 DEF f
<1>5. CASE WordToHost
  <2>1. ep.dma = "Transfer" /\ ep' = CountWord(ep)
    BY <1>5 DEF WordToHost
  <2>2. EndpointInv(CountWord(ep))
    BY <1>1, <2>1, CountWordIs
  <2>3. Left(CountWord(ep)) \in Nat /\ Left(CountWord(ep)) < Left(ep)
    BY <1>1, <2>1, <2>2, WordIsProgress
  <2>4. QED
    BY <1>2, <2>1, <2>3
<1>6. CASE DmaFails
  <2>1. ep' = Finish(ep, "DmaFault", 0, FALSE) /\ ep.dma # "Idle"
    BY <1>6 DEF DmaFails, BurstFailed
  <2>2. ep.req # None
    BY <1>1, <2>1 DEF EndpointInv, Shape
  <2>3. Left(ep') = 0 /\ 0 < Left(ep)
    BY <1>1, <2>1, <2>2, FinishIsProgress
  <2>4. QED
    BY <1>2, <2>3
<1>7. CASE DmaCompletes
  BY <1>2, <1>7, DmaCompletesIsProgress
<1>8. ~Submit /\ ~TakeCompletion /\ ~Reset
  <2>1. ~Submit
    BY DEF Submit
  <2>2. ~TakeCompletion
    BY <1>1 DEF TakeCompletion, Endpoint
  <2>3. ~Reset
    BY DEF Reset, NewEndpoint
  <2>4. QED
    BY <2>1, <2>2, <2>3
<1>9. QED
  BY <1>3, <1>4, <1>5, <1>6, <1>7, <1>8 DEF Next, DmaClock, vars

(* Between the offer of a command and its completion a burst is always under way, and every
   event of it leaves the command less to do, whatever the list says and whatever is refused
   or fails: so no command takes more events than its list and its payload have words for. *)
THEOREM EveryEventIsProgressProved == Spec => EveryEventIsProgress
<1>1. QdxBInv /\ [Next]_vars => [Progress]_vars
  BY StepIsProgress
<1>2. Spec => [][Progress]_vars
  BY QdxBInvariant, <1>1, PTL DEF Spec
<1>3. QED
  BY <1>2 DEF EveryEventIsProgress, Progress
=============================================================================
