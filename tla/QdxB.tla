---------------------------------- MODULE QdxB ----------------------------------
(***************************************************************************)
(* The QDX-B profile engine (hardware/qdx-b/rust): a block device behind   *)
(* the QDX-A queue engine.  It takes one command at a time, fetches the    *)
(* scatter/gather list the command names, moves the payload in bursts and  *)
(* answers with one completion.                                            *)
(*                                                                         *)
(* QdxBEndpoint is the record ep and each of its methods an operator from  *)
(* record to record; QdxBEndpoint::clock is the actions, one per input     *)
(* that makes it do something.  The DMA service behind                     *)
(* profile_dma_response is what the QIC promises: a burst accepted moves   *)
(* its words in order and then completes, and may fail instead at any      *)
(* point, before all words or after them.                                  *)
(*                                                                         *)
(* A word is its upper eight bits, the window of the DMA handle it may be, *)
(* and the rest.  The words a command leaves unused, its flags and its     *)
(* argument are the one question whether they are "clean".                 *)
(***************************************************************************)
EXTENDS Naturals, FiniteSetsExt

CONSTANTS
  Windows,      \* upper bits of a handle
  OffsetSpace,  \* bytes behind one handle (2^24 in the code)
  Bursts,       \* words of a legal burst (1, 4, 8, 16)
  MaxSg,        \* entries of a scatter/gather list (16)
  MaxTransfer,  \* blocks of a transfer (1)
  BlockWords,   \* words of a block, for each namespace (128 and 256)
  Blocks,       \* blocks of each namespace (64)
  ReportWords,  \* words of an identify or health report (16)
  PayloadWords, \* words of the staging buffer (256)
  FileBacked,   \* namespaces whose backend is a FileDisk, the others are RamDisks
  Commands,     \* commands software submits
  Images,       \* what software may put in memory before it submits
  None          \* the absent Option

WordBytes == 4

Word == [window : Windows, offset : 0 .. OffsetSpace - 1]

Zero == [window |-> 0, offset |-> 0]

Namespaces == DOMAIN BlockWords

Opcodes == {"Nop", "IdentifyController", "IdentifyNamespace", "IdentifyIntegrity", "GetHealth",
            "Read", "Write", "WriteDurable", "Flush", "Reserved"}
Reports == {"IdentifyController", "IdentifyNamespace", "GetHealth"}
Writes  == {"Write", "WriteDurable"}

Command == [opcode : Opcodes, clean : BOOLEAN, tag : Nat, namespace : Nat, lba : Nat,
            blocks : Nat, sgCount : Nat, data : Word, sg : Word]

Directions == {"HostToDevice", "DeviceToHost"}

BurstRequest == [direction : Directions, address : Word, words : Nat]

Statuses == {"Success", "InvalidField", "InvalidOpcode", "InvalidNamespace", "LbaRange",
             "MediaError", "DmaFault"}

Completion == [tag : Nat, status : Statuses, durable : BOOLEAN, blocks : Nat]

\* Places are the longwords of memory that handles reach.
Places == Windows \X (0 .. (OffsetSpace \div WordBytes) - 1)

ASSUME QdxBConstants ==
  /\ Windows \subseteq Nat /\ 0 \in Windows
  /\ OffsetSpace \in Nat /\ OffsetSpace > 0 /\ OffsetSpace % WordBytes = 0
  /\ Bursts \subseteq Nat \ {0} /\ 1 \in Bursts
  /\ MaxSg \in Nat /\ MaxTransfer \in Nat /\ Blocks \in Nat
  /\ BlockWords \in [{1, 2} -> 1 .. PayloadWords]
  /\ PayloadWords \in Nat /\ ReportWords \in 1 .. PayloadWords
  /\ WordBytes * PayloadWords < OffsetSpace
  /\ FileBacked \subseteq {1, 2}
  /\ Commands \subseteq Command
  /\ Images \subseteq [Places -> Word]
  /\ None \notin Commands
ASSUME NoneIsNothing == None \notin BurstRequest /\ None \notin Completion

VARIABLES
  ep,      \* the profile engine
  media,   \* the backends: blocks, and the blocks whose last write is not synced
  memory   \* the host memory the handles reach

vars == <<ep, media, memory>>

-----------------------------------------------------------------------------
(* The state.                                                               *)

NoSg == [i \in 0 .. MaxSg - 1 |-> [address |-> Zero, length |-> Zero]]

NoPayload == [k \in 0 .. PayloadWords - 1 |-> Zero]

(***************************************************************************)
(* ep.sgEntry, ep.sgPart   the list word being fetched                     *)
(* ep.words, ep.index      payload words to move, and moved in bursts done *)
(* ep.segment, ep.offset   where in the list the payload is                *)
(* ep.dma, ep.kind         phase of the burst and what it is for           *)
(* ep.req, ep.moved        the burst and the words of it moved             *)
(***************************************************************************)
NewEndpoint ==
  [state |-> "Idle", command |-> None, completion |-> None,
   sg |-> NoSg, sgEntry |-> 0, sgPart |-> 0,
   words |-> 0, index |-> 0, segment |-> 0, offset |-> 0, payload |-> NoPayload,
   dma |-> "Idle", kind |-> "None", req |-> None, moved |-> 0]

Block(ns) == [0 .. BlockWords[ns] - 1 -> Word]

Extents == Namespaces \X (0 .. Blocks - 1)

\* RamDisk::new clears the blocks; FileDisk::create sizes a file of zeros.
Init ==
  /\ ep = NewEndpoint
  /\ media = [blocks   |-> [x \in Extents |-> [k \in 0 .. BlockWords[x[1]] - 1 |-> Zero]],
              unsynced |-> {}]
  /\ memory \in Images

-----------------------------------------------------------------------------
(* Handles and bursts.                                                      *)

\* The value of a word as a length.
Length(word) == word.window * OffsetSpace + word.offset

\* Mutant: only the first byte has to be in the window.
HandleStartOk(handle, bytes) ==
  handle.offset % WordBytes = 0 /\ bytes # 0 /\ bytes <= OffsetSpace

HandleRangeOk(handle, bytes) ==
  /\ handle.offset % WordBytes = 0
  /\ bytes # 0
  /\ bytes <= OffsetSpace
  /\ handle.offset <= OffsetSpace - bytes

\* The sum stays below OffsetSpace (the debug_assert of handle_add).
HandleAdd(handle, delta) == [handle EXCEPT !.offset = @ + delta]

ChooseBurst(words) == Max({n \in Bursts : n <= words})

-----------------------------------------------------------------------------
(* Validation.                                                              *)

TransferBytes(c) ==
  WordBytes * IF c.opcode \in Reports THEN ReportWords ELSE BlockWords[c.namespace]

ValidBuffer(c) ==
  IF c.sgCount = 0 THEN HandleRangeOk(c.data, TransferBytes(c))
  ELSE HandleRangeOk(c.sg, c.sgCount * 2 * WordBytes)

NoBuffer(c) == c.sgCount = 0 /\ c.data = Zero /\ c.sg = Zero

\* The status an ill-formed command is refused with, or "Success".
Validate(c) ==
  LET field(ok) == IF ok THEN "Success" ELSE "InvalidField" IN
  IF ~c.clean \/ c.sgCount > MaxSg THEN "InvalidField"
  ELSE IF c.opcode = "Nop" THEN field(c.namespace = 0 /\ c.blocks = 0 /\ NoBuffer(c))
  ELSE IF c.opcode \in {"IdentifyIntegrity", "Reserved"} THEN "InvalidOpcode"
  ELSE IF c.opcode = "IdentifyController"
  THEN field(c.namespace = 0 /\ c.blocks = 0 /\ ValidBuffer(c))
  ELSE IF c.namespace \notin Namespaces /\ ~(c.opcode = "GetHealth" /\ c.namespace = 0)
  THEN "InvalidNamespace"
  ELSE IF c.opcode = "Flush" THEN field(c.blocks = 0 /\ NoBuffer(c))
  ELSE IF c.opcode \in Reports THEN field(c.blocks = 0 /\ ValidBuffer(c))
  ELSE IF c.blocks \notin 1 .. MaxTransfer THEN "InvalidField"
  ELSE IF c.lba + c.blocks > Blocks THEN "LbaRange"
  ELSE field(ValidBuffer(c))

SegmentWords(e, i) == Length(e.sg[i].length) \div WordBytes

\* Words of the list before entry i.
WordsBefore(e) ==
  LET before[i \in 0 .. e.command.sgCount] ==
        IF i = 0 THEN 0 ELSE before[i - 1] + SegmentWords(e, i - 1)
  IN  before

ValidEntries(e) ==
  \A i \in 0 .. e.command.sgCount - 1 :
    /\ Length(e.sg[i].length) % WordBytes = 0
    /\ HandleRangeOk(e.sg[i].address, Length(e.sg[i].length))

ValidSg(e) ==
  /\ ValidEntries(e)
  /\ WordsBefore(e)[e.command.sgCount] * WordBytes >= TransferBytes(e.command)

-----------------------------------------------------------------------------
(* The engine's methods.                                                    *)

Finish(e, status, blocks, durable) ==
  [e EXCEPT !.completion = [tag |-> e.command.tag, status |-> status,
                            durable |-> durable, blocks |-> blocks],
            !.dma = "Idle", !.req = None, !.state = "Complete"]

PayloadDone(e) ==
  LET idle == [e EXCEPT !.dma = "Idle", !.req = None] IN
  IF e.command.opcode \in Writes THEN [idle EXCEPT !.state = "MediaCommit"]
  ELSE Finish(idle, "Success", IF e.command.opcode = "Read" THEN e.command.blocks ELSE 0, FALSE)

Request(e, kind, direction, address, words) ==
  [e EXCEPT !.req = [direction |-> direction, address |-> address, words |-> words],
            !.kind = kind, !.moved = 0, !.dma = "Request"]

StartSgWordDma(e) ==
  Request(e, IF e.sgPart = 0 THEN "SgAddress" ELSE "SgLength", "HostToDevice",
          HandleAdd(e.command.sg, (e.sgEntry * 2 + e.sgPart) * WordBytes), 1)

\* Mutant: the next segment starts where the last one ended.
NextSegmentKeepsOffset(e) ==
  LET open == {i \in e.segment .. e.command.sgCount - 1 : e.offset < SegmentWords(e, i)} IN
  IF open = {} THEN [e EXCEPT !.segment = e.command.sgCount]
  ELSE [e EXCEPT !.segment = Min(open)]

\* The first segment at or after the present one that has words left.
NextSegment(e) ==
  LET left(i) == IF i = e.segment THEN e.offset ELSE 0
      open == {i \in e.segment .. e.command.sgCount - 1 : left(i) < SegmentWords(e, i)}
      next == IF open = {} THEN e.command.sgCount ELSE Min(open)
  IN  [e EXCEPT !.segment = next, !.offset = IF next = e.segment THEN @ ELSE 0]

\* Mutant: a burst runs past the end of its segment.
SegmentBurstUnlimited(e, direction) ==
  Request(e, "Payload", direction,
          HandleAdd(e.sg[e.segment].address, e.offset * WordBytes),
          ChooseBurst(e.words - e.index))

SegmentBurst(e, direction) ==
  LET left == {e.words - e.index, SegmentWords(e, e.segment) - e.offset} IN
  Request(e, "Payload", direction,
          HandleAdd(e.sg[e.segment].address, e.offset * WordBytes), ChooseBurst(Min(left)))

StartPayloadDma(e, direction) ==
  IF e.index >= e.words THEN PayloadDone(e)
  ELSE IF e.command.sgCount = 0
  THEN Request(e, "Payload", direction, HandleAdd(e.command.data, e.index * WordBytes),
               ChooseBurst(e.words - e.index))
  ELSE LET there == NextSegment(e) IN
       IF there.segment >= e.command.sgCount THEN Finish(there, "InvalidField", 0, FALSE)
       ELSE SegmentBurst(there, direction)

\* The words of a report that say something: the namespace, its block size, or "healthy".
Report(c) ==
  [k \in 0 .. PayloadWords - 1 |->
    CASE c.opcode = "IdentifyNamespace" /\ k = 0 -> [Zero EXCEPT !.offset = c.namespace]
      [] c.opcode = "IdentifyNamespace" /\ k = 1 ->
           [Zero EXCEPT !.offset = BlockWords[c.namespace] * WordBytes]
      [] c.opcode = "GetHealth" /\ k = 0         -> [Zero EXCEPT !.offset = 1]
      [] OTHER -> Zero]

Staged(block) ==
  [k \in 0 .. PayloadWords - 1 |-> IF k \in DOMAIN block THEN block[k] ELSE Zero]

\* "works" says whether the backend can do what it is asked.
StartOperation(e, m, works) ==
  LET c == e.command
      transfer(payload, words, direction) ==
        StartPayloadDma([e EXCEPT !.payload = payload, !.words = words, !.state = "Transfer"],
                        direction)
  IN
  IF c.opcode \in Reports THEN transfer(Report(c), ReportWords, "DeviceToHost")
  ELSE IF c.opcode \in Writes
  THEN transfer(NoPayload, BlockWords[c.namespace], "HostToDevice")
  ELSE IF works
  THEN transfer(Staged(m.blocks[<<c.namespace, c.lba>>]), BlockWords[c.namespace], "DeviceToHost")
  ELSE Finish([e EXCEPT !.payload = NoPayload], "MediaError", 0, FALSE)

AcceptCommand(e, m, c, works) ==
  LET taken == [e EXCEPT !.command = c, !.index = 0, !.segment = 0, !.offset = 0,
                         !.sgEntry = 0, !.sgPart = 0, !.sg = NoSg] IN
  IF Validate(c) # "Success" THEN Finish(taken, Validate(c), 0, FALSE)
  ELSE IF c.opcode = "Nop" THEN Finish(taken, "Success", 0, FALSE)
  ELSE IF c.opcode = "Flush"
  THEN Finish(taken, IF works THEN "Success" ELSE "MediaError", 0, FALSE)
  ELSE IF c.sgCount > 0 THEN StartSgWordDma([taken EXCEPT !.state = "FetchSg"])
  ELSE StartOperation(taken, m, works)

\* The word is stored where the burst's kind says, and counted.
StoreWord(e, word) ==
  CASE e.kind = "Payload"   -> [e EXCEPT !.payload[e.index + e.moved] = word]
    [] e.kind = "SgAddress" -> [e EXCEPT !.sg[e.sgEntry].address = word]
    [] e.kind = "SgLength"  -> [e EXCEPT !.sg[e.sgEntry].length = word]

CountWord(e) ==
  [e EXCEPT !.moved = @ + 1,
            !.dma = IF e.moved + 1 = e.req.words THEN "Completion" ELSE @]

\* Mutant: after the last word of the list nothing is started.
SgEntryDoneForgets(e, m, works) ==
  LET next == [e EXCEPT !.sgPart = 0, !.sgEntry = @ + 1] IN
  IF next.sgEntry < e.command.sgCount THEN StartSgWordDma(next) ELSE next

SgEntryDone(e, m, works) ==
  LET next == [e EXCEPT !.sgPart = 0, !.sgEntry = @ + 1] IN
  IF next.sgEntry < e.command.sgCount THEN StartSgWordDma(next)
  ELSE IF ValidSg(next) THEN StartOperation(next, m, works)
  ELSE Finish(next, "InvalidField", 0, FALSE)

PayloadBurstDone(e, direction, moved) ==
  StartPayloadDma([e EXCEPT !.index = @ + moved,
                            !.offset = IF e.command.sgCount > 0 THEN @ + moved ELSE @],
                  direction)

\* The burst completed with all its words.
BurstDone(e, m, works) ==
  LET idle == [e EXCEPT !.dma = "Idle", !.req = None] IN
  CASE e.kind = "SgAddress" -> StartSgWordDma([idle EXCEPT !.sgPart = 1])
    [] e.kind = "SgLength"  -> SgEntryDone(idle, m, works)
    [] e.kind = "Payload"   -> PayloadBurstDone(idle, e.req.direction, e.req.words)

\* Mutant: a burst that fails before its last word is the end of the payload.
BurstFailedIsTheEnd(e) ==
  IF e.kind = "Payload" THEN PayloadDone(e) ELSE Finish(e, "DmaFault", 0, FALSE)

BurstFailed(e) == Finish(e, "DmaFault", 0, FALSE)

-----------------------------------------------------------------------------
(* The backends.                                                            *)

Flushed(m, ns) == [m EXCEPT !.unsynced = {x \in @ : x[1] # ns}]

\* write_all may fail after part of a block, and fails at once on a read-only file.
Torn(old, new, words) == [k \in DOMAIN old |-> IF k < words THEN new[k] ELSE old[k]]

\* Only a FileDisk can fail, and only its writes wait for sync_data.
MayFail(ns) == ns \in FileBacked

Wrote(m, x, block) ==
  [blocks   |-> [m.blocks EXCEPT ![x] = block],
   unsynced |-> IF x[1] \in FileBacked THEN m.unsynced \cup {x} ELSE m.unsynced]

\* commit_media: the end of the clock in which the last burst of a write completed.
Commit(e) ==
  LET c == e.command
      x == <<c.namespace, c.lba>>
      block == [k \in 0 .. BlockWords[c.namespace] - 1 |-> e.payload[k]]
  IN
  \/ /\ media' = Wrote(media, x, block)
     /\ ep' = Finish(e, "Success", c.blocks, c.opcode = "WriteDurable")
  \/ /\ MayFail(c.namespace)
     /\ \E words \in DOMAIN block :
          media' = Wrote(media, x, Torn(media.blocks[x], block, words))
     /\ ep' = Finish(e, "MediaError", 0, FALSE)

-----------------------------------------------------------------------------
(* The clocks of the engine in which something happens.                     *)

Outcomes(ns) == IF MayFail(ns) THEN BOOLEAN ELSE {TRUE}

\* Software fills memory, and QDX-A offers the command it fetched.
Submit ==
  /\ ep.state = "Idle"
  /\ memory' \in Images
  /\ \E c \in Commands : \E works \in Outcomes(c.namespace) :
       /\ ep' = AcceptCommand(ep, media, c, works)
       /\ media' = IF c.opcode = "Flush" /\ works /\ Validate(c) = "Success"
                   THEN Flushed(media, c.namespace) ELSE media

\* QDX-A takes the completion.
TakeCompletion ==
  /\ ep.state = "Complete"
  /\ ep' = [ep EXCEPT !.completion = None, !.command = None, !.state = "Idle"]
  /\ UNCHANGED <<media, memory>>

DmaAccepted ==
  /\ ep.dma = "Request"
  /\ ep' = [ep EXCEPT !.dma = "Transfer"]
  /\ UNCHANGED <<media, memory>>

\* The place of the burst's next word.
Here == <<ep.req.address.window, (ep.req.address.offset \div WordBytes) + ep.moved>>

WordToDevice ==
  /\ ep.dma = "Transfer" /\ ep.req.direction = "HostToDevice"
  /\ ep' = CountWord(StoreWord(ep, memory[Here]))
  /\ UNCHANGED <<media, memory>>

WordToHost ==
  /\ ep.dma = "Transfer" /\ ep.req.direction = "DeviceToHost"
  /\ memory' = [memory EXCEPT ![Here] = ep.payload[ep.index + ep.moved]]
  /\ ep' = CountWord(ep)
  /\ UNCHANGED media

\* A completion before the last word wins over the word.
DmaFails ==
  /\ ep.dma \in {"Transfer", "Completion"}
  /\ ep' = BurstFailed(ep)
  /\ UNCHANGED <<media, memory>>

DmaCompletes ==
  /\ ep.dma = "Completion"
  /\ \E works \in Outcomes(ep.command.namespace) :
       LET next == BurstDone(ep, media, works) IN
       IF next.state = "MediaCommit" THEN Commit(next)
       ELSE ep' = next /\ UNCHANGED media
  /\ UNCHANGED memory

\* A bus reset or a soft reset of QDX-A, which ends the burst with the command.
Reset ==
  /\ ep' = NewEndpoint
  /\ UNCHANGED <<media, memory>>

DmaClock == DmaAccepted \/ WordToDevice \/ WordToHost \/ DmaFails \/ DmaCompletes

Next == Submit \/ TakeCompletion \/ DmaClock \/ Reset

Spec == Init /\ [][Next]_vars

-----------------------------------------------------------------------------
(* Properties.                                                              *)

Moving == ep.req # None

\* The engine has its type, and the burst and the completion are there when the state says so.
TypeOK ==
  /\ ep.state \in {"Idle", "FetchSg", "Transfer", "Complete"}
  /\ ep.dma \in {"Idle", "Request", "Transfer", "Completion"}
  /\ Moving <=> ep.dma # "Idle"
  /\ Moving <=> ep.state \in {"FetchSg", "Transfer"}
  /\ ep.state = "Idle" <=> ep.command = None
  /\ ep.state = "Complete" <=> ep.completion # None
  /\ ep.sg \in [0 .. MaxSg - 1 -> [address : Word, length : Word]]
  /\ ep.payload \in [0 .. PayloadWords - 1 -> Word]
  /\ memory \in [Places -> Word]
  /\ \A x \in Extents : media.blocks[x] \in Block(x[1])

(* Every burst stays inside the window of one handle: the sum in handle_add never carries
   into the upper bits and so never names another mapping. *)
BurstInWindow ==
  Moving => /\ ep.req.address.offset % WordBytes = 0
            /\ ep.req.address.offset + ep.req.words * WordBytes <= OffsetSpace

\* Every payload burst has a legal length and never runs past the transfer.
BurstInTransfer ==
  Moving => /\ ep.req.words \in Bursts
            /\ ep.moved <= ep.req.words
            /\ ep.kind = "Payload" => ep.index + ep.req.words <= ep.words

(* The list software put in memory m, and with it the k-th longword of the buffer a command
   names: what the engine's walk over segments and bursts has to agree with. *)
ListPlace(c, i, part) == <<c.sg.window, (c.sg.offset \div WordBytes) + 2 * i + part>>

Listed(m, c) ==
  [i \in 0 .. c.sgCount - 1 |-> [address |-> m[ListPlace(c, i, 0)], length |-> m[ListPlace(c, i, 1)]]]

PlaceOf(handle, k) == <<handle.window, (handle.offset \div WordBytes) + k>>

BufferPlace(m, c, k) ==
  IF c.sgCount = 0 THEN PlaceOf(c.data, k)
  ELSE LET listed == [sg |-> Listed(m, c), command |-> c]
           before == WordsBefore(listed)
           i == CHOOSE i \in 0 .. c.sgCount - 1 : before[i] <= k /\ k < before[i + 1]
       IN  PlaceOf(listed.sg[i].address, k - before[i])

Span(c) == 0 .. (TransferBytes(c) \div WordBytes) - 1

Buffer(m, c) == {BufferPlace(m, c, k) : k \in Span(c)}

(* A block changes in one step, by a write whose payload all arrived, into the words of the
   command's buffer in order.  Only a write whose backend failed half way may leave a part,
   and it says so.  Aborted, refused and reset writes never reach the media. *)
WritesAreWhole ==
  [][\A x \in Extents : media'.blocks[x] # media.blocks[x] =>
       LET c == ep.command
           sent == [k \in 0 .. BlockWords[x[1]] - 1 |-> memory[BufferPlace(memory, c, k)]] IN
       /\ c.opcode \in Writes /\ x = <<c.namespace, c.lba>>
       /\ \/ media'.blocks[x] = sent /\ ep'.completion.status = "Success"
          \/ /\ \E n \in DOMAIN sent : media'.blocks[x] = Torn(media.blocks[x], sent, n)
             /\ ep'.completion.status = "MediaError"]_vars

(* A read completed with success has put the whole block into the buffer, in order. *)
ReadsAreWhole ==
  (ep.state = "Complete" /\ ep.command.opcode = "Read" /\ ep.completion.status = "Success") =>
    \A k \in 0 .. BlockWords[ep.command.namespace] - 1 :
      memory[BufferPlace(memory, ep.command, k)] = media.blocks[<<ep.command.namespace, ep.command.lba>>][k]

(* A command touches no memory outside the buffer it names, even where its last segment is
   longer than the transfer, and one that writes the media touches none. *)
OnlyTheBuffer ==
  [][ep.state # "Idle" =>
       \A p \in Places : memory'[p] # memory[p] =>
         ep.command.opcode \notin Writes /\ p \in Buffer(memory, ep.command)]_vars

\* Three events for each word the command has still to fetch or to move, less those its
\* present burst has had.
Left(e) ==
  LET had == IF e.dma = "Request" THEN 0 ELSE 1 + e.moved
      toFetch == 2 * e.command.sgCount - (2 * e.sgEntry + e.sgPart) IN
  CASE e.state = "FetchSg"  -> 3 * (toFetch + TransferBytes(e.command) \div WordBytes) - had
    [] e.state = "Transfer" -> 3 * (e.words - e.index) - had
    [] OTHER                -> 0

(* Between the offer of a command and its completion a burst is always under way, and each of
   its events (it is accepted, a word moves, it ends) leaves the command less to do: however
   list and payload are split and whatever is refused or fails, the completion comes after at
   most three events for each word of list and payload.  The engine waits for nothing else. *)
EveryEventIsProgress ==
  [][(ep.state # "Idle" /\ ep'.state # "Idle" /\ ep' # ep) =>
       /\ Left(ep') \in Nat /\ Left(ep') < Left(ep)
       /\ ep'.req # None \/ ep'.completion # None]_vars

-----------------------------------------------------------------------------
(* The inductive invariant behind BurstInWindow and BurstInTransfer.        *)

States  == {"Idle", "FetchSg", "Transfer", "MediaCommit", "Complete"}
Phases  == {"Idle", "Request", "Transfer", "Completion"}
Kinds   == {"None", "SgAddress", "SgLength", "Payload"}
Lists   == [0 .. MaxSg - 1 -> [address : Word, length : Word]]
Staging == [0 .. PayloadWords - 1 -> Word]

Endpoint ==
  [state : States, command : Commands \cup {None}, completion : Completion \cup {None},
   sg : Lists, sgEntry : Nat, sgPart : {0, 1},
   words : 0 .. PayloadWords, index : Nat, segment : Nat, offset : Nat, payload : Staging,
   dma : Phases, kind : Kinds, req : BurstRequest \cup {None}, moved : Nat]

\* Every block of every backend has its words.
WholeMedia(m) ==
  /\ m = [blocks |-> [x \in Extents |-> m.blocks[x]], unsynced |-> m.unsynced]
  /\ \A x \in Extents : m.blocks[x] \in Block(x[1])
  /\ m.unsynced \subseteq Extents

\* A command that moves data, as it passes validation.
Moves(c) ==
  /\ c \in Commands /\ c.opcode \in Reports \cup Writes \cup {"Read"}
  /\ c.opcode \notin Reports => <<c.namespace, c.lba>> \in Extents
  /\ c.opcode = "IdentifyNamespace" => c.namespace \in Namespaces
  /\ c.sgCount <= MaxSg /\ ValidBuffer(c)

\* The transfer of the command's words is under way: "index" of them have moved.
Underway(e) ==
  /\ Moves(e.command)
  /\ e.words * WordBytes = TransferBytes(e.command)
  /\ e.index <= e.words
  /\ e.command.sgCount > 0 => ValidEntries(e)

\* The burst that fetches the present word of the list.
ListBurst(e) ==
  /\ Moves(e.command) /\ e.index = 0 /\ e.sgEntry < e.command.sgCount
  /\ e.kind = IF e.sgPart = 0 THEN "SgAddress" ELSE "SgLength"
  /\ e.req = [direction |-> "HostToDevice", words |-> 1,
              address |-> HandleAdd(e.command.sg, (e.sgEntry * 2 + e.sgPart) * WordBytes)]

\* A payload burst: the next words of the buffer, or of the present segment of it.
PayloadBurst(e) ==
  /\ Underway(e) /\ e.kind = "Payload"
  /\ e.req.words \in Bursts /\ e.index + e.req.words <= e.words
  /\ e.command.sgCount = 0 => e.req.address = HandleAdd(e.command.data, e.index * WordBytes)
  /\ e.command.sgCount > 0 =>
       /\ e.segment < e.command.sgCount
       /\ e.offset + e.req.words <= SegmentWords(e, e.segment)
       /\ e.req.address = HandleAdd(e.sg[e.segment].address, e.offset * WordBytes)

\* Which registers are set in which state, and how far a burst has come.
Shape(e) ==
  /\ e.state = "Idle" <=> e.command = None
  /\ e.state = "Complete" <=> e.completion # None
  /\ e.req # None <=> e.dma # "Idle"
  /\ e.req # None <=> e.state \in {"FetchSg", "Transfer"}
  /\ e.dma \in {"Request", "Transfer"} => e.moved < e.req.words
  /\ e.dma = "Completion" => e.moved = e.req.words

EndpointInv(e) ==
  /\ e \in Endpoint /\ Shape(e)
  /\ e.state = "FetchSg" => ListBurst(e)
  /\ e.state = "Transfer" => PayloadBurst(e)
  /\ e.state = "MediaCommit" => Moves(e.command) /\ e.command.opcode \in Writes

QdxBInv ==
  /\ EndpointInv(ep) /\ ep.state # "MediaCommit"
  /\ WholeMedia(media)
  /\ memory \in [Places -> Word]

-----------------------------------------------------------------------------
(* The inductive invariant behind the wholeness of payloads.                *)

\* The list in memory passes validation once it is fetched.
ListedOk(m, c) == c.sgCount > 0 => ValidSg([sg |-> Listed(m, c), command |-> c])

\* No word of the buffer is one of the list, or another word of it.
Apart(m, c) ==
  \A k \in Span(c) :
    /\ \A i \in 0 .. c.sgCount - 1, part \in {0, 1} : BufferPlace(m, c, k) # ListPlace(c, i, part)
    /\ \A j \in Span(c) : BufferPlace(m, c, j) = BufferPlace(m, c, k) => j = k

(* What software owes the engine, which fills the buffer while the list is in memory: a
   command that reads names a buffer apart from its list, of segments that do not overlap. *)
SoftwareKeepsApart ==
  \A m \in Images, c \in Commands :
    (Moves(c) /\ c.opcode \notin Writes /\ ListedOk(m, c)) => Apart(m, c)

\* The first n words of the list are fetched as they are in memory.
ListFetched(e, m, n) ==
  \A i \in 0 .. e.command.sgCount - 1 :
    /\ 2 * i < n     => e.sg[i].address = Listed(m, e.command)[i].address
    /\ 2 * i + 1 < n => e.sg[i].length = Listed(m, e.command)[i].length

Matches(e, m) ==
  \A i \in 0 .. e.command.sgCount - 1 :
    /\ e.sg[i].address = Listed(m, e.command)[i].address
    /\ e.sg[i].length = Listed(m, e.command)[i].length

\* The engine's place in its list is that of the next word of the buffer.
Placed(e, m) ==
  e.command.sgCount > 0 =>
    /\ Matches(e, m)
    /\ e.segment < e.command.sgCount /\ e.offset <= SegmentWords(e, e.segment)
    /\ WordsBefore(e)[e.segment] + e.offset = e.index

\* The first n words of the payload are in the buffer, and it is the block a read names.
Delivered(e, m, d, n) ==
  LET c == e.command IN
  /\ \A k \in 0 .. n - 1 :
       BufferPlace(m, c, k) \in Places /\ e.payload[k] = m[BufferPlace(m, c, k)]
  /\ c.opcode \notin Writes => Apart(m, c)
  /\ c.opcode = "Read" =>
       \A k \in 0 .. BlockWords[c.namespace] - 1 : e.payload[k] = d.blocks[<<c.namespace, c.lba>>][k]

ReadWhole(e, m, d) ==
  (e.state = "Complete" /\ e.command.opcode = "Read" /\ e.completion.status = "Success") =>
    \A k \in 0 .. BlockWords[e.command.namespace] - 1 :
      m[BufferPlace(m, e.command, k)] = d.blocks[<<e.command.namespace, e.command.lba>>][k]

Way(c) == IF c.opcode \in Writes THEN "HostToDevice" ELSE "DeviceToHost"

Whole(e, m, d) ==
  /\ e.state = "FetchSg" =>
       /\ m \in Images /\ e.segment = 0 /\ e.offset = 0
       /\ ListFetched(e, m, 2 * e.sgEntry + e.sgPart + e.moved)
  /\ e.state = "Transfer" =>
       /\ Placed(e, m) /\ e.req.direction = Way(e.command)
       /\ Delivered(e, m, d, e.index + e.moved)
  /\ e.state = "MediaCommit" => Delivered(e, m, d, BlockWords[e.command.namespace])
  /\ ReadWhole(e, m, d)

Followed(c) == c.opcode \in Writes \/ SoftwareKeepsApart

WholeInv == (ep.state # "Idle" /\ Followed(ep.command)) => Whole(ep, memory, media)

-----------------------------------------------------------------------------
(* What the repository's documents say and the code does not do.            *)

(* specs/QDX-B.md:420: a WRITE_DURABLE does not complete successfully until its data is
   durable.  A FileDisk makes writes durable with sync_data, which only FLUSH calls. *)
DurableIsSynced ==
  [][(ep.state # "Complete" /\ ep'.state = "Complete" /\ ep'.completion.durable) =>
       <<ep.command.namespace, ep.command.lba>> \notin media'.unsynced]_vars
=============================================================================
