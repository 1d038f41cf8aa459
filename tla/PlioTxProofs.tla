------------------------------ MODULE PlioTxProofs ------------------------------
(***************************************************************************)
(* The transceiver for every set of halves, control images and responses:  *)
(* no word is torn, nothing is driven without a turnaround, a word read is *)
(* coherent, and the card programs drive exactly the pins the card wants.  *)
(*                                                                         *)
(* The invariant has two parts.  LooksBack ties what the transceiver       *)
(* remembers to the slot before; it holds whatever is presented.  Stage    *)
(* says, for the card programs, where in its slots a transfer is and what  *)
(* the transceiver has of it.                                              *)
(***************************************************************************)
EXTENDS PlioTx, SequenceTheorems, TLAPS

LooksBack ==
  /\ tx.previousIdle <=> previous.kind = "Idle"
  /\ tx.driving <=> previous.on
  /\ tx.low # None => /\ tx.direction = "QicToTx" /\ previous.direction = "QicToTx"
                      /\ previous.kind = "DataLo" /\ previous.half = tx.low
  /\ tx.lowRead => /\ tx.direction = "TxToQic" /\ previous.direction = "TxToQic"
                   /\ previous.kind = "DataLo" /\ previous.word = tx.sample

\* Part is shown in slot s; what the backplane carries while it is read is open.
Shows(s, part) ==
  \E word \in Words, control \in Controls :
    s = IF part.direction = "TxToQic" THEN [part EXCEPT !.word = word, !.control = control]
        ELSE part

Last(pins) == Drives(Needs(pins), pins.response)

\* No half is waiting, and there was no fault.
Fresh(t) == t.low = None /\ ~t.lowRead /\ ~t.fault

Turned(t, direction) == Fresh(t) /\ t.direction = direction

HasControl(t, pins) == t.control = EncodeControl(pins).image

Loaded(t, pins) ==
  Needs(pins) => HasControl(t, pins) /\ (pins.word # None => t.word = pins.word)

\* What is left of ThroughTx(pins) after its first slot.
AfterFirst(pins) ==
  IF ~Needs(pins) THEN <<Writes(Idle), Last(pins)>>
  ELSE IF pins.word = None THEN <<Writes(EncodeControl(pins)), Writes(Idle), Last(pins)>>
  ELSE <<Writes(EncodeControl(pins)), Writes(EncodeData(pins.word)[1]),
         Writes(EncodeData(pins.word)[2]), Writes(Idle), Last(pins)>>

SendStage(t, s, rest, pins) ==
  \/ s = Writes(Idle) /\ rest = AfterFirst(pins) /\ Fresh(t)
  \/ /\ Needs(pins) /\ s = Writes(EncodeControl(pins)) /\ Turned(t, "QicToTx")
     /\ rest = IF pins.word = None THEN <<Writes(Idle), Last(pins)>>
               ELSE <<Writes(EncodeData(pins.word)[1]), Writes(EncodeData(pins.word)[2]),
                      Writes(Idle), Last(pins)>>
  \/ /\ pins.word # None /\ s = Writes(EncodeData(pins.word)[1]) /\ Turned(t, "QicToTx")
     /\ rest = <<Writes(EncodeData(pins.word)[2]), Writes(Idle), Last(pins)>>
     /\ HasControl(t, pins)
  \/ /\ pins.word # None /\ s = Writes(EncodeData(pins.word)[2])
     /\ rest = <<Writes(Idle), Last(pins)>>
     /\ t.low = pins.word[1] /\ ~t.lowRead /\ ~t.fault /\ t.direction = "QicToTx"
     /\ HasControl(t, pins)
  \/ s = Writes(Idle) /\ rest = <<Last(pins)>> /\ Turned(t, "QicToTx") /\ Loaded(t, pins)
  \/ /\ s = Last(pins) /\ rest = <<>> /\ Turned(t, "QicToTx") /\ t.previousIdle
     /\ Loaded(t, pins)

ReadStage(t, s, rest) ==
  \/ s = Quiet /\ rest = <<>> /\ Fresh(t)
  \/ Shows(s, Reads("Idle")) /\ rest = <<Reads("DataLo"), Reads("DataHi")>> /\ Fresh(t)
  \/ Shows(s, Reads("DataLo")) /\ rest = <<Reads("DataHi")>> /\ Turned(t, "TxToQic")
  \/ /\ Shows(s, Reads("DataHi")) /\ rest = <<>>
     /\ t.low = None /\ t.lowRead /\ ~t.fault /\ t.direction = "TxToQic"

Stage ==
  /\ user \in {"Card", "Anyone"}
  /\ user = "Anyone" => slot \in Presented \cup {Quiet}
  /\ user = "Card" => \/ task = None /\ ReadStage(tx, slot, script)
                      \/ task \in Pins /\ SendStage(tx, slot, script, task)

PlioTxInv == TypeOK /\ LooksBack /\ Stage

-----------------------------------------------------------------------------
(* Slots.                                                                   *)

\* What the proofs use of the slot presented: it is of a known kind, and its payload fits.
SlotOK(s) ==
  /\ s.direction \in Directions
  /\ s.token.kind \in Kinds
  /\ s.drive \in BOOLEAN
  /\ s.direction = "QicToTx" =>
       /\ s.token.kind \in {"DataLo", "DataHi"} => s.token.half \in Halves
       /\ (s.token.kind = "Control" /\ s.token.ok) => s.token.image \in Image
  /\ s.direction = "TxToQic" => s.word \in Words

LEMMA SlotKnown ==
  ASSUME Stage
  PROVE  SlotOK(slot)
<1>1. CASE user = "Anyone" /\ slot \in Presented
  BY <1>1 DEF SlotOK, Presented, Slot, Tokens, Token, Directions, Kinds
<1>2. CASE slot = Quiet
  BY <1>2 DEF SlotOK, Quiet, Writes, Slot, Idle, Token, Directions, Kinds
<1>3. CASE user = "Card" /\ ReadStage(tx, slot, script)
  <2>1. ASSUME NEW kind \in {"Idle", "DataLo", "DataHi"}, Shows(slot, Reads(kind))
        PROVE  SlotOK(slot)
    <3>1. PICK word \in Words, control \in Controls :
            slot = [Reads(kind) EXCEPT !.word = word, !.control = control]
      BY <2>1 DEF Shows, Reads, Slot
    <3>2. QED
      BY <3>1 DEF SlotOK, Reads, Slot, Token, Directions, Kinds
  <2>2. QED
    BY <1>2, <1>3, <2>1 DEF ReadStage
<1>4. CASE user = "Card" /\ task \in Pins /\ SendStage(tx, slot, script, task)
  <2>1. task.word # None => task.word \in Words
    BY <1>4 DEF Pins
  <2>2. Needs(task) => EncodeControl(task).image \in Image
    <3>1. task.control # None => task.control \in Controls
      BY <1>4 DEF Pins
    <3>2. SomeControl \in Controls
      BY ControlAssumption DEF SomeControl
    <3>3. QED
      BY <3>1, <3>2 DEF EncodeControl, Token, Image
  <2>3. CASE slot = Writes(Idle) \/ slot = Last(task)
    <3>1. Needs(task) \in BOOLEAN
      BY DEF Needs
    <3>2. \E drive \in BOOLEAN : \E response :
            slot = Slot("QicToTx", Idle, drive, response, SomeWord, SomeControl)
      BY <2>3, <3>1, Zenon DEF Last, Writes, Drives
    <3>3. QED
      BY <3>2 DEF SlotOK, Slot, Idle, Token, Directions, Kinds
  <2>4. CASE Needs(task) /\ slot = Writes(EncodeControl(task))
    BY <2>2, <2>4 DEF SlotOK, Writes, EncodeControl, Slot, Token, Directions, Kinds
  <2>5. CASE task.word # None /\ \E i \in {1, 2} : slot = Writes(EncodeData(task.word)[i])
    BY <2>1, <2>5 DEF SlotOK, Writes, EncodeData, Slot, Token, Directions, Kinds, Words
  <2>6. QED
    BY <1>4, <2>3, <2>4, <2>5 DEF SendStage
<1>5. QED
  BY <1>1, <1>2, <1>3, <1>4 DEF Stage

-----------------------------------------------------------------------------
(* A slot committed.                                                        *)

\* Halves wait in one direction only.
LEMMA TransferTyped ==
  ASSUME NEW t \in Tx, NEW s, SlotOK(s),
         t.low # None => t.direction = "QicToTx",
         t.lowRead => t.direction = "TxToQic" /\ t.sample # None
  PROVE  /\ Transfer(t, s) \in Tx
         /\ Transfer(t, s).lowRead => Transfer(t, s).sample # None
<1>1. CASE s.token.kind = "Idle" \/ DirectionIllegal(t, s)
  BY <1>1 DEF Transfer, Abandoned, Tx, SlotOK
<1>2. CASE s.token.kind # "Idle" /\ ~DirectionIllegal(t, s) /\ s.direction = "QicToTx"
  <2> DEFINE there == [t EXCEPT !.direction = s.direction]
  <2>1. there \in Tx /\ ~there.lowRead /\ Transfer(t, s) = ClockQicToTx(there, s.token)
    BY <1>2, NoneIsNoPayload DEF Transfer, DirectionIllegal, SlotOK, Tx, Directions
  <2>2. s.token.kind \in {"DataLo", "DataHi", "Control"}
    BY <1>2 DEF SlotOK, Kinds
  <2> HIDE DEF there
  <2>3. ClockQicToTx(there, s.token) \in Tx /\ ~ClockQicToTx(there, s.token).lowRead
    <3>1. CASE s.token.kind = "DataLo"
      BY <1>2, <2>1, <3>1 DEF ClockQicToTx, Tx, SlotOK
    <3>2. CASE s.token.kind = "DataHi"
      BY <1>2, <2>1, <3>2 DEF ClockQicToTx, Tx, SlotOK, Words
    <3>3. CASE s.token.kind = "Control"
      BY <1>2, <2>1, <3>3 DEF ClockQicToTx, Tx, SlotOK
    <3>4. QED
      BY <2>2, <3>1, <3>2, <3>3
  <2>4. QED
    BY <2>1, <2>3
<1>3. CASE s.token.kind # "Idle" /\ ~DirectionIllegal(t, s) /\ s.direction = "TxToQic"
  <2> DEFINE there == [t EXCEPT !.direction = s.direction]
  <2>1. /\ there \in Tx
        /\ there.lowRead => there.sample # None
        /\ Transfer(t, s) = ClockTxToQic(there, s.token.kind, s.word)
    BY <1>3 DEF Transfer, DirectionIllegal, SlotOK, Tx, Directions
  <2>2. s.token.kind \in {"DataLo", "DataHi", "Control"} /\ s.word \in Words /\ s.word # None
    BY <1>3, NoneIsNoPayload DEF SlotOK, Kinds
  <2> HIDE DEF there
  <2>3. CASE s.token.kind = "DataLo"
    BY <2>1, <2>2, <2>3 DEF ClockTxToQic, Tx
  <2>4. CASE s.token.kind = "DataHi"
    BY <2>1, <2>2, <2>4 DEF ClockTxToQic, Tx
  <2>5. CASE s.token.kind = "Control"
    BY <2>1, <2>2, <2>5 DEF ClockTxToQic, Tx
  <2>6. QED
    BY <2>2, <2>3, <2>4, <2>5
<1>4. QED
  BY <1>1, <1>2, <1>3 DEF SlotOK, Directions

\* What waits after a slot was presented in it.
LEMMA TransferLooksBack ==
  ASSUME NEW t \in Tx, NEW s, SlotOK(s),
         t.low # None => t.direction = "QicToTx",
         t.lowRead => t.direction = "TxToQic"
  PROVE  LET u == Transfer(t, s) IN
         /\ u.low # None => /\ u.direction = "QicToTx" /\ s.direction = "QicToTx"
                            /\ s.token.kind = "DataLo" /\ u.low = s.token.half
         /\ u.lowRead => /\ u.direction = "TxToQic" /\ s.direction = "TxToQic"
                         /\ s.token.kind = "DataLo" /\ u.sample = s.word
<1>1. CASE s.token.kind = "Idle" \/ DirectionIllegal(t, s)
  BY <1>1 DEF Transfer, Abandoned, Tx
<1>2. CASE s.token.kind # "Idle" /\ ~DirectionIllegal(t, s)
  <2>1. t.direction \in {None, s.direction}
    BY <1>2 DEF DirectionIllegal
  <2>2. s.token.kind \in {"DataLo", "DataHi", "Control"} /\ s.direction \in {"QicToTx", "TxToQic"}
    BY <1>2 DEF SlotOK, Kinds, Directions
  <2>3. None \notin {"QicToTx", "TxToQic"}
    BY NoneIsNoPayload DEF Directions
  <2>4. QED
    BY <1>2, <2>1, <2>2, <2>3 DEF Transfer, ClockQicToTx, ClockTxToQic, Tx
<1>3. QED
  BY <1>1, <1>2

\* Every step that presents another slot keeps the first two parts of the invariant.
LEMMA CommitKeeps ==
  ASSUME TypeOK, LooksBack, SlotOK(slot), Commit
  PROVE  TypeOK' /\ LooksBack'
<1>1. tx \in Tx
  BY DEF TypeOK
<1>2. tx.low # None => tx.direction = "QicToTx"
  BY DEF LooksBack
<1>3. tx.lowRead => tx.direction = "TxToQic" /\ tx.sample # None
  BY DEF LooksBack, TypeOK
<1> DEFINE u == Transfer(tx, slot)
<1>4. u \in Tx /\ (u.lowRead => u.sample # None)
  BY <1>1, <1>2, <1>3, TransferTyped
<1>5. /\ u.low # None => /\ u.direction = "QicToTx" /\ slot.direction = "QicToTx"
                         /\ slot.token.kind = "DataLo" /\ u.low = slot.token.half
      /\ u.lowRead => /\ u.direction = "TxToQic" /\ slot.direction = "TxToQic"
                      /\ slot.token.kind = "DataLo" /\ u.sample = slot.word
  BY <1>1, <1>2, <1>3, TransferLooksBack
<1>6. tx' = [u EXCEPT !.fault = Faulty(tx, slot), !.previousIdle = slot.token.kind = "Idle",
                      !.driving = slot.drive /\ (tx.driving \/ tx.previousIdle)]
  BY DEF Commit, Clock
<1> HIDE DEF u
<1>7. Faulty(tx, slot) \in BOOLEAN
  BY DEF Faulty
<1>8. previous' = Seen(slot, EffectiveDrive(tx, slot))
  BY DEF Commit
<1>9. TypeOK'
  <2> DEFINE driving == slot.drive /\ (tx.driving \/ tx.previousIdle)
             idle == slot.token.kind = "Idle"
             fault == Faulty(tx, slot)
  <2>1. driving \in BOOLEAN /\ idle \in BOOLEAN /\ fault \in BOOLEAN
    BY <1>7
  <2>2. tx' = [u EXCEPT !.fault = fault, !.previousIdle = idle, !.driving = driving]
    BY <1>6
  <2> HIDE DEF driving, idle, fault
  <2>3. tx' \in Tx
    BY <1>4, <2>1, <2>2 DEF Tx
  <2>4. tx'.lowRead = u.lowRead /\ tx'.sample = u.sample
    BY <1>4, <2>2 DEF Tx
  <2>5. QED
    BY <1>4, <2>3, <2>4 DEF TypeOK
<1>10. EffectiveDrive(tx, slot) <=> slot.drive /\ (tx.driving \/ tx.previousIdle)
  BY <1>1 DEF EffectiveDrive, DriveRiseIllegal, SlotOK, Tx
<1>11. LooksBack'
  BY <1>4, <1>5, <1>6, <1>8, <1>10 DEF LooksBack, Seen, Tx
<1>12. QED
  BY <1>9, <1>11

-----------------------------------------------------------------------------
(* The slots of the card programs: none is a fault, and what it leaves.     *)

LEMMA NotDriven ==
  ASSUME NEW t, NEW s, s.drive = FALSE, s.response = None
  PROVE  ~DriveRiseIllegal(t, s) /\ ~ResponseIllegal(s) /\ ~Missing(t, s) /\ Driven(t, s) = Nothing
BY NoneIsNoPayload DEF DriveRiseIllegal, ResponseIllegal, Missing, EffectiveDrive, Driven, Nothing

LEMMA IdleSlot ==
  ASSUME NEW t \in Tx, NEW s, Fresh(t), s.token = Idle, s.direction \in Directions,
         s.drive = FALSE, s.response = None
  PROVE  /\ ~Faulty(t, s)
         /\ Turned(Clock(t, s), s.direction) /\ Clock(t, s).previousIdle
         /\ Clock(t, s).control = t.control /\ Clock(t, s).word = t.word
<1>1. ~TokenIllegal(t, s)
  BY DEF TokenIllegal, DirectionIllegal, Fresh, Idle, Token
<1>2. ~Faulty(t, s)
  BY <1>1, NotDriven DEF Faulty, Fresh
<1>3. Transfer(t, s) = [Abandoned(t) EXCEPT !.direction = s.direction]
  BY DEF Transfer, Idle, Token
<1>4. Clock(t, s) = [Transfer(t, s) EXCEPT !.fault = FALSE, !.previousIdle = TRUE, !.driving = FALSE]
  <2>1. Faulty(t, s) = FALSE
    BY <1>2 DEF Faulty
  <2>2. (s.token.kind = "Idle") = TRUE
    BY DEF Idle, Token
  <2>3. (s.drive /\ (t.driving \/ t.previousIdle)) = FALSE
    OBVIOUS
  <2>4. QED
    BY <2>1, <2>2, <2>3, Zenon DEF Clock
<1>5. QED
  BY <1>2, <1>3, <1>4 DEF Turned, Fresh, Abandoned, Tx

LEMMA ControlSlot ==
  ASSUME NEW t \in Tx, NEW pins \in Pins, Turned(t, "QicToTx")
  PROVE  LET s == Writes(EncodeControl(pins)) IN
         /\ ~Faulty(t, s)
         /\ Turned(Clock(t, s), "QicToTx") /\ HasControl(Clock(t, s), pins)
<1> DEFINE s == Writes(EncodeControl(pins))
<1>1. /\ s.token.kind = "Control" /\ s.token.ok = TRUE /\ s.direction = "QicToTx"
      /\ s.drive = FALSE /\ s.response = None
      /\ s.token.image = EncodeControl(pins).image
  BY DEF Writes, Slot, EncodeControl, Token
<1> HIDE DEF s
<1>2. ~TokenIllegal(t, s) /\ ~DirectionIllegal(t, s)
  BY <1>1 DEF TokenIllegal, DirectionIllegal, Turned, Fresh
<1>3. ~Faulty(t, s)
  BY <1>1, <1>2, NotDriven DEF Faulty, Turned, Fresh
<1>4. Transfer(t, s) = ClockQicToTx([t EXCEPT !.direction = s.direction], s.token)
  BY <1>1, <1>2 DEF Transfer
<1>5. Turned(Clock(t, s), "QicToTx") /\ HasControl(Clock(t, s), pins)
  BY <1>1, <1>3, <1>4 DEF ClockQicToTx, Clock, Turned, Fresh, HasControl, Tx
<1>6. QED
  BY <1>3, <1>5 DEF s

LEMMA LowSlot ==
  ASSUME NEW t \in Tx, NEW word \in Words, Turned(t, "QicToTx")
  PROVE  LET s == Writes(EncodeData(word)[1]) IN
         /\ ~Faulty(t, s)
         /\ LET u == Clock(t, s) IN
            u.low = word[1] /\ ~u.lowRead /\ ~u.fault /\ u.direction = "QicToTx"
            /\ u.control = t.control
<1> DEFINE s == Writes(EncodeData(word)[1])
<1>1. /\ s.token.kind = "DataLo" /\ s.token.ok = TRUE /\ s.direction = "QicToTx"
      /\ s.drive = FALSE /\ s.response = None /\ s.token.half = word[1]
  BY DEF Writes, Slot, EncodeData, Token
<1> HIDE DEF s
<1>2. ~TokenIllegal(t, s) /\ ~DirectionIllegal(t, s)
  BY <1>1 DEF TokenIllegal, DirectionIllegal, Turned, Fresh
<1>3. ~Faulty(t, s)
  BY <1>1, <1>2, NotDriven DEF Faulty, Turned, Fresh
<1>4. Transfer(t, s) = ClockQicToTx([t EXCEPT !.direction = s.direction], s.token)
  BY <1>1, <1>2 DEF Transfer
<1>5. QED
  BY <1>1, <1>3, <1>4 DEF ClockQicToTx, Clock, Turned, Fresh, Tx, s

LEMMA HighSlot ==
  ASSUME NEW t \in Tx, NEW word \in Words, t.low = word[1], ~t.lowRead, ~t.fault,
         t.direction = "QicToTx"
  PROVE  LET s == Writes(EncodeData(word)[2]) IN
         /\ ~Faulty(t, s)
         /\ Turned(Clock(t, s), "QicToTx")
         /\ Clock(t, s).control = t.control /\ Clock(t, s).word = word
<1> DEFINE s == Writes(EncodeData(word)[2])
<1>1. /\ s.token.kind = "DataHi" /\ s.token.ok = TRUE /\ s.direction = "QicToTx"
      /\ s.drive = FALSE /\ s.response = None /\ s.token.half = word[2]
  BY DEF Writes, Slot, EncodeData, Token
<1> HIDE DEF s
<1>2. t.low # None /\ word = <<word[1], word[2]>>
  BY NoneIsNoPayload DEF Words
<1>3. ~TokenIllegal(t, s) /\ ~DirectionIllegal(t, s)
  BY <1>1, <1>2 DEF TokenIllegal, DirectionIllegal
<1>4. ~Faulty(t, s)
  BY <1>1, <1>3, NotDriven DEF Faulty
<1>5. Transfer(t, s) = ClockQicToTx([t EXCEPT !.direction = s.direction], s.token)
  BY <1>1, <1>3 DEF Transfer
<1>6. QED
  BY <1>1, <1>2, <1>4, <1>5 DEF ClockQicToTx, Clock, Turned, Fresh, Tx, s

\* The slot that drives: the pins wanted are the pins driven.
LEMMA LastSlot ==
  ASSUME NEW t \in Tx, NEW pins \in Pins, Turned(t, "QicToTx"), t.previousIdle, Loaded(t, pins)
  PROVE  /\ ~Faulty(t, Last(pins))
         /\ Driven(t, Last(pins)) = pins
         /\ Fresh(Clock(t, Last(pins)))
<1> DEFINE s == Last(pins)
<1>1. /\ s.token.kind = "Idle" /\ s.token.ok = TRUE /\ s.direction = "QicToTx"
      /\ s.drive = Needs(pins) /\ s.response = pins.response
  BY DEF Last, Drives, Slot, Idle, Token
<1> HIDE DEF s
<1>2. /\ pins = [control |-> pins.control, word |-> pins.word, response |-> pins.response]
      /\ pins.control \in Controls \cup {None} /\ pins.word \in Words \cup {None}
      /\ pins.response \in {None, "Ack", "Err"}
  BY DEF Pins
<1>3. ~ResponseIllegal(s) /\ ~DriveRiseIllegal(t, s)
  BY <1>1, <1>2, NoneIsNoPayload DEF ResponseIllegal, DriveRiseIllegal
<1>4. EffectiveDrive(t, s) <=> Needs(pins)
  BY <1>1, <1>3 DEF EffectiveDrive, Needs
<1>5. Needs(pins) =>
        /\ t.control.drivesWord <=> pins.word # None
        /\ t.control.drivesControl <=> pins.control # None
        /\ pins.control # None => t.control.control = pins.control
        /\ t.control # None
        /\ pins.word # None => t.word = pins.word
  <2> SUFFICES ASSUME Needs(pins)
               PROVE  /\ t.control.drivesWord <=> pins.word # None
                      /\ t.control.drivesControl <=> pins.control # None
                      /\ pins.control # None => t.control.control = pins.control
                      /\ t.control # None
                      /\ pins.word # None => t.word = pins.word
    OBVIOUS
  <2> DEFINE image == EncodeControl(pins).image
  <2>1. t.control = image /\ (pins.word # None => t.word = pins.word)
    BY DEF Loaded, HasControl
  <2>2. SomeControl \in Controls
    BY ControlAssumption DEF SomeControl
  <2>3. image \in Image
    BY <1>2, <2>2 DEF EncodeControl, Token, Image
  <2>4. /\ image.drivesWord <=> pins.word # None
        /\ image.drivesControl <=> pins.control # None
        /\ pins.control # None => image.control = pins.control
    BY DEF EncodeControl, Token
  <2>5. image # None
    BY <2>3, NoneIsNoPayload
  <2> HIDE DEF image
  <2>6. QED
    BY <2>1, <2>4, <2>5
<1>6. ~Missing(t, s)
  BY <1>2, <1>4, <1>5 DEF Missing
<1>7. ~TokenIllegal(t, s)
  BY <1>1 DEF TokenIllegal, DirectionIllegal, Turned, Fresh
<1>8. ~Faulty(t, s)
  BY <1>3, <1>6, <1>7 DEF Faulty, Turned, Fresh
<1>9. Driven(t, s) = pins
  BY <1>1, <1>2, <1>3, <1>4, <1>5 DEF Driven, Needs
<1>10. Fresh(Clock(t, s))
  BY <1>1, <1>8 DEF Clock, Transfer, Abandoned, Fresh, Tx
<1>11. QED
  BY <1>8, <1>9, <1>10 DEF s

LEMMA ShownRead ==
  ASSUME NEW s, NEW kind, Shows(s, Reads(kind))
  PROVE  /\ s.direction = "TxToQic" /\ s.token.kind = kind
         /\ s.drive = FALSE /\ s.response = None /\ s.word \in Words
<1>1. PICK word \in Words, control \in Controls :
        s = [Reads(kind) EXCEPT !.word = word, !.control = control]
  BY DEF Shows, Reads, Slot
<1>2. QED
  BY <1>1 DEF Reads, Slot, Token

LEMMA ReadLowSlot ==
  ASSUME NEW t \in Tx, NEW s, Turned(t, "TxToQic"), Shows(s, Reads("DataLo"))
  PROVE  /\ ~Faulty(t, s)
         /\ LET u == Clock(t, s) IN
            u.low = None /\ u.lowRead /\ ~u.fault /\ u.direction = "TxToQic"
<1>1. /\ s.token.kind = "DataLo" /\ s.direction = "TxToQic"
      /\ s.drive = FALSE /\ s.response = None
  BY ShownRead
<1>2. ~TokenIllegal(t, s) /\ ~DirectionIllegal(t, s)
  BY <1>1 DEF TokenIllegal, DirectionIllegal, Turned, Fresh, Tx
<1>3. ~Faulty(t, s)
  BY <1>1, <1>2, NotDriven DEF Faulty, Turned, Fresh
<1>4. Transfer(t, s) = ClockTxToQic([t EXCEPT !.direction = s.direction], "DataLo", s.word)
  BY <1>1, <1>2 DEF Transfer
<1>5. QED
  BY <1>1, <1>3, <1>4 DEF ClockTxToQic, Clock, Turned, Fresh, Tx

LEMMA ReadHighSlot ==
  ASSUME NEW t \in Tx, NEW s, t.low = None, t.lowRead, ~t.fault, t.direction = "TxToQic",
         Shows(s, Reads("DataHi"))
  PROVE  ~Faulty(t, s) /\ Fresh(Clock(t, s))
<1>1. /\ s.token.kind = "DataHi" /\ s.direction = "TxToQic"
      /\ s.drive = FALSE /\ s.response = None
  BY ShownRead
<1>2. ~TokenIllegal(t, s) /\ ~DirectionIllegal(t, s)
  BY <1>1 DEF TokenIllegal, DirectionIllegal, Tx
<1>3. ~Faulty(t, s)
  BY <1>1, <1>2, NotDriven DEF Faulty
<1>4. Transfer(t, s) = ClockTxToQic([t EXCEPT !.direction = s.direction], "DataHi", s.word)
  BY <1>1, <1>2 DEF Transfer
<1>5. QED
  BY <1>1, <1>3, <1>4 DEF ClockTxToQic, Clock, Fresh, Tx

-----------------------------------------------------------------------------
(* The card programs' slots, one after the other.                           *)

LEMMA ConcatIs ==
  ASSUME NEW S, NEW s \in Seq(S), NEW t \in Seq(S), NEW u \in Seq(S),
         Len(u) = Len(s) + Len(t),
         \A i \in 1 .. Len(u) : u[i] = IF i <= Len(s) THEN s[i] ELSE t[i - Len(s)]
  PROVE  s \o t = u
BY ConcatProperties, SeqEqual

\* Concatenations of tuples written out.
LEMMA OneAndOne ==
  ASSUME NEW a, NEW b
  PROVE  <<a>> \o <<b>> = <<a, b>>
<1>1. <<a>> \in Seq({a, b}) /\ <<b>> \in Seq({a, b}) /\ <<a, b>> \in Seq({a, b})
  OBVIOUS
<1>2. /\ Len(<<a, b>>) = Len(<<a>>) + Len(<<b>>)
      /\ \A i \in 1 .. Len(<<a, b>>) :
           <<a, b>>[i] = IF i <= Len(<<a>>) THEN <<a>>[i] ELSE <<b>>[i - Len(<<a>>)]
  OBVIOUS
<1>3. QED
  BY <1>1, <1>2, ConcatIs

LEMMA OneAndTwo ==
  ASSUME NEW a, NEW b, NEW c
  PROVE  <<a>> \o <<b, c>> = <<a, b, c>>
<1>1. <<a>> \in Seq({a, b, c}) /\ <<b, c>> \in Seq({a, b, c}) /\ <<a, b, c>> \in Seq({a, b, c})
  OBVIOUS
<1>2. /\ Len(<<a, b, c>>) = Len(<<a>>) + Len(<<b, c>>)
      /\ \A i \in 1 .. Len(<<a, b, c>>) :
           <<a, b, c>>[i] = IF i <= Len(<<a>>) THEN <<a>>[i] ELSE <<b, c>>[i - Len(<<a>>)]
  OBVIOUS
<1>3. QED
  BY <1>1, <1>2, ConcatIs

LEMMA TwoAndTwo ==
  ASSUME NEW a, NEW b, NEW c, NEW d
  PROVE  <<a, b>> \o <<c, d>> = <<a, b, c, d>>
<1>1. <<a, b>> \in Seq({a, b, c, d}) /\ <<c, d>> \in Seq({a, b, c, d}) /\ <<a, b, c, d>> \in Seq({a, b, c, d})
  OBVIOUS
<1>2. /\ Len(<<a, b, c, d>>) = Len(<<a, b>>) + Len(<<c, d>>)
      /\ \A i \in 1 .. Len(<<a, b, c, d>>) :
           <<a, b, c, d>>[i] = IF i <= Len(<<a, b>>) THEN <<a, b>>[i] ELSE <<c, d>>[i - Len(<<a, b>>)]
  OBVIOUS
<1>3. QED
  BY <1>1, <1>2, ConcatIs

LEMMA FourAndTwo ==
  ASSUME NEW a, NEW b, NEW c, NEW d, NEW e, NEW f
  PROVE  <<a, b, c, d>> \o <<e, f>> = <<a, b, c, d, e, f>>
<1>1. <<a, b, c, d>> \in Seq({a, b, c, d, e, f}) /\ <<e, f>> \in Seq({a, b, c, d, e, f}) /\ <<a, b, c, d, e, f>> \in Seq({a, b, c, d, e, f})
  OBVIOUS
<1>2. /\ Len(<<a, b, c, d, e, f>>) = Len(<<a, b, c, d>>) + Len(<<e, f>>)
      /\ \A i \in 1 .. Len(<<a, b, c, d, e, f>>) :
           <<a, b, c, d, e, f>>[i] = IF i <= Len(<<a, b, c, d>>) THEN <<a, b, c, d>>[i] ELSE <<e, f>>[i - Len(<<a, b, c, d>>)]
  OBVIOUS
<1>3. QED
  BY <1>1, <1>2, ConcatIs

\* The sequences written out.
LEMMA Slots ==
  ASSUME NEW pins \in Pins
  PROVE  /\ ThroughTx(pins) # <<>>
         /\ Head(ThroughTx(pins)) = Writes(Idle)
         /\ Tail(ThroughTx(pins)) = AfterFirst(pins)
<1> DEFINE control == <<Writes(EncodeControl(pins))>>
           data == <<Writes(EncodeData(pins.word)[1]), Writes(EncodeData(pins.word)[2])>>
           drive == <<Writes(Idle), Last(pins)>>
<1>1. CASE ~Needs(pins)
  <2>1. ThroughTx(pins) = ((<<Writes(Idle)>> \o <<>>) \o <<>>) \o drive
    BY <1>1 DEF ThroughTx, Needs, Last
  <2>2. ThroughTx(pins) = <<Writes(Idle)>> \o drive
    BY <2>1
  <2>3. ThroughTx(pins) = <<Writes(Idle), Writes(Idle), Last(pins)>>
    BY <2>2, OneAndTwo
  <2>4. QED
    BY <1>1, <2>3 DEF AfterFirst
<1>2. <<Writes(Idle)>> \o control = <<Writes(Idle), Writes(EncodeControl(pins))>>
  BY OneAndOne
<1>3. CASE Needs(pins) /\ pins.word = None
  <2>1. ThroughTx(pins) = ((<<Writes(Idle)>> \o control) \o <<>>) \o drive
    BY <1>3 DEF ThroughTx, Last
  <2>2. ThroughTx(pins) = <<Writes(Idle), Writes(EncodeControl(pins))>> \o drive
    BY <1>2, <2>1
  <2>3. ThroughTx(pins) = <<Writes(Idle), Writes(EncodeControl(pins)), Writes(Idle), Last(pins)>>
    BY <2>2, TwoAndTwo
  <2>4. QED
    BY <1>3, <2>3 DEF AfterFirst
<1>4. CASE Needs(pins) /\ pins.word # None
  <2>1. ThroughTx(pins) = ((<<Writes(Idle)>> \o control) \o data) \o drive
    BY <1>4 DEF ThroughTx, Last
  <2>2. <<Writes(Idle), Writes(EncodeControl(pins))>> \o data =
          <<Writes(Idle), Writes(EncodeControl(pins)), Writes(EncodeData(pins.word)[1]),
            Writes(EncodeData(pins.word)[2])>>
    BY TwoAndTwo
  <2>3. ThroughTx(pins) =
          <<Writes(Idle), Writes(EncodeControl(pins)), Writes(EncodeData(pins.word)[1]),
            Writes(EncodeData(pins.word)[2])>> \o drive
    BY <1>2, <2>1, <2>2
  <2>4. ThroughTx(pins) =
          <<Writes(Idle), Writes(EncodeControl(pins)), Writes(EncodeData(pins.word)[1]),
            Writes(EncodeData(pins.word)[2]), Writes(Idle), Last(pins)>>
    BY <2>3, FourAndTwo
  <2>5. QED
    BY <1>4, <2>4 DEF AfterFirst
<1>5. QED
  BY <1>1, <1>3, <1>4

\* A written slot is shown as it is.
LEMMA ShownWrite ==
  ASSUME NEW s, NEW part, Shows(s, part), part.direction = "QicToTx"
  PROVE  s = part
BY DEF Shows

\* One slot of a transfer of pins: it is no fault, and the transfer goes on.
LEMMA SendNext ==
  ASSUME NEW t \in Tx, NEW s, NEW rest, NEW pins \in Pins, SendStage(t, s, rest, pins),
         rest # <<>>
  PROVE  /\ ~Faulty(t, s) /\ Driven(t, s) = Nothing
         /\ Head(rest).direction = "QicToTx"
         /\ SendStage(Clock(t, s), Head(rest), Tail(rest), pins)
<1> DEFINE u == Clock(t, s)
           w == pins.word
<1>1. \A token : Writes(token).direction = "QicToTx" /\ Writes(token).token = token
                 /\ Writes(token).drive = FALSE /\ Writes(token).response = None
  BY DEF Writes, Slot
<1>2. Last(pins).direction = "QicToTx"
  BY DEF Last, Drives, Slot
<1>3. Fresh(t) => /\ ~Faulty(t, Writes(Idle))
                  /\ LET v == Clock(t, Writes(Idle)) IN
                     Turned(v, "QicToTx") /\ v.previousIdle
                     /\ v.control = t.control /\ v.word = t.word
  BY <1>1, IdleSlot DEF Directions
<1>4. w # None => w \in Words
  BY DEF Pins
<1>5. CASE s = Writes(Idle) /\ rest = AfterFirst(pins) /\ Fresh(t)
  <2>1. ~Faulty(t, s) /\ Driven(t, s) = Nothing /\ Turned(u, "QicToTx")
    BY <1>1, <1>3, <1>5, NotDriven
  <2>2. CASE ~Needs(pins)
    <3>1. Head(rest) = Writes(Idle) /\ Tail(rest) = <<Last(pins)>> /\ Loaded(u, pins)
      BY <1>5, <2>2 DEF AfterFirst, Loaded
    <3>2. QED
      BY <1>1, <2>1, <3>1 DEF SendStage
  <2>3. CASE Needs(pins)
    <3>1. /\ Head(rest) = Writes(EncodeControl(pins))
          /\ Tail(rest) = IF w = None THEN <<Writes(Idle), Last(pins)>>
                          ELSE <<Writes(EncodeData(w)[1]), Writes(EncodeData(w)[2]),
                                 Writes(Idle), Last(pins)>>
      BY <1>5, <2>3 DEF AfterFirst
    <3>2. QED
      BY <1>1, <2>1, <2>3, <3>1 DEF SendStage
  <2>4. QED
    BY <2>2, <2>3
<1>6. CASE /\ Needs(pins) /\ s = Writes(EncodeControl(pins)) /\ Turned(t, "QicToTx")
           /\ rest = IF w = None THEN <<Writes(Idle), Last(pins)>>
                     ELSE <<Writes(EncodeData(w)[1]), Writes(EncodeData(w)[2]),
                            Writes(Idle), Last(pins)>>
  <2>1. ~Faulty(t, s) /\ Driven(t, s) = Nothing /\ Turned(u, "QicToTx") /\ HasControl(u, pins)
    BY <1>1, <1>6, ControlSlot, NotDriven
  <2>2. CASE w = None
    <3>1. Head(rest) = Writes(Idle) /\ Tail(rest) = <<Last(pins)>> /\ Loaded(u, pins)
      BY <1>6, <2>1, <2>2 DEF Loaded
    <3>2. QED
      BY <1>1, <2>1, <3>1 DEF SendStage
  <2>3. CASE w # None
    <3>1. /\ Head(rest) = Writes(EncodeData(w)[1])
          /\ Tail(rest) = <<Writes(EncodeData(w)[2]), Writes(Idle), Last(pins)>>
      BY <1>6, <2>3
    <3>2. QED
      BY <1>1, <2>1, <2>3, <3>1 DEF SendStage
  <2>4. QED
    BY <2>2, <2>3
<1>7. CASE /\ w # None /\ s = Writes(EncodeData(w)[1]) /\ Turned(t, "QicToTx")
           /\ rest = <<Writes(EncodeData(w)[2]), Writes(Idle), Last(pins)>>
           /\ HasControl(t, pins)
  <2>1. w \in Words
    BY <1>4, <1>7
  <2>2. /\ ~Faulty(t, s)
        /\ u.low = w[1] /\ ~u.lowRead /\ ~u.fault /\ u.direction = "QicToTx"
        /\ u.control = t.control
    BY <1>7, <2>1, LowSlot
  <2>3. Driven(t, s) = Nothing
    BY <1>1, <1>7, NotDriven
  <2>4. HasControl(u, pins)
    BY <1>7, <2>2 DEF HasControl
  <2>5. /\ ~Faulty(t, s) /\ Driven(t, s) = Nothing
        /\ u.low = w[1] /\ ~u.lowRead /\ ~u.fault /\ u.direction = "QicToTx"
        /\ HasControl(u, pins)
    BY <2>2, <2>3, <2>4
  <2>6. /\ Head(rest) = Writes(EncodeData(w)[2])
        /\ Tail(rest) = <<Writes(Idle), Last(pins)>>
    BY <1>7
  <2>7. QED
    BY <1>1, <1>7, <2>5, <2>6 DEF SendStage
<1>8. CASE /\ w # None /\ s = Writes(EncodeData(w)[2]) /\ rest = <<Writes(Idle), Last(pins)>>
           /\ t.low = w[1] /\ ~t.lowRead /\ ~t.fault /\ t.direction = "QicToTx"
           /\ HasControl(t, pins)
  <2>1. w \in Words
    BY <1>4, <1>8
  <2>2. /\ ~Faulty(t, s) /\ Turned(u, "QicToTx")
        /\ u.control = t.control /\ u.word = w
    BY <1>8, <2>1, HighSlot
  <2>3. Driven(t, s) = Nothing
    BY <1>1, <1>8, NotDriven
  <2>4. Loaded(u, pins)
    BY <1>8, <2>2 DEF HasControl, Loaded
  <2>5. ~Faulty(t, s) /\ Driven(t, s) = Nothing /\ Turned(u, "QicToTx") /\ Loaded(u, pins)
    BY <2>2, <2>3, <2>4
  <2>6. Head(rest) = Writes(Idle) /\ Tail(rest) = <<Last(pins)>>
    BY <1>8
  <2>7. QED
    BY <1>1, <2>5, <2>6 DEF SendStage
<1>9. CASE s = Writes(Idle) /\ rest = <<Last(pins)>> /\ Turned(t, "QicToTx") /\ Loaded(t, pins)
  <2>1. /\ ~Faulty(t, s) /\ Driven(t, s) = Nothing /\ Turned(u, "QicToTx") /\ u.previousIdle
        /\ Loaded(u, pins)
    BY <1>1, <1>3, <1>9, NotDriven DEF Loaded, HasControl, Turned
  <2>2. Head(rest) = Last(pins) /\ Tail(rest) = <<>>
    BY <1>9
  <2>3. QED
    BY <1>2, <2>1, <2>2 DEF SendStage
<1>10. QED
  BY <1>5, <1>6, <1>7, <1>8, <1>9 DEF SendStage

\* The first of a read's slots.
LEMMA ReadFirst ==
  ASSUME NEW t \in Tx, NEW s, Fresh(t), Shows(s, Reads("Idle"))
  PROVE  ~Faulty(t, s) /\ Turned(Clock(t, s), "TxToQic")
<1>1. s.token = Idle /\ s.direction = "TxToQic" /\ s.drive = FALSE /\ s.response = None
  <2>1. PICK word \in Words, control \in Controls :
          s = [Reads("Idle") EXCEPT !.word = word, !.control = control]
    BY Zenon DEF Shows, Reads, Slot
  <2>2. Reads("Idle") = [direction |-> "TxToQic", token |-> Idle, drive |-> FALSE,
                         response |-> None, word |-> SomeWord, control |-> SomeControl]
    BY DEF Reads, Slot, Idle
  <2>3. QED
    BY <2>1, <2>2
<1>2. s.direction \in Directions
  BY <1>1 DEF Directions
<1>3. ~Faulty(t, s) /\ Turned(Clock(t, s), s.direction)
  BY <1>1, <1>2, IdleSlot, Zenon
<1>4. QED
  BY <1>1, <1>3, Zenon

\* No slot of a read is a fault, and none drives.
LEMMA ReadQuiet ==
  ASSUME NEW t \in Tx, NEW s, NEW rest, ReadStage(t, s, rest)
  PROVE  ~Faulty(t, s) /\ Driven(t, s) = Nothing
<1>1. CASE s = Quiet /\ Fresh(t)
  <2>1. s.token = Idle /\ s.direction \in Directions /\ s.drive = FALSE /\ s.response = None
    BY <1>1 DEF Quiet, Writes, Slot, Directions
  <2>2. ~Faulty(t, s)
    BY <1>1, <2>1, IdleSlot, Zenon
  <2>3. QED
    BY <2>1, <2>2, NotDriven
<1>2. CASE Shows(s, Reads("Idle")) /\ Fresh(t)
  BY <1>2, ReadFirst, ShownRead, NotDriven
<1>3. CASE Shows(s, Reads("DataLo")) /\ Turned(t, "TxToQic")
  BY <1>3, ReadLowSlot, ShownRead, NotDriven
<1>4. CASE /\ Shows(s, Reads("DataHi"))
           /\ t.low = None /\ t.lowRead /\ ~t.fault /\ t.direction = "TxToQic"
  BY <1>4, ReadHighSlot, ShownRead, NotDriven
<1>5. QED
  BY <1>1, <1>2, <1>3, <1>4 DEF ReadStage

\* One slot of a read that is not its last: the read goes on.
LEMMA ReadNext ==
  ASSUME NEW t \in Tx, NEW s, NEW rest, ReadStage(t, s, rest), rest # <<>>,
         NEW next, Shows(next, Head(rest))
  PROVE  ReadStage(Clock(t, s), next, Tail(rest))
<1>1. CASE /\ Shows(s, Reads("Idle")) /\ rest = <<Reads("DataLo"), Reads("DataHi")>>
           /\ Fresh(t)
  <2>1. Turned(Clock(t, s), "TxToQic")
    BY <1>1, ReadFirst
  <2>2. Head(rest) = Reads("DataLo") /\ Tail(rest) = <<Reads("DataHi")>>
    BY <1>1
  <2>3. QED
    BY <2>1, <2>2 DEF ReadStage
<1>2. CASE Shows(s, Reads("DataLo")) /\ rest = <<Reads("DataHi")>> /\ Turned(t, "TxToQic")
  <2>1. LET u == Clock(t, s) IN
        u.low = None /\ u.lowRead /\ ~u.fault /\ u.direction = "TxToQic"
    BY <1>2, ReadLowSlot
  <2>2. Head(rest) = Reads("DataHi") /\ Tail(rest) = <<>>
    BY <1>2
  <2>3. QED
    BY <2>1, <2>2 DEF ReadStage
<1>3. QED
  BY <1>1, <1>2 DEF ReadStage

\* The last slot of a read or of a transfer leaves nothing behind.
LEMMA ReadLast ==
  ASSUME NEW t \in Tx, NEW s, ReadStage(t, s, <<>>)
  PROVE  Fresh(Clock(t, s))
<1>1. CASE s = Quiet /\ Fresh(t)
  <2>1. s.token = Idle /\ s.direction \in Directions /\ s.drive = FALSE /\ s.response = None
    BY <1>1 DEF Quiet, Writes, Slot, Directions
  <2>2. Turned(Clock(t, s), s.direction)
    BY <1>1, <2>1, IdleSlot, Zenon
  <2>3. QED
    BY <2>2 DEF Turned
<1>2. CASE /\ Shows(s, Reads("DataHi"))
           /\ t.low = None /\ t.lowRead /\ ~t.fault /\ t.direction = "TxToQic"
  BY <1>2, ReadHighSlot
<1>3. <<Reads("DataLo"), Reads("DataHi")>> # <<>> /\ <<Reads("DataHi")>> # <<>>
  OBVIOUS
<1>4. QED
  BY <1>1, <1>2, <1>3 DEF ReadStage

LEMMA SendLast ==
  ASSUME NEW t \in Tx, NEW s, NEW pins \in Pins, SendStage(t, s, <<>>, pins)
  PROVE  ~Faulty(t, s) /\ Driven(t, s) = pins /\ Fresh(Clock(t, s))
<1>1. AfterFirst(pins) # <<>>
  BY DEF AfterFirst
<1>2. s = Last(pins) /\ Turned(t, "QicToTx") /\ t.previousIdle /\ Loaded(t, pins)
  BY <1>1 DEF SendStage
<1>3. QED
  BY <1>2, LastSlot

-----------------------------------------------------------------------------
(* The invariant.                                                           *)

LEMMA InitInv ==
  ASSUME Init
  PROVE  PlioTxInv
<1>1. TypeOK
  BY DEF Init, TypeOK, NewTx, Tx
<1>2. Quiet.token.kind = "Idle"
  BY DEF Quiet, Writes, Slot, Idle, Token
<1>3. LooksBack
  BY <1>2 DEF Init, LooksBack, NewTx, Unseen, Seen
<1>4. Fresh(tx)
  BY DEF Init, NewTx, Fresh
<1>5. Stage
  BY <1>4 DEF Init, Stage, ReadStage
<1>6. QED
  BY <1>1, <1>3, <1>5 DEF PlioTxInv

\* A card with nothing left to present begins from a transceiver that remembers nothing.
LEMMA BeginsFresh ==
  ASSUME PlioTxInv, user = "Card", script = <<>>, Commit
  PROVE  Fresh(tx')
<1>1. tx \in Tx /\ tx' = Clock(tx, slot)
  BY DEF PlioTxInv, TypeOK, Commit
<1>2. CASE task = None /\ ReadStage(tx, slot, <<>>)
  BY <1>1, <1>2, ReadLast
<1>3. CASE task \in Pins /\ SendStage(tx, slot, <<>>, task)
  BY <1>1, <1>3, SendLast
<1>4. QED
  BY <1>2, <1>3 DEF PlioTxInv, Stage

LEMMA StepInv ==
  ASSUME PlioTxInv, [Next]_vars
  PROVE  PlioTxInv'
<1>1. SlotOK(slot) /\ tx \in Tx
  BY SlotKnown DEF PlioTxInv, TypeOK
<1>2. Commit => TypeOK' /\ LooksBack'
  BY <1>1, CommitKeeps DEF PlioTxInv
<1>3. ASSUME AnySlot
      PROVE  PlioTxInv'
  <2>1. Stage'
    BY <1>3 DEF AnySlot, Stage
  <2>2. QED
    BY <1>2, <1>3, <2>1 DEF AnySlot, PlioTxInv
<1>4. ASSUME SendPins
      PROVE  PlioTxInv'
  <2>1. PICK pins \in Pins : Begin(pins, ThroughTx(pins))
    BY <1>4 DEF SendPins
  <2>2. Fresh(tx')
    BY <2>1, BeginsFresh DEF Begin
  <2>3. Shows(slot', Head(ThroughTx(pins)))
    BY <2>1 DEF Begin, Presents, Shows
  <2>4. slot' = Writes(Idle)
    BY <2>3, Slots, ShownWrite DEF Writes, Slot
  <2>5. script' = AfterFirst(pins) /\ task' = pins /\ user' = "Card"
    BY <2>1, Slots DEF Begin
  <2>6. SendStage(tx', slot', script', task')
    BY <2>2, <2>4, <2>5 DEF SendStage
  <2>7. Stage'
    BY <2>5, <2>6 DEF Stage
  <2>8. QED
    BY <1>2, <2>1, <2>7 DEF Begin, PlioTxInv
<1>5. ASSUME ReadBackplane
      PROVE  PlioTxInv'
  <2>1. Begin(None, SampleAd)
    BY <1>5 DEF ReadBackplane
  <2>2. Fresh(tx')
    BY <2>1, BeginsFresh DEF Begin
  <2>3. /\ Head(SampleAd) = Reads("Idle")
        /\ Tail(SampleAd) = <<Reads("DataLo"), Reads("DataHi")>>
    BY DEF SampleAd
  <2>4. /\ Shows(slot', Reads("Idle")) /\ task' = None /\ user' = "Card"
        /\ script' = <<Reads("DataLo"), Reads("DataHi")>>
    BY <2>1, <2>3 DEF Begin, Presents, Shows
  <2>5. Stage'
    BY <2>2, <2>4 DEF Stage, ReadStage
  <2>6. QED
    BY <1>2, <2>1, <2>5 DEF Begin, PlioTxInv
<1>6. ASSUME NextSlot
      PROVE  PlioTxInv'
  <2>1. /\ user = "Card" /\ script # <<>> /\ Commit /\ Shows(slot', Head(script))
        /\ script' = Tail(script) /\ user' = "Card" /\ task' = task
    BY <1>6 DEF NextSlot, Presents, Shows
  <2>2. tx' = Clock(tx, slot)
    BY <2>1 DEF Commit
  <2>3. ASSUME task = None, ReadStage(tx, slot, script)
        PROVE  Stage'
    <3>1. ReadStage(tx', slot', script')
      BY <1>1, <2>1, <2>2, <2>3, ReadNext
    <3>2. user' = "Card" /\ task' = None
      BY <2>1, <2>3
    <3>3. QED
      BY <3>1, <3>2 DEF Stage
  <2>4. ASSUME task \in Pins, SendStage(tx, slot, script, task)
        PROVE  Stage'
    <3>1. Head(script).direction = "QicToTx" /\ SendStage(tx', Head(script), script', task)
      BY <1>1, <2>1, <2>2, <2>4, SendNext
    <3>2. slot' = Head(script)
      BY <2>1, <3>1, ShownWrite
    <3>3. user' = "Card" /\ task' \in Pins
      BY <2>1, <2>4
    <3>4. SendStage(tx', slot', script', task')
      BY <2>1, <3>1, <3>2
    <3>5. QED
      BY <3>3, <3>4 DEF Stage
  <2>5. Stage'
    BY <2>1, <2>3, <2>4 DEF PlioTxInv, Stage
  <2>6. QED
    BY <1>2, <2>1, <2>5 DEF PlioTxInv
<1>7. ASSUME Reset
      PROVE  PlioTxInv'
  <2>1. TypeOK'
    BY <1>7 DEF Reset, TypeOK, NewTx, Tx
  <2>2. Quiet.token.kind = "Idle"
    BY DEF Quiet, Writes, Slot, Idle, Token
  <2>3. LooksBack'
    BY <1>7, <2>2 DEF Reset, LooksBack, NewTx, Unseen, Seen
  <2>4. Fresh(tx')
    BY <1>7 DEF Reset, NewTx, Fresh
  <2>5. Stage'
    BY <1>7, <2>4 DEF Reset, Stage, ReadStage, PlioTxInv
  <2>6. QED
    BY <2>1, <2>3, <2>5 DEF PlioTxInv
<1>8. ASSUME UNCHANGED vars
      PROVE  PlioTxInv'
  BY <1>8 DEF vars, PlioTxInv, TypeOK, LooksBack, Stage
<1>9. QED
  BY <1>3, <1>4, <1>5, <1>6, <1>7, <1>8 DEF Next

\* The invariant that carries the others.
THEOREM PlioTxInvariant == Spec => []PlioTxInv
BY InitInv, StepInv, PTL DEF Spec

-----------------------------------------------------------------------------
(* The theorems.                                                            *)

(* No torn word (clock_qic_to_tx): whatever tokens are presented, the word driven changes
   only into the two halves of two adjacent slots. *)
THEOREM NoTornWordProved == Spec => NoTornWord
<1> DEFINE Whole ==
      (tx'.word # tx.word /\ tx'.word # None) =>
        /\ previous.direction = "QicToTx" /\ previous.kind = "DataLo"
        /\ slot.direction = "QicToTx" /\ slot.token.kind = "DataHi"
        /\ tx'.word = <<previous.half, slot.token.half>>
<1>1. ASSUME PlioTxInv, Next PROVE Whole
  <2>1. CASE Reset
    BY <2>1 DEF Reset, NewTx
  <2>2. CASE Commit
    <3> DEFINE u == Transfer(tx, slot)
    <3>1. tx \in Tx /\ SlotOK(slot)
      BY <1>1, SlotKnown DEF PlioTxInv, TypeOK
    <3>2. tx'.word = u.word
      <4>1. u \in Tx
        BY <1>1, <3>1, TransferTyped DEF PlioTxInv, LooksBack, TypeOK
      <4>2. QED
        BY <2>2, <4>1 DEF Commit, Clock, Tx
    <3>3. u.word # tx.word =>
            /\ slot.direction = "QicToTx" /\ slot.token.kind = "DataHi" /\ tx.low # None
            /\ u.word = <<tx.low, slot.token.half>>
      BY <3>1 DEF Transfer, Abandoned, ClockQicToTx, ClockTxToQic, Tx, SlotOK, Kinds, Directions
    <3>4. QED
      BY <1>1, <3>2, <3>3 DEF PlioTxInv, LooksBack
  <2>3. QED
    BY <1>1, <2>1, <2>2 DEF Next, AnySlot, SendPins, ReadBackplane, NextSlot, Begin
<1>2. PlioTxInv /\ [Next]_vars => [Whole]_vars
  BY <1>1
<1>3. QED
  BY <1>2, PlioTxInvariant, PTL DEF Spec, NoTornWord

\* A high half read belongs to the low half read before it (clock_tx_to_qic).
THEOREM ReadIsCoherentProved == Spec => []ReadIsCoherent
<1>1. PlioTxInv => ReadIsCoherent
  BY DEF PlioTxInv, LooksBack, ReadIsCoherent, Received
<1>2. QED
  BY <1>1, PlioTxInvariant, PTL

\* Driving begins only after an idle slot (effective_drive).
THEOREM DriveAfterIdleProved == Spec => []DriveAfterIdle
<1>1. PlioTxInv => DriveAfterIdle
  BY DEF PlioTxInv, LooksBack, TypeOK, Tx, DriveAfterIdle, EffectiveDrive, DriveRiseIllegal
<1>2. QED
  BY <1>1, PlioTxInvariant, PTL

(* The card programs' slots are never a fault, and through them the transceiver drives the
   pins the card wants, in the slot it wants them in, and nothing in any other. *)
THEOREM CardIsTransparentProved == Spec => []CardIsTransparent
<1>1. ASSUME PlioTxInv PROVE CardIsTransparent
  <2> SUFFICES ASSUME user = "Card"
               PROVE  /\ ~Faulty(tx, slot)
                      /\ Driven(tx, slot) = IF script = <<>> /\ task # None THEN task ELSE Nothing
    BY DEF CardIsTransparent
  <2>1. tx \in Tx
    BY <1>1 DEF PlioTxInv, TypeOK
  <2>2. CASE task = None /\ ReadStage(tx, slot, script)
    BY <2>1, <2>2, ReadQuiet
  <2>3. CASE task \in Pins /\ SendStage(tx, slot, script, task)
    <3>1. task # None
      BY <2>3, NoneIsNoPins
    <3>2. CASE script = <<>>
      BY <2>1, <2>3, <3>1, <3>2, SendLast
    <3>3. CASE script # <<>>
      BY <2>1, <2>3, <3>3, SendNext
    <3>4. QED
      BY <3>2, <3>3
  <2>4. QED
    BY <1>1, <2>2, <2>3 DEF PlioTxInv, Stage
<1>2. QED
  BY <1>1, PlioTxInvariant, PTL
=============================================================================
