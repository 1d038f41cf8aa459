--------------------------------- MODULE PlioTx ---------------------------------
(***************************************************************************)
(* The transceiver between the QIC's narrow PTI pins and the wide          *)
(* backplane (hardware/plio-tx/rust), with the PTI tokens                  *)
(* (hardware/pti/rust) and the slots in which the card programs use it     *)
(* (through_tx and sample_ad in hardware/qdx-a-card/rust).                 *)
(*                                                                         *)
(* A word with its parity is two halves, <<lo, hi>>, one token each.  A    *)
(* control image is its two drive enables and the rest; a control token    *)
(* with parity or reserved bits set is malformed.  SEL, BG, BR and a       *)
(* sampled ACK or ERR are wires and left out, and so is the contention     *)
(* flag, an aid of simulations.                                            *)
(*                                                                         *)
(* "slot" is what QIC and backplane present now: what the transceiver      *)
(* drives and returns are functions of it and of tx, and the next step     *)
(* commits the slot and presents another.                                  *)
(***************************************************************************)
EXTENDS Naturals, Sequences

CONSTANTS
  Halves,     \* halfwords with their parity fragments
  Controls,   \* SPACE, AS, RD, BE, BLEN and DS
  Responses,  \* what the QIC may answer with RESP_DRIVE: None, "Ack", "Err", "Both"
  None        \* the absent Option

Words == Halves \X Halves

Directions == {"QicToTx", "TxToQic"}

Image == [drivesWord : BOOLEAN, drivesControl : BOOLEAN, control : Controls]

\* There is a control image: the one whose signals are all undriven at least.
ASSUME ControlAssumption == Controls # {}

ASSUME NoneIsNoPayload ==
  /\ None \notin Halves \cup Words \cup Controls \cup Image
  /\ None \notin Directions \cup {"Ack", "Err", "Both"}

Token(kind, half, image, ok) == [kind |-> kind, half |-> half, image |-> image, ok |-> ok]

\* Malformed are an IDLE with payload bits and a CONTROL with parity or reserved bits.
Tokens ==
  {Token("Idle", None, None, ok) : ok \in BOOLEAN}
  \cup {Token(kind, half, None, TRUE) : kind \in {"DataLo", "DataHi"}, half \in Halves}
  \cup {Token("Control", None, image, TRUE) : image \in Image}
  \cup {Token("Control", None, None, FALSE)}

Idle == Token("Idle", None, None, TRUE)

Kinds == {"Idle", "DataLo", "DataHi", "Control"}

\* What the QIC presents, and the word and control the backplane carries.
Slot(direction, token, drive, response, word, control) ==
  [direction |-> direction, token |-> token, drive |-> drive, response |-> response,
   word |-> word, control |-> control]

SomeWord == CHOOSE w \in Words : TRUE
SomeControl == CHOOSE c \in Controls : TRUE

\* Only what the transceiver looks at is distinguished.
Presented ==
       {Slot("QicToTx", token, drive, response, SomeWord, SomeControl) :
          token \in Tokens, drive \in BOOLEAN, response \in Responses}
  \cup {Slot("TxToQic", Token(kind, None, None, TRUE), drive, response, word, control) :
          kind \in Kinds, drive \in BOOLEAN, response \in Responses,
          word \in Words, control \in Controls}

VARIABLES
  tx,        \* the transceiver
  slot,      \* what is presented to it
  previous,  \* history: the slot before, and whether it was driven
  user,      \* who uses it: "Card", in the card programs' slots, or "Anyone"
  task,      \* the pins the card wants driven, or None
  script     \* the slots the card still presents for it

vars == <<tx, slot, previous, user, task, script>>

-----------------------------------------------------------------------------
(* The transceiver.                                                         *)

(***************************************************************************)
(* tx.control, tx.word    the images committed for driving                 *)
(* tx.low                 a low half waiting for its high half             *)
(* tx.sample, tx.lowRead  the word captured for reading, half of it read   *)
(***************************************************************************)
NewTx ==
  [control |-> None, word |-> None, low |-> None, sample |-> None, lowRead |-> FALSE,
   direction |-> None, previousIdle |-> TRUE, driving |-> FALSE,
   fault |-> FALSE]

Tx ==
  [control : Image \cup {None}, word : Words \cup {None}, low : Halves \cup {None},
   sample : Words \cup {None}, lowRead : BOOLEAN, direction : Directions \cup {None},
   previousIdle : BOOLEAN, driving : BOOLEAN, fault : BOOLEAN]

DirectionIllegal(t, s) ==
  t.direction # None /\ s.token.kind # "Idle" /\ t.direction # s.direction

DriveRiseIllegal(t, s) == s.drive /\ ~t.driving /\ ~t.previousIdle

ResponseIllegal(s) == s.response = "Both"

TokenIllegal(t, s) ==
  \/ DirectionIllegal(t, s)
  \/ s.token.kind = "Idle" /\ (t.low # None \/ t.lowRead)
  \/ s.direction = "QicToTx" /\ ~s.token.ok
  \/ /\ s.token.kind # "Idle" /\ s.direction = "QicToTx"
     /\ (t.low # None) # (s.token.kind = "DataHi")
  \/ /\ s.token.kind # "Idle" /\ s.direction = "TxToQic"
     /\ t.lowRead # (s.token.kind = "DataHi")

\* Mutant: the master enable is obeyed at once.
EffectiveDriveAtOnce(t, s) == s.drive

EffectiveDrive(t, s) == s.drive /\ ~DriveRiseIllegal(t, s)

Missing(t, s) ==
  EffectiveDrive(t, s) /\ (t.control = None \/ (t.control.drivesWord /\ t.word = None))

\* What the card's side of the backplane carries in the slot.
Driven(t, s) ==
  LET on == EffectiveDrive(t, s) /\ t.control # None IN
  [word     |-> IF on /\ t.control.drivesWord THEN t.word ELSE None,
   control  |-> IF on /\ t.control.drivesControl THEN t.control.control ELSE None,
   response |-> IF ResponseIllegal(s) THEN None ELSE s.response]

Nothing == [word |-> None, control |-> None, response |-> None]

\* Mutant: the high half is taken from the backplane when it is read.
ReceivedLive(t, s) ==
  CASE s.token.kind = "DataLo"  -> s.word[1]
    [] s.token.kind = "DataHi"  -> IF t.lowRead THEN s.word[2] ELSE None
    [] s.token.kind = "Control" -> s.control
    [] OTHER                    -> None

\* The bank the QIC reads.
Received(t, s) ==
  IF DirectionIllegal(t, s) \/ s.direction # "TxToQic" THEN None
  ELSE CASE s.token.kind = "DataLo"  -> s.word[1]
         [] s.token.kind = "DataHi"  -> IF t.lowRead THEN t.sample[2] ELSE None
         [] s.token.kind = "Control" -> s.control
         [] OTHER                    -> None

Faulty(t, s) ==
  \/ t.fault
  \/ DriveRiseIllegal(t, s) \/ ResponseIllegal(s) \/ TokenIllegal(t, s)
  \/ Missing(t, s)

\* Mutant: a high half is combined with whatever low half came last.
QicToTxKeepsLow(t, token) ==
  CASE token.kind = "Control" -> IF ~token.ok THEN t
                                 ELSE [t EXCEPT !.control = token.image]
    [] token.kind = "DataLo"  -> [t EXCEPT !.low = token.half]
    [] token.kind = "DataHi"  -> IF t.low = None THEN t
                                 ELSE [t EXCEPT !.word = <<t.low, token.half>>, !.low = None]

\* A low half not followed by its high half is dropped.
ClockQicToTx(t, token) ==
  LET dropped == [t EXCEPT !.low = None] IN
  CASE token.kind = "Control" -> IF ~token.ok THEN dropped
                                 ELSE [dropped EXCEPT !.control = token.image]
    [] token.kind = "DataLo"  -> [dropped EXCEPT !.low = token.half]
    [] token.kind = "DataHi"  -> IF t.low = None THEN t
                                 ELSE [dropped EXCEPT !.word = <<t.low, token.half>>]

ClockTxToQic(t, kind, word) ==
  CASE kind = "DataLo"  -> [t EXCEPT !.sample = word, !.lowRead = TRUE]
    [] kind = "DataHi"  -> [t EXCEPT !.lowRead = FALSE, !.sample = IF t.lowRead THEN @ ELSE None]
    [] kind = "Control" -> [t EXCEPT !.lowRead = FALSE, !.sample = IF t.lowRead THEN None ELSE @]

\* What an idle slot or a token of the wrong direction leaves of incomplete pairs.
Abandoned(t) == [t EXCEPT !.low = None, !.lowRead = FALSE, !.sample = None]

Transfer(t, s) ==
  IF s.token.kind = "Idle" THEN [Abandoned(t) EXCEPT !.direction = s.direction]
  ELSE IF DirectionIllegal(t, s) THEN Abandoned(t)
  ELSE LET there == [t EXCEPT !.direction = s.direction] IN
       IF s.direction = "QicToTx" THEN ClockQicToTx(there, s.token)
       ELSE ClockTxToQic(there, s.token.kind, s.word)

Clock(t, s) ==
  [Transfer(t, s) EXCEPT
     !.fault        = Faulty(t, s),
     !.previousIdle = s.token.kind = "Idle",
     !.driving      = s.drive /\ (t.driving \/ t.previousIdle)]

-----------------------------------------------------------------------------
(* The slots of the card programs.                                          *)

\* The pins of a card in one bus clock.  The QIC's answer to a register read is a word and an ACK
\* without a control image; other words come with one.
Pins == [control : Controls \cup {None}, word : Words \cup {None}, response : {None, "Ack", "Err"}]

ASSUME NoneIsNoPins == None \notin Pins

Writes(token) == Slot("QicToTx", token, FALSE, None, SomeWord, SomeControl)
Drives(on, response) == Slot("QicToTx", Idle, on, response, SomeWord, SomeControl)
Reads(kind) ==
  Slot("TxToQic", Token(kind, None, None, TRUE), FALSE, None, SomeWord, SomeControl)

EncodeData(word) ==
  <<Token("DataLo", word[1], None, TRUE), Token("DataHi", word[2], None, TRUE)>>

EncodeControl(pins) ==
  Token("Control", None,
        [drivesWord |-> pins.word # None, drivesControl |-> pins.control # None,
         control |-> IF pins.control = None THEN SomeControl ELSE pins.control], TRUE)

Needs(pins) == pins.control # None \/ pins.word # None

\* Mutant: the image is driven in the slot after its last token.
ThroughTxWithoutTurnaround(pins) ==
  <<Writes(Idle)>>
  \o (IF Needs(pins) THEN <<Writes(EncodeControl(pins))>> ELSE <<>>)
  \o (IF pins.word = None THEN <<>>
      ELSE <<Writes(EncodeData(pins.word)[1]), Writes(EncodeData(pins.word)[2])>>)
  \o <<Drives(Needs(pins), pins.response)>>

\* through_tx: the tokens of the image, a turnaround, and the slot that drives it.
ThroughTx(pins) ==
  <<Writes(Idle)>>
  \o (IF Needs(pins) THEN <<Writes(EncodeControl(pins))>> ELSE <<>>)
  \o (IF pins.word = None THEN <<>>
      ELSE <<Writes(EncodeData(pins.word)[1]), Writes(EncodeData(pins.word)[2])>>)
  \o <<Writes(Idle), Drives(Needs(pins), pins.response)>>

\* sample_ad: turn the PTD pins round and read both halves.
SampleAd == <<Reads("Idle"), Reads("DataLo"), Reads("DataHi")>>

-----------------------------------------------------------------------------
(* The specification.                                                       *)

Presents(part) ==
  \E word \in Words, control \in Controls :
    slot' = IF part.direction = "TxToQic" THEN [part EXCEPT !.word = word, !.control = control]
            ELSE part

Quiet == Writes(Idle)

\* What the properties look back at.
Seen(s, on) == [direction |-> s.direction, kind |-> s.token.kind, half |-> s.token.half,
                word |-> s.word, on |-> on]

Unseen == Seen(Quiet, FALSE)

Init ==
  /\ tx = NewTx
  /\ slot = Quiet
  /\ previous = Unseen
  /\ user \in {"Card", "Anyone"}
  /\ task = None
  /\ script = <<>>

Commit ==
  /\ tx' = Clock(tx, slot)
  /\ previous' = Seen(slot, EffectiveDrive(tx, slot))

AnySlot ==
  /\ user = "Anyone"
  /\ Commit
  /\ slot' \in Presented
  /\ UNCHANGED <<user, task, script>>

Begin(what, slots) ==
  /\ user = "Card" /\ script = <<>>
  /\ Commit
  /\ Presents(Head(slots))
  /\ task' = what
  /\ script' = Tail(slots)
  /\ UNCHANGED user

\* The card drives its pins for a bus clock, or samples the backplane.
SendPins == \E pins \in Pins : Begin(pins, ThroughTx(pins))
ReadBackplane == Begin(None, SampleAd)

NextSlot ==
  /\ user = "Card" /\ script # <<>>
  /\ Commit
  /\ Presents(Head(script))
  /\ script' = Tail(script)
  /\ UNCHANGED <<user, task>>

\* Reset dominates the slot; nothing is driven or returned in it.
Reset ==
  /\ tx' = NewTx
  /\ slot' = Quiet
  /\ previous' = Unseen
  /\ task' = None
  /\ script' = <<>>
  /\ UNCHANGED user

Next == AnySlot \/ SendPins \/ ReadBackplane \/ NextSlot \/ Reset

Spec == Init /\ [][Next]_vars

-----------------------------------------------------------------------------
(* Properties.                                                              *)

\* The transceiver has its type.
TypeOK == tx \in Tx /\ (tx.lowRead => tx.sample # None)

(* The word that can be driven changes only into the two halves of two adjacent slots:
   no interruption, direction change or malformed token leaves a mixture of two words. *)
NoTornWord ==
  [][(tx'.word # tx.word /\ tx'.word # None) =>
       /\ previous.direction = "QicToTx" /\ previous.kind = "DataLo"
       /\ slot.direction = "QicToTx" /\ slot.token.kind = "DataHi"
       /\ tx'.word = <<previous.half, slot.token.half>>]_vars

(* A high half read from the backplane belongs to the low half read in the slot before,
   though the backplane has changed since. *)
ReadIsCoherent ==
  (slot.token.kind = "DataHi" /\ Received(tx, slot) # None) =>
    /\ previous.direction = "TxToQic" /\ previous.kind = "DataLo"
    /\ Received(tx, slot) = previous.word[2]

(* AD, PAR and control begin to be driven only in a slot after an idle one. *)
DriveAfterIdle ==
  (EffectiveDrive(tx, slot) /\ ~previous.on) => previous.kind = "Idle"

(* The card programs' slots are legal in every state they can be in: no fault is raised
   (their assertions), and the pins the card wanted are the pins driven, no more. *)
CardIsTransparent ==
  user = "Card" =>
    /\ ~Faulty(tx, slot)
    /\ Driven(tx, slot) = IF script = <<>> /\ task # None THEN task ELSE Nothing
=============================================================================
