--------------------------------- MODULE QliLink ---------------------------------
(***************************************************************************)
(* The QLI-16 link between the QIC and the device (hardware/qli16/rust):   *)
(* LinkCodec carries the QLI signals as messages of 16-bit tokens over one *)
(* half-duplex set of wires, two slots a clock, with an idle slot whenever *)
(* the direction turns.  A handshake takes place, on both sides at once,   *)
(* in the slot that moves the last token of its message.                   *)
(*                                                                         *)
(* A message is [tag, body, left]: left is the number of its tokens still  *)
(* to be moved.  The codec is the record                                   *)
(*   q2d, d2q   the message begun in either direction, or None             *)
(*   last       the direction of the last slot, or None if it was idle     *)
(*   held       the device's notification the QIC is busy with, or None    *)
(*   done       the notification whose completion is to be sent, or None   *)
(*   fault      the sticky protocol_fault                                  *)
(***************************************************************************)
EXTENDS Naturals

CONSTANTS None

NewLink == [q2d |-> None, d2q |-> None, last |-> None, held |-> None, done |-> None,
            fault |-> FALSE]

\* The signals with nothing asserted: DeviceToQic and QicToDevice.
NoDevice ==
  [mmioReady |-> FALSE, readReady |-> FALSE, completionReady |-> FALSE, response |-> None,
   dma |-> None, write |-> None, notification |-> None]
NoQic ==
  [reset |-> FALSE, cancel |-> FALSE, mmio |-> None, responseReady |-> FALSE,
   dmaReady |-> FALSE, read |-> None, writeReady |-> FALSE, completion |-> None,
   notified |-> FALSE]

Message(tag, body, tokens) == [tag |-> tag, body |-> body, left |-> tokens]

RequestTokens(op)      == IF op.write THEN 4 ELSE 2
ResponseTokens(answer) == IF answer.kind = "ReadOk" THEN 3 ELSE 1
DmaRequestTokens == 3
WordTokens       == 2

-----------------------------------------------------------------------------
(* Beginning a message.                                                     *)

ToDeviceMessage(l, qic) ==
  IF qic.cancel THEN Message("MmioCancel", None, 1)
  ELSE IF qic.mmio # None THEN Message("MmioRequest", qic.mmio, RequestTokens(qic.mmio))
  ELSE IF qic.read # None THEN Message("DmaRead", qic.read, WordTokens)
  ELSE IF qic.completion # None THEN Message("DmaCompletion", qic.completion, 1)
  ELSE IF l.done # None THEN Message("NotificationCompletion", l.done, 1)
  ELSE None

\* A DMA request or word the QIC cannot take stays off the wire, and holds back what
\* comes after it in priority.
ToQicMessage(l, qic, dev) ==
  IF dev.response # None THEN Message("MmioResponse", dev.response, ResponseTokens(dev.response))
  ELSE IF dev.dma # None
  THEN IF qic.dmaReady THEN Message("DmaRequest", dev.dma, DmaRequestTokens) ELSE None
  ELSE IF dev.write # None
  THEN IF qic.writeReady THEN Message("DmaWrite", dev.write, WordTokens) ELSE None
  ELSE IF l.held = None /\ l.done = None /\ dev.notification # None
  THEN Message("NotificationRequest", dev.notification, 1)
  ELSE None

Begin(l, qic, dev) ==
  [l EXCEPT !.q2d = IF @ = None THEN ToDeviceMessage(l, qic) ELSE @,
            !.d2q = IF @ = None THEN ToQicMessage(l, qic, dev) ELSE @]

-----------------------------------------------------------------------------
(* One slot.  A clock in progress is [link, toQic, toDevice].               *)

\* The last token of a message waits for the receiver.
DeviceTakes(tag, dev) ==
  CASE tag = "MmioRequest"   -> dev.mmioReady
    [] tag = "DmaRead"       -> dev.readReady
    [] tag = "DmaCompletion" -> dev.completionReady
    [] OTHER                 -> TRUE

QicTakes(tag, qic) ==
  CASE tag = "MmioResponse" -> qic.responseReady
    [] tag = "DmaRequest"   -> qic.dmaReady
    [] tag = "DmaWrite"     -> qic.writeReady
    [] OTHER                -> TRUE

DeliverToDevice(c) ==
  LET m == c.link.q2d
      sent == [c EXCEPT !.link.q2d = None] IN
  CASE m.tag = "MmioRequest"   -> [sent EXCEPT !.toDevice.mmio = m.body, !.toQic.mmioReady = TRUE]
    [] m.tag = "MmioCancel"    -> [sent EXCEPT !.toDevice.cancel = TRUE]
    [] m.tag = "DmaRead"       -> [sent EXCEPT !.toDevice.read = m.body, !.toQic.readReady = TRUE]
    [] m.tag = "DmaCompletion" ->
         [sent EXCEPT !.toDevice.completion = m.body, !.toQic.completionReady = TRUE]
    [] m.tag = "NotificationCompletion" ->
         IF c.link.done = m.body
         THEN [sent EXCEPT !.toDevice.notified = TRUE, !.link.done = None]
         ELSE [sent EXCEPT !.toDevice.notified = TRUE, !.link.fault = TRUE]

DeliverToQic(c) ==
  LET m == c.link.d2q
      sent == [c EXCEPT !.link.d2q = None] IN
  CASE m.tag = "MmioResponse" ->
         [sent EXCEPT !.toQic.response = m.body, !.toDevice.responseReady = TRUE]
    [] m.tag = "DmaRequest" -> [sent EXCEPT !.toQic.dma = m.body, !.toDevice.dmaReady = TRUE]
    [] m.tag = "DmaWrite"   -> [sent EXCEPT !.toQic.write = m.body, !.toDevice.writeReady = TRUE]
    [] m.tag = "NotificationRequest" ->
         IF c.link.held = None
         THEN [sent EXCEPT !.link.held = m.body, !.toQic.notification = m.body]
         ELSE [sent EXCEPT !.link.fault = @ \/ c.link.held # m.body]

\* The link keeps its direction while it has a message to move that way.
Direction(l) ==
  IF l.last = "DeviceToQic" /\ l.d2q # None THEN "DeviceToQic"
  ELSE IF l.q2d # None THEN "QicToDevice"
  ELSE IF l.d2q # None THEN "DeviceToQic"
  ELSE None

MoveToDevice(c, dev) ==
  IF c.link.q2d.left > 1 THEN [c EXCEPT !.link.q2d.left = @ - 1]
  ELSE IF DeviceTakes(c.link.q2d.tag, dev) THEN DeliverToDevice(c)
  ELSE c

MoveToQic(c, qic) ==
  IF c.link.d2q.left > 1 THEN [c EXCEPT !.link.d2q.left = @ - 1]
  ELSE IF QicTakes(c.link.d2q.tag, qic) THEN DeliverToQic(c)
  ELSE c

Slot(c, qic, dev) ==
  LET direction == Direction(c.link)
      turned == [c EXCEPT !.link.last = direction] IN
  IF direction = None \/ c.link.last \notin {None, direction}
  THEN [c EXCEPT !.link.last = None]
  ELSE IF direction = "QicToDevice" THEN MoveToDevice(turned, dev)
  ELSE MoveToQic(turned, qic)

-----------------------------------------------------------------------------
(* One clock: the two slots, after the QIC's word on the notification it has. *)

\* Mutant: the notification the QIC has completed is offered to it again.
NotifiedForgets(l, qic) ==
  IF l.held # None /\ qic.notified THEN [l EXCEPT !.done = l.held] ELSE l

Notified(l, qic) ==
  IF l.held # None /\ qic.notified THEN [l EXCEPT !.done = l.held, !.held = None] ELSE l

Cycle(l, reset, qic, dev) ==
  LET begun == Begin(Notified(l, qic), qic, dev)
      start == [link |-> begun, toQic |-> [NoDevice EXCEPT !.notification = begun.held],
                toDevice |-> NoQic] IN
  IF reset THEN [link |-> NewLink, toQic |-> NoDevice, toDevice |-> [NoQic EXCEPT !.reset = TRUE]]
  ELSE Slot(Slot(start, qic, dev), qic, dev)
=============================================================================
