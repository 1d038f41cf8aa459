------------------------------- MODULE QliDevice -------------------------------
(***************************************************************************)
(* A device behind QLI: the register side is NakedDevice                   *)
(* (hardware/naked-card/rust), the DMA and notification side is the device *)
(* the QIC's tests use (ScriptDevice, hardware/qic/rust/tests/manager.rs). *)
(* What such a device may do in a clock (stall, answer, ask for more work) *)
(* is its "choice".                                                        *)
(*                                                                         *)
(* The device is the record [mmio, dma, notification]:                     *)
(*   mmio           the accepted register access and its answer, or None   *)
(*   dma            [request, active, moved]: the request it offers or the *)
(*                  burst it takes part in, and the words moved; or None   *)
(*   notification   the channel it wants to notify, or None                *)
(* A word's value is the parity of its place in the burst, so that a word  *)
(* lost, repeated or out of order shows.                                   *)
(***************************************************************************)
EXTENDS Naturals

CONSTANTS None

NewDevice == [mmio |-> None, dma |-> None, notification |-> None]

\* The word at place n of a burst.
WordAt(n) == n % 2

Active(dev) == dev.dma # None /\ dev.dma.active

Response(mmio) ==
  CASE mmio.answer = "Ok"    -> IF mmio.op.write THEN "WriteOk" ELSE "ReadOk"
    [] mmio.answer = "Error" -> "Error"
    [] OTHER                 -> None

\* choice.stalls: the DMA side neither takes nor gives anything in this clock.
Drive(dev, choice) ==
  LET moving == Active(dev) /\ ~choice.stalls IN
  [mmioReady       |-> dev.mmio = None,
   response        |-> IF dev.mmio = None THEN None ELSE Response(dev.mmio),
   dma             |-> IF dev.dma # None /\ ~dev.dma.active THEN dev.dma.request ELSE None,
   readReady       |-> moving,
   write           |-> IF /\ moving /\ dev.dma.request.direction = "DeviceToHost"
                          /\ dev.dma.moved < dev.dma.request.words
                       THEN WordAt(dev.dma.moved) ELSE None,
   completionReady |-> moving,
   notification    |-> dev.notification]

\* choice.answer: the answer that has become available, or None.
Mmio(dev, qli, choice) ==
  LET kept == IF dev.mmio # None /\ qli.responseReady /\ dev.mmio.answer # None
              THEN None ELSE dev.mmio IN
  IF qli.cancel THEN None
  ELSE IF kept = None
  THEN IF qli.mmio # None THEN [op |-> qli.mmio, answer |-> choice.answer] ELSE None
  ELSE IF kept.answer = None THEN [kept EXCEPT !.answer = choice.answer] ELSE kept

Dma(dev, drive, qli) ==
  LET d == dev.dma
      moved == \/ drive.write # None /\ qli.writeReady
               \/ drive.readReady /\ qli.read # None
  IN  IF d = None THEN None
      ELSE IF ~d.active THEN [d EXCEPT !.active = qli.dmaReady]
      ELSE IF drive.completionReady /\ qli.completion # None THEN None
      ELSE IF moved THEN [d EXCEPT !.moved = @ + 1]
      ELSE d

Notification(dev, qli) == IF qli.notified THEN None ELSE dev.notification

\* One clock, given what the device drove and what the QIC drove.
Clock(dev, drive, qli, choice) ==
  [mmio         |-> Mmio(dev, qli, choice),
   dma          |-> Dma(dev, drive, qli),
   notification |-> Notification(dev, qli)]

\* The device has new work for the bus.
WantsDma(dev, request) ==
  [dev EXCEPT !.dma = [request |-> request, active |-> FALSE, moved |-> 0]]
WantsNotification(dev, channel) == [dev EXCEPT !.notification = channel]
=============================================================================
