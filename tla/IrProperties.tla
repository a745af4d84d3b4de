---------------------------- MODULE IrProperties ----------------------------
(***************************************************************************)
(* What infrared learning promises.                                        *)
(***************************************************************************)
EXTENDS IrLearn

\* The code stored for a key was received while that key was being recorded,
\* whatever was cancelled, retried or still queued before (docs/ui.md:131:
\* "late results are ignored and cannot be saved against another key";
\* ir_nec.c:193-201, ui_ir.c:3-9).
KeyGetsItsOwnCode == \A k \in Keys : saved[k] # NoCode => saved[k].key = k

\* A code that arrives is stored only if it was received for the very request
\* the screen waits for, not for an earlier one of the same key
\* (ui_screens.c:152-159).
FreshCapture ==
    [][\A k \in Keys : saved'[k] # saved[k] /\ ui.screen = "wait" => saved'[k].request = ui.request]_vars

\* The interrupt never fills the buffer while a frame in it waits to be decoded
\* (ir_nec.c:95-103, 224-236: one static buffer, shared with the driver).
BufferStable == rx.done > 0 => ~rx.armed

\* A recording that goes on hears the next frame: between two commands a
\* receive is in progress or a frame waits (ir_nec.c:230-236).
NeverDeaf == worker.learning /\ worker.pc = "command" => rx.armed \/ rx.done > 0

\* Once commands and events are drained and none was dropped, the worker listens
\* exactly for the request the screen waits for (docs/ui.md:130: "Leaving the
\* waiting screen cancels reception"; ir_nec.c:188-206, ui_ir.c:3-25).
Quiet == cmdQ = <<>> /\ evtQ = <<>> /\ worker.pc = "command"
ReceiverAgrees ==
    Quiet /\ ~lost => /\ worker.learning <=> ui.request # 0
                      /\ worker.learning => worker.learnId = ui.request

\* A wait for a code ends, by a code, a timeout, a failure or the user, unless
\* a full queue dropped a message (ir_nec.c:239-243).
WaitEnds == ui.request # 0 ~> ui.request = 0 \/ lost

\* The worker stops listening for an abandoned request even if the cancel was
\* dropped (ui_ir.c:7, ir_nec.c:239-243: the deadline).
Abandoned == worker.learning /\ worker.learnId # ui.request
ReceiverStops == Abandoned ~> ~Abandoned
=============================================================================
