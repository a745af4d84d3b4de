-------------------------- MODULE UiNavProperties --------------------------
(***************************************************************************)
(* What navigation promises: to the radio, to the receiver, to the stored  *)
(* remotes and to the user.                                                *)
(***************************************************************************)
EXTENDS UiNav

OnStack(screen) == \E i \in DOMAIN ui.stack : ui.stack[i] = screen

(* The state is well typed, and the stack has room: ui_nav_push fails on a *)
(* full stack and no caller looks; whatever the user does, the screen a    *)
(* handler pushes fits.                                                    *)
PushesFit == TypeOK /\ Len(ui.stack) < StackMax

(* Bluetooth is on only under its menu, for the remote the screens show:   *)
(* every way out of the menu (BACK, a hold, HOME, a removal) closes the    *)
(* session, and no screen without a session can ask for a removal.         *)
BluetoothHasScreen ==
    /\ wanted # NoId => wanted = ui.session
    /\ ui.session # NoId <=> OnStack("BT_DEVICE")
    /\ ui.session # NoId => Listed /\ Active.kind \in BtKinds
    /\ ui.pending => ui.session # NoId

(* A recording is waited for only on the screen that shows it, for an      *)
(* infrared remote: "Late results can never attach to another key"         *)
(* (ui_ir.c 8).                                                            *)
RecordingHasScreen ==
    ui.request # NoId => Top = "IR_WAIT" /\ Listed /\ Active.kind = "ir"

(* Neither worker goes on behind a screen that was left, on any way out.   *)
WorkersHaveScreen == BluetoothHasScreen /\ RecordingHasScreen

(* One flag tells NAME and ICON whether they belong to the editor or to    *)
(* the wizard, and one draft serves both: the wizard never saves over a    *)
(* stored remote, and the editor saves the remote it was opened on.        *)
EditorHasRemote ==
    /\ OnStack("ADD_TYPE") => ~ui.editing
    /\ Top \in {"NAME", "ICON"} /\ ~OnStack("ADD_TYPE") =>
          ui.editing /\ Listed /\ ui.draft.kind = Active.kind

(* Pairing can finish while an editor is open: whether a stored remote is  *)
(* paired changes only when the worker says so.                            *)
PairingKept ==
    [][\A i \in DOMAIN remotes \cap DOMAIN remotes' :
          Len(remotes') >= Len(remotes) /\ remotes'[i].bonded # remotes[i].bonded =>
             /\ events # << >> /\ events' = Tail(events)
             /\ Event.type = "peer" /\ Event.bonded = remotes'[i].bonded]_vars

(* "Removing a BT remote also clears its pairing before deleting the       *)
(* profile" (docs/bluetooth.md 56): it goes only in the step that learns   *)
(* that its peer has been forgotten.                                       *)
ForgottenBeforeRemoved ==
    [][Len(remotes') < Len(remotes) /\ Active.kind \in BtKinds =>
          /\ events # << >> /\ events' = Tail(events)
          /\ Event.type = "peer" /\ ~Event.bonded /\ Event.id = ui.session]_vars

(* A hold of BACK ends on the parent of the screen where BACK went down,   *)
(* although the press, or a code that arrives during the hold, has moved   *)
(* on to another screen.                                                   *)
BackHoldReturns ==
    [][BackHeld /\ held # << >> =>
          ui'.stack = SubSeq(held, 1, Len(held) - 1)]_vars
=============================================================================
