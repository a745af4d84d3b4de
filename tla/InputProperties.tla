-------------------------- MODULE InputProperties ---------------------------
(***************************************************************************)
(* What the keys promise: nothing moves, and nothing is down, without a    *)
(* reason the user can see.                                                *)
(***************************************************************************)
EXTENDS InputPath

KeypadTypeOK ==
    /\ pad \in PadType /\ clock \in 0..(Wrap - 1) /\ lost \subseteq EventKinds
    /\ uiQ \in Seq(UiEvent) /\ Len(uiQ) <= UiCap
InputTypeOK ==
    /\ KeypadTypeOK
    /\ profile \in Profiles /\ ui \in UiType /\ generation \in Nat
    /\ queue \in Seq(Message) /\ Len(queue) <= Cap /\ worker \in WorkerType /\ mouse \in Mouse
    /\ link \in [up : BOOLEAN, on : BOOLEAN] /\ host \subseteq Things /\ deaf \in BOOLEAN
    /\ taps \subseteq [press : Nat, long : BOOLEAN] /\ budget \in Nat

(* The state is well typed, and holds are timed: the scan decides that a   *)
(* key is held from a counter that wraps, and has said so exactly when the *)
(* key has been down that long, whatever the counter shows.                *)
HoldIsTimed == InputTypeOK /\ (pad.key # NoKey => (pad.long <=> pad.age >= LongPress))

(* "Move while held; release to stop" (docs/bluetooth-mouse.md 29): what   *)
(* moves as long as a key is held has that key down, or its release, or a  *)
(* cancellation, on its way - unless the keypad dropped the release. It is *)
(* not enough that the release was queued: a full queue, a lost link, a    *)
(* suspension or a subscription may each stop it on the way. A host that   *)
(* turns its notifications off and on twice around one press, faster than  *)
(* the worker reads its queue, breaks it: InputProofs says when it holds.  *)
FollowsKey == IsMouse /\ mouse.movement # None /\ (profile = "mapped" \/ mouse.momentary)
IsRelease(e, k) == e.kind = "release" /\ e.key = k
ReleaseOnItsWay(k) ==
    \/ \E i \in DOMAIN uiQ : IsRelease(uiQ[i], k)
    \/ \E i \in DOMAIN queue : queue[i].type = "MOUSE" /\ IsRelease(queue[i].input, k)
MovementHasFinger ==
    FollowsKey =>
        \/ pad.key = mouse.movement
        \/ ReleaseOnItsWay(mouse.movement)
        \/ worker.mouse_generation # generation
        \/ "release" \in lost

(* When the worker waits, the host believes of the buttons what the mouse  *)
(* does, and of a keyboard that no key is down: failed sends, releases in  *)
(* the middle of a click and lost links included. A host that stopped      *)
(* listening while something was down is not told.                         *)
HostAgrees ==
    worker.at = "receive" /\ link.up /\ worker.connected /\ worker.subscribed /\ ~deaf =>
        host = IF IsMouse THEN mouse.buttons ELSE {}

(* "Short power is sent on release; a hold sends only Ctrl+Alt+Del"        *)
(* (ui_remote.c 79): one press of the key never sends both.                *)
PowerSendsOne ==
    \A t \in taps : t.long => [t EXCEPT !.long = FALSE] \notin taps

(* "Reconnection starts idle; explicitly start movement and button hold    *)
(* again" (docs/bluetooth-mouse.md 85): no input accepted on one           *)
(* connection moves the pointer or presses a button on the next.           *)
ReconnectsIdle ==
    [][\/ mouse'.movement # None /\ mouse'.movement # mouse.movement
       \/ mouse'.buttons \ mouse.buttons # {}
       => Received.run = worker.run]_vars

(* "Hold a pattern key for at least 700 ms to run it until release"        *)
(* (docs/bluetooth-mouse.md 55): the release of a long press stops its     *)
(* pattern, even if the event of the hold was dropped.                     *)
LongPressStops ==
    [][TakeMouse /\ profile = "patterns" /\ Active(Received) =>
          LET e == Received.input
          IN  e.kind = "release" /\ e.age >= LongPress /\ lost \subseteq {"hold", "repeat"} =>
                  mouse'.movement # e.key]_vars

(* "Returning to the menu stops movement and releases buttons"             *)
(* (docs/bluetooth-mouse.md 81), although the message that says so may not *)
(* fit and the reports may fail.                                           *)
MenuIsStill ==
    ui.screen = "menu" ~>
        \/ ui.screen = "remote"
        \/ mouse.movement = None /\ (host = {} \/ deaf)
=============================================================================
