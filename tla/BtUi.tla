------------------------------- MODULE BtUi -------------------------------
(***************************************************************************)
(* The UI task as the runtime's client: the menu actions that call the     *)
(* bt_runtime_* API, and the peer events it answers after saving a profile.*)
(***************************************************************************)
EXTENDS BtState

Background == <<WorkerVars, link, ctl, ccc>>
UiIdle == ui.pc = "idle"
InSession == UiIdle /\ ui.session # 0
Send(m) == IF Room THEN Enqueue(m) ELSE UNCHANGED queue

\* ui_open_bt: an unbonded profile leaves the shared bond database, durably,
\* before the runtime sees it; then bt_runtime_open makes its session desired
UiOpen(p) ==
    /\ UiIdle
    /\ ui.session = 0 \/ ui.profile = p
    /\ IF nvm.legacy[p] /\ nvm.peer[p] = NoPeer THEN nvm' = [nvm EXCEPT !.legacy[p] = FALSE] ELSE UNCHANGED nvm
    /\ budget[p] > 0 /\ Spend("sessions")
    /\ ui' = [ui EXCEPT !.seq = @ + 1, !.profile = p, !.previous = desired, !.pc = "opening"]
    /\ desired' = ui.seq + 1
    /\ UNCHANGED <<Background, queue, evtq>>

\* a full queue gives the previous session back
UiOpenSend ==
    /\ ui.pc = "opening"
    /\ IF Room
       THEN /\ Enqueue([NoMessage EXCEPT !.type = "OPEN", !.session = ui.seq, !.remote = Saved(ui.profile)])
            /\ ui' = [ui EXCEPT !.session = ui.seq, !.pc = "idle"]
            /\ UNCHANGED desired
       ELSE /\ desired' = ui.previous
            /\ ui' = [ui EXCEPT !.pc = "idle"]
            /\ UNCHANGED queue
    /\ UNCHANGED <<Background, nvm, evtq, budget>>

\* leaving the device screen
UiClose ==
    /\ InSession
    /\ desired' = 0
    /\ Send([NoMessage EXCEPT !.type = "CLOSE"])
    /\ ui' = [ui EXCEPT !.session = 0]
    /\ UNCHANGED <<Background, nvm, evtq, budget>>

\* Unpair, or Pair new when flag is set
UiForget ==
    /\ InSession /\ Room
    /\ Spend("forgets")
    /\ \E flag \in BOOLEAN :
          Enqueue([NoMessage EXCEPT !.type = "FORGET", !.session = ui.session, !.flag = flag])
    /\ UNCHANGED <<Background, desired, nvm, ui, evtq>>

\* APP_EVT_BT_PEER: save the peer, then tell the worker how that went.  The
\* answer of a full queue is to close.
PeerEvent == Head(evtq)
UiPeerStale ==
    /\ UiIdle /\ evtq # <<>>
    /\ ui.session = 0 \/ PeerEvent.session # ui.session
    /\ evtq' = Tail(evtq)
    /\ UNCHANGED <<Background, desired, queue, nvm, ui, budget>>

UiPeer ==
    /\ InSession /\ evtq # <<>>
    /\ PeerEvent.session = ui.session
    /\ evtq' = Tail(evtq)
    /\ LET p == ui.profile
           legacy == nvm.legacy[p] /\ PeerEvent.peer # NoPeer
           Answer(ok) == [NoMessage EXCEPT !.type = "SAVED", !.session = ui.session, !.flag = ok,
                              !.remote = [id |-> p, peer |-> PeerEvent.peer, legacy |-> legacy]]
       IN \E ok \in BOOLEAN :
             /\ IF ok
                THEN nvm' = [nvm EXCEPT !.peer[p] = PeerEvent.peer, !.legacy[p] = legacy] /\ UNCHANGED budget
                ELSE UNCHANGED nvm /\ Fault("save")
             /\ Send(Answer(ok))
    /\ desired' = IF Room THEN desired ELSE 0
    /\ UNCHANGED <<Background, ui>>

\* Input while connected, and the release sent when the remote screen closes
UiTap ==
    /\ InSession /\ Room
    /\ snapshot.session = ui.session /\ snapshot.state \in {"CONNECTED", "SUSPENDED"}
    /\ desired = ui.session
    /\ Spend("inputs")
    /\ Enqueue([NoMessage EXCEPT !.type = "TAP", !.session = ui.session])
    /\ UNCHANGED <<Background, desired, nvm, ui, evtq>>

UiRelease ==
    /\ InSession /\ Room
    /\ Spend("inputs")
    /\ Enqueue([NoMessage EXCEPT !.type = "RELEASE", !.session = ui.session])
    /\ UNCHANGED <<Background, desired, nvm, ui, evtq>>

UiMenu == UiClose \/ UiForget \/ UiTap \/ UiRelease \/ \E p \in Profiles : UiOpen(p)
UiTurn == UiOpenSend \/ UiPeerStale \/ UiPeer
=============================================================================
