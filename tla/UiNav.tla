------------------------------- MODULE UiNav -------------------------------
(***************************************************************************)
(* The screens of the remote: components/ui/ui_nav.c, ui_screens.c and the *)
(* handlers under screens/.                                                *)
(*                                                                         *)
(* One UI task handles one key, then all application events, then a tick.  *)
(* Every handler is one action.  Cursor positions and entered names are    *)
(* abstracted: OK acts on any row the cursor can reach.  The Bluetooth     *)
(* worker (BtWorker) and the infrared worker (IrLearn) appear as what they *)
(* may tell this task.                                                     *)
(***************************************************************************)
EXTENDS Naturals, Sequences

CONSTANTS
    StackMax,       \* UI_STACK_MAX
    MaxRemotes,     \* MAX_REMOTES
    EventMax,       \* length of the application event queue
    ForgetMax,      \* forget messages in the worker's queue
    Ids,            \* session and request numbers
    NoId,           \* 0, which is never one
    Starts          \* the remotes that may be stored at power-up

(* "keyed" is a keyboard whose keys the user chooses, "fixed" a mouse or a *)
(* keyboard with a preset.                                                 *)
BtKinds == {"fixed", "keyed"}
Remote == [kind : {"ir", "wifi"} \cup BtKinds, bonded : BOOLEAN]
Blank == [kind |-> "ir", bonded |-> FALSE]

Screens == {"SPLASH", "HOME", "SETTINGS", "ABOUT", "STORAGE", "REMOTE", "EDIT", "ADD_TYPE",
            "BT_TYPE", "BT_DEVICE", "BT_CONFIRM", "BT_KEYS", "BT_PRESET", "BT_BINDING",
            "BT_TEXT", "BT_SPEED", "NAME", "ICON", "IR_KEYS", "IR_REPLACE", "IR_WAIT",
            "IR_RESULT", "REMOVE", "CONSTRUCTION"}
Inputs == {"ok", "back", "back_long", "mode", "home", "home_long", "key"}

ASSUME UiAssumption ==
    /\ StackMax \in Nat /\ StackMax > 7
    /\ MaxRemotes \in Nat \ {0} /\ EventMax \in Nat \ {0}
    /\ ForgetMax \in Nat \ {0}
    /\ NoId \notin Ids
    /\ Starts \subseteq Seq(Remote)
    /\ \A list \in Starts : Len(list) <= MaxRemotes

VARIABLES
    remotes,    \* the application model; remotes[i] has index i - 1 in the code
    ui,         \* ui_ctx_t
    wanted,     \* s_desired_session, which only this task writes
    worker,     \* the Bluetooth worker: what it shows of `wanted`, queued forgets
    events,     \* the application event queue
    held        \* history: the stack when BACK went down on a recording screen
vars == <<remotes, ui, wanted, worker, events, held>>

Peer(session, bonded) == [type |-> "peer", id |-> session, bonded |-> bonded]
Result(type, request) == [type |-> type, id |-> request, bonded |-> FALSE]
(* A timeout is handled like a failure; an unsupported code changes nothing. *)
Results == {"learned", "failed"}
(* What matters of the state the worker shows.                             *)
States == {"other", "error"}

UiType ==
    [stack : Seq(Screens),
     back : Nat,                \* back_target_top + 1: the length to return to, 0 for none
     active : Nat,              \* active_remote + 1
     editing : BOOLEAN, draft : Remote,
     session : Ids \cup {NoId}, pending : BOOLEAN,
     status : States,           \* bt_status; "other" when no session is open
     request : Ids \cup {NoId},
     failed : BOOLEAN]          \* the recording failed, or its code was not saved; see Leave

TypeOK ==
    /\ remotes \in Seq(Remote)
    /\ ui \in UiType
    /\ wanted \in Ids \cup {NoId}
    /\ worker \in [state : States, forgets : 0..ForgetMax]
    /\ events \in Seq([type : {"peer"} \cup Results, id : Ids, bonded : BOOLEAN])
    /\ held \in Seq(Screens)

(* The counter `sequence` gives numbers that nobody uses.                  *)
Fresh == Ids \ ({ui.session, ui.request, wanted} \cup {events[i].id : i \in DOMAIN events})

Top == ui.stack[Len(ui.stack)]
Listed == ui.active \in DOMAIN remotes      \* app_remote_get(active_remote) succeeds
Active == remotes[ui.active]

-----------------------------------------------------------------------------
(* The stack.  Leaving a screen runs screen_exit.                          *)

Push(u, screen) ==
    IF Len(u.stack) < StackMax THEN [u EXCEPT !.stack = Append(@, screen)] ELSE u

(* The screens above the first n are left, from the top down.              *)
Gone(u, n) == {u.stack[i] : i \in (n + 1)..Len(u.stack)}
\* variant: an open session is forgotten about, not closed
LeaveKeepsSession(u, n) ==
    [u EXCEPT !.stack = SubSeq(@, 1, n),
              !.request = IF "IR_WAIT" \in Gone(u, n) THEN NoId ELSE @]
(* Bluetooth's status and the recorder's are not read after these screens. *)
Leave(u, n) ==
    LET menu == "BT_DEVICE" \in Gone(u, n) /\ u.session # NoId IN
    [u EXCEPT !.stack = SubSeq(@, 1, n),
              !.request = IF "IR_WAIT" \in Gone(u, n) THEN NoId ELSE @,
              !.session = IF menu THEN NoId ELSE @,
              !.pending = @ /\ ~menu,
              !.status = IF menu THEN "other" ELSE @,
              !.failed = @ /\ Gone(u, n) \cap {"IR_WAIT", "IR_RESULT"} = {}]

Pop(u) == IF Len(u.stack) > 1 THEN Leave(u, Len(u.stack) - 1) ELSE u
Replace(u, screen) == LET left == Leave(u, Len(u.stack) - 1) IN
    [left EXCEPT !.stack = Append(@, screen)]
\* variant: home is pushed on the screens that are there
HomeOnTop(u) == Push([u EXCEPT !.editing = FALSE, !.draft = Blank], "HOME")
Home(u) == Push([Leave(u, 0) EXCEPT !.editing = FALSE, !.draft = Blank], "HOME")

(* The end of a handler that opens no session; bt_runtime_close if one has *)
(* been left.                                                              *)
NoService == [state |-> "other", forgets |-> 0]
Show(u) ==
    /\ ui' = u
    /\ IF u.session = NoId /\ ui.session # NoId THEN wanted' = NoId /\ worker' = NoService
       ELSE UNCHANGED <<wanted, worker>>
Move(u) == Show(u) /\ UNCHANGED remotes

-----------------------------------------------------------------------------
(* ui_nav_dispatch: what happens to a key before the screen sees it.       *)

Picker == Top = "BT_KEYS" /\ Listed /\ Active.kind = "keyed"
Learning == Picker \/ Top \in {"IR_KEYS", "IR_REPLACE", "IR_WAIT", "IR_RESULT"}
Details == Learning /\ Top # "IR_KEYS" /\ ~Picker
Exits(e) ==
    /\ Top \notin {"SPLASH", "REMOTE"}
    /\ e = "home_long" \/ (e = "home" /\ Top # "IR_KEYS" /\ ~Picker)
Returns(e) ==
    e = "back_long" /\ (Learning \/ Top \in {"BT_BINDING", "BT_TEXT"}) /\ ui.back > 0

\* variant: the screen itself, not its parent
NotedHere(e) ==
    IF e = "back" THEN [ui EXCEPT !.back = IF Learning THEN Len(ui.stack) ELSE 0] ELSE ui
(* A press of BACK notes where a hold of it will lead.                     *)
Noted(e) ==
    IF e = "back" THEN [ui EXCEPT !.back = IF Learning THEN Len(ui.stack) - 1 ELSE 0] ELSE ui

Key(e) ==
    /\ held' = IF e = "back" /\ Learning THEN ui.stack ELSE << >>
    /\ UNCHANGED events
(* The key reaches the handler of the screen.                              *)
On(screen, e) ==
    /\ Top = screen
    /\ ~Exits(e) /\ ~Returns(e) /\ ~(e = "back" /\ Details)
    /\ Key(e)

GoHome(e) == Exits(e) /\ ~Returns(e) /\ Key(e) /\ Move(Home(Noted(e)))

(* The press may have opened a recording, which is left too.               *)
BackHeld ==
    /\ Returns("back_long") /\ Key("back_long")
    /\ Move([(IF Len(ui.stack) > ui.back THEN Leave(ui, ui.back) ELSE ui) EXCEPT !.back = 0])

(* On the recording screens a press of BACK only waits for the hold.       *)
BackWaits == (Details \/ Top \in {"SPLASH", "HOME"}) /\ Key("back") /\ Move(Noted("back"))

(* BACK leaves the screens that have no other use for it.                  *)
BackPops ==
    /\ \/ Top \in {"SETTINGS", "ABOUT", "STORAGE", "EDIT", "ADD_TYPE", "BT_TYPE", "BT_CONFIRM",
                   "BT_PRESET", "BT_BINDING", "BT_TEXT", "BT_SPEED", "NAME", "ICON", "REMOVE"}
       \/ Listed /\ (Top = "BT_DEVICE" \/ (Top = "BT_KEYS" /\ ~Picker))
    /\ On(Top, "back") /\ Move(Pop(Noted("back")))

-----------------------------------------------------------------------------
(* The home screen, the settings and Remote mode.                          *)

Splash == Top = "SPLASH" /\ Move(Replace(ui, "HOME")) /\ UNCHANGED <<events, held>>

(* ui_open_bt: a session number nobody uses, unless the bond store cannot  *)
(* be saved or the worker's queue is full.                                 *)
OpensBt(u, next) ==
    \/ Show(u)
    \/ \E id \in Fresh :
          /\ ui' = [next EXCEPT !.session = id, !.status = "other", !.pending = FALSE]
          /\ wanted' = id /\ worker' = NoService

HomeSettings == On("HOME", "key") /\ Move(Push(ui, "SETTINGS"))
\* variant: the editor is not told
HomeAddsEditing ==
    /\ On("HOME", "ok") /\ Len(remotes) < MaxRemotes
    /\ Move(Push([ui EXCEPT !.draft = Blank], "ADD_TYPE"))
HomeAdds ==
    /\ On("HOME", "ok") /\ Len(remotes) < MaxRemotes
    /\ Move(Push([ui EXCEPT !.draft = Blank, !.editing = FALSE], "ADD_TYPE"))
HomeUses(i) ==
    /\ On("HOME", "mode") /\ remotes[i].kind = "ir"
    /\ Move(Push([ui EXCEPT !.active = i], "REMOTE"))
HomeOpens(i) ==
    /\ On("HOME", "ok")
    /\ LET u == [ui EXCEPT !.active = i] IN
       IF remotes[i].kind \in BtKinds THEN OpensBt(u, Push(u, "BT_DEVICE"))
       ELSE Show(Push(u, "EDIT"))
    /\ UNCHANGED remotes

Settings == On("SETTINGS", "ok") /\ \E page \in {"ABOUT", "STORAGE"} : Move(Push(ui, page))

(* MODE in Remote mode goes back; every other key belongs to the appliance. *)
RemoteMode(e) == On("REMOTE", e) /\ Move(IF e = "mode" THEN Pop(ui) ELSE Noted(e))

-----------------------------------------------------------------------------
(* The editor.                                                             *)

EditUses ==
    /\ On("EDIT", "mode")
    /\ Listed /\ (Active.kind = "ir" \/ (Active.kind \in BtKinds /\ ui.session # NoId))
    /\ Move(Push(ui, "REMOTE"))
Edit ==
    /\ On("EDIT", "ok") /\ Listed
    /\ LET setup == IF Active.kind = "ir" THEN "IR_KEYS"
                    ELSE IF Active.kind \in BtKinds THEN "BT_KEYS" ELSE "CONSTRUCTION"
       IN \E screen \in {setup, "NAME", "ICON", "REMOVE"} :
             Move(Push([ui EXCEPT !.draft = Active, !.editing = TRUE], screen))

Construction(e) == e \in {"ok", "back"} /\ On("CONSTRUCTION", e) /\ Move(Home(Noted(e)))

\* variant: the remote is saved as it was when the editor opened
EditedStale == ui.draft
(* The editor saves its draft with the pairing of the stored remote.       *)
Edited ==
    IF ui.draft.kind \in BtKinds /\ Listed THEN [ui.draft EXCEPT !.bonded = Active.bonded]
    ELSE ui.draft
(* name_next and ui_icon_handle while editing: save, or stay.              *)
EditSaves ==
    /\ \E screen \in {"NAME", "ICON"} : On(screen, "ok")
    /\ ui.editing
    /\ LET u == [ui EXCEPT !.draft = Edited] IN
       \/ Listed /\ remotes' = [remotes EXCEPT ![ui.active] = Edited] /\ Show(Pop(u))
       \/ Move(u)

Without(list, i) == SubSeq(list, 1, i - 1) \o SubSeq(list, i + 1, Len(list))

(* A remote whose peer the worker has to forget before it is removed.      *)
Unpairs == Listed /\ Active.kind \in BtKinds /\ ui.session # NoId
\* variant: the session is not asked to unpair first
RemoveAtOnce ==
    /\ On("REMOVE", "ok") /\ Listed
    /\ remotes' = Without(remotes, ui.active) /\ Show(Home(ui))
Remove ==
    /\ On("REMOVE", "ok") /\ ~Unpairs /\ Listed
    /\ remotes' = Without(remotes, ui.active) /\ Show(Home(ui))
RemoveForgets ==
    /\ On("REMOVE", "ok") /\ Unpairs
    /\ ~ui.pending /\ worker.forgets < ForgetMax
    /\ ui' = [ui EXCEPT !.pending = TRUE]
    /\ worker' = [worker EXCEPT !.forgets = @ + 1]
    /\ UNCHANGED <<remotes, wanted>>
RemoveCancelled == On("REMOVE", "ok") /\ Move(Pop(ui))

-----------------------------------------------------------------------------
(* The wizard for a new remote.                                            *)

AddType ==
    /\ On("ADD_TYPE", "ok")
    /\ \/ \E kind \in {"ir", "wifi"} : Move(Push([ui EXCEPT !.draft.kind = kind], "NAME"))
       \/ Move(Push(ui, "BT_TYPE"))
BtType == On("BT_TYPE", "ok") /\ Move(Push([ui EXCEPT !.draft.kind = "fixed"], "NAME"))
NameNext == On("NAME", "ok") /\ ~ui.editing /\ Move(Push(ui, "ICON"))
IconNext ==
    /\ On("ICON", "ok") /\ ~ui.editing /\ ui.draft.kind \in BtKinds
    /\ Move(Push(ui, "BT_PRESET"))

(* create_remote: saved, or the wizard stays; a keyboard whose keys are to *)
(* be chosen opens on them.                                                *)
create_remote(draft) ==
    \/ /\ Len(remotes) < MaxRemotes
       /\ remotes' = Append(remotes, draft)
       /\ LET home == [Home(ui) EXCEPT !.active = Len(remotes) + 1]
              device == Push(home, "BT_DEVICE")
          IN IF draft.kind \in BtKinds
             THEN OpensBt(home, IF draft.kind = "keyed" THEN Push(device, "BT_KEYS") ELSE device)
             ELSE Show(Push(home, IF draft.kind = "ir" THEN "IR_KEYS" ELSE "CONSTRUCTION"))
    \/ Move([ui EXCEPT !.draft = draft])
IconCreates ==
    /\ On("ICON", "ok") /\ ~ui.editing /\ ui.draft.kind \notin BtKinds
    /\ create_remote(ui.draft)
PresetCreates ==
    /\ On("BT_PRESET", "ok")
    /\ \E kind \in BtKinds : create_remote([ui.draft EXCEPT !.kind = kind])

-----------------------------------------------------------------------------
(* The Bluetooth menu.                                                     *)

BtUses == On("BT_DEVICE", "mode") /\ Listed /\ Move(Push(ui, "REMOTE"))
BtReconnects == On("BT_DEVICE", "ok") /\ Listed /\ OpensBt(ui, ui) /\ UNCHANGED remotes
BtMenu ==
    /\ On("BT_DEVICE", "ok") /\ Listed
    /\ \E screen \in {"BT_CONFIRM", "BT_KEYS", "EDIT"}
                     \cup (IF Active.kind = "fixed" THEN {"BT_SPEED"} ELSE {}) :
          Move(Push(ui, screen))
(* Pair new and Unpair, or Cancel.                                         *)
BtConfirm ==
    /\ On("BT_CONFIRM", "ok")
    /\ ui' = Pop(ui)
    /\ \/ worker.forgets < ForgetMax /\ worker' = [worker EXCEPT !.forgets = @ + 1]
       \/ worker' = worker
    /\ UNCHANGED <<remotes, wanted>>
(* Mouse speed, binding and text have been saved.                          *)
BtSaves == (\E screen \in {"BT_SPEED", "BT_BINDING", "BT_TEXT"} : On(screen, "ok")) /\ Move(Pop(ui))
PickerDone == On("BT_KEYS", "mode") /\ Picker /\ Move(Pop(ui))
PickerPicks(e) ==
    /\ e \in {"ok", "back", "home", "key"} /\ On("BT_KEYS", e) /\ Picker
    /\ \E screen \in {"BT_TEXT", "BT_BINDING"} : Move(Push(Noted(e), screen))

-----------------------------------------------------------------------------
(* Recording infrared keys.                                                *)

(* ui_learn_start: the command queue may be full.                          *)
Learns(u) ==
    /\ \/ \E id \in Fresh : ui' = [u EXCEPT !.request = id, !.failed = FALSE]
       \/ ui' = [u EXCEPT !.request = NoId, !.failed = TRUE]
    /\ UNCHANGED <<remotes, wanted, worker>>
(* A key that has a code asks first.                                       *)
IrKey(e) ==
    /\ e \in {"ok", "back", "home", "key"} /\ On("IR_KEYS", e) /\ Listed
    /\ Move(Push(Noted(e), "IR_REPLACE")) \/ Learns(Push(Noted(e), "IR_WAIT"))
IrReplace == On("IR_REPLACE", "ok") /\ Learns(Replace(ui, "IR_WAIT"))
IrRetry == On("IR_WAIT", "ok") /\ ui.failed /\ Learns(ui)
IrResult ==
    /\ On("IR_RESULT", "ok")
    /\ Move(IF ui.failed THEN [ui EXCEPT !.failed = FALSE] ELSE Pop(ui))

-----------------------------------------------------------------------------
(* Application events and the tick.                                        *)

Handles == events # << >> /\ events' = Tail(events) /\ UNCHANGED held
Event == Head(events)
(* The event is about the session or the recording on the screen.          *)
Current ==
    IF Event.type = "peer"
    THEN IF ui.session = Event.id /\ Listed THEN Active.kind \in BtKinds ELSE FALSE
    ELSE Event.id = ui.request /\ Top = "IR_WAIT"

StaleEvent == Handles /\ ~Current /\ UNCHANGED <<remotes, ui, wanted, worker>>

(* bt_runtime_peer_saved closes the session when the worker's queue is full. *)
TellsWorker ==
    \/ UNCHANGED <<wanted, worker>>
    \/ wanted' = NoId /\ worker' = NoService

(* APP_EVT_BT_PEER: the profile is saved.  A remote whose removal waits    *)
(* for its peer to be forgotten is removed.                                *)
PeerSaved ==
    /\ Handles /\ Current /\ Event.type = "peer"
    /\ LET saved == [remotes EXCEPT ![ui.active].bonded = Event.bonded]
           ends == ~Event.bonded /\ ui.pending
       IN \/ ends /\ remotes' = Without(saved, ui.active) /\ Show(Home(ui))
          \/ remotes' = saved /\ ui' = [ui EXCEPT !.pending = @ /\ ~ends] /\ TellsWorker
PeerNotSaved ==
    /\ Handles /\ Current /\ Event.type = "peer"
    /\ ui' = [ui EXCEPT !.pending = FALSE] /\ TellsWorker /\ UNCHANGED remotes

(* The code is saved under its key, or OK saves it again.                  *)
Learned ==
    /\ Handles /\ Current /\ Event.type # "peer"
    /\ IF Event.type = "failed" THEN ui' = [ui EXCEPT !.request = NoId, !.failed = TRUE]
       ELSE \E failed \in BOOLEAN :
               ui' = [Replace(ui, "IR_RESULT") EXCEPT !.request = NoId, !.failed = failed]
    /\ UNCHANGED <<remotes, wanted, worker>>

(* The tick samples what the worker shows of this session.                 *)
Sampled ==
    /\ ui.session # NoId /\ worker.state # ui.status
    /\ ui' = [ui EXCEPT !.status = worker.state, !.pending = @ /\ worker.state # "error"]
    /\ UNCHANGED <<remotes, wanted, worker, events, held>>

-----------------------------------------------------------------------------
(* The workers, as far as this task can tell.                              *)

Posted(event) == events' \in {events} \cup {q \in {Append(events, event)} : Len(q) <= EventMax}
Theirs == UNCHANGED <<remotes, ui, wanted, held>>

(* After an error the worker rests until it is asked for something.        *)
BtFails ==
    /\ wanted # NoId /\ worker.state # "error"
    /\ worker' = [worker EXCEPT !.state = "error"]
    /\ Theirs /\ UNCHANGED events
BtPairs ==
    /\ wanted # NoId /\ worker.state # "error"
    /\ Posted(Peer(wanted, TRUE))
    /\ Theirs /\ UNCHANGED worker
BtForgets ==
    /\ wanted # NoId /\ worker.forgets > 0
    /\ worker' = [worker EXCEPT !.forgets = @ - 1, !.state = "other"]
    /\ Posted(Peer(wanted, FALSE))
    /\ Theirs
BtForgetFails ==
    /\ wanted # NoId /\ worker.forgets > 0
    /\ worker' = [worker EXCEPT !.forgets = @ - 1, !.state = "error"]
    /\ Theirs /\ UNCHANGED events
IrAnswers(type) ==
    /\ ui.request # NoId
    /\ Posted(Result(type, ui.request))
    /\ Theirs /\ UNCHANGED worker

Init ==
    /\ remotes \in Starts
    /\ ui = [stack |-> <<"SPLASH">>, back |-> 0, active |-> 1, editing |-> FALSE, draft |-> Blank,
             session |-> NoId, pending |-> FALSE, status |-> "other", request |-> NoId,
             failed |-> FALSE]
    /\ wanted = NoId /\ worker = NoService /\ events = << >> /\ held = << >>

Next ==
    \/ \E e \in Inputs :
          GoHome(e) \/ RemoteMode(e) \/ Construction(e) \/ PickerPicks(e) \/ IrKey(e)
    \/ BackHeld \/ BackWaits \/ BackPops
    \/ Splash \/ HomeSettings \/ HomeAdds \/ Settings
    \/ \E i \in DOMAIN remotes : HomeUses(i) \/ HomeOpens(i)
    \/ EditUses \/ Edit \/ EditSaves \/ Remove \/ RemoveForgets \/ RemoveCancelled
    \/ AddType \/ BtType \/ NameNext \/ IconNext \/ IconCreates \/ PresetCreates
    \/ BtUses \/ BtReconnects \/ BtMenu \/ BtConfirm \/ BtSaves \/ PickerDone
    \/ IrReplace \/ IrRetry \/ IrResult
    \/ StaleEvent \/ PeerSaved \/ PeerNotSaved \/ Learned \/ Sampled
    \/ BtFails \/ BtPairs \/ BtForgets \/ BtForgetFails
    \/ \E type \in Results : IrAnswers(type)

Spec == Init /\ [][Next]_vars
=============================================================================
