----------------------------- MODULE InputPath ------------------------------
(***************************************************************************)
(* From a key to the host: the keypad, the remote screen of the UI task    *)
(* (ui_remote.c), the queue and the input generation it shares with the    *)
(* Bluetooth worker, the reports the worker sends (bt_runtime.c 566-634,   *)
(* bt_output.c, bt_mouse.c) and a host that can go, come back, suspend or  *)
(* turn its notifications off.                                             *)
(*                                                                         *)
(* One saved remote stays open: opening, closing and pairing are BtRuntime. *)
(* The messages of a connection (CONNECTED, AUTH, WRITE) are one, READY.   *)
(***************************************************************************)
EXTENDS MouseMachine

CONSTANTS
    Profiles,     \* which remotes are open: what their keys send
    Used,         \* bound: the keys pressed for each profile
    Cap,          \* worker queue length (32 in the code)
    TextLength,   \* characters of a stored text
    Presses,      \* bound: how many keys are pressed
    Trouble       \* bound: host events, failing calls and scans the UI is behind, together

ASSUME InputAssumption ==
    /\ Profiles \subseteq {"mapped", "patterns", "firetv", "text"}
    /\ \A p \in Profiles : Used[p] \subseteq Keys
    /\ Cap \in Nat \ {0} /\ TextLength \in Nat \ {0}
    /\ \A p \in Profiles : Presses[p] \in Nat /\ Trouble[p] \in Nat

VARIABLES
    profile,      \* s.profile.bt: does not change here
    ui,           \* the screen, bt_power_pending, and whether a release is still to be queued
    generation,   \* s_input_generation
    queue,        \* s_queue
    worker,       \* s: what it knows of the link, its snapshot, and the report it is sending
    mouse,        \* s.mouse
    link,         \* the physical link and the host's subscription
    host,         \* what the host believes is down
    deaf,         \* history: the host turned its notifications off while it believed something down
    taps,         \* history: the taps the UI asked for, with the press they came from
    budget        \* what is left of Trouble

inputVars == <<profile, ui, generation, queue, worker, mouse, link, host, deaf, taps, budget>>
vars == <<keypadVars, inputVars>>

IsMouse == profile \in {"mapped", "patterns"}

States == {"CONNECTED", "SUSPENDED", "CONNECTING", "RECONNECTING", "ERROR"}
Things == Buttons \cup Keys \cup {"ctrlaltdel", "character"}
MessageTypes == {"MOUSE", "TAP", "RELEASE", "READY", "WRITE", "SUSPEND", "DISCONNECTED", "TICK"}
Input == [kind : EventKinds, key : Keys, at : 0..(Wrap - 1), age : Nat]
Message == [type : {"MOUSE", "TAP"}, input : Input, flag : BOOLEAN, generation : Nat, run : Nat]
           \cup [type : MessageTypes \ {"MOUSE", "TAP"}, input : {None}, flag : BOOLEAN, generation : Nat, run : Nat]
WorkerType == [at : {"receive", "send", "ready", "tail", "tick"}, out : Seq(SUBSET Things), failed : BOOLEAN,
               left : 0..TextLength, message : Message, mouse_generation : Nat, run : Nat,
               connected : BOOLEAN, subscribed : BOOLEAN, suspended : BOOLEAN, state : States]
UiType == [screen : {"menu", "remote"}, releasing : BOOLEAN, bt_power_pending : BOOLEAN]

\* run stands for the session's callback generation; of MOUSE and TAP it is history
Msg(type, input, flag) ==
    [type |-> type, input |-> input, flag |-> flag, generation |-> generation, run |-> worker.run]
\* what a message keeps of an event: only the patterns read the time
Carried(e) ==
    [kind |-> e.kind, key |-> e.key,
     at |-> IF profile = "patterns" THEN e.at ELSE 0, age |-> IF profile = "patterns" THEN e.age ELSE 0]
NoMessage == [type |-> "TICK", input |-> None, flag |-> FALSE, generation |-> 0, run |-> 0]
Room == Len(queue) < Cap

Spend == budget > 0 /\ budget' = budget - 1

InputInit ==
    /\ profile \in Profiles
    /\ ui = [screen |-> "remote", releasing |-> FALSE, bt_power_pending |-> FALSE]
    /\ generation = 0 /\ queue = << >> /\ mouse = Idle
    /\ worker = [at |-> "receive", out |-> << >>, failed |-> FALSE, left |-> 0,
                 message |-> NoMessage,
                 mouse_generation |-> 0, run |-> 0, connected |-> TRUE, subscribed |-> TRUE,
                 suspended |-> FALSE, state |-> "CONNECTED"]
    /\ link = [up |-> TRUE, on |-> TRUE] /\ host = {} /\ deaf = FALSE
    /\ taps = {} /\ budget = Trouble[profile]
Init == KeypadInit /\ InputInit

\* The UI keeps up with the keypad, but for a bounded number of scans.
Key ==
    /\ \E k \in Used[profile] \cup {NoKey} : Scan(k)
    /\ pad'.press <= Presses[profile]
    /\ IF uiQ = << >> THEN UNCHANGED budget ELSE Spend
    /\ UNCHANGED <<profile, ui, generation, queue, worker, mouse, link, host, deaf, taps>>

-----------------------------------------------------------------------------
\* The UI task: one event at a time, on the menu or in remote mode.
Event == Head(uiQ)
Takes == uiQ # << >> /\ ~ui.releasing /\ uiQ' = Tail(uiQ) /\ UNCHANGED <<pad, clock, lost>>
Reports == worker.state \in {"CONNECTED", "SUSPENDED"}

Mode == Takes /\ Event.key = "mode" /\ Event.kind = "press"

\* ui_enter_remote_mode
EnterRemote ==
    /\ Mode /\ ui.screen = "menu"
    /\ ui' = [ui EXCEPT !.screen = "remote", !.bt_power_pending = FALSE]
    /\ UNCHANGED <<profile, generation, queue, worker, mouse, link, host, deaf, taps, budget>>

\* variant: leaving only queues a release
KeepsGeneration == generation
\* bt_runtime_release, first half: no earlier input counts any more
NextGeneration == generation + 1

LeaveRemote ==
    /\ Mode /\ ui.screen = "remote"
    /\ ui' = [ui EXCEPT !.screen = "menu", !.bt_power_pending = FALSE, !.releasing = TRUE]
    /\ generation' = NextGeneration
    /\ UNCHANGED <<profile, queue, worker, mouse, link, host, deaf, taps, budget>>

\* bt_runtime_release, second half: the message itself may not fit
QueueRelease ==
    /\ ui.releasing
    /\ ui' = [ui EXCEPT !.releasing = FALSE]
    /\ queue' = IF Room THEN Append(queue, Msg("RELEASE", None, FALSE)) ELSE queue
    /\ UNCHANGED <<keypadVars, profile, generation, worker, mouse, link, host, deaf, taps, budget>>

\* the early returns of ui_nav_dispatch, ui_remote_handle and mouse_handle
Wanted ==
    CASE Event.key = "mode" -> Event.kind = "press"
      [] Event.key # "mode" /\ ui.screen = "menu" -> FALSE
      [] Event.key # "mode" /\ ui.screen = "remote" /\ IsMouse -> Event.key \in Assigned(profile) /\ Reports
      [] Event.key = "power" /\ ui.screen = "remote" /\ profile = "firetv" ->
            Event.kind = "press" \/ ui.bt_power_pending
      [] OTHER -> Event.kind = "press" \/ (Event.kind = "repeat" /\ profile # "text")

IgnoredEvent == Takes /\ ~Wanted /\ UNCHANGED inputVars

\* mouse_handle and bt_runtime_mouse_input: what cannot be queued cancels everything
MouseInput ==
    /\ Takes /\ Wanted /\ ui.screen = "remote" /\ IsMouse /\ Event.key # "mode"
    /\ IF Room
       THEN queue' = Append(queue, Msg("MOUSE", Carried(Event), FALSE)) /\ UNCHANGED <<ui, generation>>
       ELSE /\ ui' = [ui EXCEPT !.releasing = TRUE]
            /\ generation' = NextGeneration
            /\ UNCHANGED queue
    /\ UNCHANGED <<profile, worker, mouse, link, host, deaf, taps, budget>>

\* bt_runtime_tap
Tap(long, u) ==
    /\ ui' = u
    /\ IF Reports /\ Room
       THEN /\ queue' = Append(queue, Msg("TAP", Carried(Event), long))
            /\ taps' = taps \cup {[press |-> Event.press, long |-> long]}
       ELSE UNCHANGED <<queue, taps>>
    /\ UNCHANGED <<profile, generation, worker, mouse, link, host, deaf, budget>>

TypesKey == Takes /\ Wanted /\ ui.screen = "remote" /\ ~IsMouse /\ Event.key # "mode"
IsPower == profile = "firetv" /\ Event.key = "power"

\* variant: the hold leaves the power key pending
PowerStaysPending == ui
PowerSent == [ui EXCEPT !.bt_power_pending = FALSE]

\* "Short power is sent on release; a hold sends only Ctrl+Alt+Del" (ui_remote.c 79)
PowerPressed ==
    /\ TypesKey /\ IsPower /\ Event.kind = "press"
    /\ ui' = [ui EXCEPT !.bt_power_pending = TRUE]
    /\ UNCHANGED <<profile, generation, queue, worker, mouse, link, host, deaf, taps, budget>>

PowerTapped == TypesKey /\ IsPower /\ Event.kind # "press" /\ Tap(Event.kind = "hold", PowerSent)

KeyTapped == TypesKey /\ ~IsPower /\ Tap(FALSE, ui)

-----------------------------------------------------------------------------
\* The worker. A report reaches the host while the link is up and the host
\* listens, or the call fails.
Delivered(report) == link.up /\ link.on /\ host' = report /\ UNCHANGED budget
Failing ==
    /\ UNCHANGED host
    /\ IF link.up /\ link.on THEN Spend ELSE UNCHANGED budget

\* variant: the link is not looked at
ActiveAnyLink(m) == m.generation = generation
\* output_active
Active(m) == m.generation = generation /\ worker.connected /\ worker.subscribed

\* stop_runtime, start_runtime: the link is dropped, the host lets go; the start can fail.
Restart(next) ==
    \E state \in {"RECONNECTING", "ERROR"} :
        /\ worker' = [worker EXCEPT !.at = next, !.out = << >>, !.failed = FALSE, !.left = 0, !.message = NoMessage,
                            !.run = @ + 1, !.connected = FALSE, !.subscribed = FALSE, !.suspended = FALSE,
                            !.mouse_generation = generation, !.state = state]
        /\ mouse' = Idle
        /\ link' = [link EXCEPT !.up = FALSE]

\* release_reports: told to the host if there is one
ToldReleased ==
    IF worker.connected /\ worker.subscribed /\ link.up THEN Delivered({}) ELSE UNCHANGED <<host, budget>>

\* release_input, when the reports went out (of a keyboard: whether they did or not)
Released(w) ==
    /\ worker' = [w EXCEPT !.mouse_generation = generation]
    /\ mouse' = Idle /\ UNCHANGED link
    /\ ToldReleased \/ (~IsMouse /\ Failing)

\* "Even MODE cancellation must disconnect if the host missed button-up" (bt_runtime.c 629)
ReleaseFails(next) ==
    /\ IsMouse /\ worker.connected /\ worker.subscribed /\ link.up
    /\ ~link.on \/ budget > 0
    /\ Restart(next) /\ host' = {}
    /\ IF link.on THEN Spend ELSE UNCHANGED budget

Received == Head(queue)
Receives == worker.at = "receive" /\ queue # << >> /\ queue' = Tail(queue)
Calls == UNCHANGED <<keypadVars, profile, ui, generation, deaf, taps>>
Done(w) == [w EXCEPT !.at = "tail", !.message = NoMessage]

\* mouse_output: the machine takes the input, its reports follow
TakeMouse ==
    /\ Receives /\ Received.type = "MOUSE"
    /\ LET e == Received.input
           step == IF profile = "patterns" THEN PatternInput(mouse, e.key, e.kind, e.at)
                   ELSE MappedInput(mouse, e.key, e.kind)
       IN  IF Active(Received)
           THEN /\ mouse' = step.mouse
                /\ worker' = IF step.reports = << >> THEN Done(worker)
                             ELSE [worker EXCEPT !.at = "send", !.out = step.reports, !.message = Received]
           ELSE UNCHANGED mouse /\ worker' = Done(worker)
    /\ Calls /\ UNCHANGED <<link, host, budget>>

\* bt_profile_report, bt_text_report
TapReport(m) == {IF profile = "text" THEN "character" ELSE IF m.flag THEN "ctrlaltdel" ELSE m.input.key}

\* tap: a key down and up, or as many times as the text has characters
TakeTap ==
    /\ Receives /\ Received.type = "TAP"
    /\ worker' = IF Active(Received)
                 THEN [worker EXCEPT !.at = "send", !.out = <<TapReport(Received), {}>>, !.message = Received,
                                     !.left = IF profile = "text" THEN TextLength - 1 ELSE 0]
                 ELSE Done(worker)
    /\ Calls /\ UNCHANGED <<mouse, link, host, budget>>

\* bt_output_tap, click: each report is tried, although the one before failed
SendReport ==
    /\ worker.at = "send" /\ worker.out # << >>
    /\ \/ /\ Delivered(Head(worker.out))
          /\ worker' = [worker EXCEPT !.out = Tail(@)]
       \/ /\ Failing
          /\ worker' = [worker EXCEPT !.out = Tail(@), !.failed = TRUE]
    /\ Calls /\ UNCHANGED <<queue, mouse, link>>

\* bt_output_text: the next character, unless the text was cancelled
NextCharacter ==
    /\ worker.at = "send" /\ worker.out = << >> /\ ~worker.failed
    /\ worker.left > 0 /\ Active(worker.message)
    /\ worker' = [worker EXCEPT !.out = <<TapReport(worker.message), {}>>, !.left = @ - 1]
    /\ Calls /\ UNCHANGED <<queue, mouse, link, host, budget>>

\* a tick ends its iteration
AfterOutput == IF worker.message.type = "TICK" THEN "receive" ELSE "tail"

OutputDone ==
    /\ worker.at = "send" /\ worker.out = << >> /\ ~worker.failed
    /\ worker.left = 0 \/ ~Active(worker.message)
    /\ worker' = [worker EXCEPT !.left = 0, !.message = NoMessage,
                                !.at = AfterOutput]
    /\ Calls /\ UNCHANGED <<queue, mouse, link, host, budget>>

\* variant: a failed send is left at that
OutputForgotten ==
    /\ worker' = [Done(worker) EXCEPT !.at = AfterOutput, !.failed = FALSE, !.left = 0]
    /\ UNCHANGED <<mouse, link, host>>
OutputRestarts == Restart(AfterOutput) /\ host' = {}

\* "Never leave a key or modifier held after a failed release" (bt_runtime.c 600)
OutputFailed ==
    /\ worker.at = "send" /\ worker.out = << >> /\ worker.failed
    /\ OutputRestarts
    /\ Calls /\ UNCHANGED <<queue, budget>>

TakeRelease ==
    /\ Receives /\ Received.type = "RELEASE"
    /\ Released(Done(worker)) \/ ReleaseFails("tail")
    /\ Calls

\* ready_if_subscribed: in use once the host listens; without it the mouse is reset
Ready(w) ==
    \/ /\ worker' = [w EXCEPT !.at = "tail", !.subscribed = link.on,
                              !.state = IF link.on THEN IF w.suspended THEN "SUSPENDED" ELSE "CONNECTED"
                                        ELSE "CONNECTING"]
       /\ mouse' = IF link.on THEN mouse ELSE Idle
       /\ UNCHANGED <<link, host, budget>>
    \/ /\ Spend     \* the subscriptions cannot be read or stored
       /\ worker' = [w EXCEPT !.at = "tail", !.run = @ + 1, !.connected = FALSE, !.subscribed = FALSE,
                              !.mouse_generation = generation, !.state = "ERROR"]
       /\ mouse' = Idle /\ link' = [link EXCEPT !.up = FALSE] /\ host' = {}

FromLink(type) == Receives /\ Received.type = type /\ Received.run = worker.run /\ worker.state # "ERROR"

TakeReady ==
    /\ FromLink("READY")
    /\ Ready([worker EXCEPT !.connected = TRUE])
    /\ Calls

TakeWrite ==
    /\ FromLink("WRITE")
    /\ IF worker.connected THEN Ready(worker)
       ELSE worker' = Done(worker) /\ UNCHANGED <<mouse, link, host, budget>>
    /\ Calls

\* the host suspends, and is told of a release first, or wakes
TakeSuspend ==
    /\ FromLink("SUSPEND")
    /\ LET w == [worker EXCEPT !.at = "ready", !.suspended = Received.flag]
       IN  \/ Received.flag /\ (Released(w) \/ ReleaseFails("tail"))
           \/ ~Received.flag /\ worker' = w /\ UNCHANGED <<mouse, link, host, budget>>
    /\ Calls

SuspendShown ==
    /\ worker.at = "ready"
    /\ IF worker.connected THEN Ready(worker)
       ELSE worker' = Done(worker) /\ UNCHANGED <<mouse, link, host, budget>>
    /\ Calls /\ UNCHANGED queue

TakeDisconnected ==
    /\ FromLink("DISCONNECTED")
    /\ IF worker.connected
       THEN Restart("tail")
       ELSE mouse' = Idle /\ worker' = Done(worker) /\ UNCHANGED link
    /\ Calls /\ UNCHANGED <<host, budget>>

\* a callback message of a run that was stopped
TakeStale ==
    /\ Receives /\ Received.type \in {"READY", "WRITE", "SUSPEND", "DISCONNECTED"}
    /\ Received.run # worker.run \/ worker.state = "ERROR"
    /\ worker' = Done(worker)
    /\ Calls /\ UNCHANGED <<mouse, link, host, budget>>

\* nothing arrives for 20 ms; an iteration that would find nothing to do is left out
NothingReceived ==
    /\ worker.at = "receive" /\ queue = << >>
    /\ worker.mouse_generation # generation \/ mouse.movement # None
    /\ worker' = Done(worker)
    /\ Calls /\ UNCHANGED <<queue, mouse, link, host, budget>>

\* The end of an iteration: "Generation cancellation also works when the release
\* message could not fit in the queue" (bt_runtime.c 863)
\* variant: the generation is not looked at again
CancelledNever == FALSE
Cancelled == IsMouse /\ worker.mouse_generation # generation
Waiting(w) == [w EXCEPT !.at = "receive", !.message = NoMessage]
Ticking(w) == [w EXCEPT !.at = "tick", !.message = Msg("TICK", None, FALSE)]

EndIteration ==
    /\ worker.at = "tail"
    /\ IF Cancelled
       THEN Released(Waiting(worker)) \/ ReleaseFails("receive")
       ELSE /\ worker' = IF mouse.movement # None THEN Ticking(worker) ELSE Waiting(worker)
            /\ UNCHANGED <<mouse, link, host, budget>>
    /\ Calls /\ UNCHANGED queue

\* bt_mouse_tick: not due, resting, or a report with the buttons as they are
Tick ==
    /\ worker.at = "tick"
    /\ \/ worker' = Waiting(worker)
       \/ /\ IsMouse /\ Active(worker.message) /\ ~worker.suspended /\ mouse.movement # None
          /\ worker' = [worker EXCEPT !.at = "send", !.out = <<mouse.buttons>>]
    /\ Calls /\ UNCHANGED <<queue, mouse, link, host, budget>>

-----------------------------------------------------------------------------
\* The host and the link. The callbacks queue what they tell, if there is room.
Tells(type, flag) == queue' = IF Room THEN Append(queue, Msg(type, None, flag)) ELSE queue
Around == UNCHANGED <<keypadVars, profile, ui, generation, worker, mouse, taps>>

LinkLost ==
    /\ link.up /\ Spend
    /\ link' = [link EXCEPT !.up = FALSE]
    /\ host' = {} /\ deaf' = FALSE
    /\ Tells("DISCONNECTED", FALSE)
    /\ Around

HostReturns ==
    /\ ~link.up /\ worker.state = "RECONNECTING" /\ Room
    /\ link' = [up |-> TRUE, on |-> TRUE]
    /\ deaf' = FALSE
    /\ Tells("READY", FALSE)
    /\ Around /\ UNCHANGED <<host, budget>>

Subscribes ==
    /\ link.up /\ Spend
    /\ link' = [link EXCEPT !.on = ~@]
    /\ deaf' = (deaf \/ host # {})
    /\ Tells("WRITE", FALSE)
    /\ Around /\ UNCHANGED host

Suspends ==
    /\ link.up /\ Spend
    /\ \E flag \in BOOLEAN : Tells("SUSPEND", flag)
    /\ Around /\ UNCHANGED <<link, host, deaf>>

-----------------------------------------------------------------------------
UiTurn ==
    \/ EnterRemote \/ LeaveRemote \/ QueueRelease \/ MouseInput \/ IgnoredEvent
    \/ PowerPressed \/ PowerTapped \/ KeyTapped
Worker ==
    \/ TakeMouse \/ TakeTap \/ SendReport \/ NextCharacter \/ OutputDone \/ OutputFailed \/ TakeRelease
    \/ TakeReady \/ TakeWrite \/ TakeSuspend \/ SuspendShown \/ TakeDisconnected \/ TakeStale
    \/ NothingReceived \/ EndIteration \/ Tick
Host == LinkLost \/ HostReturns \/ Subscribes \/ Suspends

Next == Key \/ UiTurn \/ Worker \/ Host
Spec == Init /\ [][Next]_vars

\* The tasks run; no key need be pressed, and the host need not come back.
FairSpec == Spec /\ WF_vars(UiTurn) /\ WF_vars(Worker)
=============================================================================
