------------------------------ MODULE IrLearn -------------------------------
(***************************************************************************)
(* Learning an infrared code, and sending one: the UI task with its        *)
(* learning screens (ui_ir.c), the IR worker (ir_nec.c), the receiver whose *)
(* interrupt fills one buffer, and the command and event queues.           *)
(*                                                                         *)
(* A code is abstracted to where it came from: the request that the UI was *)
(* waiting for, and its key, when the frame arrived.                       *)
(***************************************************************************)
EXTENDS Naturals, Sequences

CONSTANTS
    Keys,         \* assignable keys of the IR remote
    NoKey,        \* the key of a frame that nobody waits for
    NoCode,       \* the code of an unassigned key
    CmdCap,       \* command queue length (16 in the code)
    EvtCap,       \* application event queue length (16 in the code)
    Faults,       \* kinds of failure that may happen
    Limit         \* bounds: how often each kind of step happens

LimitKinds == {"learns", "frames", "sends", "faults"}
FaultKinds == {"disable", "enable", "receive", "transmit", "save"}

ASSUME ConstantsAssumption ==
    /\ NoKey \notin Keys
    /\ NoCode \notin [request : Nat, key : Keys \cup {NoKey}]
    /\ CmdCap \in Nat \ {0}
    /\ EvtCap \in Nat \ {0}
    /\ Faults \subseteq FaultKinds
    /\ Limit \in [LimitKinds -> Nat]

Codes == [request : Nat, key : Keys \cup {NoKey}]
Noise == [request |-> 0, key |-> NoKey]

Commands == [type : {"LEARN", "CANCEL", "SEND"}, id : Nat]
EventTypes == {"LEARNED", "UNSUPPORTED", "TIMEOUT", "FAILED", "TX_DONE", "TX_FAIL"}
Events == [type : EventTypes, id : Nat, code : Codes]
NoEvent == [type |-> "FAILED", id |-> 0, code |-> Noise]

VARIABLES
    cmdQ,         \* app cmd_q
    evtQ,         \* app evt_q
    worker,       \* the IR worker's locals, place and the event it is posting
    rx,           \* the receiver, its buffer and the length of s_rx_done_q
    ui,           \* ctx->ir, ctx->sequence, the screen and the turn
    saved,        \* the remote's stored codes
    lost,         \* history: a full queue dropped a message
    budget        \* what is left of Limit

vars == <<cmdQ, evtQ, worker, rx, ui, saved, lost, budget>>

Screens == {"elsewhere", "keys", "replace", "wait", "result"}
IrStatuses == {"IDLE", "WAITING", "UNSUPPORTED", "FAILED", "TIMEOUT", "SAVED", "SAVE_FAILED"}
Places == {"command", "post", "rearm", "poll", "deadline"}

WorkerType == [pc : Places, then : Places, learning : BOOLEAN, learnId : Nat, due : BOOLEAN, out : Events]
RxType == [enabled : BOOLEAN, armed : BOOLEAN, done : 0..1, buffer : Codes]
UiType == [screen : Screens, draining : BOOLEAN, key : Keys \cup {NoKey}, request : Nat,
           status : IrStatuses, code : Codes \cup {NoCode}, sequence : Nat]

\* every variable keeps its type; at most one frame waits to be decoded
\* (ir_nec.c:181-252: a receive is started only on an empty receiver)
IrTypeOK ==
    /\ cmdQ \in Seq(Commands)
    /\ evtQ \in Seq(Events)
    /\ worker \in WorkerType
    /\ rx \in RxType
    /\ ui \in UiType
    /\ saved \in [Keys -> Codes \cup {NoCode}]
    /\ lost \in BOOLEAN
    /\ budget \in [LimitKinds -> Nat]

Spend(kind) == budget[kind] > 0 /\ budget' = [budget EXCEPT ![kind] = @ - 1]
Fault(kind) == kind \in Faults /\ Spend("faults")

Init ==
    /\ cmdQ = <<>> /\ evtQ = <<>>
    /\ worker = [pc |-> "command", then |-> "command", learning |-> FALSE, learnId |-> 0,
                 due |-> FALSE, out |-> NoEvent]
    /\ rx = [enabled |-> TRUE, armed |-> FALSE, done |-> 0, buffer |-> Noise]
    /\ ui = [screen |-> "elsewhere", draining |-> FALSE, key |-> NoKey, request |-> 0,
             status |-> "IDLE", code |-> NoCode, sequence |-> 0]
    /\ saved = [k \in Keys |-> NoCode]
    /\ lost = FALSE
    /\ budget = Limit

-----------------------------------------------------------------------------
(* The receiver *)

\* on_rx_done: the frame is in the buffer and the channel has to be armed anew
Frame ==
    /\ rx.armed
    /\ Spend("frames")
    /\ rx' = [rx EXCEPT !.armed = FALSE, !.done = @ + 1,
                        !.buffer = IF ui.request = 0 THEN Noise ELSE [request |-> ui.request, key |-> ui.key]]
    /\ UNCHANGED <<cmdQ, evtQ, worker, ui, saved, lost>>

\* variant: frames of the previous recording stay queued
FlushedKeepsFrames(r) == [r EXCEPT !.enabled = TRUE, !.armed = FALSE]
Flushed(r) == [r EXCEPT !.enabled = TRUE, !.armed = FALSE, !.done = 0]

\* reset_receiver: what it leaves when it succeeds, or when disabling or
\* enabling the channel fails.  Disabling one that is off is no error.
Reset(rx1, ok) ==
    \/ ok /\ rx1 = Flushed(rx) /\ UNCHANGED budget
    \/ ~ok /\ rx.enabled /\ rx1 = rx /\ Fault("disable")
    \/ ~ok /\ rx1 = [Flushed(rx) EXCEPT !.enabled = FALSE] /\ Fault("enable")

-----------------------------------------------------------------------------
(* The IR worker *)

Event(type, id) == [NoEvent EXCEPT !.type = type, !.id = id]
Posting(w, e, then) == [w EXCEPT !.pc = "post", !.out = e, !.then = then]

Command == Head(cmdQ)
TakeCommand(type) ==
    /\ worker.pc = "command" /\ cmdQ # <<>>
    /\ Command.type = type
    /\ cmdQ' = Tail(cmdQ)
\* where the loop goes after a command
Onward(w) == IF w.learning THEN "poll" ELSE "command"

\* cancel only the recording it names
TakeCancel ==
    /\ TakeCommand("CANCEL")
    /\ IF worker.learning /\ Command.id = worker.learnId
       THEN /\ worker' = [worker EXCEPT !.learning = FALSE]
            /\ \E ok \in BOOLEAN : Reset(rx', ok)
       ELSE /\ worker' = [worker EXCEPT !.pc = Onward(worker)]
            /\ UNCHANGED <<rx, budget>>
    /\ UNCHANGED <<evtQ, ui, saved, lost>>

\* rmt_receive needs an enabled channel that is not receiving
Armed(r) == [r EXCEPT !.armed = TRUE]
TakeLearn ==
    /\ TakeCommand("LEARN")
    /\ \/ /\ rx' = Armed(Flushed(rx))
          /\ worker' = [worker EXCEPT !.learning = TRUE, !.learnId = Command.id, !.due = FALSE, !.pc = "poll"]
          /\ UNCHANGED budget
       \/ /\ \/ Reset(rx', FALSE)
             \/ rx' = Flushed(rx) /\ Fault("receive")
          /\ worker' = Posting([worker EXCEPT !.learning = FALSE], Event("FAILED", Command.id), "command")
    /\ UNCHANGED <<evtQ, ui, saved, lost>>

\* transmit, wait up to 500 ms, report
TakeSend ==
    /\ TakeCommand("SEND")
    /\ \/ /\ worker' = Posting(worker, Event("TX_DONE", Command.id), Onward(worker))
          /\ UNCHANGED budget
       \/ /\ Fault("transmit")
          /\ worker' = Posting(worker, Event("TX_FAIL", Command.id), Onward(worker))
    /\ UNCHANGED <<evtQ, rx, ui, saved, lost>>

\* the 20 ms wait for a command ends; turns with nothing to do are left out
WaitEndsEmpty ==
    /\ worker.pc = "command" /\ cmdQ = <<>>
    /\ worker.learning /\ (rx.done > 0 \/ worker.due)
    /\ worker' = [worker EXCEPT !.pc = "poll"]
    /\ UNCHANGED <<cmdQ, evtQ, rx, ui, saved, lost, budget>>

\* a completed frame is decoded or not; an unsupported one re-arms
PollFrame ==
    /\ worker.pc = "poll" /\ rx.done > 0
    /\ rx' = [rx EXCEPT !.done = @ - 1]
    /\ \/ worker' = Posting([worker EXCEPT !.learning = FALSE],
                            [Event("LEARNED", worker.learnId) EXCEPT !.code = rx.buffer], "command")
       \/ worker' = Posting(worker, Event("UNSUPPORTED", worker.learnId), "rearm")
    /\ UNCHANGED <<cmdQ, evtQ, ui, saved, lost, budget>>

PollNothing ==
    /\ worker.pc = "poll" /\ rx.done = 0
    /\ worker' = [worker EXCEPT !.pc = "deadline"]
    /\ UNCHANGED <<cmdQ, evtQ, rx, ui, saved, lost, budget>>

\* variant: listens on without a receive in progress
RearmDeaf ==
    /\ worker.pc = "rearm"
    /\ worker' = [worker EXCEPT !.pc = "deadline"]
    /\ UNCHANGED <<cmdQ, evtQ, rx, ui, saved, lost, budget>>

\* listen on within the same deadline.  One fault stands for the receive and
\* for whatever the reset after it returns.
Rearm ==
    /\ worker.pc = "rearm"
    /\ \/ /\ rx' = Armed(rx)
          /\ worker' = [worker EXCEPT !.pc = "deadline"]
          /\ UNCHANGED budget
       \/ /\ Fault("receive")
          /\ rx' \in {Flushed(rx), rx, [Flushed(rx) EXCEPT !.enabled = FALSE]}
          /\ worker' = Posting([worker EXCEPT !.learning = FALSE], Event("FAILED", worker.learnId), "command")
    /\ UNCHANGED <<cmdQ, evtQ, ui, saved, lost>>

\* variant: the recording is given up without telling the UI
CheckDeadlineSilently ==
    /\ worker.pc = "deadline"
    /\ worker' = [worker EXCEPT !.pc = "command", !.learning = @ /\ ~worker.due]
    /\ UNCHANGED <<cmdQ, evtQ, rx, ui, saved, lost, budget>>

\* variant: only a command ends a recording
CheckDeadlineNever ==
    /\ worker.pc = "deadline"
    /\ worker' = [worker EXCEPT !.pc = "command"]
    /\ UNCHANGED <<cmdQ, evtQ, rx, ui, saved, lost, budget>>

\* the recording's 15 s have passed, or not yet
CheckDeadline ==
    /\ worker.pc = "deadline"
    /\ \/ /\ worker.due
          /\ \E ok \in BOOLEAN : Reset(rx', ok)
          /\ worker' = Posting([worker EXCEPT !.learning = FALSE], Event("TIMEOUT", worker.learnId), "command")
       \/ /\ ~worker.due
          /\ worker' = [worker EXCEPT !.pc = "command"]
          /\ UNCHANGED <<rx, budget>>
    /\ UNCHANGED <<cmdQ, evtQ, ui, saved, lost>>

\* app_post_evt: waits 50 ms for room, then drops the event
Post ==
    /\ worker.pc = "post"
    /\ IF Len(evtQ) < EvtCap
       THEN evtQ' = Append(evtQ, worker.out) /\ UNCHANGED lost
       ELSE lost' = TRUE /\ UNCHANGED evtQ
    /\ worker' = [worker EXCEPT !.pc = worker.then, !.out = NoEvent]
    /\ UNCHANGED <<cmdQ, rx, ui, saved, budget>>

DeadlinePasses ==
    /\ worker.learning /\ ~worker.due
    /\ worker' = [worker EXCEPT !.due = TRUE]
    /\ UNCHANGED <<cmdQ, evtQ, rx, ui, saved, lost, budget>>

-----------------------------------------------------------------------------
(* The UI task: one key event, then every queued application event          *)

Key == ~ui.draining
Room == Len(cmdQ) < CmdCap

\* ui_learn_start: a new request, failed at once if the queue is full.  On a
\* retry the old request has ended, so there is nothing to cancel.
LearnStart(u) ==
    /\ Spend("learns")
    /\ ui' = [u EXCEPT !.screen = "wait", !.draining = TRUE, !.sequence = @ + 1,
                       !.request = IF Room THEN u.sequence + 1 ELSE 0,
                       !.status = IF Room THEN "WAITING" ELSE "FAILED"]
    /\ cmdQ' = IF Room THEN Append(cmdQ, [type |-> "LEARN", id |-> u.sequence + 1]) ELSE cmdQ
    /\ UNCHANGED <<evtQ, worker, rx, saved, lost>>

\* ui_keys_handle: an assigned key asks before it is recorded again
SelectKey ==
    /\ Key /\ ui.screen = "keys"
    /\ \E k \in Keys :
          LET chosen == [ui EXCEPT !.key = k, !.code = saved[k]]
          IN  \/ /\ saved[k] # NoCode
                 /\ ui' = [chosen EXCEPT !.screen = "replace", !.draining = TRUE]
                 /\ UNCHANGED <<cmdQ, evtQ, worker, rx, saved, lost, budget>>
              \/ /\ saved[k] = NoCode
                 /\ LearnStart(chosen)

ReRecord == Key /\ ui.screen = "replace" /\ LearnStart(ui)

Retry == Key /\ ui.screen = "wait" /\ ui.status \in {"FAILED", "TIMEOUT"} /\ LearnStart(ui)

\* ui_cancel_learning: the command may be dropped, the request is gone anyway
Left(u, screen) == [u EXCEPT !.screen = screen, !.draining = TRUE, !.request = 0]
\* variant: the request is cleared before it is named in the command
CancelNothing == [type |-> "CANCEL", id |-> 0]
CancelCommand == [type |-> "CANCEL", id |-> ui.request]
Leave ==
    /\ Key /\ ui.screen # "elsewhere"
    /\ IF ui.request = 0
       THEN UNCHANGED <<cmdQ, lost>>
       ELSE /\ cmdQ' = IF Room THEN Append(cmdQ, CancelCommand) ELSE cmdQ
            /\ lost' = (lost \/ ~Room)
    /\ \E screen \in {"keys", "elsewhere"} \ {ui.screen} : ui' = Left(ui, screen)
    /\ UNCHANGED <<evtQ, worker, rx, saved, budget>>

EnterKeys ==
    /\ Key /\ ui.screen = "elsewhere"
    /\ ui' = [ui EXCEPT !.screen = "keys", !.draining = TRUE]
    /\ UNCHANGED <<cmdQ, evtQ, worker, rx, saved, lost, budget>>

\* app_remote_set_code: stored, or the old binding stays
Store(code) ==
    \/ /\ saved' = [saved EXCEPT ![ui.key] = code]
       /\ ui' = [ui EXCEPT !.screen = "result", !.draining = TRUE, !.request = 0,
                           !.code = code, !.status = "SAVED"]
       /\ UNCHANGED budget
    \/ /\ Fault("save")
       /\ ui' = [ui EXCEPT !.screen = "result", !.draining = TRUE, !.request = 0,
                           !.code = code, !.status = "SAVE_FAILED"]
       /\ UNCHANGED saved

\* the result screen: retry the save, or on to the next key
ResultOk ==
    /\ Key /\ ui.screen = "result"
    /\ \/ /\ ui.status = "SAVE_FAILED"
          /\ Store(ui.code)
       \/ /\ ui.status # "SAVE_FAILED"
          /\ ui' = Left(ui, "keys")
          /\ UNCHANGED <<saved, budget>>
    /\ UNCHANGED <<cmdQ, evtQ, worker, rx, lost>>

\* a key of the remote screen sends its code, or shows that the worker is busy
Transmit ==
    /\ Key /\ ui.screen = "elsewhere"
    /\ Spend("sends")
    /\ ui' = [ui EXCEPT !.sequence = @ + 1, !.draining = TRUE]
    /\ cmdQ' = IF Room THEN Append(cmdQ, [type |-> "SEND", id |-> ui.sequence + 1]) ELSE cmdQ
    /\ UNCHANGED <<evtQ, worker, rx, saved, lost>>

\* ui_handle_app_event: only the awaited request, only on the wait screen
Received == Head(evtQ)
\* variant: any result will do
MineAny(e) == ui.screen = "wait" /\ ui.request # 0
Mine(e) == e.id # 0 /\ e.id = ui.request /\ ui.screen = "wait"
TakeEvent == ui.draining /\ evtQ # <<>> /\ evtQ' = Tail(evtQ)

EventIgnored ==
    /\ TakeEvent
    /\ ~Mine(Received) \/ Received.type \in {"TX_DONE", "TX_FAIL"}
    /\ UNCHANGED <<cmdQ, worker, rx, ui, saved, lost, budget>>

EventUnsupported ==
    /\ TakeEvent /\ Mine(Received)
    /\ Received.type = "UNSUPPORTED"
    /\ ui' = [ui EXCEPT !.status = "UNSUPPORTED"]
    /\ UNCHANGED <<cmdQ, worker, rx, saved, lost, budget>>

EventLearned ==
    /\ TakeEvent /\ Mine(Received)
    /\ Received.type = "LEARNED"
    /\ Store(Received.code)
    /\ UNCHANGED <<cmdQ, worker, rx, lost>>

EventEnded ==
    /\ TakeEvent /\ Mine(Received)
    /\ Received.type \in {"TIMEOUT", "FAILED"}
    /\ ui' = [ui EXCEPT !.request = 0, !.status = Received.type]
    /\ UNCHANGED <<cmdQ, worker, rx, saved, lost, budget>>

\* the event queue is empty: the next key; or no key comes for 25 ms
Drained ==
    /\ IF ui.draining THEN evtQ = <<>> ELSE evtQ # <<>>
    /\ ui' = [ui EXCEPT !.draining = ~@]
    /\ UNCHANGED <<cmdQ, evtQ, worker, rx, saved, lost, budget>>

-----------------------------------------------------------------------------
Worker ==
    \/ TakeCancel \/ TakeLearn \/ TakeSend \/ WaitEndsEmpty
    \/ PollFrame \/ PollNothing \/ Rearm \/ CheckDeadline \/ Post
UserKey == SelectKey \/ ReRecord \/ Retry \/ Leave \/ EnterKeys \/ ResultOk \/ Transmit
UiTurn == EventIgnored \/ EventUnsupported \/ EventLearned \/ EventEnded \/ Drained

Next == Worker \/ Frame \/ DeadlinePasses \/ UserKey \/ UiTurn
Spec == Init /\ [][Next]_vars

\* The tasks run and time passes; no frame need come, no key be pressed.
FairSpec == Spec /\ WF_vars(Worker) /\ WF_vars(DeadlinePasses) /\ WF_vars(UiTurn)
=============================================================================
