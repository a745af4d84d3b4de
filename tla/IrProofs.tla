------------------------------ MODULE IrProofs ------------------------------
(***************************************************************************)
(* Theorems about infrared learning, for any keys, queue lengths, faults    *)
(* and bounds: types, the receive buffer, the origin of stored codes; the   *)
(* receiver is never deaf while a recording goes on, and once the queues    *)
(* are drained it listens for what the screen waits for.                    *)
(***************************************************************************)
EXTENDS IrProperties, TLAPS

-----------------------------------------------------------------------------
(* The worker and the receiver                                              *)

\* an unsupported frame has been taken out and the channel is not armed again yet
Rearming == worker.pc = "rearm" \/ (worker.pc = "post" /\ worker.then = "rearm")
Receiving == BufferStable /\ (Rearming => rx.done = 0 /\ ~rx.armed)

LEMMA QueueTypes ==
    ASSUME NEW S, NEW q \in Seq(S)
    PROVE  /\ \A e \in S : Append(q, e) \in Seq(S)
           /\ q # <<>> => Head(q) \in S /\ Tail(q) \in Seq(S)
OBVIOUS

LEMMA BudgetType ==
    ASSUME budget \in [LimitKinds -> Nat], NEW kind, Spend(kind) \/ Fault(kind) \/ UNCHANGED budget
    PROVE  budget' \in [LimitKinds -> Nat]
<1>1. CASE UNCHANGED budget
    BY <1>1
<1>2. ASSUME NEW k, Spend(k)
      PROVE  budget' \in [LimitKinds -> Nat]
    <2>1. budget[k] > 0 /\ budget' = [budget EXCEPT ![k] = budget[k] - 1]
        BY <1>2 DEF Spend
    <2>2. \A l \in LimitKinds : budget'[l] \in Nat
        <3> TAKE l \in LimitKinds
        <3>1. CASE l = k
            BY <2>1, <3>1
        <3>2. CASE l # k
            BY <2>1, <3>2
        <3> QED BY <3>1, <3>2
    <2> QED BY <2>1, <2>2
<1> QED BY <1>1, <1>2 DEF Fault

LEMMA FlushedType ==
    ASSUME rx \in RxType
    PROVE  /\ Flushed(rx) \in RxType /\ Flushed(rx).done = 0
           /\ Armed(Flushed(rx)) \in RxType /\ Armed(Flushed(rx)).done = 0
           /\ [Flushed(rx) EXCEPT !.enabled = FALSE] \in RxType
           /\ [Flushed(rx) EXCEPT !.enabled = FALSE].done = 0
<1>1. Flushed(rx) \in RxType /\ Flushed(rx).done = 0
    <2>1. 0 \in 0..1 /\ FALSE \in BOOLEAN /\ TRUE \in BOOLEAN
        OBVIOUS
    <2> QED BY <2>1 DEF RxType, Flushed
<1>2. Armed(Flushed(rx)) \in RxType /\ Armed(Flushed(rx)).done = 0
    BY <1>1 DEF RxType, Armed
<1>3. /\ [Flushed(rx) EXCEPT !.enabled = FALSE] \in RxType
      /\ [Flushed(rx) EXCEPT !.enabled = FALSE].done = 0
    BY <1>1 DEF RxType
<1> QED BY <1>1, <1>2, <1>3

\* a reset leaves the receiver as it is, or flushed
LEMMA ResetShape ==
    ASSUME IrTypeOK, NEW ok, Reset(rx', ok)
    PROVE  /\ rx' \in RxType
           /\ rx' = rx \/ rx'.done = 0
           /\ budget' \in [LimitKinds -> Nat]
<1>1. budget \in [LimitKinds -> Nat] /\ rx \in RxType
    BY DEF IrTypeOK
<1>2. budget' \in [LimitKinds -> Nat]
    BY <1>1, BudgetType DEF Reset
<1> QED BY <1>1, <1>2, FlushedType DEF Reset

LEMMA PostingType ==
    ASSUME NEW w \in WorkerType, NEW e \in Events, NEW then \in Places
    PROVE  /\ Posting(w, e, then) \in WorkerType
           /\ Posting(w, e, then).pc = "post" /\ Posting(w, e, then).then = then
           /\ Posting(w, e, then).out = e
           /\ Posting(w, e, then).learning = w.learning /\ Posting(w, e, then).learnId = w.learnId
<1>1. "post" \in Places
    BY DEF Places
<1> QED BY <1>1 DEF Posting, WorkerType

LEMMA EventType ==
    ASSUME NEW type \in EventTypes, NEW id \in Nat
    PROVE  Event(type, id) \in Events
BY DEF Event, NoEvent, Noise, Events, Codes, EventTypes

\* a recording given up: not learning any more, and the event says why
LEMMA GivenUpType ==
    ASSUME IrTypeOK, NEW type \in EventTypes, NEW id \in Nat,
           worker' = Posting([worker EXCEPT !.learning = FALSE], Event(type, id), "command")
    PROVE  /\ worker' \in WorkerType
           /\ worker'.pc = "post" /\ worker'.then = "command" /\ ~worker'.learning
           /\ worker'.learnId = worker.learnId
           /\ worker'.out = Event(type, id)
<1> DEFINE w == [worker EXCEPT !.learning = FALSE]
<1>1. w \in WorkerType /\ ~w.learning /\ w.learnId = worker.learnId
    BY DEF IrTypeOK, WorkerType
<1>2. Event(type, id) \in Events
    BY EventType
<1>3. "command" \in Places
    BY DEF Places
<1>4. worker' = Posting(w, Event(type, id), "command")
    OBVIOUS
<1> HIDE DEF w
<1> QED BY <1>1, <1>2, <1>3, <1>4, PostingType

LEMMA CommandType ==
    ASSUME IrTypeOK, NEW type, TakeCommand(type)
    PROVE  Command.id \in Nat /\ cmdQ' \in Seq(Commands)
<1>1. cmdQ \in Seq(Commands) /\ cmdQ # <<>>
    BY DEF IrTypeOK, TakeCommand
<1>2. Command \in Commands
    BY <1>1, QueueTypes DEF Command
<1>3. cmdQ' \in Seq(Commands)
    BY <1>1, QueueTypes DEF TakeCommand
<1> QED BY <1>2, <1>3 DEF Commands

WorkerStepKeeps == IrTypeOK' /\ Receiving'

LEMMA WorkerTyped ==
    ASSUME IrTypeOK, Receiving, Worker
    PROVE  WorkerStepKeeps
<1> USE DEF WorkerStepKeeps
<1>0. /\ worker \in WorkerType /\ rx \in RxType /\ worker.learnId \in Nat
      /\ cmdQ \in Seq(Commands) /\ evtQ \in Seq(Events) /\ worker.out \in Events
    BY DEF IrTypeOK, WorkerType
<1>1. CASE TakeCancel
    <2>1. cmdQ' \in Seq(Commands) /\ worker.pc = "command"
        BY <1>1, CommandType DEF TakeCancel, TakeCommand
    <2>2. CASE worker.learning /\ Command.id = worker.learnId
        <3>1. PICK ok \in BOOLEAN : Reset(rx', ok)
            BY <1>1, <2>2 DEF TakeCancel
        <3>2. rx' \in RxType /\ (rx' = rx \/ rx'.done = 0) /\ budget' \in [LimitKinds -> Nat]
            BY <3>1, ResetShape
        <3>3. worker' \in WorkerType /\ worker'.pc = "command"
            BY <1>0, <1>1, <2>1, <2>2 DEF TakeCancel, WorkerType
        <3>4. IrTypeOK'
            BY <1>1, <2>1, <3>2, <3>3 DEF TakeCancel, IrTypeOK
        <3> QED BY <3>2, <3>3, <3>4 DEF Receiving, Rearming, BufferStable, RxType
    <2>3. CASE ~(worker.learning /\ Command.id = worker.learnId)
        <3>1. worker' \in WorkerType /\ worker'.pc \in {"poll", "command"}
            BY <1>0, <1>1, <2>3 DEF TakeCancel, WorkerType, Onward, Places
        <3>2. IrTypeOK'
            BY <1>1, <2>1, <2>3, <3>1 DEF TakeCancel, IrTypeOK
        <3> QED BY <1>1, <2>3, <3>1, <3>2 DEF TakeCancel, Receiving, Rearming, BufferStable
    <2> QED BY <2>2, <2>3
<1>2. CASE TakeLearn
    <2>1. cmdQ' \in Seq(Commands) /\ Command.id \in Nat
        BY <1>2, CommandType DEF TakeLearn
    <2>2. CASE /\ rx' = Armed(Flushed(rx))
               /\ worker' = [worker EXCEPT !.learning = TRUE, !.learnId = Command.id, !.due = FALSE, !.pc = "poll"]
               /\ UNCHANGED budget
        <3>1. worker' \in WorkerType /\ worker'.pc = "poll"
            BY <1>0, <2>1, <2>2 DEF WorkerType, Places
        <3>2. rx' \in RxType /\ rx'.done = 0
            BY <1>0, <2>2, FlushedType
        <3>3. IrTypeOK'
            BY <1>2, <2>1, <2>2, <3>1, <3>2 DEF TakeLearn, IrTypeOK
        <3> QED BY <3>1, <3>2, <3>3 DEF Receiving, Rearming, BufferStable
    <2>3. CASE /\ Reset(rx', FALSE) \/ (rx' = Flushed(rx) /\ Fault("receive"))
               /\ worker' = Posting([worker EXCEPT !.learning = FALSE], Event("FAILED", Command.id), "command")
        <3>1. worker' \in WorkerType /\ worker'.pc = "post" /\ worker'.then = "command"
            BY <2>1, <2>3, GivenUpType DEF EventTypes
        <3>2. /\ rx' \in RxType /\ (rx' = rx \/ rx'.done = 0)
              /\ budget' \in [LimitKinds -> Nat]
            BY <1>0, <2>3, ResetShape, FlushedType, BudgetType DEF IrTypeOK
        <3>3. IrTypeOK'
            BY <1>2, <2>1, <3>1, <3>2 DEF TakeLearn, IrTypeOK
        <3> QED BY <3>1, <3>2, <3>3 DEF Receiving, Rearming, BufferStable
    <2> QED BY <1>2, <2>2, <2>3 DEF TakeLearn
<1>3. CASE TakeSend
    <2>1. cmdQ' \in Seq(Commands) /\ Command.id \in Nat
        BY <1>3, CommandType DEF TakeSend
    <2>2. Onward(worker) \in {"poll", "command"}
        BY DEF Onward
    <2>3. PICK type \in {"TX_DONE", "TX_FAIL"} : worker' = Posting(worker, Event(type, Command.id), Onward(worker))
        BY <1>3 DEF TakeSend
    <2>4. worker' \in WorkerType
        BY <1>0, <2>1, <2>2, <2>3, EventType, PostingType DEF EventTypes, Places
    <2>5. worker'.then \in {"poll", "command"} /\ worker'.pc = "post"
        BY <1>0, <2>2, <2>3 DEF Posting, WorkerType
    <2>6. budget' \in [LimitKinds -> Nat]
        BY <1>3, BudgetType DEF TakeSend, IrTypeOK
    <2>7. IrTypeOK'
        BY <1>3, <2>1, <2>4, <2>6 DEF TakeSend, IrTypeOK
    <2> QED BY <1>3, <2>5, <2>7 DEF TakeSend, Receiving, Rearming, BufferStable
<1>4. CASE WaitEndsEmpty
    <2>1. worker' \in WorkerType /\ worker'.pc = "poll"
        BY <1>0, <1>4 DEF WaitEndsEmpty, WorkerType, Places
    <2>2. IrTypeOK'
        BY <1>4, <2>1 DEF WaitEndsEmpty, IrTypeOK
    <2> QED BY <1>4, <2>1, <2>2 DEF WaitEndsEmpty, Receiving, Rearming, BufferStable
<1>5. CASE PollFrame
    <2>1. rx' \in RxType /\ rx'.done = 0 /\ ~rx'.armed
        BY <1>0, <1>5, SMTT(20) DEF PollFrame, RxType, Receiving, BufferStable
    <2>2. rx.buffer \in Codes
        BY <1>0 DEF RxType
    <2>3. [Event("LEARNED", worker.learnId) EXCEPT !.code = rx.buffer] \in Events
        BY <1>0, <2>2, EventType DEF Events, EventTypes
    <2>4. Event("UNSUPPORTED", worker.learnId) \in Events
        BY <1>0, EventType DEF EventTypes
    <2>5. [worker EXCEPT !.learning = FALSE] \in WorkerType
        BY <1>0 DEF WorkerType
    <2>6. worker' \in WorkerType
        <3>1. "command" \in Places /\ "rearm" \in Places
            BY DEF Places
        <3>2. Posting([worker EXCEPT !.learning = FALSE],
                      [Event("LEARNED", worker.learnId) EXCEPT !.code = rx.buffer], "command") \in WorkerType
            BY <2>3, <2>5, <3>1, PostingType
        <3>3. Posting(worker, Event("UNSUPPORTED", worker.learnId), "rearm") \in WorkerType
            BY <1>0, <2>4, <3>1, PostingType
        <3> QED BY <1>5, <3>2, <3>3 DEF PollFrame
    <2>7. IrTypeOK'
        BY <1>5, <2>1, <2>6 DEF PollFrame, IrTypeOK
    <2> QED BY <2>1, <2>7 DEF Receiving, BufferStable
<1>6. CASE PollNothing
    <2>1. worker' \in WorkerType /\ worker'.pc = "deadline"
        BY <1>0, <1>6 DEF PollNothing, WorkerType, Places
    <2>2. IrTypeOK'
        BY <1>6, <2>1 DEF PollNothing, IrTypeOK
    <2> QED BY <1>6, <2>1, <2>2 DEF PollNothing, Receiving, Rearming, BufferStable
<1>7. CASE Rearm
    <2>1. rx.done = 0
        BY <1>7 DEF Rearm, Receiving, Rearming
    <2>2. CASE /\ rx' = Armed(rx)
               /\ worker' = [worker EXCEPT !.pc = "deadline"]
               /\ UNCHANGED budget
        <3>1. rx' \in RxType /\ rx'.done = 0
            BY <1>0, <2>1, <2>2 DEF Armed, RxType
        <3>2. worker' \in WorkerType /\ worker'.pc = "deadline"
            BY <1>0, <2>2 DEF WorkerType, Places
        <3>3. IrTypeOK'
            BY <1>7, <2>2, <3>1, <3>2 DEF Rearm, IrTypeOK
        <3> QED BY <3>1, <3>2, <3>3 DEF Receiving, Rearming, BufferStable
    <2>3. CASE /\ Fault("receive")
               /\ rx' \in {Flushed(rx), rx, [Flushed(rx) EXCEPT !.enabled = FALSE]}
               /\ worker' = Posting([worker EXCEPT !.learning = FALSE], Event("FAILED", worker.learnId), "command")
        <3>1. worker' \in WorkerType /\ worker'.pc = "post" /\ worker'.then = "command"
            BY <1>0, <2>3, GivenUpType DEF EventTypes
        <3>2. rx' \in RxType /\ rx'.done = 0
            BY <1>0, <2>1, <2>3, FlushedType
        <3>3. budget' \in [LimitKinds -> Nat]
            BY <2>3, BudgetType DEF IrTypeOK
        <3>4. IrTypeOK'
            BY <1>7, <3>1, <3>2, <3>3 DEF Rearm, IrTypeOK
        <3> QED BY <3>1, <3>2, <3>4 DEF Receiving, Rearming, BufferStable
    <2> QED BY <1>7, <2>2, <2>3 DEF Rearm
<1>8. CASE CheckDeadline
    <2>1. CASE /\ worker.due
               /\ \E ok \in BOOLEAN : Reset(rx', ok)
               /\ worker' = Posting([worker EXCEPT !.learning = FALSE], Event("TIMEOUT", worker.learnId), "command")
        <3>1. worker' \in WorkerType /\ worker'.pc = "post" /\ worker'.then = "command"
            BY <1>0, <2>1, GivenUpType DEF EventTypes
        <3>2. rx' \in RxType /\ (rx' = rx \/ rx'.done = 0) /\ budget' \in [LimitKinds -> Nat]
            BY <2>1, ResetShape
        <3>3. IrTypeOK'
            BY <1>8, <3>1, <3>2 DEF CheckDeadline, IrTypeOK
        <3> QED BY <3>1, <3>2, <3>3 DEF Receiving, Rearming, BufferStable
    <2>2. CASE ~worker.due /\ worker' = [worker EXCEPT !.pc = "command"] /\ UNCHANGED <<rx, budget>>
        <3>1. worker' \in WorkerType /\ worker'.pc = "command"
            BY <1>0, <2>2 DEF WorkerType, Places
        <3>2. IrTypeOK'
            BY <1>8, <2>2, <3>1 DEF CheckDeadline, IrTypeOK
        <3> QED BY <2>2, <3>1, <3>2 DEF Receiving, Rearming, BufferStable
    <2> QED BY <1>8, <2>1, <2>2 DEF CheckDeadline
<1>9. CASE Post
    <2>1. evtQ' \in Seq(Events) /\ lost' \in BOOLEAN
        BY <1>0, <1>9, QueueTypes DEF Post, IrTypeOK
    <2>2. worker' \in WorkerType /\ (worker'.pc = "rearm" => worker.then = "rearm")
        <3>1. NoEvent \in Events
            BY DEF NoEvent, Noise, Events, Codes, EventTypes
        <3> QED BY <1>0, <1>9, <3>1 DEF Post, WorkerType
    <2>3. IrTypeOK'
        BY <1>9, <2>1, <2>2 DEF Post, IrTypeOK
    <2>4. Rearming' => Rearming
        BY <1>0, <1>9, <2>2 DEF Post, Rearming, WorkerType
    <2> QED BY <1>9, <2>3, <2>4 DEF Post, Receiving, BufferStable
<1> QED BY <1>1, <1>2, <1>3, <1>4, <1>5, <1>6, <1>7, <1>8, <1>9 DEF Worker

-----------------------------------------------------------------------------
(* The interrupt, time and the UI                                           *)

LEMMA OutsideTyped ==
    ASSUME IrTypeOK, Receiving, Frame \/ DeadlinePasses
    PROVE  IrTypeOK' /\ Receiving'
<1>1. CASE Frame
    <2>1. rx.done = 0 /\ rx.armed
        BY <1>1 DEF Frame, IrTypeOK, RxType, Receiving, BufferStable
    <2>2. rx'.done = 1 /\ ~rx'.armed /\ rx' \in RxType
        <3>1. rx \in RxType /\ ui.request \in Nat /\ ui.key \in Keys \cup {NoKey}
            BY DEF IrTypeOK, UiType
        <3> DEFINE heard == IF ui.request = 0 THEN Noise ELSE [request |-> ui.request, key |-> ui.key]
        <3>2. heard \in Codes
            BY <3>1 DEF Noise, Codes
        <3>3. rx' = [rx EXCEPT !.armed = FALSE, !.done = rx.done + 1, !.buffer = heard]
            BY <1>1 DEF Frame
        <3>4. rx.done + 1 = 1 /\ 1 \in 0..1 /\ FALSE \in BOOLEAN
            BY <2>1
        <3> HIDE DEF heard
        <3> QED BY <3>1, <3>2, <3>3, <3>4 DEF RxType
    <2>3. budget' \in [LimitKinds -> Nat]
        BY <1>1, BudgetType DEF Frame, IrTypeOK
    <2>4. IrTypeOK'
        BY <1>1, <2>2, <2>3 DEF Frame, IrTypeOK
    <2>5. ~Rearming'
        BY <1>1, <2>1 DEF Frame, Receiving, Rearming
    <2> QED BY <2>2, <2>4, <2>5 DEF Receiving, BufferStable
<1>2. CASE DeadlinePasses
    <2>1. worker' \in WorkerType /\ worker'.pc = worker.pc /\ worker'.then = worker.then
        BY <1>2 DEF DeadlinePasses, IrTypeOK, WorkerType
    <2>2. IrTypeOK'
        BY <1>2, <2>1 DEF DeadlinePasses, IrTypeOK
    <2> QED BY <1>2, <2>1, <2>2 DEF DeadlinePasses, Receiving, Rearming, BufferStable
<1> QED BY <1>1, <1>2

\* the UI leaves worker and receiver alone
LEMMA UiKeepsReceiving ==
    ASSUME IrTypeOK, Receiving, UserKey \/ UiTurn
    PROVE  Receiving' /\ worker' = worker /\ rx' = rx
<1>1. worker' = worker /\ rx' = rx
    <2>1. CASE SelectKey \/ ReRecord \/ Retry
        BY <2>1 DEF SelectKey, ReRecord, Retry, LearnStart
    <2>2. CASE Leave \/ EnterKeys \/ ResultOk \/ Transmit
        BY <2>2 DEF Leave, EnterKeys, ResultOk, Transmit
    <2>3. CASE UiTurn
        BY <2>3 DEF UiTurn, EventIgnored, EventUnsupported, EventLearned, EventEnded, Drained
    <2> QED BY <2>1, <2>2, <2>3 DEF UserKey
<1> QED BY <1>1 DEF Receiving, Rearming, BufferStable

LEMMA LearnStartType ==
    ASSUME IrTypeOK, NEW u \in UiType, LearnStart(u)
    PROVE  IrTypeOK'
<1>1. u.sequence + 1 \in Nat
    BY DEF UiType
<1>2. ui' \in UiType
    BY <1>1 DEF LearnStart, UiType, Screens, IrStatuses
<1>3. cmdQ' \in Seq(Commands)
    <2>1. [type |-> "LEARN", id |-> u.sequence + 1] \in Commands
        BY <1>1 DEF Commands
    <2> QED BY <2>1, QueueTypes DEF LearnStart, IrTypeOK
<1>4. budget' \in [LimitKinds -> Nat]
    BY BudgetType DEF LearnStart, IrTypeOK
<1> QED BY <1>2, <1>3, <1>4 DEF LearnStart, IrTypeOK

LEMMA StoreType ==
    ASSUME IrTypeOK, NEW code \in Codes \cup {NoCode}, Store(code)
    PROVE  /\ saved' \in [Keys -> Codes \cup {NoCode}]
           /\ ui' \in UiType
           /\ budget' \in [LimitKinds -> Nat]
<1>1. ui' \in UiType
    <2>1. PICK status \in {"SAVED", "SAVE_FAILED"} :
             ui' = [ui EXCEPT !.screen = "result", !.draining = TRUE, !.request = 0,
                              !.code = code, !.status = status]
        BY DEF Store
    <2>2. status \in IrStatuses /\ "result" \in Screens
        BY DEF IrStatuses, Screens
    <2> QED BY <2>1, <2>2 DEF IrTypeOK, UiType
<1>2. saved' \in [Keys -> Codes \cup {NoCode}]
    BY DEF Store, IrTypeOK
<1>3. budget' \in [LimitKinds -> Nat]
    BY BudgetType DEF Store, IrTypeOK
<1> QED BY <1>1, <1>2, <1>3

LEMMA ReceivedType ==
    ASSUME IrTypeOK, TakeEvent
    PROVE  Received \in Events /\ evtQ' \in Seq(Events)
BY QueueTypes DEF IrTypeOK, TakeEvent, Received

LEMMA UiTyped ==
    ASSUME IrTypeOK, UserKey \/ UiTurn
    PROVE  IrTypeOK'
<1>0. ui \in UiType /\ saved \in [Keys -> Codes \cup {NoCode}] /\ cmdQ \in Seq(Commands)
    BY DEF IrTypeOK
<1>1. CASE SelectKey
    <2>1. PICK k \in Keys :
             LET chosen == [ui EXCEPT !.key = k, !.code = saved[k]]
             IN  \/ /\ ui' = [chosen EXCEPT !.screen = "replace", !.draining = TRUE]
                    /\ UNCHANGED <<cmdQ, evtQ, worker, rx, saved, lost, budget>>
                 \/ LearnStart(chosen)
        BY <1>1 DEF SelectKey
    <2> DEFINE chosen == [ui EXCEPT !.key = k, !.code = saved[k]]
    <2>2. chosen \in UiType
        BY <1>0 DEF UiType
    <2>3. CASE ui' = [chosen EXCEPT !.screen = "replace", !.draining = TRUE]
               /\ UNCHANGED <<cmdQ, evtQ, worker, rx, saved, lost, budget>>
        <3>1. ui' \in UiType
            BY <2>2, <2>3 DEF UiType, Screens
        <3> QED BY <2>3, <3>1 DEF IrTypeOK
    <2>4. CASE LearnStart(chosen)
        <3> HIDE DEF chosen
        <3> QED BY <2>2, <2>4, LearnStartType
    <2> QED BY <2>1, <2>3, <2>4
<1>2. CASE ReRecord \/ Retry
    BY <1>0, <1>2, LearnStartType DEF ReRecord, Retry
<1>3. CASE Leave
    <2>1. ui' \in UiType
        <3>1. PICK screen \in {"keys", "elsewhere"} : ui' = Left(ui, screen)
            BY <1>3 DEF Leave
        <3>2. screen \in Screens
            BY DEF Screens
        <3> QED BY <1>0, <3>1, <3>2 DEF Left, UiType
    <2>2. cmdQ' \in Seq(Commands) /\ lost' \in BOOLEAN
        <3>1. CancelCommand \in Commands
            BY <1>0 DEF CancelCommand, Commands, UiType
        <3> QED BY <1>0, <1>3, <3>1, QueueTypes DEF Leave, IrTypeOK
    <2> QED BY <1>3, <2>1, <2>2 DEF Leave, IrTypeOK
<1>4. CASE EnterKeys
    <2>1. ui' \in UiType
        BY <1>0, <1>4 DEF EnterKeys, UiType, Screens
    <2> QED BY <1>4, <2>1 DEF EnterKeys, IrTypeOK
<1>5. CASE ResultOk
    <2>1. CASE Store(ui.code)
        <3>1. ui.code \in Codes \cup {NoCode}
            BY <1>0 DEF UiType
        <3>2. /\ saved' \in [Keys -> Codes \cup {NoCode}]
              /\ ui' \in UiType
              /\ budget' \in [LimitKinds -> Nat]
            BY <2>1, <3>1, StoreType
        <3> QED BY <1>5, <3>2 DEF ResultOk, IrTypeOK
    <2>2. CASE ui' = Left(ui, "keys") /\ UNCHANGED <<saved, budget>>
        <3>1. ui' \in UiType
            BY <1>0, <2>2 DEF Left, UiType, Screens
        <3> QED BY <1>5, <2>2, <3>1 DEF ResultOk, IrTypeOK
    <2> QED BY <1>5, <2>1, <2>2 DEF ResultOk
<1>6. CASE Transmit
    <2>1. ui' \in UiType /\ ui.sequence + 1 \in Nat
        <3>1. ui.sequence + 1 \in Nat
            BY <1>0 DEF UiType
        <3>2. ui' = [ui EXCEPT !.sequence = ui.sequence + 1, !.draining = TRUE]
            BY <1>6 DEF Transmit
        <3> QED BY <1>0, <3>1, <3>2 DEF UiType
    <2>2. cmdQ' \in Seq(Commands)
        <3>1. [type |-> "SEND", id |-> ui.sequence + 1] \in Commands
            BY <2>1 DEF Commands
        <3> QED BY <1>0, <1>6, <3>1, QueueTypes DEF Transmit
    <2>3. budget' \in [LimitKinds -> Nat]
        BY <1>6, BudgetType DEF Transmit, IrTypeOK
    <2> QED BY <1>6, <2>1, <2>2, <2>3 DEF Transmit, IrTypeOK
<1>7. CASE EventIgnored
    BY <1>7, ReceivedType DEF EventIgnored, IrTypeOK
<1>8. CASE EventUnsupported
    <2>1. ui' \in UiType
        BY <1>0, <1>8 DEF EventUnsupported, UiType, IrStatuses
    <2> QED BY <1>8, <2>1, ReceivedType DEF EventUnsupported, IrTypeOK
<1>9. CASE EventLearned
    <2>1. Received \in Events /\ evtQ' \in Seq(Events)
        BY <1>9, ReceivedType DEF EventLearned
    <2>2. Received.code \in Codes \cup {NoCode}
        BY <2>1 DEF Events
    <2>3. /\ saved' \in [Keys -> Codes \cup {NoCode}]
          /\ ui' \in UiType
          /\ budget' \in [LimitKinds -> Nat]
        BY <1>9, <2>2, StoreType DEF EventLearned
    <2> QED BY <1>9, <2>1, <2>3 DEF EventLearned, IrTypeOK
<1>10. CASE EventEnded
    <2>1. ui' \in UiType
        BY <1>0, <1>10 DEF EventEnded, UiType, IrStatuses
    <2> QED BY <1>10, <2>1, ReceivedType DEF EventEnded, IrTypeOK
<1>11. CASE Drained
    <2>1. ui' \in UiType
        BY <1>0, <1>11 DEF Drained, UiType
    <2> QED BY <1>11, <2>1 DEF Drained, IrTypeOK
<1> QED BY <1>1, <1>2, <1>3, <1>4, <1>5, <1>6, <1>7, <1>8, <1>9, <1>10, <1>11 DEF UserKey, UiTurn

-----------------------------------------------------------------------------
(* Types, and the buffer                                                    *)

LEMMA InitTyped == Init => IrTypeOK /\ Receiving
<1> SUFFICES ASSUME Init
             PROVE  IrTypeOK /\ Receiving
    OBVIOUS
<1>1. worker \in WorkerType /\ worker.pc = "command"
    BY DEF Init, WorkerType, Places, NoEvent, Noise, Events, Codes, EventTypes
<1>2. rx \in RxType /\ rx.done = 0
    BY DEF Init, RxType, Noise, Codes
<1>3. ui \in UiType
    BY DEF Init, UiType, Screens, IrStatuses
<1>4. saved \in [Keys -> Codes \cup {NoCode}]
    BY DEF Init
<1>5. budget \in [LimitKinds -> Nat]
    BY ConstantsAssumption DEF Init
<1>6. cmdQ \in Seq(Commands) /\ evtQ \in Seq(Events) /\ lost \in BOOLEAN
    <2>1. cmdQ = <<>> /\ evtQ = <<>>
        BY DEF Init
    <2>2. lost \in BOOLEAN
        BY DEF Init
    <2> QED BY <2>1, <2>2
<1>7. IrTypeOK
    BY <1>1, <1>2, <1>3, <1>4, <1>5, <1>6 DEF IrTypeOK
<1> QED BY <1>1, <1>2, <1>7 DEF Receiving, Rearming, BufferStable

LEMMA TypedStep == IrTypeOK /\ Receiving /\ [Next]_vars => IrTypeOK' /\ Receiving'
<1> SUFFICES ASSUME IrTypeOK, Receiving, [Next]_vars
             PROVE  IrTypeOK' /\ Receiving'
    OBVIOUS
<1>1. CASE Worker
    BY <1>1, WorkerTyped DEF WorkerStepKeeps
<1>2. CASE Frame \/ DeadlinePasses
    BY <1>2, OutsideTyped
<1>3. CASE UserKey \/ UiTurn
    BY <1>3, UiTyped, UiKeepsReceiving
<1>4. CASE UNCHANGED vars
    BY <1>4 DEF vars, IrTypeOK, Receiving, Rearming, BufferStable
<1> QED BY <1>1, <1>2, <1>3, <1>4 DEF Next

\* Every reachable state is well typed; at most one frame waits to be decoded
\* (ir_nec.c:169-245).
THEOREM IrTypeCorrect == Spec => []IrTypeOK
<1> DEFINE Inv == IrTypeOK /\ Receiving
<1>1. Init => Inv
    BY InitTyped
<1>2. Inv /\ [Next]_vars => Inv'
    BY TypedStep
<1>3. Inv => IrTypeOK
    OBVIOUS
<1> QED BY <1>1, <1>2, <1>3, PTL DEF Spec

\* The interrupt never writes the buffer while a frame in it waits
\* (ir_nec.c:95-103, 221-236).
THEOREM BufferIsStable == Spec => []BufferStable
<1> DEFINE Inv == IrTypeOK /\ Receiving
<1>1. Init => Inv
    BY InitTyped
<1>2. Inv /\ [Next]_vars => Inv'
    BY TypedStep
<1>3. Inv => BufferStable
    BY DEF Receiving
<1> QED BY <1>1, <1>2, <1>3, PTL DEF Spec

-----------------------------------------------------------------------------
(* Where codes come from.  Requests are numbered by ui.sequence, which no    *)
(* message exceeds, so nothing in flight answers a new request.  Whatever    *)
(* answers the request the screen waits for was received for it.             *)

\* under u, a code that answers request id is the one u waits for
Right(u, id, code) == id # 0 /\ id = u.request => code = [request |-> u.request, key |-> u.key]

Numbered ==
    /\ ui.request <= ui.sequence
    /\ worker.learnId <= ui.sequence /\ worker.out.id <= ui.sequence
    /\ \A i \in 1..Len(cmdQ) : cmdQ[i].id <= ui.sequence
    /\ \A i \in 1..Len(evtQ) : evtQ[i].id <= ui.sequence

Screened ==
    /\ ui.screen # "wait" => ui.request = 0
    /\ ui.screen = "result" => ui.code \in Codes /\ ui.code.key = ui.key

Provenance ==
    /\ rx.done > 0 => Right(ui, worker.learnId, rx.buffer)
    /\ worker.out.type = "LEARNED" => Right(ui, worker.out.id, worker.out.code)
    /\ \A i \in 1..Len(evtQ) : evtQ[i].type = "LEARNED" => Right(ui, evtQ[i].id, evtQ[i].code)

Origin == Numbered /\ Screened /\ Provenance /\ KeyGetsItsOwnCode
IrInv == IrTypeOK /\ Receiving /\ Origin

LEMMA AppendFacts ==
    ASSUME NEW S, NEW q \in Seq(S), NEW e \in S
    PROVE  \A i \in 1..Len(Append(q, e)) :
              (i \in 1..Len(q) /\ Append(q, e)[i] = q[i]) \/ Append(q, e)[i] = e
<1> TAKE i \in 1..Len(Append(q, e))
<1>1. Len(Append(q, e)) = Len(q) + 1 /\ Len(q) \in Nat
    OBVIOUS
<1>2. CASE i <= Len(q)
    BY <1>1, <1>2
<1>3. CASE i = Len(q) + 1
    BY <1>1, <1>3
<1> QED BY <1>1, <1>2, <1>3

LEMMA TailFacts ==
    ASSUME NEW S, NEW q \in Seq(S), q # <<>>
    PROVE  /\ 1 \in 1..Len(q) /\ Head(q) = q[1]
           /\ \A i \in 1..Len(Tail(q)) : i + 1 \in 1..Len(q) /\ Tail(q)[i] = q[i + 1]
<1>1. Len(q) \in Nat \ {0} /\ Head(q) = q[1]
    OBVIOUS
<1>2. Len(Tail(q)) = Len(q) - 1
    OBVIOUS
<1>3. ASSUME NEW i \in 1..Len(Tail(q))
      PROVE  i + 1 \in 1..Len(q) /\ Tail(q)[i] = q[i + 1]
    BY <1>1, <1>2
<1> QED BY <1>1, <1>3

LEMMA CommandNumbered ==
    ASSUME IrTypeOK, Numbered, NEW type, TakeCommand(type)
    PROVE  /\ Command.id <= ui.sequence
           /\ \A i \in 1..Len(cmdQ') : cmdQ'[i].id <= ui.sequence
<1>1. cmdQ \in Seq(Commands) /\ cmdQ # <<>> /\ cmdQ' = Tail(cmdQ) /\ Command = Head(cmdQ)
    BY DEF IrTypeOK, TakeCommand, Command
<1>2. /\ 1 \in 1..Len(cmdQ) /\ Head(cmdQ) = cmdQ[1]
      /\ \A i \in 1..Len(Tail(cmdQ)) : i + 1 \in 1..Len(cmdQ) /\ Tail(cmdQ)[i] = cmdQ[i + 1]
    BY <1>1, TailFacts
<1> QED BY <1>1, <1>2 DEF Numbered

\* a step of the worker that takes no event and posts none
LEMMA WorkerKeepsOrigin ==
    ASSUME IrTypeOK, Origin, UNCHANGED <<ui, saved, evtQ>>,
           \A i \in 1..Len(cmdQ') : cmdQ'[i].id <= ui.sequence,
           worker'.learnId <= ui.sequence, worker'.out.id <= ui.sequence,
           rx'.done = 0 \/ (rx'.done = rx.done /\ rx'.buffer = rx.buffer /\ worker'.learnId = worker.learnId),
           \/ worker'.out = worker.out
           \/ worker'.out.type # "LEARNED"
           \/ rx.done > 0 /\ worker'.out.id = worker.learnId /\ worker'.out.code = rx.buffer
    PROVE  Origin'
<1>1. Numbered'
    BY DEF Origin, Numbered
<1>2. Screened' /\ KeyGetsItsOwnCode'
    BY DEF Origin, Screened, KeyGetsItsOwnCode
<1>3. Provenance'
    <2>1. rx'.done > 0 => Right(ui', worker'.learnId, rx'.buffer)
        BY DEF Origin, Provenance
    <2>2. worker'.out.type = "LEARNED" => Right(ui', worker'.out.id, worker'.out.code)
        BY DEF Origin, Provenance
    <2>3. \A i \in 1..Len(evtQ') : evtQ'[i].type = "LEARNED" => Right(ui', evtQ'[i].id, evtQ'[i].code)
        BY DEF Origin, Provenance
    <2> QED BY <2>1, <2>2, <2>3 DEF Provenance
<1> QED BY <1>1, <1>2, <1>3 DEF Origin

LEMMA WorkerOrigin ==
    ASSUME IrTypeOK, Origin, Worker \/ DeadlinePasses, ~Post
    PROVE  Origin'
<1>0. /\ worker \in WorkerType /\ rx \in RxType /\ worker.out \in Events
      /\ worker.learnId \in Nat /\ ui.sequence \in Nat
      /\ worker.learnId <= ui.sequence /\ worker.out.id <= ui.sequence
      /\ \A i \in 1..Len(cmdQ) : cmdQ[i].id <= ui.sequence
    BY DEF IrTypeOK, WorkerType, UiType, Origin, Numbered
<1>1. ASSUME NEW type, TakeCommand(type)
      PROVE  /\ Command.id \in Nat /\ Command.id <= ui.sequence
             /\ \A i \in 1..Len(cmdQ') : cmdQ'[i].id <= ui.sequence
    BY <1>1, CommandNumbered, CommandType DEF Origin
<1>2. ASSUME NEW type \in EventTypes, NEW id \in Nat
      PROVE  Event(type, id).type = type /\ Event(type, id).id = id
    BY DEF Event, NoEvent, Noise
<1>3. ASSUME NEW ok, Reset(rx', ok)
      PROVE  rx' = rx \/ rx'.done = 0
    BY <1>3, ResetShape
<1>4. CASE TakeCancel
    <2>1. worker'.out = worker.out /\ worker'.learnId = worker.learnId
        BY <1>0, <1>4 DEF TakeCancel, WorkerType
    <2>2. rx' = rx \/ rx'.done = 0
        BY <1>3, <1>4 DEF TakeCancel
    <2>3. \A i \in 1..Len(cmdQ') : cmdQ'[i].id <= ui.sequence
        BY <1>1, <1>4 DEF TakeCancel
    <2>4. UNCHANGED <<ui, saved, evtQ>>
        BY <1>4 DEF TakeCancel
    <2> QED BY <1>0, <2>1, <2>2, <2>3, <2>4, WorkerKeepsOrigin
<1>5. CASE TakeLearn
    <2>1. /\ Command.id \in Nat /\ Command.id <= ui.sequence
          /\ \A i \in 1..Len(cmdQ') : cmdQ'[i].id <= ui.sequence
        BY <1>1, <1>5 DEF TakeLearn
    <2>2. UNCHANGED <<ui, saved, evtQ>>
        BY <1>5 DEF TakeLearn
    <2>3. CASE /\ rx' = Armed(Flushed(rx))
               /\ worker' = [worker EXCEPT !.learning = TRUE, !.learnId = Command.id, !.due = FALSE, !.pc = "poll"]
        <3>1. worker'.out = worker.out /\ worker'.learnId = Command.id
            BY <1>0, <2>3 DEF WorkerType
        <3>2. rx'.done = 0
            BY <1>0, <2>3, FlushedType
        <3> QED BY <1>0, <2>1, <2>2, <3>1, <3>2, WorkerKeepsOrigin
    <2>4. CASE /\ Reset(rx', FALSE) \/ (rx' = Flushed(rx) /\ Fault("receive"))
               /\ worker' = Posting([worker EXCEPT !.learning = FALSE], Event("FAILED", Command.id), "command")
        <3>1. worker'.learnId = worker.learnId /\ worker'.out = Event("FAILED", Command.id)
            BY <2>1, <2>4, GivenUpType DEF EventTypes
        <3>2. worker'.out.type = "FAILED" /\ worker'.out.id = Command.id
            BY <1>2, <2>1, <3>1 DEF EventTypes
        <3>3. rx' = rx \/ rx'.done = 0
            BY <1>0, <1>3, <2>4, FlushedType
        <3> QED BY <1>0, <2>1, <2>2, <3>1, <3>2, <3>3, WorkerKeepsOrigin
    <2> QED BY <1>5, <2>3, <2>4 DEF TakeLearn
<1>6. CASE TakeSend
    <2>1. /\ Command.id \in Nat /\ Command.id <= ui.sequence
          /\ \A i \in 1..Len(cmdQ') : cmdQ'[i].id <= ui.sequence
        BY <1>1, <1>6 DEF TakeSend
    <2>2. PICK type \in {"TX_DONE", "TX_FAIL"} : worker' = Posting(worker, Event(type, Command.id), Onward(worker))
        BY <1>6 DEF TakeSend
    <2>3. type \in EventTypes /\ Event(type, Command.id) \in Events /\ Onward(worker) \in Places
        BY <2>1, EventType DEF EventTypes, Onward, Places
    <2>4. worker'.learnId = worker.learnId /\ worker'.out = Event(type, Command.id)
        BY <1>0, <2>2, <2>3, PostingType
    <2>5. worker'.out.type # "LEARNED" /\ worker'.out.id = Command.id
        BY <1>2, <2>1, <2>3, <2>4
    <2>6. UNCHANGED <<rx, ui, saved, evtQ>>
        BY <1>6 DEF TakeSend
    <2> QED BY <1>0, <2>1, <2>4, <2>5, <2>6, WorkerKeepsOrigin
<1>7. CASE WaitEndsEmpty \/ PollNothing \/ DeadlinePasses
    <2>1. worker'.out = worker.out /\ worker'.learnId = worker.learnId
        BY <1>0, <1>7 DEF WaitEndsEmpty, PollNothing, DeadlinePasses, WorkerType
    <2>2. UNCHANGED <<cmdQ, rx, ui, saved, evtQ>>
        BY <1>7 DEF WaitEndsEmpty, PollNothing, DeadlinePasses
    <2> QED BY <1>0, <2>1, <2>2, WorkerKeepsOrigin
<1>8. CASE PollFrame
    <2>1. rx'.done = 0 /\ rx.done > 0 /\ rx.buffer \in Codes
        BY <1>0, <1>8 DEF PollFrame, RxType
    <2>2. UNCHANGED <<cmdQ, ui, saved, evtQ>>
        BY <1>8 DEF PollFrame
    <2>3. "command" \in Places /\ "rearm" \in Places
        BY DEF Places
    <2> DEFINE learned == [Event("LEARNED", worker.learnId) EXCEPT !.code = rx.buffer]
    <2> DEFINE w == [worker EXCEPT !.learning = FALSE]
    <2>4. learned \in Events /\ learned.id = worker.learnId /\ learned.code = rx.buffer
        <3>1. Event("LEARNED", worker.learnId) \in Events
            BY <1>0, EventType DEF EventTypes
        <3>2. Event("LEARNED", worker.learnId).id = worker.learnId
            BY <1>0, <1>2 DEF EventTypes
        <3> QED BY <2>1, <3>1, <3>2 DEF Events
    <2>5. w \in WorkerType /\ w.learnId = worker.learnId
        BY <1>0 DEF WorkerType
    <2>6. CASE worker' = Posting(w, learned, "command")
        <3> HIDE DEF learned, w
        <3>1. worker'.learnId = worker.learnId /\ worker'.out = learned
            BY <2>3, <2>4, <2>5, <2>6, PostingType
        <3> QED BY <1>0, <2>1, <2>2, <2>4, <3>1, WorkerKeepsOrigin
    <2>7. CASE worker' = Posting(worker, Event("UNSUPPORTED", worker.learnId), "rearm")
        <3>1. /\ Event("UNSUPPORTED", worker.learnId) \in Events
              /\ Event("UNSUPPORTED", worker.learnId).type = "UNSUPPORTED"
              /\ Event("UNSUPPORTED", worker.learnId).id = worker.learnId
            BY <1>0, <1>2, EventType DEF EventTypes
        <3>2. worker'.learnId = worker.learnId /\ worker'.out = Event("UNSUPPORTED", worker.learnId)
            BY <1>0, <2>3, <2>7, <3>1, PostingType
        <3> QED BY <1>0, <2>1, <2>2, <3>1, <3>2, WorkerKeepsOrigin
    <2> QED BY <1>8, <2>6, <2>7 DEF PollFrame
<1>9. CASE Rearm
    <2>1. UNCHANGED <<cmdQ, ui, saved, evtQ>>
        BY <1>9 DEF Rearm
    <2>2. CASE rx' = Armed(rx) /\ worker' = [worker EXCEPT !.pc = "deadline"]
        <3>1. worker'.out = worker.out /\ worker'.learnId = worker.learnId
            BY <1>0, <2>2 DEF WorkerType
        <3>2. rx'.done = rx.done /\ rx'.buffer = rx.buffer
            BY <1>0, <2>2 DEF Armed, RxType
        <3> QED BY <1>0, <2>1, <3>1, <3>2, WorkerKeepsOrigin
    <2>3. CASE /\ rx' \in {Flushed(rx), rx, [Flushed(rx) EXCEPT !.enabled = FALSE]}
               /\ worker' = Posting([worker EXCEPT !.learning = FALSE], Event("FAILED", worker.learnId), "command")
        <3>1. worker'.learnId = worker.learnId /\ worker'.out = Event("FAILED", worker.learnId)
            BY <1>0, <2>3, GivenUpType DEF EventTypes
        <3>2. worker'.out.type = "FAILED" /\ worker'.out.id = worker.learnId
            BY <1>0, <1>2, <3>1 DEF EventTypes
        <3>3. rx' = rx \/ rx'.done = 0
            BY <1>0, <2>3, FlushedType
        <3> QED BY <1>0, <2>1, <3>1, <3>2, <3>3, WorkerKeepsOrigin
    <2> QED BY <1>9, <2>2, <2>3 DEF Rearm
<1>10. CASE CheckDeadline
    <2>1. UNCHANGED <<cmdQ, ui, saved, evtQ>>
        BY <1>10 DEF CheckDeadline
    <2>2. CASE /\ \E ok \in BOOLEAN : Reset(rx', ok)
               /\ worker' = Posting([worker EXCEPT !.learning = FALSE], Event("TIMEOUT", worker.learnId), "command")
        <3>1. worker'.learnId = worker.learnId /\ worker'.out = Event("TIMEOUT", worker.learnId)
            BY <1>0, <2>2, GivenUpType DEF EventTypes
        <3>2. worker'.out.type = "TIMEOUT" /\ worker'.out.id = worker.learnId
            BY <1>0, <1>2, <3>1 DEF EventTypes
        <3>3. rx' = rx \/ rx'.done = 0
            BY <1>3, <2>2
        <3> QED BY <1>0, <2>1, <3>1, <3>2, <3>3, WorkerKeepsOrigin
    <2>3. CASE worker' = [worker EXCEPT !.pc = "command"] /\ UNCHANGED rx
        <3>1. worker'.out = worker.out /\ worker'.learnId = worker.learnId
            BY <1>0, <2>3 DEF WorkerType
        <3> QED BY <1>0, <2>1, <2>3, <3>1, WorkerKeepsOrigin
    <2> QED BY <1>10, <2>2, <2>3 DEF CheckDeadline
<1> QED BY <1>4, <1>5, <1>6, <1>7, <1>8, <1>9, <1>10 DEF Worker

\* the event of the worker enters the queue, or is dropped
LEMMA PostOrigin ==
    ASSUME IrTypeOK, Origin, Post
    PROVE  Origin'
<1>0. /\ worker \in WorkerType /\ worker.out \in Events /\ evtQ \in Seq(Events) /\ ui.sequence \in Nat
    BY DEF IrTypeOK, WorkerType, UiType
<1>1. UNCHANGED <<cmdQ, rx, ui, saved>>
    BY DEF Post
<1>2. worker'.learnId = worker.learnId /\ worker'.out = NoEvent
    BY <1>0 DEF Post, WorkerType
<1>3. NoEvent.type = "FAILED" /\ NoEvent.id = 0
    BY DEF NoEvent
<1>4. \A i \in 1..Len(evtQ') : (i \in 1..Len(evtQ) /\ evtQ'[i] = evtQ[i]) \/ evtQ'[i] = worker.out
    BY <1>0, AppendFacts DEF Post
<1>5. Numbered'
    BY <1>0, <1>1, <1>2, <1>3, <1>4 DEF Origin, Numbered
<1>6. Screened' /\ KeyGetsItsOwnCode'
    BY <1>1 DEF Origin, Screened, KeyGetsItsOwnCode
<1>7. Provenance'
    BY <1>1, <1>2, <1>3, <1>4 DEF Origin, Provenance
<1> QED BY <1>5, <1>6, <1>7 DEF Origin

\* what arrives is the code of the request waited for
LEMMA FrameOrigin ==
    ASSUME IrTypeOK, Origin, Frame
    PROVE  Origin'
<1>0. rx \in RxType
    BY DEF IrTypeOK
<1>1. UNCHANGED <<cmdQ, evtQ, worker, ui, saved>>
    BY DEF Frame
<1>2. ui.request # 0 => rx'.buffer = [request |-> ui.request, key |-> ui.key]
    BY <1>0 DEF Frame, RxType
<1>3. Numbered' /\ Screened' /\ KeyGetsItsOwnCode'
    BY <1>1 DEF Origin, Numbered, Screened, KeyGetsItsOwnCode
<1>4. Provenance'
    BY <1>1, <1>2 DEF Origin, Provenance, Right
<1> QED BY <1>3, <1>4 DEF Origin

\* what a step of the UI must do to keep it: follow its request, or give it up,
\* or make a new one under the next number
LEMMA UiKeepsOrigin ==
    ASSUME IrTypeOK, Numbered, Provenance, worker' = worker, rx' = rx,
           evtQ' = evtQ \/ (evtQ # <<>> /\ evtQ' = Tail(evtQ)),
           ui'.sequence \in {ui.sequence, ui.sequence + 1},
           \/ ui'.request = 0
           \/ ui'.request = ui.request /\ ui'.key = ui.key
           \/ ui'.request = ui.sequence + 1 /\ ui'.sequence = ui.sequence + 1,
           \/ cmdQ' = cmdQ
           \/ \E c \in Commands : c.id <= ui'.sequence /\ cmdQ' = Append(cmdQ, c)
    PROVE  Numbered' /\ Provenance'
<1>0. /\ ui.sequence \in Nat /\ ui.request \in Nat /\ worker.learnId \in Nat /\ worker.out.id \in Nat
      /\ cmdQ \in Seq(Commands) /\ evtQ \in Seq(Events)
      /\ ui'.sequence \in Nat /\ ui.sequence <= ui'.sequence
    BY DEF IrTypeOK, UiType, WorkerType, Events
<1>1. \A i \in 1..Len(evtQ) : evtQ[i].id \in Nat /\ evtQ[i].id <= ui.sequence
    <2>1. \A i \in 1..Len(evtQ) : evtQ[i] \in Events
        BY <1>0
    <2> QED BY <2>1 DEF Events, Numbered
<1>2. \A i \in 1..Len(evtQ') : \E j \in 1..Len(evtQ) : evtQ'[i] = evtQ[j]
    <2>1. CASE evtQ' = evtQ
        BY <2>1
    <2>2. CASE evtQ # <<>> /\ evtQ' = Tail(evtQ)
        <3>1. \A i \in 1..Len(Tail(evtQ)) : i + 1 \in 1..Len(evtQ) /\ Tail(evtQ)[i] = evtQ[i + 1]
            BY <1>0, <2>2, TailFacts
        <3> QED BY <2>2, <3>1
    <2> QED BY <2>1, <2>2
<1>3. \A i \in 1..Len(cmdQ) : cmdQ[i].id \in Nat /\ cmdQ[i].id <= ui.sequence
    <2>1. \A i \in 1..Len(cmdQ) : cmdQ[i] \in Commands
        BY <1>0
    <2> QED BY <2>1 DEF Commands, Numbered
<1>4. \A i \in 1..Len(cmdQ') : cmdQ'[i].id <= ui'.sequence
    <2>1. CASE cmdQ' = cmdQ
        BY <1>0, <1>3, <2>1
    <2>2. CASE \E c \in Commands : c.id <= ui'.sequence /\ cmdQ' = Append(cmdQ, c)
        <3>1. PICK c \in Commands : c.id <= ui'.sequence /\ cmdQ' = Append(cmdQ, c)
            BY <2>2
        <3>2. \A i \in 1..Len(cmdQ') : (i \in 1..Len(cmdQ) /\ cmdQ'[i] = cmdQ[i]) \/ cmdQ'[i] = c
            BY <1>0, <3>1, AppendFacts
        <3> QED BY <1>0, <1>3, <3>1, <3>2
    <2> QED BY <2>1, <2>2
<1>5. Numbered'
    <2>1. ui'.request <= ui'.sequence
        BY <1>0 DEF Numbered
    <2>2. worker'.learnId <= ui'.sequence /\ worker'.out.id <= ui'.sequence
        BY <1>0 DEF Numbered
    <2>3. \A i \in 1..Len(evtQ') : evtQ'[i].id <= ui'.sequence
        <3> TAKE i \in 1..Len(evtQ')
        <3>1. PICK j \in 1..Len(evtQ) : evtQ'[i] = evtQ[j]
            BY <1>2
        <3>2. evtQ[j].id \in Nat /\ evtQ[j].id <= ui.sequence
            BY <1>1
        <3> QED BY <1>0, <3>1, <3>2
    <2> QED BY <1>4, <2>1, <2>2, <2>3 DEF Numbered
<1>6. ASSUME NEW id \in Nat, NEW code, id <= ui.sequence, Right(ui, id, code)
      PROVE  Right(ui', id, code)
    BY <1>0, <1>6 DEF Right
<1>7. Provenance'
    <2>1. rx'.done > 0 => Right(ui', worker'.learnId, rx'.buffer)
        BY <1>0, <1>6 DEF Provenance, Numbered
    <2>2. worker'.out.type = "LEARNED" => Right(ui', worker'.out.id, worker'.out.code)
        BY <1>0, <1>6 DEF Provenance, Numbered
    <2>3. \A i \in 1..Len(evtQ') : evtQ'[i].type = "LEARNED" => Right(ui', evtQ'[i].id, evtQ'[i].code)
        BY <1>1, <1>2, <1>6 DEF Provenance
    <2> QED BY <2>1, <2>2, <2>3 DEF Provenance
<1> QED BY <1>5, <1>7

LEMMA LearnStartOrigin ==
    ASSUME IrTypeOK, Origin, NEW u \in UiType, u.sequence = ui.sequence, LearnStart(u)
    PROVE  Origin'
<1>0. u.sequence + 1 \in Nat
    BY DEF UiType
<1>1. /\ ui'.screen = "wait" /\ ui'.sequence = ui.sequence + 1
      /\ ui'.request = 0 \/ ui'.request = ui.sequence + 1
    BY DEF LearnStart, UiType
<1>2. \/ cmdQ' = cmdQ
      \/ \E c \in Commands : c.id <= ui'.sequence /\ cmdQ' = Append(cmdQ, c)
    <2>1. [type |-> "LEARN", id |-> u.sequence + 1] \in Commands
        BY <1>0 DEF Commands
    <2>2. u.sequence + 1 <= ui'.sequence
        BY <1>0, <1>1
    <2>3. CASE Room
        <3>1. cmdQ' = Append(cmdQ, [type |-> "LEARN", id |-> u.sequence + 1])
            BY <2>3 DEF LearnStart
        <3> QED BY <2>1, <2>2, <3>1
    <2>4. CASE ~Room
        BY <2>4 DEF LearnStart
    <2> QED BY <2>3, <2>4
<1>3. UNCHANGED <<worker, rx, evtQ, saved>>
    BY DEF LearnStart
<1>4. Numbered' /\ Provenance'
    BY <1>1, <1>2, <1>3, UiKeepsOrigin DEF Origin
<1>5. Screened' /\ KeyGetsItsOwnCode'
    BY <1>1, <1>3 DEF Origin, Screened, KeyGetsItsOwnCode
<1> QED BY <1>4, <1>5 DEF Origin

\* a code of the UI's key is stored for that key, or kept for another try
LEMMA StoreOrigin ==
    ASSUME IrTypeOK, Origin, NEW code \in Codes, code.key = ui.key, Store(code)
    PROVE  /\ Screened' /\ KeyGetsItsOwnCode'
           /\ ui'.request = 0 /\ ui'.sequence = ui.sequence
<1>0. ui \in UiType /\ saved \in [Keys -> Codes \cup {NoCode}]
    BY DEF IrTypeOK
<1>1. PICK status \in {"SAVED", "SAVE_FAILED"} :
         ui' = [ui EXCEPT !.screen = "result", !.draining = TRUE, !.request = 0,
                          !.code = code, !.status = status]
    BY DEF Store
<1>2. /\ ui'.screen = "result" /\ ui'.request = 0 /\ ui'.sequence = ui.sequence
      /\ ui'.code = code /\ ui'.key = ui.key
    BY <1>0, <1>1 DEF UiType
<1>3. KeyGetsItsOwnCode'
    <2>1. saved' = saved \/ saved' = [saved EXCEPT ![ui.key] = code]
        BY DEF Store
    <2>2. \A k \in Keys : saved'[k] = saved[k] \/ (k = ui.key /\ saved'[k] = code)
        BY <1>0, <2>1
    <2> QED BY <2>2 DEF Origin, KeyGetsItsOwnCode
<1> QED BY <1>2, <1>3 DEF Screened

LEMMA KeyOrigin ==
    ASSUME IrTypeOK, Origin, UserKey
    PROVE  Origin'
<1>0. ui \in UiType /\ ui.sequence \in Nat /\ ui.sequence + 1 \in Nat
    BY DEF IrTypeOK, UiType
<1>1. CASE SelectKey
    <2>1. PICK k \in Keys :
             LET chosen == [ui EXCEPT !.key = k, !.code = saved[k]]
             IN  \/ /\ ui' = [chosen EXCEPT !.screen = "replace", !.draining = TRUE]
                    /\ UNCHANGED <<cmdQ, evtQ, worker, rx, saved, lost, budget>>
                 \/ LearnStart(chosen)
        BY <1>1 DEF SelectKey
    <2> DEFINE chosen == [ui EXCEPT !.key = k, !.code = saved[k]]
    <2>2. chosen \in UiType /\ chosen.sequence = ui.sequence /\ chosen.request = 0
        <3>1. saved[k] \in Codes \cup {NoCode}
            BY DEF IrTypeOK
        <3>2. ui.request = 0
            BY <1>1 DEF SelectKey, Origin, Screened
        <3> QED BY <1>0, <3>1, <3>2 DEF UiType
    <2>3. CASE ui' = [chosen EXCEPT !.screen = "replace", !.draining = TRUE]
               /\ UNCHANGED <<cmdQ, evtQ, worker, rx, saved, lost, budget>>
        <3>1. ui'.screen = "replace" /\ ui'.request = 0 /\ ui'.sequence = ui.sequence
            <4> HIDE DEF chosen
            <4> QED BY <2>2, <2>3 DEF UiType
        <3>2. Numbered' /\ Provenance'
            BY <1>0, <2>3, <3>1, UiKeepsOrigin DEF Origin
        <3>3. Screened' /\ KeyGetsItsOwnCode'
            BY <2>3, <3>1 DEF Origin, Screened, KeyGetsItsOwnCode
        <3> QED BY <3>2, <3>3 DEF Origin
    <2>4. CASE LearnStart(chosen)
        <3> HIDE DEF chosen
        <3> QED BY <2>2, <2>4, LearnStartOrigin
    <2> QED BY <2>1, <2>3, <2>4
<1>2. CASE ReRecord \/ Retry
    BY <1>0, <1>2, LearnStartOrigin DEF ReRecord, Retry
<1>3. CASE Leave
    <2>1. /\ ui'.screen \in {"keys", "elsewhere"} /\ ui'.request = 0
          /\ ui'.sequence = ui.sequence
        BY <1>0, <1>3 DEF Leave, Left, UiType
    <2>2. UNCHANGED <<evtQ, worker, rx, saved>>
        BY <1>3 DEF Leave
    <2>3. CancelCommand \in Commands /\ CancelCommand.id <= ui'.sequence
        BY <1>0, <2>1 DEF CancelCommand, Commands, UiType, Origin, Numbered
    <2>4. cmdQ' = cmdQ \/ cmdQ' = Append(cmdQ, CancelCommand)
        BY <1>3 DEF Leave
    <2>5. Numbered' /\ Provenance'
        BY <1>0, <2>1, <2>2, <2>3, <2>4, UiKeepsOrigin DEF Origin
    <2>6. Screened' /\ KeyGetsItsOwnCode'
        BY <2>1, <2>2 DEF Origin, Screened, KeyGetsItsOwnCode
    <2> QED BY <2>5, <2>6 DEF Origin
<1>4. CASE EnterKeys
    <2>1. ui'.screen = "keys" /\ ui'.request = 0 /\ ui'.sequence = ui.sequence
        BY <1>0, <1>4 DEF EnterKeys, UiType, Origin, Screened
    <2>2. UNCHANGED <<cmdQ, evtQ, worker, rx, saved>>
        BY <1>4 DEF EnterKeys
    <2>3. Numbered' /\ Provenance'
        BY <1>0, <2>1, <2>2, UiKeepsOrigin DEF Origin
    <2>4. Screened' /\ KeyGetsItsOwnCode'
        BY <2>1, <2>2 DEF Origin, Screened, KeyGetsItsOwnCode
    <2> QED BY <2>3, <2>4 DEF Origin
<1>5. CASE ResultOk
    <2>1. UNCHANGED <<cmdQ, evtQ, worker, rx>>
        BY <1>5 DEF ResultOk
    <2>2. CASE Store(ui.code)
        <3>1. ui.code \in Codes /\ ui.code.key = ui.key
            BY <1>5 DEF ResultOk, Origin, Screened
        <3>2. /\ Screened' /\ KeyGetsItsOwnCode'
              /\ ui'.request = 0 /\ ui'.sequence = ui.sequence
            BY <2>2, <3>1, StoreOrigin
        <3>3. Numbered' /\ Provenance'
            BY <1>0, <2>1, <3>2, UiKeepsOrigin DEF Origin
        <3> QED BY <3>2, <3>3 DEF Origin
    <2>3. CASE ui' = Left(ui, "keys") /\ UNCHANGED saved
        <3>1. ui'.screen = "keys" /\ ui'.request = 0 /\ ui'.sequence = ui.sequence
            BY <1>0, <2>3 DEF Left, UiType
        <3>2. Numbered' /\ Provenance'
            BY <1>0, <2>1, <3>1, UiKeepsOrigin DEF Origin
        <3>3. Screened' /\ KeyGetsItsOwnCode'
            BY <2>3, <3>1 DEF Origin, Screened, KeyGetsItsOwnCode
        <3> QED BY <3>2, <3>3 DEF Origin
    <2> QED BY <1>5, <2>2, <2>3 DEF ResultOk
<1>6. CASE Transmit
    <2>1. /\ ui'.screen = ui.screen /\ ui'.request = ui.request /\ ui'.key = ui.key
          /\ ui'.code = ui.code /\ ui'.sequence = ui.sequence + 1
        BY <1>0, <1>6 DEF Transmit, UiType
    <2>2. UNCHANGED <<evtQ, worker, rx, saved>>
        BY <1>6 DEF Transmit
    <2> DEFINE send == [type |-> "SEND", id |-> ui.sequence + 1]
    <2>3. send \in Commands /\ send.id <= ui'.sequence
        BY <1>0, <2>1 DEF Commands
    <2>4. cmdQ' = cmdQ \/ cmdQ' = Append(cmdQ, send)
        BY <1>6 DEF Transmit
    <2>5. Numbered' /\ Provenance'
        <3> HIDE DEF send
        <3> QED BY <1>0, <2>1, <2>2, <2>3, <2>4, UiKeepsOrigin DEF Origin
    <2>6. Screened' /\ KeyGetsItsOwnCode'
        BY <2>1, <2>2 DEF Origin, Screened, KeyGetsItsOwnCode
    <2> QED BY <2>5, <2>6 DEF Origin
<1> QED BY <1>1, <1>2, <1>3, <1>4, <1>5, <1>6 DEF UserKey

LEMMA TurnOrigin ==
    ASSUME IrTypeOK, Origin, UiTurn
    PROVE  Origin'
<1>0. ui \in UiType /\ ui.sequence \in Nat /\ evtQ \in Seq(Events)
    BY DEF IrTypeOK, UiType
<1>1. ASSUME TakeEvent
      PROVE  evtQ # <<>> /\ evtQ' = Tail(evtQ)
    BY <1>1 DEF TakeEvent
<1>2. CASE EventIgnored
    <2>1. Numbered' /\ Provenance'
        BY <1>0, <1>1, <1>2, UiKeepsOrigin DEF EventIgnored, Origin
    <2> QED BY <1>2, <2>1 DEF EventIgnored, Origin, Screened, KeyGetsItsOwnCode
<1>3. CASE EventUnsupported \/ Drained
    <2>1. /\ ui'.screen = ui.screen /\ ui'.request = ui.request /\ ui'.key = ui.key
          /\ ui'.code = ui.code /\ ui'.sequence = ui.sequence
        BY <1>0, <1>3 DEF EventUnsupported, Drained, UiType
    <2>2. UNCHANGED <<cmdQ, worker, rx, saved>>
        BY <1>3 DEF EventUnsupported, Drained
    <2>3. evtQ' = evtQ \/ (evtQ # <<>> /\ evtQ' = Tail(evtQ))
        BY <1>1, <1>3 DEF EventUnsupported, Drained
    <2>4. Numbered' /\ Provenance'
        BY <1>0, <2>1, <2>2, <2>3, UiKeepsOrigin DEF Origin
    <2>5. Screened' /\ KeyGetsItsOwnCode'
        BY <2>1, <2>2 DEF Origin, Screened, KeyGetsItsOwnCode
    <2> QED BY <2>4, <2>5 DEF Origin
<1>4. CASE EventLearned
    <2>1. evtQ # <<>> /\ evtQ' = Tail(evtQ) /\ UNCHANGED <<cmdQ, worker, rx>>
        BY <1>1, <1>4 DEF EventLearned
    <2>2. 1 \in 1..Len(evtQ) /\ Received = evtQ[1]
        BY <1>0, <2>1, TailFacts DEF Received
    <2>3. Received.code = [request |-> ui.request, key |-> ui.key]
        BY <1>4, <2>2 DEF EventLearned, Mine, Origin, Provenance, Right
    <2>4. Received.code \in Codes /\ Received.code.key = ui.key
        BY <1>0, <2>3 DEF Codes, UiType
    <2>5. /\ Screened' /\ KeyGetsItsOwnCode'
          /\ ui'.request = 0 /\ ui'.sequence = ui.sequence
        BY <1>4, <2>4, StoreOrigin DEF EventLearned
    <2>6. Numbered' /\ Provenance'
        BY <1>0, <2>1, <2>5, UiKeepsOrigin DEF Origin
    <2> QED BY <2>5, <2>6 DEF Origin
<1>5. CASE EventEnded
    <2>1. /\ ui'.screen = "wait" /\ ui'.request = 0 /\ ui'.sequence = ui.sequence
        BY <1>0, <1>5 DEF EventEnded, Mine, UiType
    <2>2. UNCHANGED <<cmdQ, worker, rx, saved>>
        BY <1>5 DEF EventEnded
    <2>3. evtQ # <<>> /\ evtQ' = Tail(evtQ)
        BY <1>1, <1>5 DEF EventEnded
    <2>4. Numbered' /\ Provenance'
        BY <1>0, <2>1, <2>2, <2>3, UiKeepsOrigin DEF Origin
    <2>5. Screened' /\ KeyGetsItsOwnCode'
        BY <2>1, <2>2 DEF Origin, Screened, KeyGetsItsOwnCode
    <2> QED BY <2>4, <2>5 DEF Origin
<1> QED BY <1>2, <1>3, <1>4, <1>5 DEF UiTurn

-----------------------------------------------------------------------------
LEMMA InitOrigin == Init => Origin
<1> SUFFICES ASSUME Init
             PROVE  Origin
    OBVIOUS
<1>1. Numbered
    BY DEF Init, Numbered, NoEvent
<1>2. Screened /\ KeyGetsItsOwnCode
    BY DEF Init, Screened, KeyGetsItsOwnCode
<1>3. Provenance
    BY DEF Init, Provenance, NoEvent
<1> QED BY <1>1, <1>2, <1>3 DEF Origin

LEMMA OriginStep == IrInv /\ [Next]_vars => IrInv'
<1> SUFFICES ASSUME IrInv, [Next]_vars
             PROVE  IrInv'
    OBVIOUS
<1>0. IrTypeOK /\ Origin
    BY DEF IrInv
<1>1. IrTypeOK' /\ Receiving'
    BY TypedStep DEF IrInv
<1>2. CASE Worker \/ DeadlinePasses
    <2>1. CASE Post
        BY <1>0, <1>1, <2>1, PostOrigin DEF IrInv
    <2>2. CASE ~Post
        BY <1>0, <1>1, <1>2, <2>2, WorkerOrigin DEF IrInv
    <2> QED BY <2>1, <2>2
<1>3. CASE Frame
    BY <1>0, <1>1, <1>3, FrameOrigin DEF IrInv
<1>4. CASE UserKey
    BY <1>0, <1>1, <1>4, KeyOrigin DEF IrInv
<1>5. CASE UiTurn
    BY <1>0, <1>1, <1>5, TurnOrigin DEF IrInv
<1>6. CASE UNCHANGED vars
    <2>1. Numbered' /\ Screened' /\ KeyGetsItsOwnCode'
        BY <1>0, <1>6 DEF vars, Origin, Numbered, Screened, KeyGetsItsOwnCode
    <2>2. Provenance'
        BY <1>0, <1>6 DEF vars, Origin, Provenance
    <2> QED BY <1>1, <2>1, <2>2 DEF IrInv, Origin
<1> QED BY <1>2, <1>3, <1>4, <1>5, <1>6 DEF Next

\* The code stored for a key was received while that key was being recorded
\* (ui_screens.c:142-173, ui_ir.c:3-25, ir_nec.c:174-245).
THEOREM RightCode == Spec => []KeyGetsItsOwnCode
<1>1. Init => IrInv
    BY InitTyped, InitOrigin DEF IrInv
<1>2. IrInv /\ [Next]_vars => IrInv'
    BY OriginStep
<1>3. IrInv => KeyGetsItsOwnCode
    BY DEF IrInv, Origin
<1> QED BY <1>1, <1>2, <1>3, PTL DEF Spec

LEMMA FreshStep ==
    ASSUME IrInv, [Next]_vars, NEW k \in Keys, saved'[k] # saved[k], ui.screen = "wait"
    PROVE  saved'[k].request = ui.request
<1>0. IrTypeOK /\ Origin /\ ui \in UiType /\ evtQ \in Seq(Events)
    BY DEF IrInv, IrTypeOK
<1>1. EventLearned
    <2>1. CASE Worker
        BY <2>1 DEF Worker, TakeCancel, TakeLearn, TakeSend, WaitEndsEmpty, PollFrame,
                    PollNothing, Rearm, CheckDeadline, Post
    <2>2. CASE Frame \/ DeadlinePasses
        BY <2>2 DEF Frame, DeadlinePasses
    <2>3. CASE UserKey
        BY <2>3 DEF UserKey, SelectKey, ReRecord, Retry, LearnStart, Leave, EnterKeys, ResultOk, Transmit
    <2>4. CASE UiTurn
        BY <2>4 DEF UiTurn, EventIgnored, EventUnsupported, EventEnded, Drained
    <2>5. CASE UNCHANGED vars
        BY <2>5 DEF vars
    <2> QED BY <2>1, <2>2, <2>3, <2>4, <2>5 DEF Next
<1>2. 1 \in 1..Len(evtQ) /\ Received = evtQ[1]
    BY <1>0, <1>1, TailFacts DEF EventLearned, TakeEvent, Received
<1>3. Received.code = [request |-> ui.request, key |-> ui.key]
    BY <1>0, <1>1, <1>2 DEF EventLearned, Mine, Origin, Provenance, Right
<1>4. saved'[k] = Received.code
    BY <1>0, <1>1 DEF EventLearned, Store, IrTypeOK
<1> QED BY <1>3, <1>4

\* A code that is stored on arrival was received for the request that the
\* screen waits for (ui_screens.c:142-173, ui_ir.c:3-25).
THEOREM RightRequest == Spec => FreshCapture
<1>1. Init => IrInv
    BY InitTyped, InitOrigin DEF IrInv
<1>2. IrInv /\ [Next]_vars => IrInv'
    BY OriginStep
<1>3. IrInv /\ [Next]_vars =>
         [\A k \in Keys : saved'[k] # saved[k] /\ ui.screen = "wait" => saved'[k].request = ui.request]_vars
    BY FreshStep
<1> QED BY <1>1, <1>2, <1>3, PTL DEF Spec, FreshCapture

-----------------------------------------------------------------------------
(* A recording that goes on has a receive in progress, a frame to decode,  *)
(* or a worker on its way to arm the channel again.                        *)

Hearing == worker.learning => rx.armed \/ rx.done > 0 \/ Rearming

LEMMA HearingStep ==
    ASSUME IrTypeOK, Hearing, [Next]_vars
    PROVE  Hearing'
<1>0. worker \in WorkerType /\ rx \in RxType
    BY DEF IrTypeOK
<1>1. CASE TakeCancel
    <2>1. CASE worker.learning /\ Command.id = worker.learnId
        <3>1. ~worker'.learning
            BY <1>0, <1>1, <2>1 DEF TakeCancel, WorkerType
        <3> QED BY <3>1 DEF Hearing
    <2>2. CASE ~(worker.learning /\ Command.id = worker.learnId)
        <3>1. worker'.learning = worker.learning /\ rx' = rx /\ worker.pc = "command"
            BY <1>0, <1>1, <2>2 DEF TakeCancel, TakeCommand, WorkerType
        <3> QED BY <3>1 DEF Hearing, Rearming
    <2> QED BY <2>1, <2>2
<1>2. CASE TakeLearn
    <2>1. Command.id \in Nat
        BY <1>2, CommandType DEF TakeLearn
    <2>2. CASE rx' = Armed(Flushed(rx))
        BY <1>0, <2>2 DEF Armed, Flushed, RxType, Hearing
    <2>3. CASE worker' = Posting([worker EXCEPT !.learning = FALSE], Event("FAILED", Command.id), "command")
        BY <2>1, <2>3, GivenUpType DEF EventTypes, Hearing
    <2> QED BY <1>2, <2>2, <2>3 DEF TakeLearn
<1>3. CASE TakeSend
    <2>1. worker'.learning = worker.learning /\ rx' = rx /\ worker.pc = "command"
        BY <1>0, <1>3 DEF TakeSend, TakeCommand, Posting, WorkerType
    <2> QED BY <2>1 DEF Hearing, Rearming
<1>4. CASE WaitEndsEmpty \/ PollNothing
    <2>1. worker'.learning = worker.learning /\ rx' = rx /\ worker.pc \in {"command", "poll"}
        BY <1>0, <1>4 DEF WaitEndsEmpty, PollNothing, WorkerType
    <2> QED BY <2>1 DEF Hearing, Rearming
<1>5. CASE PollFrame
    <2>1. CASE worker' = Posting(worker, Event("UNSUPPORTED", worker.learnId), "rearm")
        BY <1>0, <2>1 DEF Posting, WorkerType, Hearing, Rearming
    <2>2. CASE worker' = Posting([worker EXCEPT !.learning = FALSE],
                                 [Event("LEARNED", worker.learnId) EXCEPT !.code = rx.buffer], "command")
        BY <1>0, <2>2 DEF Posting, WorkerType, Hearing
    <2> QED BY <1>5, <2>1, <2>2 DEF PollFrame
<1>6. CASE Rearm
    <2>1. CASE rx' = Armed(rx)
        BY <1>0, <2>1 DEF Armed, RxType, Hearing
    <2>2. CASE worker' = Posting([worker EXCEPT !.learning = FALSE], Event("FAILED", worker.learnId), "command")
        BY <1>0, <2>2, GivenUpType DEF EventTypes, WorkerType, Hearing
    <2> QED BY <1>6, <2>1, <2>2 DEF Rearm
<1>7. CASE CheckDeadline
    <2>1. CASE worker' = Posting([worker EXCEPT !.learning = FALSE], Event("TIMEOUT", worker.learnId), "command")
        BY <1>0, <2>1, GivenUpType DEF EventTypes, WorkerType, Hearing
    <2>2. CASE worker' = [worker EXCEPT !.pc = "command"] /\ UNCHANGED rx
        <3>1. worker'.learning = worker.learning /\ rx' = rx /\ worker.pc = "deadline"
            BY <1>0, <1>7, <2>2 DEF CheckDeadline, WorkerType
        <3> QED BY <3>1 DEF Hearing, Rearming
    <2> QED BY <1>7, <2>1, <2>2 DEF CheckDeadline
<1>8. CASE Post
    <2>1. /\ worker'.learning = worker.learning /\ rx' = rx
          /\ worker.pc = "post" /\ worker'.pc = worker.then
        BY <1>0, <1>8 DEF Post, WorkerType
    <2> QED BY <2>1 DEF Hearing, Rearming
<1>9. CASE Frame
    <2>1. rx'.done = rx.done + 1 /\ rx.done \in 0..1
        BY <1>0, <1>9 DEF Frame, RxType
    <2> QED BY <2>1 DEF Hearing
<1>10. CASE DeadlinePasses
    <2>1. /\ worker'.learning = worker.learning /\ rx' = rx
          /\ worker'.pc = worker.pc /\ worker'.then = worker.then
        BY <1>0, <1>10 DEF DeadlinePasses, WorkerType
    <2> QED BY <2>1 DEF Hearing, Rearming
<1>11. CASE UserKey \/ UiTurn
    <2>1. worker' = worker /\ rx' = rx
        <3>1. CASE SelectKey \/ ReRecord \/ Retry
            BY <3>1 DEF SelectKey, ReRecord, Retry, LearnStart
        <3>2. CASE Leave \/ EnterKeys \/ ResultOk \/ Transmit
            BY <3>2 DEF Leave, EnterKeys, ResultOk, Transmit
        <3>3. CASE UiTurn
            BY <3>3 DEF UiTurn, EventIgnored, EventUnsupported, EventLearned, EventEnded, Drained
        <3> QED BY <1>11, <3>1, <3>2, <3>3 DEF UserKey
    <2> QED BY <2>1 DEF Hearing, Rearming
<1>12. CASE UNCHANGED vars
    BY <1>12 DEF vars, Hearing, Rearming
<1> QED BY <1>1, <1>2, <1>3, <1>4, <1>5, <1>6, <1>7, <1>8, <1>9, <1>10, <1>11, <1>12 DEF Next, Worker

\* Between two commands a recording that goes on has a receive in progress or
\* a frame to decode, whatever was sent, unsupported or reset meanwhile
\* (ir_nec.c:169-245).
THEOREM ReceiverIsNeverDeaf == Spec => []NeverDeaf
<1> DEFINE Inv == IrTypeOK /\ Receiving /\ Hearing
<1>1. Init => Inv
    BY InitTyped DEF Init, Hearing
<1>2. Inv /\ [Next]_vars => Inv'
    BY TypedStep, HearingStep
<1>3. Inv => NeverDeaf
    BY DEF Hearing, NeverDeaf, Rearming
<1> QED BY <1>1, <1>2, <1>3, PTL DEF Spec

-----------------------------------------------------------------------------
(* What the worker listens for.  The command queue tells the worker's       *)
(* future: a LEARN that nobody waits for any more has its CANCEL behind it, *)
(* and a request that is waited for is still queued, listened for, or has   *)
(* its answer on the way.                                                   *)

Ending == {"LEARNED", "TIMEOUT", "FAILED"}
Learns(c, id) == c.type = "LEARN" /\ c.id = id
Cancels(c, id) == c.type = "CANCEL" /\ c.id = id
CancelledAfter(q, i, id) == \E j \in 1..Len(q) : i < j /\ Cancels(q[j], id)

\* requests are queued in the order of their numbers, the one waited for last
Ordered ==
    /\ worker.learning => worker.learnId # 0
    /\ \A i \in 1..Len(cmdQ) : cmdQ[i].type = "LEARN" =>
          /\ worker.learnId < cmdQ[i].id
          /\ ui.request # 0 => cmdQ[i].id <= ui.request
          /\ \A j \in 1..Len(cmdQ) : i < j /\ cmdQ[j].type = "LEARN" => cmdQ[i].id < cmdQ[j].id
    /\ \A i \in 1..Len(cmdQ) : cmdQ[i].type = "CANCEL" => cmdQ[i].id # 0 /\ cmdQ[i].id # ui.request

\* a recording whose end has been reported does not go on
Over(e) == e.type \in Ending =>
    /\ ~(worker.learning /\ worker.learnId = e.id)
    /\ \A i \in 1..Len(cmdQ) : ~Learns(cmdQ[i], e.id)
Settled ==
    /\ worker.pc # "post" => worker.out = NoEvent
    /\ ui.status \in {"FAILED", "TIMEOUT"} => ui.request = 0
    /\ Over(worker.out)
    /\ \A k \in 1..Len(evtQ) : Over(evtQ[k])

Answers(e, id) == e.type \in Ending /\ e.id = id
Awaited ==
    \/ \E i \in 1..Len(cmdQ) : Learns(cmdQ[i], ui.request)
    \/ worker.learning /\ worker.learnId = ui.request
    \/ Answers(worker.out, ui.request)
    \/ \E k \in 1..Len(evtQ) : Answers(evtQ[k], ui.request)
Stopping ==
    /\ worker.learning /\ worker.learnId # ui.request => CancelledAfter(cmdQ, 0, worker.learnId)
    /\ \A i \in 1..Len(cmdQ) :
          cmdQ[i].type = "LEARN" /\ cmdQ[i].id # ui.request => CancelledAfter(cmdQ, i, cmdQ[i].id)
Agreeing == ~lost => Stopping /\ (ui.request # 0 => Awaited)

AgreeInv == Ordered /\ Settled /\ Agreeing

LEMMA NoEventFacts == NoEvent.type = "FAILED" /\ NoEvent.id = 0
BY DEF NoEvent

\* queued numbers are numbers
LEMMA NumberFacts ==
    ASSUME IrTypeOK
    PROVE  /\ worker \in WorkerType /\ worker.learnId \in Nat /\ worker.learning \in BOOLEAN
           /\ worker.out \in Events /\ worker.out.id \in Nat
           /\ ui \in UiType /\ ui.request \in Nat /\ ui.sequence \in Nat
           /\ cmdQ \in Seq(Commands) /\ evtQ \in Seq(Events)
           /\ \A i \in 1..Len(cmdQ) : cmdQ[i] \in Commands /\ cmdQ[i].id \in Nat
           /\ \A i \in 1..Len(evtQ) : evtQ[i] \in Events /\ evtQ[i].id \in Nat
<1>1. /\ worker \in WorkerType /\ ui \in UiType /\ cmdQ \in Seq(Commands) /\ evtQ \in Seq(Events)
    BY DEF IrTypeOK
<1>2. /\ worker.learnId \in Nat /\ worker.learning \in BOOLEAN
      /\ worker.out \in Events /\ worker.out.id \in Nat
    BY <1>1 DEF WorkerType, Events
<1>3. ui.request \in Nat /\ ui.sequence \in Nat
    BY <1>1 DEF UiType
<1>4. \A i \in 1..Len(cmdQ) : cmdQ[i] \in Commands
    BY <1>1
<1>5. \A i \in 1..Len(evtQ) : evtQ[i] \in Events
    BY <1>1
<1>6. \A i \in 1..Len(cmdQ) : cmdQ[i].id \in Nat
    BY <1>4 DEF Commands
<1>7. \A i \in 1..Len(evtQ) : evtQ[i].id \in Nat
    BY <1>5 DEF Events
<1> QED BY <1>1, <1>2, <1>3, <1>4, <1>5, <1>6, <1>7

\* a step of the worker that goes on as before, or reports something passing
LEMMA WentOn ==
    ASSUME AgreeInv, UNCHANGED <<cmdQ, evtQ, ui, lost>>,
           worker'.learning = worker.learning, worker'.learnId = worker.learnId,
           \/ worker'.out = worker.out
           \/ worker.pc # "post" /\ worker'.out.type \notin Ending,
           worker'.pc # "post" => worker'.out = NoEvent
    PROVE  AgreeInv'
<1>1. Ordered'
    BY DEF AgreeInv, Ordered
<1>2. Settled'
    BY DEF AgreeInv, Settled, Over
<1>3. Agreeing'
    <2> SUFFICES ASSUME ~lost'
                 PROVE  Stopping' /\ (ui'.request # 0 => Awaited')
        BY DEF Agreeing
    <2>1. Stopping /\ (ui.request # 0 => Awaited)
        BY DEF AgreeInv, Agreeing
    <2>2. Stopping'
        BY <2>1 DEF Stopping
    <2>3. ui'.request # 0 => Awaited'
        BY <2>1, NoEventFacts DEF AgreeInv, Settled, Awaited, Answers
    <2> QED BY <2>2, <2>3
<1> QED BY <1>1, <1>2, <1>3 DEF AgreeInv

\* a step of the worker that ends its recording and says so
LEMMA GaveUp ==
    ASSUME IrTypeOK, AgreeInv, UNCHANGED <<cmdQ, evtQ, ui, lost>>, worker.pc # "post",
           ~worker'.learning, worker'.learnId = worker.learnId, worker'.pc = "post",
           worker'.out.type \in Ending, worker'.out.id = worker.learnId
    PROVE  AgreeInv'
<1>0. /\ worker.learnId \in Nat /\ \A i \in 1..Len(cmdQ) : cmdQ[i].id \in Nat
      /\ worker.out = NoEvent
    BY NumberFacts DEF AgreeInv, Settled
<1>1. Ordered'
    BY DEF AgreeInv, Ordered
<1>2. Settled'
    <2>1. \A i \in 1..Len(cmdQ') : ~Learns(cmdQ'[i], worker'.out.id)
        BY <1>0 DEF AgreeInv, Ordered, Learns
    <2> QED BY <2>1 DEF AgreeInv, Settled, Over
<1>3. Agreeing'
    <2> SUFFICES ASSUME ~lost'
                 PROVE  Stopping' /\ (ui'.request # 0 => Awaited')
        BY DEF Agreeing
    <2>1. Stopping /\ (ui.request # 0 => Awaited)
        BY DEF AgreeInv, Agreeing
    <2>2. Stopping'
        BY <2>1 DEF Stopping
    <2>3. ui'.request # 0 => Awaited'
        BY <1>0, <2>1, NoEventFacts DEF Awaited, Answers
    <2> QED BY <2>2, <2>3
<1> QED BY <1>1, <1>2, <1>3 DEF AgreeInv

\* steps of the worker between two commands
LEMMA BetweenAgrees ==
    ASSUME IrTypeOK, AgreeInv,
           WaitEndsEmpty \/ PollFrame \/ PollNothing \/ Rearm \/ CheckDeadline \/ DeadlinePasses
    PROVE  AgreeInv'
<1>0. /\ worker \in WorkerType /\ worker.learnId \in Nat /\ rx \in RxType
      /\ worker.pc # "post" => worker.out = NoEvent
    BY NumberFacts DEF IrTypeOK, AgreeInv, Settled
<1>1. ASSUME NEW type \in EventTypes, NEW id \in Nat
      PROVE  Event(type, id).type = type /\ Event(type, id).id = id
    BY <1>1 DEF Event, NoEvent, Noise
<1>2. UNCHANGED <<cmdQ, evtQ, ui, lost>>
    BY DEF WaitEndsEmpty, PollFrame, PollNothing, Rearm, CheckDeadline, DeadlinePasses
<1>3. ASSUME NEW type \in Ending, worker.pc # "post",
             worker' = Posting([worker EXCEPT !.learning = FALSE], Event(type, worker.learnId), "command")
      PROVE  AgreeInv'
    <2>1. type \in EventTypes
        BY DEF Ending, EventTypes
    <2>2. /\ worker'.pc = "post" /\ ~worker'.learning /\ worker'.learnId = worker.learnId
          /\ worker'.out = Event(type, worker.learnId)
        BY <1>0, <1>3, <2>1, GivenUpType
    <2> QED BY <1>0, <1>1, <1>2, <1>3, <2>1, <2>2, GaveUp
<1>4. CASE WaitEndsEmpty \/ PollNothing
    <2>1. /\ worker'.learning = worker.learning /\ worker'.learnId = worker.learnId
          /\ worker'.out = worker.out /\ worker.pc # "post"
        BY <1>0, <1>4 DEF WaitEndsEmpty, PollNothing, WorkerType
    <2> QED BY <1>0, <1>2, <2>1, WentOn
<1>5. CASE PollFrame
    <2> DEFINE learned == [Event("LEARNED", worker.learnId) EXCEPT !.code = rx.buffer]
    <2> DEFINE w == [worker EXCEPT !.learning = FALSE]
    <2>1. "command" \in Places /\ "rearm" \in Places /\ worker.pc = "poll"
        BY <1>5 DEF Places, PollFrame
    <2>2. learned \in Events /\ learned.type = "LEARNED" /\ learned.id = worker.learnId
        <3>1. Event("LEARNED", worker.learnId) \in Events
            BY <1>0, EventType DEF EventTypes
        <3>2. /\ Event("LEARNED", worker.learnId).type = "LEARNED"
              /\ Event("LEARNED", worker.learnId).id = worker.learnId
            BY <1>0, <1>1 DEF EventTypes
        <3>3. rx.buffer \in Codes
            BY <1>0 DEF RxType
        <3> QED BY <3>1, <3>2, <3>3 DEF Events
    <2>3. w \in WorkerType /\ ~w.learning /\ w.learnId = worker.learnId
        BY <1>0 DEF WorkerType
    <2>4. CASE worker' = Posting(w, learned, "command")
        <3> HIDE DEF w, learned
        <3>1. /\ worker'.pc = "post" /\ ~worker'.learning /\ worker'.learnId = worker.learnId
              /\ worker'.out = learned
            BY <2>1, <2>2, <2>3, <2>4, PostingType
        <3>2. worker'.out.type \in Ending
            BY <2>2, <3>1 DEF Ending
        <3> QED BY <1>2, <2>1, <2>2, <3>1, <3>2, GaveUp
    <2>5. CASE worker' = Posting(worker, Event("UNSUPPORTED", worker.learnId), "rearm")
        <3>1. Event("UNSUPPORTED", worker.learnId) \in Events
            BY <1>0, EventType DEF EventTypes
        <3>2. /\ worker'.pc = "post" /\ worker'.learning = worker.learning
              /\ worker'.learnId = worker.learnId /\ worker'.out = Event("UNSUPPORTED", worker.learnId)
            BY <1>0, <2>1, <2>5, <3>1, PostingType
        <3>3. worker'.out.type \notin Ending
            BY <1>0, <1>1, <3>2 DEF Ending, EventTypes
        <3> QED BY <1>2, <2>1, <3>2, <3>3, WentOn
    <2> QED BY <1>5, <2>4, <2>5 DEF PollFrame
<1>6. CASE Rearm
    <2>1. worker.pc # "post"
        BY <1>6 DEF Rearm
    <2>2. CASE worker' = [worker EXCEPT !.pc = "deadline"]
        <3>1. /\ worker'.learning = worker.learning /\ worker'.learnId = worker.learnId
              /\ worker'.out = worker.out
            BY <1>0, <2>2 DEF WorkerType
        <3> QED BY <1>0, <1>2, <2>1, <3>1, WentOn
    <2>3. CASE worker' = Posting([worker EXCEPT !.learning = FALSE], Event("FAILED", worker.learnId), "command")
        BY <1>3, <2>1, <2>3 DEF Ending
    <2> QED BY <1>6, <2>2, <2>3 DEF Rearm
<1>7. CASE CheckDeadline
    <2>1. worker.pc # "post"
        BY <1>7 DEF CheckDeadline
    <2>2. CASE worker' = [worker EXCEPT !.pc = "command"]
        <3>1. /\ worker'.learning = worker.learning /\ worker'.learnId = worker.learnId
              /\ worker'.out = worker.out
            BY <1>0, <2>2 DEF WorkerType
        <3> QED BY <1>0, <1>2, <2>1, <3>1, WentOn
    <2>3. CASE worker' = Posting([worker EXCEPT !.learning = FALSE], Event("TIMEOUT", worker.learnId), "command")
        BY <1>3, <2>1, <2>3 DEF Ending
    <2> QED BY <1>7, <2>2, <2>3 DEF CheckDeadline
<1>8. CASE DeadlinePasses
    <2>1. /\ worker'.learning = worker.learning /\ worker'.learnId = worker.learnId
          /\ worker'.out = worker.out /\ worker'.pc = worker.pc
        BY <1>0, <1>8 DEF DeadlinePasses, WorkerType
    <2> QED BY <1>0, <1>2, <2>1, WentOn
<1> QED BY <1>4, <1>5, <1>6, <1>7, <1>8

\* an event leaves the worker for the queue, or is dropped
LEMMA PostAgrees ==
    ASSUME IrTypeOK, AgreeInv, Post
    PROVE  AgreeInv'
<1>0. worker \in WorkerType /\ evtQ \in Seq(Events) /\ worker.out \in Events
    BY NumberFacts
<1>1. /\ worker'.learning = worker.learning /\ worker'.learnId = worker.learnId
      /\ worker'.out = NoEvent /\ UNCHANGED <<cmdQ, ui>>
    BY <1>0 DEF Post, WorkerType
<1>2. \A k \in 1..Len(evtQ') : (k \in 1..Len(evtQ) /\ evtQ'[k] = evtQ[k]) \/ evtQ'[k] = worker.out
    BY <1>0, AppendFacts DEF Post
<1>3. Ordered'
    BY <1>1 DEF AgreeInv, Ordered
<1>4. Settled'
    <2> DEFINE Still(e) == e.type \in Ending =>
                   /\ ~(worker'.learning /\ worker'.learnId = e.id)
                   /\ \A i \in 1..Len(cmdQ') : ~Learns(cmdQ'[i], e.id)
    <2>1. ASSUME NEW e, Over(e)
          PROVE  Still(e)
        BY <1>1, <2>1 DEF Over
    <2>2. \A k \in 1..Len(evtQ') : Still(evtQ'[k])
        <3> HIDE DEF Still
        <3> QED BY <1>2, <2>1 DEF AgreeInv, Settled
    <2>3. Still(worker'.out)
        <3>1. ~(worker'.learning /\ worker'.learnId = 0)
            BY <1>1 DEF AgreeInv, Ordered
        <3>2. \A i \in 1..Len(cmdQ) : ~Learns(cmdQ[i], 0)
            <4>1. \A i \in 1..Len(cmdQ) : cmdQ[i].type = "LEARN" => worker.learnId < cmdQ[i].id
                BY DEF AgreeInv, Ordered
            <4>2. worker.learnId \in Nat
                BY NumberFacts
            <4> QED BY <4>1, <4>2 DEF Learns
        <3> QED BY <1>1, <3>1, <3>2, NoEventFacts
    <2>4. worker'.pc # "post" => worker'.out = NoEvent
        BY <1>1
    <2>5. ui'.status \in {"FAILED", "TIMEOUT"} => ui'.request = 0
        BY <1>1 DEF AgreeInv, Settled
    <2> QED BY <2>2, <2>3, <2>4, <2>5 DEF Settled, Over
<1>5. Agreeing'
    <2> SUFFICES ASSUME ~lost'
                 PROVE  Stopping' /\ (ui'.request # 0 => Awaited')
        BY DEF Agreeing
    <2>1. Len(evtQ) < EvtCap /\ evtQ' = Append(evtQ, worker.out) /\ ~lost
        BY DEF Post
    <2>2. Stopping /\ (ui.request # 0 => Awaited)
        BY <2>1 DEF AgreeInv, Agreeing
    <2>3. Stopping'
        BY <1>1, <2>2 DEF Stopping
    <2>4. /\ Len(evtQ') \in 1..Len(evtQ') /\ evtQ'[Len(evtQ')] = worker.out
          /\ \A k \in 1..Len(evtQ) : k \in 1..Len(evtQ') /\ evtQ'[k] = evtQ[k]
        BY <1>0, <2>1
    <2>5. ui'.request # 0 => Awaited'
        BY <1>1, <2>2, <2>4 DEF Awaited
    <2> QED BY <2>3, <2>5
<1> QED BY <1>3, <1>4, <1>5 DEF AgreeInv

LEMMA TakenFacts ==
    ASSUME IrTypeOK, NEW type, TakeCommand(type)
    PROVE  /\ 1 \in 1..Len(cmdQ) /\ Command = cmdQ[1] /\ cmdQ[1].type = type
           /\ \A i \in 1..Len(cmdQ') : i + 1 \in 1..Len(cmdQ) /\ cmdQ'[i] = cmdQ[i + 1]
           /\ \A j \in 1..Len(cmdQ) : 1 < j => j - 1 \in 1..Len(cmdQ') /\ cmdQ'[j - 1] = cmdQ[j]
<1>1. cmdQ \in Seq(Commands) /\ cmdQ # <<>> /\ cmdQ' = Tail(cmdQ) /\ Command = Head(cmdQ)
    BY DEF IrTypeOK, TakeCommand, Command
<1>2. /\ 1 \in 1..Len(cmdQ) /\ Head(cmdQ) = cmdQ[1]
      /\ \A i \in 1..Len(Tail(cmdQ)) : i + 1 \in 1..Len(cmdQ) /\ Tail(cmdQ)[i] = cmdQ[i + 1]
    BY <1>1, TailFacts
<1>3. Len(Tail(cmdQ)) = Len(cmdQ) - 1 /\ Len(cmdQ) \in Nat
    BY <1>1
<1>4. ASSUME NEW j \in 1..Len(cmdQ), 1 < j
      PROVE  j - 1 \in 1..Len(cmdQ') /\ cmdQ'[j - 1] = cmdQ[j]
    <2>1. j - 1 \in 1..Len(Tail(cmdQ)) /\ (j - 1) + 1 = j
        BY <1>3, <1>4
    <2>2. Tail(cmdQ)[j - 1] = cmdQ[(j - 1) + 1]
        BY <1>2, <2>1
    <2> QED BY <1>1, <2>1, <2>2
<1> QED BY <1>1, <1>2, <1>4 DEF TakeCommand

\* a CANCEL behind the head is still there when the head has been taken
LEMMA TakenCancel ==
    ASSUME IrTypeOK, NEW type, TakeCommand(type), NEW i \in Nat, NEW id,
           \/ CancelledAfter(cmdQ, i + 1, id)
           \/ i = 0 /\ CancelledAfter(cmdQ, 0, id) /\ ~Cancels(cmdQ[1], id)
    PROVE  CancelledAfter(cmdQ', i, id)
<1>1. PICK j \in 1..Len(cmdQ) : 1 < j /\ i < j - 1 /\ Cancels(cmdQ[j], id)
    <2>1. CASE CancelledAfter(cmdQ, i + 1, id)
        BY <2>1 DEF CancelledAfter
    <2>2. CASE i = 0 /\ CancelledAfter(cmdQ, 0, id) /\ ~Cancels(cmdQ[1], id)
        <3>1. PICK j \in 1..Len(cmdQ) : Cancels(cmdQ[j], id)
            BY <2>2 DEF CancelledAfter
        <3>2. j # 1
            BY <2>2, <3>1
        <3>3. 1 < j
            BY <3>2
        <3> QED BY <2>2, <3>1, <3>3
    <2> QED BY <2>1, <2>2
<1>2. j - 1 \in 1..Len(cmdQ') /\ cmdQ'[j - 1] = cmdQ[j]
    BY <1>1, TakenFacts
<1> QED BY <1>1, <1>2 DEF CancelledAfter

\* what is left in the queue keeps its order and its cancels
LEMMA TakenRest ==
    ASSUME IrTypeOK, AgreeInv, NEW type, TakeCommand(type), UNCHANGED <<ui, lost>>
    PROVE  /\ \A i \in 1..Len(cmdQ') : cmdQ'[i].type = "LEARN" =>
                 /\ worker.learnId < cmdQ'[i].id
                 /\ type = "LEARN" => Command.id < cmdQ'[i].id
                 /\ ui'.request # 0 => cmdQ'[i].id <= ui'.request
                 /\ \A j \in 1..Len(cmdQ') :
                       i < j /\ cmdQ'[j].type = "LEARN" => cmdQ'[i].id < cmdQ'[j].id
           /\ \A i \in 1..Len(cmdQ') :
                 cmdQ'[i].type = "CANCEL" => cmdQ'[i].id # 0 /\ cmdQ'[i].id # ui'.request
           /\ ~lost => \A i \in 1..Len(cmdQ') : cmdQ'[i].type = "LEARN" /\ cmdQ'[i].id # ui'.request
                          => CancelledAfter(cmdQ', i, cmdQ'[i].id)
<1>1. /\ 1 \in 1..Len(cmdQ) /\ Command = cmdQ[1] /\ cmdQ[1].type = type
      /\ \A i \in 1..Len(cmdQ') : i + 1 \in 1..Len(cmdQ) /\ cmdQ'[i] = cmdQ[i + 1]
    BY TakenFacts
<1>2. ASSUME NEW i \in 1..Len(cmdQ'), cmdQ'[i].type = "LEARN"
      PROVE  /\ worker.learnId < cmdQ'[i].id
             /\ type = "LEARN" => Command.id < cmdQ'[i].id
             /\ ui'.request # 0 => cmdQ'[i].id <= ui'.request
             /\ \A j \in 1..Len(cmdQ') :
                   i < j /\ cmdQ'[j].type = "LEARN" => cmdQ'[i].id < cmdQ'[j].id
    <2>1. i + 1 \in 1..Len(cmdQ) /\ cmdQ[i + 1].type = "LEARN" /\ 1 < i + 1
        BY <1>1, <1>2
    <2>2. ASSUME NEW j \in 1..Len(cmdQ'), i < j, cmdQ'[j].type = "LEARN"
          PROVE  cmdQ'[i].id < cmdQ'[j].id
        <3>1. j + 1 \in 1..Len(cmdQ) /\ cmdQ[j + 1].type = "LEARN" /\ i + 1 < j + 1
            BY <1>1, <2>2
        <3> QED BY <1>1, <2>1, <3>1 DEF AgreeInv, Ordered
    <2> QED BY <1>1, <2>1, <2>2 DEF AgreeInv, Ordered
<1>3. ASSUME NEW i \in 1..Len(cmdQ'), cmdQ'[i].type = "CANCEL"
      PROVE  cmdQ'[i].id # 0 /\ cmdQ'[i].id # ui'.request
    BY <1>1, <1>3 DEF AgreeInv, Ordered
<1>4. ASSUME ~lost, NEW i \in 1..Len(cmdQ'), cmdQ'[i].type = "LEARN", cmdQ'[i].id # ui'.request
      PROVE  CancelledAfter(cmdQ', i, cmdQ'[i].id)
    <2>1. CancelledAfter(cmdQ, i + 1, cmdQ[i + 1].id)
        BY <1>1, <1>4 DEF AgreeInv, Agreeing, Stopping
    <2>2. i \in Nat
        OBVIOUS
    <2>3. CancelledAfter(cmdQ', i, cmdQ[i + 1].id)
        BY <2>1, <2>2, TakenCancel
    <2> QED BY <1>1, <2>3
<1> QED BY <1>2, <1>3, <1>4

\* a command that starts no recording
LEMMA OtherTaken ==
    ASSUME IrTypeOK, AgreeInv, NEW type, type # "LEARN", TakeCommand(type),
           UNCHANGED <<evtQ, ui, lost>>, worker'.learnId = worker.learnId,
           IF Cancels(cmdQ[1], worker.learnId) THEN ~worker'.learning
           ELSE worker'.learning = worker.learning,
           worker'.out = worker.out \/ worker'.out.type \notin Ending,
           worker'.pc # "post" => worker'.out = NoEvent
    PROVE  AgreeInv'
<1>0. /\ 1 \in 1..Len(cmdQ) /\ cmdQ[1].type = type
      /\ \A i \in 1..Len(cmdQ') : i + 1 \in 1..Len(cmdQ) /\ cmdQ'[i] = cmdQ[i + 1]
      /\ \A j \in 1..Len(cmdQ) : 1 < j => j - 1 \in 1..Len(cmdQ') /\ cmdQ'[j - 1] = cmdQ[j]
    BY TakenFacts
<1>1. worker'.learning => worker.learning
    BY NumberFacts
<1>2. Ordered'
    BY <1>1, TakenRest DEF AgreeInv, Ordered
<1>3. Settled'
    <2>1. \A id : (\A i \in 1..Len(cmdQ) : ~Learns(cmdQ[i], id)) => \A i \in 1..Len(cmdQ') : ~Learns(cmdQ'[i], id)
        BY <1>0
    <2> QED BY <1>1, <2>1 DEF AgreeInv, Settled, Over
<1>4. Agreeing'
    <2> SUFFICES ASSUME ~lost'
                 PROVE  Stopping' /\ (ui'.request # 0 => Awaited')
        BY DEF Agreeing
    <2>1. Stopping /\ (ui.request # 0 => Awaited) /\ ~lost
        BY DEF AgreeInv, Agreeing
    <2>2. worker'.learning /\ worker'.learnId # ui'.request => CancelledAfter(cmdQ', 0, worker'.learnId)
        <3> SUFFICES ASSUME worker'.learning, worker'.learnId # ui'.request
                     PROVE  CancelledAfter(cmdQ', 0, worker.learnId)
            OBVIOUS
        <3>1. CancelledAfter(cmdQ, 0, worker.learnId) /\ ~Cancels(cmdQ[1], worker.learnId)
            BY <1>1, <2>1 DEF Stopping
        <3> QED BY <3>1, TakenCancel
    <2>3. Stopping'
        BY <2>1, <2>2, TakenRest DEF Stopping
    <2>4. ui'.request # 0 => Awaited'
        <3> SUFFICES ASSUME ui.request # 0
                     PROVE  Awaited'
            OBVIOUS
        <3>1. CASE \E i \in 1..Len(cmdQ) : Learns(cmdQ[i], ui.request)
            <4>1. PICK i \in 1..Len(cmdQ) : Learns(cmdQ[i], ui.request)
                BY <3>1
            <4>2. i # 1
                BY <1>0, <4>1 DEF Learns
            <4>3. 1 < i
                BY <4>2
            <4>4. i - 1 \in 1..Len(cmdQ') /\ Learns(cmdQ'[i - 1], ui.request)
                BY <1>0, <4>1, <4>3
            <4> QED BY <4>4 DEF Awaited
        <3>2. CASE worker.learning /\ worker.learnId = ui.request
            <4>1. ~Cancels(cmdQ[1], worker.learnId)
                BY <1>0, <3>2 DEF AgreeInv, Ordered, Cancels
            <4> QED BY <3>2, <4>1 DEF Awaited
        <3>3. CASE Answers(worker.out, ui.request)
            <4>1. worker.out = NoEvent
                BY DEF TakeCommand, AgreeInv, Settled
            <4> QED BY <3>3, <4>1, NoEventFacts DEF Answers
        <3>4. CASE \E k \in 1..Len(evtQ) : Answers(evtQ[k], ui.request)
            BY <3>4 DEF Awaited
        <3> QED BY <2>1, <3>1, <3>2, <3>3, <3>4 DEF Awaited
    <2> QED BY <2>3, <2>4
<1> QED BY <1>2, <1>3, <1>4 DEF AgreeInv

\* a new recording replaces whatever went on, or fails and says so
LEMMA LearnTaken ==
    ASSUME IrTypeOK, AgreeInv, TakeCommand("LEARN"), UNCHANGED <<evtQ, ui, lost>>,
           \/ /\ worker'.learning /\ worker'.learnId = Command.id /\ worker'.out = worker.out
           \/ /\ ~worker'.learning /\ worker'.learnId = worker.learnId /\ worker'.pc = "post"
              /\ worker'.out.type \in Ending /\ worker'.out.id = Command.id
    PROVE  AgreeInv'
<1>0. /\ 1 \in 1..Len(cmdQ) /\ Command = cmdQ[1] /\ Learns(cmdQ[1], Command.id)
      /\ \A i \in 1..Len(cmdQ') : i + 1 \in 1..Len(cmdQ) /\ cmdQ'[i] = cmdQ[i + 1]
      /\ \A j \in 1..Len(cmdQ) : 1 < j => j - 1 \in 1..Len(cmdQ') /\ cmdQ'[j - 1] = cmdQ[j]
    BY TakenFacts DEF Learns
<1>1. Command.id \in Nat /\ worker.learnId \in Nat /\ worker.learnId < Command.id
    BY <1>0, NumberFacts DEF AgreeInv, Ordered, Learns
<1>2. worker.out = NoEvent
    BY DEF TakeCommand, AgreeInv, Settled
<1>3. \A i \in 1..Len(cmdQ') : cmdQ'[i].id \in Nat
    BY <1>0, NumberFacts
<1>4. Ordered'
    BY <1>1, TakenRest DEF Ordered
<1>5. Settled'
    <2>1. \A id : (\A i \in 1..Len(cmdQ) : ~Learns(cmdQ[i], id)) => \A i \in 1..Len(cmdQ') : ~Learns(cmdQ'[i], id)
        BY <1>0
    <2>2. \A i \in 1..Len(cmdQ') : ~Learns(cmdQ'[i], Command.id)
        BY <1>1, <1>3, TakenRest DEF Learns
    <2> DEFINE Still(e) == e.type \in Ending =>
                   /\ ~(worker'.learning /\ worker'.learnId = e.id)
                   /\ \A i \in 1..Len(cmdQ') : ~Learns(cmdQ'[i], e.id)
    <2>3. ASSUME NEW e, Over(e)
          PROVE  Still(e)
        BY <1>0, <2>1, <2>3 DEF Over
    <2>4. Still(worker'.out)
        <3>1. CASE worker'.learning /\ worker'.out = worker.out
            <4> HIDE DEF Still
            <4> QED BY <2>3, <3>1 DEF AgreeInv, Settled
        <3>2. CASE ~worker'.learning /\ worker'.out.id = Command.id
            BY <2>2, <3>2
        <3> QED BY <3>1, <3>2
    <2>5. \A k \in 1..Len(evtQ') : Still(evtQ'[k])
        <3> HIDE DEF Still
        <3> QED BY <2>3 DEF AgreeInv, Settled
    <2>6. worker'.pc # "post" => worker'.out = NoEvent
        BY <1>2
    <2>7. ui'.status \in {"FAILED", "TIMEOUT"} => ui'.request = 0
        BY DEF AgreeInv, Settled
    <2> QED BY <2>4, <2>5, <2>6, <2>7 DEF Settled, Over
<1>6. Agreeing'
    <2> SUFFICES ASSUME ~lost'
                 PROVE  Stopping' /\ (ui'.request # 0 => Awaited')
        BY DEF Agreeing
    <2>1. Stopping /\ (ui.request # 0 => Awaited) /\ ~lost
        BY DEF AgreeInv, Agreeing
    <2>2. worker'.learning /\ worker'.learnId # ui'.request => CancelledAfter(cmdQ', 0, worker'.learnId)
        <3> SUFFICES ASSUME worker'.learning, worker'.learnId = Command.id, Command.id # ui.request
                     PROVE  CancelledAfter(cmdQ', 0, Command.id)
            OBVIOUS
        <3>1. CancelledAfter(cmdQ, 1, Command.id)
            BY <1>0, <2>1 DEF Stopping, Learns
        <3>2. CancelledAfter(cmdQ, 0 + 1, Command.id)
            BY <3>1
        <3> QED BY <3>2, TakenCancel
    <2>3. Stopping'
        BY <2>1, <2>2, TakenRest DEF Stopping
    <2>4. ui'.request # 0 => Awaited'
        <3> SUFFICES ASSUME ui.request # 0
                     PROVE  Awaited'
            OBVIOUS
        <3>1. CASE Command.id = ui.request
            BY <3>1 DEF Awaited, Answers
        <3>2. CASE Command.id # ui.request /\ \E i \in 1..Len(cmdQ) : Learns(cmdQ[i], ui.request)
            <4>1. PICK i \in 1..Len(cmdQ) : Learns(cmdQ[i], ui.request)
                BY <3>2
            <4>2. i # 1
                BY <1>0, <3>2, <4>1 DEF Learns
            <4>3. 1 < i
                BY <4>2
            <4>4. i - 1 \in 1..Len(cmdQ') /\ Learns(cmdQ'[i - 1], ui.request)
                BY <1>0, <4>1, <4>3
            <4> QED BY <4>4 DEF Awaited
        <3>3. CASE worker.learning /\ worker.learnId = ui.request
            <4>1. Command.id <= ui.request /\ ui.request \in Nat
                BY <1>0, NumberFacts DEF AgreeInv, Ordered, Learns
            <4> QED BY <1>1, <3>3, <4>1
        <3>4. CASE Answers(worker.out, ui.request)
            BY <1>2, <3>4, NoEventFacts DEF Answers
        <3>5. CASE \E k \in 1..Len(evtQ) : Answers(evtQ[k], ui.request)
            BY <3>5 DEF Awaited
        <3> QED BY <2>1, <3>1, <3>2, <3>3, <3>4, <3>5 DEF Awaited
    <2> QED BY <2>3, <2>4
<1> QED BY <1>4, <1>5, <1>6 DEF AgreeInv

LEMMA CommandAgrees ==
    ASSUME IrTypeOK, AgreeInv, TakeCancel \/ TakeLearn \/ TakeSend
    PROVE  AgreeInv'
<1>0. worker \in WorkerType /\ (worker.pc = "command" => worker.out = NoEvent)
    BY NumberFacts DEF AgreeInv, Settled
<1>1. ASSUME NEW type \in EventTypes, NEW id \in Nat
      PROVE  Event(type, id).type = type /\ Event(type, id).id = id
    BY <1>1 DEF Event, NoEvent, Noise
<1>2. UNCHANGED <<evtQ, ui, lost>>
    BY DEF TakeCancel, TakeLearn, TakeSend
<1>3. CASE TakeCancel
    <2>1. TakeCommand("CANCEL") /\ worker.pc = "command"
        BY <1>3 DEF TakeCancel, TakeCommand
    <2>2. Command = cmdQ[1] /\ cmdQ[1].type = "CANCEL"
        BY <2>1, TakenFacts
    <2>3. CASE worker.learning /\ Command.id = worker.learnId
        <3>1. /\ ~worker'.learning /\ worker'.learnId = worker.learnId
              /\ worker'.out = worker.out
            BY <1>0, <1>3, <2>3 DEF TakeCancel, WorkerType
        <3>2. Cancels(cmdQ[1], worker.learnId)
            BY <2>2, <2>3 DEF Cancels
        <3> QED BY <1>0, <1>2, <2>1, <3>1, <3>2, OtherTaken
    <2>4. CASE ~(worker.learning /\ Command.id = worker.learnId)
        <3>1. /\ worker'.learning = worker.learning /\ worker'.learnId = worker.learnId
              /\ worker'.out = worker.out
            BY <1>0, <1>3, <2>4 DEF TakeCancel, WorkerType
        <3>2. Cancels(cmdQ[1], worker.learnId) => ~worker'.learning
            BY <2>2, <2>4, <3>1 DEF Cancels
        <3> QED BY <1>0, <1>2, <2>1, <3>1, <3>2, OtherTaken
    <2> QED BY <2>3, <2>4
<1>4. CASE TakeLearn
    <2>1. TakeCommand("LEARN") /\ Command.id \in Nat
        BY <1>4, CommandType DEF TakeLearn
    <2>2. CASE worker' = [worker EXCEPT !.learning = TRUE, !.learnId = Command.id, !.due = FALSE, !.pc = "poll"]
        <3>1. worker'.learning /\ worker'.learnId = Command.id /\ worker'.out = worker.out
            BY <1>0, <2>2 DEF WorkerType
        <3> QED BY <1>2, <2>1, <3>1, LearnTaken
    <2>3. CASE worker' = Posting([worker EXCEPT !.learning = FALSE], Event("FAILED", Command.id), "command")
        <3>1. /\ ~worker'.learning /\ worker'.learnId = worker.learnId /\ worker'.pc = "post"
              /\ worker'.out = Event("FAILED", Command.id)
            BY <2>1, <2>3, GivenUpType DEF EventTypes
        <3>2. worker'.out.type \in Ending /\ worker'.out.id = Command.id
            BY <1>1, <2>1, <3>1 DEF Ending, EventTypes
        <3> QED BY <1>2, <2>1, <3>1, <3>2, LearnTaken
    <2> QED BY <1>4, <2>2, <2>3 DEF TakeLearn
<1>5. CASE TakeSend
    <2>1. TakeCommand("SEND") /\ Command.id \in Nat
        BY <1>5, CommandType DEF TakeSend
    <2>2. PICK type \in {"TX_DONE", "TX_FAIL"} : worker' = Posting(worker, Event(type, Command.id), Onward(worker))
        BY <1>5 DEF TakeSend
    <2>3. type \in EventTypes /\ Event(type, Command.id) \in Events /\ Onward(worker) \in Places
        BY <2>1, EventType DEF EventTypes, Onward, Places
    <2>4. /\ worker'.learning = worker.learning /\ worker'.learnId = worker.learnId
          /\ worker'.pc = "post" /\ worker'.out = Event(type, Command.id)
        BY <1>0, <2>2, <2>3, PostingType
    <2>5. worker'.out.type \notin Ending
        BY <1>1, <2>1, <2>3, <2>4 DEF Ending
    <2>6. ~Cancels(cmdQ[1], worker.learnId)
        BY <2>1, TakenFacts DEF Cancels
    <2> QED BY <1>2, <2>1, <2>4, <2>5, <2>6, OtherTaken
<1> QED BY <1>3, <1>4, <1>5

-----------------------------------------------------------------------------
(* What the UI queues and what it takes.                                    *)

LEMMA AppendedFacts ==
    ASSUME NEW S, NEW q \in Seq(S), NEW c \in S
    PROVE  /\ Len(q) + 1 \in 1..Len(Append(q, c)) /\ Append(q, c)[Len(q) + 1] = c
           /\ \A i \in 1..Len(q) : i \in 1..Len(Append(q, c)) /\ Append(q, c)[i] = q[i] /\ i < Len(q) + 1
           /\ \A i \in 1..Len(Append(q, c)) : i \in 1..Len(q) \/ i = Len(q) + 1
<1>1. Len(Append(q, c)) = Len(q) + 1 /\ Len(q) \in Nat
    OBVIOUS
<1>2. Append(q, c)[Len(q) + 1] = c
    OBVIOUS
<1>3. \A i \in 1..Len(q) : Append(q, c)[i] = q[i]
    OBVIOUS
<1> QED BY <1>1, <1>2, <1>3

\* the worker and the queued commands are as before, and the UI still waits
\* for what it waited for, or takes note that it has ended
LEMMA UiGoesOn ==
    ASSUME IrTypeOK, Origin, AgreeInv, UNCHANGED <<worker, lost>>,
           \/ ui'.request = ui.request
           \/ ui'.request = 0 /\ \E k \in 1..Len(evtQ) : Answers(evtQ[k], ui.request),
           ui'.status \in {"FAILED", "TIMEOUT"} => ui'.request = 0,
           \/ cmdQ' = cmdQ
           \/ \E c \in Commands : c.type = "SEND" /\ cmdQ' = Append(cmdQ, c),
           \/ evtQ' = evtQ
           \/ evtQ # <<>> /\ evtQ' = Tail(evtQ) /\ (ui'.request # 0 => ~Answers(evtQ[1], ui'.request))
    PROVE  AgreeInv'
<1>0. /\ cmdQ \in Seq(Commands) /\ evtQ \in Seq(Events) /\ ui.request \in Nat /\ worker.learnId \in Nat
      /\ \A i \in 1..Len(cmdQ) : cmdQ[i] \in Commands /\ cmdQ[i].id \in Nat
    BY NumberFacts
<1>1. /\ \A i \in 1..Len(cmdQ) : i \in 1..Len(cmdQ') /\ cmdQ'[i] = cmdQ[i]
      /\ \A i \in 1..Len(cmdQ') : (i \in 1..Len(cmdQ) /\ cmdQ'[i] = cmdQ[i]) \/ cmdQ'[i].type = "SEND"
    <2>1. CASE cmdQ' = cmdQ
        BY <2>1
    <2>2. CASE \E c \in Commands : c.type = "SEND" /\ cmdQ' = Append(cmdQ, c)
        BY <1>0, <2>2, AppendedFacts
    <2> QED BY <2>1, <2>2
<1>2. \A k \in 1..Len(evtQ') : \E l \in 1..Len(evtQ) : evtQ'[k] = evtQ[l]
    <2>1. CASE evtQ' = evtQ
        BY <2>1
    <2>2. CASE evtQ # <<>> /\ evtQ' = Tail(evtQ)
        <3>1. \A i \in 1..Len(Tail(evtQ)) : i + 1 \in 1..Len(evtQ) /\ Tail(evtQ)[i] = evtQ[i + 1]
            BY <1>0, <2>2, TailFacts
        <3> QED BY <2>2, <3>1
    <2> QED BY <2>1, <2>2
<1>3. ui.request # 0 /\ ui'.request = 0 =>
         /\ ~(worker.learning /\ worker.learnId = ui.request)
         /\ \A i \in 1..Len(cmdQ) : ~Learns(cmdQ[i], ui.request)
    <2> SUFFICES ASSUME ui.request # 0, ui'.request = 0
                 PROVE  /\ ~(worker.learning /\ worker.learnId = ui.request)
                        /\ \A i \in 1..Len(cmdQ) : ~Learns(cmdQ[i], ui.request)
        OBVIOUS
    <2>1. PICK k \in 1..Len(evtQ) : Answers(evtQ[k], ui.request)
        OBVIOUS
    <2> QED BY <2>1 DEF AgreeInv, Settled, Over, Answers
<1>4. Ordered'
    <2>1. \A i \in 1..Len(cmdQ') : cmdQ'[i].type = "LEARN" =>
             /\ worker'.learnId < cmdQ'[i].id
             /\ ui'.request # 0 => cmdQ'[i].id <= ui'.request
             /\ \A j \in 1..Len(cmdQ') : i < j /\ cmdQ'[j].type = "LEARN" => cmdQ'[i].id < cmdQ'[j].id
        BY <1>1 DEF AgreeInv, Ordered
    <2>2. \A i \in 1..Len(cmdQ') : cmdQ'[i].type = "CANCEL" => cmdQ'[i].id # 0 /\ cmdQ'[i].id # ui'.request
        BY <1>1 DEF AgreeInv, Ordered
    <2> QED BY <2>1, <2>2 DEF AgreeInv, Ordered
<1>5. Settled'
    <2> DEFINE Still(e) == e.type \in Ending =>
                   /\ ~(worker'.learning /\ worker'.learnId = e.id)
                   /\ \A i \in 1..Len(cmdQ') : ~Learns(cmdQ'[i], e.id)
    <2>1. ASSUME NEW e, Over(e)
          PROVE  Still(e)
        BY <1>1, <2>1 DEF Over, Learns
    <2>2. Still(worker'.out) /\ \A k \in 1..Len(evtQ') : Still(evtQ'[k])
        <3> HIDE DEF Still
        <3> QED BY <1>2, <2>1 DEF AgreeInv, Settled
    <2>3. worker'.pc # "post" => worker'.out = NoEvent
        BY DEF AgreeInv, Settled
    <2> QED BY <2>2, <2>3 DEF Settled, Over
<1>6. Agreeing'
    <2> SUFFICES ASSUME ~lost'
                 PROVE  Stopping' /\ (ui'.request # 0 => Awaited')
        BY DEF Agreeing
    <2>1. Stopping /\ (ui.request # 0 => Awaited)
        BY DEF AgreeInv, Agreeing
    <2>2. \A i \in Nat : \A id : CancelledAfter(cmdQ, i, id) => CancelledAfter(cmdQ', i, id)
        BY <1>1 DEF CancelledAfter
    <2>3. worker'.learning /\ worker'.learnId # ui'.request => CancelledAfter(cmdQ', 0, worker'.learnId)
        <3> SUFFICES ASSUME worker.learning, worker.learnId # ui'.request
                     PROVE  CancelledAfter(cmdQ', 0, worker.learnId)
            OBVIOUS
        <3>1. worker.learnId # ui.request
            <4>1. CASE ui'.request = ui.request
                BY <4>1
            <4>2. CASE ui'.request # ui.request
                BY <1>3, <4>2
            <4> QED BY <4>1, <4>2
        <3> QED BY <2>1, <2>2, <3>1 DEF Stopping
    <2>4. \A i \in 1..Len(cmdQ') :
             cmdQ'[i].type = "LEARN" /\ cmdQ'[i].id # ui'.request => CancelledAfter(cmdQ', i, cmdQ'[i].id)
        <3> SUFFICES ASSUME NEW i \in 1..Len(cmdQ'), cmdQ'[i].type = "LEARN", cmdQ'[i].id # ui'.request
                     PROVE  CancelledAfter(cmdQ', i, cmdQ'[i].id)
            OBVIOUS
        <3>1. i \in 1..Len(cmdQ) /\ cmdQ'[i] = cmdQ[i] /\ i \in Nat
            BY <1>1
        <3>2. cmdQ[i].id # ui.request
            <4>1. CASE ui'.request = ui.request
                BY <3>1, <4>1
            <4>2. CASE ui'.request # ui.request
                BY <1>3, <3>1, <4>2 DEF Learns
            <4> QED BY <4>1, <4>2
        <3> QED BY <2>1, <2>2, <3>1, <3>2 DEF Stopping
    <2>5. ui'.request # 0 => Awaited'
        <3> SUFFICES ASSUME ui'.request = ui.request, ui.request # 0
                     PROVE  Awaited'
            OBVIOUS
        <3>1. CASE \E k \in 1..Len(evtQ) : Answers(evtQ[k], ui.request)
            <4>1. PICK k \in 1..Len(evtQ) : Answers(evtQ[k], ui.request)
                BY <3>1
            <4>2. CASE evtQ' = evtQ
                BY <4>1, <4>2 DEF Awaited
            <4>3. CASE evtQ # <<>> /\ evtQ' = Tail(evtQ) /\ ~Answers(evtQ[1], ui.request)
                <5>1. k # 1
                    BY <4>1, <4>3
                <5>2. k - 1 \in 1..Len(Tail(evtQ)) /\ (k - 1) + 1 = k
                    <6>1. Len(Tail(evtQ)) = Len(evtQ) - 1 /\ Len(evtQ) \in Nat
                        BY <1>0, <4>3
                    <6> QED BY <5>1, <6>1
                <5>3. Tail(evtQ)[k - 1] = evtQ[k]
                    BY <1>0, <4>3, <5>2, TailFacts
                <5> QED BY <4>1, <4>3, <5>2, <5>3 DEF Awaited
            <4> QED BY <4>2, <4>3
        <3>2. CASE \E i \in 1..Len(cmdQ) : Learns(cmdQ[i], ui.request)
            BY <1>1, <3>2 DEF Awaited
        <3>3. CASE worker.learning /\ worker.learnId = ui.request
            BY <3>3 DEF Awaited
        <3>4. CASE Answers(worker.out, ui.request)
            BY <3>4 DEF Awaited
        <3> QED BY <2>1, <3>1, <3>2, <3>3, <3>4 DEF Awaited
    <2> QED BY <2>3, <2>4, <2>5 DEF Stopping
<1> QED BY <1>4, <1>5, <1>6 DEF AgreeInv

\* a new request, numbered after everything that is queued
LEMMA StartAgrees ==
    ASSUME IrTypeOK, Origin, AgreeInv, ui.request = 0, UNCHANGED <<worker, evtQ, lost>>,
           NEW id \in Nat, id = ui.sequence + 1, ui'.request = id, ui'.status = "WAITING",
           cmdQ' = Append(cmdQ, [type |-> "LEARN", id |-> id])
    PROVE  AgreeInv'
<1> DEFINE new == [type |-> "LEARN", id |-> id]
<1>0. /\ cmdQ \in Seq(Commands) /\ worker.learnId \in Nat /\ worker.out.id \in Nat /\ ui.sequence \in Nat
      /\ \A i \in 1..Len(cmdQ) : cmdQ[i] \in Commands /\ cmdQ[i].id \in Nat
      /\ \A k \in 1..Len(evtQ) : evtQ[k].id \in Nat
    BY NumberFacts
<1>1. new \in Commands /\ new.type = "LEARN" /\ new.id = id
    BY DEF Commands
<1>2. /\ Len(cmdQ) + 1 \in 1..Len(cmdQ') /\ cmdQ'[Len(cmdQ) + 1] = new
      /\ \A i \in 1..Len(cmdQ) : i \in 1..Len(cmdQ') /\ cmdQ'[i] = cmdQ[i] /\ i < Len(cmdQ) + 1
      /\ \A i \in 1..Len(cmdQ') : i \in 1..Len(cmdQ) \/ i = Len(cmdQ) + 1
    <2> HIDE DEF new
    <2>1. cmdQ' = Append(cmdQ, new)
        BY DEF new
    <2> QED BY <1>0, <1>1, <2>1, AppendedFacts
<1> HIDE DEF new
<1>3. /\ worker.learnId < id /\ worker.out.id < id /\ id # 0
      /\ \A i \in 1..Len(cmdQ) : cmdQ[i].id < id
      /\ \A k \in 1..Len(evtQ) : evtQ[k].id < id
    BY <1>0 DEF Origin, Numbered
<1>4. Ordered'
    <2>1. ASSUME NEW i \in 1..Len(cmdQ'), cmdQ'[i].type = "LEARN"
          PROVE  /\ worker.learnId < cmdQ'[i].id /\ cmdQ'[i].id <= id
                 /\ \A j \in 1..Len(cmdQ') : i < j /\ cmdQ'[j].type = "LEARN" => cmdQ'[i].id < cmdQ'[j].id
        <3>1. CASE i \in 1..Len(cmdQ)
            <4>1. worker.learnId < cmdQ'[i].id /\ cmdQ'[i].id < id
                BY <1>0, <1>2, <1>3, <2>1, <3>1 DEF AgreeInv, Ordered
            <4>2. ASSUME NEW j \in 1..Len(cmdQ'), i < j, cmdQ'[j].type = "LEARN"
                  PROVE  cmdQ'[i].id < cmdQ'[j].id
                <5>1. CASE j \in 1..Len(cmdQ)
                    BY <1>2, <2>1, <3>1, <4>2, <5>1 DEF AgreeInv, Ordered
                <5>2. CASE j = Len(cmdQ) + 1
                    BY <1>1, <1>2, <4>1, <5>2
                <5> QED BY <1>2, <5>1, <5>2
            <4>3. cmdQ'[i].id \in Nat
                BY <1>0, <1>2, <3>1
            <4>4. cmdQ'[i].id <= id
                BY <4>1, <4>3
            <4> QED BY <4>1, <4>2, <4>4
        <3>2. CASE i = Len(cmdQ) + 1
            <4>1. worker.learnId < cmdQ'[i].id /\ cmdQ'[i].id <= id
                BY <1>0, <1>1, <1>2, <1>3, <3>2
            <4>2. \A j \in 1..Len(cmdQ') : ~(i < j)
                BY <1>0, <1>2, <3>2
            <4> QED BY <4>1, <4>2
        <3> QED BY <1>2, <3>1, <3>2
    <2>2. ASSUME NEW i \in 1..Len(cmdQ'), cmdQ'[i].type = "CANCEL"
          PROVE  cmdQ'[i].id # 0 /\ cmdQ'[i].id # id
        <3>1. i \in 1..Len(cmdQ) /\ cmdQ'[i] = cmdQ[i]
            BY <1>1, <1>2, <2>2
        <3> QED BY <1>0, <1>3, <2>2, <3>1 DEF AgreeInv, Ordered
    <2>3. worker'.learning => worker'.learnId # 0
        BY DEF AgreeInv, Ordered
    <2> QED BY <2>1, <2>2, <2>3 DEF Ordered
<1>5. Settled'
    <2> DEFINE Still(e) == e.type \in Ending =>
                   /\ ~(worker'.learning /\ worker'.learnId = e.id)
                   /\ \A i \in 1..Len(cmdQ') : ~Learns(cmdQ'[i], e.id)
    <2>1. ASSUME NEW e, Over(e), e.id \in Nat, e.id < id
          PROVE  Still(e)
        BY <1>1, <1>2, <2>1 DEF Over, Learns
    <2>2. Still(worker'.out)
        <3> HIDE DEF Still
        <3> QED BY <1>0, <1>3, <2>1 DEF AgreeInv, Settled
    <2>3. \A k \in 1..Len(evtQ') : Still(evtQ'[k])
        <3> HIDE DEF Still
        <3> QED BY <1>0, <1>3, <2>1 DEF AgreeInv, Settled
    <2>4. worker'.pc # "post" => worker'.out = NoEvent
        BY DEF AgreeInv, Settled
    <2> QED BY <2>2, <2>3, <2>4 DEF Settled, Over
<1>6. Agreeing'
    <2> SUFFICES ASSUME ~lost'
                 PROVE  Stopping' /\ (ui'.request # 0 => Awaited')
        BY DEF Agreeing
    <2>1. Stopping
        BY DEF AgreeInv, Agreeing
    <2>2. \A i \in Nat : \A c : CancelledAfter(cmdQ, i, c) => CancelledAfter(cmdQ', i, c)
        BY <1>2 DEF CancelledAfter
    <2>3. worker'.learning /\ worker'.learnId # ui'.request => CancelledAfter(cmdQ', 0, worker'.learnId)
        BY <2>1, <2>2 DEF Stopping, AgreeInv, Ordered
    <2>4. \A i \in 1..Len(cmdQ') :
             cmdQ'[i].type = "LEARN" /\ cmdQ'[i].id # ui'.request => CancelledAfter(cmdQ', i, cmdQ'[i].id)
        <3> SUFFICES ASSUME NEW i \in 1..Len(cmdQ'), cmdQ'[i].type = "LEARN", cmdQ'[i].id # id
                     PROVE  CancelledAfter(cmdQ', i, cmdQ'[i].id)
            OBVIOUS
        <3>1. i \in 1..Len(cmdQ) /\ cmdQ'[i] = cmdQ[i] /\ i \in Nat
            BY <1>1, <1>2
        <3>2. cmdQ[i].id # ui.request
            BY <1>0, <3>1 DEF AgreeInv, Ordered
        <3> QED BY <2>1, <2>2, <3>1, <3>2 DEF Stopping
    <2>5. Awaited'
        BY <1>1, <1>2 DEF Awaited, Learns
    <2> QED BY <2>3, <2>4, <2>5 DEF Stopping
<1> QED BY <1>4, <1>5, <1>6 DEF AgreeInv

\* leaving gives the request up: its CANCEL is queued, or dropped and noted
LEMMA CancelAgrees ==
    ASSUME IrTypeOK, Origin, AgreeInv, ui.request # 0, UNCHANGED <<worker, evtQ>>, ui'.request = 0, lost => lost',
           \/ cmdQ' = Append(cmdQ, CancelCommand)
           \/ cmdQ' = cmdQ /\ lost'
    PROVE  AgreeInv'
<1>0. /\ cmdQ \in Seq(Commands) /\ worker.learnId \in Nat /\ ui.request \in Nat
      /\ \A i \in 1..Len(cmdQ) : cmdQ[i] \in Commands /\ cmdQ[i].id \in Nat
    BY NumberFacts
<1>1. CancelCommand \in Commands /\ CancelCommand.type = "CANCEL" /\ CancelCommand.id = ui.request
    BY <1>0 DEF Commands, CancelCommand
<1>2. /\ \A i \in 1..Len(cmdQ) : i \in 1..Len(cmdQ') /\ cmdQ'[i] = cmdQ[i]
      /\ \A i \in 1..Len(cmdQ') : (i \in 1..Len(cmdQ) /\ cmdQ'[i] = cmdQ[i]) \/ cmdQ'[i] = CancelCommand
    <2>1. CASE cmdQ' = cmdQ
        BY <2>1
    <2>2. CASE cmdQ' = Append(cmdQ, CancelCommand)
        BY <1>0, <1>1, <2>2, AppendedFacts
    <2> QED BY <2>1, <2>2
<1>3. Ordered'
    <2>1. \A i \in 1..Len(cmdQ') : cmdQ'[i].type = "LEARN" =>
             /\ worker'.learnId < cmdQ'[i].id
             /\ \A j \in 1..Len(cmdQ') : i < j /\ cmdQ'[j].type = "LEARN" => cmdQ'[i].id < cmdQ'[j].id
        BY <1>1, <1>2 DEF AgreeInv, Ordered
    <2>2. \A i \in 1..Len(cmdQ') : cmdQ'[i].type = "CANCEL" => cmdQ'[i].id # 0
        BY <1>1, <1>2 DEF AgreeInv, Ordered
    <2> QED BY <2>1, <2>2 DEF AgreeInv, Ordered
<1>4. Settled'
    <2> DEFINE Still(e) == e.type \in Ending =>
                   /\ ~(worker'.learning /\ worker'.learnId = e.id)
                   /\ \A i \in 1..Len(cmdQ') : ~Learns(cmdQ'[i], e.id)
    <2>1. ASSUME NEW e, Over(e)
          PROVE  Still(e)
        BY <1>1, <1>2, <2>1 DEF Over, Learns
    <2>2. Still(worker'.out) /\ \A k \in 1..Len(evtQ') : Still(evtQ'[k])
        <3> HIDE DEF Still
        <3> QED BY <2>1 DEF AgreeInv, Settled
    <2>3. worker'.pc # "post" => worker'.out = NoEvent
        BY DEF AgreeInv, Settled
    <2> QED BY <2>2, <2>3 DEF Settled, Over
<1>5. ASSUME ~lost', ~lost
      PROVE  Stopping'
    <2>1. cmdQ' = Append(cmdQ, CancelCommand)
        BY <1>5
    <2>2. /\ Len(cmdQ) + 1 \in 1..Len(cmdQ') /\ cmdQ'[Len(cmdQ) + 1] = CancelCommand
          /\ \A i \in 1..Len(cmdQ) : i < Len(cmdQ) + 1
          /\ 0 < Len(cmdQ) + 1
        BY <1>0, <1>1, <2>1, AppendedFacts
    <2>3. Cancels(CancelCommand, ui.request)
        BY <1>1 DEF Cancels
    <2>4. \A i \in 0..Len(cmdQ) : CancelledAfter(cmdQ', i, ui.request)
        <3> TAKE i \in 0..Len(cmdQ)
        <3>1. i < Len(cmdQ) + 1
            BY <1>0
        <3> QED BY <2>2, <2>3, <3>1 DEF CancelledAfter
    <2>5. \A i \in Nat : \A c : CancelledAfter(cmdQ, i, c) => CancelledAfter(cmdQ', i, c)
        BY <1>2 DEF CancelledAfter
    <2>6. Stopping
        BY <1>5 DEF AgreeInv, Agreeing
    <2>7. worker'.learning => CancelledAfter(cmdQ', 0, worker'.learnId)
        <3>1. 0 \in 0..Len(cmdQ)
            BY <1>0
        <3> QED BY <2>4, <2>5, <2>6, <3>1 DEF Stopping
    <2>8. \A i \in 1..Len(cmdQ') : cmdQ'[i].type = "LEARN" => CancelledAfter(cmdQ', i, cmdQ'[i].id)
        <3> SUFFICES ASSUME NEW i \in 1..Len(cmdQ'), cmdQ'[i].type = "LEARN"
                     PROVE  CancelledAfter(cmdQ', i, cmdQ'[i].id)
            OBVIOUS
        <3>1. i \in 1..Len(cmdQ) /\ cmdQ'[i] = cmdQ[i] /\ i \in Nat /\ i \in 0..Len(cmdQ)
            BY <1>1, <1>2
        <3> QED BY <2>4, <2>5, <2>6, <3>1 DEF Stopping
    <2> QED BY <2>7, <2>8 DEF Stopping
<1> QED BY <1>3, <1>4, <1>5 DEF AgreeInv, Agreeing

LEMMA LearnStartAgrees ==
    ASSUME IrTypeOK, Origin, AgreeInv, NEW u \in UiType, u.sequence = ui.sequence, ui.request = 0,
           LearnStart(u)
    PROVE  AgreeInv'
<1>0. u.sequence \in Nat /\ u.sequence + 1 \in Nat
    BY DEF UiType
<1>1. UNCHANGED <<worker, evtQ, lost>>
    BY DEF LearnStart
<1>2. CASE Room
    <2>1. ui'.request = ui.sequence + 1 /\ ui'.status = "WAITING"
        BY <1>2 DEF LearnStart, UiType
    <2>2. cmdQ' = Append(cmdQ, [type |-> "LEARN", id |-> ui.sequence + 1])
        BY <1>2 DEF LearnStart
    <2> QED BY <1>0, <1>1, <2>1, <2>2, StartAgrees
<1>3. CASE ~Room
    <2>1. ui'.request = ui.request
        BY <1>3 DEF LearnStart, UiType
    <2>2. cmdQ' = cmdQ
        BY <1>3 DEF LearnStart
    <2> QED BY <1>1, <2>1, <2>2, UiGoesOn
<1> QED BY <1>2, <1>3

\* saving a code ends the wait for it, if there is one
LEMMA StoreEnds ==
    ASSUME IrTypeOK, NEW code \in Codes \cup {NoCode}, Store(code)
    PROVE  ui'.request = 0
<1>1. PICK status \in {"SAVED", "SAVE_FAILED"} :
         ui' = [ui EXCEPT !.screen = "result", !.draining = TRUE, !.request = 0,
                          !.code = code, !.status = status]
    BY DEF Store
<1> QED BY <1>1 DEF IrTypeOK, UiType

LEMMA KeyAgrees ==
    ASSUME IrTypeOK, Origin, AgreeInv, UserKey
    PROVE  AgreeInv'
<1>0. ui \in UiType /\ ui.sequence + 1 \in Nat
    BY NumberFacts
<1>1. ui.screen # "wait" => ui.request = 0
    BY DEF Origin, Screened
<1>2. ui.status \in {"FAILED", "TIMEOUT"} => ui.request = 0
    BY DEF AgreeInv, Settled
<1>3. CASE SelectKey
    <2>1. PICK k \in Keys :
             LET chosen == [ui EXCEPT !.key = k, !.code = saved[k]]
             IN  \/ /\ ui' = [chosen EXCEPT !.screen = "replace", !.draining = TRUE]
                    /\ UNCHANGED <<cmdQ, evtQ, worker, rx, saved, lost, budget>>
                 \/ LearnStart(chosen)
        BY <1>3 DEF SelectKey
    <2> DEFINE chosen == [ui EXCEPT !.key = k, !.code = saved[k]]
    <2>2. chosen \in UiType /\ chosen.sequence = ui.sequence /\ chosen.request = ui.request
          /\ ui.request = 0
        <3>1. saved[k] \in Codes \cup {NoCode}
            BY DEF IrTypeOK
        <3>2. ui.request = 0
            BY <1>1, <1>3 DEF SelectKey
        <3> QED BY <1>0, <3>1, <3>2 DEF UiType
    <2> HIDE DEF chosen
    <2>3. CASE ui' = [chosen EXCEPT !.screen = "replace", !.draining = TRUE]
               /\ UNCHANGED <<cmdQ, evtQ, worker, rx, saved, lost, budget>>
        <3>1. ui'.request = ui.request
            BY <2>2, <2>3 DEF UiType
        <3> QED BY <2>2, <2>3, <3>1, UiGoesOn
    <2>4. CASE LearnStart(chosen)
        BY <2>2, <2>4, LearnStartAgrees
    <2> QED BY <2>1, <2>3, <2>4 DEF chosen
<1>4. CASE ReRecord \/ Retry
    BY <1>0, <1>1, <1>2, <1>4, LearnStartAgrees DEF ReRecord, Retry
<1>5. CASE Leave
    <2>1. ui'.request = 0 /\ ui'.status = ui.status
        BY <1>0, <1>5 DEF Leave, Left, UiType
    <2>2. UNCHANGED <<worker, evtQ>>
        BY <1>5 DEF Leave
    <2>3. CASE ui.request = 0
        <3>1. UNCHANGED <<cmdQ, lost>>
            BY <1>5, <2>3 DEF Leave
        <3> QED BY <2>1, <2>2, <2>3, <3>1, UiGoesOn
    <2>4. CASE ui.request # 0
        <3>1. lost' = (lost \/ ~Room)
            BY <1>5, <2>4 DEF Leave
        <3>2. CASE Room
            <4>1. cmdQ' = Append(cmdQ, CancelCommand)
                BY <1>5, <2>4, <3>2 DEF Leave
            <4> QED BY <2>1, <2>2, <2>4, <3>1, <4>1, CancelAgrees
        <3>3. CASE ~Room
            <4>1. cmdQ' = cmdQ
                BY <1>5, <2>4, <3>3 DEF Leave
            <4> QED BY <2>1, <2>2, <2>4, <3>1, <3>3, <4>1, CancelAgrees
        <3> QED BY <3>2, <3>3
    <2> QED BY <2>3, <2>4
<1>6. CASE EnterKeys
    <2>1. ui'.request = ui.request /\ ui'.status = ui.status
        BY <1>0, <1>6 DEF EnterKeys, UiType
    <2>2. UNCHANGED <<cmdQ, evtQ, worker, lost>>
        BY <1>6 DEF EnterKeys
    <2> QED BY <1>2, <2>1, <2>2, UiGoesOn
<1>7. CASE ResultOk
    <2>1. ui.request = 0
        BY <1>1, <1>7 DEF ResultOk
    <2>2. ui'.request = 0
        <3>1. ui.code \in Codes \cup {NoCode}
            BY <1>0 DEF UiType
        <3>2. CASE Store(ui.code)
            BY <3>1, <3>2, StoreEnds
        <3>3. CASE ui' = Left(ui, "keys")
            BY <1>0, <3>3 DEF Left, UiType
        <3> QED BY <1>7, <3>2, <3>3 DEF ResultOk
    <2>3. UNCHANGED <<cmdQ, evtQ, worker, lost>>
        BY <1>7 DEF ResultOk
    <2> QED BY <2>1, <2>2, <2>3, UiGoesOn
<1>8. CASE Transmit
    <2> DEFINE send == [type |-> "SEND", id |-> ui.sequence + 1]
    <2>1. ui'.request = ui.request /\ ui'.status = ui.status
        BY <1>0, <1>8 DEF Transmit, UiType
    <2>2. send \in Commands /\ send.type = "SEND"
        BY <1>0 DEF Commands
    <2>3. cmdQ' = cmdQ \/ cmdQ' = Append(cmdQ, send)
        BY <1>8 DEF Transmit
    <2>4. UNCHANGED <<evtQ, worker, lost>>
        BY <1>8 DEF Transmit
    <2> HIDE DEF send
    <2> QED BY <1>2, <2>1, <2>2, <2>3, <2>4, UiGoesOn
<1> QED BY <1>3, <1>4, <1>5, <1>6, <1>7, <1>8 DEF UserKey

LEMMA TurnAgrees ==
    ASSUME IrTypeOK, Origin, AgreeInv, UiTurn
    PROVE  AgreeInv'
<1>0. ui \in UiType /\ evtQ \in Seq(Events)
    BY NumberFacts
<1>1. ASSUME TakeEvent
      PROVE  evtQ # <<>> /\ evtQ' = Tail(evtQ) /\ 1 \in 1..Len(evtQ) /\ Received = evtQ[1]
             /\ Received \in Events
    BY <1>0, <1>1, TailFacts, ReceivedType DEF TakeEvent, Received
<1>2. ui.status \in {"FAILED", "TIMEOUT"} => ui.request = 0
    BY DEF AgreeInv, Settled
<1>3. CASE EventIgnored
    <2>1. UNCHANGED <<cmdQ, worker, ui, lost>>
        BY <1>3 DEF EventIgnored
    <2>2. ui.request # 0 => ~Answers(evtQ[1], ui.request)
        <3>1. ui.request # 0 => ui.screen = "wait"
            BY DEF Origin, Screened
        <3> QED BY <1>1, <1>3, <3>1 DEF EventIgnored, Mine, Answers, Ending
    <2> QED BY <1>1, <1>2, <1>3, <2>1, <2>2, UiGoesOn DEF EventIgnored
<1>4. CASE EventUnsupported
    <2>1. UNCHANGED <<cmdQ, worker, lost>> /\ Received.type = "UNSUPPORTED"
        BY <1>4 DEF EventUnsupported
    <2>2. ui'.request = ui.request /\ ui'.status = "UNSUPPORTED"
        BY <1>0, <1>4 DEF EventUnsupported, UiType
    <2>3. ~Answers(evtQ[1], ui.request)
        BY <1>1, <1>4, <2>1 DEF EventUnsupported, Answers, Ending
    <2> QED BY <1>1, <1>4, <2>1, <2>2, <2>3, UiGoesOn DEF EventUnsupported
<1>5. ASSUME TakeEvent, Mine(Received), Received.type \in Ending, ui'.request = 0, UNCHANGED <<cmdQ, worker, lost>>
      PROVE  AgreeInv'
    <2>1. Answers(evtQ[1], ui.request) /\ 1 \in 1..Len(evtQ)
        BY <1>1, <1>5 DEF Mine, Answers
    <2> QED BY <1>1, <1>5, <2>1, UiGoesOn
<1>6. CASE EventLearned
    <2>1. Received.code \in Codes \cup {NoCode}
        BY <1>1, <1>6 DEF EventLearned, Events
    <2>2. ui'.request = 0
        BY <1>6, <2>1, StoreEnds DEF EventLearned
    <2> QED BY <1>5, <1>6, <2>2 DEF EventLearned, Ending
<1>7. CASE EventEnded
    <2>1. ui'.request = 0
        BY <1>0, <1>7 DEF EventEnded, UiType
    <2> QED BY <1>5, <1>7, <2>1 DEF EventEnded, Ending
<1>8. CASE Drained
    <2>1. ui'.request = ui.request /\ ui'.status = ui.status
        BY <1>0, <1>8 DEF Drained, UiType
    <2>2. UNCHANGED <<cmdQ, evtQ, worker, lost>>
        BY <1>8 DEF Drained
    <2> QED BY <1>2, <2>1, <2>2, UiGoesOn
<1> QED BY <1>3, <1>4, <1>6, <1>7, <1>8 DEF UiTurn

-----------------------------------------------------------------------------
ReceiverInv == IrInv /\ AgreeInv

LEMMA InitAgrees == Init => AgreeInv
<1> SUFFICES ASSUME Init
             PROVE  AgreeInv
    OBVIOUS
<1>1. /\ cmdQ = <<>> /\ evtQ = <<>> /\ ~worker.learning /\ worker.out = NoEvent
      /\ ui.request = 0
    BY DEF Init
<1>2. Len(cmdQ) = 0 /\ Len(evtQ) = 0
    BY <1>1
<1>3. Ordered
    BY <1>1, <1>2 DEF Ordered
<1>4. Settled
    BY <1>1, <1>2 DEF Settled, Over
<1>5. Agreeing
    BY <1>1, <1>2 DEF Agreeing, Stopping
<1> QED BY <1>3, <1>4, <1>5 DEF AgreeInv

LEMMA ReceiverStep == ReceiverInv /\ [Next]_vars => ReceiverInv'
<1> SUFFICES ASSUME ReceiverInv, [Next]_vars
             PROVE  ReceiverInv'
    OBVIOUS
<1>0. IrInv /\ IrTypeOK /\ Origin /\ AgreeInv
    BY DEF ReceiverInv, IrInv
<1>1. IrInv'
    BY <1>0, OriginStep
<1>2. CASE Worker \/ DeadlinePasses
    <2>1. CASE TakeCancel \/ TakeLearn \/ TakeSend
        BY <1>0, <1>1, <2>1, CommandAgrees DEF ReceiverInv
    <2>2. CASE WaitEndsEmpty \/ PollFrame \/ PollNothing \/ Rearm \/ CheckDeadline \/ DeadlinePasses
        BY <1>0, <1>1, <2>2, BetweenAgrees DEF ReceiverInv
    <2>3. CASE Post
        BY <1>0, <1>1, <2>3, PostAgrees DEF ReceiverInv
    <2> QED BY <1>2, <2>1, <2>2, <2>3 DEF Worker
<1>3. CASE Frame
    <2>1. UNCHANGED <<cmdQ, evtQ, worker, ui, lost>>
        BY <1>3 DEF Frame
    <2>2. worker'.pc # "post" => worker'.out = NoEvent
        BY <1>0, <2>1 DEF AgreeInv, Settled
    <2>3. AgreeInv'
        BY <1>0, <2>1, <2>2, WentOn
    <2> QED BY <1>1, <2>3 DEF ReceiverInv
<1>4. CASE UserKey
    BY <1>0, <1>1, <1>4, KeyAgrees DEF ReceiverInv
<1>5. CASE UiTurn
    BY <1>0, <1>1, <1>5, TurnAgrees DEF ReceiverInv
<1>6. CASE UNCHANGED vars
    <2>1. UNCHANGED <<cmdQ, evtQ, worker, ui, lost>>
        BY <1>6 DEF vars
    <2>2. worker'.pc # "post" => worker'.out = NoEvent
        BY <1>0, <2>1 DEF AgreeInv, Settled
    <2>3. AgreeInv'
        BY <1>0, <2>1, <2>2, WentOn
    <2> QED BY <1>1, <2>3 DEF ReceiverInv
<1> QED BY <1>2, <1>3, <1>4, <1>5, <1>6 DEF Next

\* Once commands and events are drained and none was dropped, the worker
\* listens exactly for the request that the screen waits for
\* (ir_nec.c:169-245, ui_ir.c:3-25, ui_screens.c:142-173).
THEOREM ReceiverFollowsScreen == Spec => []ReceiverAgrees
<1>1. Init => ReceiverInv
    BY InitTyped, InitOrigin, InitAgrees DEF ReceiverInv, IrInv
<1>2. ReceiverInv /\ [Next]_vars => ReceiverInv'
    BY ReceiverStep
<1>3. ReceiverInv => ReceiverAgrees
    <2> SUFFICES ASSUME ReceiverInv, Quiet, ~lost
                 PROVE  /\ worker.learning <=> ui.request # 0
                        /\ worker.learning => worker.learnId = ui.request
        BY DEF ReceiverAgrees
    <2>1. Len(cmdQ) = 0 /\ Len(evtQ) = 0 /\ worker.out = NoEvent
        BY DEF Quiet, ReceiverInv, AgreeInv, Settled
    <2>2. Stopping /\ (ui.request # 0 => Awaited)
        BY DEF ReceiverInv, AgreeInv, Agreeing
    <2>3. worker.learning => worker.learnId = ui.request
        BY <2>1, <2>2 DEF Stopping, CancelledAfter
    <2>4. worker.learning => ui.request # 0
        BY <2>3 DEF ReceiverInv, AgreeInv, Ordered
    <2>5. ui.request # 0 => worker.learning
        BY <2>1, <2>2, NoEventFacts DEF Awaited, Answers
    <2> QED BY <2>3, <2>4, <2>5
<1> QED BY <1>1, <1>2, <1>3, PTL DEF Spec
=============================================================================
