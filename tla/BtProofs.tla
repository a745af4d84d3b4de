------------------------------ MODULE BtProofs ------------------------------
(***************************************************************************)
(* Theorems about the Bluetooth runtime, for any profiles, hosts, queue     *)
(* lengths and bounds.  Whatever fails, every reachable state is well typed,*)
(* and OFF and UNPAIRED are shown only when the whole stack is down.  Of the*)
(* link the worker and the callback task each know a part: where every wait *)
(* of a stop ends as it should (CleanStops), nothing is torn down under a   *)
(* link, and no callback of a stopped generation is acted on, whatever else *)
(* fails and whatever message is dropped.                                   *)
(***************************************************************************)
EXTENDS BtProperties, TLAPS

-----------------------------------------------------------------------------
(* The worker's record keeps its type under the updates handlers make of it  *)

LEMMA ArmType ==
    ASSUME NEW s1 \in WorkerType, NEW d \in Deadlines
    PROVE  Arm(s1, d) \in WorkerType
BY DEF Arm, WorkerType

LEMMA ClearType ==
    ASSUME NEW s1 \in WorkerType, NEW ds
    PROVE  Clear(s1, ds) \in WorkerType
BY DEF Clear, WorkerType

LEMMA UnlinkedType ==
    ASSUME NEW s1 \in WorkerType
    PROVE  Unlinked(s1) \in WorkerType
BY DEF Unlinked, WorkerType

\* a deadline is armed or cleared, or the link forgotten, and nothing else changes
LEMMA ArmSets ==
    ASSUME NEW s1 \in WorkerType, NEW d \in Deadlines
    PROVE  /\ Arm(s1, d).deadlines = s1.deadlines \cup {d}
           /\ Arm(s1, d).session = s1.session /\ Arm(s1, d).generation = s1.generation /\ Arm(s1, d).profile = s1.profile
           /\ Arm(s1, d).store = s1.store /\ Arm(s1, d).layers = s1.layers /\ Arm(s1, d).ready = s1.ready
           /\ Arm(s1, d).phase = s1.phase /\ Arm(s1, d).advertising = s1.advertising /\ Arm(s1, d).connected = s1.connected
           /\ Arm(s1, d).encrypted = s1.encrypted /\ Arm(s1, d).subscribed = s1.subscribed /\ Arm(s1, d).saved = s1.saved
           /\ Arm(s1, d).suspended = s1.suspended /\ Arm(s1, d).pairing = s1.pairing /\ Arm(s1, d).awaiting_save = s1.awaiting_save
           /\ Arm(s1, d).forgetting = s1.forgetting /\ Arm(s1, d).pair_after = s1.pair_after
BY DEF Arm, WorkerType

LEMMA ClearSets ==
    ASSUME NEW s1 \in WorkerType, NEW ds
    PROVE  /\ Clear(s1, ds).deadlines = s1.deadlines \ ds
           /\ Clear(s1, ds).session = s1.session /\ Clear(s1, ds).generation = s1.generation /\ Clear(s1, ds).profile = s1.profile
           /\ Clear(s1, ds).store = s1.store /\ Clear(s1, ds).layers = s1.layers /\ Clear(s1, ds).ready = s1.ready
           /\ Clear(s1, ds).phase = s1.phase /\ Clear(s1, ds).advertising = s1.advertising /\ Clear(s1, ds).connected = s1.connected
           /\ Clear(s1, ds).encrypted = s1.encrypted /\ Clear(s1, ds).subscribed = s1.subscribed /\ Clear(s1, ds).saved = s1.saved
           /\ Clear(s1, ds).suspended = s1.suspended /\ Clear(s1, ds).pairing = s1.pairing /\ Clear(s1, ds).awaiting_save = s1.awaiting_save
           /\ Clear(s1, ds).forgetting = s1.forgetting /\ Clear(s1, ds).pair_after = s1.pair_after
BY DEF Clear, WorkerType

LEMMA UnlinkedSets ==
    ASSUME NEW s1 \in WorkerType
    PROVE  /\ Unlinked(s1).connected = FALSE /\ Unlinked(s1).encrypted = FALSE
           /\ Unlinked(s1).session = s1.session /\ Unlinked(s1).generation = s1.generation /\ Unlinked(s1).profile = s1.profile
           /\ Unlinked(s1).store = s1.store /\ Unlinked(s1).layers = s1.layers /\ Unlinked(s1).ready = s1.ready
           /\ Unlinked(s1).phase = s1.phase /\ Unlinked(s1).advertising = s1.advertising /\ Unlinked(s1).saved = s1.saved
           /\ Unlinked(s1).suspended = s1.suspended /\ Unlinked(s1).pairing = s1.pairing /\ Unlinked(s1).awaiting_save = s1.awaiting_save
           /\ Unlinked(s1).forgetting = s1.forgetting /\ Unlinked(s1).pair_after = s1.pair_after /\ Unlinked(s1).deadlines = s1.deadlines
           /\ Unlinked(s1).due = s1.due
BY DEF Unlinked, WorkerType

LEMMA StoppedFlagsType ==
    ASSUME NEW s1 \in WorkerType
    PROVE  StoppedFlags(s1) \in WorkerType
BY DEF StoppedFlags, WorkerType

LEMMA StackUpType ==
    ASSUME NEW s1 \in WorkerType
    PROVE  StackUp(s1) \in WorkerType
<1>1. StoreOf(s1.profile) \in Stores \cup {NoProfile}
    BY DEF StoreOf, WorkerType, Remotes, Stores
<1>2. s1.deadlines \cup {"start"} \in SUBSET Deadlines
    BY DEF WorkerType, Deadlines
<1>3. StackLayers \in SUBSET Layers
    BY DEF Layers
<1>4. s1.generation + 1 \in Nat
    BY DEF WorkerType
<1> QED BY <1>1, <1>2, <1>3, <1>4 DEF StackUp, WorkerType

LEMMA AwaitingSaveType ==
    ASSUME NEW s1 \in WorkerType
    PROVE  AwaitingSave(s1) \in WorkerType
<1>1. Arm(s1, "save") \in WorkerType
    BY ArmType DEF Deadlines
<1> QED BY <1>1 DEF AwaitingSave, WorkerType
\* the part of TypeOK about the variables the worker alone writes
WorkerTyped ==
    /\ s \in WorkerType
    /\ work \in WorkType
    /\ snapshot \in SnapshotType
    /\ callbackGen \in Nat

-----------------------------------------------------------------------------
(* What the handlers share: taking a message, stopping, starting            *)

LEMMA TakeType ==
    ASSUME TypeOK, NEW types, Take(types)
    PROVE  Msg \in Messages /\ queue' \in Seq(Messages)
BY DEF TypeOK, Take, Msg

LEMMA PostsArePlaces == Posts \subseteq Places
BY DEF Places

LEMMA GotoType ==
    ASSUME TypeOK, NEW pc \in Places, Goto(pc)
    PROVE  work' \in WorkType
BY DEF TypeOK, Goto, WorkType

LEMMA DoneType ==
    ASSUME TypeOK, NEW pc \in Places, Msg \in Messages, Done(pc)
    PROVE  work' \in WorkType
BY DEF TypeOK, Done, WorkType

LEMMA StatusType ==
    ASSUME NEW s1 \in WorkerType, NEW state \in Statuses, Status(s1, state)
    PROVE  snapshot' \in SnapshotType
<1>1. s1.session \in Nat
    BY DEF WorkerType
<1> QED BY <1>1 DEF Status, SnapshotType

LEMMA BudgetType ==
    ASSUME TypeOK, NEW kind \in LimitKinds, Spend(kind)
    PROVE  budget' \in [LimitKinds -> Nat]
BY DEF TypeOK, Spend

LEMMA FaultType ==
    ASSUME TypeOK, NEW kind, Fault(kind)
    PROVE  budget' \in [LimitKinds -> Nat]
BY BudgetType DEF Fault, LimitKinds

LEMMA OpType ==
    ASSUME NEW name \in OpNames
    PROVE  Op(name) \in OpNames \X Peers
BY DEF Op, Peers

LEMMA RequestedType ==
    ASSUME TypeOK, NEW op \in OpNames \X Peers
    PROVE  [ctl EXCEPT !.ops = @ \cup {op}] \in CtlType
BY DEF TypeOK, CtlType

LEMMA BeginStopType ==
    ASSUME NEW s1 \in WorkerType, NEW shown \in SnapshotType, NEW k \in Handlers,
           NEW post \in Posts, NEW m \in Messages, BeginStop(s1, shown, k, post, m)
    PROVE  WorkerTyped'
<1>1. s' \in WorkerType
    BY StoppedFlagsType DEF BeginStop
<1>2. work' \in WorkType
    BY DEF BeginStop, WorkType, Places, Posts
<1>3. snapshot' \in SnapshotType
    <2>1. s1.session \in Nat
        BY DEF WorkerType
    <2> QED BY <2>1 DEF BeginStop, SnapshotType, Statuses
<1>4. callbackGen' \in Nat
    BY DEF BeginStop
<1> QED BY <1>1, <1>2, <1>3, <1>4 DEF WorkerTyped

LEMMA StartStackFailsType ==
    ASSUME TypeOK, NEW s1 \in WorkerType, NEW post \in Posts, NEW m \in Messages,
           StartStackFails(s1, post, m)
    PROVE  WorkerTyped' /\ ctl' \in CtlType /\ budget' \in [LimitKinds -> Nat]
<1>1. "fail" \in Handlers /\ "STARTING" \in Statuses /\ s1.session \in Nat
    BY DEF Handlers, Statuses, WorkerType
<1>2. CASE BeginStop(s1, snapshot, "fail", post, m) /\ UNCHANGED <<ctl, budget>>
    BY <1>1, <1>2, BeginStopType DEF TypeOK
<1>3. ASSUME Fault("api"), UNCHANGED ctl, NEW left \in PartialStacks,
             BeginStop([StackUp(s1) EXCEPT !.layers = left \cup (s1.layers \cap {"controller_init"})],
                       [session |-> s1.session, state |-> "STARTING"], "fail", post, m)
      PROVE  WorkerTyped' /\ ctl' \in CtlType /\ budget' \in [LimitKinds -> Nat]
    <2>1. left \cup (s1.layers \cap {"controller_init"}) \in SUBSET Layers
        BY DEF PartialStacks, StackLayers, Layers
    <2>2. [StackUp(s1) EXCEPT !.layers = left \cup (s1.layers \cap {"controller_init"})] \in WorkerType
        BY <2>1, StackUpType DEF WorkerType
    <2>3. [session |-> s1.session, state |-> "STARTING"] \in SnapshotType
        BY <1>1 DEF SnapshotType
    <2>4. WorkerTyped'
        BY <1>1, <1>3, <2>2, <2>3, BeginStopType
    <2> QED BY <1>3, <2>4, FaultType DEF TypeOK
<1> QED BY <1>2, <1>3 DEF StartStackFails

LEMMA StartRuntimeType ==
    ASSUME TypeOK, NEW s1 \in WorkerType, NEW post \in Posts, NEW m \in Messages,
           StartRuntime(s1, post, m)
    PROVE  WorkerTyped' /\ ctl' \in CtlType /\ ccc' \in BOOLEAN /\ budget' \in [LimitKinds -> Nat]
<1>1. CASE StartStackFails(s1, post, m) /\ UNCHANGED ccc
    BY <1>1, StartStackFailsType DEF TypeOK
<1>2. CASE BeginStop(StackUp(s1), snapshot, "fail", post, m) /\ UNCHANGED <<ctl, ccc, budget>>
    <2>1. "fail" \in Handlers
        BY DEF Handlers
    <2> QED BY <1>2, <2>1, StackUpType, BeginStopType DEF TypeOK
<1>3. ASSUME s' = [StackUp(s1) EXCEPT !.layers = Layers,
                                      !.pairing = s1.profile.peer = NoPeer,
                                      !.saved = s1.profile.peer # NoPeer,
                                      !.awaiting_save = FALSE, !.forgetting = FALSE, !.suspended = FALSE,
                                      !.phase = "resetting"],
             callbackGen' = s1.generation + 1,
             Status(s1, "STARTING"),
             ctl' = [ctl EXCEPT !.ops = @ \cup {Op(g) : g \in Gates} \cup {Op("privacy_off")}],
             ccc' = FALSE,
             work' = [work EXCEPT !.pc = post, !.msg = m],
             UNCHANGED budget
      PROVE  WorkerTyped' /\ ctl' \in CtlType /\ ccc' \in BOOLEAN /\ budget' \in [LimitKinds -> Nat]
    <2>1. s' \in WorkerType
        <3> DEFINE up    == StackUp(s1)
                   fresh == s1.profile.peer = NoPeer
                   bond  == s1.profile.peer # NoPeer
                   base  == [up EXCEPT !.layers = Layers, !.pairing = fresh, !.saved = bond]
        <3>1. up \in WorkerType
            BY StackUpType
        <3>2. fresh \in BOOLEAN /\ bond \in BOOLEAN
            OBVIOUS
        <3> DEFINE half == [base EXCEPT !.awaiting_save = FALSE, !.forgetting = FALSE]
        <3>3. s' = [half EXCEPT !.suspended = FALSE, !.phase = "resetting"]
            BY <1>3
        <3> HIDE DEF up, fresh, bond
        <3>4. base \in WorkerType
            BY <3>1, <3>2 DEF WorkerType
        <3> HIDE DEF base
        <3>5. half \in WorkerType
            BY <3>4 DEF WorkerType
        <3> HIDE DEF half
        <3> QED BY <3>3, <3>5 DEF WorkerType
    <2>2. work' \in WorkType
        BY <1>3 DEF TypeOK, WorkType, Places, Posts
    <2>3. snapshot' \in SnapshotType
        BY <1>3, StatusType DEF Statuses
    <2>4. callbackGen' \in Nat
        BY <1>3 DEF WorkerType
    <2>5. ctl' \in CtlType
        <3>1. \A g \in Gates \cup {"privacy_off"} : Op(g) \in OpNames \X Peers
            BY ConstantsAssumption, OpType DEF OpNames, ReadyFlags
        <3> QED BY <1>3, <3>1 DEF TypeOK, CtlType
    <2> QED BY <1>3, <2>1, <2>2, <2>3, <2>4, <2>5 DEF WorkerTyped, TypeOK
<1> QED BY <1>1, <1>2, <1>3 DEF StartRuntime

LEMMA RestartType ==
    ASSUME TypeOK, NEW s1 \in WorkerType, RestartWith(s1)
    PROVE  WorkerTyped' /\ ctl' \in CtlType /\ ccc' \in BOOLEAN /\ budget' \in [LimitKinds -> Nat]
<1>1. work.post \in Posts /\ work.msg \in Messages /\ "fail" \in Handlers
    BY DEF TypeOK, WorkType, Handlers
<1>2. CASE StartRuntime(s1, work.post, work.msg)
    BY <1>1, <1>2, StartRuntimeType
<1>3. CASE BeginStop(s1, snapshot, "fail", work.post, work.msg) /\ UNCHANGED <<ctl, ccc, budget>>
    BY <1>1, <1>3, BeginStopType DEF TypeOK
<1> QED BY <1>2, <1>3 DEF RestartWith

LEMMA PostPeerType ==
    ASSUME TypeOK, NEW s1 \in WorkerType, NEW peer \in Peers, PostPeer(s1, peer)
    PROVE  evtq' \in Seq([session : Nat, peer : Peers])
<1>1. s1.session \in Nat
    BY DEF WorkerType
<1> DEFINE Event == [session : Nat, peer : Peers]
           event == [session |-> s1.session, peer |-> peer]
<1>2. event \in Event
    BY <1>1
<1>3. evtq \in Seq(Event)
    BY DEF TypeOK
<1>4. evtq' = IF Len(evtq) < EvtCap THEN Append(evtq, event) ELSE evtq
    BY DEF PostPeer
<1> HIDE DEF Event, event
<1>5. evtq' \in Seq(Event)
    BY <1>2, <1>3, <1>4
<1> QED BY <1>5 DEF Event

LEMMA ForgetBondsType ==
    ASSUME TypeOK, NEW s1 \in WorkerType, ForgetBonds(s1)
    PROVE  /\ WorkerTyped' /\ nvm' \in Durable /\ budget' \in [LimitKinds -> Nat]
           /\ evtq' \in Seq([session : Nat, peer : Peers])
<1>1. CASE /\ nvm' = [nvm EXCEPT !.ccc[s1.profile.id] = "none"]
           /\ s' = AwaitingSave([Clear(s1, {"start"}) EXCEPT !.forgetting = TRUE, !.pair_after = work.msg.flag])
           /\ PostPeer(s1, NoPeer)
           /\ callbackGen' = s1.generation
           /\ Status(s1, "STARTING")
           /\ Goto(work.post)
           /\ UNCHANGED budget
    <2>1. s' \in WorkerType
        <3> DEFINE cleared == Clear(s1, {"start"})
        <3>1. cleared \in WorkerType
            BY ClearType
        <3>2. work.msg.flag \in BOOLEAN
            BY DEF TypeOK, WorkType, Messages
        <3> HIDE DEF cleared
        <3>3. [cleared EXCEPT !.forgetting = TRUE, !.pair_after = work.msg.flag] \in WorkerType
            BY <3>1, <3>2 DEF WorkerType
        <3> QED BY <1>1, <3>3, AwaitingSaveType DEF cleared
    <2>2. work' \in WorkType
        BY <1>1, GotoType, PostsArePlaces DEF TypeOK, WorkType
    <2>3. snapshot' \in SnapshotType
        BY <1>1, StatusType DEF Statuses
    <2>4. callbackGen' \in Nat
        BY <1>1 DEF WorkerType
    <2>5. nvm' \in Durable
        BY <1>1 DEF TypeOK, Durable
    <2>6. evtq' \in Seq([session : Nat, peer : Peers])
        BY <1>1, PostPeerType DEF Peers
    <2> QED BY <1>1, <2>1, <2>2, <2>3, <2>4, <2>5, <2>6 DEF WorkerTyped, TypeOK
<1>2. CASE /\ Fault("save")
           /\ BeginStop(s1, snapshot, "fail", "idle", work.msg)
           /\ UNCHANGED <<nvm, evtq>>
    <2>1. work.msg \in Messages /\ "fail" \in Handlers /\ "idle" \in Posts
        BY DEF TypeOK, WorkType, Handlers, Places, Posts
    <2> QED BY <1>2, <2>1, BeginStopType, FaultType DEF TypeOK
<1> QED BY <1>1, <1>2 DEF ForgetBonds

LEMMA ReadyIfSubscribedType ==
    ASSUME TypeOK, NEW s1 \in WorkerType, NEW post \in Posts, NEW m \in Messages,
           ReadyIfSubscribed(s1, post, m)
    PROVE  WorkerTyped' /\ nvm' \in Durable /\ budget' \in [LimitKinds -> Nat]
<1>1. CASE /\ s' = s1
           /\ work' = [work EXCEPT !.pc = post, !.msg = m]
           /\ UNCHANGED <<callbackGen, snapshot, nvm, budget>>
    BY <1>1 DEF TypeOK, WorkerTyped, WorkType, Places, Posts
<1>2. CASE /\ nvm' = [nvm EXCEPT !.ccc[s1.profile.id] = IF ccc THEN "on" ELSE "off"]
           /\ s' = [(IF ccc THEN Clear(s1, {"connect", "pair"}) ELSE s1) EXCEPT !.subscribed = ccc]
           /\ Status(s1, IF ~ccc THEN "CONNECTING" ELSE IF s1.suspended THEN "SUSPENDED" ELSE "CONNECTED")
           /\ work' = [work EXCEPT !.pc = post, !.msg = m]
           /\ UNCHANGED <<callbackGen, budget>>
    <2>1. s' \in WorkerType
        <3> DEFINE base == IF ccc THEN Clear(s1, {"connect", "pair"}) ELSE s1
        <3>1. base \in WorkerType /\ ccc \in BOOLEAN
            BY ClearType DEF TypeOK
        <3>2. s' = [base EXCEPT !.subscribed = ccc]
            BY <1>2
        <3> HIDE DEF base
        <3> QED BY <3>1, <3>2 DEF WorkerType
    <2>2. snapshot' \in SnapshotType
        BY <1>2, StatusType DEF Statuses
    <2>3. nvm' \in Durable
        BY <1>2 DEF TypeOK, Durable
    <2>4. work' \in WorkType
        BY <1>2 DEF TypeOK, WorkType, Places, Posts
    <2> QED BY <1>2, <2>1, <2>2, <2>3, <2>4 DEF WorkerTyped, TypeOK
<1>3. CASE /\ UNCHANGED budget \/ Fault("save")
           /\ BeginStop(s1, snapshot, "fail", post, m)
           /\ UNCHANGED nvm
    <2>1. "fail" \in Handlers
        BY DEF Handlers
    <2>2. budget' \in [LimitKinds -> Nat]
        BY <1>3, FaultType DEF TypeOK
    <2> QED BY <1>3, <2>1, <2>2, BeginStopType DEF TypeOK
<1> QED BY <1>1, <1>2, <1>3 DEF ReadyIfSubscribed

LEMMA RequestType ==
    ASSUME TypeOK, Msg \in Messages, NEW s1 \in WorkerType, NEW op \in OpNames \X Peers, Request(s1, op)
    PROVE  WorkerTyped' /\ ctl' \in CtlType /\ budget' \in [LimitKinds -> Nat]
<1>1. "after" \in Posts /\ "fail" \in Handlers
    BY DEF Places, Posts, Handlers
<1>2. CASE /\ s' = s1
           /\ ctl' = [ctl EXCEPT !.ops = @ \cup {op}]
           /\ Done("after")
           /\ UNCHANGED <<callbackGen, snapshot, budget>>
    BY <1>1, <1>2, DoneType, PostsArePlaces, RequestedType DEF TypeOK, WorkerTyped
<1>3. CASE /\ Fault("api")
           /\ BeginStop(s1, snapshot, "fail", "after", Msg)
           /\ UNCHANGED ctl
    BY <1>1, <1>3, BeginStopType, FaultType DEF TypeOK
<1> QED BY <1>2, <1>3 DEF Request

LEMMA SetFlagsType ==
    ASSUME TypeOK, Msg \in Messages, NEW s1 \in WorkerType, SetFlags(s1)
    PROVE  WorkerTyped' /\ ctl' \in CtlType /\ budget' \in [LimitKinds -> Nat]
BY DoneType, PostsArePlaces DEF SetFlags, TypeOK, WorkerTyped, Places, Posts

-----------------------------------------------------------------------------
(* Each step preserves the types                                             *)

LEMMA StopStepsType ==
    ASSUME TypeOK, StopSteps
    PROVE  TypeOK'
<1>1. CASE StopAdvertisingSkip
    <2>1. s' \in WorkerType
        BY <1>1 DEF StopAdvertisingSkip, TypeOK, WorkerType
    <2>2. work' \in WorkType
        BY <1>1, GotoType, PostsArePlaces DEF StopAdvertisingSkip, Places, Posts
    <2> QED BY <1>1, <2>1, <2>2 DEF StopAdvertisingSkip, TypeOK, Outside, UiVars
<1>2. CASE StopAdvertisingRequest
    <2>1. ctl' \in CtlType
        <3>1. Op("adv_stop") \in OpNames \X Peers
            BY OpType DEF OpNames
        <3> QED BY <1>2, <3>1 DEF StopAdvertisingRequest, TypeOK, CtlType
    <2>2. work' \in WorkType
        BY <1>2, GotoType, PostsArePlaces DEF StopAdvertisingRequest, Places, Posts
    <2> QED BY <1>2, <2>1, <2>2 DEF StopAdvertisingRequest, TypeOK, Outside, UiVars
<1>3. CASE StopAdvertisingWait
    <2>1. s' \in WorkerType
        BY <1>3 DEF StopAdvertisingWait, TypeOK, WorkerType
    <2>2. ctl' \in CtlType
        BY <1>3 DEF StopAdvertisingWait, TypeOK, CtlType
    <2>3. work' \in WorkType
        BY <1>3 DEF StopAdvertisingWait, TypeOK, WorkType, CtlType, Places, Posts
    <2>4. budget' \in [LimitKinds -> Nat]
        BY <1>3, FaultType DEF StopAdvertisingWait, TypeOK
    <2> QED BY <1>3, <2>1, <2>2, <2>3, <2>4 DEF StopAdvertisingWait, TypeOK, Outside, UiVars
<1>4. CASE DisconnectLink
    <2>1. ctl' \in CtlType
        <3>1. Op("disconnect") \in OpNames \X Peers
            BY OpType DEF OpNames
        <3> QED BY <1>4, <3>1 DEF DisconnectLink, TypeOK, CtlType
    <2>2. work' \in WorkType
        BY <1>4, GotoType, PostsArePlaces DEF DisconnectLink, Places, Posts
    <2> QED BY <1>4, <2>1, <2>2 DEF DisconnectLink, TypeOK, Outside, UiVars
<1>5. CASE DisconnectDone
    <2>1. s' \in WorkerType
        BY <1>5, UnlinkedType DEF DisconnectDone, TypeOK
    <2>2. work' \in WorkType
        BY <1>5, GotoType, PostsArePlaces DEF DisconnectDone, Places, Posts
    <2> QED BY <1>5, <2>1, <2>2 DEF DisconnectDone, TypeOK, Outside, UiVars
<1>6. CASE DisconnectTimeout
    <2>1. s' \in WorkerType
        BY <1>6, UnlinkedType DEF DisconnectTimeout, TypeOK
    <2>2. work' \in WorkType
        BY <1>6 DEF DisconnectTimeout, TypeOK, WorkType, Places, Posts
    <2>3. budget' \in [LimitKinds -> Nat]
        BY <1>6, FaultType DEF DisconnectTimeout, TypeOK
    <2> QED BY <1>6, <2>1, <2>2, <2>3 DEF DisconnectTimeout, TypeOK, Outside, UiVars
<1>7. CASE TeardownHid
    <2>1. s' \in WorkerType
        <3>1. s' = s \/ s' = [s EXCEPT !.layers = @ \ {"hid"}]
            BY <1>7 DEF TeardownHid
        <3>2. s \in WorkerType
            BY DEF TypeOK
        <3> QED BY <3>1, <3>2 DEF WorkerType
    <2>2. ctl' \in CtlType
        <3>1. PICK gone \in {{}, {Op("hid"), Op("suspend"), Op("resume")}} : ctl' = [ctl EXCEPT !.ops = @ \ gone]
            <4>1. ctl = [ctl EXCEPT !.ops = @ \ {}]
                BY DEF TypeOK, CtlType
            <4> QED BY <1>7, <4>1 DEF TeardownHid
        <3> QED BY <3>1 DEF TypeOK, CtlType
    <2>3. work' \in WorkType
        BY <1>7 DEF TeardownHid, Goto, TypeOK, WorkType, Places, Posts
    <2>4. budget' \in [LimitKinds -> Nat]
        BY <1>7, FaultType DEF TeardownHid, TypeOK
    <2> QED BY <1>7, <2>1, <2>2, <2>3, <2>4 DEF TeardownHid, TypeOK, Outside, UiVars
<1>8. CASE TeardownHost
    <2>1. PICK left \in {{}} \cup {StuckWith[l] \cap s.layers : l \in s.layers \cap StackLayers} :
              /\ IF left = {} THEN UNCHANGED budget ELSE Fault("teardown")
              /\ s' = [s EXCEPT !.layers = left \cup (@ \cap {"hid"}), !.ready = {}, !.phase = "resetting"]
              /\ work' = [work EXCEPT !.pc = "resume", !.ok = @ /\ left = {}]
        BY <1>8 DEF TeardownHost
    <2>2. s' \in WorkerType
        <3>1. left \cup (s.layers \cap {"hid"}) \in SUBSET Layers
            BY DEF TypeOK, WorkerType
        <3> QED BY <2>1, <3>1 DEF TypeOK, WorkerType
    <2>3. work' \in WorkType
        BY <2>1 DEF TypeOK, WorkType, Places, Posts
    <2>4. budget' \in [LimitKinds -> Nat]
        BY <2>1, FaultType DEF TypeOK
    <2>5. ctl' \in CtlType
        <3>1. ctl' = ctl \/ ctl' = [ctl EXCEPT !.ops = {}, !.adv = "off"]
            BY <1>8 DEF TeardownHost
        <3> QED BY <3>1 DEF TypeOK, CtlType
    <2>6. link' \in LinkType
        BY <1>8 DEF TeardownHost, TypeOK, LinkType
    <2> QED BY <1>8, <2>2, <2>3, <2>4, <2>5, <2>6 DEF TeardownHost, TypeOK, UiVars
<1> QED BY <1>1, <1>2, <1>3, <1>4, <1>5, <1>6, <1>7, <1>8 DEF StopSteps

LEMMA FinishStepsType ==
    ASSUME TypeOK, FinishSteps
    PROVE  TypeOK'
<1>1. CASE FinishFail
    <2>1. snapshot' \in SnapshotType
        BY <1>1, StatusType DEF FinishFail, TypeOK, Statuses
    <2>2. work' \in WorkType
        BY <1>1, GotoType, PostsArePlaces DEF FinishFail, TypeOK, WorkType
    <2> QED BY <1>1, <2>1, <2>2 DEF FinishFail, TypeOK, Outside, UiVars
<1>2. CASE FinishTimeout
    <2>1. snapshot' \in SnapshotType
        BY <1>2, StatusType DEF FinishTimeout, TypeOK, Statuses
    <2>2. work' \in WorkType
        BY <1>2, GotoType, PostsArePlaces DEF FinishTimeout, TypeOK, WorkType
    <2> QED BY <1>2, <2>1, <2>2 DEF FinishTimeout, TypeOK, Outside, UiVars
<1>3. CASE FinishClose
    <2>1. snapshot' \in SnapshotType
        BY <1>3, StatusType DEF FinishClose, TypeOK, Statuses
    <2>2. work' \in WorkType
        BY <1>3, GotoType, PostsArePlaces DEF FinishClose, TypeOK, WorkType
    <2>3. s' \in WorkerType
        BY <1>3 DEF FinishClose, TypeOK, WorkerType
    <2> QED BY <1>3, <2>1, <2>2, <2>3 DEF FinishClose, TypeOK, Outside, UiVars
<1>4. CASE FinishUnpair
    <2>1. snapshot' \in SnapshotType
        BY <1>4, StatusType DEF FinishUnpair, TypeOK, Statuses
    <2>2. work' \in WorkType
        BY <1>4, GotoType, PostsArePlaces DEF FinishUnpair, TypeOK, WorkType
    <2> QED BY <1>4, <2>1, <2>2 DEF FinishUnpair, TypeOK, Outside, UiVars
<1>5. CASE FinishAuthRetry
    <2>1. snapshot' \in SnapshotType
        BY <1>5, StatusType DEF FinishAuthRetry, TypeOK, Statuses
    <2>2. work' \in WorkType
        BY <1>5, GotoType, PostsArePlaces DEF FinishAuthRetry, TypeOK, WorkType
    <2> QED BY <1>5, <2>1, <2>2 DEF FinishAuthRetry, TypeOK, Outside, UiVars
<1>6. CASE FinishOpen
    <2>1. work.msg.session \in Nat /\ work.msg.remote \in Remotes
        BY DEF TypeOK, WorkType, Messages
    <2>2. [s EXCEPT !.session = work.msg.session, !.profile = work.msg.remote] \in WorkerType
        BY <2>1 DEF TypeOK, WorkerType
    <2> QED BY <1>6, <2>2, RestartType DEF FinishOpen, WorkerTyped, TypeOK, UiVars
<1>7. CASE FinishRestart
    <2>1. s \in WorkerType
        BY DEF TypeOK
    <2> QED BY <1>7, <2>1, RestartType DEF FinishRestart, WorkerTyped, TypeOK, UiVars
<1>8. CASE FinishRelease
    <2>1. CASE Goto(work.post) /\ UNCHANGED <<callbackGen, snapshot, s, ctl, ccc, budget>>
        <3>1. work' \in WorkType
            BY <2>1, GotoType, PostsArePlaces DEF TypeOK, WorkType
        <3> QED BY <1>8, <2>1, <3>1 DEF FinishRelease, TypeOK, UiVars
    <2>2. CASE RestartWith(s)
        <3>1. s \in WorkerType
            BY DEF TypeOK
        <3> QED BY <1>8, <2>2, <3>1, RestartType DEF FinishRelease, WorkerTyped, TypeOK, UiVars
    <2> QED BY <1>8, <2>1, <2>2 DEF FinishRelease
<1>9. CASE FinishForget
    <2>1. /\ s \in WorkerType /\ StackUp(s) \in WorkerType
          /\ work.post \in Posts /\ work.msg \in Messages
          /\ "fail" \in Handlers /\ "bond_wait" \in Places
        BY StackUpType DEF TypeOK, WorkType, Handlers, Places, Posts
    <2>2. CASE BeginStop(s, snapshot, "fail", work.post, work.msg) /\ UNCHANGED <<ctl, nvm, evtq, budget>>
        BY <1>9, <2>1, <2>2, BeginStopType DEF FinishForget, WorkerTyped, TypeOK
    <2>3. CASE StartStackFails(s, work.post, work.msg) /\ UNCHANGED <<nvm, evtq>>
        BY <1>9, <2>1, <2>3, StartStackFailsType DEF FinishForget, WorkerTyped, TypeOK
    <2>4. CASE ForgetBonds(StackUp(s)) /\ UNCHANGED ctl
        BY <1>9, <2>1, <2>4, ForgetBondsType DEF FinishForget, WorkerTyped, TypeOK
    <2>5. CASE /\ s' = StackUp(s)
               /\ callbackGen' = s.generation + 1
               /\ Status(s, "STARTING")
               /\ ctl' = [ctl EXCEPT !.ops = @ \cup {<<"remove_bond", s.profile.peer>>}, !.bondRemoved = "no"]
               /\ Goto("bond_wait")
               /\ UNCHANGED <<nvm, evtq, budget>>
        <3>1. work' \in WorkType
            BY <2>1, <2>5, GotoType, PostsArePlaces
        <3>2. snapshot' \in SnapshotType
            BY <2>1, <2>5, StatusType DEF Statuses
        <3>3. callbackGen' \in Nat
            BY <2>5 DEF TypeOK, WorkerType
        <3>4. <<"remove_bond", s.profile.peer>> \in OpNames \X Peers
            BY DEF TypeOK, WorkerType, Remotes, OpNames
        <3>5. ctl' \in CtlType
            BY <2>5, <3>4 DEF TypeOK, CtlType
        <3> QED BY <1>9, <2>1, <2>5, <3>1, <3>2, <3>3, <3>5 DEF FinishForget, TypeOK
    <2> QED BY <1>9, <2>2, <2>3, <2>4, <2>5 DEF FinishForget
<1>10. CASE RemoveBondWait
    <2>1. /\ s \in WorkerType /\ snapshot \in SnapshotType
          /\ work.post \in Posts /\ work.msg \in Messages /\ "fail" \in Handlers
        BY DEF TypeOK, WorkType, Handlers
    <2>2. ctl' \in CtlType
        BY <1>10 DEF RemoveBondWait, TypeOK, CtlType
    <2>3. CASE ForgetBonds(s)
        BY <1>10, <2>1, <2>2, <2>3, ForgetBondsType DEF RemoveBondWait, WorkerTyped, TypeOK
    <2>4. CASE /\ BeginStop(s, snapshot, "fail", work.post, work.msg)
               /\ UNCHANGED <<nvm, evtq>>
               /\ UNCHANGED budget \/ Fault("bond")
        <3>1. budget' \in [LimitKinds -> Nat]
            BY <2>4, FaultType DEF TypeOK
        <3> QED BY <1>10, <2>1, <2>2, <2>4, <3>1, BeginStopType DEF RemoveBondWait, WorkerTyped, TypeOK
    <2> QED BY <1>10, <2>3, <2>4 DEF RemoveBondWait
<1> QED BY <1>1, <1>2, <1>3, <1>4, <1>5, <1>6, <1>7, <1>8, <1>9, <1>10 DEF FinishSteps

LEMMA ApiHandlersType ==
    ASSUME TypeOK, ApiHandlers
    PROVE  TypeOK'
<1> USE DEF ApiTypes, CallbackTypes
<1>1. /\ s \in WorkerType /\ snapshot \in SnapshotType
      /\ {"fail", "open", "forget", "restart", "unpair", "release"} \subseteq Handlers
      /\ {"idle", "tail", "after"} \subseteq Posts
    BY DEF TypeOK, Handlers, Places, Posts
<1>2. CASE HandleOpen
    <2>1. Msg \in Messages /\ queue' \in Seq(Messages)
        BY <1>2, TakeType DEF HandleOpen
    <2>2. WorkerTyped'
        BY <1>1, <1>2, <2>1, BeginStopType, DoneType, PostsArePlaces DEF HandleOpen, TypeOK, WorkerTyped
    <2> QED BY <1>2, <2>1, <2>2 DEF HandleOpen, WorkerTyped, TypeOK, Outside, UiVars
<1>3. CASE HandleForget
    <2>1. Msg \in Messages /\ queue' \in Seq(Messages)
        BY <1>3, TakeType DEF HandleForget
    <2>2. WorkerTyped'
        BY <1>1, <1>3, <2>1, BeginStopType DEF HandleForget
    <2> QED BY <1>3, <2>1, <2>2 DEF HandleForget, WorkerTyped, TypeOK, Outside, UiVars
<1>4. CASE HandleSaved
    <2>1. Msg \in Messages /\ queue' \in Seq(Messages)
        BY <1>4, TakeType DEF HandleSaved
    <2>2. AckFlags \in WorkerType
        <3> DEFINE cleared == Clear(s, {"save"})
        <3>1. cleared \in WorkerType
            BY <1>1, ClearType
        <3>2. AckFlags = [cleared EXCEPT !.awaiting_save = FALSE]
            BY DEF AckFlags
        <3> HIDE DEF cleared
        <3> QED BY <3>1, <3>2 DEF WorkerType
    <2>3. Msg.remote \in Remotes
        BY <2>1 DEF Messages
    <2> DEFINE acked == AckFlags
    <2> HIDE DEF acked
    <2>4. acked \in WorkerType /\ acked = AckFlags
        BY <2>2 DEF acked
    <2>5. [acked EXCEPT !.profile = Msg.remote, !.forgetting = FALSE] \in WorkerType
        BY <2>3, <2>4 DEF WorkerType
    <2>6. [acked EXCEPT !.saved = TRUE, !.pairing = FALSE] \in WorkerType
        BY <2>4 DEF WorkerType
    <2>7. CASE BeginStop(AckFlags, snapshot, "fail", "idle", Msg) /\ UNCHANGED <<nvm, budget>>
        BY <1>1, <1>4, <2>1, <2>2, <2>7, BeginStopType DEF HandleSaved, WorkerTyped, TypeOK, UiVars
    <2>8. CASE /\ BeginStop([AckFlags EXCEPT !.profile = Msg.remote, !.forgetting = FALSE], snapshot,
                            IF s.pair_after THEN "restart" ELSE "unpair", "tail", Msg)
               /\ UNCHANGED <<nvm, budget>>
        <3>1. WorkerTyped'
            BY <1>1, <2>1, <2>4, <2>5, <2>8, BeginStopType
        <3> QED BY <1>4, <2>1, <2>8, <3>1 DEF HandleSaved, WorkerTyped, TypeOK, UiVars
    <2>9. CASE /\ BeginStop([AckFlags EXCEPT !.saved = TRUE, !.pairing = FALSE], snapshot, "restart", "tail", Msg)
               /\ UNCHANGED <<nvm, budget>>
        <3>1. WorkerTyped'
            BY <1>1, <2>1, <2>4, <2>6, <2>9, BeginStopType
        <3> QED BY <1>4, <2>1, <2>9, <3>1 DEF HandleSaved, WorkerTyped, TypeOK, UiVars
    <2>10. CASE ReadyIfSubscribed([AckFlags EXCEPT !.saved = TRUE, !.pairing = FALSE], "tail", Msg)
        <3>1. WorkerTyped' /\ nvm' \in Durable /\ budget' \in [LimitKinds -> Nat]
            BY <1>1, <2>1, <2>4, <2>6, <2>10, ReadyIfSubscribedType
        <3> QED BY <1>4, <2>1, <3>1 DEF HandleSaved, WorkerTyped, TypeOK, UiVars
    <2> QED BY <1>4, <2>7, <2>8, <2>9, <2>10 DEF HandleSaved
<1>5. CASE HandleTap
    <2>1. Msg \in Messages /\ queue' \in Seq(Messages)
        BY <1>5, TakeType DEF HandleTap
    <2>2. WorkerTyped' /\ budget' \in [LimitKinds -> Nat]
        BY <1>1, <1>5, <2>1, BeginStopType, DoneType, PostsArePlaces, FaultType DEF HandleTap, TypeOK, WorkerTyped
    <2> QED BY <1>5, <2>1, <2>2 DEF HandleTap, WorkerTyped, TypeOK, Outside, UiVars
<1>6. CASE HandleRelease
    <2>1. Msg \in Messages /\ queue' \in Seq(Messages)
        BY <1>6, TakeType DEF HandleRelease
    <2>2. WorkerTyped' /\ budget' \in [LimitKinds -> Nat]
        BY <1>1, <1>6, <2>1, BeginStopType, DoneType, PostsArePlaces, FaultType DEF HandleRelease, ReleaseFails, TypeOK, WorkerTyped
    <2> QED BY <1>6, <2>1, <2>2 DEF HandleRelease, WorkerTyped, TypeOK, Outside, UiVars
<1>7. CASE HandleClose
    <2>1. Msg \in Messages /\ queue' \in Seq(Messages)
        BY <1>7, TakeType DEF HandleClose
    <2>2. work' \in WorkType
        BY <1>1, <1>7, <2>1, DoneType, PostsArePlaces DEF HandleClose
    <2> QED BY <1>7, <2>1, <2>2 DEF HandleClose, TypeOK, Outside, UiVars
<1>8. CASE HandleDropped
    <2>1. Msg \in Messages /\ queue' \in Seq(Messages)
        BY <1>8, TakeType DEF HandleDropped
    <2>2. work' \in WorkType
        BY <1>1, <1>8, <2>1, DoneType, PostsArePlaces DEF HandleDropped
    <2> QED BY <1>8, <2>1, <2>2 DEF HandleDropped, TypeOK, Outside, UiVars
<1> QED BY <1>2, <1>3, <1>4, <1>5, <1>6, <1>7, <1>8 DEF ApiHandlers

LEMMA CallbackHandlersType ==
    ASSUME TypeOK, CallbackHandlers
    PROVE  TypeOK'
<1>1. /\ s \in WorkerType /\ snapshot \in SnapshotType
      /\ {"fail", "restart", "release", "auth_retry"} \subseteq Handlers
      /\ {"tail", "after"} \subseteq Posts /\ "disconnect" \in Places
    BY DEF TypeOK, Handlers, Places, Posts
<1>2. CASE HandleGate
    <2>1. Msg \in Messages /\ queue' \in Seq(Messages)
        BY <1>2, TakeType DEF HandleGate, TakeCallback
    <2>2. s' \in WorkerType
        <3> DEFINE flag == GateOf[Msg.type]
        <3>1. Msg.type \in {"ADV_DATA", "SCAN_DATA", "ADDRESS"}
            BY <1>2 DEF HandleGate, TakeCallback, Take, Msg
        <3>2. flag \in ReadyFlags
            BY <3>1 DEF GateOf, ReadyFlags
        <3>3. s' = [s EXCEPT !.ready = IF Msg.ok THEN @ \cup {flag} ELSE @ \ {flag}]
            BY <1>2 DEF HandleGate
        <3> HIDE DEF flag
        <3> QED BY <1>1, <3>2, <3>3 DEF WorkerType
    <2>3. work' \in WorkType
        BY <1>1, <1>2, <2>1, DoneType, PostsArePlaces DEF HandleGate
    <2> QED BY <1>2, <2>1, <2>2, <2>3 DEF HandleGate, WorkerTyped, TypeOK, Outside, UiVars
<1>3. CASE HandleHidReady
    <2>1. Msg \in Messages /\ queue' \in Seq(Messages)
        BY <1>3, TakeType DEF HandleHidReady, TakeCallback
    <2>2. s' \in WorkerType
        BY <1>1, <1>3 DEF HandleHidReady, WorkerType, ReadyFlags
    <2>3. work' \in WorkType
        <3> DEFINE failed == [Msg EXCEPT !.ok = FALSE]
        <3>1. failed \in Messages
            BY <2>1 DEF Messages
        <3>2. Done("after") \/ work' = [work EXCEPT !.pc = "after", !.msg = failed]
            BY <1>3 DEF HandleHidReady
        <3> HIDE DEF failed
        <3>3. work \in WorkType
            BY DEF TypeOK
        <3> QED BY <1>1, <2>1, <3>1, <3>2, <3>3, DoneType, PostsArePlaces DEF WorkType
    <2>4. ccc' \in BOOLEAN /\ budget' \in [LimitKinds -> Nat]
        BY <1>3, FaultType DEF HandleHidReady, TypeOK
    <2> QED BY <1>3, <2>1, <2>2, <2>3, <2>4 DEF HandleHidReady, WorkerTyped, TypeOK, UiVars
<1>4. CASE HandlePrivacy
    <2>1. Msg \in Messages /\ queue' \in Seq(Messages)
        BY <1>4, TakeType DEF HandlePrivacy, TakeCallback
    <2>2. Op("wl_clear") \in OpNames \X Peers
        BY OpType DEF OpNames
    <2>3. [s EXCEPT !.phase = "preparing"] \in WorkerType
        BY <1>1 DEF WorkerType
    <2>4. [s EXCEPT !.phase = "ready", !.ready = @ \cup {"privacy"}] \in WorkerType
        BY <1>1 DEF WorkerType, ReadyFlags
    <2>5. WorkerTyped' /\ ctl' \in CtlType /\ budget' \in [LimitKinds -> Nat]
        BY <1>1, <1>4, <2>1, <2>2, <2>3, <2>4, RequestType, SetFlagsType DEF HandlePrivacy
    <2> QED BY <1>4, <2>1, <2>5 DEF HandlePrivacy, WorkerTyped, TypeOK, Outside, UiVars
<1>5. CASE HandleWhitelist
    <2>1. Msg \in Messages /\ queue' \in Seq(Messages)
        BY <1>5, TakeType DEF HandleWhitelist, TakeCallback
    <2>2. <<"wl_add", s.profile.peer>> \in OpNames \X Peers /\ Op("peer_privacy") \in OpNames \X Peers
        BY <1>1, OpType DEF OpNames, WorkerType, Remotes
    <2>3. [s EXCEPT !.ready = @ \cup {"whitelist"}] \in WorkerType
        BY <1>1 DEF WorkerType, ReadyFlags
    <2>4. [s EXCEPT !.ready = @ \cup {"whitelist", "privacy"}, !.phase = "ready"] \in WorkerType
        BY <1>1 DEF WorkerType, ReadyFlags
    <2>5. CASE SetFlags(s)
        BY <1>1, <1>5, <2>1, <2>5, SetFlagsType DEF HandleWhitelist, WorkerTyped, TypeOK, Outside, UiVars
    <2>6. CASE Request(s, <<"wl_add", s.profile.peer>>)
        BY <1>1, <1>5, <2>1, <2>2, <2>6, RequestType DEF HandleWhitelist, WorkerTyped, TypeOK, Outside, UiVars
    <2>7. CASE Request([s EXCEPT !.ready = @ \cup {"whitelist"}], Op("peer_privacy"))
        <3>1. WorkerTyped' /\ ctl' \in CtlType /\ budget' \in [LimitKinds -> Nat]
            BY <2>1, <2>2, <2>3, <2>7, RequestType
        <3> QED BY <1>5, <2>1, <3>1 DEF HandleWhitelist, WorkerTyped, TypeOK, Outside, UiVars
    <2>8. CASE SetFlags([s EXCEPT !.ready = @ \cup {"whitelist", "privacy"}, !.phase = "ready"])
        <3>1. WorkerTyped' /\ ctl' \in CtlType /\ budget' \in [LimitKinds -> Nat]
            BY <2>1, <2>4, <2>8, SetFlagsType
        <3> QED BY <1>5, <2>1, <3>1 DEF HandleWhitelist, WorkerTyped, TypeOK, Outside, UiVars
    <2>9. Msg.ok \in BOOLEAN /\ Msg.type \in {"WHITELIST_CLEAR", "WHITELIST_ADD"} /\ s.pairing \in BOOLEAN
        BY <1>1, <1>5, <2>1 DEF HandleWhitelist, TakeCallback, Take, Msg, Messages, WorkerType
    <2> QED BY <1>5, <2>5, <2>6, <2>7, <2>8, <2>9 DEF HandleWhitelist
<1>6. CASE HandlePeerPrivacy
    <2>1. Msg \in Messages /\ queue' \in Seq(Messages)
        BY <1>6, TakeType DEF HandlePeerPrivacy, TakeCallback
    <2>2. Op("privacy_on") \in OpNames \X Peers
        BY OpType DEF OpNames
    <2>3. [s EXCEPT !.phase = "enabling"] \in WorkerType
        BY <1>1 DEF WorkerType
    <2>4. WorkerTyped' /\ ctl' \in CtlType /\ budget' \in [LimitKinds -> Nat]
        BY <1>1, <1>6, <2>1, <2>2, <2>3, RequestType, SetFlagsType DEF HandlePeerPrivacy
    <2> QED BY <1>6, <2>1, <2>4 DEF HandlePeerPrivacy, WorkerTyped, TypeOK, Outside, UiVars
<1>7. CASE HandleAdvStarted
    <2>1. Msg \in Messages /\ queue' \in Seq(Messages)
        BY <1>7, TakeType DEF HandleAdvStarted, TakeCallback
    <2>2. s' \in WorkerType
        BY <1>1, <1>7, ClearType DEF HandleAdvStarted, Advertised
    <2>3. snapshot' \in SnapshotType
        BY <1>1, <1>7, StatusType DEF HandleAdvStarted, Statuses
    <2>4. work' \in WorkType
        BY <1>1, <1>7, <2>1, DoneType, PostsArePlaces DEF HandleAdvStarted
    <2> QED BY <1>7, <2>1, <2>2, <2>3, <2>4 DEF HandleAdvStarted, WorkerTyped, TypeOK, Outside, UiVars
<1>8. CASE HandleConnected
    <2>1. Msg \in Messages /\ queue' \in Seq(Messages)
        BY <1>8, TakeType DEF HandleConnected, TakeCallback
    <2>2. s' \in WorkerType
        <3> DEFINE armed == Arm(s, "connect")
        <3>1. armed \in WorkerType
            BY <1>1, ArmType DEF Deadlines
        <3>2. s' = s \/ s' = [armed EXCEPT !.connected = TRUE, !.advertising = FALSE]
            BY <1>8 DEF HandleConnected
        <3> HIDE DEF armed
        <3> QED BY <1>1, <3>1, <3>2 DEF WorkerType
    <2>3. snapshot' \in SnapshotType
        BY <1>1, <1>8, StatusType DEF HandleConnected, Statuses
    <2>4. work' \in WorkType
        BY <1>1, <1>8, <2>1, DoneType, PostsArePlaces DEF HandleConnected
    <2> QED BY <1>8, <2>1, <2>2, <2>3, <2>4 DEF HandleConnected, WorkerTyped, TypeOK, Outside, UiVars
<1>9. CASE HandleAuthFailed
    <2>1. Msg \in Messages /\ queue' \in Seq(Messages)
        BY <1>9, TakeType DEF HandleAuthFailed, TakeCallback
    <2>2. CASE s.pairing
        <3> DEFINE retry == [Msg EXCEPT !.ok = TRUE]
        <3>1. s' \in WorkerType
            <4>1. s' = [s EXCEPT !.encrypted = FALSE, !.subscribed = FALSE]
                BY <1>9, <2>2 DEF HandleAuthFailed
            <4> QED BY <1>1, <4>1 DEF WorkerType
        <3>2. retry \in Messages
            BY <2>1 DEF Messages
        <3>3. work' \in WorkType
            <4>1. work' = [pc |-> "disconnect", k |-> "auth_retry", post |-> "after", msg |-> retry, ok |-> TRUE]
                BY <1>9, <2>2 DEF HandleAuthFailed
            <4> HIDE DEF retry
            <4> QED BY <1>1, <3>2, <4>1 DEF WorkType
        <3> QED BY <1>9, <2>1, <2>2, <3>1, <3>3 DEF HandleAuthFailed, TypeOK, Outside, UiVars
    <2>3. CASE ~s.pairing
        <3>1. WorkerTyped'
            BY <1>1, <1>9, <2>1, <2>3, BeginStopType DEF HandleAuthFailed
        <3> QED BY <1>9, <2>1, <3>1 DEF HandleAuthFailed, WorkerTyped, TypeOK, Outside, UiVars
    <2> QED BY <2>2, <2>3
<1>10. CASE HandleAuthOk
    <2>1. Msg \in Messages /\ queue' \in Seq(Messages)
        BY <1>10, TakeType DEF HandleAuthOk, TakeCallback
    <2>2. Msg.peer \in Peers
        BY <2>1 DEF Messages
    <2>3. CASE BeginStop(s, snapshot, "fail", "after", Msg) /\ UNCHANGED <<nvm, evtq, budget>>
        BY <1>1, <1>10, <2>1, <2>3, BeginStopType DEF HandleAuthOk, WorkerTyped, TypeOK
    <2>4. CASE /\ s' = AwaitingSave([s EXCEPT !.encrypted = TRUE, !.profile.peer = Msg.peer])
               /\ PostPeer(s, Msg.peer)
               /\ Done("after")
               /\ UNCHANGED <<callbackGen, snapshot, nvm, budget>>
        <3>1. [s EXCEPT !.encrypted = TRUE, !.profile.peer = Msg.peer] \in WorkerType
            <4> DEFINE found == [s.profile EXCEPT !.peer = Msg.peer]
            <4>1. s.profile \in Remotes
                BY <1>1 DEF WorkerType
            <4>2. found \in Remotes
                BY <2>2, <4>1 DEF Remotes
            <4>3. [s EXCEPT !.encrypted = TRUE, !.profile.peer = Msg.peer]
                    = [s EXCEPT !.encrypted = TRUE, !.profile = found]
                BY <1>1 DEF WorkerType
            <4> HIDE DEF found
            <4>4. [s EXCEPT !.encrypted = TRUE, !.profile = found] \in WorkerType
                BY <1>1, <4>2 DEF WorkerType
            <4> QED BY <4>3, <4>4
        <3>2. s' \in WorkerType
            BY <2>4, <3>1, AwaitingSaveType
        <3>3. evtq' \in Seq([session : Nat, peer : Peers])
            BY <1>1, <2>2, <2>4, PostPeerType
        <3>4. work' \in WorkType
            BY <1>1, <2>1, <2>4, DoneType, PostsArePlaces
        <3> QED BY <1>10, <2>1, <2>4, <3>2, <3>3, <3>4 DEF HandleAuthOk, TypeOK
    <2>5. CASE ReadyIfSubscribed([s EXCEPT !.encrypted = TRUE], "after", Msg) /\ UNCHANGED evtq
        <3>1. [s EXCEPT !.encrypted = TRUE] \in WorkerType
            BY <1>1 DEF WorkerType
        <3>2. WorkerTyped' /\ nvm' \in Durable /\ budget' \in [LimitKinds -> Nat]
            BY <1>1, <2>1, <2>5, <3>1, ReadyIfSubscribedType
        <3> QED BY <1>10, <2>1, <2>5, <3>2 DEF HandleAuthOk, WorkerTyped, TypeOK
    <2> QED BY <1>10, <2>3, <2>4, <2>5 DEF HandleAuthOk
<1>11. CASE HandleDisconnected
    <2>1. Msg \in Messages /\ queue' \in Seq(Messages)
        BY <1>11, TakeType DEF HandleDisconnected, TakeCallback
    <2> DEFINE cleared == Clear(Unlinked(s), {"connect"})
               lost    == [cleared EXCEPT !.suspended = FALSE]
    <2>2. lost \in WorkerType
        <3>1. cleared \in WorkerType
            BY <1>1, UnlinkedType, ClearType
        <3> HIDE DEF cleared
        <3> QED BY <3>1 DEF WorkerType
    <2>3. CASE Done("after") /\ UNCHANGED <<s, callbackGen, snapshot>>
        BY <1>1, <1>11, <2>1, <2>3, DoneType, PostsArePlaces DEF HandleDisconnected, TypeOK, Outside, UiVars
    <2>4. CASE BeginStop(lost, snapshot, "restart", "after", Msg)
        <3> HIDE DEF lost
        <3>1. WorkerTyped'
            BY <1>1, <2>1, <2>2, <2>4, BeginStopType
        <3> QED BY <1>11, <2>1, <3>1 DEF HandleDisconnected, WorkerTyped, TypeOK, Outside, UiVars
    <2>5. CASE s' = lost /\ Status(s, "PAIRING") /\ Done("after") /\ UNCHANGED callbackGen
        <3> HIDE DEF lost
        <3>1. snapshot' \in SnapshotType
            BY <1>1, <2>5, StatusType DEF Statuses
        <3>2. work' \in WorkType
            BY <1>1, <2>1, <2>5, DoneType, PostsArePlaces
        <3> QED BY <1>11, <2>1, <2>2, <2>5, <3>1, <3>2 DEF HandleDisconnected, TypeOK, Outside, UiVars
    <2>6. s.connected \in BOOLEAN /\ s.saved \in BOOLEAN
        BY <1>1 DEF WorkerType
    <2> QED BY <1>11, <2>3, <2>4, <2>5, <2>6 DEF HandleDisconnected
<1>12. CASE HandleWrite
    <2>1. Msg \in Messages /\ queue' \in Seq(Messages)
        BY <1>12, TakeType DEF HandleWrite, TakeCallback
    <2>2. WorkerTyped' /\ nvm' \in Durable /\ budget' \in [LimitKinds -> Nat]
        BY <1>1, <1>12, <2>1, ReadyIfSubscribedType DEF HandleWrite
    <2> QED BY <1>12, <2>1, <2>2 DEF HandleWrite, WorkerTyped, TypeOK, UiVars
<1>13. CASE HandleSuspend
    <2>1. Msg \in Messages /\ queue' \in Seq(Messages)
        BY <1>13, TakeType DEF HandleSuspend, TakeCallback
    <2>2. [s EXCEPT !.suspended = Msg.flag] \in WorkerType
        BY <1>1, <2>1 DEF WorkerType, Messages
    <2>3. WorkerTyped' /\ nvm' \in Durable /\ budget' \in [LimitKinds -> Nat]
        <3>1. CASE ReadyIfSubscribed([s EXCEPT !.suspended = Msg.flag], "after", Msg)
            BY <1>1, <2>1, <2>2, <3>1, ReadyIfSubscribedType
        <3>2. CASE Fault("output") /\ BeginStop(s, snapshot, "release", "after", Msg) /\ UNCHANGED nvm
            BY <1>1, <2>1, <3>2, BeginStopType, FaultType DEF TypeOK
        <3> QED BY <1>13, <3>1, <3>2 DEF HandleSuspend, ReleaseFails
    <2> QED BY <1>13, <2>1, <2>3 DEF HandleSuspend, WorkerTyped, TypeOK, UiVars
<1> QED BY <1>2, <1>3, <1>4, <1>5, <1>6, <1>7, <1>8, <1>9, <1>10, <1>11, <1>12, <1>13 DEF CallbackHandlers

LEMMA TailType ==
    ASSUME TypeOK,
           AfterCallback \/ Advertise \/ Poll \/ TailClose \/ TailExpired \/ TailDone \/ DeadlinePasses
    PROVE  TypeOK'
<1>1. /\ s \in WorkerType /\ snapshot \in SnapshotType /\ work.msg \in Messages /\ NoMessage \in Messages
      /\ {"fail", "close", "timeout"} \subseteq Handlers
      /\ {"idle", "tail"} \subseteq Posts
    BY DEF TypeOK, WorkType, Handlers, Places, Posts, NoMessage, Messages, NoRemote, Remotes, Peers
<1>2. CASE AfterCallback
    <2>1. WorkerTyped' /\ ctl' \in CtlType /\ budget' \in [LimitKinds -> Nat]
        BY <1>1, <1>2, BeginStopType, GotoType, PostsArePlaces DEF AfterCallback, TypeOK, WorkerTyped
    <2> QED BY <1>2, <2>1 DEF AfterCallback, WorkerTyped, TypeOK, Outside, UiVars
<1>3. CASE Advertise
    <2>1. CASE /\ s' = [s EXCEPT !.advertising = TRUE, !.deadlines = IF s.pairing THEN @ \cup {"pair"} ELSE @]
               /\ ctl' = [ctl EXCEPT !.ops = @ \cup {AdvertisingOp(s)}]
               /\ Goto("tail")
               /\ UNCHANGED <<callbackGen, snapshot, budget>>
        <3>1. s' \in WorkerType
            BY <1>1, <2>1 DEF WorkerType, Deadlines
        <3>2. AdvertisingOp(s) \in OpNames \X Peers
            BY OpType DEF AdvertisingOp, OpNames
        <3>3. ctl' \in CtlType
            BY <2>1, <3>2, RequestedType
        <3>4. work' \in WorkType
            BY <1>1, <2>1, GotoType, PostsArePlaces
        <3> QED BY <1>3, <2>1, <3>1, <3>3, <3>4 DEF Advertise, TypeOK, Outside, UiVars
    <2>2. CASE /\ Fault("api")
               /\ BeginStop(s, snapshot, "fail", "tail", work.msg)
               /\ UNCHANGED ctl
        BY <1>1, <1>3, <2>2, BeginStopType, FaultType DEF Advertise, WorkerTyped, TypeOK, Outside, UiVars
    <2> QED BY <1>3, <2>1, <2>2 DEF Advertise
<1>4. CASE Poll
    BY <1>1, <1>4, GotoType, PostsArePlaces DEF Poll, TypeOK, Outside, UiVars
<1>5. CASE TailClose
    BY <1>1, <1>5, BeginStopType DEF TailClose, WorkerTyped, TypeOK, Outside, UiVars
<1>6. CASE TailExpired
    BY <1>1, <1>6, BeginStopType DEF TailExpired, WorkerTyped, TypeOK, Outside, UiVars
<1>7. CASE TailDone
    <2>1. work' \in WorkType
        BY <1>1, <1>7 DEF TailDone, TypeOK, WorkType, Places, Posts
    <2> QED BY <1>7, <2>1 DEF TailDone, TypeOK, Outside, UiVars
<1>8. CASE DeadlinePasses
    <2>1. s' \in WorkerType
        BY <1>1, <1>8 DEF DeadlinePasses, WorkerType
    <2> QED BY <1>8, <2>1 DEF DeadlinePasses, TypeOK, Outside, UiVars
<1> QED BY <1>2, <1>3, <1>4, <1>5, <1>6, <1>7, <1>8

-----------------------------------------------------------------------------
(* The callback task and the hosts                                           *)

LEMMA CallbackMessageType ==
    ASSUME TypeOK, NEW type \in CallbackTypes, NEW ok \in BOOLEAN, NEW flag \in BOOLEAN,
           NEW peer \in Peers, CallbackMessage(type, ok, flag, peer)
    PROVE  queue' \in Seq(Messages)
<1> DEFINE event == [NoMessage EXCEPT !.type = type, !.generation = callbackGen,
                                      !.ok = ok, !.flag = flag, !.peer = peer]
<1>1. event \in Messages
    BY DEF TypeOK, NoMessage, Messages, NoRemote, Remotes, Peers
<1>2. queue \in Seq(Messages)
    BY DEF TypeOK
<1>3. queue' = queue \/ queue' = Append(queue, event)
    BY DEF CallbackMessage
<1> HIDE DEF event
<1> QED BY <1>1, <1>2, <1>3

LEMMA FinishType ==
    ASSUME TypeOK, NEW op
    PROVE  Finish(op) \in CtlType
BY DEF TypeOK, Finish, CtlType

LEMMA OutcomeType ==
    ASSUME TypeOK, NEW ok, Outcome(ok)
    PROVE  budget' \in [LimitKinds -> Nat]
BY FaultType DEF Outcome, TypeOK

LEMMA CompletionsType ==
    ASSUME TypeOK, Completions
    PROVE  TypeOK'
<1>1. NoPeer \in Peers /\ ctl \in CtlType /\ CallbackTypes = CallbackTypes
    BY DEF Peers, TypeOK
<1>2. CASE CompleteGate
    <2>1. PICK g \in Gates, ok \in BOOLEAN :
              /\ Outcome(ok)
              /\ ctl' = Finish(Op(g))
              /\ CallbackMessage(GateMessage[g], ok, FALSE, NoPeer)
        BY <1>2 DEF CompleteGate
    <2>2. GateMessage[g] \in CallbackTypes
        BY ConstantsAssumption DEF GateMessage, CallbackTypes, ReadyFlags
    <2>3. queue' \in Seq(Messages)
        BY <1>1, <2>1, <2>2, CallbackMessageType
    <2> QED BY <1>2, <2>1, <2>3, FinishType, OutcomeType DEF CompleteGate, TypeOK, WorkerVars, Outside, UiVars
<1>3. CASE CompleteTable
    <2>1. PICK op \in ctl.ops, ok \in BOOLEAN :
              /\ op[1] \in DOMAIN TableMessage
              /\ Outcome(ok)
              /\ ctl' = IF ok THEN TableAfter(op) ELSE Finish(op)
              /\ CallbackMessage(TableMessage[op[1]], ok, FALSE, NoPeer)
        BY <1>3 DEF CompleteTable
    <2>2. TableMessage[op[1]] \in CallbackTypes
        BY <2>1 DEF TableMessage, CallbackTypes
    <2>3. queue' \in Seq(Messages)
        BY <1>1, <2>1, <2>2, CallbackMessageType
    <2>4. ctl' \in CtlType
        <3> DEFINE done == Finish(op)
        <3>1. done \in CtlType /\ op[2] \in Peers
            <4>1. op \in OpNames \X Peers
                BY <1>1 DEF CtlType
            <4> QED BY <1>1, <4>1, FinishType
        <3>2. \/ ctl' = done
              \/ ctl' = [done EXCEPT !.resolving = FALSE]
              \/ ctl' = [done EXCEPT !.resolving = TRUE]
              \/ ctl' = [done EXCEPT !.wl = {}]
              \/ ctl' = [done EXCEPT !.wl = @ \cup {op[2]}]
            BY <2>1 DEF TableAfter
        <3> HIDE DEF done
        <3>3. [done EXCEPT !.wl = @ \cup {op[2]}] \in CtlType
            BY <3>1 DEF CtlType
        <3>4. /\ [done EXCEPT !.resolving = FALSE] \in CtlType
              /\ [done EXCEPT !.resolving = TRUE] \in CtlType
              /\ [done EXCEPT !.wl = {}] \in CtlType
            BY <3>1 DEF CtlType
        <3> QED BY <3>1, <3>2, <3>3, <3>4
    <2> QED BY <1>3, <2>1, <2>3, <2>4, OutcomeType DEF CompleteTable, TypeOK, WorkerVars, Outside, UiVars
<1>4. CASE CompleteAdvStart
    <2>1. PICK op \in ctl.ops \cap AdvOps, ok \in BOOLEAN :
              /\ Outcome(ok)
              /\ ctl' = [Finish(op) EXCEPT !.adv = IF ~ok THEN @ ELSE IF op = Op("adv_any") THEN "any" ELSE "listed"]
              /\ CallbackMessage("ADV_STARTED", ok, FALSE, NoPeer)
        BY <1>4 DEF CompleteAdvStart
    <2>2. queue' \in Seq(Messages)
        BY <1>1, <2>1, CallbackMessageType DEF CallbackTypes
    <2>3. ctl' \in CtlType
        <3> DEFINE done == Finish(op)
        <3>1. done \in CtlType
            BY <1>1, FinishType
        <3>2. ctl' = [done EXCEPT !.adv = IF ~ok THEN @ ELSE IF op = Op("adv_any") THEN "any" ELSE "listed"]
            BY <2>1
        <3> HIDE DEF done
        <3> QED BY <3>1, <3>2 DEF CtlType
    <2> QED BY <1>4, <2>1, <2>2, <2>3, OutcomeType DEF CompleteAdvStart, TypeOK, WorkerVars, Outside, UiVars
<1>5. CASE CompleteAdvStop
    <2>1. ctl' \in CtlType
        <3> DEFINE done == Finish(Op("adv_stop"))
        <3>1. done \in CtlType
            BY <1>1, FinishType
        <3>2. ctl' = [done EXCEPT !.adv = "off", !.advStopped = TRUE]
            BY <1>5 DEF CompleteAdvStop
        <3> HIDE DEF done
        <3> QED BY <3>1, <3>2 DEF CtlType
    <2> QED BY <1>5, <2>1 DEF CompleteAdvStop, TypeOK, WorkerVars, Outside, UiVars
<1>6. CASE CompleteRemoveBond
    <2>1. PICK op \in ctl.ops, ok \in BOOLEAN :
              /\ Outcome(ok)
              /\ ctl' = [Finish(op) EXCEPT !.bondRemoved = IF ok THEN "ok" ELSE "failed"]
              /\ nvm' = IF ok THEN [nvm EXCEPT !.bonds = @ \ {<<s.store, op[2]>>}] ELSE nvm
        BY <1>6 DEF CompleteRemoveBond
    <2>2. ctl' \in CtlType
        <3> DEFINE done == Finish(op)
        <3>1. done \in CtlType
            BY <1>1, FinishType
        <3>2. ctl' = [done EXCEPT !.bondRemoved = IF ok THEN "ok" ELSE "failed"]
            BY <2>1
        <3> HIDE DEF done
        <3> QED BY <3>1, <3>2 DEF CtlType
    <2>3. nvm' \in Durable
        BY <2>1 DEF TypeOK, Durable
    <2> QED BY <1>6, <2>1, <2>2, <2>3, OutcomeType DEF CompleteRemoveBond, TypeOK, WorkerVars, UiVars
<1>7. CASE CompleteSuspend
    <2>1. PICK name \in {"suspend", "resume"} :
              /\ ctl' = Finish(Op(name))
              /\ CallbackMessage("SUSPEND", TRUE, name = "suspend", NoPeer)
        BY <1>7 DEF CompleteSuspend
    <2>2. queue' \in Seq(Messages)
        BY <1>1, <2>1, CallbackMessageType DEF CallbackTypes
    <2> QED BY <1>7, <2>1, <2>2, FinishType DEF CompleteSuspend, TypeOK, WorkerVars, Outside, UiVars
<1> QED BY <1>2, <1>3, <1>4, <1>5, <1>6, <1>7 DEF Completions

LEMMA LinkCallbacksType ==
    ASSUME TypeOK, LinkCallbacks
    PROVE  TypeOK'
<1>1. NoPeer \in Peers /\ link \in LinkType
    BY DEF Peers, TypeOK
<1>2. CASE ConnectClear
    <2>1. link' \in LinkType
        BY <1>1, <1>2 DEF ConnectClear, LinkType, LinkPhases
    <2> QED BY <1>2, <2>1 DEF ConnectClear, TypeOK, WorkerVars, LinkVars, UiVars
<1>3. CASE ConnectUp
    <2>1. link' \in LinkType
        BY <1>1, <1>3 DEF ConnectUp, LinkType, LinkPhases
    <2> QED BY <1>3, <2>1 DEF ConnectUp, TypeOK, WorkerVars, LinkVars, UiVars
<1>4. CASE ConnectPost
    <2>1. link' \in LinkType
        BY <1>1, <1>4 DEF ConnectPost, LinkType, LinkPhases
    <2>2. queue' \in Seq(Messages)
        BY <1>1, <1>4, CallbackMessageType DEF ConnectPost, CallbackTypes
    <2> QED BY <1>4, <2>1, <2>2 DEF ConnectPost, TypeOK, WorkerVars, LinkVars, UiVars
<1>5. CASE DisconnectMark
    <2>1. link' \in LinkType
        BY <1>1, <1>5 DEF DisconnectMark, LinkType, LinkPhases
    <2> QED BY <1>5, <2>1 DEF DisconnectMark, TypeOK, WorkerVars, LinkVars, UiVars
<1>6. CASE DisconnectDown
    <2>1. link' \in LinkType
        BY <1>1, <1>6 DEF DisconnectDown, LinkType, LinkPhases
    <2> QED BY <1>6, <2>1 DEF DisconnectDown, TypeOK, WorkerVars, LinkVars, UiVars
<1>7. CASE DisconnectPost
    <2>1. link' \in LinkType
        BY <1>1, <1>7 DEF DisconnectPost, LinkType, LinkPhases
    <2>2. queue' \in Seq(Messages)
        BY <1>1, <1>7, CallbackMessageType DEF DisconnectPost, CallbackTypes
    <2> QED BY <1>7, <2>1, <2>2 DEF DisconnectPost, TypeOK, WorkerVars, LinkVars, UiVars
<1> QED BY <1>2, <1>3, <1>4, <1>5, <1>6, <1>7 DEF LinkCallbacks

LEMMA HostType ==
    ASSUME TypeOK, Host
    PROVE  TypeOK'
<1>1. /\ NoPeer \in Peers /\ Hosts \subseteq Peers
      /\ link \in LinkType /\ link.host \in Peers /\ ctl \in CtlType /\ nvm \in Durable
      /\ s.store \in Stores \cup {NoProfile}
      /\ {"links", "auths", "events"} \subseteq LimitKinds
    BY DEF Peers, TypeOK, LinkType, WorkerType, LimitKinds
<1>2. CASE HostConnect
    <2>1. link' \in LinkType
        BY <1>1, <1>2 DEF HostConnect, LinkType, LinkPhases
    <2>2. ctl' \in CtlType
        BY <1>1, <1>2 DEF HostConnect, CtlType
    <2> QED BY <1>1, <1>2, <2>1, <2>2, BudgetType DEF HostConnect, TypeOK, WorkerVars, LinkVars, UiVars
<1>3. CASE LinkEnds
    <2>1. link' \in LinkType
        BY <1>1, <1>3 DEF LinkEnds, LinkType, LinkPhases
    <2>2. ctl' \in CtlType
        BY <1>3, FinishType DEF LinkEnds
    <2>3. budget' \in [LimitKinds -> Nat]
        BY <1>1, <1>3, BudgetType DEF LinkEnds, TypeOK
    <2> QED BY <1>3, <2>1, <2>2, <2>3 DEF LinkEnds, TypeOK, WorkerVars, LinkVars, UiVars
<1>4. CASE HostAuth
    <2>1. PICK ok \in BOOLEAN :
              /\ link' = [link EXCEPT !.enc = @ \/ ok]
              /\ nvm' = IF ok THEN [nvm EXCEPT !.bonds = @ \cup {<<s.store, link.host>>}] ELSE nvm
              /\ CallbackMessage("AUTH", ok, FALSE, link.host)
        BY <1>4 DEF HostAuth
    <2>2. link' \in LinkType
        BY <1>1, <2>1 DEF LinkType
    <2>3. nvm' \in Durable
        BY <1>1, <2>1 DEF Durable
    <2>4. queue' \in Seq(Messages)
        BY <1>1, <2>1, CallbackMessageType DEF CallbackTypes
    <2> QED BY <1>1, <1>4, <2>2, <2>3, <2>4, BudgetType DEF HostAuth, TypeOK, WorkerVars, UiVars
<1>5. CASE HostWrite
    <2>1. queue' \in Seq(Messages)
        BY <1>1, <1>5, CallbackMessageType DEF HostWrite, CallbackTypes
    <2> QED BY <1>1, <1>5, <2>1, BudgetType DEF HostWrite, TypeOK, WorkerVars, UiVars
<1>6. CASE HostSuspend
    <2>1. queue' \in Seq(Messages)
        BY <1>1, <1>6, CallbackMessageType DEF HostSuspend, CallbackTypes
    <2>2. ctl' \in CtlType
        <3>1. PICK name \in {"suspend", "resume"} : ctl' = [ctl EXCEPT !.ops = @ \cup {Op(name)}]
            BY <1>6 DEF HostSuspend
        <3>2. Op(name) \in OpNames \X Peers
            BY OpType DEF OpNames
        <3> QED BY <3>1, <3>2, RequestedType
    <2> QED BY <1>1, <1>6, <2>1, <2>2, BudgetType DEF HostSuspend, TypeOK, WorkerVars, Outside, UiVars
<1> QED BY <1>2, <1>3, <1>4, <1>5, <1>6 DEF Host

-----------------------------------------------------------------------------
(* The UI                                                                    *)

LEMMA EnqueueType ==
    ASSUME TypeOK, NEW m \in Messages, Enqueue(m) \/ Send(m)
    PROVE  queue' \in Seq(Messages)
<1>1. queue \in Seq(Messages)
    BY DEF TypeOK
<1>2. queue' = queue \/ queue' = Append(queue, m)
    BY DEF Enqueue, Send
<1> QED BY <1>1, <1>2

LEMMA NoMessageType == NoMessage \in Messages
BY DEF NoMessage, Messages, NoRemote, Remotes, Peers

LEMMA UiStepsType ==
    ASSUME TypeOK, UiMenu \/ UiTurn
    PROVE  TypeOK'
<1>1. /\ ui \in UiType /\ ui.session \in Nat /\ ui.seq \in Nat /\ ui.previous \in Nat
      /\ ui.profile \in Profiles \cup {NoProfile}
      /\ desired \in Nat /\ nvm \in Durable
      /\ {"sessions", "forgets", "inputs"} \subseteq LimitKinds
    BY DEF TypeOK, UiType, LimitKinds
<1>2. ASSUME NEW p \in Profiles, UiOpen(p) PROVE TypeOK'
    <2>1. nvm' \in Durable
        <3>1. nvm' = nvm \/ nvm' = [nvm EXCEPT !.legacy = [nvm.legacy EXCEPT ![p] = FALSE]]
            BY <1>2 DEF UiOpen
        <3>2. [nvm.legacy EXCEPT ![p] = FALSE] \in [Profiles -> BOOLEAN]
            BY <1>1 DEF Durable
        <3> QED BY <1>1, <3>1, <3>2 DEF Durable
    <2>2. ui' \in UiType /\ ui'.profile \in Profiles /\ desired' \in Nat
        <3>1. ui' = [ui EXCEPT !.seq = ui.seq + 1, !.profile = p, !.previous = desired, !.pc = "opening"]
            BY <1>2 DEF UiOpen
        <3>2. ui.seq + 1 \in Nat /\ desired' = ui.seq + 1
            BY <1>1, <1>2 DEF UiOpen
        <3> QED BY <1>1, <3>1, <3>2 DEF UiType
    <2> QED BY <1>1, <1>2, <2>1, <2>2, BudgetType DEF UiOpen, TypeOK, Background, WorkerVars
<1>3. CASE UiOpenSend
    <2>1. ui' \in UiType /\ desired' \in Nat /\ ui'.profile \in Profiles
        <3>1. ui' = [ui EXCEPT !.session = ui.seq, !.pc = "idle"] \/ ui' = [ui EXCEPT !.pc = "idle"]
            BY <1>3 DEF UiOpenSend
        <3>2. desired' = desired \/ desired' = ui.previous
            BY <1>3 DEF UiOpenSend
        <3>3. ui.profile \in Profiles
            BY <1>3 DEF UiOpenSend, TypeOK
        <3> QED BY <1>1, <3>1, <3>2, <3>3 DEF UiType
    <2>2. queue' \in Seq(Messages)
        <3>1. CASE ~Room
            BY <1>3, <3>1 DEF UiOpenSend, TypeOK
        <3>2. CASE Room
            <4> DEFINE remote == Saved(ui.profile)
                       open   == [NoMessage EXCEPT !.type = "OPEN", !.session = ui.seq, !.remote = remote]
            <4>1. ui.profile \in Profiles
                BY <1>3 DEF UiOpenSend, TypeOK
            <4>2. remote \in Remotes
                BY <1>1, <4>1 DEF Saved, Remotes, Durable
            <4>3. Enqueue(open)
                BY <1>3, <3>2 DEF UiOpenSend
            <4> HIDE DEF remote
            <4>4. open \in Messages
                BY <1>1, <4>2, NoMessageType DEF Messages, ApiTypes
            <4> QED BY <4>3, <4>4, EnqueueType
        <3> QED BY <3>1, <3>2
    <2> QED BY <1>3, <2>1, <2>2 DEF UiOpenSend, TypeOK, Background, WorkerVars
<1>4. CASE UiClose
    <2>1. ui' \in UiType /\ ui'.session = 0 /\ ui'.pc = "idle"
        BY <1>1, <1>4 DEF UiClose, InSession, UiIdle, UiType
    <2> DEFINE close == [NoMessage EXCEPT !.type = "CLOSE"]
    <2>2. queue' \in Seq(Messages)
        <3>1. close \in Messages
            BY NoMessageType DEF Messages, ApiTypes
        <3>2. Send(close)
            BY <1>4 DEF UiClose
        <3> QED BY <3>1, <3>2, EnqueueType
    <2> QED BY <1>4, <2>1, <2>2 DEF UiClose, TypeOK, Background, WorkerVars
<1>5. CASE UiForget
    <2>1. queue' \in Seq(Messages)
        <3>1. PICK flag \in BOOLEAN :
                  Enqueue([NoMessage EXCEPT !.type = "FORGET", !.session = ui.session, !.flag = flag])
            BY <1>5 DEF UiForget
        <3> DEFINE forget == [NoMessage EXCEPT !.type = "FORGET", !.session = ui.session, !.flag = flag]
        <3>2. forget \in Messages
            BY <1>1, NoMessageType DEF Messages, ApiTypes
        <3> QED BY <3>1, <3>2, EnqueueType
    <2> QED BY <1>1, <1>5, <2>1, BudgetType DEF UiForget, TypeOK, Background, WorkerVars
<1>6. CASE UiTap
    <2> DEFINE request == [NoMessage EXCEPT !.type = "TAP", !.session = ui.session]
    <2>1. queue' \in Seq(Messages)
        <3>1. request \in Messages
            BY <1>1, NoMessageType DEF Messages, ApiTypes
        <3>2. Enqueue(request)
            BY <1>6 DEF UiTap
        <3> QED BY <3>1, <3>2, EnqueueType
    <2> QED BY <1>1, <1>6, <2>1, BudgetType DEF UiTap, TypeOK, Background, WorkerVars
<1>7. CASE UiRelease
    <2> DEFINE request == [NoMessage EXCEPT !.type = "RELEASE", !.session = ui.session]
    <2>1. queue' \in Seq(Messages)
        <3>1. request \in Messages
            BY <1>1, NoMessageType DEF Messages, ApiTypes
        <3>2. Enqueue(request)
            BY <1>7 DEF UiRelease
        <3> QED BY <3>1, <3>2, EnqueueType
    <2> QED BY <1>1, <1>7, <2>1, BudgetType DEF UiRelease, TypeOK, Background, WorkerVars
<1>8. CASE UiPeerStale
    <2>1. evtq' \in Seq([session : Nat, peer : Peers])
        BY <1>8 DEF UiPeerStale, TypeOK
    <2> QED BY <1>8, <2>1 DEF UiPeerStale, TypeOK, Background, WorkerVars
<1>9. CASE UiPeer
    <2> DEFINE legacy == nvm.legacy[ui.profile] /\ PeerEvent.peer # NoPeer
               remote == [id |-> ui.profile, peer |-> PeerEvent.peer, legacy |-> legacy]
    <2>1. PeerEvent \in [session : Nat, peer : Peers] /\ evtq' \in Seq([session : Nat, peer : Peers])
        <3> DEFINE Event == [session : Nat, peer : Peers]
        <3>1. evtq # <<>> /\ evtq' = Tail(evtq) /\ evtq \in Seq(Event)
            BY <1>9 DEF UiPeer, TypeOK
        <3> HIDE DEF Event
        <3>2. PeerEvent \in Event /\ evtq' \in Seq(Event)
            BY <3>1 DEF PeerEvent
        <3> QED BY <3>2 DEF Event
    <2>2. ui.profile \in Profiles
        BY <1>9 DEF UiPeer, InSession, TypeOK
    <2>3. PeerEvent.peer \in Peers /\ legacy \in BOOLEAN
        BY <1>1, <2>1, <2>2 DEF Durable
    <2>4. remote \in Remotes
        BY <2>2, <2>3 DEF Remotes
    <2>5. PICK ok \in BOOLEAN :
              /\ IF ok
                 THEN nvm' = [nvm EXCEPT !.peer[ui.profile] = PeerEvent.peer, !.legacy[ui.profile] = legacy]
                      /\ UNCHANGED budget
                 ELSE UNCHANGED nvm /\ Fault("save")
              /\ Send([NoMessage EXCEPT !.type = "SAVED", !.session = ui.session, !.flag = ok, !.remote = remote])
        BY <1>9 DEF UiPeer
    <2> HIDE DEF legacy, remote
    <2>6. queue' \in Seq(Messages)
        <3> DEFINE answer == [NoMessage EXCEPT !.type = "SAVED", !.session = ui.session, !.flag = ok, !.remote = remote]
        <3>1. answer \in Messages
            BY <1>1, <2>4, NoMessageType DEF Messages, ApiTypes
        <3> QED BY <2>5, <3>1, EnqueueType
    <2>7. nvm' \in Durable
        <3>1. [nvm.peer EXCEPT ![ui.profile] = PeerEvent.peer] \in [Profiles -> Peers]
            BY <1>1, <2>3 DEF Durable
        <3>2. [nvm.legacy EXCEPT ![ui.profile] = legacy] \in [Profiles -> BOOLEAN]
            BY <1>1, <2>3 DEF Durable
        <3>3. \/ nvm' = nvm
              \/ nvm' = [nvm EXCEPT !.peer[ui.profile] = PeerEvent.peer, !.legacy[ui.profile] = legacy]
            BY <2>5
        <3>4. [nvm EXCEPT !.peer[ui.profile] = PeerEvent.peer, !.legacy[ui.profile] = legacy]
                = [nvm EXCEPT !.peer = [nvm.peer EXCEPT ![ui.profile] = PeerEvent.peer],
                              !.legacy = [nvm.legacy EXCEPT ![ui.profile] = legacy]]
            BY <1>1 DEF Durable
        <3> QED BY <1>1, <3>1, <3>2, <3>3, <3>4 DEF Durable
    <2>8. budget' \in [LimitKinds -> Nat]
        BY <2>5, FaultType DEF TypeOK
    <2> QED BY <1>1, <1>9, <2>1, <2>6, <2>7, <2>8 DEF UiPeer, TypeOK, Background, WorkerVars
<1> QED BY <1>2, <1>3, <1>4, <1>5, <1>6, <1>7, <1>8, <1>9 DEF UiMenu, UiTurn

-----------------------------------------------------------------------------
(* Every reachable state is well typed                                       *)

LEMMA IdleTypes ==
    /\ OffStatus \in SnapshotType /\ IdleWorker \in WorkerType /\ IdleWork \in WorkType
    /\ IdleLink \in LinkType /\ IdleCtl \in CtlType /\ IdleUi \in UiType
    /\ IdleUi.session = 0 /\ IdleUi.pc = "idle"
<1>1. NoRemote \in Remotes /\ NoPeer \in Peers
    BY DEF NoRemote, Remotes, Peers
<1>2. NoMessage \in Messages
    BY <1>1 DEF NoMessage, Messages
<1>3. IdleWorker \in WorkerType
    BY <1>1 DEF IdleWorker, WorkerType
<1>4. IdleWork \in WorkType
    BY <1>2 DEF IdleWork, WorkType, Places, Posts, Handlers
<1>5. IdleLink \in LinkType
    BY <1>1 DEF IdleLink, LinkType, LinkPhases
<1>6. OffStatus \in SnapshotType /\ IdleCtl \in CtlType /\ IdleUi \in UiType
    BY DEF OffStatus, SnapshotType, Statuses, IdleCtl, CtlType, IdleUi, UiType
<1> QED BY <1>3, <1>4, <1>5, <1>6 DEF IdleUi

LEMMA InitType == Init => TypeOK
<1> SUFFICES ASSUME Init PROVE TypeOK
    OBVIOUS
<1>1. nvm \in Durable /\ budget \in [LimitKinds -> Nat]
    BY ConstantsAssumption DEF Init
<1>2. queue \in Seq(Messages) /\ evtq \in Seq([session : Nat, peer : Peers])
    BY DEF Init
<1> QED BY <1>1, <1>2, IdleTypes DEF Init, TypeOK

LEMMA StepType ==
    ASSUME TypeOK, [Next]_vars
    PROVE  TypeOK'
<1>1. CASE UNCHANGED vars
    BY <1>1 DEF vars, TypeOK
<1>2. CASE PowerLoss
    <2>1. budget' \in [LimitKinds -> Nat]
        BY <1>2, BudgetType DEF PowerLoss, LimitKinds
    <2>2. queue' \in Seq(Messages) /\ evtq' \in Seq([session : Nat, peer : Peers])
        BY <1>2 DEF PowerLoss
    <2>3. nvm' \in Durable
        BY <1>2 DEF PowerLoss, TypeOK
    <2> QED BY <1>2, <2>1, <2>2, <2>3, IdleTypes DEF PowerLoss, TypeOK
<1> QED
    BY <1>1, <1>2, StopStepsType, FinishStepsType, ApiHandlersType, CallbackHandlersType, TailType,
       CompletionsType, LinkCallbacksType, HostType, UiStepsType DEF Next, Worker

\* Types: in every reachable state, for any profiles, hosts, queue lengths and
\* bounds, each variable has its type (the declarations of bt_runtime.c:45-78).
THEOREM TypeCorrect == Spec => []TypeOK
<1>1. TypeOK /\ [Next]_vars => TypeOK'
    BY StepType
<1> QED BY <1>1, InitType, PTL DEF Spec

-----------------------------------------------------------------------------
(* OFF means off.  What a stop has done so far is in work.ok: as long as it  *)
(* holds, HID is gone once the host's turn has come, and nothing is left when*)
(* the handler resumes.                                                      *)

StopSoFar ==
    /\ work.pc = "host_off" /\ work.ok => "hid" \notin s.layers
    /\ work.pc = "resume" /\ work.ok /\ work.k # "auth_retry" => s.layers = {}
StoppedInv == HostDownIsSilent /\ StopSoFar /\ OffMeansOff

\* how the steps of the runtime relate to what StoppedInv says
SameStack == s'.layers = s.layers /\ s'.ready = s.ready
SameRadio ==
    ctl'.adv = ctl.adv /\ ctl'.ops \cap AdvOps = ctl.ops \cap AdvOps /\ (link'.live => link.live)
NotShownOff == snapshot'.state \in {"OFF", "UNPAIRED"} => snapshot'.state = snapshot.state
NotStopping == work'.pc \notin {"host_off", "resume"} \/ (work' = work /\ s'.layers = s.layers)

LEMMA OffNeedsNoHost ==
    ASSUME StoppedInv, HostOn(s)
    PROVE  snapshot.state \notin {"OFF", "UNPAIRED"}
BY DEF StoppedInv, OffMeansOff, HostOn

\* a step that touches neither the stack nor the radio
LEMMA SameStackKeeps ==
    ASSUME StoppedInv, SameStack, SameRadio, NotShownOff, NotStopping
    PROVE  StoppedInv'
<1>1. HostDownIsSilent'
    BY DEF StoppedInv, HostDownIsSilent, SameStack, SameRadio, HostOn
<1>2. StopSoFar'
    BY DEF StoppedInv, StopSoFar, SameStack, NotStopping
<1>3. OffMeansOff'
    BY DEF StoppedInv, HostDownIsSilent, OffMeansOff, SameStack, SameRadio, NotShownOff, HostOn
<1> QED BY <1>1, <1>2, <1>3 DEF StoppedInv

\* a step under a running host, whatever it does to the radio
LEMMA HostKeeps ==
    ASSUME StoppedInv, HostOn(s), s'.layers = s.layers, NotShownOff, NotStopping
    PROVE  StoppedInv'
<1>1. HostDownIsSilent'
    BY DEF HostDownIsSilent, HostOn
<1>2. StopSoFar'
    BY DEF StoppedInv, StopSoFar, NotStopping
<1>3. OffMeansOff'
    BY OffNeedsNoHost DEF OffMeansOff, NotShownOff
<1> QED BY <1>1, <1>2, <1>3 DEF StoppedInv

\* a start, complete or cut short, over a stack without a host
LEMMA StartKeeps ==
    ASSUME StoppedInv, ~HostOn(s), SameRadio, s'.ready = s.ready,
           snapshot'.state \notin {"OFF", "UNPAIRED"}, work'.pc \notin {"host_off", "resume"}
    PROVE  StoppedInv'
<1>1. HostDownIsSilent'
    BY DEF StoppedInv, HostDownIsSilent, SameRadio, HostOn
<1>2. StopSoFar'
    BY DEF StopSoFar
<1>3. OffMeansOff'
    BY DEF OffMeansOff
<1> QED BY <1>1, <1>2, <1>3 DEF StoppedInv

LEMMA BeginStopShape ==
    ASSUME NEW s1 \in WorkerType, NEW shown \in SnapshotType, NEW k, NEW post, NEW m,
           BeginStop(s1, shown, k, post, m)
    PROVE  /\ s'.layers = s1.layers /\ s'.ready = s1.ready
           /\ work'.pc = "stop_adv"
           /\ snapshot'.state = IF On(s1) THEN "STOPPING" ELSE shown.state
<1>1. s' = [s1 EXCEPT !.deadlines = {}, !.due = {}, !.awaiting_save = FALSE, !.forgetting = FALSE]
    BY DEF BeginStop, StoppedFlags
<1>2. s'.layers = s1.layers /\ s'.ready = s1.ready
    BY <1>1 DEF WorkerType
<1> QED BY <1>2 DEF BeginStop, SnapshotType

\* a stop begun over the stack as it stands
LEMMA BeginStopKeeps ==
    ASSUME StoppedInv, SameRadio, NEW s1 \in WorkerType, snapshot \in SnapshotType,
           s1.layers = s.layers, s1.ready = s.ready \/ HostOn(s),
           NEW k, NEW post, NEW m, BeginStop(s1, snapshot, k, post, m)
    PROVE  StoppedInv'
<1>1. /\ s'.layers = s.layers /\ (s'.ready = s.ready \/ HostOn(s))
      /\ NotShownOff /\ NotStopping
    BY BeginStopShape DEF NotShownOff, NotStopping
<1> QED BY <1>1, SameStackKeeps, HostKeeps DEF SameStack

LEMMA ClearKeepsStack ==
    ASSUME NEW s1 \in WorkerType, NEW ds
    PROVE  Clear(s1, ds).layers = s1.layers /\ Clear(s1, ds).ready = s1.ready
BY DEF Clear, WorkerType

LEMMA ReadyIfSubscribedShape ==
    ASSUME NEW s1 \in WorkerType, snapshot \in SnapshotType, NEW post \in {"after", "tail"}, NEW m,
           ReadyIfSubscribed(s1, post, m), work \in WorkType
    PROVE  s'.layers = s1.layers /\ s'.ready = s1.ready /\ NotShownOff /\ NotStopping
<1>1. CASE s' = s1 /\ work' = [work EXCEPT !.pc = post, !.msg = m] /\ snapshot' = snapshot
    BY <1>1 DEF NotShownOff, NotStopping, WorkType
<1>2. CASE BeginStop(s1, snapshot, "fail", post, m)
    BY <1>2, BeginStopShape DEF NotShownOff, NotStopping
<1>3. CASE /\ s' = [(IF ccc THEN Clear(s1, {"connect", "pair"}) ELSE s1) EXCEPT !.subscribed = ccc]
           /\ Status(s1, IF ~ccc THEN "CONNECTING" ELSE IF s1.suspended THEN "SUSPENDED" ELSE "CONNECTED")
           /\ work' = [work EXCEPT !.pc = post, !.msg = m]
    <2> DEFINE base == IF ccc THEN Clear(s1, {"connect", "pair"}) ELSE s1
    <2>1. base \in WorkerType /\ base.layers = s1.layers /\ base.ready = s1.ready
        BY ClearType, ClearKeepsStack
    <2>2. s' = [base EXCEPT !.subscribed = ccc]
        BY <1>3
    <2> HIDE DEF base
    <2>3. s'.layers = s1.layers /\ s'.ready = s1.ready
        BY <2>1, <2>2 DEF WorkerType
    <2> QED BY <1>3, <2>3 DEF Status, NotShownOff, NotStopping, WorkType
<1> QED BY <1>1, <1>2, <1>3 DEF ReadyIfSubscribed

\* stop_runtime: each wait only leads on, and only a complete teardown is ok
LEMMA StopStepsKeep ==
    ASSUME TypeOK, StoppedInv, StopSteps
    PROVE  StoppedInv'
<1>1. s \in WorkerType /\ work \in WorkType /\ ctl \in CtlType /\ link \in LinkType
    BY DEF TypeOK
<1>2. CASE StopAdvertisingSkip
    <2>1. SameStack /\ NotStopping
        BY <1>1, <1>2 DEF StopAdvertisingSkip, Goto, SameStack, NotStopping, WorkerType, WorkType
    <2> QED BY <1>2, <2>1, SameStackKeeps DEF StopAdvertisingSkip, Outside, SameRadio, NotShownOff
<1>3. CASE StopAdvertisingRequest
    <2>1. SameStack /\ NotStopping
        BY <1>1, <1>3 DEF StopAdvertisingRequest, Goto, SameStack, NotStopping, WorkType
    <2>2. SameRadio
        BY <1>1, <1>3 DEF StopAdvertisingRequest, Outside, SameRadio, AdvOps, Op, CtlType
    <2> QED BY <1>3, <2>1, <2>2, SameStackKeeps DEF StopAdvertisingRequest, NotShownOff
<1>4. CASE StopAdvertisingWait
    <2>1. SameStack /\ NotStopping
        BY <1>1, <1>4 DEF StopAdvertisingWait, SameStack, NotStopping, WorkerType, WorkType
    <2>2. SameRadio
        BY <1>1, <1>4 DEF StopAdvertisingWait, Outside, SameRadio, CtlType
    <2> QED BY <1>4, <2>1, <2>2, SameStackKeeps DEF StopAdvertisingWait, NotShownOff
<1>5. CASE DisconnectLink
    <2>1. SameStack /\ NotStopping
        BY <1>1, <1>5 DEF DisconnectLink, Goto, SameStack, NotStopping, WorkType
    <2>2. SameRadio
        BY <1>1, <1>5 DEF DisconnectLink, Outside, SameRadio, AdvOps, Op, CtlType
    <2> QED BY <1>5, <2>1, <2>2, SameStackKeeps DEF DisconnectLink, NotShownOff
<1>6. CASE DisconnectDone
    <2>1. SameStack
        BY <1>1, <1>6 DEF DisconnectDone, Unlinked, SameStack, WorkerType
    <2>2. work'.pc = "teardown" \/ (work'.pc = "resume" /\ work'.k = "auth_retry")
        BY <1>1, <1>6 DEF DisconnectDone, Goto, WorkType
    <2>3. SameRadio /\ NotShownOff
        BY <1>6 DEF DisconnectDone, Outside, SameRadio, NotShownOff
    <2>4. StopSoFar'
        BY <2>2 DEF StopSoFar
    <2> QED BY <2>1, <2>3, <2>4 DEF StoppedInv, HostDownIsSilent, OffMeansOff, SameStack, SameRadio, NotShownOff, HostOn
<1>7. CASE DisconnectTimeout
    <2>1. SameStack
        BY <1>1, <1>7 DEF DisconnectTimeout, Unlinked, SameStack, WorkerType
    <2>2. work'.pc = "resume" /\ ~work'.ok
        BY <1>1, <1>7 DEF DisconnectTimeout, WorkType
    <2>3. SameRadio /\ NotShownOff
        BY <1>7 DEF DisconnectTimeout, Outside, SameRadio, NotShownOff
    <2>4. StopSoFar'
        BY <2>2 DEF StopSoFar
    <2> QED BY <2>1, <2>3, <2>4 DEF StoppedInv, HostDownIsSilent, OffMeansOff, SameStack, SameRadio, NotShownOff, HostOn
<1>8. CASE TeardownHid
    <2>1. /\ s'.layers \subseteq s.layers /\ s'.ready = s.ready
          /\ "host_on" \in s.layers => "host_on" \in s'.layers
          /\ work'.pc = "host_off" /\ (work'.ok => "hid" \notin s'.layers)
        <3>1. CASE s' = [s EXCEPT !.layers = @ \ {"hid"}] /\ Goto("host_off")
            BY <1>1, <3>1 DEF Goto, WorkerType, WorkType
        <3>2. CASE s' = s /\ work' = [work EXCEPT !.pc = "host_off", !.ok = FALSE]
            BY <1>1, <3>2 DEF WorkerType, WorkType
        <3> QED BY <1>8, <3>1, <3>2 DEF TeardownHid
    <2>2. ctl'.adv = ctl.adv /\ ctl'.ops \subseteq ctl.ops /\ UNCHANGED <<snapshot, link>>
        BY <1>1, <1>8 DEF TeardownHid, Outside, CtlType
    <2>3. HostDownIsSilent' /\ StopSoFar'
        BY <2>1, <2>2 DEF StoppedInv, HostDownIsSilent, StopSoFar, HostOn
    <2>4. OffMeansOff'
        BY <2>1, <2>2 DEF StoppedInv, OffMeansOff
    <2> QED BY <2>3, <2>4 DEF StoppedInv
<1>9. CASE TeardownHost
    <2>1. PICK left \in {{}} \cup {StuckWith[l] \cap s.layers : l \in s.layers \cap StackLayers} :
              /\ s' = [s EXCEPT !.layers = left \cup (@ \cap {"hid"}), !.ready = {}, !.phase = "resetting"]
              /\ work' = [work EXCEPT !.pc = "resume", !.ok = @ /\ left = {}]
              /\ IF HostOn(s) /\ "host_on" \notin left
                 THEN /\ ctl' = [ctl EXCEPT !.ops = {}, !.adv = "off"]
                      /\ link' = [link EXCEPT !.live = FALSE, !.enc = FALSE]
                 ELSE UNCHANGED <<ctl, link>>
        BY <1>9 DEF TeardownHost
    <2>2. s'.layers = left \cup (s.layers \cap {"hid"}) /\ s'.ready = {}
        BY <1>1, <2>1 DEF WorkerType
    <2>3. work'.pc = "resume" /\ (work'.ok => work.ok /\ left = {})
        BY <1>1, <2>1 DEF WorkType
    <2>4. \/ UNCHANGED <<ctl, link>> /\ (~HostOn(s) \/ "host_on" \in left)
          \/ ctl'.ops = {} /\ ctl'.adv = "off" /\ ~link'.live
        BY <1>1, <2>1 DEF CtlType, LinkType
    <2>5. HostDownIsSilent'
        <3>1. CASE UNCHANGED <<ctl, link>> /\ (~HostOn(s) \/ "host_on" \in left)
            BY <2>2, <3>1 DEF StoppedInv, HostDownIsSilent, HostOn
        <3>2. CASE ctl'.ops = {} /\ ctl'.adv = "off" /\ ~link'.live
            BY <2>2, <3>2 DEF HostDownIsSilent
        <3> QED BY <2>4, <3>1, <3>2
    <2>6. StopSoFar'
        BY <1>9, <2>2, <2>3 DEF TeardownHost, StoppedInv, StopSoFar
    <2>7. OffMeansOff'
        <3>1. left \subseteq s.layers
            BY <2>1
        <3>2. UNCHANGED snapshot
            BY <1>9 DEF TeardownHost
        <3> QED BY <2>2, <2>4, <3>1, <3>2 DEF StoppedInv, OffMeansOff
    <2> QED BY <2>5, <2>6, <2>7 DEF StoppedInv
<1> QED BY <1>2, <1>3, <1>4, <1>5, <1>6, <1>7, <1>8, <1>9 DEF StopSteps

-----------------------------------------------------------------------------
(* Starting, and what the handlers do after a stop                           *)

LEMMA StartStackFailsShape ==
    ASSUME NEW s1 \in WorkerType, s1.layers = s.layers, s1.ready = s.ready, snapshot \in SnapshotType,
           NEW post, NEW m, StartStackFails(s1, post, m)
    PROVE  /\ s'.ready = s.ready /\ work'.pc = "stop_adv" /\ UNCHANGED ctl
           /\ \/ s'.layers = s.layers /\ snapshot'.state \in {"STOPPING", snapshot.state}
              \/ ~HostOn(s) /\ snapshot'.state \in {"STOPPING", "STARTING"}
<1>1. CASE ~CanStart(s1) /\ BeginStop(s1, snapshot, "fail", post, m) /\ UNCHANGED <<ctl, budget>>
    BY <1>1, BeginStopShape
<1>2. CASE /\ CanStart(s1)
           /\ \E left \in PartialStacks :
                 BeginStop([StackUp(s1) EXCEPT !.layers = left \cup (s1.layers \cap {"controller_init"})],
                           [session |-> s1.session, state |-> "STARTING"], "fail", post, m)
           /\ UNCHANGED ctl
    <2>1. PICK left \in PartialStacks :
              BeginStop([StackUp(s1) EXCEPT !.layers = left \cup (s1.layers \cap {"controller_init"})],
                        [session |-> s1.session, state |-> "STARTING"], "fail", post, m)
        BY <1>2
    <2> DEFINE up      == StackUp(s1)
               partial == [up EXCEPT !.layers = left \cup (s1.layers \cap {"controller_init"})]
               shown   == [session |-> s1.session, state |-> "STARTING"]
    <2>2. up \in WorkerType
        BY StackUpType
    <2>3. up.ready = s1.ready
        BY DEF StackUp, WorkerType
    <2>4. left \cup (s1.layers \cap {"controller_init"}) \in SUBSET Layers
        BY DEF PartialStacks, StackLayers, Layers
    <2>5. shown \in SnapshotType /\ shown.state = "STARTING"
        BY DEF SnapshotType, Statuses, WorkerType
    <2> HIDE DEF up
    <2>6. partial \in WorkerType /\ partial.ready = s1.ready
        BY <2>2, <2>3, <2>4 DEF WorkerType
    <2>7. BeginStop(partial, shown, "fail", post, m)
        BY <2>1 DEF up
    <2> HIDE DEF partial, shown
    <2>8. s'.ready = s1.ready /\ work'.pc = "stop_adv" /\ snapshot'.state \in {"STOPPING", "STARTING"}
        BY <2>5, <2>6, <2>7, BeginStopShape
    <2>9. ~HostOn(s)
        BY <1>2 DEF CanStart, HostOn
    <2> QED BY <1>2, <2>8, <2>9
<1> QED BY <1>1, <1>2 DEF StartStackFails

LEMMA StartStackFailsKeeps ==
    ASSUME StoppedInv, NEW s1 \in WorkerType, s1.layers = s.layers, s1.ready = s.ready,
           snapshot \in SnapshotType, UNCHANGED link, NEW post, NEW m, StartStackFails(s1, post, m)
    PROVE  StoppedInv'
<1>1. SameRadio /\ NotStopping
    BY StartStackFailsShape DEF SameRadio, NotStopping
<1>2. CASE s'.layers = s.layers /\ snapshot'.state \in {"STOPPING", snapshot.state}
    BY <1>1, <1>2, StartStackFailsShape, SameStackKeeps DEF SameStack, NotShownOff
<1>3. CASE ~HostOn(s) /\ snapshot'.state \in {"STOPPING", "STARTING"}
    BY <1>1, <1>3, StartStackFailsShape, StartKeeps
<1> QED BY <1>2, <1>3, StartStackFailsShape

LEMMA StartRuntimeKeeps ==
    ASSUME TypeOK, StoppedInv, NEW s1 \in WorkerType, s1.layers = s.layers, s1.ready = s.ready,
           UNCHANGED link, NEW post \in Posts, NEW m, StartRuntime(s1, post, m)
    PROVE  StoppedInv'
<1>1. snapshot \in SnapshotType /\ work \in WorkType /\ ctl \in CtlType
    BY DEF TypeOK
<1>2. CASE StartStackFails(s1, post, m)
    BY <1>1, <1>2, StartStackFailsKeeps
<1>3. CASE CanStart(s1) /\ BeginStop(StackUp(s1), snapshot, "fail", post, m) /\ UNCHANGED <<ctl, ccc, budget>>
    <2> DEFINE up == StackUp(s1)
    <2>1. up \in WorkerType /\ up.ready = s1.ready /\ On(up)
        <3>1. up.layers = StackLayers /\ up.ready = s1.ready
            BY DEF StackUp, WorkerType
        <3> QED BY <3>1, StackUpType DEF On, StackLayers
    <2> HIDE DEF up
    <2>2. BeginStop(up, snapshot, "fail", post, m)
        BY <1>3 DEF up
    <2>3. s'.ready = s.ready /\ work'.pc = "stop_adv" /\ snapshot'.state = "STOPPING"
        BY <1>1, <2>1, <2>2, BeginStopShape
    <2> QED BY <1>3, <2>3, StartKeeps DEF CanStart, HostOn, SameRadio
<1>4. CASE /\ CanStart(s1)
           /\ s' = [StackUp(s1) EXCEPT !.layers = Layers,
                                       !.pairing = s1.profile.peer = NoPeer,
                                       !.saved = s1.profile.peer # NoPeer,
                                       !.awaiting_save = FALSE, !.forgetting = FALSE, !.suspended = FALSE,
                                       !.phase = "resetting"]
           /\ Status(s1, "STARTING")
           /\ ctl' = [ctl EXCEPT !.ops = @ \cup {Op(g) : g \in Gates} \cup {Op("privacy_off")}]
           /\ work' = [work EXCEPT !.pc = post, !.msg = m]
    <2> DEFINE up == StackUp(s1)
    <2>1. up \in WorkerType /\ up.ready = s1.ready
        BY StackUpType DEF StackUp, WorkerType
    <2>2. s'.ready = s.ready
        <3>1. s' = [up EXCEPT !.layers = Layers, !.pairing = s1.profile.peer = NoPeer,
                              !.saved = s1.profile.peer # NoPeer, !.awaiting_save = FALSE,
                              !.forgetting = FALSE, !.suspended = FALSE, !.phase = "resetting"]
            BY <1>4
        <3> HIDE DEF up
        <3> QED BY <2>1, <3>1 DEF WorkerType
    <2>3. SameRadio
        <3>1. \A g \in Gates \cup {"privacy_off"} : Op(g) \notin AdvOps
            BY ConstantsAssumption DEF AdvOps, Op, ReadyFlags
        <3>2. ctl'.adv = ctl.adv /\ ctl'.ops = ctl.ops \cup {Op(g) : g \in Gates} \cup {Op("privacy_off")}
            BY <1>1, <1>4 DEF CtlType
        <3> QED BY <3>1, <3>2 DEF SameRadio
    <2>4. work'.pc = post /\ snapshot'.state = "STARTING"
        BY <1>1, <1>4 DEF WorkType, Status
    <2> QED BY <1>4, <2>2, <2>3, <2>4, StartKeeps DEF CanStart, HostOn, Posts
<1> QED BY <1>2, <1>3, <1>4 DEF StartRuntime

LEMMA RestartWithKeeps ==
    ASSUME TypeOK, StoppedInv, NEW s1 \in WorkerType, s1.layers = s.layers, s1.ready = s.ready,
           UNCHANGED link, RestartWith(s1)
    PROVE  StoppedInv'
<1>1. snapshot \in SnapshotType /\ work.post \in Posts
    BY DEF TypeOK, WorkType
<1>2. CASE StartRuntime(s1, work.post, work.msg)
    BY <1>1, <1>2, StartRuntimeKeeps
<1>3. CASE BeginStop(s1, snapshot, "fail", work.post, work.msg) /\ UNCHANGED <<ctl, ccc, budget>>
    <2>1. SameRadio
        BY <1>3 DEF SameRadio
    <2> QED BY <1>1, <1>3, <2>1, BeginStopKeeps
<1> QED BY <1>2, <1>3 DEF RestartWith

LEMMA AwaitingSaveKeepsStack ==
    ASSUME NEW s1 \in WorkerType
    PROVE  AwaitingSave(s1).layers = s1.layers /\ AwaitingSave(s1).ready = s1.ready
<1> DEFINE armed == Arm(s1, "save")
<1>1. armed \in WorkerType
    BY ArmType DEF Deadlines
<1>2. armed.layers = s1.layers /\ armed.ready = s1.ready
    BY DEF Arm, WorkerType
<1>3. AwaitingSave(s1) = [armed EXCEPT !.awaiting_save = TRUE]
    BY DEF AwaitingSave
<1> HIDE DEF armed
<1> QED BY <1>1, <1>2, <1>3 DEF WorkerType

LEMMA ForgetBondsShape ==
    ASSUME NEW s1 \in WorkerType, snapshot \in SnapshotType, work \in WorkType, ForgetBonds(s1)
    PROVE  /\ s'.ready = s1.ready /\ s'.layers = s1.layers
           /\ work'.pc \in {"stop_adv", work.post}
           /\ snapshot'.state \in {"STARTING", IF On(s1) THEN "STOPPING" ELSE snapshot.state}
<1>1. CASE /\ s' = AwaitingSave([Clear(s1, {"start"}) EXCEPT !.forgetting = TRUE, !.pair_after = work.msg.flag])
           /\ Status(s1, "STARTING")
           /\ Goto(work.post)
    <2> DEFINE cleared == Clear(s1, {"start"})
               waiting == [cleared EXCEPT !.forgetting = TRUE, !.pair_after = work.msg.flag]
    <2>1. cleared \in WorkerType /\ cleared.layers = s1.layers /\ cleared.ready = s1.ready
        BY ClearType, ClearKeepsStack
    <2>2. work.msg.flag \in BOOLEAN
        BY DEF WorkType, Messages
    <2> HIDE DEF cleared
    <2>3. waiting \in WorkerType /\ waiting.layers = s1.layers /\ waiting.ready = s1.ready
        BY <2>1, <2>2 DEF WorkerType
    <2>4. s' = AwaitingSave(waiting)
        BY <1>1 DEF cleared
    <2> HIDE DEF waiting
    <2>5. s'.layers = s1.layers /\ s'.ready = s1.ready
        BY <2>3, <2>4, AwaitingSaveKeepsStack
    <2> QED BY <1>1, <2>5 DEF Status, Goto, WorkType
<1>2. CASE BeginStop(s1, snapshot, "fail", "idle", work.msg)
    BY <1>2, BeginStopShape
<1> QED BY <1>1, <1>2 DEF ForgetBonds

LEMMA FinishStepsKeep ==
    ASSUME TypeOK, StoppedInv, FinishSteps
    PROVE  StoppedInv'
<1>1. /\ s \in WorkerType /\ work \in WorkType /\ ctl \in CtlType /\ snapshot \in SnapshotType
      /\ work.post \in Posts /\ work.msg.remote \in Remotes /\ work.msg.session \in Nat
    BY DEF TypeOK, WorkType, Messages
<1>2. CASE FinishFail \/ FinishTimeout \/ FinishAuthRetry
    <2>1. work'.pc = work.post /\ snapshot'.state \notin {"OFF", "UNPAIRED"} /\ UNCHANGED <<s, ctl, link>>
        BY <1>1, <1>2 DEF FinishFail, FinishTimeout, FinishAuthRetry, Goto, Status, Outside, WorkType
    <2>2. NotStopping /\ NotShownOff /\ SameStack /\ SameRadio
        BY <1>1, <2>1 DEF NotStopping, NotShownOff, SameStack, SameRadio, Posts
    <2> QED BY <2>2, SameStackKeeps
<1>3. CASE FinishClose \/ FinishUnpair
    <2>1. /\ work'.pc = work.post /\ UNCHANGED <<ctl, link>>
          /\ s'.layers = s.layers /\ s'.ready = s.ready
        BY <1>1, <1>3 DEF FinishClose, FinishUnpair, Goto, Outside, WorkType, WorkerType
    <2>2. work.pc = "resume" /\ work.k \in {"close", "unpair"}
          /\ (snapshot'.state \in {"OFF", "UNPAIRED"} => work.ok)
        BY <1>3 DEF FinishClose, FinishUnpair, Resume, Status
    <2>3. snapshot'.state \in {"OFF", "UNPAIRED"} => s.layers = {}
        BY <2>2 DEF StoppedInv, StopSoFar
    <2>4. HostDownIsSilent'
        BY <2>1 DEF StoppedInv, HostDownIsSilent, HostOn
    <2>5. StopSoFar'
        BY <1>1, <2>1 DEF StopSoFar, Posts
    <2>6. OffMeansOff'
        BY <2>1, <2>3 DEF StoppedInv, HostDownIsSilent, OffMeansOff, HostOn
    <2> QED BY <2>4, <2>5, <2>6 DEF StoppedInv
<1>4. CASE FinishOpen
    <2> DEFINE opened == [s EXCEPT !.session = work.msg.session, !.profile = work.msg.remote]
    <2>1. opened \in WorkerType /\ opened.layers = s.layers /\ opened.ready = s.ready
        BY <1>1 DEF WorkerType
    <2>2. RestartWith(opened) /\ UNCHANGED link
        BY <1>4 DEF FinishOpen
    <2> HIDE DEF opened
    <2> QED BY <2>1, <2>2, RestartWithKeeps
<1>5. CASE FinishRestart
    BY <1>1, <1>5, RestartWithKeeps DEF FinishRestart
<1>6. CASE FinishRelease
    <2>1. CASE Goto(work.post) /\ UNCHANGED <<callbackGen, snapshot, s, ctl, ccc, budget>>
        <3>1. work'.pc = work.post
            BY <1>1, <2>1 DEF Goto, WorkType
        <3>2. NotStopping /\ NotShownOff /\ SameStack /\ SameRadio
            BY <1>1, <1>6, <2>1, <3>1 DEF FinishRelease, NotStopping, NotShownOff, SameStack, SameRadio, Posts
        <3> QED BY <3>2, SameStackKeeps
    <2>2. CASE RestartWith(s)
        BY <1>1, <1>6, <2>2, RestartWithKeeps DEF FinishRelease
    <2> QED BY <1>6, <2>1, <2>2 DEF FinishRelease
<1>7. CASE FinishForget
    <2>1. UNCHANGED link
        BY <1>7 DEF FinishForget
    <2>2. CASE BeginStop(s, snapshot, "fail", work.post, work.msg) /\ UNCHANGED <<ctl, nvm, evtq, budget>>
        <3>1. SameRadio
            BY <2>1, <2>2 DEF SameRadio
        <3> QED BY <1>1, <2>2, <3>1, BeginStopKeeps
    <2>3. CASE StartStackFails(s, work.post, work.msg)
        BY <1>1, <2>1, <2>3, StartStackFailsKeeps
    <2>4. CASE CanStart(s) /\ ForgetBonds(StackUp(s)) /\ UNCHANGED ctl
        <3>1. StackUp(s).ready = s.ready /\ StackUp(s).layers = StackLayers
            BY <1>1 DEF StackUp, WorkerType
        <3>2. On(StackUp(s)) /\ StackUp(s) \in WorkerType
            BY <1>1, <3>1, StackUpType DEF On, StackLayers
        <3>3. /\ s'.ready = s.ready /\ work'.pc \in {"stop_adv", work.post}
              /\ snapshot'.state \in {"STARTING", "STOPPING"}
            BY <1>1, <2>4, <3>1, <3>2, ForgetBondsShape
        <3>4. SameRadio /\ ~HostOn(s)
            BY <2>1, <2>4 DEF SameRadio, CanStart, HostOn
        <3> QED BY <1>1, <3>3, <3>4, StartKeeps DEF Posts
    <2>5. CASE /\ CanStart(s)
               /\ s' = StackUp(s)
               /\ Status(s, "STARTING")
               /\ ctl' = [ctl EXCEPT !.ops = @ \cup {<<"remove_bond", s.profile.peer>>}, !.bondRemoved = "no"]
               /\ Goto("bond_wait")
        <3>1. s'.ready = s.ready
            BY <1>1, <2>5 DEF StackUp, WorkerType
        <3>2. ctl'.adv = ctl.adv /\ ctl'.ops = ctl.ops \cup {<<"remove_bond", s.profile.peer>>}
            BY <1>1, <2>5 DEF CtlType
        <3>3. SameRadio
            BY <2>1, <3>2 DEF SameRadio, AdvOps, Op
        <3>4. work'.pc = "bond_wait" /\ snapshot'.state = "STARTING"
            BY <1>1, <2>5 DEF Goto, Status, WorkType
        <3> QED BY <2>5, <3>1, <3>3, <3>4, StartKeeps DEF CanStart, HostOn
    <2> QED BY <1>7, <2>2, <2>3, <2>4, <2>5 DEF FinishForget
<1>8. CASE RemoveBondWait
    <2>1. UNCHANGED link /\ ctl'.adv = ctl.adv /\ ctl'.ops = ctl.ops
        BY <1>1, <1>8 DEF RemoveBondWait, CtlType
    <2>2. SameRadio
        BY <2>1 DEF SameRadio
    <2>3. CASE ForgetBonds(s)
        <3>1. SameStack /\ NotShownOff
            BY <1>1, <2>3, ForgetBondsShape DEF SameStack, NotShownOff
        <3>2. NotStopping
            BY <1>1, <2>3, ForgetBondsShape DEF NotStopping, Posts
        <3> QED BY <2>2, <3>1, <3>2, SameStackKeeps
    <2>4. CASE BeginStop(s, snapshot, "fail", work.post, work.msg)
        BY <1>1, <2>2, <2>4, BeginStopKeeps
    <2> QED BY <1>8, <2>3, <2>4 DEF RemoveBondWait
<1> QED BY <1>2, <1>3, <1>4, <1>5, <1>6, <1>7, <1>8 DEF FinishSteps

-----------------------------------------------------------------------------
(* Handlers of messages: under a running host, or without touching the stack *)

LEMMA DoneShape ==
    ASSUME TypeOK, NEW pc \in Posts, Done(pc)
    PROVE  NotStopping
<1>1. work'.pc = pc
    BY DEF TypeOK, Done, WorkType
<1> QED BY <1>1 DEF NotStopping, Posts

LEMMA ApiHandlersKeep ==
    ASSUME TypeOK, StoppedInv, ApiHandlers
    PROVE  StoppedInv'
<1>1. /\ s \in WorkerType /\ work \in WorkType /\ snapshot \in SnapshotType
      /\ {"idle", "tail", "after"} \subseteq Posts
    BY DEF TypeOK, Posts
<1>2. SameRadio
    BY DEF ApiHandlers, HandleOpen, HandleForget, HandleSaved, HandleTap, HandleRelease, HandleClose,
           HandleDropped, Outside, SameRadio
<1>3. ASSUME NEW pc \in Posts, Done(pc), UNCHANGED <<snapshot, s>>
      PROVE  StoppedInv'
    BY <1>2, <1>3, DoneShape, SameStackKeeps DEF SameStack, NotShownOff
<1>4. ASSUME NEW k, NEW post, BeginStop(s, snapshot, k, post, Msg)
      PROVE  StoppedInv'
    BY <1>1, <1>2, <1>4, BeginStopKeeps
<1>5. CASE HandleOpen
    BY <1>1, <1>3, <1>4, <1>5 DEF HandleOpen
<1>6. CASE HandleForget
    BY <1>4, <1>6 DEF HandleForget
<1>7. CASE HandleSaved
    <2> DEFINE cleared == Clear(s, {"save"})
               ack     == [cleared EXCEPT !.awaiting_save = FALSE]
               done    == [ack EXCEPT !.profile = Msg.remote, !.forgetting = FALSE]
               saved   == [ack EXCEPT !.saved = TRUE, !.pairing = FALSE]
    <2>1. Msg.remote \in Remotes
        BY <1>7, TakeType DEF HandleSaved, Messages
    <2>2. ack \in WorkerType /\ ack.layers = s.layers /\ ack.ready = s.ready
        <3>1. cleared \in WorkerType /\ cleared.layers = s.layers /\ cleared.ready = s.ready
            BY <1>1, ClearType, ClearKeepsStack
        <3> HIDE DEF cleared
        <3> QED BY <3>1 DEF WorkerType
    <2>3. AckFlags = ack
        BY DEF AckFlags
    <2> HIDE DEF ack
    <2>4. /\ done \in WorkerType /\ done.layers = s.layers /\ done.ready = s.ready
          /\ saved \in WorkerType /\ saved.layers = s.layers /\ saved.ready = s.ready
        BY <2>1, <2>2 DEF WorkerType
    <2>5. \/ BeginStop(ack, snapshot, "fail", "idle", Msg)
          \/ BeginStop(done, snapshot, IF s.pair_after THEN "restart" ELSE "unpair", "tail", Msg)
          \/ BeginStop(saved, snapshot, "restart", "tail", Msg)
          \/ ReadyIfSubscribed(saved, "tail", Msg)
        BY <1>7, <2>3 DEF HandleSaved
    <2> HIDE DEF done, saved
    <2>6. ASSUME NEW s1 \in {ack, done, saved}, NEW k, NEW post, BeginStop(s1, snapshot, k, post, Msg)
          PROVE  StoppedInv'
        BY <1>1, <1>2, <2>2, <2>4, <2>6, BeginStopKeeps
    <2>7. CASE ReadyIfSubscribed(saved, "tail", Msg)
        <3>1. s'.layers = saved.layers /\ s'.ready = saved.ready /\ NotShownOff /\ NotStopping
            BY <1>1, <2>4, <2>7, ReadyIfSubscribedShape
        <3> QED BY <1>2, <2>4, <3>1, SameStackKeeps DEF SameStack
    <2> QED BY <2>5, <2>6, <2>7
<1>8. CASE HandleTap
    BY <1>1, <1>3, <1>4, <1>8 DEF HandleTap
<1>9. CASE HandleRelease
    BY <1>1, <1>3, <1>4, <1>9 DEF HandleRelease
<1>10. CASE HandleClose
    BY <1>1, <1>3, <1>10 DEF HandleClose
<1>11. CASE HandleDropped
    BY <1>1, <1>3, <1>11 DEF HandleDropped
<1> QED BY <1>5, <1>6, <1>7, <1>8, <1>9, <1>10, <1>11 DEF ApiHandlers

LEMMA CallbackHandlersKeep ==
    ASSUME TypeOK, StoppedInv, CallbackHandlers
    PROVE  StoppedInv'
<1>1. /\ s \in WorkerType /\ work \in WorkType /\ snapshot \in SnapshotType
      /\ {"idle", "tail", "after"} \subseteq Posts
    BY DEF TypeOK, Posts
<1>2. HostOn(s)
    BY DEF CallbackHandlers, HandleGate, HandleHidReady, HandlePrivacy, HandleWhitelist, HandlePeerPrivacy,
           HandleAdvStarted, HandleConnected, HandleAuthFailed, HandleAuthOk, HandleDisconnected,
           HandleWrite, HandleSuspend, TakeCallback, Current
<1>3. ASSUME NEW pc \in Posts, Done(pc), NotShownOff, s'.layers = s.layers
      PROVE  StoppedInv'
    BY <1>2, <1>3, DoneShape, HostKeeps
<1>4. ASSUME NEW s1 \in WorkerType, s1.layers = s.layers, NEW k, NEW post, NEW m,
             BeginStop(s1, snapshot, k, post, m)
      PROVE  StoppedInv'
    <2>1. s'.layers = s.layers /\ NotShownOff /\ NotStopping
        BY <1>1, <1>4, BeginStopShape DEF NotShownOff, NotStopping
    <2> QED BY <1>2, <2>1, HostKeeps
<1>5. ASSUME NEW s1 \in WorkerType, s1.layers = s.layers, NEW op, Request(s1, op)
      PROVE  StoppedInv'
    BY <1>1, <1>3, <1>4, <1>5 DEF Request, NotShownOff
<1>6. ASSUME NEW s1 \in WorkerType, s1.layers = s.layers, SetFlags(s1)
      PROVE  StoppedInv'
    BY <1>1, <1>3, <1>6 DEF SetFlags, NotShownOff
<1>7. ASSUME NEW s1 \in WorkerType, s1.layers = s.layers, ReadyIfSubscribed(s1, "after", Msg)
      PROVE  StoppedInv'
    BY <1>1, <1>2, <1>7, ReadyIfSubscribedShape, HostKeeps
<1>8. CASE HandleGate
    <2>1. s'.layers = s.layers
        BY <1>1, <1>8 DEF HandleGate, WorkerType
    <2> QED BY <1>1, <1>3, <1>8, <2>1 DEF HandleGate, NotShownOff
<1>9. CASE HandleHidReady
    <2>1. s'.layers = s.layers
        BY <1>1, <1>9 DEF HandleHidReady, WorkerType
    <2>2. CASE Done("after")
        BY <1>1, <1>3, <1>9, <2>1, <2>2 DEF HandleHidReady, NotShownOff
    <2>3. CASE work' = [work EXCEPT !.pc = "after", !.msg = [Msg EXCEPT !.ok = FALSE]]
        <3> DEFINE failed == [Msg EXCEPT !.ok = FALSE]
        <3>1. work' = [work EXCEPT !.pc = "after", !.msg = failed]
            BY <2>3
        <3> HIDE DEF failed
        <3>2. NotStopping
            BY <1>1, <3>1 DEF NotStopping, WorkType
        <3> QED BY <1>2, <1>9, <2>1, <3>2, HostKeeps DEF HandleHidReady, NotShownOff
    <2> QED BY <1>9, <2>2, <2>3 DEF HandleHidReady
<1>10. CASE HandlePrivacy
    <2> DEFINE preparing == [s EXCEPT !.phase = "preparing"]
               enabled   == [s EXCEPT !.phase = "ready", !.ready = @ \cup {"privacy"}]
    <2>1. /\ preparing \in WorkerType /\ preparing.layers = s.layers
          /\ enabled \in WorkerType /\ enabled.layers = s.layers
        BY <1>1 DEF WorkerType, ReadyFlags
    <2>2. Request(preparing, Op("wl_clear")) \/ SetFlags(enabled) \/ SetFlags(s)
        BY <1>10 DEF HandlePrivacy
    <2> HIDE DEF preparing, enabled
    <2> QED BY <1>1, <1>5, <1>6, <2>1, <2>2
<1>11. CASE HandleWhitelist
    <2> DEFINE listed == [s EXCEPT !.ready = @ \cup {"whitelist"}]
               open   == [s EXCEPT !.ready = @ \cup {"whitelist", "privacy"}, !.phase = "ready"]
    <2>1. /\ listed \in WorkerType /\ listed.layers = s.layers
          /\ open \in WorkerType /\ open.layers = s.layers
        BY <1>1 DEF WorkerType, ReadyFlags
    <2>2. Msg.ok \in BOOLEAN /\ Msg.type \in {"WHITELIST_CLEAR", "WHITELIST_ADD"} /\ s.pairing \in BOOLEAN
        BY <1>1, <1>11, TakeType DEF HandleWhitelist, TakeCallback, Take, Msg, Messages, WorkerType
    <2>3. \/ Request(s, <<"wl_add", s.profile.peer>>) \/ Request(listed, Op("peer_privacy"))
          \/ SetFlags(open) \/ SetFlags(s)
        BY <1>11, <2>2 DEF HandleWhitelist
    <2> HIDE DEF listed, open
    <2> QED BY <1>1, <1>5, <1>6, <2>1, <2>3
<1>12. CASE HandlePeerPrivacy
    <2> DEFINE enabling == [s EXCEPT !.phase = "enabling"]
    <2>1. enabling \in WorkerType /\ enabling.layers = s.layers
        BY <1>1 DEF WorkerType
    <2>2. Request(enabling, Op("privacy_on")) \/ SetFlags(s)
        BY <1>12 DEF HandlePeerPrivacy
    <2> HIDE DEF enabling
    <2> QED BY <1>1, <1>5, <1>6, <2>1, <2>2
<1>13. CASE HandleAdvStarted
    <2>1. s'.layers = s.layers
        BY <1>1, <1>13, ClearKeepsStack DEF HandleAdvStarted, Advertised
    <2>2. NotShownOff
        BY <1>13 DEF HandleAdvStarted, Status, NotShownOff
    <2> QED BY <1>1, <1>3, <1>13, <2>1, <2>2 DEF HandleAdvStarted
<1>14. CASE HandleConnected
    <2>1. s'.layers = s.layers
        <3> DEFINE armed == Arm(s, "connect")
        <3>1. armed \in WorkerType /\ armed.layers = s.layers
            BY <1>1, ArmType, ArmSets DEF Deadlines
        <3>2. s' = s \/ s' = [armed EXCEPT !.connected = TRUE, !.advertising = FALSE]
            BY <1>14 DEF HandleConnected
        <3> HIDE DEF armed
        <3> QED BY <3>1, <3>2 DEF WorkerType
    <2>2. NotShownOff
        BY <1>14 DEF HandleConnected, Status, NotShownOff
    <2> QED BY <1>1, <1>3, <1>14, <2>1, <2>2 DEF HandleConnected
<1>15. CASE HandleAuthFailed
    <2>1. CASE s.pairing
        <3> DEFINE retry == [Msg EXCEPT !.ok = TRUE]
        <3>1. /\ s' = [s EXCEPT !.encrypted = FALSE, !.subscribed = FALSE]
              /\ work' = [pc |-> "disconnect", k |-> "auth_retry", post |-> "after", msg |-> retry, ok |-> TRUE]
              /\ snapshot' = snapshot
            BY <1>15, <2>1 DEF HandleAuthFailed
        <3> HIDE DEF retry
        <3>2. s'.layers = s.layers /\ work'.pc = "disconnect" /\ snapshot' = snapshot
            BY <1>1, <3>1 DEF WorkerType
        <3> QED BY <1>2, <3>2, HostKeeps DEF NotShownOff, NotStopping
    <2>2. CASE ~s.pairing
        BY <1>1, <1>4, <1>15, <2>2 DEF HandleAuthFailed
    <2> QED BY <2>1, <2>2
<1>16. CASE HandleAuthOk
    <2>1. Msg.peer \in Peers
        BY <1>16, TakeType DEF HandleAuthOk, TakeCallback, Messages
    <2> DEFINE found   == [s.profile EXCEPT !.peer = Msg.peer]
               secured == [s EXCEPT !.encrypted = TRUE]
               paired  == [s EXCEPT !.encrypted = TRUE, !.profile.peer = Msg.peer]
    <2>2. secured \in WorkerType /\ secured.layers = s.layers
        BY <1>1 DEF WorkerType
    <2>3. paired \in WorkerType /\ paired.layers = s.layers
        <3>1. found \in Remotes
            BY <1>1, <2>1 DEF WorkerType, Remotes
        <3>2. paired = [s EXCEPT !.encrypted = TRUE, !.profile = found]
            BY <1>1 DEF WorkerType
        <3> HIDE DEF found, paired
        <3> QED BY <1>1, <3>1, <3>2 DEF WorkerType
    <2>4. \/ BeginStop(s, snapshot, "fail", "after", Msg)
          \/ s' = AwaitingSave(paired) /\ Done("after") /\ UNCHANGED snapshot
          \/ ReadyIfSubscribed(secured, "after", Msg)
        BY <1>16 DEF HandleAuthOk
    <2> HIDE DEF secured, paired
    <2>5. CASE BeginStop(s, snapshot, "fail", "after", Msg)
        BY <1>1, <1>4, <2>5
    <2>6. CASE s' = AwaitingSave(paired) /\ Done("after") /\ UNCHANGED snapshot
        BY <1>1, <1>3, <2>3, <2>6, AwaitingSaveKeepsStack DEF NotShownOff
    <2>7. CASE ReadyIfSubscribed(secured, "after", Msg)
        BY <1>7, <2>2, <2>7
    <2> QED BY <2>4, <2>5, <2>6, <2>7
<1>17. CASE HandleDisconnected
    <2> DEFINE unlinked == Unlinked(s)
               cleared  == Clear(unlinked, {"connect"})
               lost     == [cleared EXCEPT !.suspended = FALSE]
    <2>1. unlinked \in WorkerType /\ unlinked.layers = s.layers
        BY <1>1, UnlinkedType, UnlinkedSets
    <2> HIDE DEF unlinked
    <2>2. cleared \in WorkerType /\ cleared.layers = s.layers
        BY <2>1, ClearType, ClearKeepsStack
    <2> HIDE DEF cleared
    <2>3. lost \in WorkerType /\ lost.layers = s.layers
        BY <2>2 DEF WorkerType
    <2>4. s.connected \in BOOLEAN /\ s.saved \in BOOLEAN
        BY <1>1 DEF WorkerType
    <2>5. \/ Done("after") /\ UNCHANGED <<s, snapshot>>
          \/ BeginStop(lost, snapshot, "restart", "after", Msg)
          \/ s' = lost /\ Status(s, "PAIRING") /\ Done("after")
        BY <1>17, <2>4 DEF HandleDisconnected, lost, cleared, unlinked
    <2> HIDE DEF lost
    <2>6. CASE Done("after") /\ UNCHANGED <<s, snapshot>>
        BY <1>1, <1>3, <2>6 DEF NotShownOff
    <2>7. CASE BeginStop(lost, snapshot, "restart", "after", Msg)
        BY <1>4, <2>3, <2>7
    <2>8. CASE s' = lost /\ Status(s, "PAIRING") /\ Done("after")
        BY <1>1, <1>3, <2>3, <2>8 DEF NotShownOff, Status
    <2> QED BY <2>5, <2>6, <2>7, <2>8
<1>18. CASE HandleWrite
    BY <1>1, <1>7, <1>18 DEF HandleWrite
<1>19. CASE HandleSuspend
    <2> DEFINE suspended == [s EXCEPT !.suspended = Msg.flag]
    <2>1. suspended \in WorkerType /\ suspended.layers = s.layers
        <3>1. Msg.flag \in BOOLEAN
            BY <1>19, TakeType DEF HandleSuspend, TakeCallback, Messages
        <3> QED BY <1>1, <3>1 DEF WorkerType
    <2>2. ReadyIfSubscribed(suspended, "after", Msg) \/ BeginStop(s, snapshot, "release", "after", Msg)
        BY <1>19 DEF HandleSuspend
    <2> HIDE DEF suspended
    <2> QED BY <1>1, <1>4, <1>7, <2>1, <2>2
<1> QED BY <1>8, <1>9, <1>10, <1>11, <1>12, <1>13, <1>14, <1>15, <1>16, <1>17, <1>18, <1>19 DEF CallbackHandlers

LEMMA TailKeeps ==
    ASSUME TypeOK, StoppedInv,
           AfterCallback \/ Advertise \/ Poll \/ TailClose \/ TailExpired \/ TailDone \/ DeadlinePasses
    PROVE  StoppedInv'
<1>1. s \in WorkerType /\ work \in WorkType /\ snapshot \in SnapshotType /\ ctl \in CtlType
    BY DEF TypeOK
<1>2. ASSUME NEW pc \in Posts, Goto(pc), UNCHANGED <<snapshot, s, ctl, link>>
      PROVE  StoppedInv'
    <2>1. work'.pc = pc
        BY <1>1, <1>2 DEF Goto, WorkType
    <2> QED BY <1>2, <2>1, SameStackKeeps DEF SameStack, SameRadio, NotShownOff, NotStopping, Posts
<1>3. ASSUME NEW k, NEW post, NEW m, BeginStop(s, snapshot, k, post, m), UNCHANGED <<ctl, link>>
      PROVE  StoppedInv'
    BY <1>1, <1>3, BeginStopKeeps DEF SameRadio
<1>4. CASE AfterCallback
    BY <1>2, <1>3, <1>4 DEF AfterCallback, Outside, Posts
<1>5. CASE Advertise
    <2>1. HostOn(s)
        BY <1>5, ConstantsAssumption DEF Advertise, CanAdvertise, Ready, StoppedInv, HostDownIsSilent
    <2>2. CASE BeginStop(s, snapshot, "fail", "tail", work.msg) /\ UNCHANGED ctl
        BY <1>3, <1>5, <2>2 DEF Advertise, Outside
    <2>3. CASE /\ s' = [s EXCEPT !.advertising = TRUE, !.deadlines = IF s.pairing THEN @ \cup {"pair"} ELSE @]
               /\ Goto("tail") /\ UNCHANGED snapshot
        <3>1. s'.layers = s.layers /\ work'.pc = "tail"
            BY <1>1, <2>3 DEF Goto, WorkType, WorkerType
        <3> QED BY <2>1, <2>3, <3>1, HostKeeps DEF NotShownOff, NotStopping
    <2> QED BY <1>5, <2>2, <2>3 DEF Advertise
<1>6. CASE Poll
    BY <1>2, <1>6 DEF Poll, Outside, Posts
<1>7. CASE TailClose
    BY <1>3, <1>7 DEF TailClose, Outside
<1>8. CASE TailExpired
    BY <1>3, <1>8 DEF TailExpired, Outside
<1>9. CASE TailDone
    <2>1. work'.pc = "idle"
        BY <1>1, <1>9 DEF TailDone, WorkType
    <2> QED BY <1>9, <2>1, SameStackKeeps DEF TailDone, Outside, SameStack, SameRadio, NotShownOff, NotStopping
<1>10. CASE DeadlinePasses
    <2>1. SameStack
        BY <1>1, <1>10 DEF DeadlinePasses, SameStack, WorkerType
    <2> QED BY <1>10, <2>1, SameStackKeeps DEF DeadlinePasses, Outside, SameStack, SameRadio, NotShownOff, NotStopping
<1> QED BY <1>4, <1>5, <1>6, <1>7, <1>8, <1>9, <1>10

-----------------------------------------------------------------------------
(* The other tasks: requests complete and hosts come only under a running host *)

LEMMA LinkStepsKeep ==
    ASSUME TypeOK, StoppedInv, Completions \/ LinkCallbacks \/ Host
    PROVE  StoppedInv'
<1>1. s \in WorkerType /\ ctl \in CtlType /\ link \in LinkType /\ UNCHANGED <<s, work, snapshot>>
    BY DEF TypeOK, Completions, LinkCallbacks, Host, CompleteGate, CompleteTable, CompleteAdvStart,
           CompleteAdvStop, CompleteRemoveBond, CompleteSuspend, ConnectClear, ConnectUp, ConnectPost,
           DisconnectMark, DisconnectDown, DisconnectPost, HostConnect, LinkEnds, HostAuth, HostWrite,
           HostSuspend, WorkerVars
<1>2. SameStack /\ NotShownOff /\ NotStopping
    BY <1>1 DEF SameStack, NotShownOff, NotStopping
\* a step that only shrinks what is pending, or turns the radio off
<1>3. ASSUME ctl'.adv \in {ctl.adv, "off"}, ctl'.ops \cap AdvOps \subseteq ctl.ops, link'.live => link.live
      PROVE  StoppedInv'
    <2>1. HostDownIsSilent'
        BY <1>1, <1>3 DEF StoppedInv, HostDownIsSilent, HostOn
    <2>2. StopSoFar' /\ OffMeansOff'
        BY <1>1, <1>3 DEF StoppedInv, StopSoFar, OffMeansOff
    <2> QED BY <2>1, <2>2 DEF StoppedInv
<1>4. ASSUME NEW op PROVE Finish(op).adv = ctl.adv /\ Finish(op).ops \subseteq ctl.ops /\ Finish(op) \in CtlType
    BY <1>1, FinishType DEF Finish, CtlType
<1>5. CASE CompleteGate \/ CompleteSuspend \/ CompleteRemoveBond
    <2>1. ctl'.adv = ctl.adv /\ ctl'.ops \subseteq ctl.ops /\ UNCHANGED link
        <3>1. CASE CompleteGate \/ CompleteSuspend
            BY <1>4, <3>1 DEF CompleteGate, CompleteSuspend, Outside
        <3>2. CASE CompleteRemoveBond
            <4>1. PICK op \in ctl.ops, ok \in BOOLEAN :
                      ctl' = [Finish(op) EXCEPT !.bondRemoved = IF ok THEN "ok" ELSE "failed"]
                BY <3>2 DEF CompleteRemoveBond
            <4> DEFINE done == Finish(op)
            <4>2. done.adv = ctl.adv /\ done.ops \subseteq ctl.ops /\ done \in CtlType
                BY <1>4
            <4>3. ctl' = [done EXCEPT !.bondRemoved = IF ok THEN "ok" ELSE "failed"]
                BY <4>1
            <4> HIDE DEF done
            <4> QED BY <3>2, <4>2, <4>3 DEF CompleteRemoveBond, CtlType
        <3> QED BY <1>5, <3>1, <3>2
    <2> QED BY <1>3, <2>1
<1>6. CASE CompleteTable
    <2>1. PICK op \in ctl.ops, ok \in BOOLEAN : ctl' = IF ok THEN TableAfter(op) ELSE Finish(op)
        BY <1>6 DEF CompleteTable
    <2> DEFINE done == Finish(op)
    <2>2. done.adv = ctl.adv /\ done.ops \subseteq ctl.ops /\ done \in CtlType
        BY <1>4
    <2>3. \/ ctl' = done
          \/ ctl' = [done EXCEPT !.resolving = FALSE]
          \/ ctl' = [done EXCEPT !.resolving = TRUE]
          \/ ctl' = [done EXCEPT !.wl = {}]
          \/ ctl' = [done EXCEPT !.wl = @ \cup {op[2]}]
        BY <2>1 DEF TableAfter
    <2> HIDE DEF done
    <2>4. ctl'.adv = ctl.adv /\ ctl'.ops \subseteq ctl.ops
        BY <2>2, <2>3 DEF CtlType
    <2> QED BY <1>3, <1>6, <2>4 DEF CompleteTable, Outside
<1>7. CASE CompleteAdvStart
    <2>1. HostOn(s)
        BY <1>7 DEF CompleteAdvStart, StoppedInv, HostDownIsSilent
    <2> QED BY <1>1, <1>2, <2>1, HostKeeps
<1>8. CASE CompleteAdvStop
    <2> DEFINE done == Finish(Op("adv_stop"))
    <2>1. done.adv = ctl.adv /\ done.ops \subseteq ctl.ops /\ done \in CtlType
        BY <1>4
    <2>2. ctl' = [done EXCEPT !.adv = "off", !.advStopped = TRUE]
        BY <1>8 DEF CompleteAdvStop
    <2> HIDE DEF done
    <2>3. ctl'.adv = "off" /\ ctl'.ops \subseteq ctl.ops
        BY <2>1, <2>2 DEF CtlType
    <2> QED BY <1>3, <1>8, <2>3 DEF CompleteAdvStop, Outside
<1>9. CASE LinkCallbacks
    <2>1. link'.live = link.live /\ UNCHANGED ctl
        BY <1>1, <1>9 DEF LinkCallbacks, ConnectClear, ConnectUp, ConnectPost, DisconnectMark,
                          DisconnectDown, DisconnectPost, LinkType
    <2> QED BY <1>3, <2>1
<1>10. CASE HostConnect
    <2>1. HostOn(s)
        BY <1>10 DEF HostConnect, StoppedInv, HostDownIsSilent
    <2> QED BY <1>1, <1>2, <2>1, HostKeeps
<1>11. CASE LinkEnds
    <2>1. ~link'.live /\ ctl'.adv = ctl.adv /\ ctl'.ops \subseteq ctl.ops
        BY <1>1, <1>4, <1>11 DEF LinkEnds, LinkType
    <2> QED BY <1>3, <2>1
<1>12. CASE HostAuth \/ HostWrite
    <2>1. link'.live = link.live /\ UNCHANGED ctl
        BY <1>1, <1>12 DEF HostAuth, HostWrite, LinkType
    <2> QED BY <1>3, <2>1
<1>13. CASE HostSuspend
    <2>1. PICK name \in {"suspend", "resume"} : ctl' = [ctl EXCEPT !.ops = @ \cup {Op(name)}]
        BY <1>13 DEF HostSuspend
    <2>2. Op(name) \notin AdvOps
        BY DEF Op, AdvOps
    <2>3. ctl'.adv = ctl.adv /\ ctl'.ops = ctl.ops \cup {Op(name)}
        BY <1>1, <2>1 DEF CtlType
    <2> QED BY <1>3, <1>13, <2>2, <2>3 DEF HostSuspend, Outside
<1> QED
    BY <1>5, <1>6, <1>7, <1>8, <1>9, <1>10, <1>11, <1>12, <1>13 DEF Completions, Host

LEMMA UiStepsKeep ==
    ASSUME StoppedInv, UiMenu \/ UiTurn
    PROVE  StoppedInv'
<1>1. UNCHANGED <<s, work, snapshot, link, ctl>>
    BY DEF UiMenu, UiTurn, UiClose, UiForget, UiTap, UiRelease, UiOpen, UiOpenSend, UiPeerStale, UiPeer,
           Background, WorkerVars
<1> QED BY <1>1, SameStackKeeps DEF SameStack, SameRadio, NotShownOff, NotStopping

LEMMA IdleStopped ==
    ASSUME s = IdleWorker, work = IdleWork, snapshot = OffStatus, ctl = IdleCtl, link = IdleLink
    PROVE  StoppedInv
BY DEF IdleWorker, IdleWork, OffStatus, IdleCtl, IdleLink, StoppedInv, HostDownIsSilent, StopSoFar, OffMeansOff

LEMMA PowerLossKeeps ==
    ASSUME PowerLoss
    PROVE  StoppedInv'
BY DEF PowerLoss, IdleWorker, IdleWork, OffStatus, IdleCtl, IdleLink, StoppedInv, HostDownIsSilent,
       StopSoFar, OffMeansOff

LEMMA StoppedStep ==
    ASSUME TypeOK, StoppedInv, [Next]_vars
    PROVE  StoppedInv'
<1>1. CASE UNCHANGED vars
    BY <1>1, SameStackKeeps DEF vars, SameStack, SameRadio, NotShownOff, NotStopping
<1> QED
    BY <1>1, StopStepsKeep, FinishStepsKeep, ApiHandlersKeep, CallbackHandlersKeep, TailKeeps,
       LinkStepsKeep, UiStepsKeep, PowerLossKeeps DEF Next, Worker

\* Stopping: StoppedInv holds in every reachable state, whatever fails.
THEOREM StoppedCorrect == Spec => []StoppedInv
<1>1. Init => StoppedInv
    BY IdleStopped DEF Init
<1>2. TypeOK /\ StoppedInv /\ [Next]_vars => StoppedInv'
    BY StoppedStep
<1> QED BY <1>1, <1>2, TypeCorrect, PTL DEF Spec

\* OFF means off: whenever the UI is shown OFF or UNPAIRED, no layer of the
\* stack is up, the radio is silent and no host is connected, for any faults of
\* the shutdown calls (bt_runtime.c:319-345, 684-690, 848-852).
THEOREM OffIsOff == Spec => []OffMeansOff
<1>1. StoppedInv => OffMeansOff
    BY DEF StoppedInv
<1> QED BY <1>1, StoppedCorrect, PTL

\* Nothing of a stopped host lingers into the next session: not the radio, not
\* a link, not an advertising request, not a readiness flag (bt_runtime.c:731-734).
THEOREM StoppedHostIsSilent == Spec => []HostDownIsSilent
<1>1. StoppedInv => HostDownIsSilent
    BY DEF StoppedInv
<1> QED BY <1>1, StoppedCorrect, PTL

-----------------------------------------------------------------------------
(* The link                                                                  *)

\* The waits and calls of a stop succeed.  With any of these faults TLC finds one
\* or both of the properties violated; the other faults are free.
CleanStops == Faults \cap {"adv_stop", "link_down", "teardown"} = {}

-----------------------------------------------------------------------------
(* The invariant                                                             *)

Attached == link.live \/ link.phase \notin {"idle", "disconnect_down"}
Joining == link.phase \in {"connect", "connect_cleared", "connect_up"}
OnAir == ctl.adv # "off" \/ ctl.ops \cap AdvOps # {}

\* the worker takes the stack down, and the part of that behind the radio
Winding ==
    /\ work.pc \in {"stop_adv", "adv_wait", "disconnect", "link_wait", "teardown", "host_off"}
    /\ work.k # "auth_retry"
Silenced == Winding /\ work.pc \notin {"stop_adv", "adv_wait"}
Running == HostOn(s) /\ ~Winding

\* what the callback task and the worker can see of a link in each phase
Views == {<<"idle", FALSE, FALSE, TRUE>>, <<"idle", TRUE, TRUE, FALSE>>,
          <<"connect", TRUE, FALSE, TRUE>>, <<"connect_cleared", TRUE, FALSE, FALSE>>,
          <<"connect_up", TRUE, TRUE, FALSE>>,
          <<"disconnect", FALSE, TRUE, FALSE>>, <<"disconnect_marked", FALSE, FALSE, FALSE>>,
          <<"disconnect_down", FALSE, FALSE, TRUE>>}
Viewed == <<link.phase, link.live, link.up, link.down>> \in Views

\* callbacks are stamped with the generation that runs, and accepted by no other
Stamped ==
    /\ \A i \in 1..Len(queue) : queue[i].generation <= s.generation
    /\ callbackGen \in {0, s.generation}
    /\ Running => callbackGen = s.generation
    /\ work.pc = "resume" /\ work.k # "auth_retry" => ~HostOn(s)

Queued(i, type) == i \in 1..Len(queue) /\ queue[i].type = type /\ queue[i].generation = s.generation

NeedsHid(i) == Queued(i, "HID_READY") \/ Queued(i, "AUTH")

\* radio and link are there only with the whole stack, and what only HID or a
\* link can tell is told of only with HID
Served ==
    /\ OnAir \/ Attached => {"hid", "host_on"} \subseteq s.layers
    /\ "hid" \notin s.layers => Op("hid") \notin ctl.ops
    /\ Running /\ "hid" \notin s.layers => "hid" \notin s.ready /\ \A i \in 1..Len(queue) : ~NeedsHid(i)

\* the worker knows of everything that is on the air
Aired ==
    /\ ctl.adv = "off" \/ ctl.ops \cap AdvOps = {}
    /\ Op("adv_any") \notin ctl.ops \/ Op("adv_listed") \notin ctl.ops
    /\ ~HostOn(s) => ~s.advertising /\ ~s.connected
    /\ ~Silenced => /\ Attached => s.connected \/ s.advertising
                    /\ OnAir => s.advertising /\ ~s.connected /\ ~Attached
                    /\ Joining => s.advertising /\ ~s.connected

\* how far a stop has come
Wound ==
    /\ work.k = "auth_retry" => work.pc \notin {"stop_adv", "adv_wait", "teardown", "host_off"}
    /\ work.pc = "adv_wait" /\ ctl.advStopped => ~OnAir /\ link.phase \notin {"connect", "connect_cleared"}
    /\ Silenced => ~OnAir /\ ~s.advertising /\ link.phase \notin {"connect", "connect_cleared"}
    /\ work.pc = "link_wait" /\ Attached =>
          DisconnectComing \/ (work.k = "auth_retry" /\ s.advertising)
    /\ Winding /\ work.pc \in {"teardown", "host_off"} => ~Attached /\ ~s.connected

\* what the messages still queued say of the link
Told ==
    Running =>
      /\ \A i \in 1..Len(queue) : Queued(i, "CONNECTED") =>
            /\ s.advertising /\ ~s.connected /\ ~OnAir /\ ~Joining
            /\ \A j \in 1..Len(queue) : Queued(j, "CONNECTED") => j = i
            /\ \A j \in 1..Len(queue) : Queued(j, "DISCONNECTED") /\ i < j => ~Attached
      /\ \A i \in 1..Len(queue) : Queued(i, "DISCONNECTED") /\ s.connected => ~Attached

LinkInv == Viewed /\ Stamped /\ Served /\ Aired /\ Wound /\ Told

-----------------------------------------------------------------------------
(* The queue: its head is taken, or one message is added at its end          *)

Shrinks ==
    \E d \in {0, 1} : /\ Len(queue') = Len(queue) - d
                      /\ \A i \in 1..Len(queue') : i + d \in 1..Len(queue) /\ queue'[i] = queue[i + d]

Grows(type) ==
    /\ Len(queue') \in {Len(queue), Len(queue) + 1}
    /\ \A i \in 1..Len(queue) : queue'[i] = queue[i]
    /\ Len(queue') # Len(queue) => /\ queue'[Len(queue')].type = type
                                   /\ queue'[Len(queue')].generation <= s.generation

LEMMA QueueFacts ==
    ASSUME TypeOK
    PROVE  /\ Len(queue) \in Nat
           /\ \A i \in 1..Len(queue) : queue[i] \in Messages /\ queue[i].generation \in Nat
<1>1. queue \in Seq(Messages)
    BY DEF TypeOK
<1>2. Len(queue) \in Nat /\ \A i \in 1..Len(queue) : queue[i] \in Messages
    BY <1>1
<1>3. \A m \in Messages : m.generation \in Nat
    BY DEF Messages
<1> QED BY <1>2, <1>3

LEMMA SameShrinks ==
    ASSUME TypeOK, queue' = queue
    PROVE  Shrinks
BY QueueFacts DEF Shrinks

LEMMA TakeShrinks ==
    ASSUME TypeOK, NEW types, Take(types)
    PROVE  Shrinks /\ Len(queue) > 0 /\ Msg = queue[1] /\ Msg \in Messages /\ Msg.type \in types
<1>1. queue \in Seq(Messages) /\ queue # << >>
    BY DEF TypeOK, Take
<1>2. Len(queue) \in Nat \ {0} /\ Head(queue) = queue[1] /\ queue[1] \in Messages
    BY <1>1
<1>3. /\ Len(Tail(queue)) = Len(queue) - 1
      /\ \A i \in 1..Len(Tail(queue)) : i + 1 \in 1..Len(queue) /\ Tail(queue)[i] = queue[i + 1]
    BY <1>1
<1>4. queue' = Tail(queue)
    BY DEF Take
<1>5. Len(queue') = Len(queue) - 1
    BY <1>3, <1>4
<1>6. \A i \in 1..Len(queue') : i + 1 \in 1..Len(queue) /\ queue'[i] = queue[i + 1]
    BY <1>3, <1>4
<1>7. Shrinks
    BY <1>5, <1>6 DEF Shrinks
<1>8. Msg = queue[1] /\ Msg.type \in types
    BY <1>2 DEF Msg, Take
<1> QED BY <1>2, <1>7, <1>8

LEMMA SameGrows ==
    ASSUME TypeOK, queue' = queue, NEW type
    PROVE  Grows(type)
BY QueueFacts DEF Grows

LEMMA AppendGrows ==
    ASSUME TypeOK, NEW m \in Messages, queue' = Append(queue, m), m.generation <= s.generation
    PROVE  Grows(m.type)
<1>1. queue \in Seq(Messages)
    BY DEF TypeOK
<1>2. /\ Len(Append(queue, m)) = Len(queue) + 1 /\ Len(queue) \in Nat
      /\ Append(queue, m)[Len(queue) + 1] = m
      /\ \A i \in 1..Len(queue) : Append(queue, m)[i] = queue[i]
    BY <1>1
<1>3. Len(queue') = Len(queue) + 1 /\ queue'[Len(queue')] = m
    BY <1>2
<1>4. \A i \in 1..Len(queue) : queue'[i] = queue[i]
    BY <1>2
<1> QED BY <1>3, <1>4 DEF Grows

LEMMA CallbackGrows ==
    ASSUME TypeOK, Stamped, NEW type \in CallbackTypes, NEW ok \in BOOLEAN, NEW flag \in BOOLEAN,
           NEW peer \in Peers, CallbackMessage(type, ok, flag, peer)
    PROVE  Grows(type)
<1> DEFINE m == [NoMessage EXCEPT !.type = type, !.generation = callbackGen,
                                  !.ok = ok, !.flag = flag, !.peer = peer]
<1>1. m \in Messages /\ m.type = type /\ m.generation = callbackGen
    BY NoMessageType DEF TypeOK, Messages
<1>2. callbackGen <= s.generation
    BY DEF Stamped, TypeOK, WorkerType
<1>3. queue' = queue \/ queue' = Append(queue, m)
    BY DEF CallbackMessage
<1> HIDE DEF m
<1> QED BY <1>1, <1>2, <1>3, SameGrows, AppendGrows

-----------------------------------------------------------------------------
(* Steps that leave radio and link alone                                     *)

Calm == Posts \cup {"bond_wait"}
OwnOps == AdvOps \cup {Op("hid"), Op("disconnect")}

LEMMA OpFacts ==
    /\ AdvOps = {Op("adv_any"), Op("adv_listed")}
    /\ \A a, b : Op(a) = Op(b) <=> a = b
    /\ \A a, p : <<a, p>> \in OwnOps => a \in {"adv_any", "adv_listed", "hid", "disconnect"}
BY DEF AdvOps, Op, OwnOps

SameLink == link' = link
SameAir ==
    /\ ctl'.adv = ctl.adv /\ ctl'.advStopped = ctl.advStopped
    /\ ctl'.ops \cap OwnOps = ctl.ops \cap OwnOps
SameWorker ==
    /\ s'.generation = s.generation /\ s'.layers = s.layers
    /\ s'.advertising = s.advertising /\ s'.connected = s.connected
    /\ "hid" \in s'.ready => "hid" \in s.ready \/ "hid" \in s.layers

LEMMA SameAirFacts ==
    ASSUME SameAir, SameLink
    PROVE  /\ OnAir' = OnAir /\ Attached' = Attached /\ Joining' = Joining
           /\ ctl'.ops \cap AdvOps = ctl.ops \cap AdvOps
           /\ \A a \in {"adv_any", "adv_listed", "hid", "disconnect"} : Op(a) \in ctl'.ops <=> Op(a) \in ctl.ops
           /\ DisconnectComing' = DisconnectComing
<1>1. \A op \in OwnOps : op \in ctl'.ops <=> op \in ctl.ops
    BY DEF SameAir
<1>2. \A a \in {"adv_any", "adv_listed", "hid", "disconnect"} : Op(a) \in OwnOps
    BY DEF OwnOps, AdvOps
<1>3. ctl'.ops \cap AdvOps = ctl.ops \cap AdvOps
    BY <1>1 DEF OwnOps
<1> QED BY <1>1, <1>2, <1>3 DEF SameAir, SameLink, OnAir, Attached, Joining, DisconnectComing

\* messages that are left were there before
LEMMA ShrinksQueued ==
    ASSUME TypeOK, Shrinks, s'.generation = s.generation
    PROVE  \E d \in {0, 1} :
             /\ Len(queue') = Len(queue) - d
             /\ \A i \in 1..Len(queue') : i + d \in 1..Len(queue) /\ queue'[i] = queue[i + d]
             /\ \A i, type : Queued(i, type)' => i \in 1..Len(queue') /\ Queued(i + d, type)
<1>1. PICK d \in {0, 1} : /\ Len(queue') = Len(queue) - d
                          /\ \A i \in 1..Len(queue') : i + d \in 1..Len(queue) /\ queue'[i] = queue[i + d]
    BY DEF Shrinks
<1>2. \A i, type : Queued(i, type)' => i \in 1..Len(queue') /\ Queued(i + d, type)
    BY <1>1 DEF Queued
<1> QED BY <1>1, <1>2

LEMMA StampedShrinks ==
    ASSUME TypeOK, Stamped, Shrinks, s'.generation = s.generation
    PROVE  \A i \in 1..Len(queue') : queue'[i].generation <= s'.generation
<1>1. PICK d \in {0, 1} : \A i \in 1..Len(queue') : i + d \in 1..Len(queue) /\ queue'[i] = queue[i + d]
    BY DEF Shrinks
<1> QED BY <1>1 DEF Stamped

\* what is queued still tells the truth when the link and the worker's view stand
LEMMA ToldShrinks ==
    ASSUME TypeOK, Told, Shrinks, s'.generation = s.generation, Running' => Running,
           s'.advertising = s.advertising, s'.connected => s.connected,
           OnAir' = OnAir, Joining' = Joining, Attached' = Attached
    PROVE  Told'
<1>1. PICK d \in {0, 1} :
             /\ Len(queue') = Len(queue) - d
             /\ \A i \in 1..Len(queue') : i + d \in 1..Len(queue) /\ queue'[i] = queue[i + d]
             /\ \A i, type : Queued(i, type)' => i \in 1..Len(queue') /\ Queued(i + d, type)
    BY ShrinksQueued
<1> SUFFICES ASSUME Running'
             PROVE  Told'
    BY DEF Told
<1>2. ASSUME NEW i \in 1..Len(queue'), Queued(i, "CONNECTED")'
      PROVE  /\ s'.advertising /\ ~s'.connected /\ ~OnAir' /\ ~Joining'
             /\ \A j \in 1..Len(queue') : Queued(j, "CONNECTED")' => j = i
             /\ \A j \in 1..Len(queue') : Queued(j, "DISCONNECTED")' /\ i < j => ~Attached'
    <2>1. i + d \in 1..Len(queue) /\ Queued(i + d, "CONNECTED")
        BY <1>1, <1>2
    <2>2. s.advertising /\ ~s.connected /\ ~OnAir /\ ~Joining
        BY <2>1 DEF Told
    <2>3. ASSUME NEW j \in 1..Len(queue'), Queued(j, "CONNECTED")'
          PROVE  j = i
        <3>1. j + d \in 1..Len(queue) /\ Queued(j + d, "CONNECTED")
            BY <1>1, <2>3
        <3>2. j + d = i + d
            BY <2>1, <3>1 DEF Told
        <3> QED BY <3>2
    <2>4. ASSUME NEW j \in 1..Len(queue'), Queued(j, "DISCONNECTED")', i < j
          PROVE  ~Attached'
        <3>1. j + d \in 1..Len(queue) /\ Queued(j + d, "DISCONNECTED") /\ i + d < j + d
            BY <1>1, <2>4
        <3> QED BY <2>1, <3>1 DEF Told
    <2> QED BY <2>2, <2>3, <2>4
<1>3. ASSUME NEW i \in 1..Len(queue'), Queued(i, "DISCONNECTED")', s'.connected
      PROVE  ~Attached'
    <2>1. i + d \in 1..Len(queue) /\ Queued(i + d, "DISCONNECTED")
        BY <1>1, <1>3
    <2> QED BY <1>3, <2>1 DEF Told
<1> QED BY <1>2, <1>3 DEF Told

\* a step of the worker outside a stop that touches neither the stack nor the
\* radio; the link may be found gone
SteadyWorker ==
    /\ s'.generation = s.generation /\ s'.layers = s.layers
    /\ s'.advertising = s.advertising
    /\ s'.connected => s.connected
    /\ Attached => s'.connected \/ s'.advertising
    /\ "hid" \in s'.ready => "hid" \in s.ready \/ "hid" \in s.layers
SteadyAir ==
    /\ ctl'.adv = ctl.adv /\ ctl'.ops \cap AdvOps = ctl.ops \cap AdvOps
    /\ Op("hid") \in ctl'.ops => Op("hid") \in ctl.ops

LEMMA UnwoundKeeps ==
    ASSUME TypeOK, LinkInv, Shrinks, SameLink, SteadyAir, SteadyWorker,
           callbackGen' \in {callbackGen, s.generation}, ~Winding, ~Winding',
           work'.pc = "resume" => work'.k = "auth_retry", Wound'
    PROVE  LinkInv'
<1>1. Viewed'
    BY DEF LinkInv, Viewed, SameLink
<1>2. OnAir' = OnAir /\ Attached' = Attached /\ Joining' = Joining
    BY DEF SteadyAir, SameLink, OnAir, Attached, Joining
<1>3. HostOn(s') = HostOn(s) /\ Running' = Running /\ ~Silenced /\ ~Silenced'
    BY DEF Running, Silenced, SteadyWorker, HostOn
<1>4. Stamped'
    <2>1. \A i \in 1..Len(queue') : queue'[i].generation <= s'.generation
        BY StampedShrinks DEF LinkInv, SteadyWorker
    <2> QED BY <1>3, <2>1 DEF LinkInv, Stamped, SteadyWorker
<1>5. Served'
    <2>1. OnAir' \/ Attached' => {"hid", "host_on"} \subseteq s'.layers
        BY <1>2 DEF LinkInv, Served, SteadyWorker
    <2>2. "hid" \notin s'.layers => Op("hid") \notin ctl'.ops
        BY DEF LinkInv, Served, SteadyWorker, SteadyAir
    <2>3. ASSUME Running', "hid" \notin s'.layers
          PROVE  "hid" \notin s'.ready /\ \A i \in 1..Len(queue') : ~NeedsHid(i)'
        <3>1. "hid" \notin s.layers /\ Running
            BY <1>3, <2>3 DEF SteadyWorker
        <3>2. "hid" \notin s.ready /\ \A i \in 1..Len(queue) : ~NeedsHid(i)
            BY <3>1 DEF LinkInv, Served
        <3>3. PICK d \in {0, 1} :
                 /\ \A i \in 1..Len(queue') : i + d \in 1..Len(queue) /\ queue'[i] = queue[i + d]
                 /\ \A i, type : Queued(i, type)' => i \in 1..Len(queue') /\ Queued(i + d, type)
            BY ShrinksQueued DEF SteadyWorker
        <3> QED BY <3>1, <3>2, <3>3 DEF SteadyWorker, NeedsHid
    <2> QED BY <2>1, <2>2, <2>3 DEF Served
<1>6. Aired'
    <2>1. \A a \in {"adv_any", "adv_listed"} : Op(a) \in ctl'.ops <=> Op(a) \in ctl.ops
        BY DEF SteadyAir, AdvOps
    <2> QED BY <1>2, <1>3, <2>1 DEF LinkInv, Aired, SteadyAir, SteadyWorker
<1>7. Told'
    BY <1>2, <1>3, ToldShrinks DEF LinkInv, SteadyWorker
<1> QED BY <1>1, <1>4, <1>5, <1>6, <1>7 DEF LinkInv

\* the same between two handlers, or within one
LEMMA CalmKeeps ==
    ASSUME TypeOK, LinkInv, Shrinks, SameLink, SameAir, SameWorker, callbackGen' \in {callbackGen, s.generation},
           work.pc \in Calm \cup {"resume"}, work'.pc \in Calm, work'.k = work.k
    PROVE  LinkInv'
<1>1. ~Winding /\ ~Winding' /\ work'.pc # "resume" /\ ~Silenced
    BY DEF Winding, Silenced, Calm, Posts
<1>2. SteadyWorker
    BY <1>1 DEF SteadyWorker, SameWorker, LinkInv, Aired
<1>3. SteadyAir
    BY SameAirFacts DEF SteadyAir, SameAir
<1>4. Wound'
    BY <1>1 DEF Wound, Silenced, Winding, Calm, Posts
<1> QED BY <1>1, <1>2, <1>3, <1>4, UnwoundKeeps

-----------------------------------------------------------------------------
(* A stop begins, a start begins                                             *)

LEMMA StopBegins ==
    ASSUME TypeOK, LinkInv, Shrinks, SameLink, SameAir, work.pc \in Calm \cup {"resume"},
           NEW s1 \in WorkerType, s1.generation = s.generation, s1.layers = s.layers,
           s1.advertising = s.advertising, s1.connected => s.connected,
           Attached => s1.connected \/ s1.advertising,
           NEW shown, NEW k, k # "auth_retry", NEW post, NEW m, BeginStop(s1, shown, k, post, m)
    PROVE  LinkInv'
<1>1. /\ s'.generation = s.generation /\ s'.layers = s.layers
      /\ s'.advertising = s.advertising /\ s'.connected = s1.connected
      /\ callbackGen' = 0 /\ work'.pc = "stop_adv" /\ work'.k = k
    <2>1. s' = [s1 EXCEPT !.deadlines = {}, !.due = {}, !.awaiting_save = FALSE, !.forgetting = FALSE]
        BY DEF BeginStop, StoppedFlags
    <2>2. s'.generation = s1.generation /\ s'.layers = s1.layers
          /\ s'.advertising = s1.advertising /\ s'.connected = s1.connected
        BY <2>1 DEF WorkerType
    <2> QED BY <2>2 DEF BeginStop
<1>2. HostOn(s') = HostOn(s) /\ Winding' /\ ~Silenced' /\ ~Silenced /\ ~Running'
    BY <1>1 DEF HostOn, Winding, Silenced, Running, Calm, Posts
<1>3. Viewed'
    BY DEF LinkInv, Viewed, SameLink
<1>4. Stamped'
    <2>1. \A i \in 1..Len(queue') : queue'[i].generation <= s'.generation
        BY <1>1, StampedShrinks DEF LinkInv
    <2> QED BY <1>1, <1>2, <2>1 DEF Stamped
<1>5. Served'
    <2>1. OnAir' \/ Attached' => {"hid", "host_on"} \subseteq s'.layers
        BY <1>1, SameAirFacts DEF LinkInv, Served
    <2>2. "hid" \notin s'.layers => Op("hid") \notin ctl'.ops
        BY <1>1, SameAirFacts DEF LinkInv, Served
    <2> QED BY <1>2, <2>1, <2>2 DEF Served
<1>6. Aired'
    BY <1>1, <1>2, SameAirFacts DEF LinkInv, Aired, SameAir
<1>7. Wound'
    BY <1>1, <1>2 DEF Wound
<1>8. Told'
    BY <1>2 DEF Told
<1> QED BY <1>3, <1>4, <1>5, <1>6, <1>7, <1>8 DEF LinkInv

\* the generation is a new one: nothing queued belongs to it
LEMMA StackBegins ==
    ASSUME TypeOK, LinkInv, HostDownIsSilent, ~HostOn(s), "hid" \notin s.layers, queue' = queue, SameLink,
           s'.generation = s.generation + 1, s'.advertising = s.advertising,
           s'.connected = s.connected, s'.ready = s.ready,
           ctl'.adv = ctl.adv, ctl'.ops \cap AdvOps = ctl.ops \cap AdvOps,
           Op("hid") \in ctl'.ops => Op("hid") \in ctl.ops \/ "hid" \in s'.layers,
           \/ callbackGen' = s'.generation /\ work'.pc \in Calm
           \/ callbackGen' = 0 /\ work'.pc = "stop_adv" /\ work'.k # "auth_retry"
    PROVE  LinkInv'
<1>1. ~OnAir /\ ~Attached /\ s.ready = {} /\ ~s.advertising /\ ~s.connected
    BY DEF HostDownIsSilent, OnAir, LinkInv, Served, Aired, HostOn
<1>2. OnAir' = OnAir /\ Attached' = Attached /\ Joining' = Joining
    BY DEF OnAir, Attached, Joining, SameLink
<1>3. Op("hid") \notin ctl.ops
    BY DEF LinkInv, Served
<1>4. s.generation \in Nat
    BY DEF TypeOK, WorkerType
<1>5. ~Silenced' /\ work'.pc \notin {"adv_wait", "resume", "link_wait", "teardown", "host_off"}
    BY DEF Silenced, Winding, Calm, Posts
<1>6. \A i \in 1..Len(queue') : queue'[i].generation \in Nat /\ queue'[i].generation < s'.generation
    BY <1>4, QueueFacts DEF LinkInv, Stamped
<1>7. \A i, type : ~Queued(i, type)'
    <2>1. s'.generation \in Nat
        BY <1>4
    <2> QED BY <1>6, <2>1 DEF Queued
<1>8. Viewed'
    BY DEF LinkInv, Viewed, SameLink
<1>9. Running' => callbackGen' = s'.generation
    BY DEF Running, Winding
<1>10. Stamped'
    <2>1. callbackGen' \in {0, s'.generation}
        OBVIOUS
    <2>2. \A i \in 1..Len(queue') : queue'[i].generation <= s'.generation
        BY <1>4, <1>6
    <2> QED BY <1>5, <1>9, <2>1, <2>2 DEF Stamped
<1>11. Served'
    BY <1>1, <1>2, <1>3, <1>7 DEF Served, NeedsHid
<1>12. ctl'.ops \cap AdvOps = {} /\ ctl'.adv = "off"
    BY <1>1 DEF OnAir
<1>13. Op("adv_any") \notin ctl'.ops
    BY <1>12 DEF AdvOps
<1>14. Aired'
    <2>1. ~Joining
        BY <1>1 DEF Attached, Joining
    <2> QED BY <1>1, <1>2, <1>12, <1>13, <2>1 DEF Aired
<1>15. Wound'
    <2>1. work'.k = "auth_retry" => work'.pc # "stop_adv"
        BY DEF Calm, Posts
    <2>2. ~(Winding' /\ work'.pc \in {"teardown", "host_off"})
        BY <1>5
    <2> QED BY <1>5, <2>1, <2>2 DEF Wound
<1>16. Told'
    BY <1>7 DEF Told
<1> QED BY <1>8, <1>10, <1>11, <1>14, <1>15, <1>16 DEF LinkInv

\* a stop that starts from a stack of which only the lower layers came up
LEMMA StartStackFailsLinked ==
    ASSUME TypeOK, StoppedInv, LinkInv, work.pc = "resume", NEW s1 \in WorkerType,
           s1.generation = s.generation, s1.layers = s.layers, s1.ready = s.ready,
           s1.advertising = s.advertising, s1.connected = s.connected,
           queue' = queue, SameLink, NEW post, NEW m, StartStackFails(s1, post, m), ~HostOn(s)
    PROVE  LinkInv'
<1>1. "fail" # "auth_retry" /\ Shrinks
    BY SameShrinks
<1>2. CASE BeginStop(s1, snapshot, "fail", post, m) /\ UNCHANGED <<ctl, budget>>
    <2>1. ~Attached
        BY DEF LinkInv, Served, HostOn
    <2> QED BY <1>1, <1>2, <2>1, StopBegins DEF SameAir
<1>3. ASSUME CanStart(s1), UNCHANGED ctl, NEW left \in PartialStacks,
             BeginStop([StackUp(s1) EXCEPT !.layers = left \cup (s1.layers \cap {"controller_init"})],
                       [session |-> s1.session, state |-> "STARTING"], "fail", post, m)
      PROVE  LinkInv'
    <2> DEFINE up   == StackUp(s1)
               part == [up EXCEPT !.layers = left \cup (s1.layers \cap {"controller_init"})]
    <2>1. up \in WorkerType /\ up.generation = s.generation + 1 /\ up.advertising = s.advertising
          /\ up.connected = s.connected /\ up.ready = s.ready
        BY StackUpType DEF StackUp, WorkerType
    <2>2. BeginStop(part, [session |-> s1.session, state |-> "STARTING"], "fail", post, m)
        BY <1>3
    <2> HIDE DEF up
    <2>3. part.generation = s.generation + 1 /\ part.advertising = s.advertising
          /\ part.connected = s.connected /\ part.ready = s.ready
        BY <2>1 DEF WorkerType
    <2>4. DOMAIN part = DOMAIN up
        OBVIOUS
    <2>5. s' = [part EXCEPT !.deadlines = {}, !.due = {}, !.awaiting_save = FALSE, !.forgetting = FALSE]
        BY <2>2 DEF BeginStop, StoppedFlags
    <2> HIDE DEF part
    <2>6. s'.generation = s.generation + 1 /\ s'.advertising = s.advertising
          /\ s'.connected = s.connected /\ s'.ready = s.ready
        BY <2>1, <2>3, <2>4, <2>5 DEF WorkerType
    <2>7. "hid" \notin s.layers
        BY <1>3 DEF CanStart
    <2>8. callbackGen' = 0 /\ work'.pc = "stop_adv" /\ work'.k = "fail"
        BY <2>2 DEF BeginStop
    <2> QED BY <1>3, <2>6, <2>7, <2>8, StackBegins DEF StoppedInv
<1> QED BY <1>2, <1>3 DEF StartStackFails

LEMMA StartRuntimeLinked ==
    ASSUME TypeOK, StoppedInv, LinkInv, work.pc = "resume", NEW s1 \in WorkerType,
           s1.generation = s.generation, s1.layers = s.layers, s1.ready = s.ready,
           s1.advertising = s.advertising, s1.connected = s.connected,
           queue' = queue, SameLink, NEW post \in Posts, NEW m, StartRuntime(s1, post, m), ~HostOn(s)
    PROVE  LinkInv'
<1> DEFINE up == StackUp(s1)
<1>1. up \in WorkerType /\ up.generation = s.generation + 1 /\ up.advertising = s.advertising
      /\ up.connected = s.connected /\ up.ready = s.ready
    BY StackUpType DEF StackUp, WorkerType
<1>2. CASE StartStackFails(s1, post, m)
    BY <1>2, StartStackFailsLinked
<1>3. CASE CanStart(s1) /\ BeginStop(up, snapshot, "fail", post, m) /\ UNCHANGED ctl
    <2>1. "hid" \notin s.layers
        BY <1>3 DEF CanStart
    <2>2. s' = [up EXCEPT !.deadlines = {}, !.due = {}, !.awaiting_save = FALSE, !.forgetting = FALSE]
        BY <1>3 DEF BeginStop, StoppedFlags
    <2>3. callbackGen' = 0 /\ work'.pc = "stop_adv" /\ work'.k = "fail"
        BY <1>3 DEF BeginStop
    <2> HIDE DEF up
    <2>4. s'.generation = s.generation + 1 /\ s'.advertising = s.advertising
          /\ s'.connected = s.connected /\ s'.ready = s.ready
        BY <1>1, <2>2 DEF WorkerType
    <2> QED BY <1>3, <2>1, <2>3, <2>4, StackBegins DEF StoppedInv
<1>4. CASE /\ CanStart(s1)
           /\ s' = [up EXCEPT !.layers = Layers,
                              !.pairing = s1.profile.peer = NoPeer,
                              !.saved = s1.profile.peer # NoPeer,
                              !.awaiting_save = FALSE, !.forgetting = FALSE, !.suspended = FALSE,
                              !.phase = "resetting"]
           /\ callbackGen' = s1.generation + 1
           /\ ctl' = [ctl EXCEPT !.ops = @ \cup {Op(g) : g \in Gates} \cup {Op("privacy_off")}]
           /\ work' = [work EXCEPT !.pc = post, !.msg = m]
    <2>1. "hid" \notin s.layers
        BY <1>4 DEF CanStart
    <2>2. work'.pc = post
        BY <1>4 DEF TypeOK, WorkType
    <2>3. ctl'.adv = ctl.adv /\ ctl'.ops = ctl.ops \cup {Op(g) : g \in Gates} \cup {Op("privacy_off")}
        BY <1>4 DEF TypeOK, CtlType
    <2>4. \A g \in Gates : g \notin {"adv_any", "adv_listed"}
        BY ConstantsAssumption DEF ReadyFlags
    <2>5. ctl'.ops \cap AdvOps = ctl.ops \cap AdvOps
        BY <2>3, <2>4, OpFacts
    <2> HIDE DEF up
    <2>6. s'.generation = s.generation + 1 /\ s'.advertising = s.advertising
          /\ s'.connected = s.connected /\ s'.ready = s.ready /\ s'.layers = Layers
        BY <1>1, <1>4 DEF WorkerType
    <2>7. "hid" \in s'.layers
        BY <2>6 DEF Layers
    <2> QED BY <1>4, <2>1, <2>2, <2>3, <2>5, <2>6, <2>7, StackBegins DEF StoppedInv, Calm
<1> QED BY <1>2, <1>3, <1>4 DEF StartRuntime

LEMMA RestartLinked ==
    ASSUME TypeOK, StoppedInv, LinkInv, work.pc = "resume", NEW s1 \in WorkerType,
           s1.generation = s.generation, s1.layers = s.layers, s1.ready = s.ready,
           s1.advertising = s.advertising, s1.connected = s.connected,
           queue' = queue, SameLink, RestartWith(s1), ~HostOn(s)
    PROVE  LinkInv'
<1>1. work.post \in Posts
    BY DEF TypeOK, WorkType
<1>2. CASE StartRuntime(s1, work.post, work.msg)
    BY <1>1, <1>2, StartRuntimeLinked
<1>3. CASE BeginStop(s1, snapshot, "fail", work.post, work.msg) /\ UNCHANGED <<ctl, ccc, budget>>
    <2>1. Shrinks /\ ~Attached /\ "fail" # "auth_retry"
        BY SameShrinks DEF LinkInv, Served, HostOn
    <2> QED BY <1>3, <2>1, StopBegins DEF SameAir
<1> QED BY <1>2, <1>3 DEF RestartWith

LEMMA ForgetBondsFacts ==
    ASSUME TypeOK, NEW s1 \in WorkerType, ForgetBonds(s1)
    PROVE  \/ /\ s'.generation = s1.generation /\ s'.layers = s1.layers /\ s'.ready = s1.ready
              /\ s'.advertising = s1.advertising /\ s'.connected = s1.connected
              /\ callbackGen' = s1.generation /\ work'.pc = work.post /\ work'.k = work.k
           \/ BeginStop(s1, snapshot, "fail", "idle", work.msg)
<1>1. CASE /\ s' = AwaitingSave([Clear(s1, {"start"}) EXCEPT !.forgetting = TRUE, !.pair_after = work.msg.flag])
           /\ callbackGen' = s1.generation
           /\ Goto(work.post)
    <2> DEFINE cleared == Clear(s1, {"start"})
               asked == [cleared EXCEPT !.forgetting = TRUE, !.pair_after = work.msg.flag]
               armed == Arm(asked, "save")
    <2>1. /\ cleared.generation = s1.generation /\ cleared.layers = s1.layers /\ cleared.ready = s1.ready
          /\ cleared.advertising = s1.advertising /\ cleared.connected = s1.connected
          /\ cleared \in WorkerType
        BY ClearType DEF Clear, WorkerType
    <2>2. work.msg.flag \in BOOLEAN
        BY DEF TypeOK, WorkType, Messages
    <2> HIDE DEF cleared
    <2>3. /\ asked.generation = s1.generation /\ asked.layers = s1.layers /\ asked.ready = s1.ready
          /\ asked.advertising = s1.advertising /\ asked.connected = s1.connected
          /\ asked \in WorkerType
        BY <2>1, <2>2 DEF WorkerType
    <2>4. s' = [armed EXCEPT !.awaiting_save = TRUE]
        BY <1>1 DEF AwaitingSave, cleared
    <2> HIDE DEF asked
    <2>5. /\ armed.generation = s1.generation /\ armed.layers = s1.layers /\ armed.ready = s1.ready
          /\ armed.advertising = s1.advertising /\ armed.connected = s1.connected
          /\ armed \in WorkerType
        <3>1. "save" \in Deadlines /\ asked \in WorkerType
            BY <2>3 DEF Deadlines
        <3>2. /\ armed.generation = asked.generation /\ armed.layers = asked.layers /\ armed.ready = asked.ready
              /\ armed.advertising = asked.advertising /\ armed.connected = asked.connected
            BY <3>1, ArmSets
        <3>3. armed \in WorkerType
            BY <3>1, ArmType
        <3> QED BY <2>3, <3>2, <3>3
    <2> HIDE DEF armed
    <2>6. /\ s'.generation = s1.generation /\ s'.layers = s1.layers /\ s'.ready = s1.ready
          /\ s'.advertising = s1.advertising /\ s'.connected = s1.connected
        BY <2>4, <2>5 DEF WorkerType
    <2>7. work'.pc = work.post /\ work'.k = work.k
        BY <1>1 DEF Goto, TypeOK, WorkType
    <2> QED BY <1>1, <2>6, <2>7
<1> QED BY <1>1 DEF ForgetBonds

-----------------------------------------------------------------------------
(* What follows a stop                                                       *)

LEMMA FinishStepsLinked ==
    ASSUME TypeOK, StoppedInv, LinkInv, FinishSteps
    PROVE  LinkInv'
<1>1. s \in WorkerType /\ work \in WorkType /\ work.post \in Posts /\ Posts \subseteq Calm
    BY DEF TypeOK, WorkType, Calm
<1>2. queue' = queue /\ SameLink /\ Shrinks
    BY SameShrinks DEF FinishSteps, FinishFail, FinishTimeout, FinishClose, FinishUnpair, FinishAuthRetry,
       FinishOpen, FinishRestart, FinishRelease, FinishForget, RemoveBondWait, Outside, SameLink
<1>3. ASSUME Goto(work.post), UNCHANGED <<callbackGen, ctl>>, SameWorker, work.pc = "resume"
      PROVE  LinkInv'
    <2>1. work'.pc = work.post /\ work'.k = work.k
        BY <1>1, <1>3 DEF Goto, WorkType
    <2> QED BY <1>1, <1>2, <1>3, <2>1, CalmKeeps DEF SameAir
<1>4. CASE FinishFail \/ FinishTimeout \/ FinishUnpair \/ FinishAuthRetry
    BY <1>3, <1>4 DEF FinishFail, FinishTimeout, FinishUnpair, FinishAuthRetry, Resume, SameWorker
<1>5. CASE FinishClose
    <2>1. SameWorker
        BY <1>1, <1>5 DEF FinishClose, SameWorker, WorkerType
    <2> QED BY <1>3, <1>5, <2>1 DEF FinishClose, Resume
<1>6. ASSUME work.pc = "resume", work.k # "auth_retry"
      PROVE  ~HostOn(s) /\ ~Attached
    BY <1>6 DEF LinkInv, Stamped, Served, HostOn
<1>7. CASE FinishOpen
    <2> DEFINE s1 == [s EXCEPT !.session = work.msg.session, !.profile = work.msg.remote]
    <2>1. work.msg.session \in Nat /\ work.msg.remote \in Remotes
        BY <1>1 DEF WorkType, Messages
    <2>2. s1 \in WorkerType /\ s1.generation = s.generation /\ s1.layers = s.layers /\ s1.ready = s.ready
          /\ s1.advertising = s.advertising /\ s1.connected = s.connected
        BY <1>1, <2>1 DEF WorkerType
    <2>3. RestartWith(s1) /\ work.pc = "resume" /\ work.k # "auth_retry"
        BY <1>7 DEF FinishOpen, Resume
    <2> HIDE DEF s1
    <2> QED BY <1>2, <1>6, <2>2, <2>3, RestartLinked
<1>8. CASE FinishRestart
    BY <1>1, <1>2, <1>6, <1>8, RestartLinked DEF FinishRestart, Resume
<1>9. CASE FinishRelease
    <2>1. CASE Goto(work.post) /\ UNCHANGED <<callbackGen, snapshot, s, ctl, ccc, budget>>
        BY <1>3, <1>9, <2>1 DEF FinishRelease, Resume, SameWorker
    <2>2. CASE RestartWith(s)
        BY <1>1, <1>2, <1>6, <1>9, <2>2, RestartLinked DEF FinishRelease, Resume
    <2> QED BY <1>9, <2>1, <2>2 DEF FinishRelease
<1>10. CASE FinishForget
    <2>1. work.pc = "resume" /\ work.k = "forget" /\ ~HostOn(s) /\ ~Attached
        BY <1>6, <1>10 DEF FinishForget, Resume
    <2> DEFINE up == StackUp(s)
    <2>2. up \in WorkerType /\ up.generation = s.generation + 1 /\ up.advertising = s.advertising
          /\ up.connected = s.connected /\ up.ready = s.ready
        BY <1>1, StackUpType DEF StackUp, WorkerType
    <2>3. CASE BeginStop(s, snapshot, "fail", work.post, work.msg) /\ UNCHANGED ctl
        BY <1>1, <1>2, <2>1, <2>3, StopBegins DEF SameAir
    <2>4. CASE StartStackFails(s, work.post, work.msg)
        BY <1>1, <1>2, <2>1, <2>4, StartStackFailsLinked
    <2>5. CASE CanStart(s) /\ ForgetBonds(up) /\ UNCHANGED ctl
        <3>1. "hid" \notin s.layers
            BY <2>5 DEF CanStart
        <3> HIDE DEF up
        <3>2. CASE /\ s'.generation = up.generation /\ s'.layers = up.layers /\ s'.ready = up.ready
                   /\ s'.advertising = up.advertising /\ s'.connected = up.connected
                   /\ callbackGen' = up.generation /\ work'.pc = work.post /\ work'.k = work.k
            BY <1>1, <1>2, <2>1, <2>2, <2>5, <3>1, <3>2, StackBegins DEF StoppedInv
        <3>3. CASE BeginStop(up, snapshot, "fail", "idle", work.msg)
            <4>1. s' = [up EXCEPT !.deadlines = {}, !.due = {}, !.awaiting_save = FALSE, !.forgetting = FALSE]
                BY <3>3 DEF BeginStop, StoppedFlags
            <4>2. s'.generation = s.generation + 1 /\ s'.advertising = s.advertising
                  /\ s'.connected = s.connected /\ s'.ready = s.ready
                BY <2>2, <4>1 DEF WorkerType
            <4>3. callbackGen' = 0 /\ work'.pc = "stop_adv" /\ work'.k = "fail"
                BY <3>3 DEF BeginStop
            <4> QED BY <1>2, <2>1, <2>5, <3>1, <4>2, <4>3, StackBegins DEF StoppedInv
        <3> QED BY <2>2, <2>5, <3>2, <3>3, ForgetBondsFacts
    <2>6. CASE /\ CanStart(s) /\ s' = up /\ callbackGen' = s.generation + 1
               /\ ctl' = [ctl EXCEPT !.ops = @ \cup {<<"remove_bond", s.profile.peer>>}, !.bondRemoved = "no"]
               /\ Goto("bond_wait")
        <3>1. "hid" \notin s.layers
            BY <2>6 DEF CanStart
        <3>2. ctl'.adv = ctl.adv /\ ctl'.ops = ctl.ops \cup {<<"remove_bond", s.profile.peer>>}
            BY <2>6 DEF TypeOK, CtlType
        <3>3. ctl'.ops \cap AdvOps = ctl.ops \cap AdvOps /\ (Op("hid") \in ctl'.ops => Op("hid") \in ctl.ops)
            BY <3>2 DEF AdvOps, Op
        <3>4. work'.pc = "bond_wait"
            BY <1>1, <2>6 DEF Goto, WorkType
        <3> HIDE DEF up
        <3> QED BY <1>2, <2>1, <2>2, <2>6, <3>1, <3>2, <3>3, <3>4, StackBegins DEF StoppedInv, Calm
    <2> QED BY <1>10, <2>3, <2>4, <2>5, <2>6 DEF FinishForget
<1>11. CASE RemoveBondWait
    <2>1. ctl'.adv = ctl.adv /\ ctl'.ops = ctl.ops /\ ctl'.advStopped = ctl.advStopped
        BY <1>11 DEF RemoveBondWait, TypeOK, CtlType
    <2>2. SameAir /\ work.pc = "bond_wait" /\ work.pc \in Calm
        BY <1>11, <2>1 DEF SameAir, RemoveBondWait, Calm
    <2>3. ~Silenced
        BY <2>2 DEF Silenced, Winding
    <2>4. Attached => s.connected \/ s.advertising
        BY <2>3 DEF LinkInv, Aired
    <2>5. ASSUME NEW post, BeginStop(s, snapshot, "fail", post, work.msg)
          PROVE  LinkInv'
        BY <1>1, <1>2, <2>2, <2>4, <2>5, StopBegins
    <2>6. CASE ForgetBonds(s)
        <3>1. CASE /\ s'.generation = s.generation /\ s'.layers = s.layers /\ s'.ready = s.ready
                   /\ s'.advertising = s.advertising /\ s'.connected = s.connected
                   /\ callbackGen' = s.generation /\ work'.pc = work.post /\ work'.k = work.k
            BY <1>1, <1>2, <2>2, <3>1, CalmKeeps DEF SameWorker
        <3> QED BY <1>1, <2>5, <2>6, <3>1, ForgetBondsFacts
    <2> QED BY <1>11, <2>5, <2>6 DEF RemoveBondWait
<1> QED BY <1>4, <1>5, <1>7, <1>8, <1>9, <1>10, <1>11 DEF FinishSteps

-----------------------------------------------------------------------------
(* The steps of a stop                                                       *)

LEMMA ViewFacts ==
    ASSUME Viewed
    PROVE  /\ link.up => Attached /\ link.phase \notin {"connect", "connect_cleared"}
           /\ link.live /\ link.phase \notin {"connect", "connect_cleared"} => link.up
           /\ link.phase = "disconnect" => ~link.live
           /\ ~link.down => Attached
           /\ link.down /\ link.phase # "connect" => ~Attached
           /\ link.phase \in {"idle", "disconnect_down"} /\ ~link.live => link.down
           /\ Attached /\ ~link.live => link.phase \in {"disconnect", "disconnect_marked"}
           /\ Joining => Attached /\ link.live
<1>1. \A a, b, c, d, e, f, g, h : <<a, b, c, d>> = <<e, f, g, h>> => a = e /\ b = f /\ c = g /\ d = h
    OBVIOUS
<1>2. \/ link.phase = "idle" /\ link.live = FALSE /\ link.up = FALSE /\ link.down = TRUE
      \/ link.phase = "idle" /\ link.live = TRUE /\ link.up = TRUE /\ link.down = FALSE
      \/ link.phase = "connect" /\ link.live = TRUE /\ link.up = FALSE /\ link.down = TRUE
      \/ link.phase = "connect_cleared" /\ link.live = TRUE /\ link.up = FALSE /\ link.down = FALSE
      \/ link.phase = "connect_up" /\ link.live = TRUE /\ link.up = TRUE /\ link.down = FALSE
      \/ link.phase = "disconnect" /\ link.live = FALSE /\ link.up = TRUE /\ link.down = FALSE
      \/ link.phase = "disconnect_marked" /\ link.live = FALSE /\ link.up = FALSE /\ link.down = FALSE
      \/ link.phase = "disconnect_down" /\ link.live = FALSE /\ link.up = FALSE /\ link.down = TRUE
    BY <1>1 DEF Viewed, Views
<1> QED BY <1>2 DEF Attached, Joining

LEMMA NoFault ==
    ASSUME CleanStops, NEW kind \in {"adv_stop", "link_down", "teardown"}
    PROVE  ~Fault(kind)
BY DEF CleanStops, Fault

\* a step from one wait to the next
WindsOn ==
    /\ Winding' /\ queue' = queue /\ SameLink /\ callbackGen' = callbackGen
    /\ s'.generation = s.generation /\ s'.layers = s.layers
    /\ s'.advertising => s.advertising
    /\ s'.connected => s.connected
    /\ ctl'.adv = ctl.adv /\ ctl'.ops \cap AdvOps = ctl.ops \cap AdvOps
    /\ Op("hid") \in ctl'.ops => Op("hid") \in ctl.ops

LEMMA WindsOnKeeps ==
    ASSUME TypeOK, LinkInv, WindsOn, Wound',
           Silenced' \/ (~Silenced /\ s'.advertising = s.advertising /\ s'.connected = s.connected)
    PROVE  LinkInv'
<1>1. OnAir' = OnAir /\ Attached' = Attached /\ Joining' = Joining
    BY DEF WindsOn, SameLink, OnAir, Attached, Joining
<1>2. ~Running' /\ HostOn(s') = HostOn(s) /\ work'.pc # "resume"
    BY DEF WindsOn, Running, Winding, HostOn
<1>3. Viewed'
    BY DEF LinkInv, Viewed, WindsOn, SameLink
<1>4. Stamped'
    <2>1. \A i \in 1..Len(queue') : queue'[i].generation <= s'.generation
        BY SameShrinks, StampedShrinks DEF WindsOn, LinkInv
    <2> QED BY <1>2, <2>1 DEF LinkInv, Stamped, WindsOn
<1>5. Served'
    BY <1>1, <1>2 DEF LinkInv, Served, WindsOn
<1>6. Aired'
    <2>1. \A a \in {"adv_any", "adv_listed"} : Op(a) \in ctl'.ops <=> Op(a) \in ctl.ops
        BY DEF WindsOn, AdvOps
    <2>2. ctl'.adv = "off" \/ ctl'.ops \cap AdvOps = {}
        BY DEF WindsOn, LinkInv, Aired
    <2>3. ~HostOn(s') => ~s'.advertising /\ ~s'.connected
        BY <1>2 DEF WindsOn, LinkInv, Aired
    <2> QED BY <1>1, <2>1, <2>2, <2>3 DEF LinkInv, Aired, WindsOn
<1>7. Told'
    BY <1>2 DEF Told
<1> QED BY <1>3, <1>4, <1>5, <1>6, <1>7 DEF LinkInv

LEMMA AdvertisingStops ==
    ASSUME TypeOK, LinkInv, CleanStops,
           StopAdvertisingSkip \/ StopAdvertisingRequest \/ StopAdvertisingWait
    PROVE  LinkInv'
<1>1. s \in WorkerType /\ work \in WorkType /\ ctl \in CtlType
    BY DEF TypeOK
<1>2. Winding /\ ~Silenced /\ queue' = queue /\ SameLink /\ callbackGen' = callbackGen
      /\ work.pc \in {"stop_adv", "adv_wait"} /\ work.k # "auth_retry"
    BY DEF LinkInv, Wound, Winding, Silenced, StopAdvertisingSkip, StopAdvertisingRequest,
           StopAdvertisingWait, Outside, SameLink
<1>3. /\ Attached => s.connected \/ s.advertising
      /\ OnAir => s.advertising /\ ~s.connected /\ ~Attached
      /\ Joining => s.advertising /\ ~s.connected
    BY <1>2 DEF LinkInv, Aired
<1>5. CASE StopAdvertisingSkip
    <2>1. /\ s'.advertising = FALSE /\ s'.connected = s.connected /\ s'.generation = s.generation
          /\ s'.layers = s.layers /\ work'.pc = "disconnect" /\ work'.k = work.k /\ ctl' = ctl
        BY <1>1, <1>5 DEF StopAdvertisingSkip, Goto, WorkerType, WorkType
    <2>2. WindsOn /\ Silenced'
        BY <1>2, <2>1 DEF WindsOn, Winding, Silenced
    <2>3. ~OnAir /\ link.phase \notin {"connect", "connect_cleared"}
        <3>1. CASE ~s.advertising
            BY <1>3, <3>1 DEF Joining
        <3>2. CASE link.up
            BY <1>3, <3>2, ViewFacts DEF LinkInv
        <3> QED BY <1>5, <3>1, <3>2 DEF StopAdvertisingSkip
    <2>4. Wound'
        BY <1>2, <2>1, <2>3 DEF Wound, OnAir, SameLink, Winding, Silenced
    <2> QED BY <2>2, <2>4, WindsOnKeeps
<1>6. CASE StopAdvertisingRequest
    <2>1. /\ s' = s /\ work'.pc = "adv_wait" /\ work'.k = work.k
          /\ ctl'.adv = ctl.adv /\ ctl'.ops = ctl.ops \cup {Op("adv_stop")} /\ ~ctl'.advStopped
        BY <1>1, <1>6 DEF StopAdvertisingRequest, Goto, WorkType, CtlType
    <2>2. ctl'.ops \cap AdvOps = ctl.ops \cap AdvOps /\ (Op("hid") \in ctl'.ops => Op("hid") \in ctl.ops)
        BY <2>1, OpFacts
    <2>3. WindsOn /\ ~Silenced'
        BY <1>2, <2>1, <2>2 DEF WindsOn, Winding, Silenced
    <2>4. Wound'
        BY <1>2, <2>1, <2>3 DEF Wound, Winding, Silenced
    <2> QED BY <1>2, <2>1, <2>3, <2>4, WindsOnKeeps
<1>7. CASE StopAdvertisingWait
    <2>1. ctl.advStopped
        BY <1>7, NoFault DEF StopAdvertisingWait
    <2>2. /\ s'.advertising = FALSE /\ s'.connected = s.connected /\ s'.generation = s.generation
          /\ s'.layers = s.layers /\ work'.pc = "disconnect" /\ work'.k = work.k
          /\ ctl'.adv = ctl.adv /\ ctl'.ops = ctl.ops
        BY <1>1, <1>7 DEF StopAdvertisingWait, WorkerType, WorkType, CtlType
    <2>3. WindsOn /\ Silenced'
        BY <1>2, <2>2 DEF WindsOn, Winding, Silenced
    <2>4. ~OnAir /\ link.phase \notin {"connect", "connect_cleared"}
        BY <1>7, <2>1 DEF StopAdvertisingWait, LinkInv, Wound
    <2>5. Wound'
        BY <1>2, <2>2, <2>4 DEF Wound, OnAir, SameLink, Winding, Silenced
    <2> QED BY <2>3, <2>5, WindsOnKeeps
<1> QED BY <1>5, <1>6, <1>7

LEMMA DisconnectLinkLinked ==
    ASSUME TypeOK, LinkInv, DisconnectLink
    PROVE  LinkInv'
<1>1. s \in WorkerType /\ work \in WorkType /\ ctl \in CtlType
    BY DEF TypeOK
<1>2. /\ s' = s /\ queue' = queue /\ callbackGen' = callbackGen /\ SameLink
      /\ work.pc = "disconnect" /\ work'.pc = "link_wait" /\ work'.k = work.k
      /\ ctl'.adv = ctl.adv
      /\ ctl'.ops = IF link.up /\ link.live THEN ctl.ops \cup {Op("disconnect")} ELSE ctl.ops
    BY <1>1 DEF DisconnectLink, Goto, WorkType, CtlType, Outside, SameLink
<1>3. ctl'.ops \cap AdvOps = ctl.ops \cap AdvOps /\ (Op("hid") \in ctl'.ops => Op("hid") \in ctl.ops)
    BY <1>2, OpFacts
<1>4. ASSUME Attached', link.phase \notin {"connect", "connect_cleared"}
      PROVE  DisconnectComing'
    <2>1. Attached /\ link' = link
        BY <1>2, <1>4 DEF SameLink, Attached
    <2>2. CASE link.live
        BY <1>2, <1>4, <2>2, ViewFacts DEF LinkInv, DisconnectComing
    <2>3. CASE ~link.live
        BY <2>1, <2>3, ViewFacts DEF LinkInv, DisconnectComing
    <2> QED BY <2>2, <2>3
<1>5. CASE work.k # "auth_retry"
    <2>1. WindsOn /\ Silenced /\ Silenced'
        BY <1>2, <1>3, <1>5 DEF WindsOn, Winding, Silenced
    <2>2. ~OnAir /\ ~s.advertising /\ link.phase \notin {"connect", "connect_cleared"}
        BY <2>1 DEF LinkInv, Wound
    <2>3. ~OnAir' /\ ~s'.advertising /\ link'.phase \notin {"connect", "connect_cleared"}
        BY <1>2, <1>3, <2>2 DEF OnAir, SameLink
    <2>4. Wound'
        BY <1>2, <1>4, <1>5, <2>2, <2>3 DEF Wound
    <2> QED BY <2>1, <2>4, WindsOnKeeps
<1>6. CASE work.k = "auth_retry"
    <2>1. ~Winding /\ ~Winding' /\ ~Silenced /\ ~Silenced'
        BY <1>2, <1>6 DEF Winding, Silenced
    <2>2. /\ Attached => s.connected \/ s.advertising
          /\ Joining => s.advertising /\ ~s.connected
        BY <2>1 DEF LinkInv, Aired
    <2>3. SteadyWorker /\ SteadyAir /\ Shrinks
        BY <1>2, <1>3, <2>2, SameShrinks DEF SteadyWorker, SteadyAir
    <2>4. Attached' => DisconnectComing' \/ s'.advertising
        <3>1. CASE link.phase \in {"connect", "connect_cleared"}
            BY <1>2, <2>2, <3>1 DEF Joining
        <3> QED BY <1>4, <3>1
    <2>5. Wound'
        BY <1>2, <1>6, <2>1, <2>4 DEF Wound
    <2> QED BY <1>2, <1>6, <2>1, <2>3, <2>5, UnwoundKeeps
<1> QED BY <1>5, <1>6

\* the wait for the link ends with the link, unless a retry had none to wait for
LEMMA LinkWaitEnds ==
    ASSUME TypeOK, LinkInv, CleanStops, DisconnectDone \/ DisconnectTimeout
    PROVE  LinkInv'
<1>1. s \in WorkerType /\ work \in WorkType
    BY DEF TypeOK
<1>2. /\ queue' = queue /\ callbackGen' = callbackGen /\ SameLink /\ ctl' = ctl /\ s' = Unlinked(s)
      /\ work.pc = "link_wait" /\ work'.k = work.k
      /\ work'.pc \in {"teardown", "resume"}
    BY <1>1 DEF DisconnectDone, DisconnectTimeout, Goto, WorkType, Outside, SameLink
<1>3. /\ s'.generation = s.generation /\ s'.layers = s.layers
      /\ s'.advertising = s.advertising /\ s'.connected = FALSE /\ s'.ready = s.ready
    BY <1>1, <1>2, UnlinkedSets
<1>4. CASE work.k # "auth_retry"
    <2>1. Winding /\ Silenced
        BY <1>2, <1>4 DEF Winding, Silenced
    <2>2. ~OnAir /\ ~s.advertising /\ link.phase \notin {"connect", "connect_cleared"}
          /\ (Attached => DisconnectComing)
        BY <1>2, <1>4, <2>1 DEF LinkInv, Wound
    <2>3. DisconnectDone
        <3>1. ASSUME DisconnectTimeout PROVE FALSE
            <4>1. Attached
                BY <3>1, ViewFacts DEF LinkInv, DisconnectTimeout
            <4> QED BY <2>2, <3>1, <4>1, NoFault DEF DisconnectTimeout
        <3> QED BY <3>1
    <2>4. ~Attached /\ work'.pc = "teardown"
        BY <1>1, <1>4, <2>2, <2>3, ViewFacts DEF LinkInv, DisconnectDone, Goto, WorkType
    <2>5. WindsOn /\ Silenced'
        BY <1>2, <1>3, <1>4, <2>4 DEF WindsOn, Winding, Silenced
    <2>6. Wound'
        BY <1>2, <1>3, <1>4, <2>2, <2>4 DEF Wound, OnAir, Attached, SameLink
    <2> QED BY <2>5, <2>6, WindsOnKeeps
<1>5. CASE work.k = "auth_retry"
    <2>1. ~Winding /\ ~Winding' /\ ~Silenced /\ ~Silenced'
        BY <1>2, <1>5 DEF Winding, Silenced
    <2>2. /\ Joining => s.advertising /\ ~s.connected
          /\ Attached => DisconnectComing \/ s.advertising
        BY <1>2, <2>1 DEF LinkInv, Aired, Wound
    <2>3. Attached => s.advertising
        <3>1. CASE DisconnectDone
            <4>1. Attached => link.phase = "connect"
                BY <3>1, ViewFacts DEF LinkInv, DisconnectDone
            <4> QED BY <2>2, <4>1 DEF Joining
        <3>2. CASE DisconnectTimeout
            <4>1. ~DisconnectComing
                BY <3>2, NoFault DEF DisconnectTimeout
            <4> QED BY <2>2, <4>1
        <3> QED BY <3>1, <3>2
    <2>4. SteadyWorker /\ SteadyAir /\ Shrinks
        BY <1>2, <1>3, <2>3, SameShrinks DEF SteadyWorker, SteadyAir
    <2>5. work'.pc = "resume"
        BY <1>1, <1>2, <1>5 DEF DisconnectDone, DisconnectTimeout, Goto, WorkType
    <2>6. Wound'
        BY <1>2, <1>5, <2>1, <2>5 DEF Wound
    <2> QED BY <1>2, <1>5, <2>1, <2>4, <2>6, UnwoundKeeps
<1> QED BY <1>4, <1>5

\* HID, then the host: nothing is linked or on the air any more
LEMMA TeardownLinked ==
    ASSUME TypeOK, LinkInv, CleanStops, TeardownHid \/ TeardownHost
    PROVE  LinkInv'
<1>1. s \in WorkerType /\ work \in WorkType /\ ctl \in CtlType /\ link \in LinkType
    BY DEF TypeOK
<1>2. Winding /\ Silenced /\ work.k # "auth_retry" /\ queue' = queue /\ callbackGen' = callbackGen
    BY DEF TeardownHid, TeardownHost, LinkInv, Wound, Winding, Silenced, Outside
<1>3. ~OnAir /\ ~s.advertising /\ ~Attached /\ ~s.connected
    BY <1>2 DEF LinkInv, Wound, TeardownHid, TeardownHost
<1>4. \A i \in 1..Len(queue') : queue'[i].generation <= s.generation
    BY <1>2 DEF LinkInv, Stamped
<1>5. CASE TeardownHid
    <2>1. /\ s' = [s EXCEPT !.layers = @ \ {"hid"}]
          /\ ctl' = [ctl EXCEPT !.ops = @ \ {Op("hid"), Op("suspend"), Op("resume")}]
          /\ Goto("host_off") /\ link' = link
        BY <1>5, NoFault DEF TeardownHid, Outside
    <2>2. /\ s'.generation = s.generation /\ s'.layers = s.layers \ {"hid"}
          /\ s'.advertising = s.advertising /\ s'.connected = s.connected
          /\ work'.pc = "host_off" /\ work'.k = work.k
          /\ ctl'.adv = ctl.adv /\ ctl'.ops = ctl.ops \ {Op("hid"), Op("suspend"), Op("resume")}
        BY <1>1, <2>1 DEF Goto, WorkerType, WorkType, CtlType
    <2>3. Winding' /\ Silenced' /\ ~Running' /\ HostOn(s') = HostOn(s)
        BY <1>2, <2>2 DEF Winding, Silenced, Running, HostOn
    <2>4. ~OnAir' /\ ~Attached' /\ link'.phase = link.phase
        BY <1>3, <2>1, <2>2 DEF OnAir, Attached
    <2>5. Viewed' /\ Stamped'
        BY <1>2, <1>4, <2>1, <2>2, <2>3 DEF LinkInv, Viewed, Stamped
    <2>6. Served'
        BY <2>2, <2>3, <2>4 DEF Served
    <2>7. Aired'
        BY <1>3, <2>2, <2>3, <2>4 DEF LinkInv, Aired, OnAir
    <2>8. Wound'
        BY <1>2, <1>3, <2>2, <2>4 DEF LinkInv, Wound, Attached
    <2> QED BY <2>3, <2>5, <2>6, <2>7, <2>8 DEF LinkInv, Told
<1>6. CASE TeardownHost
    <2>1. /\ s' = [s EXCEPT !.layers = @ \cap {"hid"}, !.ready = {}, !.phase = "resetting"]
          /\ work' = [work EXCEPT !.pc = "resume", !.ok = @]
          /\ IF HostOn(s)
             THEN /\ ctl' = [ctl EXCEPT !.ops = {}, !.adv = "off"]
                  /\ link' = [link EXCEPT !.live = FALSE, !.enc = FALSE]
             ELSE UNCHANGED <<ctl, link>>
        <3>1. PICK left \in {{}} \cup {StuckWith[l] \cap s.layers : l \in s.layers \cap StackLayers} :
                 /\ IF left = {} THEN UNCHANGED budget ELSE Fault("teardown")
                 /\ s' = [s EXCEPT !.layers = left \cup (@ \cap {"hid"}), !.ready = {}, !.phase = "resetting"]
                 /\ work' = [work EXCEPT !.pc = "resume", !.ok = @ /\ left = {}]
                 /\ IF HostOn(s) /\ "host_on" \notin left
                    THEN /\ ctl' = [ctl EXCEPT !.ops = {}, !.adv = "off"]
                         /\ link' = [link EXCEPT !.live = FALSE, !.enc = FALSE]
                    ELSE UNCHANGED <<ctl, link>>
            BY <1>6 DEF TeardownHost
        <3>2. left = {}
            BY <3>1, NoFault
        <3>3. (work.ok /\ left = {}) = work.ok
            BY <1>1, <3>2 DEF WorkType
        <3> QED BY <3>1, <3>2, <3>3
    <2>2. /\ s'.generation = s.generation /\ s'.layers = s.layers \cap {"hid"}
          /\ s'.advertising = s.advertising /\ s'.connected = s.connected /\ s'.ready = {}
          /\ work'.pc = "resume" /\ work'.k = work.k
        BY <1>1, <2>1 DEF WorkerType, WorkType
    <2>3. ~HostOn(s') /\ ~Winding' /\ ~Silenced' /\ ~Running'
        BY <2>2 DEF Winding, Silenced, Running, HostOn
    <2>4. /\ link'.live = link.live /\ link'.phase = link.phase /\ link'.up = link.up /\ link'.down = link.down
        BY <1>1, <1>3, <2>1 DEF Attached, LinkType
    <2>5. ctl'.adv = ctl.adv /\ ctl'.ops \subseteq ctl.ops
        BY <1>1, <1>3, <2>1 DEF OnAir, CtlType
    <2>6. ~OnAir' /\ ~Attached' /\ ~Joining'
        BY <1>3, <2>4, <2>5 DEF OnAir, Attached, Joining
    <2>7. Viewed' /\ Stamped'
        BY <1>2, <1>4, <2>2, <2>3, <2>4 DEF LinkInv, Viewed, Stamped
    <2>8. Served'
        BY <2>2, <2>3, <2>5, <2>6 DEF LinkInv, Served
    <2>9. Aired'
        BY <1>3, <2>2, <2>5, <2>6 DEF LinkInv, Aired, OnAir
    <2>10. Wound'
        BY <1>2, <2>2, <2>3 DEF Wound
    <2> QED BY <2>3, <2>7, <2>8, <2>9, <2>10 DEF LinkInv, Told
<1> QED BY <1>5, <1>6

LEMMA StopStepsLinked ==
    ASSUME TypeOK, LinkInv, CleanStops, StopSteps
    PROVE  LinkInv'
BY AdvertisingStops, DisconnectLinkLinked, LinkWaitEnds, TeardownLinked DEF StopSteps

-----------------------------------------------------------------------------
(* Handlers                                                                  *)

\* what a handler makes of the worker's record before it goes on or stops
Like(s1) ==
    /\ s1 \in WorkerType /\ s1.generation = s.generation /\ s1.layers = s.layers
    /\ s1.advertising = s.advertising /\ s1.connected = s.connected
    /\ "hid" \in s1.ready => "hid" \in s.ready \/ "hid" \in s.layers

LEMMA SelfLike == ASSUME TypeOK PROVE Like(s)
BY DEF TypeOK, Like

LEMMA StopsLike ==
    ASSUME TypeOK, LinkInv, Shrinks, SameLink, SameAir, work.pc \in Calm,
           NEW s1, Like(s1), NEW shown, NEW k, k # "auth_retry", NEW post, NEW m,
           BeginStop(s1, shown, k, post, m)
    PROVE  LinkInv'
<1>1. ~Silenced
    BY DEF Silenced, Winding, Calm, Posts
<1>2. Attached => s1.connected \/ s1.advertising
    BY <1>1 DEF LinkInv, Aired, Like
<1>3. s1 \in WorkerType /\ s1.generation = s.generation /\ s1.layers = s.layers
      /\ s1.advertising = s.advertising /\ (s1.connected => s.connected)
    BY DEF Like
<1> QED BY <1>2, <1>3, StopBegins

LEMMA GoesLike ==
    ASSUME TypeOK, LinkInv, Shrinks, SameLink, SameAir, work.pc \in Calm, Like(s'),
           callbackGen' = callbackGen, NEW pc \in Calm, work'.pc = pc, work'.k = work.k
    PROVE  LinkInv'
<1>1. SameWorker
    BY DEF Like, SameWorker
<1> QED BY <1>1, CalmKeeps

LEMMA DoneFacts ==
    ASSUME TypeOK, NEW pc \in Calm, Done(pc)
    PROVE  work'.pc = pc /\ work'.k = work.k
BY DEF TypeOK, WorkType, Done

LEMMA ReadyIfSubscribedLinked ==
    ASSUME TypeOK, LinkInv, Shrinks, SameLink, SameAir, work.pc \in Calm,
           NEW s1, Like(s1), NEW post \in Calm, NEW m, ReadyIfSubscribed(s1, post, m)
    PROVE  LinkInv'
<1>0. s1 \in WorkerType
    BY DEF Like
<1>1. CASE s' = s1 /\ work' = [work EXCEPT !.pc = post, !.msg = m] /\ callbackGen' = callbackGen
    <2>1. work'.pc = post /\ work'.k = work.k
        BY <1>1 DEF TypeOK, WorkType
    <2>2. Like(s') /\ callbackGen' = callbackGen
        BY <1>1 DEF Like
    <2> QED BY <2>1, <2>2, GoesLike
<1>2. CASE /\ s' = [(IF ccc THEN Clear(s1, {"connect", "pair"}) ELSE s1) EXCEPT !.subscribed = ccc]
           /\ work' = [work EXCEPT !.pc = post, !.msg = m]
           /\ callbackGen' = callbackGen
    <2> DEFINE base == IF ccc THEN Clear(s1, {"connect", "pair"}) ELSE s1
    <2>1. work'.pc = post /\ work'.k = work.k
        BY <1>2 DEF TypeOK, WorkType
    <2>2. /\ base \in WorkerType /\ base.generation = s1.generation /\ base.layers = s1.layers
          /\ base.advertising = s1.advertising /\ base.connected = s1.connected /\ base.ready = s1.ready
        <3> DEFINE cleared == Clear(s1, {"connect", "pair"})
        <3>1. cleared \in WorkerType
            BY <1>0, ClearType
        <3>2. /\ cleared.generation = s1.generation /\ cleared.layers = s1.layers
              /\ cleared.advertising = s1.advertising /\ cleared.connected = s1.connected /\ cleared.ready = s1.ready
            BY <1>0 DEF Clear, WorkerType
        <3>3. base = cleared \/ base = s1
            OBVIOUS
        <3> HIDE DEF cleared, base
        <3> QED BY <1>0, <3>1, <3>2, <3>3
    <2>3. s' = [base EXCEPT !.subscribed = ccc] /\ ccc \in BOOLEAN
        BY <1>2 DEF TypeOK
    <2> HIDE DEF base
    <2>4. /\ s' \in WorkerType /\ s'.generation = s1.generation /\ s'.layers = s1.layers
          /\ s'.advertising = s1.advertising /\ s'.connected = s1.connected /\ s'.ready = s1.ready
        BY <2>2, <2>3 DEF WorkerType
    <2>5. Like(s')
        BY <2>4 DEF Like
    <2> QED BY <1>2, <2>1, <2>5, GoesLike
<1>3. CASE BeginStop(s1, snapshot, "fail", post, m)
    BY <1>3, StopsLike
<1> QED BY <1>1, <1>2, <1>3 DEF ReadyIfSubscribed

LEMMA RequestLinked ==
    ASSUME TypeOK, LinkInv, Shrinks, SameLink, work.pc \in Calm,
           NEW s1, Like(s1), NEW op, op \notin OwnOps, Request(s1, op)
    PROVE  LinkInv'
<1>1. CASE /\ s' = s1 /\ ctl' = [ctl EXCEPT !.ops = @ \cup {op}]
           /\ Done("after") /\ callbackGen' = callbackGen
    <2>1. ctl'.adv = ctl.adv /\ ctl'.advStopped = ctl.advStopped /\ ctl'.ops = ctl.ops \cup {op}
        BY <1>1 DEF TypeOK, CtlType
    <2>2. SameAir
        BY <2>1 DEF SameAir
    <2>3. "after" \in Calm
        BY DEF Calm, Posts
    <2> QED BY <1>1, <2>2, <2>3, DoneFacts, GoesLike
<1>2. CASE BeginStop(s1, snapshot, "fail", "after", Msg) /\ UNCHANGED ctl
    BY <1>2, StopsLike DEF SameAir
<1> QED BY <1>1, <1>2 DEF Request

LEMMA SetFlagsLinked ==
    ASSUME TypeOK, LinkInv, Shrinks, SameLink, work.pc \in Calm, NEW s1, Like(s1), SetFlags(s1)
    PROVE  LinkInv'
<1>1. "after" \in Calm /\ SameAir
    BY DEF Calm, Posts, SetFlags, SameAir
<1> QED BY <1>1, DoneFacts, GoesLike DEF SetFlags

LEMMA ApiHandlersLinked ==
    ASSUME TypeOK, LinkInv, ApiHandlers
    PROVE  LinkInv'
<1>1. s \in WorkerType /\ work.pc \in Calm /\ {"idle", "tail", "after"} \subseteq Calm
    BY DEF TypeOK, Posts, Calm, ApiHandlers, HandleOpen, HandleForget, HandleSaved, HandleTap, HandleRelease,
           HandleClose, HandleDropped, Take
<1>2. SameLink /\ SameAir
    BY DEF ApiHandlers, HandleOpen, HandleForget, HandleSaved, HandleTap, HandleRelease, HandleClose,
           HandleDropped, Outside, SameLink, SameAir
<1>3. Shrinks /\ Msg \in Messages
    <2>1. \E types : Take(types)
        BY DEF ApiHandlers, HandleOpen, HandleForget, HandleSaved, HandleTap, HandleRelease, HandleClose,
               HandleDropped
    <2> QED BY <2>1, TakeShrinks
<1>4. ASSUME NEW pc \in {"idle", "tail", "after"}, Done(pc), UNCHANGED <<callbackGen, s>>
      PROVE  LinkInv'
    BY <1>1, <1>2, <1>3, <1>4, SelfLike, DoneFacts, GoesLike
<1>5. ASSUME NEW s1, Like(s1), NEW k, k # "auth_retry", NEW post, BeginStop(s1, snapshot, k, post, Msg)
      PROVE  LinkInv'
    BY <1>1, <1>2, <1>3, <1>5, StopsLike
<1>6. CASE HandleOpen
    BY <1>4, <1>5, <1>6, SelfLike DEF HandleOpen
<1>7. CASE HandleForget
    BY <1>5, <1>7, SelfLike DEF HandleForget
<1>8. CASE HandleSaved
    <2> DEFINE cleared == Clear(s, {"save"})
               ack     == [cleared EXCEPT !.awaiting_save = FALSE]
               done    == [ack EXCEPT !.profile = Msg.remote, !.forgetting = FALSE]
               saved   == [ack EXCEPT !.saved = TRUE, !.pairing = FALSE]
    <2>1. Msg.remote \in Remotes
        BY <1>3 DEF Messages
    <2>2. Like(cleared)
        BY <1>1, ClearType DEF Like, Clear, WorkerType
    <2>3. AckFlags = ack
        BY DEF AckFlags
    <2> HIDE DEF cleared
    <2>4. Like(ack)
        BY <2>2 DEF Like, WorkerType
    <2> HIDE DEF ack
    <2>5. Like(done) /\ Like(saved)
        BY <2>1, <2>4 DEF Like, WorkerType
    <2>6. \/ BeginStop(ack, snapshot, "fail", "idle", Msg)
          \/ BeginStop(done, snapshot, IF s.pair_after THEN "restart" ELSE "unpair", "tail", Msg)
          \/ BeginStop(saved, snapshot, "restart", "tail", Msg)
          \/ ReadyIfSubscribed(saved, "tail", Msg)
        BY <1>8, <2>3 DEF HandleSaved
    <2> HIDE DEF done, saved
    <2>7. CASE ReadyIfSubscribed(saved, "tail", Msg)
        BY <1>1, <1>2, <1>3, <2>5, <2>7, ReadyIfSubscribedLinked
    <2> QED BY <1>5, <2>4, <2>5, <2>6, <2>7
<1>9. CASE HandleTap
    BY <1>4, <1>5, <1>9, SelfLike DEF HandleTap
<1>10. CASE HandleRelease
    BY <1>4, <1>5, <1>10, SelfLike DEF HandleRelease
<1>11. CASE HandleClose
    BY <1>4, <1>11 DEF HandleClose
<1>12. CASE HandleDropped
    BY <1>4, <1>12 DEF HandleDropped
<1> QED BY <1>6, <1>7, <1>8, <1>9, <1>10, <1>11, <1>12 DEF ApiHandlers


\* what a handler of a callback message can rely on
LEMMA CallbackTaken ==
    ASSUME TypeOK, LinkInv, NEW types, TakeCallback(types)
    PROVE  /\ Shrinks /\ work.pc \in Calm /\ "after" \in Calm /\ Running /\ ~Silenced
           /\ s \in WorkerType /\ Msg \in Messages /\ Msg.type \in types /\ Queued(1, Msg.type)
           /\ Len(queue') = Len(queue) - 1
           /\ \A i \in 1..Len(queue') : i + 1 \in 1..Len(queue) /\ queue'[i] = queue[i + 1]
<1>1. Take(types) /\ Current(Msg)
    BY DEF TakeCallback
<1>2. /\ Shrinks /\ Len(queue) > 0 /\ Msg = queue[1] /\ Msg \in Messages /\ Msg.type \in types
    BY <1>1, TakeShrinks
<1>3. queue \in Seq(Messages) /\ queue # << >> /\ queue' = Tail(queue)
    BY <1>1 DEF TypeOK, Take
<1>4. /\ Len(Tail(queue)) = Len(queue) - 1 /\ Len(queue) \in Nat
      /\ \A i \in 1..Len(Tail(queue)) : i + 1 \in 1..Len(queue) /\ Tail(queue)[i] = queue[i + 1]
    BY <1>3
<1>5. Len(queue') = Len(queue) - 1
    BY <1>3, <1>4
<1>6. \A i \in 1..Len(queue') : i + 1 \in 1..Len(queue) /\ queue'[i] = queue[i + 1]
    BY <1>3, <1>4
<1>7. work.pc = "idle" /\ work.pc \in Calm /\ "after" \in Calm
    BY <1>1 DEF Take, Calm, Posts
<1>8. Running /\ ~Silenced
    BY <1>1, <1>7 DEF Running, Silenced, Winding, Current
<1>9. Queued(1, Msg.type)
    BY <1>1, <1>2, <1>4 DEF Queued, Current
<1> QED BY <1>2, <1>5, <1>6, <1>7, <1>8, <1>9 DEF TypeOK

LEMMA SetupLinked ==
    ASSUME TypeOK, LinkInv,
           HandleGate \/ HandleHidReady \/ HandlePrivacy \/ HandleWhitelist \/ HandlePeerPrivacy \/ HandleAdvStarted
    PROVE  LinkInv'
<1>1. PICK types : TakeCallback(types)
    BY DEF HandleGate, HandleHidReady, HandlePrivacy, HandleWhitelist, HandlePeerPrivacy, HandleAdvStarted
<1>2. /\ Shrinks /\ work.pc \in Calm /\ "after" \in Calm /\ Running
      /\ s \in WorkerType /\ Msg \in Messages /\ Queued(1, Msg.type)
    BY <1>1, CallbackTaken
<1>3. SameLink
    BY DEF HandleGate, HandleHidReady, HandlePrivacy, HandleWhitelist, HandlePeerPrivacy, HandleAdvStarted,
           Outside, SameLink
<1>4. ASSUME Like(s'), Done("after"), UNCHANGED <<callbackGen, ctl>>
      PROVE  LinkInv'
    <2>1. SameAir
        BY <1>4 DEF SameAir
    <2> QED BY <1>2, <1>3, <1>4, <2>1, DoneFacts, GoesLike
<1>5. \A p : <<"wl_add", p>> \notin OwnOps
    BY OpFacts
<1>6. Op("wl_clear") \notin OwnOps /\ Op("peer_privacy") \notin OwnOps /\ Op("privacy_on") \notin OwnOps
    BY OpFacts DEF Op
<1>7. ASSUME NEW s1, Like(s1), SetFlags(s1)
      PROVE  LinkInv'
    BY <1>2, <1>3, <1>7, SetFlagsLinked
<1>8. ASSUME NEW s1, Like(s1), NEW op, op \notin OwnOps, Request(s1, op)
      PROVE  LinkInv'
    BY <1>2, <1>3, <1>8, RequestLinked
<1>9. CASE HandleGate
    <2>1. Msg.type \in {"ADV_DATA", "SCAN_DATA", "ADDRESS"}
        BY <1>9 DEF HandleGate, TakeCallback, Take, Msg
    <2>2. GateOf[Msg.type] \in {"adv_data", "scan_data", "address"}
        BY <2>1 DEF GateOf
    <2>3. PICK ready \in SUBSET ReadyFlags : s' = [s EXCEPT !.ready = ready] /\ ("hid" \in ready => "hid" \in s.ready)
        BY <1>2, <1>9, <2>2 DEF HandleGate, WorkerType, ReadyFlags
    <2>4. Like(s')
        BY <1>2, <2>3 DEF Like, WorkerType
    <2> QED BY <1>4, <1>9, <2>4 DEF HandleGate
<1>10. CASE HandleHidReady
    <2>1. Msg.type = "HID_READY"
        BY <1>10 DEF HandleHidReady, TakeCallback, Take, Msg
    <2>2. "hid" \in s.layers
        BY <1>2, <2>1 DEF LinkInv, Served, NeedsHid, Queued
    <2>3. PICK ready \in SUBSET ReadyFlags : s' = [s EXCEPT !.ready = ready]
        BY <1>2, <1>10 DEF HandleHidReady, WorkerType, ReadyFlags
    <2>4. Like(s')
        BY <1>2, <2>2, <2>3 DEF Like, WorkerType
    <2>5. work'.pc = "after" /\ work'.k = work.k
        BY <1>10 DEF HandleHidReady, Done, TypeOK, WorkType
    <2>6. SameAir /\ callbackGen' = callbackGen
        BY <1>10 DEF HandleHidReady, SameAir
    <2> QED BY <1>2, <1>3, <2>4, <2>5, <2>6, GoesLike
<1>11. CASE HandlePrivacy
    <2>1. \/ Request([s EXCEPT !.phase = "preparing"], Op("wl_clear"))
          \/ SetFlags([s EXCEPT !.phase = "ready", !.ready = @ \cup {"privacy"}])
          \/ SetFlags(s)
        BY <1>11 DEF HandlePrivacy
    <2>2. Like([s EXCEPT !.phase = "preparing"]) /\ Like([s EXCEPT !.phase = "ready", !.ready = @ \cup {"privacy"}])
        BY <1>2 DEF Like, WorkerType, ReadyFlags
    <2> QED BY <1>6, <1>7, <1>8, <2>1, <2>2, SelfLike
<1>12. CASE HandleWhitelist
    <2>1. \/ SetFlags(s)
          \/ Request(s, <<"wl_add", s.profile.peer>>)
          \/ Request([s EXCEPT !.ready = @ \cup {"whitelist"}], Op("peer_privacy"))
          \/ SetFlags([s EXCEPT !.ready = @ \cup {"whitelist", "privacy"}, !.phase = "ready"])
        <3>1. Msg.ok \in BOOLEAN /\ Msg.type \in {"WHITELIST_CLEAR", "WHITELIST_ADD"} /\ s.pairing \in BOOLEAN
            BY <1>2, <1>12 DEF HandleWhitelist, TakeCallback, Take, Msg, Messages, WorkerType
        <3> QED BY <1>12, <3>1 DEF HandleWhitelist
    <2>2. /\ Like([s EXCEPT !.ready = @ \cup {"whitelist"}])
          /\ Like([s EXCEPT !.ready = @ \cup {"whitelist", "privacy"}, !.phase = "ready"])
        BY <1>2 DEF Like, WorkerType, ReadyFlags
    <2> QED BY <1>5, <1>6, <1>7, <1>8, <2>1, <2>2, SelfLike
<1>13. CASE HandlePeerPrivacy
    <2>1. Request([s EXCEPT !.phase = "enabling"], Op("privacy_on")) \/ SetFlags(s)
        BY <1>13 DEF HandlePeerPrivacy
    <2>2. Like([s EXCEPT !.phase = "enabling"])
        BY <1>2 DEF Like, WorkerType
    <2> QED BY <1>6, <1>7, <1>8, <2>1, <2>2, SelfLike
<1>14. CASE HandleAdvStarted
    <2>1. s' = Clear(s, {"start"}) \/ s' = s
        BY <1>14 DEF HandleAdvStarted, Advertised
    <2>2. Clear(s, {"start"}) \in WorkerType
        BY <1>2, ClearType
    <2>3. Like(Clear(s, {"start"}))
        BY <1>2, <2>2 DEF Like, Clear, WorkerType
    <2>4. Like(s')
        BY <2>1, <2>3, SelfLike
    <2> QED BY <1>4, <1>14, <2>4 DEF HandleAdvStarted
<1> QED BY <1>9, <1>10, <1>11, <1>12, <1>13, <1>14

LEMMA HandleConnectedLinked ==
    ASSUME TypeOK, LinkInv, HandleConnected
    PROVE  LinkInv'
<1>1. TakeCallback({"CONNECTED"})
    BY DEF HandleConnected
<1>2. /\ Shrinks /\ work.pc \in Calm /\ "after" \in Calm /\ Running /\ ~Silenced
      /\ s \in WorkerType /\ Queued(1, "CONNECTED")
      /\ Len(queue') = Len(queue) - 1
      /\ \A i \in 1..Len(queue') : i + 1 \in 1..Len(queue) /\ queue'[i] = queue[i + 1]
    BY <1>1, CallbackTaken
<1>3. SameLink /\ SameAir /\ callbackGen' = callbackGen
    BY DEF HandleConnected, Outside, SameLink, SameAir
<1>4. work'.pc = "after" /\ work'.k = work.k
    BY <1>2, DoneFacts DEF HandleConnected
<1>5. 1 \in 1..Len(queue)
    BY <1>2 DEF Queued
<1>6. /\ ~s.connected /\ ~OnAir /\ ~Joining
      /\ \A j \in 1..Len(queue) : Queued(j, "CONNECTED") => j = 1
      /\ \A j \in 1..Len(queue) : Queued(j, "DISCONNECTED") /\ 1 < j => ~Attached
    BY <1>2, <1>5 DEF LinkInv, Told
<1>7. s' = [Arm(s, "connect") EXCEPT !.connected = TRUE, !.advertising = FALSE]
    BY <1>6 DEF HandleConnected
<1>8. /\ s'.generation = s.generation /\ s'.layers = s.layers /\ s'.ready = s.ready
      /\ s'.advertising = FALSE /\ s'.connected = TRUE
    BY <1>2, <1>7 DEF Arm, WorkerType
<1>9. ~OnAir' /\ ~Joining' /\ Attached' = Attached
    BY <1>3, <1>6, SameAirFacts
<1>10. HostOn(s') /\ ~Winding' /\ ~Silenced' /\ Running'
    BY <1>2, <1>4, <1>8 DEF Running, Silenced, Winding, HostOn
<1>11. \A i, type : Queued(i, type)' => i + 1 \in 1..Len(queue) /\ 1 < i + 1 /\ Queued(i + 1, type)
    BY <1>2, <1>8 DEF Queued
<1>12. Viewed'
    BY <1>3 DEF LinkInv, Viewed, SameLink
<1>13. Stamped'
    <2>1. \A i \in 1..Len(queue') : queue'[i].generation <= s'.generation
        BY <1>2, <1>8, StampedShrinks DEF LinkInv
    <2> QED BY <1>2, <1>3, <1>4, <1>8, <2>1 DEF LinkInv, Stamped
<1>14. Served'
    <2>1. OnAir' \/ Attached' => {"hid", "host_on"} \subseteq s'.layers
        BY <1>8, <1>9 DEF LinkInv, Served
    <2>2. "hid" \notin s'.layers => Op("hid") \notin ctl'.ops
        BY <1>3, <1>8, SameAirFacts DEF LinkInv, Served
    <2>3. ASSUME "hid" \notin s'.layers
          PROVE  "hid" \notin s'.ready /\ \A i \in 1..Len(queue') : ~NeedsHid(i)'
        BY <1>2, <1>8, <1>11, <2>3 DEF LinkInv, Served, NeedsHid
    <2> QED BY <2>1, <2>2, <2>3 DEF Served
<1>15. Aired'
    BY <1>3, <1>8, <1>9, <1>10, SameAirFacts DEF LinkInv, Aired, SameAir
<1>16. Wound'
    BY <1>4, <1>10 DEF Wound, Winding
<1>17. \A i \in 1..Len(queue') : ~Queued(i, "CONNECTED")'
    BY <1>6, <1>11
<1>18. \A i \in 1..Len(queue') : Queued(i, "DISCONNECTED")' => ~Attached'
    BY <1>6, <1>9, <1>11
<1>19. Told'
    BY <1>17, <1>18 DEF Told
<1> QED BY <1>12, <1>13, <1>14, <1>15, <1>16, <1>19 DEF LinkInv


\* a saved session loses its link and stops; a pairing window goes on without it
LEMMA HandleDisconnectedLinked ==
    ASSUME TypeOK, LinkInv, HandleDisconnected
    PROVE  LinkInv'
<1> DEFINE lost == [Clear(Unlinked(s), {"connect"}) EXCEPT !.suspended = FALSE]
<1>1. TakeCallback({"DISCONNECTED"})
    BY DEF HandleDisconnected
<1>2. /\ Shrinks /\ work.pc \in Calm /\ "after" \in Calm /\ Running /\ ~Silenced
      /\ s \in WorkerType /\ Queued(1, "DISCONNECTED")
    BY <1>1, CallbackTaken
<1>3. SameLink /\ SameAir
    BY DEF HandleDisconnected, Outside, SameLink, SameAir
<1>4. 1 \in 1..Len(queue)
    BY <1>2 DEF Queued
<1>5. s.connected => ~Attached
    BY <1>2, <1>4 DEF LinkInv, Told
<1>6. /\ lost \in WorkerType /\ lost.generation = s.generation /\ lost.layers = s.layers
      /\ lost.advertising = s.advertising /\ lost.connected = FALSE /\ lost.ready = s.ready
    <2> DEFINE gone == Unlinked(s)
    <2>1. /\ gone \in WorkerType /\ gone.generation = s.generation /\ gone.layers = s.layers
          /\ gone.advertising = s.advertising /\ gone.connected = FALSE /\ gone.ready = s.ready
        BY <1>2, UnlinkedType, UnlinkedSets
    <2> DEFINE cleared == Clear(gone, {"connect"})
    <2> HIDE DEF gone
    <2>2. cleared \in WorkerType
        BY <2>1, ClearType
    <2>3. /\ cleared.generation = s.generation /\ cleared.layers = s.layers
          /\ cleared.advertising = s.advertising /\ cleared.connected = FALSE /\ cleared.ready = s.ready
        BY <2>1 DEF Clear, WorkerType
    <2>4. lost = [cleared EXCEPT !.suspended = FALSE]
        BY DEF gone
    <2> HIDE DEF cleared, lost
    <2> QED BY <2>2, <2>3, <2>4 DEF WorkerType
<1>7. \/ ~s.connected /\ Done("after") /\ UNCHANGED <<s, callbackGen>>
      \/ s.connected /\ BeginStop(lost, snapshot, "restart", "after", Msg)
      \/ s.connected /\ s' = lost /\ Done("after") /\ callbackGen' = callbackGen
    <2>1. s.connected \in BOOLEAN /\ s.saved \in BOOLEAN
        BY <1>2 DEF WorkerType
    <2> QED BY <2>1 DEF HandleDisconnected
<1> HIDE DEF lost
<1>8. CASE ~s.connected /\ Done("after") /\ UNCHANGED <<s, callbackGen>>
    <2>1. Like(s')
        BY <1>8, SelfLike
    <2> QED BY <1>2, <1>3, <1>8, <2>1, DoneFacts, GoesLike
<1>9. CASE s.connected /\ BeginStop(lost, snapshot, "restart", "after", Msg)
    BY <1>2, <1>3, <1>5, <1>6, <1>9, StopBegins
<1>10. CASE s.connected /\ s' = lost /\ Done("after") /\ callbackGen' = callbackGen
    <2>1. work'.pc = "after" /\ work'.k = work.k
        BY <1>2, <1>10, DoneFacts
    <2>2. SteadyWorker
        BY <1>5, <1>6, <1>10 DEF SteadyWorker
    <2>3. SteadyAir
        BY <1>3, SameAirFacts DEF SteadyAir, SameAir
    <2>4. ~Winding /\ ~Winding' /\ ~Silenced'
        BY <1>2, <2>1 DEF Winding, Silenced, Calm, Posts
    <2>5. Wound'
        BY <2>1, <2>4 DEF Wound
    <2> QED BY <1>2, <1>3, <1>10, <2>1, <2>2, <2>3, <2>4, <2>5, UnwoundKeeps
<1> QED BY <1>7, <1>8, <1>9, <1>10

\* a failed attempt takes the link of a pairing window away, a saved session stops
LEMMA HandleAuthFailedLinked ==
    ASSUME TypeOK, LinkInv, HandleAuthFailed
    PROVE  LinkInv'
<1>1. TakeCallback({"AUTH"})
    BY DEF HandleAuthFailed
<1>2. /\ Shrinks /\ work.pc \in Calm /\ "after" \in Calm /\ Running /\ ~Silenced /\ s \in WorkerType
    BY <1>1, CallbackTaken
<1>3. SameLink /\ SameAir
    BY DEF HandleAuthFailed, Outside, SameLink, SameAir
<1>4. CASE s.pairing
    <2>1. /\ s' = [s EXCEPT !.encrypted = FALSE, !.subscribed = FALSE]
          /\ work'.pc = "disconnect" /\ work'.k = "auth_retry" /\ callbackGen' = callbackGen
        BY <1>4 DEF HandleAuthFailed
    <2>2. /\ s'.generation = s.generation /\ s'.layers = s.layers /\ s'.ready = s.ready
          /\ s'.advertising = s.advertising /\ s'.connected = s.connected
        BY <1>2, <2>1 DEF WorkerType
    <2>3. SteadyWorker
        BY <1>2, <2>2 DEF SteadyWorker, LinkInv, Aired
    <2>4. SteadyAir
        BY <1>3, SameAirFacts DEF SteadyAir, SameAir
    <2>5. ~Winding /\ ~Winding' /\ ~Silenced'
        BY <1>2, <2>1 DEF Winding, Silenced, Calm, Posts
    <2>6. Wound'
        BY <2>1, <2>5 DEF Wound
    <2> QED BY <1>2, <1>3, <2>1, <2>3, <2>4, <2>5, <2>6, UnwoundKeeps
<1>5. CASE ~s.pairing
    <2>1. BeginStop(s, snapshot, "fail", "after", Msg)
        BY <1>5 DEF HandleAuthFailed
    <2> QED BY <1>2, <1>3, <2>1, SelfLike, StopsLike
<1> QED BY <1>4, <1>5

LEMMA HandleAuthOkLinked ==
    ASSUME TypeOK, LinkInv, HandleAuthOk
    PROVE  LinkInv'
<1>1. TakeCallback({"AUTH"})
    BY DEF HandleAuthOk
<1>2. /\ Shrinks /\ work.pc \in Calm /\ "after" \in Calm /\ s \in WorkerType /\ Msg \in Messages
    BY <1>1, CallbackTaken
<1>3. SameLink /\ SameAir
    BY DEF HandleAuthOk, SameLink, SameAir
<1> DEFINE peered    == [s EXCEPT !.encrypted = TRUE, !.profile.peer = Msg.peer]
           encrypted == [s EXCEPT !.encrypted = TRUE]
<1>4. \/ BeginStop(s, snapshot, "fail", "after", Msg)
      \/ s' = AwaitingSave(peered) /\ Done("after") /\ callbackGen' = callbackGen
      \/ ReadyIfSubscribed(encrypted, "after", Msg)
    BY DEF HandleAuthOk
<1>5. Like(encrypted)
    BY <1>2 DEF Like, WorkerType
<1>6. Like(AwaitingSave(peered))
    <2>1. Msg.peer \in Peers /\ s.profile \in Remotes
        BY <1>2 DEF Messages, WorkerType
    <2>2. [s.profile EXCEPT !.peer = Msg.peer] \in Remotes
        BY <2>1 DEF Remotes
    <2>3. peered \in WorkerType /\ peered.generation = s.generation /\ peered.layers = s.layers
          /\ peered.advertising = s.advertising /\ peered.connected = s.connected /\ peered.ready = s.ready
        BY <1>2, <2>2 DEF WorkerType
    <2> HIDE DEF peered
    <2>4. AwaitingSave(peered) \in WorkerType
        BY <2>3, AwaitingSaveType
    <2>5. /\ AwaitingSave(peered).generation = peered.generation /\ AwaitingSave(peered).layers = peered.layers
          /\ AwaitingSave(peered).advertising = peered.advertising
          /\ AwaitingSave(peered).connected = peered.connected /\ AwaitingSave(peered).ready = peered.ready
        BY <2>3 DEF AwaitingSave, Arm, WorkerType
    <2> QED BY <2>3, <2>4, <2>5 DEF Like
<1> HIDE DEF peered, encrypted
<1>7. CASE s' = AwaitingSave(peered) /\ Done("after") /\ callbackGen' = callbackGen
    <2>1. Like(s')
        BY <1>6, <1>7 DEF Like
    <2> QED BY <1>2, <1>3, <1>7, <2>1, DoneFacts, GoesLike
<1>8. CASE ReadyIfSubscribed(encrypted, "after", Msg)
    BY <1>2, <1>3, <1>5, <1>8, ReadyIfSubscribedLinked
<1>9. CASE BeginStop(s, snapshot, "fail", "after", Msg)
    BY <1>2, <1>3, <1>9, SelfLike, StopsLike
<1> QED BY <1>4, <1>7, <1>8, <1>9

LEMMA HandleWriteSuspendLinked ==
    ASSUME TypeOK, LinkInv, HandleWrite \/ HandleSuspend
    PROVE  LinkInv'
<1>1. PICK types : TakeCallback(types)
    BY DEF HandleWrite, HandleSuspend
<1>2. /\ Shrinks /\ work.pc \in Calm /\ "after" \in Calm /\ s \in WorkerType /\ Msg \in Messages
    BY <1>1, CallbackTaken
<1>3. SameLink /\ SameAir
    BY DEF HandleWrite, HandleSuspend, SameLink, SameAir
<1>4. Like([s EXCEPT !.suspended = Msg.flag])
    BY <1>2 DEF Like, WorkerType, Messages
<1>5. \/ ReadyIfSubscribed(s, "after", Msg)
      \/ ReadyIfSubscribed([s EXCEPT !.suspended = Msg.flag], "after", Msg)
      \/ BeginStop(s, snapshot, "release", "after", Msg)
    BY DEF HandleWrite, HandleSuspend
<1> QED BY <1>2, <1>3, <1>4, <1>5, SelfLike, StopsLike, ReadyIfSubscribedLinked

LEMMA CallbackHandlersLinked ==
    ASSUME TypeOK, LinkInv, CallbackHandlers
    PROVE  LinkInv'
BY SetupLinked, HandleConnectedLinked, HandleDisconnectedLinked, HandleAuthFailedLinked, HandleAuthOkLinked,
   HandleWriteSuspendLinked DEF CallbackHandlers

-----------------------------------------------------------------------------
(* The end of an iteration                                                   *)

\* HID is up where the gates are open, and nothing is on the air yet
LEMMA AdvertiseLinked ==
    ASSUME TypeOK, LinkInv, HostDownIsSilent, Advertise
    PROVE  LinkInv'
<1>1. s \in WorkerType /\ ctl \in CtlType /\ work \in WorkType /\ work.pc = "after" /\ queue' = queue
      /\ work.pc \in Calm /\ "tail" \in Calm /\ SameLink /\ Shrinks
    BY SameShrinks DEF TypeOK, Advertise, Outside, SameLink, Calm, Posts
<1>2. CASE BeginStop(s, snapshot, "fail", "tail", work.msg) /\ UNCHANGED ctl
    <2>1. SameAir
        BY <1>2 DEF SameAir
    <2> QED BY <1>1, <1>2, <2>1, SelfLike, StopsLike
<1>3. CASE /\ s' = [s EXCEPT !.advertising = TRUE, !.deadlines = IF s.pairing THEN @ \cup {"pair"} ELSE @]
           /\ ctl' = [ctl EXCEPT !.ops = @ \cup {AdvertisingOp(s)}]
           /\ Goto("tail")
           /\ UNCHANGED callbackGen
    <2>1. "hid" \in s.ready /\ ~s.connected /\ ~s.advertising
        BY ConstantsAssumption DEF Advertise, CanAdvertise, Ready
    <2>2. HostOn(s) /\ ~Winding /\ ~Silenced /\ Running
        BY <1>1, <2>1 DEF HostDownIsSilent, HostOn, Winding, Silenced, Running
    <2>3. "hid" \in s.layers
        BY <2>1, <2>2 DEF LinkInv, Served
    <2>4. ~Attached /\ ~OnAir /\ ~Joining
        BY <2>1, <2>2 DEF LinkInv, Aired
    <2>5. /\ s'.generation = s.generation /\ s'.layers = s.layers /\ s'.ready = s.ready
          /\ s'.advertising = TRUE /\ s'.connected = s.connected
        BY <1>1, <1>3 DEF WorkerType
    <2>6. work'.pc = "tail" /\ work'.k = work.k
        BY <1>1, <1>3 DEF Goto, WorkType
    <2>7. /\ ctl'.adv = ctl.adv /\ ctl'.ops = ctl.ops \cup {AdvertisingOp(s)}
          /\ AdvertisingOp(s) \in AdvOps
        BY <1>1, <1>3 DEF CtlType, AdvertisingOp, AdvOps
    <2>8. ~Attached' /\ ~Joining'
        BY <1>1, <2>4 DEF SameLink, Attached, Joining
    <2>9. HostOn(s') /\ ~Winding' /\ ~Silenced' /\ Running'
        BY <2>2, <2>5, <2>6 DEF HostOn, Winding, Silenced, Running
    <2>10. Viewed'
        BY <1>1 DEF LinkInv, Viewed, SameLink
    <2>11. Stamped'
        <3>1. \A i \in 1..Len(queue') : queue'[i].generation <= s'.generation
            BY <1>1, <2>5 DEF LinkInv, Stamped
        <3> QED BY <1>3, <2>2, <2>5, <2>6, <3>1 DEF LinkInv, Stamped
    <2>12. Served'
        BY <2>2, <2>3, <2>5 DEF Served, HostOn
    <2>13. Aired'
        <3>1. ctl.adv = "off" /\ ctl.ops \cap AdvOps = {}
            BY <2>4 DEF OnAir
        <3>2. Op("adv_any") \notin ctl'.ops \/ Op("adv_listed") \notin ctl'.ops
            BY <2>7, <3>1, OpFacts DEF AdvOps, AdvertisingOp
        <3> QED BY <2>1, <2>5, <2>7, <2>8, <2>9, <3>1, <3>2 DEF Aired
    <2>14. Wound'
        BY <2>6, <2>9 DEF Wound, Winding
    <2>15. \A i \in 1..Len(queue) : ~Queued(i, "CONNECTED")
        BY <2>1, <2>2 DEF LinkInv, Told
    <2>16. \A i \in 1..Len(queue') : ~Queued(i, "CONNECTED")'
        BY <1>1, <2>5, <2>15 DEF Queued
    <2>17. Told'
        BY <2>1, <2>5, <2>16 DEF Told
    <2> QED BY <2>10, <2>11, <2>12, <2>13, <2>14, <2>17 DEF LinkInv
<1> QED BY <1>2, <1>3 DEF Advertise

LEMMA TailLinked ==
    ASSUME TypeOK, LinkInv, HostDownIsSilent,
           AfterCallback \/ Advertise \/ Poll \/ TailClose \/ TailExpired \/ TailDone \/ DeadlinePasses
    PROVE  LinkInv'
<1>1. CASE Advertise
    BY <1>1, AdvertiseLinked
<1>2. CASE DeadlinePasses
    <2>1. PICK d \in Deadlines : s' = [s EXCEPT !.due = @ \cup {d}]
        BY <1>2 DEF DeadlinePasses, TypeOK, WorkerType
    <2>2. /\ s'.generation = s.generation /\ s'.layers = s.layers /\ s'.ready = s.ready
          /\ s'.advertising = s.advertising /\ s'.connected = s.connected
        BY <2>1 DEF TypeOK, WorkerType
    <2>3. UNCHANGED <<link, ctl, queue, work, callbackGen>>
        BY <1>2 DEF DeadlinePasses, Outside
    <2>4. /\ OnAir' = OnAir /\ Attached' = Attached /\ Joining' = Joining /\ HostOn(s') = HostOn(s)
          /\ Winding' = Winding /\ Silenced' = Silenced /\ Running' = Running
          /\ DisconnectComing' = DisconnectComing
        BY <2>2, <2>3 DEF OnAir, Attached, Joining, HostOn, Winding, Silenced, Running, DisconnectComing
    <2>5. \A i, type : Queued(i, type)' = Queued(i, type)
        BY <2>2, <2>3 DEF Queued
    <2>6. Viewed' /\ Stamped'
        BY <2>2, <2>3, <2>4 DEF LinkInv, Viewed, Stamped
    <2>7. Served'
        BY <2>2, <2>3, <2>4, <2>5 DEF LinkInv, Served, NeedsHid
    <2>8. Aired' /\ Wound'
        BY <2>2, <2>3, <2>4 DEF LinkInv, Aired, Wound
    <2>9. Told'
        BY <2>2, <2>3, <2>4, <2>5 DEF LinkInv, Told
    <2> QED BY <2>6, <2>7, <2>8, <2>9 DEF LinkInv
<1>3. CASE AfterCallback \/ Poll \/ TailClose \/ TailExpired \/ TailDone
    <2>1. /\ work.pc \in Calm /\ {"idle", "tail"} \subseteq Calm /\ SameLink /\ SameAir /\ Shrinks
          /\ s \in WorkerType /\ work \in WorkType
        BY <1>3, SameShrinks DEF AfterCallback, Poll, TailClose, TailExpired, TailDone, Outside, SameLink, SameAir,
           Calm, Posts, TypeOK
    <2>2. \/ \E k \in Handlers \ {"auth_retry"} : \E post, m : BeginStop(s, snapshot, k, post, m)
          \/ /\ s' = s /\ callbackGen' = callbackGen
             /\ \E pc \in {"idle", "tail"} : work'.pc = pc /\ work'.k = work.k
        BY <1>3, <2>1 DEF AfterCallback, Poll, TailClose, TailExpired, TailDone, Goto, WorkType, Handlers
    <2>3. CASE \E k \in Handlers \ {"auth_retry"} : \E post, m : BeginStop(s, snapshot, k, post, m)
        BY <2>1, <2>3, SelfLike, StopsLike
    <2>4. CASE /\ s' = s /\ callbackGen' = callbackGen
               /\ \E pc \in {"idle", "tail"} : work'.pc = pc /\ work'.k = work.k
        <3>1. Like(s')
            BY <2>4, SelfLike
        <3> QED BY <2>1, <2>4, <3>1, GoesLike
    <2> QED BY <2>2, <2>3, <2>4
<1> QED BY <1>1, <1>2, <1>3

-----------------------------------------------------------------------------
(* Requests, the callback task and the hosts                                 *)

\* a message that is queued after a step was queued before it, or is the new one
LEMMA GrowsQueued ==
    ASSUME TypeOK, NEW type, Grows(type), s' = s
    PROVE  /\ \A i, t : Queued(i, t)' => Queued(i, t) \/ (t = type /\ i = Len(queue) + 1)
           /\ Stamped => \A i \in 1..Len(queue') : queue'[i].generation <= s'.generation
           /\ \A i, t : Queued(i, t) => i \in 1..Len(queue) /\ i < Len(queue) + 1
           /\ \A i \in 1..Len(queue') : i <= Len(queue) + 1
<1>1. Len(queue) \in Nat
    BY QueueFacts
<1>2. \A i \in 1..Len(queue') : i \in 1..Len(queue) \/ (i = Len(queue) + 1 /\ Len(queue') = Len(queue) + 1)
    BY <1>1 DEF Grows
<1>3. \A i \in 1..Len(queue) : queue'[i] = queue[i]
    BY DEF Grows
<1>4. Len(queue') = Len(queue) + 1 => /\ queue'[Len(queue) + 1].type = type
                                      /\ queue'[Len(queue) + 1].generation <= s.generation
    BY <1>1 DEF Grows
<1>5. \A i, t : Queued(i, t)' => Queued(i, t) \/ (t = type /\ i = Len(queue) + 1)
    BY <1>2, <1>3, <1>4 DEF Queued
<1>6. Stamped => \A i \in 1..Len(queue') : queue'[i].generation <= s'.generation
    BY <1>2, <1>3, <1>4 DEF Stamped
<1>7. \A i, t : Queued(i, t) => i \in 1..Len(queue) /\ i < Len(queue) + 1
    BY <1>1 DEF Queued
<1>8. \A i \in 1..Len(queue') : i <= Len(queue) + 1
    BY <1>1, <1>2
<1> QED BY <1>5, <1>6, <1>7, <1>8

\* what a step of another task leaves to the worker
LEMMA OthersLeave ==
    ASSUME TypeOK, LinkInv, UNCHANGED <<s, work, callbackGen>>, NEW type, Grows(type)
    PROVE  /\ HostOn(s') = HostOn(s) /\ Winding' = Winding /\ Silenced' = Silenced /\ Running' = Running
           /\ Stamped'
<1>1. HostOn(s') = HostOn(s) /\ Winding' = Winding /\ Silenced' = Silenced /\ Running' = Running
    BY DEF HostOn, Winding, Silenced, Running
<1>2. Stamped'
    <2>1. \A i \in 1..Len(queue') : queue'[i].generation <= s'.generation
        BY GrowsQueued DEF LinkInv
    <2> QED BY <1>1, <2>1 DEF LinkInv, Stamped
<1> QED BY <1>1, <1>2

\* a step of another task after which no more is on the air than before it
Quiet(type) ==
    /\ UNCHANGED <<s, work, callbackGen>> /\ Grows(type)
    /\ OnAir' => OnAir
    /\ Attached' => Attached
    /\ Joining' => Joining
    /\ Op("hid") \in ctl'.ops => Op("hid") \in ctl.ops
    /\ ctl'.ops \cap AdvOps \subseteq ctl.ops
    /\ ctl'.adv = "off" \/ ctl'.ops \cap AdvOps = {}
    /\ link'.phase \in {"connect", "connect_cleared"} => link.phase \in {"connect", "connect_cleared"}
    /\ Attached' /\ DisconnectComing => DisconnectComing'
    /\ ctl'.advStopped => ctl.advStopped \/ (~OnAir' /\ link'.phase \notin {"connect", "connect_cleared"})

LEMMA QuietKeeps ==
    ASSUME TypeOK, LinkInv, NEW type, Quiet(type), Viewed', type # "CONNECTED",
           type = "DISCONNECTED" => ~Attached', type \in {"HID_READY", "AUTH"} => "hid" \in s.layers
    PROVE  LinkInv'
<1>1. s' = s /\ work' = work /\ callbackGen' = callbackGen /\ Grows(type)
    BY DEF Quiet
<1>2. /\ HostOn(s') = HostOn(s) /\ Winding' = Winding /\ Silenced' = Silenced /\ Running' = Running
      /\ Stamped'
    BY <1>1, OthersLeave
<1>3. /\ \A i, t : Queued(i, t)' => Queued(i, t) \/ (t = type /\ i = Len(queue) + 1)
      /\ \A i, t : Queued(i, t) => i \in 1..Len(queue) /\ i < Len(queue) + 1
    BY <1>1, GrowsQueued
<1>4. Served'
    <2>1. OnAir' \/ Attached' => {"hid", "host_on"} \subseteq s'.layers
        BY <1>1 DEF LinkInv, Served, Quiet
    <2>2. "hid" \notin s'.layers => Op("hid") \notin ctl'.ops
        BY <1>1 DEF LinkInv, Served, Quiet
    <2>3. ASSUME Running', "hid" \notin s'.layers
          PROVE  "hid" \notin s'.ready /\ \A i \in 1..Len(queue') : ~NeedsHid(i)'
        <3>1. "hid" \notin s.ready /\ \A i \in 1..Len(queue) : ~NeedsHid(i)
            BY <1>1, <1>2, <2>3 DEF LinkInv, Served
        <3> QED BY <1>1, <1>3, <2>3, <3>1 DEF NeedsHid
    <2> QED BY <2>1, <2>2, <2>3 DEF Served
<1>5. Aired'
    <2>1. Op("adv_any") \notin ctl'.ops \/ Op("adv_listed") \notin ctl'.ops
        BY DEF LinkInv, Aired, Quiet, AdvOps
    <2> QED BY <1>1, <1>2, <2>1 DEF LinkInv, Aired, Quiet
<1>6. Wound'
    BY <1>1, <1>2 DEF LinkInv, Wound, Quiet
<1>7. Told'
    <2> SUFFICES ASSUME Running'
                 PROVE  Told'
        BY DEF Told
    <2>1. ASSUME NEW i \in 1..Len(queue'), Queued(i, "CONNECTED")'
          PROVE  /\ s'.advertising /\ ~s'.connected /\ ~OnAir' /\ ~Joining'
                 /\ \A j \in 1..Len(queue') : Queued(j, "CONNECTED")' => j = i
                 /\ \A j \in 1..Len(queue') : Queued(j, "DISCONNECTED")' /\ i < j => ~Attached'
        <3>1. Queued(i, "CONNECTED") /\ i \in 1..Len(queue) /\ Running
            BY <1>2, <1>3, <2>1
        <3>2. s'.advertising /\ ~s'.connected /\ ~OnAir' /\ ~Joining'
            BY <1>1, <3>1 DEF LinkInv, Told, Quiet
        <3>3. ASSUME NEW j \in 1..Len(queue'), Queued(j, "CONNECTED")'
              PROVE  j = i
            <4>1. Queued(j, "CONNECTED") /\ j \in 1..Len(queue)
                BY <1>3, <3>3
            <4> QED BY <3>1, <4>1 DEF LinkInv, Told
        <3>4. ASSUME NEW j \in 1..Len(queue'), Queued(j, "DISCONNECTED")', i < j
              PROVE  ~Attached'
            <4>1. CASE Queued(j, "DISCONNECTED")
                <5>1. j \in 1..Len(queue)
                    BY <1>3, <4>1
                <5>2. ~Attached
                    BY <3>1, <3>4, <4>1, <5>1 DEF LinkInv, Told
                <5> QED BY <5>2 DEF Quiet
            <4>2. CASE type = "DISCONNECTED"
                BY <4>2
            <4> QED BY <1>3, <3>4, <4>1, <4>2
        <3> QED BY <3>2, <3>3, <3>4
    <2>2. ASSUME NEW i \in 1..Len(queue'), Queued(i, "DISCONNECTED")', s'.connected
          PROVE  ~Attached'
        <3>1. CASE Queued(i, "DISCONNECTED")
            <4>1. i \in 1..Len(queue) /\ Running /\ s.connected
                BY <1>1, <1>2, <1>3, <2>2, <3>1
            <4>2. ~Attached
                BY <3>1, <4>1 DEF LinkInv, Told
            <4> QED BY <4>2 DEF Quiet
        <3>2. CASE type = "DISCONNECTED"
            BY <3>2
        <3> QED BY <1>3, <2>2, <3>1, <3>2
    <2> QED BY <2>1, <2>2 DEF Told
<1> QED BY <1>2, <1>4, <1>5, <1>6, <1>7 DEF LinkInv

\* a step that is not about the link at all
SameCourse ==
    link'.live = link.live /\ link'.up = link.up /\ link'.down = link.down /\ link'.phase = link.phase

LEMMA AloofKeeps ==
    ASSUME TypeOK, LinkInv, UNCHANGED <<s, work, callbackGen>>, SameCourse, SameAir,
           NEW type, type \notin {"CONNECTED", "DISCONNECTED", "HID_READY"}, Grows(type),
           type = "AUTH" => "hid" \in s.layers
    PROVE  LinkInv'
<1>1. \A op \in OwnOps : op \in ctl'.ops <=> op \in ctl.ops
    BY DEF SameAir
<1>2. \A a \in {"adv_any", "adv_listed", "hid", "disconnect"} : Op(a) \in OwnOps
    BY DEF OwnOps, AdvOps
<1>3. ctl'.ops \cap AdvOps = ctl.ops \cap AdvOps
    BY <1>1 DEF OwnOps
<1>4. /\ OnAir' = OnAir /\ Attached' = Attached /\ Joining' = Joining /\ DisconnectComing' = DisconnectComing
      /\ Op("hid") \in ctl'.ops => Op("hid") \in ctl.ops
    BY <1>1, <1>2, <1>3 DEF SameAir, SameCourse, OnAir, Attached, Joining, DisconnectComing
<1>5. ctl'.adv = "off" \/ ctl'.ops \cap AdvOps = {}
    BY <1>3 DEF LinkInv, Aired, SameAir
<1>6. Quiet(type)
    BY <1>3, <1>4, <1>5 DEF Quiet, SameAir, SameCourse
<1>7. Viewed'
    BY DEF LinkInv, Viewed, SameCourse
<1> QED BY <1>6, <1>7, QuietKeeps


\* finishing a request that is neither the radio's nor the link's
LEMMA FinishAloof ==
    ASSUME TypeOK, NEW op, op \notin OwnOps
    PROVE  /\ Finish(op).adv = ctl.adv /\ Finish(op).advStopped = ctl.advStopped
           /\ Finish(op).ops \cap OwnOps = ctl.ops \cap OwnOps
           /\ Finish(op).ops = ctl.ops \ {op} /\ Finish(op) \in CtlType
BY DEF Finish, TypeOK, CtlType

LEMMA CompleteGateLinked ==
    ASSUME TypeOK, LinkInv, CompleteGate
    PROVE  LinkInv'
<1>1. PICK g \in Gates, ok \in BOOLEAN :
          /\ Op(g) \in ctl.ops
          /\ ctl' = Finish(Op(g))
          /\ CallbackMessage(GateMessage[g], ok, FALSE, NoPeer)
    BY DEF CompleteGate
<1>2. UNCHANGED <<s, work, callbackGen, link>>
    BY DEF CompleteGate, WorkerVars, Outside
<1>3. g \in {"hid", "adv_data", "scan_data", "address"} /\ NoPeer \in Peers
    BY ConstantsAssumption DEF ReadyFlags, Peers
<1>4. GateMessage[g] \in CallbackTypes
    BY <1>3 DEF GateMessage, CallbackTypes
<1>5. Grows(GateMessage[g])
    BY <1>1, <1>3, <1>4, CallbackGrows DEF LinkInv
<1>6. CASE g # "hid"
    <2>1. Op(g) \notin OwnOps
        BY <1>3, <1>6, OpFacts DEF Op
    <2>2. SameAir /\ SameCourse
        BY <1>1, <1>2, <2>1, FinishAloof DEF SameAir, SameCourse
    <2>3. GateMessage[g] \notin {"CONNECTED", "DISCONNECTED", "HID_READY", "AUTH"}
        BY <1>3, <1>6 DEF GateMessage
    <2> QED BY <1>2, <1>5, <2>2, <2>3, AloofKeeps
<1>7. CASE g = "hid"
    <2>1. ctl'.adv = ctl.adv /\ ctl'.advStopped = ctl.advStopped /\ ctl'.ops = ctl.ops \ {Op("hid")}
        BY <1>1, <1>7 DEF Finish, TypeOK, CtlType
    <2>2. Op("hid") \notin AdvOps /\ Op("hid") # Op("disconnect")
        BY OpFacts
    <2>3. ctl'.ops \cap AdvOps = ctl.ops \cap AdvOps /\ (Op("disconnect") \in ctl'.ops <=> Op("disconnect") \in ctl.ops)
        BY <2>1, <2>2
    <2>4. /\ OnAir' = OnAir /\ Attached' = Attached /\ Joining' = Joining
          /\ DisconnectComing' = DisconnectComing /\ Viewed'
        BY <1>2, <2>1, <2>3 DEF LinkInv, Viewed, OnAir, Attached, Joining, DisconnectComing
    <2>5. Quiet("HID_READY")
        BY <1>2, <1>5, <1>7, <2>1, <2>2, <2>3, <2>4 DEF Quiet, GateMessage, LinkInv, Aired
    <2>6. "hid" \in s.layers
        BY <1>1, <1>7 DEF LinkInv, Served
    <2> QED BY <2>4, <2>5, <2>6, QuietKeeps
<1> QED BY <1>6, <1>7

LEMMA CompleteTableLinked ==
    ASSUME TypeOK, LinkInv, CompleteTable
    PROVE  LinkInv'
<1>1. PICK op \in ctl.ops, ok \in BOOLEAN :
          /\ op[1] \in DOMAIN TableMessage
          /\ ctl' = IF ok THEN TableAfter(op) ELSE Finish(op)
          /\ CallbackMessage(TableMessage[op[1]], ok, FALSE, NoPeer)
    BY DEF CompleteTable
<1>2. UNCHANGED <<s, work, callbackGen, link>> /\ NoPeer \in Peers
    BY DEF CompleteTable, WorkerVars, Outside, Peers
<1>3. op \in OpNames \X Peers /\ op[1] \in {"privacy_off", "privacy_on", "peer_privacy", "wl_clear", "wl_add"}
    BY <1>1 DEF TableMessage, TypeOK, CtlType
<1>4. TableMessage[op[1]] \in CallbackTypes \ {"CONNECTED", "DISCONNECTED", "HID_READY", "AUTH"}
    BY <1>3 DEF TableMessage, CallbackTypes
<1>5. op \notin OwnOps
    <2>1. op = <<op[1], op[2]>>
        BY <1>3
    <2> QED BY <1>3, <2>1, OpFacts
<1>6. SameAir
    <2> DEFINE done == Finish(op)
    <2>1. /\ done.adv = ctl.adv /\ done.advStopped = ctl.advStopped
          /\ done.ops \cap OwnOps = ctl.ops \cap OwnOps /\ done \in CtlType
        BY <1>5, FinishAloof
    <2>2. \/ ctl' = done
          \/ ctl' = [done EXCEPT !.resolving = FALSE]
          \/ ctl' = [done EXCEPT !.resolving = TRUE]
          \/ ctl' = [done EXCEPT !.wl = {}]
          \/ ctl' = [done EXCEPT !.wl = @ \cup {op[2]}]
        BY <1>1 DEF TableAfter
    <2> HIDE DEF done
    <2>3. ctl'.adv = done.adv /\ ctl'.advStopped = done.advStopped /\ ctl'.ops = done.ops
        BY <2>1, <2>2 DEF CtlType
    <2> QED BY <2>1, <2>3 DEF SameAir
<1>7. Grows(TableMessage[op[1]])
    BY <1>1, <1>2, <1>4, CallbackGrows DEF LinkInv
<1> QED BY <1>2, <1>4, <1>6, <1>7, AloofKeeps DEF SameCourse

LEMMA AdvCompletesLinked ==
    ASSUME TypeOK, LinkInv, CompleteAdvStart \/ CompleteAdvStop
    PROVE  LinkInv'
<1>1. UNCHANGED <<s, work, callbackGen, link>> /\ link.phase = "idle" /\ NoPeer \in Peers
    BY DEF CompleteAdvStart, CompleteAdvStop, CallbackIdle, WorkerVars, Outside, Peers
<1>2. Attached' = Attached /\ Joining' = Joining /\ Viewed'
    BY <1>1 DEF LinkInv, Viewed, Attached, Joining
<1>3. CASE CompleteAdvStart
    <2>1. PICK op \in ctl.ops \cap AdvOps, ok \in BOOLEAN :
              /\ ctl' = [Finish(op) EXCEPT !.adv = IF ~ok THEN @ ELSE IF op = Op("adv_any") THEN "any" ELSE "listed"]
              /\ CallbackMessage("ADV_STARTED", ok, FALSE, NoPeer)
        BY <1>3 DEF CompleteAdvStart
    <2>2. ctl'.ops = ctl.ops \ {op} /\ ctl'.advStopped = ctl.advStopped
        <3> DEFINE done == Finish(op)
        <3>1. done \in CtlType /\ done.ops = ctl.ops \ {op} /\ done.advStopped = ctl.advStopped
            BY DEF Finish, TypeOK, CtlType
        <3>2. \E adv : ctl' = [done EXCEPT !.adv = adv]
            BY <2>1
        <3> HIDE DEF done
        <3> QED BY <3>1, <3>2 DEF CtlType
    <2>3. OnAir
        BY <2>1 DEF OnAir
    <2>4. ctl.ops \cap AdvOps = {op}
        BY <2>1 DEF LinkInv, Aired, AdvOps
    <2>5. op # Op("hid") /\ op # Op("disconnect")
        BY <2>1, OpFacts
    <2>6. ctl'.ops \cap AdvOps = {} /\ DisconnectComing' = DisconnectComing
        BY <1>1, <2>2, <2>4, <2>5 DEF DisconnectComing
    <2>7. Grows("ADV_STARTED")
        BY <1>1, <2>1, CallbackGrows DEF LinkInv, CallbackTypes
    <2>8. Quiet("ADV_STARTED")
        BY <1>1, <1>2, <2>2, <2>3, <2>6, <2>7 DEF Quiet
    <2> QED BY <1>2, <2>8, QuietKeeps
<1>4. CASE CompleteAdvStop
    <2>1. ctl' = [Finish(Op("adv_stop")) EXCEPT !.adv = "off", !.advStopped = TRUE] /\ queue' = queue
          /\ ctl.ops \cap AdvOps = {}
        BY <1>4 DEF CompleteAdvStop
    <2>2. ctl'.ops = ctl.ops \ {Op("adv_stop")} /\ ctl'.adv = "off"
        <3> DEFINE done == Finish(Op("adv_stop"))
        <3>1. done \in CtlType /\ done.ops = ctl.ops \ {Op("adv_stop")}
            BY DEF Finish, TypeOK, CtlType
        <3>2. ctl' = [done EXCEPT !.adv = "off", !.advStopped = TRUE]
            BY <2>1
        <3> HIDE DEF done
        <3> QED BY <3>1, <3>2 DEF CtlType
    <2>3. ctl'.ops \cap AdvOps = {} /\ ~OnAir'
        BY <2>1, <2>2 DEF OnAir
    <2>4. DisconnectComing' = DisconnectComing
        BY <1>1, <2>2, OpFacts DEF DisconnectComing
    <2>5. Grows("ADV_STARTED")
        BY <2>1, SameGrows
    <2>6. Quiet("ADV_STARTED")
        BY <1>1, <1>2, <2>2, <2>3, <2>4, <2>5 DEF Quiet
    <2> QED BY <1>2, <2>6, QuietKeeps
<1> QED BY <1>3, <1>4

LEMMA CompletionsLinked ==
    ASSUME TypeOK, LinkInv, Completions
    PROVE  LinkInv'
<1>1. CASE CompleteRemoveBond
    <2>1. PICK op \in ctl.ops, result \in {"ok", "failed"} :
              /\ op[1] = "remove_bond"
              /\ ctl' = [Finish(op) EXCEPT !.bondRemoved = result]
        BY <1>1 DEF CompleteRemoveBond
    <2>2. UNCHANGED <<s, work, callbackGen, link>> /\ queue' = queue
        BY <1>1 DEF CompleteRemoveBond, WorkerVars
    <2>3. op \notin OwnOps
        <3>1. op = <<op[1], op[2]>>
            BY DEF TypeOK, CtlType
        <3> QED BY <2>1, <3>1, OpFacts
    <2>4. SameAir
        <3> DEFINE done == Finish(op)
        <3>1. /\ done.adv = ctl.adv /\ done.advStopped = ctl.advStopped
              /\ done.ops \cap OwnOps = ctl.ops \cap OwnOps /\ done \in CtlType
            BY <2>3, FinishAloof
        <3>2. ctl' = [done EXCEPT !.bondRemoved = result]
            BY <2>1
        <3> HIDE DEF done
        <3>3. ctl'.adv = done.adv /\ ctl'.advStopped = done.advStopped /\ ctl'.ops = done.ops
            BY <3>1, <3>2 DEF CtlType
        <3> QED BY <3>1, <3>3 DEF SameAir
    <2>5. Grows("WRITE")
        BY <2>2, SameGrows
    <2> QED BY <2>2, <2>4, <2>5, AloofKeeps DEF SameCourse
<1>2. CASE CompleteSuspend
    <2>1. PICK name \in {"suspend", "resume"} :
              /\ ctl' = Finish(Op(name))
              /\ CallbackMessage("SUSPEND", TRUE, name = "suspend", NoPeer)
        BY <1>2 DEF CompleteSuspend
    <2>2. UNCHANGED <<s, work, callbackGen, link>> /\ NoPeer \in Peers
        BY <1>2 DEF CompleteSuspend, WorkerVars, Outside, Peers
    <2>3. Op(name) \notin OwnOps
        BY OpFacts DEF Op
    <2>4. SameAir /\ SameCourse
        BY <2>1, <2>2, <2>3, FinishAloof DEF SameAir, SameCourse
    <2>5. Grows("SUSPEND")
        BY <2>1, <2>2, CallbackGrows DEF LinkInv, CallbackTypes
    <2> QED BY <2>2, <2>4, <2>5, AloofKeeps
<1> QED BY <1>1, <1>2, CompleteGateLinked, CompleteTableLinked, AdvCompletesLinked DEF Completions


\* each callback of the link moves the view on by one
LEMMA LinkMovesLinked ==
    ASSUME TypeOK, LinkInv, ConnectClear \/ ConnectUp \/ DisconnectMark \/ DisconnectDown
    PROVE  LinkInv'
<1>1. UNCHANGED <<s, work, callbackGen, ctl, queue>> /\ link \in LinkType
    BY DEF ConnectClear, ConnectUp, DisconnectMark, DisconnectDown, WorkerVars, TypeOK
<1>2. Grows("WRITE") /\ OnAir' = OnAir
    BY <1>1, SameGrows DEF OnAir
<1>3. <<link.phase, link.live, link.up, link.down>> \in Views
    BY DEF LinkInv, Viewed
<1>4. \A a, b, c, d, e, f, g, h : <<a, b, c, d>> = <<e, f, g, h>> => a = e /\ b = f /\ c = g /\ d = h
    OBVIOUS
<1>5. \/ /\ link.phase = "connect" /\ link.live /\ ~link.up
         /\ link' = [link EXCEPT !.down = FALSE, !.phase = "connect_cleared"]
      \/ /\ link.phase = "connect_cleared" /\ link.live /\ ~link.down
         /\ link' = [link EXCEPT !.up = TRUE, !.phase = "connect_up"]
      \/ /\ link.phase = "disconnect" /\ ~link.live /\ ~link.down
         /\ link' = [link EXCEPT !.up = FALSE, !.phase = "disconnect_marked"]
      \/ /\ link.phase = "disconnect_marked" /\ ~link.live /\ ~link.up
         /\ link' = [link EXCEPT !.down = TRUE, !.phase = "disconnect_down"]
    BY <1>3, <1>4 DEF Views, ConnectClear, ConnectUp, DisconnectMark, DisconnectDown
<1>6. /\ link'.live = link.live
      /\ \/ link.phase = "connect" /\ link'.phase = "connect_cleared" /\ link'.up = link.up /\ ~link'.down
         \/ link.phase = "connect_cleared" /\ link'.phase = "connect_up" /\ link'.up /\ link'.down = link.down
         \/ link.phase = "disconnect" /\ link'.phase = "disconnect_marked" /\ ~link'.up /\ link'.down = link.down
         \/ link.phase = "disconnect_marked" /\ link'.phase = "disconnect_down" /\ link'.up = link.up /\ link'.down
    BY <1>1, <1>5 DEF LinkType
<1>7. Viewed'
    <2>1. link'.up \in BOOLEAN /\ link'.down \in BOOLEAN /\ link'.live \in BOOLEAN
        <3>1. link' \in LinkType
            BY <1>1, <1>5 DEF LinkType, LinkPhases
        <3> QED BY <3>1 DEF LinkType
    <2>2. <<link'.phase, link'.live, link'.up, link'.down>> \in
             {<<"connect_cleared", TRUE, FALSE, FALSE>>, <<"connect_up", TRUE, TRUE, FALSE>>,
              <<"disconnect_marked", FALSE, FALSE, FALSE>>, <<"disconnect_down", FALSE, FALSE, TRUE>>}
        BY <1>1, <1>5, <1>6, <2>1
    <2> QED BY <2>2 DEF Viewed, Views
<1>8. /\ Attached' => Attached
      /\ Joining' => Joining
      /\ link'.phase \in {"connect", "connect_cleared"} => link.phase \in {"connect", "connect_cleared"}
      /\ Attached' /\ DisconnectComing => DisconnectComing'
    BY <1>1, <1>5, <1>6 DEF Attached, Joining, DisconnectComing
<1>9. Quiet("WRITE")
    BY <1>1, <1>2, <1>8 DEF Quiet, LinkInv, Aired, Wound
<1> QED BY <1>7, <1>9, QuietKeeps

\* a link is told of once it is up, when nothing said of an earlier one is left
LEMMA ConnectPostLinked ==
    ASSUME TypeOK, LinkInv, ConnectPost
    PROVE  LinkInv'
<1>1. UNCHANGED <<s, work, callbackGen, ctl>> /\ link \in LinkType /\ NoPeer \in Peers
    BY DEF ConnectPost, WorkerVars, TypeOK, Peers
<1>2. Grows("CONNECTED")
    BY <1>1, CallbackGrows DEF ConnectPost, CallbackTypes, LinkInv
<1>3. <<link.phase, link.live, link.up, link.down>> \in Views
    BY DEF LinkInv, Viewed
<1>4. \A a, b, c, d, e, f, g, h : <<a, b, c, d>> = <<e, f, g, h>> => a = e /\ b = f /\ c = g /\ d = h
    OBVIOUS
<1>5. link.phase = "connect_up" /\ link.live = TRUE /\ link.up = TRUE /\ link.down = FALSE
    BY <1>3, <1>4 DEF Views, ConnectPost
<1>6. link'.phase = "idle" /\ link'.live = TRUE /\ link'.up = TRUE /\ link'.down = FALSE
    BY <1>1, <1>5 DEF ConnectPost, LinkType
<1>7. Attached /\ Attached' /\ Joining /\ ~Joining' /\ OnAir' = OnAir
    BY <1>1, <1>5, <1>6 DEF Attached, Joining, OnAir
<1>8. DisconnectComing' = DisconnectComing
    BY <1>1, <1>5, <1>6 DEF DisconnectComing
<1>9. /\ HostOn(s') = HostOn(s) /\ Winding' = Winding /\ Silenced' = Silenced /\ Running' = Running
      /\ Stamped'
    BY <1>1, <1>2, OthersLeave
<1>10. /\ \A i, t : Queued(i, t)' => Queued(i, t) \/ (t = "CONNECTED" /\ i = Len(queue) + 1)
       /\ \A i, t : Queued(i, t) => i \in 1..Len(queue) /\ i < Len(queue) + 1
    BY <1>1, <1>2, GrowsQueued
<1>11. Viewed'
    BY <1>6 DEF Viewed, Views
<1>12. Served'
    <2>1. OnAir' \/ Attached' => {"hid", "host_on"} \subseteq s'.layers
        BY <1>1, <1>7 DEF LinkInv, Served
    <2>2. "hid" \notin s'.layers => Op("hid") \notin ctl'.ops
        BY <1>1 DEF LinkInv, Served
    <2>3. "hid" \in s'.layers
        BY <1>1, <1>7 DEF LinkInv, Served
    <2> QED BY <2>1, <2>2, <2>3 DEF Served
<1>13. Aired'
    BY <1>1, <1>7, <1>9 DEF LinkInv, Aired
<1>14. Wound'
    BY <1>1, <1>6, <1>7, <1>8, <1>9 DEF LinkInv, Wound
<1>15. Told'
    <2> SUFFICES ASSUME Running'
                 PROVE  Told'
        BY DEF Told
    <2>1. ~Silenced
        BY <1>9 DEF Running, Silenced
    <2>2. s.advertising /\ ~s.connected /\ ~OnAir
        BY <1>7, <2>1 DEF LinkInv, Aired
    <2>3. \A i, t : Queued(i, t) => t # "CONNECTED"
        BY <1>7, <1>9, <1>10 DEF LinkInv, Told
    <2>4. \A i \in 1..Len(queue') : Queued(i, "CONNECTED")' => i = Len(queue) + 1
        BY <1>10, <2>3
    <2>5. \A i \in 1..Len(queue') : Queued(i, "DISCONNECTED")' => i < Len(queue) + 1
        BY <1>10
    <2>6. Len(queue) \in Nat
        BY QueueFacts
    <2>7. \A i, j \in 1..Len(queue') :
             Queued(i, "CONNECTED")' /\ Queued(j, "DISCONNECTED")' => ~(i < j)
        BY <2>4, <2>5, <2>6
    <2>8. s'.advertising /\ ~s'.connected /\ ~OnAir' /\ ~Joining'
        BY <1>1, <1>7, <2>2
    <2> QED BY <2>4, <2>7, <2>8 DEF Told
<1> QED BY <1>9, <1>11, <1>12, <1>13, <1>14, <1>15 DEF LinkInv

LEMMA DisconnectPostLinked ==
    ASSUME TypeOK, LinkInv, DisconnectPost
    PROVE  LinkInv'
<1>1. UNCHANGED <<s, work, callbackGen, ctl>> /\ link \in LinkType /\ NoPeer \in Peers
    BY DEF DisconnectPost, WorkerVars, TypeOK, Peers
<1>2. Grows("DISCONNECTED")
    BY <1>1, CallbackGrows DEF DisconnectPost, CallbackTypes, LinkInv
<1>3. <<link.phase, link.live, link.up, link.down>> \in Views
    BY DEF LinkInv, Viewed
<1>4. \A a, b, c, d, e, f, g, h : <<a, b, c, d>> = <<e, f, g, h>> => a = e /\ b = f /\ c = g /\ d = h
    OBVIOUS
<1>5. link.phase = "disconnect_down" /\ link.live = FALSE /\ link.up = FALSE /\ link.down = TRUE
    BY <1>3, <1>4 DEF Views, DisconnectPost
<1>6. link'.phase = "idle" /\ link'.live = FALSE /\ link'.up = FALSE /\ link'.down = TRUE
    BY <1>1, <1>5 DEF DisconnectPost, LinkType
<1>7. ~Attached' /\ ~Joining' /\ OnAir' = OnAir
    BY <1>1, <1>6 DEF Attached, Joining, OnAir
<1>8. Quiet("DISCONNECTED")
    BY <1>1, <1>2, <1>6, <1>7 DEF Quiet, LinkInv, Aired, Wound
<1>9. Viewed'
    BY <1>6 DEF Viewed, Views
<1> QED BY <1>7, <1>8, <1>9, QuietKeeps

\* a host finds the remote only while it advertises, which needs the whole stack
LEMMA HostConnectLinked ==
    ASSUME TypeOK, LinkInv, HostConnect
    PROVE  LinkInv'
<1>1. UNCHANGED <<s, work, callbackGen, queue>> /\ link \in LinkType /\ ctl \in CtlType
    BY DEF HostConnect, WorkerVars, TypeOK
<1>2. PICK h \in Hosts : link' = [link EXCEPT !.live = TRUE, !.host = h, !.phase = "connect"]
    BY DEF HostConnect
<1>3. ctl' = [ctl EXCEPT !.adv = "off"] /\ ctl.adv # "off" /\ ~link.live /\ link.phase = "idle"
    BY DEF HostConnect, CallbackIdle
<1>4. <<link.phase, link.live, link.up, link.down>> \in Views
    BY DEF LinkInv, Viewed
<1>5. \A a, b, c, d, e, f, g, h1 : <<a, b, c, d>> = <<e, f, g, h1>> => a = e /\ b = f /\ c = g /\ d = h1
    OBVIOUS
<1>6. link.up = FALSE /\ link.down = TRUE
    BY <1>3, <1>4, <1>5 DEF Views
<1>7. link'.phase = "connect" /\ link'.live = TRUE /\ link'.up = FALSE /\ link'.down = TRUE
    BY <1>1, <1>2, <1>6 DEF LinkType
<1>8. ctl'.adv = "off" /\ ctl'.ops = ctl.ops /\ ctl'.advStopped = ctl.advStopped
    BY <1>1, <1>3 DEF CtlType
<1>9. OnAir /\ ctl.ops \cap AdvOps = {} /\ ~OnAir' /\ Attached' /\ Joining'
    BY <1>3, <1>7, <1>8 DEF LinkInv, Aired, OnAir, Attached, Joining
<1>10. Grows("WRITE")
    BY <1>1, SameGrows
<1>11. /\ HostOn(s') = HostOn(s) /\ Winding' = Winding /\ Silenced' = Silenced /\ Running' = Running
       /\ Stamped'
    BY <1>1, <1>10, OthersLeave
<1>12. ~Silenced /\ s.advertising /\ ~s.connected
    BY <1>9 DEF LinkInv, Wound, Aired
<1>13. Viewed'
    BY <1>7 DEF Viewed, Views
<1>14. \A i, t : Queued(i, t)' = Queued(i, t)
    BY <1>1 DEF Queued
<1>15. Served'
    BY <1>1, <1>8, <1>9, <1>11, <1>14 DEF LinkInv, Served
<1>16. Aired'
    BY <1>1, <1>8, <1>9, <1>11, <1>12 DEF LinkInv, Aired
<1>17. Wound'
    <2>1. work.pc = "adv_wait" => ~ctl.advStopped
        BY <1>9 DEF LinkInv, Wound
    <2>2. work.pc = "link_wait" => work.k = "auth_retry"
        BY <1>12 DEF Silenced, Winding
    <2>3. ~(Winding /\ work.pc \in {"teardown", "host_off"})
        BY <1>12 DEF Silenced
    <2> QED BY <1>1, <1>8, <1>11, <1>12, <2>1, <2>2, <2>3 DEF LinkInv, Wound
<1>18. Told'
    <2>1. Running => \A i \in 1..Len(queue) : ~Queued(i, "CONNECTED")
        BY <1>9 DEF LinkInv, Told
    <2> QED BY <1>1, <1>11, <1>12, <1>14, <2>1 DEF Told
<1> QED BY <1>11, <1>13, <1>15, <1>16, <1>17, <1>18 DEF LinkInv

LEMMA LinkEndsLinked ==
    ASSUME TypeOK, LinkInv, LinkEnds
    PROVE  LinkInv'
<1>1. UNCHANGED <<s, work, callbackGen, queue>> /\ link \in LinkType /\ ctl \in CtlType
    BY DEF LinkEnds, WorkerVars, TypeOK
<1>2. /\ link' = [link EXCEPT !.live = FALSE, !.enc = FALSE, !.phase = "disconnect"]
      /\ ctl' = Finish(Op("disconnect"))
      /\ link.phase = "idle" /\ link.live
    BY DEF LinkEnds, CallbackIdle
<1>3. <<link.phase, link.live, link.up, link.down>> \in Views
    BY DEF LinkInv, Viewed
<1>4. \A a, b, c, d, e, f, g, h : <<a, b, c, d>> = <<e, f, g, h>> => a = e /\ b = f /\ c = g /\ d = h
    OBVIOUS
<1>5. link.up = TRUE /\ link.down = FALSE
    BY <1>2, <1>3, <1>4 DEF Views
<1>6. link'.phase = "disconnect" /\ link'.live = FALSE /\ link'.up = TRUE /\ link'.down = FALSE
    BY <1>1, <1>2, <1>5 DEF LinkType
<1>7. ctl'.adv = ctl.adv /\ ctl'.ops = ctl.ops \ {Op("disconnect")} /\ ctl'.advStopped = ctl.advStopped
    BY <1>1, <1>2 DEF Finish, CtlType
<1>8. Op("disconnect") \notin AdvOps
    BY OpFacts
<1>9. ctl'.ops \cap AdvOps = ctl.ops \cap AdvOps
    BY <1>7, <1>8
<1>10. /\ OnAir' = OnAir /\ Attached /\ ~Joining' /\ DisconnectComing'
    BY <1>2, <1>6, <1>7, <1>9 DEF OnAir, Attached, Joining, DisconnectComing
<1>11. Grows("WRITE")
    BY <1>1, SameGrows
<1>12. Quiet("WRITE")
    BY <1>1, <1>6, <1>7, <1>9, <1>10, <1>11 DEF Quiet, LinkInv, Aired, Wound
<1>13. Viewed'
    BY <1>6 DEF Viewed, Views
<1> QED BY <1>12, <1>13, QuietKeeps

LEMMA HostEventsLinked ==
    ASSUME TypeOK, LinkInv, HostAuth \/ HostWrite \/ HostSuspend
    PROVE  LinkInv'
<1>1. UNCHANGED <<s, work, callbackGen>> /\ NoPeer \in Peers /\ link \in LinkType /\ ctl \in CtlType
      /\ link.host \in Peers
    BY DEF HostAuth, HostWrite, HostSuspend, WorkerVars, Peers, TypeOK, LinkType
<1>2. SameCourse
    BY <1>1 DEF HostAuth, HostWrite, HostSuspend, Outside, SameCourse, LinkType
<1>3. SameAir
    <2>1. CASE HostAuth \/ HostWrite
        BY <2>1 DEF HostAuth, HostWrite, SameAir
    <2>2. CASE HostSuspend
        <3>1. PICK name \in {"suspend", "resume"} : ctl' = [ctl EXCEPT !.ops = @ \cup {Op(name)}]
            BY <2>2 DEF HostSuspend
        <3>2. Op(name) \notin OwnOps
            BY OpFacts DEF Op
        <3>3. /\ ctl'.adv = ctl.adv /\ ctl'.advStopped = ctl.advStopped
              /\ ctl'.ops = ctl.ops \cup {Op(name)}
            BY <1>1, <3>1 DEF CtlType
        <3> QED BY <3>2, <3>3 DEF SameAir
    <2> QED BY <2>1, <2>2
<1>4. "hid" \in s.layers
    BY DEF HostAuth, HostWrite, HostSuspend, Attached, LinkInv, Served
<1>5. \E type \in {"AUTH", "WRITE"} : Grows(type)
    <2>1. \E type \in {"AUTH", "WRITE"}, ok \in BOOLEAN, peer \in Peers : CallbackMessage(type, ok, FALSE, peer)
        BY <1>1 DEF HostAuth, HostWrite, HostSuspend
    <2> QED BY <2>1, CallbackGrows DEF LinkInv, CallbackTypes
<1> QED BY <1>1, <1>2, <1>3, <1>4, <1>5, AloofKeeps

LEMMA LinkStepsLinked ==
    ASSUME TypeOK, LinkInv, Completions \/ LinkCallbacks \/ Host
    PROVE  LinkInv'
BY CompletionsLinked, LinkMovesLinked, ConnectPostLinked, DisconnectPostLinked, HostConnectLinked,
   LinkEndsLinked, HostEventsLinked DEF LinkCallbacks, Host


-----------------------------------------------------------------------------
(* The UI, power, and the theorems                                           *)

LEMMA ApiSent ==
    ASSUME NEW m, Send(m) \/ Enqueue(m), m.type \in ApiTypes, m.generation = 0
    PROVE  queue' = queue \/ \E n : queue' = Append(queue, n) /\ n.type \in ApiTypes /\ n.generation = 0
BY DEF Send, Enqueue

LEMMA UiStepsLinked ==
    ASSUME TypeOK, LinkInv, UiMenu \/ UiTurn
    PROVE  LinkInv'
<1>1. UNCHANGED <<s, work, callbackGen, link, ctl>>
    BY DEF UiMenu, UiTurn, UiClose, UiForget, UiTap, UiRelease, UiOpen, UiOpenSend, UiPeerStale, UiPeer,
           Background, WorkerVars
<1>2. SameCourse /\ SameAir
    BY <1>1 DEF SameCourse, SameAir
<1>3. queue' \in Seq(Messages) /\ NoMessage.generation = 0 /\ s.generation \in Nat
    BY UiStepsType DEF TypeOK, NoMessage, WorkerType
<1>4. \/ queue' = queue
      \/ \E m : queue' = Append(queue, m) /\ m.type \in ApiTypes /\ m.generation = 0
    <2>1. CASE UiPeerStale \/ \E p \in Profiles : UiOpen(p)
        BY <2>1 DEF UiPeerStale, UiOpen
    <2>2. CASE UiOpenSend
        <3> DEFINE m == [NoMessage EXCEPT !.type = "OPEN", !.session = ui.seq, !.remote = Saved(ui.profile)]
        <3>1. queue' = queue \/ Enqueue(m)
            BY <2>2 DEF UiOpenSend
        <3>2. m.type \in ApiTypes /\ m.generation = 0
            BY DEF NoMessage, ApiTypes
        <3> HIDE DEF m
        <3> QED BY <3>1, <3>2, ApiSent
    <2>3. CASE UiClose
        <3> DEFINE m == [NoMessage EXCEPT !.type = "CLOSE"]
        <3>1. Send(m)
            BY <2>3 DEF UiClose
        <3>2. m.type \in ApiTypes /\ m.generation = 0
            BY DEF NoMessage, ApiTypes
        <3> HIDE DEF m
        <3> QED BY <3>1, <3>2, ApiSent
    <2>4. CASE UiForget
        <3>1. PICK flag \in BOOLEAN : Enqueue([NoMessage EXCEPT !.type = "FORGET", !.session = ui.session, !.flag = flag])
            BY <2>4 DEF UiForget
        <3> DEFINE m == [NoMessage EXCEPT !.type = "FORGET", !.session = ui.session, !.flag = flag]
        <3>2. Send(m) \/ Enqueue(m)
            BY <3>1
        <3>3. m.type \in ApiTypes /\ m.generation = 0
            BY DEF NoMessage, ApiTypes
        <3> HIDE DEF m
        <3> QED BY <3>2, <3>3, ApiSent
    <2>5. CASE UiTap \/ UiRelease
        <3>1. PICK type \in {"TAP", "RELEASE"} : Enqueue([NoMessage EXCEPT !.type = type, !.session = ui.session])
            BY <2>5 DEF UiTap, UiRelease
        <3> DEFINE m == [NoMessage EXCEPT !.type = type, !.session = ui.session]
        <3>2. Send(m) \/ Enqueue(m)
            BY <3>1
        <3>3. m.type \in ApiTypes /\ m.generation = 0
            BY DEF NoMessage, ApiTypes
        <3> HIDE DEF m
        <3> QED BY <3>2, <3>3, ApiSent
    <2>6. CASE UiPeer
        <3>1. PICK ok, remote : Send([NoMessage EXCEPT !.type = "SAVED", !.session = ui.session, !.flag = ok,
                                                       !.remote = remote])
            BY <2>6 DEF UiPeer
        <3> DEFINE m == [NoMessage EXCEPT !.type = "SAVED", !.session = ui.session, !.flag = ok,
                                           !.remote = remote]
        <3>2. Send(m) \/ Enqueue(m)
            BY <3>1
        <3>3. m.type \in ApiTypes /\ m.generation = 0
            BY DEF NoMessage, ApiTypes
        <3> HIDE DEF m
        <3> QED BY <3>2, <3>3, ApiSent
    <2> QED BY <2>1, <2>2, <2>3, <2>4, <2>5, <2>6 DEF UiMenu, UiTurn
<1>5. CASE queue' = queue
    <2>1. Grows("WRITE")
        BY <1>5, SameGrows
    <2> QED BY <1>1, <1>2, <2>1, AloofKeeps
<1>6. ASSUME NEW m, queue' = Append(queue, m), m.type \in ApiTypes, m.generation = 0
      PROVE  LinkInv'
    <2>1. m \in Messages
        <3>1. queue \in Seq(Messages) /\ Len(queue) \in Nat
            BY QueueFacts DEF TypeOK
        <3>2. Len(queue') = Len(queue) + 1 /\ queue'[Len(queue) + 1] = m
            BY <1>6, <3>1
        <3>3. Len(queue) + 1 \in 1..Len(queue')
            BY <3>1, <3>2
        <3>4. queue'[Len(queue) + 1] \in Messages
            BY <1>3, <3>3
        <3> QED BY <3>2, <3>4
    <2>2. m.generation <= s.generation
        BY <1>3, <1>6
    <2>3. Grows(m.type)
        BY <1>6, <2>1, <2>2, AppendGrows
    <2>4. m.type \notin {"CONNECTED", "DISCONNECTED", "HID_READY", "AUTH"}
        BY <1>6 DEF ApiTypes
    <2> QED BY <1>1, <1>2, <2>3, <2>4, AloofKeeps
<1> QED BY <1>4, <1>5, <1>6

LEMMA IdleLinked ==
    ASSUME s = IdleWorker, work = IdleWork, ctl = IdleCtl, link = IdleLink, queue = << >>, callbackGen = 0
    PROVE  LinkInv
<1>1. ~HostOn(s) /\ ~Winding /\ ~Silenced /\ ~Running /\ ~OnAir /\ ~Attached /\ ~Joining
    BY DEF IdleWorker, IdleWork, IdleCtl, IdleLink, HostOn, Winding, Silenced, Running, OnAir, Attached, Joining
<1>2. Viewed
    BY DEF IdleLink, Viewed, Views
<1>3. Stamped
    BY <1>1 DEF IdleWork, Stamped
<1>4. Served /\ Aired
    BY <1>1 DEF IdleCtl, IdleWorker, Served, Aired
<1>5. Wound
    BY <1>1 DEF IdleWork, Wound
<1> QED BY <1>1, <1>2, <1>3, <1>4, <1>5 DEF LinkInv, Told

LEMMA PowerLossLinked ==
    ASSUME PowerLoss
    PROVE  LinkInv'
<1>0. /\ s' = IdleWorker /\ work' = IdleWork /\ ctl' = IdleCtl /\ link' = IdleLink
      /\ queue' = << >> /\ callbackGen' = 0
    BY DEF PowerLoss
<1>1. /\ ~HostOn(s') /\ ~Winding' /\ ~Silenced' /\ ~Running' /\ ~OnAir' /\ ~Attached' /\ ~Joining'
    BY <1>0 DEF IdleWorker, IdleWork, IdleCtl, IdleLink, HostOn, Winding, Silenced, Running, OnAir, Attached, Joining
<1>2. Viewed'
    BY <1>0 DEF IdleLink, Viewed, Views
<1>3. Stamped'
    BY <1>0, <1>1 DEF IdleWork, Stamped
<1>4. Served' /\ Aired'
    BY <1>0, <1>1 DEF IdleCtl, IdleWorker, Served, Aired
<1>5. Wound'
    BY <1>0, <1>1 DEF IdleWork, Wound
<1> QED BY <1>1, <1>2, <1>3, <1>4, <1>5 DEF LinkInv, Told

LEMMA LinkInvStep ==
    ASSUME CleanStops, TypeOK, StoppedInv, LinkInv, [Next]_vars
    PROVE  LinkInv'
<1>1. CASE UNCHANGED vars
    <2>1. UNCHANGED <<s, work, callbackGen, link, ctl, queue>>
        BY <1>1 DEF vars
    <2>2. Grows("WRITE") /\ SameCourse /\ SameAir
        BY <2>1, SameGrows DEF SameCourse, SameAir
    <2> QED BY <2>1, <2>2, AloofKeeps
<1>2. HostDownIsSilent
    BY DEF StoppedInv
<1>3. CASE Worker
    BY <1>2, <1>3, StopStepsLinked, FinishStepsLinked, ApiHandlersLinked, CallbackHandlersLinked, TailLinked DEF Worker
<1> QED BY <1>1, <1>2, <1>3, TailLinked, LinkStepsLinked, UiStepsLinked, PowerLossLinked DEF Next

\* What worker and callback task know of the link stays true to it, as long as
\* the waits and calls of a stop succeed.
THEOREM LinkViewCorrect == CleanStops => (Spec => []LinkInv)
<1> SUFFICES ASSUME CleanStops PROVE Spec => []LinkInv
    OBVIOUS
<1>1. Init => LinkInv
    BY IdleLinked DEF Init
<1>2. TypeOK /\ StoppedInv /\ LinkInv /\ [Next]_vars => LinkInv'
    BY LinkInvStep
<1> QED BY <1>1, <1>2, TypeCorrect, StoppedCorrect, PTL DEF Spec

\* Neither a link nor a GATT callback that still has to run the HID handler ever
\* outlives the HID device or the host, when the waits and calls of a stop succeed
\* (bt_runtime.c:330-333: "Do not destroy the HID event loop or disable Bluedroid
\* underneath a live/unfinished link").
THEOREM NothingTornDownUnderLink == CleanStops => (Spec => []LinkNeedsHost)
<1> SUFFICES ASSUME CleanStops PROVE Spec => []LinkNeedsHost
    OBVIOUS
<1>1. LinkInv => LinkNeedsHost
    BY DEF LinkInv, Served, LinkNeedsHost, Attached
<1> QED BY <1>1, LinkViewCorrect, PTL

LEMMA ActsOnCurrent ==
    ASSUME TypeOK, LinkInv, Next, ActsOnCallback
    PROVE  callbackGen = Msg.generation
<1>1. queue' # queue /\ work.pc = "idle" /\ work'.pc \notin {"idle", "tail"} /\ Msg.type \in CallbackTypes
    BY DEF ActsOnCallback
<1>2. CASE CallbackHandlers \/ ApiHandlers
    <2>1. CASE \E types : TakeCallback(types)
        <3>1. Current(Msg)
            BY <2>1 DEF TakeCallback
        <3>2. Running
            BY <1>1, <3>1 DEF Running, Winding, Current
        <3> QED BY <3>1, <3>2 DEF LinkInv, Stamped, Current
    <2>2. CASE HandleDropped
        BY <1>1, <2>2 DEF HandleDropped, Done, TypeOK, WorkType, CallbackTypes
    <2>3. CASE \E types \in SUBSET ApiTypes : Take(types)
        BY <1>1, <2>3 DEF Take, Msg, ApiTypes, CallbackTypes
    <2> QED
        BY <1>2, <2>1, <2>2, <2>3 DEF CallbackHandlers, HandleGate, HandleHidReady, HandlePrivacy,
           HandleWhitelist, HandlePeerPrivacy, HandleAdvStarted, HandleConnected, HandleAuthFailed, HandleAuthOk,
           HandleDisconnected, HandleWrite, HandleSuspend, ApiHandlers, HandleOpen, HandleForget, HandleSaved,
           HandleTap, HandleRelease, HandleClose, ApiTypes
<1>3. CASE StopSteps \/ FinishSteps \/ AfterCallback \/ Advertise \/ TailClose \/ TailExpired \/ TailDone
    BY <1>1, <1>3 DEF StopSteps, StopAdvertisingSkip, StopAdvertisingRequest, StopAdvertisingWait, DisconnectLink,
       DisconnectDone, DisconnectTimeout, TeardownHid, TeardownHost, FinishSteps, FinishFail, FinishTimeout,
       FinishClose, FinishUnpair, FinishAuthRetry, FinishOpen, FinishRestart, FinishRelease, FinishForget,
       RemoveBondWait, Resume, AfterCallback, Advertise, TailClose, TailExpired, TailDone
<1>4. CASE Poll \/ DeadlinePasses
    BY <1>1, <1>4 DEF Poll, DeadlinePasses
<1>5. CASE Completions \/ LinkCallbacks \/ Host \/ UiMenu \/ UiTurn
    <2>1. work' = work
        BY <1>5 DEF Completions, CompleteGate, CompleteTable, CompleteAdvStart, CompleteAdvStop, CompleteRemoveBond,
           CompleteSuspend, LinkCallbacks, ConnectClear, ConnectUp, ConnectPost, DisconnectMark, DisconnectDown,
           DisconnectPost, Host, HostConnect, LinkEnds, HostAuth, HostWrite, HostSuspend, UiMenu, UiTurn, UiClose,
           UiForget, UiTap, UiRelease, UiOpen, UiOpenSend, UiPeerStale, UiPeer, Background, WorkerVars
    <2> QED BY <1>1, <2>1
<1>6. CASE PowerLoss
    BY <1>1, <1>6 DEF PowerLoss, IdleWork
<1> QED BY <1>2, <1>3, <1>4, <1>5, <1>6 DEF Next, Worker

\* A callback message is acted on only in the generation that is still the
\* callback task's own: none queued before a stop is acted on after it, when the
\* waits and calls of a stop succeed (bt_runtime.c:319: "Invalidate queued
\* callbacks before teardown").
THEOREM NoStaleCallbacks == CleanStops => (Spec => StaleCallbacksRejected)
<1> SUFFICES ASSUME CleanStops PROVE Spec => StaleCallbacksRejected
    OBVIOUS
<1>1. TypeOK /\ LinkInv /\ [Next]_vars => [ActsOnCallback => callbackGen = Msg.generation]_vars
    BY ActsOnCurrent
<1> QED BY <1>1, TypeCorrect, LinkViewCorrect, PTL DEF Spec, StaleCallbacksRejected
=============================================================================
