----------------------------- MODULE BtWorker -----------------------------
(***************************************************************************)
(* The worker task of bt_runtime.c.  It owns the stack and handles one     *)
(* queued message at a time.  A handler that stops the runtime blocks on   *)
(* event bits, so it is split at every wait and at every read of state     *)
(* that another task writes; work.k names what it does with the result,    *)
(* and work.post where the worker goes after that.                         *)
(***************************************************************************)
EXTENDS BtState

-----------------------------------------------------------------------------
(* stop_runtime, up to its first wait: the status, the invalidated          *)
(* generation, the cleared deadlines.  k names what the handler does with   *)
(* the result, post where the worker goes after that.                       *)

StoppedFlags(s1) == [s1 EXCEPT !.deadlines = {}, !.due = {}, !.awaiting_save = FALSE, !.forgetting = FALSE]

BeginStop(s1, shown, k, post, m) ==
    /\ callbackGen' = 0
    /\ snapshot' = IF On(s1) THEN [session |-> s1.session, state |-> "STOPPING"] ELSE shown
    /\ s' = StoppedFlags(s1)
    /\ work' = [pc |-> "stop_adv", k |-> k, post |-> post, msg |-> m, ok |-> TRUE]

\* stop_advertising: nothing to do, or the connection already stopped it
StopAdvertisingSkip ==
    /\ work.pc = "stop_adv"
    /\ ~s.advertising \/ link.up
    /\ s' = [s EXCEPT !.advertising = FALSE]
    /\ Goto("disconnect")
    /\ UNCHANGED <<Outside, callbackGen, snapshot, queue, ctl, budget>>

StopAdvertisingRequest ==
    /\ work.pc = "stop_adv"
    /\ s.advertising /\ ~link.up
    /\ ctl' = [ctl EXCEPT !.ops = @ \cup {Op("adv_stop")}, !.advStopped = FALSE]
    /\ Goto("adv_wait")
    /\ UNCHANGED <<Outside, callbackGen, snapshot, queue, s, budget>>

\* the wait ends on ADV_STOPPED, or after 500 ms with an error that is only remembered
StopAdvertisingWait ==
    /\ work.pc = "adv_wait"
    /\ IF ctl.advStopped THEN UNCHANGED budget ELSE Fault("adv_stop")
    /\ s' = [s EXCEPT !.advertising = FALSE]
    /\ ctl' = [ctl EXCEPT !.advStopped = FALSE]
    /\ work' = [work EXCEPT !.pc = "disconnect", !.ok = @ /\ ctl.advStopped]
    /\ UNCHANGED <<Outside, callbackGen, snapshot, queue>>

\* disconnect_link: ask for a disconnect if the callback task has seen a link
DisconnectLink ==
    /\ work.pc = "disconnect"
    /\ ctl' = [ctl EXCEPT !.ops = IF link.up /\ link.live THEN @ \cup {Op("disconnect")} ELSE @]
    /\ Goto("link_wait")
    /\ UNCHANGED <<Outside, callbackGen, snapshot, queue, s, budget>>

\* variant: a stop forgets to mark the link gone
UnlinkedKeepsConnected(s1) == [s1 EXCEPT !.encrypted = FALSE, !.subscribed = FALSE]
Unlinked(s1) == [s1 EXCEPT !.connected = FALSE, !.encrypted = FALSE, !.subscribed = FALSE]

\* LINK_DOWN is set: a fresh-pairing retry resumes, a stop goes on to teardown
DisconnectDone ==
    /\ work.pc = "link_wait" /\ link.down
    /\ s' = Unlinked(s)
    /\ Goto(IF work.k = "auth_retry" THEN "resume" ELSE "teardown")
    /\ UNCHANGED <<Outside, callbackGen, snapshot, queue, ctl, budget>>

\* 1500 ms pass first.  That is a fault when a disconnect is on its way, and
\* certain when nothing will ever set the bit.
DisconnectComing == Op("disconnect") \in ctl.ops \/ link.phase \in {"disconnect", "disconnect_marked"}
DisconnectTimeout ==
    /\ work.pc = "link_wait" /\ ~link.down
    /\ IF DisconnectComing THEN Fault("link_down") ELSE UNCHANGED budget
    /\ s' = Unlinked(s)
    /\ work' = [work EXCEPT !.pc = "resume", !.ok = FALSE]
    /\ UNCHANGED <<Outside, callbackGen, snapshot, queue, ctl>>

\* HID first: its event loop goes with it, unless deinit fails
TeardownHid ==
    /\ work.pc = "teardown"
    /\ \/ /\ s' = [s EXCEPT !.layers = @ \ {"hid"}]
          /\ ctl' = [ctl EXCEPT !.ops = @ \ {Op("hid"), Op("suspend"), Op("resume")}]
          /\ Goto("host_off")
          /\ UNCHANGED budget
       \/ /\ "hid" \in s.layers /\ Fault("teardown")
          /\ work' = [work EXCEPT !.pc = "host_off", !.ok = FALSE]
          /\ UNCHANGED <<s, ctl>>
    /\ UNCHANGED <<Outside, callbackGen, snapshot, queue>>

\* What is left of the stack when the shutdown call of one layer fails: the
\* layers below a running host or controller are then not touched.
StuckWith == [host_on |-> StackLayers,
              host_init |-> {"host_init", "controller_init"},
              controller_on |-> {"controller_on", "controller_init"},
              controller_init |-> {"controller_init"}]

\* Disabling the host waits for its callback task, and ends link and radio
TeardownHost ==
    /\ work.pc = "host_off"
    /\ HostOn(s) => link.phase = "idle"
    /\ \E left \in {{}} \cup {StuckWith[l] \cap s.layers : l \in s.layers \cap StackLayers} :
          /\ IF left = {} THEN UNCHANGED budget ELSE Fault("teardown")
          /\ s' = [s EXCEPT !.layers = left \cup (@ \cap {"hid"}), !.ready = {}, !.phase = "resetting"]
          /\ work' = [work EXCEPT !.pc = "resume", !.ok = @ /\ left = {}]
          /\ IF HostOn(s) /\ "host_on" \notin left
             THEN /\ ctl' = [ctl EXCEPT !.ops = {}, !.adv = "off"]
                  /\ link' = [link EXCEPT !.live = FALSE, !.enc = FALSE]
             ELSE UNCHANGED <<ctl, link>>
    /\ UNCHANGED <<desired, callbackGen, snapshot, queue, nvm, ccc, UiVars>>

-----------------------------------------------------------------------------
(* start_stack and start_runtime *)

CanStart(s1) == s1.layers \cap {"host_on", "host_init", "controller_on", "hid"} = {}

\* variants: a start without a deadline; a generation that counts down
StackUpNoDeadline(s1) == [s1 EXCEPT !.generation = @ + 1, !.store = StoreOf(s1.profile), !.layers = StackLayers]
StackUpCountsDown(s1) == [s1 EXCEPT !.generation = @ - 1, !.deadlines = @ \cup {"start"},
                                    !.store = StoreOf(s1.profile), !.layers = StackLayers]

\* the generation, the start deadline and the bond database are set first
StackUp(s1) == [s1 EXCEPT !.generation = @ + 1, !.deadlines = @ \cup {"start"},
                          !.store = StoreOf(s1.profile), !.layers = StackLayers]

\* how far a start that fails can have come: fail() stops it again
PartialStacks == {{}, {"controller_init"}, {"controller_init", "controller_on"},
                  {"controller_init", "controller_on", "host_init"}, StackLayers}

StartStackFails(s1, post, m) ==
    \/ /\ ~CanStart(s1)
       /\ BeginStop(s1, snapshot, "fail", post, m)
       /\ UNCHANGED <<ctl, budget>>
    \/ /\ CanStart(s1)
       /\ Fault("api")
       /\ \E left \in PartialStacks :
             BeginStop([StackUp(s1) EXCEPT !.layers = left \cup (s1.layers \cap {"controller_init"})],
                       [session |-> s1.session, state |-> "STARTING"], "fail", post, m)
       /\ UNCHANGED ctl

\* variant: a start does not look for the bond
BondNeverMissing(s1) == FALSE
BondMissing(s1) == s1.profile.peer # NoPeer /\ ~HasBond(StoreOf(s1.profile), s1.profile.peer)

StartRuntime(s1, post, m) ==
    \/ StartStackFails(s1, post, m) /\ UNCHANGED ccc
    \/ /\ CanStart(s1) /\ BondMissing(s1)
       /\ BeginStop(StackUp(s1), snapshot, "fail", post, m)
       /\ UNCHANGED <<ctl, ccc, budget>>
    \/ /\ CanStart(s1) /\ ~BondMissing(s1)
       /\ s' = [StackUp(s1) EXCEPT !.layers = Layers,
                                   !.pairing = s1.profile.peer = NoPeer,
                                   !.saved = s1.profile.peer # NoPeer,
                                   !.awaiting_save = FALSE, !.forgetting = FALSE, !.suspended = FALSE,
                                   !.phase = "resetting"]
       /\ callbackGen' = s1.generation + 1
       /\ Status(s1, "STARTING")
       /\ ctl' = [ctl EXCEPT !.ops = @ \cup {Op(g) : g \in Gates} \cup {Op("privacy_off")}]
       /\ ccc' = FALSE
       /\ work' = [work EXCEPT !.pc = post, !.msg = m]
       /\ UNCHANGED budget

-----------------------------------------------------------------------------
(* What each handler does once the runtime has stopped (or failed to)       *)

Resume(k) == work.pc = "resume" /\ work.k = k

\* fail(): the error is what the UI sees, whatever the stop returned
FinishFail ==
    /\ Resume("fail")
    /\ Status(s, "ERROR")
    /\ Goto(work.post)
    /\ UNCHANGED <<Outside, callbackGen, queue, s, ctl, budget>>

FinishTimeout ==
    /\ Resume("timeout")
    /\ Status(s, "PAIR_TIMEOUT")
    /\ Goto(work.post)
    /\ UNCHANGED <<Outside, callbackGen, queue, s, ctl, budget>>

\* variant: OFF is shown whatever the stop returned
FinishCloseAlwaysOff ==
    /\ Resume("close")
    /\ Status(s, "OFF")
    /\ s' = [s EXCEPT !.session = 0]
    /\ Goto(work.post)
    /\ UNCHANGED <<Outside, callbackGen, queue, ctl, budget>>

FinishClose ==
    /\ Resume("close")
    /\ Status(s, IF work.ok THEN "OFF" ELSE "ERROR")
    /\ s' = [s EXCEPT !.session = 0]
    /\ Goto(work.post)
    /\ UNCHANGED <<Outside, callbackGen, queue, ctl, budget>>

FinishUnpair ==
    /\ Resume("unpair")
    /\ Status(s, IF work.ok THEN "UNPAIRED" ELSE "ERROR")
    /\ Goto(work.post)
    /\ UNCHANGED <<Outside, callbackGen, queue, s, ctl, budget>>

\* disconnect_link() after a failed fresh-pairing attempt: its result is ignored
FinishAuthRetry ==
    /\ Resume("auth_retry")
    /\ Status(s, "PAIRING")
    /\ Goto(work.post)
    /\ UNCHANGED <<Outside, callbackGen, queue, s, ctl, budget>>

\* restart on success, fail() on a stop error
RestartWith(s1) ==
    \/ /\ work.ok
       /\ StartRuntime(s1, work.post, work.msg)
    \/ /\ ~work.ok
       /\ BeginStop(s1, snapshot, "fail", work.post, work.msg)
       /\ UNCHANGED <<ctl, ccc, budget>>

FinishOpen ==
    /\ Resume("open")
    /\ RestartWith([s EXCEPT !.session = work.msg.session, !.profile = work.msg.remote])
    /\ UNCHANGED <<desired, queue, link, nvm, UiVars>>

FinishRestart ==
    /\ Resume("restart")
    /\ RestartWith(s)
    /\ UNCHANGED <<desired, queue, link, nvm, UiVars>>

\* release_input restarts only a session that is still wanted
FinishRelease ==
    /\ Resume("release")
    /\ \/ /\ work.ok /\ desired # s.session
          /\ Goto(work.post)
          /\ UNCHANGED <<callbackGen, snapshot, s, ctl, ccc, budget>>
       \/ /\ ~work.ok \/ desired = s.session
          /\ RestartWith(s)
    /\ UNCHANGED <<desired, queue, link, nvm, UiVars>>

\* variant: the bond is removed without looking at the other profiles
UsedNowhere(s1) == FALSE
\* FORGET: bring up the stack only, to open the bond database of this profile
UsedElsewhere(s1) ==
    \E p \in Profiles \ {s1.profile.id} :
        nvm.peer[p] = s1.profile.peer /\ nvm.legacy[p] /\ s1.profile.legacy
MustRemoveBond(s1) ==
    HasBond(StoreOf(s1.profile), s1.profile.peer) /\ ~UsedElsewhere(s1)

\* post_peer: one event for the UI, dropped when its queue stays full
PostPeer(s1, peer) ==
    evtq' = IF Len(evtq) < EvtCap THEN Append(evtq, [session |-> s1.session, peer |-> peer]) ELSE evtq
\* variant: no deadline for the answer
AwaitingSaveForever(s1) == [s1 EXCEPT !.awaiting_save = TRUE]
AwaitingSave(s1) == [Arm(s1, "save") EXCEPT !.awaiting_save = TRUE]

\* after the bond is gone: erase its subscriptions, ask for the durable save
ForgetBonds(s1) ==
    \/ /\ nvm' = [nvm EXCEPT !.ccc[s1.profile.id] = "none"]
       /\ s' = AwaitingSave([Clear(s1, {"start"}) EXCEPT !.forgetting = TRUE, !.pair_after = work.msg.flag])
       /\ PostPeer(s1, NoPeer)
       /\ callbackGen' = s1.generation
       /\ Status(s1, "STARTING")
       /\ Goto(work.post)
       /\ UNCHANGED budget
    \/ /\ Fault("save")
       /\ BeginStop(s1, snapshot, "fail", "idle", work.msg)
       /\ UNCHANGED <<nvm, evtq>>

FinishForget ==
    /\ Resume("forget")
    /\ \/ /\ ~work.ok
          /\ BeginStop(s, snapshot, "fail", work.post, work.msg)
          /\ UNCHANGED <<ctl, nvm, evtq, budget>>
       \/ /\ work.ok
          /\ StartStackFails(s, work.post, work.msg)
          /\ UNCHANGED <<nvm, evtq>>
       \/ /\ work.ok /\ CanStart(s) /\ ~MustRemoveBond(s)
          /\ ForgetBonds(StackUp(s))
          /\ UNCHANGED ctl
       \/ /\ work.ok /\ CanStart(s) /\ MustRemoveBond(s)
          /\ s' = StackUp(s)
          /\ callbackGen' = s.generation + 1
          /\ Status(s, "STARTING")
          /\ ctl' = [ctl EXCEPT !.ops = @ \cup {<<"remove_bond", s.profile.peer>>}, !.bondRemoved = "no"]
          /\ Goto("bond_wait")
          /\ UNCHANGED <<nvm, evtq, budget>>
    /\ UNCHANGED <<desired, queue, link, ccc, ui>>

\* BOND_REMOVED arrives with its result, or 1500 ms pass
RemoveBondWait ==
    /\ work.pc = "bond_wait"
    /\ \/ /\ ctl.bondRemoved = "ok"
          /\ ForgetBonds(s)
       \/ /\ ctl.bondRemoved = "failed"
          /\ BeginStop(s, snapshot, "fail", work.post, work.msg)
          /\ UNCHANGED <<nvm, evtq, budget>>
       \/ /\ ctl.bondRemoved = "no" /\ Fault("bond")
          /\ BeginStop(s, snapshot, "fail", work.post, work.msg)
          /\ UNCHANGED <<nvm, evtq>>
    /\ ctl' = [ctl EXCEPT !.bondRemoved = "no"]
    /\ UNCHANGED <<desired, queue, link, ccc, ui>>

-----------------------------------------------------------------------------
(* The worker takes the head of its queue                                   *)

Take(types) ==
    /\ work.pc = "idle"
    /\ queue # <<>>
    /\ Head(queue).type \in types
    /\ queue' = Tail(queue)
Msg == Head(queue)
Done(pc) == work' = [work EXCEPT !.pc = pc, !.msg = Msg]

\* An open overtaken by another open or a close is skipped
HandleOpen ==
    /\ Take({"OPEN"})
    /\ IF Msg.session = desired
       THEN BeginStop(s, snapshot, "open", "tail", Msg)
       ELSE Done("idle") /\ UNCHANGED <<callbackGen, snapshot, s>>
    /\ UNCHANGED <<Outside, ctl, budget>>

HandleForget ==
    /\ Take({"FORGET"})
    /\ Msg.session = s.session /\ Msg.session = desired
    /\ BeginStop(s, snapshot, "forget", "tail", Msg)
    /\ UNCHANGED <<Outside, ctl, budget>>

\* ready_if_subscribed: save the subscription of the bonded host, then report
\* the session usable if the input report is subscribed
\* variant: a new bond is used before the profile is saved
UsableUnsaved(s1) == s1.connected /\ s1.encrypted
Usable(s1) == s1.connected /\ s1.encrypted /\ s1.saved /\ ~s1.awaiting_save
ReadyIfSubscribed(s1, post, m) ==
    \/ /\ ~Usable(s1)
       /\ s' = s1
       /\ work' = [work EXCEPT !.pc = post, !.msg = m]
       /\ UNCHANGED <<callbackGen, snapshot, nvm, budget>>
    \/ /\ Usable(s1) /\ "hid" \in s1.layers
       /\ nvm' = [nvm EXCEPT !.ccc[s1.profile.id] = IF ccc THEN "on" ELSE "off"]
       /\ s' = [(IF ccc THEN Clear(s1, {"connect", "pair"}) ELSE s1) EXCEPT !.subscribed = ccc]
       /\ Status(s1, IF ~ccc THEN "CONNECTING" ELSE IF s1.suspended THEN "SUSPENDED" ELSE "CONNECTED")
       /\ work' = [work EXCEPT !.pc = post, !.msg = m]
       /\ UNCHANGED <<callbackGen, budget>>
    \/ /\ Usable(s1)
       /\ IF "hid" \in s1.layers THEN Fault("save") ELSE UNCHANGED budget
       /\ BeginStop(s1, snapshot, "fail", post, m)
       /\ UNCHANGED nvm

\* The UI's answer to a PEER event.  Any SAVED of this session acknowledges
\* whatever save is awaited.
AckFlags == [Clear(s, {"save"}) EXCEPT !.awaiting_save = FALSE]
HandleSaved ==
    /\ Take({"SAVED"})
    /\ Msg.session = s.session /\ s.awaiting_save
    /\ \/ /\ ~Msg.flag
          /\ BeginStop(AckFlags, snapshot, "fail", "idle", Msg)
          /\ UNCHANGED <<nvm, budget>>
       \/ /\ Msg.flag /\ s.forgetting
          /\ BeginStop([AckFlags EXCEPT !.profile = Msg.remote, !.forgetting = FALSE], snapshot,
                       IF s.pair_after THEN "restart" ELSE "unpair", "tail", Msg)
          /\ UNCHANGED <<nvm, budget>>
       \/ /\ Msg.flag /\ ~s.forgetting /\ ~s.connected
          /\ BeginStop([AckFlags EXCEPT !.saved = TRUE, !.pairing = FALSE], snapshot, "restart", "tail", Msg)
          /\ UNCHANGED <<nvm, budget>>
       \/ /\ Msg.flag /\ ~s.forgetting /\ s.connected
          /\ ReadyIfSubscribed([AckFlags EXCEPT !.saved = TRUE, !.pairing = FALSE], "tail", Msg)
    /\ UNCHANGED <<desired, link, ccc, UiVars, ctl>>

\* A tap or mouse report whose send fails restarts the session it was for.
\* What is sent is left out: only the failure changes the lifecycle.
InputActive == s.connected /\ s.encrypted /\ s.saved /\ s.subscribed
HandleTap ==
    /\ Take({"TAP"})
    /\ Msg.session = s.session
    /\ \/ /\ Done("tail")
          /\ UNCHANGED <<callbackGen, snapshot, s, budget>>
       \/ /\ InputActive /\ desired = Msg.session /\ Fault("output")
          /\ BeginStop(s, snapshot, "restart", "tail", Msg)
    /\ UNCHANGED <<Outside, ctl>>

\* release_input: a release report that cannot be sent drops the link
ReleaseFails == s.connected /\ s.encrypted /\ s.subscribed /\ link.up /\ Fault("output")
HandleRelease ==
    /\ Take({"RELEASE"})
    /\ Msg.session = s.session
    /\ \/ Done("tail") /\ UNCHANGED <<callbackGen, snapshot, s, budget>>
       \/ ReleaseFails /\ BeginStop(s, snapshot, "release", "tail", Msg)
    /\ UNCHANGED <<Outside, ctl>>

\* CLOSE carries nothing: the check at the end of the iteration closes
HandleClose ==
    /\ Take({"CLOSE"})
    /\ Done("tail")
    /\ UNCHANGED <<Outside, callbackGen, snapshot, s, ctl, budget>>

-----------------------------------------------------------------------------
(* Callback messages: only those of the worker's generation are handled, and *)
(* only while its session is the desired one.                                *)

\* variants: any generation will do; the host need not run
CurrentHostless(m) == m.generation # 0 /\ m.generation = s.generation
CurrentAny(m) == m.generation # 0 /\ HostOn(s)
Current(m) == m.generation # 0 /\ m.generation = s.generation /\ HostOn(s)

TakeCallback(types) == Take(types) /\ Current(Msg) /\ desired = s.session

\* everything the worker reads and drops
HandleDropped ==
    /\ Take(ApiTypes \cup CallbackTypes)
    /\ \/ /\ Msg.type \in CallbackTypes
          /\ ~Current(Msg)
          /\ Done("tail")
       \/ /\ Msg.type \in CallbackTypes
          /\ Current(Msg) /\ desired # s.session
          /\ Done("idle")
       \/ /\ Msg.type \in {"TAP", "RELEASE"} /\ Msg.session # s.session
          /\ Done("tail")
       \* a stale tap's input generation can equal s.generation: it then passes as a callback
       \/ /\ Msg.type = "TAP" /\ Msg.session # s.session
          /\ HostOn(s) /\ desired = s.session
          /\ Done("after")
       \/ /\ Msg.type = "FORGET" /\ ~(Msg.session = s.session /\ Msg.session = desired)
          /\ Done("tail")
       \/ /\ Msg.type = "SAVED" /\ ~(Msg.session = s.session /\ s.awaiting_save)
          /\ Done("tail")
    /\ UNCHANGED <<Outside, callbackGen, snapshot, s, ctl, budget>>

\* completions that only raise a readiness flag (error: after_callback fails)
GateOf == [ADV_DATA |-> "adv_data", SCAN_DATA |-> "scan_data", ADDRESS |-> "address"]
HandleGate ==
    /\ TakeCallback({"ADV_DATA", "SCAN_DATA", "ADDRESS"})
    /\ s' = [s EXCEPT !.ready = IF Msg.ok THEN @ \cup {GateOf[Msg.type]} ELSE @ \ {GateOf[Msg.type]}]
    /\ Done("after")
    /\ UNCHANGED <<Outside, callbackGen, snapshot, ctl, budget>>

\* HID_READY: restore the bonded host's subscriptions before advertising
ToRestore == ~s.pairing /\ nvm.ccc[s.profile.id] # "none"
HandleHidReady ==
    /\ TakeCallback({"HID_READY"})
    /\ \/ /\ ~ToRestore \/ "hid" \in s.layers
          /\ s' = [s EXCEPT !.ready = @ \cup {"hid"}]
          /\ ccc' = IF ToRestore THEN nvm.ccc[s.profile.id] = "on" ELSE ccc
          /\ Done("after")
          /\ UNCHANGED budget
       \/ /\ ~s.pairing
          /\ IF ToRestore /\ "hid" \notin s.layers THEN UNCHANGED budget ELSE Fault("save")
          /\ s' = [s EXCEPT !.ready = @ \ {"hid"}]
          /\ work' = [work EXCEPT !.pc = "after", !.msg = [Msg EXCEPT !.ok = FALSE]]
          /\ UNCHANGED ccc
    /\ UNCHANGED <<desired, callbackGen, snapshot, link, ctl, nvm, UiVars>>

\* one more request to the stack on the way to advertising, or its API error
Request(s1, op) ==
    \/ /\ s' = s1
       /\ ctl' = [ctl EXCEPT !.ops = @ \cup {op}]
       /\ Done("after")
       /\ UNCHANGED <<callbackGen, snapshot, budget>>
    \/ /\ Fault("api")
       /\ BeginStop(s1, snapshot, "fail", "after", Msg)
       /\ UNCHANGED ctl
SetFlags(s1) == s' = s1 /\ Done("after") /\ UNCHANGED <<callbackGen, snapshot, ctl, budget>>

\* privacy reset -> clear whitelist; address resolution on -> ready
HandlePrivacy ==
    /\ TakeCallback({"PRIVACY"})
    /\ CASE Msg.ok /\ s.phase = "resetting" -> Request([s EXCEPT !.phase = "preparing"], Op("wl_clear"))
         [] Msg.ok /\ s.phase = "enabling"  ->
                SetFlags([s EXCEPT !.phase = "ready", !.ready = @ \cup {"privacy"}])
         [] OTHER -> SetFlags(s)
    /\ UNCHANGED Outside

\* cleared: a saved peer is added.  Otherwise the whitelist is ready, and
\* privacy with it unless the peer has an IRK.
HandleWhitelist ==
    /\ TakeCallback({"WHITELIST_CLEAR", "WHITELIST_ADD"})
    /\ CASE ~Msg.ok -> SetFlags(s)
         [] Msg.ok /\ Msg.type = "WHITELIST_CLEAR" /\ ~s.pairing -> Request(s, <<"wl_add", s.profile.peer>>)
         [] Msg.ok /\ (Msg.type = "WHITELIST_ADD" \/ s.pairing) ->
                IF ~s.pairing /\ s.profile.peer \in IrkHosts
                THEN Request([s EXCEPT !.ready = @ \cup {"whitelist"}], Op("peer_privacy"))
                ELSE SetFlags([s EXCEPT !.ready = @ \cup {"whitelist", "privacy"}, !.phase = "ready"])
    /\ UNCHANGED Outside

HandlePeerPrivacy ==
    /\ TakeCallback({"PEER_PRIVACY"})
    /\ IF Msg.ok THEN Request([s EXCEPT !.phase = "enabling"], Op("privacy_on")) ELSE SetFlags(s)
    /\ UNCHANGED Outside

\* variant: the start deadline keeps running
AdvertisedStillTimed(s1) == s1
Advertised(s1) == Clear(s1, {"start"})
HandleAdvStarted ==
    /\ TakeCallback({"ADV_STARTED"})
    /\ IF Msg.ok
       THEN /\ s' = Advertised(s)
            /\ Status(s, IF s.pairing THEN "PAIRING" ELSE "RECONNECTING")
       ELSE UNCHANGED <<s, snapshot>>
    /\ Done("after")
    /\ UNCHANGED <<Outside, callbackGen, ctl, budget>>

HandleConnected ==
    /\ TakeCallback({"CONNECTED"})
    /\ IF s.connected
       THEN UNCHANGED <<s, snapshot>>
       ELSE /\ s' = [Arm(s, "connect") EXCEPT !.connected = TRUE, !.advertising = FALSE]
            /\ Status(s, "CONNECTING")
    /\ Done("after")
    /\ UNCHANGED <<Outside, callbackGen, ctl, budget>>

\* AUTH failure: a saved session fails, a pairing attempt only loses its link
HandleAuthFailed ==
    /\ TakeCallback({"AUTH"})
    /\ ~Msg.ok
    /\ IF s.pairing
       THEN /\ s' = [s EXCEPT !.encrypted = FALSE, !.subscribed = FALSE]
            /\ work' = [pc |-> "disconnect", k |-> "auth_retry", post |-> "after",
                        msg |-> [Msg EXCEPT !.ok = TRUE], ok |-> TRUE]
            /\ UNCHANGED <<callbackGen, snapshot>>
       ELSE BeginStop(s, snapshot, "fail", "after", Msg)
    /\ UNCHANGED <<Outside, ctl, budget>>

\* AUTH success: only the saved peer is accepted; a new peer is sent to the UI
\* to be saved.  s.peer_identity is s.profile.peer: the code sets both together.
HandleAuthOk ==
    /\ TakeCallback({"AUTH"})
    /\ Msg.ok
    /\ \/ /\ (s.pairing /\ ~HasBond(s.store, Msg.peer))
             \/ (~s.pairing /\ (~HasBond(s.store, Msg.peer) \/ Msg.peer # s.profile.peer))
          /\ BeginStop(s, snapshot, "fail", "after", Msg)
          /\ UNCHANGED <<nvm, evtq, budget>>
       \/ /\ s.pairing /\ HasBond(s.store, Msg.peer)
          /\ s' = AwaitingSave([s EXCEPT !.encrypted = TRUE, !.profile.peer = Msg.peer])
          /\ PostPeer(s, Msg.peer)
          /\ Done("after")
          /\ UNCHANGED <<callbackGen, snapshot, nvm, budget>>
       \/ /\ ~s.pairing /\ HasBond(s.store, Msg.peer) /\ Msg.peer = s.profile.peer
          /\ ReadyIfSubscribed([s EXCEPT !.encrypted = TRUE], "after", Msg)
          /\ UNCHANGED evtq
    /\ UNCHANGED <<desired, link, ctl, ccc, ui>>

\* A saved session restarts to advertise again; a pairing window just goes on
HandleDisconnected ==
    /\ TakeCallback({"DISCONNECTED"})
    /\ LET lost == [Clear(Unlinked(s), {"connect"}) EXCEPT !.suspended = FALSE]
       IN  CASE ~s.connected -> Done("after") /\ UNCHANGED <<s, callbackGen, snapshot>>
             [] s.connected /\ s.saved /\ s.profile.peer # NoPeer ->
                    BeginStop(lost, snapshot, "restart", "after", Msg)
             [] s.connected /\ ~(s.saved /\ s.profile.peer # NoPeer) ->
                    s' = lost /\ Status(s, "PAIRING") /\ Done("after") /\ UNCHANGED callbackGen
    /\ UNCHANGED <<Outside, ctl, budget>>

HandleWrite ==
    /\ TakeCallback({"WRITE"})
    /\ ReadyIfSubscribed(s, "after", Msg)
    /\ UNCHANGED <<desired, link, ctl, ccc, UiVars>>

HandleSuspend ==
    /\ TakeCallback({"SUSPEND"})
    /\ \/ ReadyIfSubscribed([s EXCEPT !.suspended = Msg.flag], "after", Msg)
       \/ Msg.flag /\ ReleaseFails /\ BeginStop(s, snapshot, "release", "after", Msg) /\ UNCHANGED nvm
    /\ UNCHANGED <<desired, link, ctl, ccc, UiVars>>

\* After the switch on a callback message: fail on its error, else advertise
\* if every gate is open.
\* variant: advertise without waiting for address resolution
CanAdvertiseUnresolved ==
    /\ s.ready \cup {"privacy"} = Ready
    /\ ~s.connected /\ ~s.advertising /\ ~s.awaiting_save /\ ~s.forgetting
    /\ desired = s.session
CanAdvertise ==
    /\ s.ready = Ready
    /\ ~s.connected /\ ~s.advertising /\ ~s.awaiting_save /\ ~s.forgetting
    /\ desired = s.session

AfterCallback ==
    /\ work.pc = "after"
    /\ \/ /\ ~work.msg.ok /\ HostOn(s)
          /\ BeginStop(s, snapshot, "fail", "tail", work.msg)
          /\ UNCHANGED <<ctl, budget>>
       \/ /\ work.msg.ok \/ ~HostOn(s)
          /\ ~CanAdvertise
          /\ Goto("tail")
          /\ UNCHANGED <<callbackGen, snapshot, s, ctl, budget>>
    /\ UNCHANGED <<Outside, queue>>

\* advertise_if_ready: unrestricted while pairing, whitelisted otherwise
Advertise ==
    /\ work.pc = "after"
    /\ work.msg.ok \/ ~HostOn(s)
    /\ CanAdvertise
    /\ \/ /\ s' = [s EXCEPT !.advertising = TRUE, !.deadlines = IF s.pairing THEN @ \cup {"pair"} ELSE @]
          /\ ctl' = [ctl EXCEPT !.ops = @ \cup {AdvertisingOp(s)}]
          /\ Goto("tail")
          /\ UNCHANGED <<callbackGen, snapshot, budget>>
       \/ /\ Fault("api")
          /\ BeginStop(s, snapshot, "fail", "tail", work.msg)
          /\ UNCHANGED ctl
    /\ UNCHANGED <<Outside, queue>>

-----------------------------------------------------------------------------
(* The end of an iteration, run after a message and every 20 ms             *)

\* variant: only a CLOSE message closes
MustCloseOnMessage == desired = 0 /\ s.session # 0 /\ work.msg.type = "CLOSE"
MustClose == desired = 0 /\ s.session # 0

Poll ==
    /\ work.pc = "idle" /\ queue = <<>>
    /\ MustClose \/ s.due # {}
    /\ Goto("tail")
    /\ UNCHANGED <<Outside, callbackGen, snapshot, queue, s, ctl, budget>>

TailClose ==
    /\ work.pc = "tail"
    /\ MustClose
    /\ BeginStop(s, snapshot, "close", "idle", NoMessage)
    /\ UNCHANGED <<Outside, queue, ctl, budget>>

\* start and save deadlines are errors, the others end the pairing attempt
TailExpired ==
    /\ work.pc = "tail"
    /\ ~MustClose /\ HostOn(s) /\ s.due # {}
    /\ BeginStop(s, snapshot, IF s.due \cap {"start", "save"} # {} THEN "fail" ELSE "timeout", "idle", NoMessage)
    /\ UNCHANGED <<Outside, queue, ctl, budget>>

TailDone ==
    /\ work.pc = "tail"
    /\ ~MustClose /\ (~HostOn(s) \/ s.due = {})
    /\ work' = [work EXCEPT !.pc = "idle", !.msg = NoMessage, !.ok = TRUE]
    /\ UNCHANGED <<Outside, callbackGen, snapshot, queue, s, ctl, budget>>

\* time: an armed deadline becomes due
DeadlinePasses ==
    /\ \E d \in s.deadlines \ s.due : s' = [s EXCEPT !.due = @ \cup {d}]
    /\ UNCHANGED <<Outside, callbackGen, snapshot, queue, work, ctl, budget>>

-----------------------------------------------------------------------------
(* The worker task *)

StopSteps ==
    \/ StopAdvertisingSkip \/ StopAdvertisingRequest \/ StopAdvertisingWait
    \/ DisconnectLink \/ DisconnectDone \/ DisconnectTimeout
    \/ TeardownHid \/ TeardownHost
FinishSteps ==
    \/ FinishFail \/ FinishTimeout \/ FinishClose \/ FinishUnpair \/ FinishAuthRetry
    \/ FinishOpen \/ FinishRestart \/ FinishRelease \/ FinishForget \/ RemoveBondWait
ApiHandlers ==
    \/ HandleOpen \/ HandleForget \/ HandleSaved \/ HandleTap \/ HandleRelease \/ HandleClose
    \/ HandleDropped
CallbackHandlers ==
    \/ HandleGate \/ HandleHidReady \/ HandlePrivacy \/ HandleWhitelist \/ HandlePeerPrivacy
    \/ HandleAdvStarted \/ HandleConnected \/ HandleAuthFailed \/ HandleAuthOk
    \/ HandleDisconnected \/ HandleWrite \/ HandleSuspend
Worker ==
    \/ StopSteps \/ FinishSteps \/ ApiHandlers \/ CallbackHandlers
    \/ AfterCallback \/ Advertise \/ Poll \/ TailClose \/ TailExpired \/ TailDone
=============================================================================
