---------------------------- MODULE BtProperties ----------------------------
(***************************************************************************)
(* What the Bluetooth runtime promises to its user, its hosts and the SDK.  *)
(***************************************************************************)
EXTENDS BtRuntime

\* every message is handled, no callback is half done
Settled ==
    /\ work.pc = "idle" /\ queue = <<>>
    /\ CallbackIdle /\ Op("disconnect") \notin ctl.ops
InUse == snapshot.state \in {"CONNECTED", "SUSPENDED"}

-----------------------------------------------------------------------------
(* Stopping                                                                  *)

\* A link, and a GATT callback that still has to run the HID handler, never
\* outlive the HID device or the host (bt_runtime.c:330-333: "Do not destroy
\* the HID event loop or disable Bluedroid underneath a live/unfinished link").
LinkNeedsHost ==
    link.live \/ link.phase \notin {"idle", "disconnect_down"} => {"hid", "host_on"} \subseteq s.layers

\* OFF and UNPAIRED are shown only when nothing of the stack is up, the radio
\* is silent and no host is connected (bt_runtime.c:848-852, 687-690).
OffMeansOff ==
    snapshot.state \in {"OFF", "UNPAIRED"} => s.layers = {} /\ ctl.adv = "off" /\ ~link.live

\* Nothing of a stopped host lingers into the next session: without the host
\* the radio is silent, no host is linked, no advertising request is pending and
\* no readiness flag is left raised (bt_runtime.c:319-345, 731-734).
HostDownIsSilent ==
    ~HostOn(s) => /\ ctl.adv = "off" /\ ~link.live
                  /\ ctl.ops \cap AdvOps = {}
                  /\ s.ready = {}

\* No callback queued before a stop is acted on after it (bt_runtime.c:319:
\* "Invalidate queued callbacks before teardown"; docs/bluetooth.md: "Callback
\* generations/session IDs reject stale events").
ActsOnCallback == queue' # queue /\ work.pc = "idle" /\ work'.pc \notin {"idle", "tail"} /\ Msg.type \in CallbackTypes
StaleCallbacksRejected == [][ActsOnCallback => callbackGen = Msg.generation]_vars

-----------------------------------------------------------------------------
(* Who may connect                                                           *)

\* The radio takes any host only while the durable profile is unbonded, and
\* otherwise only the saved host, whose bond exists, resolvable if it uses
\* private addresses (bt_runtime.c:448-453, 487-503, 724-768: what a start checks,
\* and the gates before advertising).
RadioAdmitsSavedPeer ==
    /\ ctl.adv = "any" => nvm.peer[s.profile.id] = NoPeer
    /\ ctl.adv = "listed" => /\ ctl.wl = {s.profile.peer}
                             /\ s.profile.peer = nvm.peer[s.profile.id]
                             /\ s.profile.peer \in IrkHosts => ctl.resolving
                             /\ HasBond(s.store, s.profile.peer)

\* A session in use serves the host its durable profile names, with the keys
\* in that profile's bond database (bt_runtime.c:801-821, 699-708).
InUseIsDurable ==
    InUse => /\ s.profile.peer # NoPeer
             /\ nvm.peer[s.profile.id] = s.profile.peer
             /\ HasBond(s.store, s.profile.peer)

\* Once all messages are handled the worker's view of the link is the real
\* one, and a session in use has the saved host on an encrypted link
\* (bt_runtime.c:53-55 and 172-197: the link state two tasks keep).
ViewMatchesLink ==
    Settled /\ HostOn(s) /\ callbackGen = s.generation /\ desired = s.session =>
        /\ s.connected = link.up
        /\ InUse => link.enc /\ link.host = s.profile.peer

-----------------------------------------------------------------------------
(* Pairing and forgetting                                                    *)

\* UNPAIRED is shown only when the profile is durably unpaired
\* (bt_runtime.c:684-690; developer-guide: "Explicit forget completed and saved").
UnpairedIsDurable ==
    snapshot.state = "UNPAIRED" => nvm.peer[s.profile.id] = NoPeer

\* Forgetting a profile never takes the bond another profile still uses
\* (bt_runtime.c:264-274: bond_used_elsewhere).
OtherBondsKept ==
    [][\A p \in Profiles \ {s.profile.id} :
         nvm.peer[p] # NoPeer /\ HasBond(StoreOf(Saved(p)), nvm.peer[p])
             => <<StoreOf(Saved(p)), nvm.peer[p]>> \in nvm'.bonds]_vars

-----------------------------------------------------------------------------
(* Deadlines                                                                 *)

\* A session in use is not on the clock of its start, its pairing window or
\* its connection attempt (bt_runtime.c:543-545, 771, 853-861).
InUseHasNoDeadline == InUse /\ work.pc = "idle" => s.deadlines \cap {"start", "pair", "connect"} = {}

\* An idle pairing window closes only at its own deadline (bt_runtime.c:792-794:
\* a failed attempt "must not close the whole fresh-pairing window").
PairingWindowKept ==
    [][work.pc = "tail" /\ work'.k = "timeout" /\ work'.pc = "stop_adv" /\ s.pairing /\ ~s.connected
           => "pair" \in s.due]_vars

-----------------------------------------------------------------------------
(* Progress                                                                  *)

\* A close ends the session, whether or not its message fit in the queue
\* (bt_runtime.c:648-650, 848-852).
CloseEnds == desired = 0 ~> desired # 0 \/ (s.session = 0 /\ work.pc = "idle")

\* A session the UI opened leaves STARTING and STOPPING, whatever message was
\* lost (bt_runtime.c:72, 853-861: the deadlines).
OpenSettles ==
    \A start \in Starts : \A n \in 1..start.limit["sessions"] :
        ui.session = n ~> ui.session # n \/ (snapshot.session = n /\ snapshot.state \notin {"STARTING", "STOPPING"})

\* A durable save is answered or given up (bt_runtime.c:551-560, 680-683, 855).
SaveResolves == s.awaiting_save ~> ~s.awaiting_save

=============================================================================
