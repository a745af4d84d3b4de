------------------------------ MODULE BtLink ------------------------------
(***************************************************************************)
(* The callback task of bt_runtime.c (gap_callback, gatts_callback and     *)
(* hid_callback) and what it serves: requests of the stack complete one at *)
(* a time, hosts connect, pair, write and leave.  A GATT connect or        *)
(* disconnect callback is split where the worker can see it half done; HID *)
(* events come from a task of their own.                                   *)
(***************************************************************************)
EXTENDS BtState

CallbackIdle == link.phase = "idle"
Finish(op) == [ctl EXCEPT !.ops = @ \ {op}]

\* whether the request succeeded
Outcome(ok) == IF ok THEN UNCHANGED budget ELSE Fault("completion")

GateMessage == [hid |-> "HID_READY", adv_data |-> "ADV_DATA", scan_data |-> "SCAN_DATA", address |-> "ADDRESS"]
CompleteGate ==
    /\ \E g \in Gates, ok \in BOOLEAN :
          /\ Op(g) \in ctl.ops
          /\ g # "hid" => CallbackIdle
          /\ g = "hid" => ok
          /\ Outcome(ok)
          /\ ctl' = Finish(Op(g))
          /\ CallbackMessage(GateMessage[g], ok, FALSE, NoPeer)
    /\ UNCHANGED <<WorkerVars, Outside>>

\* privacy and whitelist: the controller's tables, then the message
TableMessage == [privacy_off |-> "PRIVACY", privacy_on |-> "PRIVACY", peer_privacy |-> "PEER_PRIVACY",
                 wl_clear |-> "WHITELIST_CLEAR", wl_add |-> "WHITELIST_ADD"]
TableAfter(op) ==
    CASE op[1] = "privacy_off" -> [Finish(op) EXCEPT !.resolving = FALSE]
      [] op[1] = "privacy_on"  -> [Finish(op) EXCEPT !.resolving = TRUE]
      [] op[1] = "wl_clear"    -> [Finish(op) EXCEPT !.wl = {}]
      [] op[1] = "wl_add"      -> [Finish(op) EXCEPT !.wl = @ \cup {op[2]}]
      [] OTHER                 -> Finish(op)
CompleteTable ==
    /\ CallbackIdle
    /\ \E op \in ctl.ops, ok \in BOOLEAN :
          /\ op[1] \in DOMAIN TableMessage
          /\ Outcome(ok)
          /\ ctl' = IF ok THEN TableAfter(op) ELSE Finish(op)
          /\ CallbackMessage(TableMessage[op[1]], ok, FALSE, NoPeer)
    /\ UNCHANGED <<WorkerVars, Outside>>

AdvOps == {Op("adv_any"), Op("adv_listed")}
CompleteAdvStart ==
    /\ CallbackIdle
    /\ \E op \in ctl.ops \cap AdvOps, ok \in BOOLEAN :
          /\ Outcome(ok)
          /\ ctl' = [Finish(op) EXCEPT !.adv = IF ~ok THEN @ ELSE IF op = Op("adv_any") THEN "any" ELSE "listed"]
          /\ CallbackMessage("ADV_STARTED", ok, FALSE, NoPeer)
    /\ UNCHANGED <<WorkerVars, Outside>>

\* ADV_STOPPED and BOND_REMOVED are event bits, not messages
CompleteAdvStop ==
    /\ CallbackIdle
    /\ Op("adv_stop") \in ctl.ops /\ ctl.ops \cap AdvOps = {}
    /\ ctl' = [Finish(Op("adv_stop")) EXCEPT !.adv = "off", !.advStopped = TRUE]
    /\ UNCHANGED <<WorkerVars, Outside, queue, budget>>

CompleteRemoveBond ==
    /\ CallbackIdle
    /\ \E op \in ctl.ops, ok \in BOOLEAN :
          /\ op[1] = "remove_bond"
          /\ Outcome(ok)
          /\ ctl' = [Finish(op) EXCEPT !.bondRemoved = IF ok THEN "ok" ELSE "failed"]
          /\ nvm' = IF ok THEN [nvm EXCEPT !.bonds = @ \ {<<s.store, op[2]>>}] ELSE nvm
    /\ UNCHANGED <<WorkerVars, desired, link, ccc, UiVars, queue>>

CompleteSuspend ==
    /\ \E name \in {"suspend", "resume"} :
          /\ Op(name) \in ctl.ops
          /\ ctl' = Finish(Op(name))
          /\ CallbackMessage("SUSPEND", TRUE, name = "suspend", NoPeer)
    /\ UNCHANGED <<WorkerVars, Outside, budget>>

\* A host connects: LINK_DOWN is cleared, s_link set, the HID handler runs,
\* CONNECTED is queued
LinkVars == <<desired, nvm, ccc, UiVars>>
HostConnect ==
    /\ ~link.live /\ CallbackIdle
    /\ \E h \in Hosts :
          /\ ctl.adv = "any" \/ (ctl.adv = "listed" /\ h \in ctl.wl)
          /\ link' = [link EXCEPT !.live = TRUE, !.host = h, !.phase = "connect"]
    /\ ctl' = [ctl EXCEPT !.adv = "off"]
    /\ Spend("links")
    /\ UNCHANGED <<WorkerVars, LinkVars, queue>>

ConnectClear ==
    /\ link.phase = "connect"
    /\ link' = [link EXCEPT !.down = FALSE, !.phase = "connect_cleared"]
    /\ UNCHANGED <<WorkerVars, LinkVars, queue, ctl, budget>>

ConnectUp ==
    /\ link.phase = "connect_cleared"
    /\ link' = [link EXCEPT !.up = TRUE, !.phase = "connect_up"]
    /\ UNCHANGED <<WorkerVars, LinkVars, queue, ctl, budget>>

ConnectPost ==
    /\ link.phase = "connect_up"
    /\ link' = [link EXCEPT !.phase = "idle"]
    /\ CallbackMessage("CONNECTED", TRUE, FALSE, NoPeer)
    /\ UNCHANGED <<WorkerVars, LinkVars, ctl, budget>>

\* The link is gone, by the host or by esp_ble_gap_disconnect: s_link is
\* cleared, the HID handler runs, LINK_DOWN is set, DISCONNECTED is queued
LinkEnds ==
    /\ link.live /\ CallbackIdle
    /\ IF Op("disconnect") \in ctl.ops THEN UNCHANGED budget ELSE Spend("links")
    /\ link' = [link EXCEPT !.live = FALSE, !.enc = FALSE, !.phase = "disconnect"]
    /\ ctl' = Finish(Op("disconnect"))
    /\ UNCHANGED <<WorkerVars, LinkVars, queue>>

\* variant: LINK_DOWN is set before the HID handler has run
DisconnectMarkSetsDown ==
    /\ link.phase = "disconnect"
    /\ link' = [link EXCEPT !.up = FALSE, !.down = TRUE, !.phase = "disconnect_marked"]
    /\ UNCHANGED <<WorkerVars, LinkVars, queue, ctl, budget>>

DisconnectMark ==
    /\ link.phase = "disconnect"
    /\ link' = [link EXCEPT !.up = FALSE, !.phase = "disconnect_marked"]
    /\ UNCHANGED <<WorkerVars, LinkVars, queue, ctl, budget>>

DisconnectDown ==
    /\ link.phase = "disconnect_marked"
    /\ link' = [link EXCEPT !.down = TRUE, !.phase = "disconnect_down"]
    /\ UNCHANGED <<WorkerVars, LinkVars, queue, ctl, budget>>

DisconnectPost ==
    /\ link.phase = "disconnect_down"
    /\ link' = [link EXCEPT !.phase = "idle"]
    /\ CallbackMessage("DISCONNECTED", TRUE, FALSE, NoPeer)
    /\ UNCHANGED <<WorkerVars, LinkVars, ctl, budget>>

\* Pairing or re-encryption ends.  The bond is stored before the message; a
\* pairing request is accepted only while a session is wanted (SEC_REQ).
HostAuth ==
    /\ link.live /\ CallbackIdle
    /\ Spend("auths")
    /\ \E ok \in BOOLEAN :
          /\ ok => desired # 0 \/ HasBond(s.store, link.host)
          /\ link' = [link EXCEPT !.enc = @ \/ ok]
          /\ nvm' = IF ok THEN [nvm EXCEPT !.bonds = @ \cup {<<s.store, link.host>>}] ELSE nvm
          /\ CallbackMessage("AUTH", ok, FALSE, link.host)
    /\ UNCHANGED <<WorkerVars, desired, ccc, UiVars, ctl>>

\* the report subscription is writable on an encrypted link only
HostWrite ==
    /\ link.live /\ link.enc /\ CallbackIdle
    /\ Spend("events")
    /\ ccc' \in BOOLEAN
    /\ CallbackMessage("WRITE", TRUE, FALSE, NoPeer)
    /\ UNCHANGED <<WorkerVars, desired, link, nvm, UiVars, ctl>>

\* the HID control point is a write too; its event goes through the HID event loop
HostSuspend ==
    /\ link.live /\ CallbackIdle /\ "hid" \in s.layers
    /\ Spend("events")
    /\ \E name \in {"suspend", "resume"} : ctl' = [ctl EXCEPT !.ops = @ \cup {Op(name)}]
    /\ CallbackMessage("WRITE", TRUE, FALSE, NoPeer)
    /\ UNCHANGED <<WorkerVars, Outside>>

Completions ==
    \/ CompleteGate \/ CompleteTable \/ CompleteAdvStart \/ CompleteAdvStop
    \/ CompleteRemoveBond \/ CompleteSuspend
LinkCallbacks ==
    \/ ConnectClear \/ ConnectUp \/ ConnectPost
    \/ DisconnectMark \/ DisconnectDown \/ DisconnectPost
Host == HostConnect \/ LinkEnds \/ HostAuth \/ HostWrite \/ HostSuspend
=============================================================================
