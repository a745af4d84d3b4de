----------------------------- MODULE BtState ------------------------------
(***************************************************************************)
(* State, types and messages of the Bluetooth runtime of the remote,       *)
(* components/bluetooth/bt_runtime.c.  Three parties share it: the UI task *)
(* (BtUi), the Bluedroid callback task (BtLink) and the worker (BtWorker). *)
(* The record s has the fields of the C struct s; work is the worker's place*)
(* in the handler it is running; ctl, nvm and evtq stand for the controller,*)
(* for flash and for the application's event queue.                        *)
(***************************************************************************)
EXTENDS Naturals, Sequences, FiniteSets

CONSTANTS
    Profiles,     \* Bluetooth remotes in the durable model
    Hosts,        \* BLE hosts in range
    IrkHosts,     \* the hosts that distribute an identity resolving key
    NoPeer,       \* an unbonded profile's peer
    NoProfile,    \* profile of the idle worker
    Legacy,       \* the bond database shared by migrated profiles
    Gates,        \* independent completions that start_runtime waits for
    QueueCap,     \* worker queue length (32 in the code)
    EvtCap,       \* application event queue length (16 in the code)
    Faults,       \* kinds of failure that may happen
    Starts        \* what a run starts from: a durable state, and how often each kind
                  \* of environment step may then happen

Stores == Profiles \cup {Legacy}
Peers  == Hosts \cup {NoPeer}
ReadyFlags == {"hid", "adv_data", "scan_data", "address", "whitelist", "privacy"}
Ready  == Gates \cup {"whitelist", "privacy"}
Deadlines  == {"start", "pair", "connect", "save"}
StackLayers == {"controller_init", "controller_on", "host_init", "host_on"}
Layers == StackLayers \cup {"hid"}
LimitKinds == {"sessions", "links", "auths", "events", "forgets", "inputs", "faults", "crashes"}
                  \cup Profiles     \* 0: the user never opens that one
FaultKinds == {"api", "completion", "adv_stop", "link_down", "teardown", "save", "bond", "output"}
Statuses == {"OFF", "STARTING", "PAIRING", "RECONNECTING", "CONNECTING", "CONNECTED",
             "SUSPENDED", "STOPPING", "UNPAIRED", "PAIR_TIMEOUT", "ERROR"}

Durable == [peer : [Profiles -> Peers], legacy : [Profiles -> BOOLEAN],
            ccc : [Profiles -> {"none", "off", "on"}], bonds : SUBSET ((Stores \cup {NoProfile}) \X Peers)]

ASSUME ConstantsAssumption ==
    /\ NoPeer \notin Hosts
    /\ NoProfile \notin Stores
    /\ Legacy \notin Profiles
    /\ IrkHosts \subseteq Hosts
    /\ Gates \subseteq ReadyFlags \ {"whitelist", "privacy"}
    /\ "hid" \in Gates
    /\ QueueCap \in Nat \ {0}
    /\ EvtCap \in Nat \ {0}
    /\ Faults \subseteq FaultKinds
    /\ Starts \subseteq [nvm : Durable, limit : [LimitKinds -> Nat]]

Remotes == [id : Profiles \cup {NoProfile}, peer : Peers, legacy : BOOLEAN]
NoRemote == [id |-> NoProfile, peer |-> NoPeer, legacy |-> FALSE]

ApiTypes == {"OPEN", "CLOSE", "FORGET", "SAVED", "TAP", "RELEASE"}
CallbackTypes == {"HID_READY", "ADV_DATA", "SCAN_DATA", "ADDRESS", "WHITELIST_CLEAR", "WHITELIST_ADD",
                  "PEER_PRIVACY", "PRIVACY", "ADV_STARTED", "CONNECTED", "AUTH", "DISCONNECTED",
                  "WRITE", "SUSPEND"}
Messages == [type : ApiTypes \cup CallbackTypes \cup {"NONE"}, session : Nat, generation : Nat,
             remote : Remotes, flag : BOOLEAN, ok : BOOLEAN, peer : Peers]
NoMessage == [type |-> "NONE", session |-> 0, generation |-> 0,
              remote |-> NoRemote, flag |-> FALSE, ok |-> TRUE, peer |-> NoPeer]

OpNames == {"hid", "adv_data", "scan_data", "address", "privacy_off", "wl_clear", "wl_add",
            "peer_privacy", "privacy_on", "adv_any", "adv_listed", "adv_stop", "disconnect",
            "remove_bond", "suspend", "resume"}
Op(name) == <<name, NoPeer>>

VARIABLES
    desired,      \* s_desired_session: the session the UI wants, 0 for none
    callbackGen,  \* s_callback_generation: stamped on callback messages, 0 drops them
    snapshot,     \* s_snapshot: what the UI reads
    queue,        \* s_queue
    s,            \* the worker-owned struct
    work,         \* where the worker is, and the message in its hand
    link,         \* s_link, the LINK_DOWN bit and the callback task's position
    ctl,          \* controller and host stack: radio, whitelist, pending operations
    nvm,          \* durable: saved profiles, bond databases, HID subscriptions
    ccc,          \* the HID service's report subscription
    ui,           \* UI task: session it holds open, its profile, an open in progress
    evtq,         \* peer events for the UI (app evt_q)
    budget        \* what is left of the limits

vars == <<desired, callbackGen, snapshot, queue, s, work, link, ctl, nvm, ccc, ui, evtq, budget>>

-----------------------------------------------------------------------------
(* Bounds and small helpers *)

Spend(kind) == budget[kind] > 0 /\ budget' = [budget EXCEPT ![kind] = @ - 1]
Fault(kind) == kind \in Faults /\ Spend("faults")

StoreOf(remote) == IF remote.legacy THEN Legacy ELSE remote.id
Saved(p) == [id |-> p, peer |-> nvm.peer[p], legacy |-> nvm.legacy[p]]
HasBond(store, h) == <<store, h>> \in nvm.bonds

HostOn(s1) == "host_on" \in s1.layers
On(s1) == s1.layers \cap {"controller_on", "host_on"} # {}
AdvertisingOp(s1) == Op(IF s1.pairing THEN "adv_any" ELSE "adv_listed")

\* enqueue: a non-blocking send
Room == Len(queue) < QueueCap
Enqueue(m) == queue' = Append(queue, m)

\* callback_message: dropped when the generation is 0 or the queue is full
CallbackMessage(type, ok, flag, peer) ==
    queue' = IF callbackGen # 0 /\ Room
             THEN Append(queue, [NoMessage EXCEPT !.type = type, !.generation = callbackGen,
                                                  !.ok = ok, !.flag = flag, !.peer = peer])
             ELSE queue

Status(s1, state) == snapshot' = [session |-> s1.session, state |-> state]
Goto(pc) == work' = [work EXCEPT !.pc = pc]

\* deadlines armed (afresh) and cleared
Arm(s1, d) == [s1 EXCEPT !.deadlines = @ \cup {d}, !.due = @ \ {d}]
Clear(s1, ds) == [s1 EXCEPT !.deadlines = @ \ ds, !.due = @ \ ds]

WorkerVars == <<s, work, snapshot, callbackGen>>
UiVars == <<ui, evtq>>
Outside == <<desired, link, nvm, ccc, ui, evtq>>


-----------------------------------------------------------------------------
(* Types                                                                     *)

Handlers == {"none", "open", "close", "fail", "restart", "release", "timeout", "unpair", "forget", "auth_retry"}
Posts == {"idle", "after", "tail"}
Places == Posts \cup {"stop_adv", "adv_wait", "disconnect", "link_wait", "teardown", "host_off",
                      "resume", "bond_wait"}
LinkPhases == {"idle", "connect", "connect_cleared", "connect_up",
               "disconnect", "disconnect_marked", "disconnect_down"}

WorkerType ==
    [session : Nat, generation : Nat, profile : Remotes, store : Stores \cup {NoProfile},
     layers : SUBSET Layers, ready : SUBSET ReadyFlags, phase : {"resetting", "preparing", "enabling", "ready"},
     advertising : BOOLEAN, connected : BOOLEAN, encrypted : BOOLEAN, subscribed : BOOLEAN,
     saved : BOOLEAN, suspended : BOOLEAN, pairing : BOOLEAN, awaiting_save : BOOLEAN,
     forgetting : BOOLEAN, pair_after : BOOLEAN, deadlines : SUBSET Deadlines, due : SUBSET Deadlines]

WorkType == [pc : Places, k : Handlers, post : Posts, msg : Messages, ok : BOOLEAN]
SnapshotType == [session : Nat, state : Statuses]
LinkType == [live : BOOLEAN, host : Peers, enc : BOOLEAN, up : BOOLEAN, down : BOOLEAN, phase : LinkPhases]
CtlType == [adv : {"off", "any", "listed"}, wl : SUBSET Peers, resolving : BOOLEAN,
            ops : SUBSET (OpNames \X Peers), advStopped : BOOLEAN, bondRemoved : {"no", "ok", "failed"}]
UiType == [session : Nat, profile : Profiles \cup {NoProfile}, seq : Nat, previous : Nat, pc : {"idle", "opening"}]

\* every variable keeps its type: the worker's struct, its place, the queues,
\* the link view and the durable state (bt_runtime.c:45-78)
TypeOK ==
    /\ desired \in Nat /\ callbackGen \in Nat
    /\ snapshot \in SnapshotType
    /\ queue \in Seq(Messages)
    /\ s \in WorkerType
    /\ work \in WorkType
    /\ link \in LinkType
    /\ ctl \in CtlType
    /\ nvm \in Durable
    /\ ccc \in BOOLEAN
    /\ ui \in UiType
    /\ ui.session # 0 \/ ui.pc = "opening" => ui.profile \in Profiles
    /\ evtq \in Seq([session : Nat, peer : Peers])
    /\ budget \in [LimitKinds -> Nat]
=============================================================================
