---------------------------- MODULE BtRadioProofs ----------------------------
(***************************************************************************)
(* Who may connect to the Bluetooth runtime, for any profiles, hosts, queue *)
(* lengths and bounds: a start sets the controller's whitelist and address  *)
(* resolution up in steps, each a request, a completion and a message, and  *)
(* the radio comes on for the saved host only, or for any host only while   *)
(* none is saved.                                                           *)
(***************************************************************************)
EXTENDS BtServiceProofs

-----------------------------------------------------------------------------
(* The controller's tables and the radio                                     *)

\* what is under way to the tables the radio is restricted by: a request of the
\* stack, and the message that it is done
TableOps == {op \in ctl.ops : op[1] \in DOMAIN TableMessage}
TableTypes == {"PRIVACY", "WHITELIST_CLEAR", "WHITELIST_ADD", "PEER_PRIVACY"}
Tabling(i) == i \in 1..Len(queue) /\ queue[i].type \in TableTypes /\ queue[i].generation = s.generation

\* there is at most one of either
Single ==
    /\ \A a, b \in TableOps : a = b
    /\ \A i, j \in 1..Len(queue) : Tabling(i) /\ Tabling(j) => i = j
    /\ TableOps = {} \/ \A i \in 1..Len(queue) : ~Tabling(i)

\* and it is the next step of the set-up: the tables are as the steps before it left them
OpFits(op) ==
    /\ "privacy" \notin s.ready
    /\ op[1] \in {"privacy_off", "wl_clear", "wl_add"} => "whitelist" \notin s.ready
    /\ op[1] = "privacy_off" => s.phase = "resetting"
    /\ op[1] = "privacy_on" => s.phase = "enabling"
    /\ op[1] = "wl_add" => op[2] = s.profile.peer /\ ctl.wl = {} /\ s.pairing = FALSE
MsgFits(m) ==
    /\ "privacy" \notin s.ready
    /\ m.type = "PRIVACY" =>
          \/ s.phase = "resetting" /\ "whitelist" \notin s.ready
          \/ s.phase = "enabling" /\ (m.ok = TRUE => ctl.resolving = TRUE)
    /\ m.type \in {"WHITELIST_CLEAR", "WHITELIST_ADD"} => "whitelist" \notin s.ready
    /\ m.type = "WHITELIST_CLEAR" /\ m.ok = TRUE => ctl.wl = {}
    /\ m.type = "WHITELIST_ADD" => s.pairing = FALSE /\ (m.ok = TRUE => ctl.wl = {s.profile.peer})

\* a saved session's tables are those of its peer once the flags say they are ready
SetUp ==
    s.pairing = FALSE /\ s.connected = FALSE =>
        /\ "whitelist" \in s.ready => ctl.wl = {s.profile.peer}
        /\ "privacy" \in s.ready /\ s.profile.peer \in IrkHosts => ctl.resolving = TRUE
Sorted == s.forgetting = FALSE /\ work.pc # "bond_wait" => s.pairing = TRUE \/ s.saved = TRUE

Tables ==
    Running =>
        /\ Single
        /\ \A op \in TableOps : OpFits(op)
        /\ \A i \in 1..Len(queue) : Tabling(i) => MsgFits(queue[i])
        /\ SetUp /\ Sorted

\* what the radio was given stands for as long as it is on the air
Admits ==
    OnAir =>
        /\ TableOps = {} /\ (Running => "privacy" \in s.ready)
        /\ \A op \in ctl.ops : ~Removing(op)
        /\ Durably
        /\ \A i \in 1..Len(evtq) : Asked(i) => evtq[i].peer = s.profile.peer
        /\ ctl.adv = "any" \/ Op("adv_any") \in ctl.ops => s.profile.peer = NoPeer
        /\ ctl.adv = "listed" \/ Op("adv_listed") \in ctl.ops =>
              /\ ctl.wl = {s.profile.peer}
              /\ s.profile.peer \in IrkHosts => ctl.resolving = TRUE
              /\ HasBond(s.store, s.profile.peer)

\* nothing is under way without a host, and only a pairing window retries
Retries ==
    /\ ~HostOn(s) => TableOps = {}
    /\ work.k = "auth_retry" /\ work.pc \notin Posts => s.pairing = TRUE

RadioInv == Tables /\ Admits /\ Retries

LEMMA TableFacts ==
    /\ DOMAIN TableMessage = {"privacy_off", "privacy_on", "peer_privacy", "wl_clear", "wl_add"}
    /\ \A op \in TableOps : op \in ctl.ops /\ op[1] \in DOMAIN TableMessage
    /\ \A op \in TableOps' : op \in ctl'.ops /\ op[1] \in DOMAIN TableMessage
BY DEF TableMessage, TableOps

\* the requests that could change what the radio was given
Weighty == DOMAIN TableMessage \cup {"remove_bond", "adv_any", "adv_listed"}

\* what is on the air was before, and nothing it was given changes
LEMMA AdmitsStays ==
    ASSUME Admits,
           OnAir' =>
               /\ OnAir /\ (Running' => Running /\ ("privacy" \in s.ready => "privacy" \in s'.ready))
               /\ s'.profile = s.profile /\ s'.session = s.session /\ s'.store = s.store
               /\ ctl'.adv \in {ctl.adv, "off"} /\ ctl'.wl = ctl.wl /\ ctl'.resolving = ctl.resolving
               /\ \A op \in ctl'.ops : op \in ctl.ops \/ op[1] \notin Weighty
               /\ nvm'.peer = nvm.peer /\ nvm.bonds \subseteq nvm'.bonds
               /\ \A i \in 1..Len(evtq') : Asked(i)' => \E j \in 1..Len(evtq) : Asked(j) /\ evtq'[i].peer = evtq[j].peer
    PROVE  Admits'
<1> SUFFICES ASSUME OnAir'
             PROVE  /\ TableOps' = {} /\ (Running' => "privacy" \in s'.ready)
                    /\ \A op \in ctl'.ops : ~Removing(op)'
                    /\ Durably'
                    /\ \A i \in 1..Len(evtq') : Asked(i)' => evtq'[i].peer = s'.profile.peer
                    /\ ctl'.adv = "any" \/ Op("adv_any") \in ctl'.ops => s'.profile.peer = NoPeer
                    /\ ctl'.adv = "listed" \/ Op("adv_listed") \in ctl'.ops =>
                          /\ ctl'.wl = {s'.profile.peer}
                          /\ s'.profile.peer \in IrkHosts => ctl'.resolving = TRUE
                          /\ HasBond(s.store, s.profile.peer)'
    BY DEF Admits
<1>1. TableOps' = {}
    BY DEF Admits, TableOps, Weighty
<1>2. \A op \in ctl'.ops : ~Removing(op)'
    BY DEF Admits, Removing, Weighty
<1>3. Durably' /\ (Running' => "privacy" \in s'.ready)
    BY DEF Admits, Durably
<1>4. \A i \in 1..Len(evtq') : Asked(i)' => evtq'[i].peer = s'.profile.peer
    BY DEF Admits
<1>5. /\ Op("adv_any") \in ctl'.ops => Op("adv_any") \in ctl.ops
      /\ Op("adv_listed") \in ctl'.ops => Op("adv_listed") \in ctl.ops
    BY DEF Op, Weighty
<1>6. /\ ctl'.adv = "any" => ctl.adv = "any"
      /\ ctl'.adv = "listed" => ctl.adv = "listed"
    OBVIOUS
<1>7. HasBond(s.store, s.profile.peer) => HasBond(s.store, s.profile.peer)'
    BY DEF HasBond
<1> QED BY <1>1, <1>2, <1>3, <1>4, <1>5, <1>6, <1>7 DEF Admits

\* the worker's state after a step that leaves the set-up of the tables where it is
Moves(s1) ==
    /\ s1 \in WorkerType /\ s1.generation = s.generation /\ s1.layers = s.layers
    /\ s1.phase = s.phase
    /\ "privacy" \in s1.ready <=> "privacy" \in s.ready
    /\ "whitelist" \in s1.ready <=> "whitelist" \in s.ready
    /\ s.pairing = FALSE => s1.pairing = FALSE /\ s1.profile.peer = s.profile.peer
    /\ s1.pairing = FALSE /\ s1.connected = FALSE => s.pairing = FALSE /\ s.connected = FALSE
    /\ s1.forgetting = FALSE => /\ s.forgetting = FALSE
                                /\ s.pairing = TRUE \/ s.saved = TRUE => s1.pairing = TRUE \/ s1.saved = TRUE
    /\ OnAir => s1.profile = s.profile /\ s1.session = s.session /\ s1.store = s.store

LEMMA SelfMoves == ASSUME TypeOK PROVE Moves(s)
BY DEF Moves, TypeOK

\* requests and messages of the tables stay, or one that is none of them goes or comes
LEMMA TablesStay ==
    ASSUME Tables, Running' => Running,
           ctl'.wl = ctl.wl, ctl'.resolving = ctl.resolving, TableOps' = TableOps,
           NEW d \in {0, 1}, \A i \in 1..Len(queue') : Tabling(i)' => i + d \in 1..Len(queue) /\ Tabling(i + d) /\ queue'[i] = queue[i + d],
           Moves(s'), Running' => (s'.forgetting = FALSE /\ work'.pc # "bond_wait" => work.pc # "bond_wait")
    PROVE  Tables'
<1> SUFFICES ASSUME Running'
             PROVE  /\ Single'
                    /\ \A op \in TableOps' : OpFits(op)'
                    /\ \A i \in 1..Len(queue') : Tabling(i)' => MsgFits(queue[i])'
                    /\ SetUp' /\ Sorted'
    BY DEF Tables
<1>1. /\ Single /\ SetUp /\ Sorted
      /\ \A op \in TableOps : OpFits(op)
      /\ \A i \in 1..Len(queue) : Tabling(i) => MsgFits(queue[i])
    BY DEF Tables
<1>2. Single'
    <2>1. \A i, j \in 1..Len(queue') : Tabling(i)' /\ Tabling(j)' => i = j
        BY <1>1 DEF Single
    <2> QED BY <1>1, <2>1 DEF Single
<1>3. \A op \in TableOps' : OpFits(op)'
    BY <1>1 DEF OpFits, Moves
<1>4. \A i \in 1..Len(queue') : Tabling(i)' => MsgFits(queue[i])'
    <2> SUFFICES ASSUME NEW i \in 1..Len(queue'), Tabling(i)'
                 PROVE  MsgFits(queue[i])'
        OBVIOUS
    <2>1. MsgFits(queue[i + d]) /\ queue'[i] = queue[i + d]
        BY <1>1
    <2> QED BY <2>1 DEF MsgFits, Moves
<1>5. SetUp' /\ Sorted'
    BY <1>1 DEF SetUp, Sorted, Moves
<1> QED BY <1>2, <1>3, <1>4, <1>5

LEMMA ShrinksTabling ==
    ASSUME TypeOK, Shrinks, s'.generation = s.generation
    PROVE  \E d \in {0, 1} : \A i \in 1..Len(queue') :
              Tabling(i)' => i + d \in 1..Len(queue) /\ Tabling(i + d) /\ queue'[i] = queue[i + d]
<1>1. PICK d \in {0, 1} : \A i \in 1..Len(queue') : i + d \in 1..Len(queue) /\ queue'[i] = queue[i + d]
    BY DEF Shrinks
<1> QED BY <1>1 DEF Tabling

\* a handler goes on, or a pairing window loses its link
LEMMA MovesRadio ==
    ASSUME TypeOK, RadioInv, Shrinks, Moves(s'), Tends, Tends', work'.pc \notin Posts => s'.pairing = TRUE,
           ctl' = ctl, nvm'.peer = nvm.peer, nvm'.bonds = nvm.bonds, OnAir => evtq' = evtq
    PROVE  RadioInv'
<1>1. Running' <=> Running
    BY TendsFacts DEF Moves, HostOn, Running, Winding, Tends, Posts
<1>2. TableOps' = TableOps /\ (OnAir' <=> OnAir)
    BY DEF TableOps, OnAir
<1>3. Tables'
    <2>1. s'.generation = s.generation /\ work'.pc # "bond_wait" /\ work.pc # "bond_wait"
        BY DEF Moves, Tends, Posts
    <2>2. PICK d \in {0, 1} : \A i \in 1..Len(queue') :
              Tabling(i)' => i + d \in 1..Len(queue) /\ Tabling(i + d) /\ queue'[i] = queue[i + d]
        BY <2>1, ShrinksTabling
    <2> QED BY <1>1, <1>2, <2>1, <2>2, TablesStay DEF RadioInv
<1>4. Admits'
    <2>1. OnAir' => \A i \in 1..Len(evtq') : Asked(i)' => \E j \in 1..Len(evtq) : Asked(j) /\ evtq'[i].peer = evtq[j].peer
        BY <1>2 DEF Asked, Moves
    <2> QED BY <1>1, <1>2, <2>1, AdmitsStays DEF RadioInv, Moves
<1>5. Retries'
    BY <1>2 DEF RadioInv, Retries, HostOn, Moves
<1> QED BY <1>3, <1>4, <1>5 DEF RadioInv

\* what a stop leaves of the copies it began with
LEMMA StopStores ==
    ASSUME NEW s1 \in WorkerType, NEW shown, NEW k, NEW post, NEW m, BeginStop(s1, shown, k, post, m)
    PROVE  /\ s'.session = s1.session /\ s'.profile = s1.profile /\ s'.store = s1.store /\ s'.layers = s1.layers
           /\ work'.pc = "stop_adv" /\ work'.k = k
BY DEF BeginStop, StoppedFlags, WorkerType

\* a handler stops the runtime: the radio is as it was
LEMMA StopsRadio ==
    ASSUME RadioInv, NEW s1 \in WorkerType, s1.layers = s.layers \/ TableOps = {},
           OnAir => s1.profile = s.profile /\ s1.session = s.session /\ s1.store = s.store /\ evtq' = evtq,
           NEW shown, NEW k, k # "auth_retry", NEW post, NEW m, BeginStop(s1, shown, k, post, m),
           ctl'.adv = ctl.adv, ctl'.wl = ctl.wl, ctl'.resolving = ctl.resolving, ctl'.ops = ctl.ops,
           nvm'.peer = nvm.peer, nvm'.bonds = nvm.bonds
    PROVE  RadioInv'
<1>1. /\ s'.session = s1.session /\ s'.profile = s1.profile /\ s'.store = s1.store /\ s'.layers = s1.layers
      /\ work'.pc = "stop_adv" /\ work'.k = k
    BY StopStores
<1>2. ~Running'
    BY <1>1 DEF Running, Winding
<1>3. TableOps' = TableOps /\ (OnAir' <=> OnAir)
    BY DEF TableOps, OnAir
<1>4. Admits'
    <2>1. OnAir' => \A i \in 1..Len(evtq') : Asked(i)' => \E j \in 1..Len(evtq) : Asked(j) /\ evtq'[i].peer = evtq[j].peer
        BY <1>1, <1>3 DEF Asked
    <2> QED BY <1>1, <1>2, <1>3, <2>1, AdmitsStays DEF RadioInv
<1>5. Retries'
    BY <1>1, <1>3 DEF RadioInv, Retries, HostOn
<1> QED BY <1>2, <1>4, <1>5 DEF RadioInv, Tables

\* the same of all that Moves speaks of
SameMoved(s1, s2) ==
    /\ s2 \in WorkerType /\ s2.session = s1.session /\ s2.generation = s1.generation /\ s2.profile = s1.profile
    /\ s2.store = s1.store /\ s2.layers = s1.layers /\ s2.phase = s1.phase /\ s2.forgetting = s1.forgetting
    /\ "privacy" \in s2.ready <=> "privacy" \in s1.ready
    /\ "whitelist" \in s2.ready <=> "whitelist" \in s1.ready
    /\ s2.connected = s1.connected /\ s2.saved = s1.saved /\ s2.pairing = s1.pairing

LEMMA SameMoves ==
    ASSUME NEW s1, NEW s2, SameMoved(s1, s2), Moves(s1)
    PROVE  Moves(s2)
BY DEF SameMoved, Moves

LEMMA ClearMoved ==
    ASSUME NEW s1 \in WorkerType, NEW ds
    PROVE  SameMoved(s1, Clear(s1, ds))
<1>1. Clear(s1, ds) \in WorkerType
    BY ClearType
<1> QED BY <1>1 DEF SameMoved, Clear, WorkerType

LEMMA ReadyIfSubscribedRadio ==
    ASSUME TypeOK, RadioInv, work.pc \in Posts, Shrinks, evtq' = evtq, ctl' = ctl,
           nvm'.peer = nvm.peer, nvm'.bonds = nvm.bonds,
           NEW s1, Moves(s1), NEW post \in Posts, NEW m, ReadyIfSubscribed(s1, post, m)
    PROVE  RadioInv'
<1>1. Tends /\ s1 \in WorkerType /\ ccc \in BOOLEAN
    BY DEF Tends, Moves, TypeOK
<1>2. ASSUME work' = [work EXCEPT !.pc = post, !.msg = m], Moves(s')
      PROVE  RadioInv'
    <2>1. work'.pc \in Posts /\ Tends'
        BY <1>2 DEF TypeOK, WorkType, Tends
    <2> QED BY <1>1, <1>2, <2>1, MovesRadio
<1>3. CASE s' = s1 /\ work' = [work EXCEPT !.pc = post, !.msg = m]
    <2>1. Moves(s')
        BY <1>3
    <2> QED BY <1>2, <1>3, <2>1
<1>4. CASE /\ s' = [(IF ccc THEN Clear(s1, {"connect", "pair"}) ELSE s1) EXCEPT !.subscribed = ccc]
           /\ work' = [work EXCEPT !.pc = post, !.msg = m]
    <2> DEFINE cleared == Clear(s1, {"connect", "pair"})
               base == IF ccc THEN cleared ELSE s1
    <2>1. SameMoved(s1, cleared)
        BY <1>1, ClearMoved
    <2>2. s' = [base EXCEPT !.subscribed = ccc] /\ (base = cleared \/ base = s1)
        BY <1>4
    <2> HIDE DEF cleared, base
    <2>3. Moves(base)
        BY <2>1, <2>2, SameMoves
    <2>4. base \in WorkerType
        BY <2>3 DEF Moves
    <2>5. SameMoved(base, s')
        BY <1>1, <2>2, <2>4 DEF SameMoved, WorkerType
    <2> QED BY <1>2, <1>4, <2>3, <2>5, SameMoves
<1>5. CASE BeginStop(s1, snapshot, "fail", post, m)
    <2>1. s1.layers = s.layers /\ (OnAir => s1.profile = s.profile /\ s1.session = s.session /\ s1.store = s.store)
        BY DEF Moves
    <2>2. "fail" # "auth_retry"
        OBVIOUS
    <2> QED BY <1>1, <1>5, <2>1, <2>2, StopsRadio
<1> QED BY <1>3, <1>4, <1>5 DEF ReadyIfSubscribed

LEMMA DoneRadio ==
    ASSUME TypeOK, RadioInv, work.pc \in Posts, work'.pc \in Posts, Shrinks, evtq' = evtq, ctl' = ctl,
           nvm'.peer = nvm.peer, nvm'.bonds = nvm.bonds, Moves(s')
    PROVE  RadioInv'
<1>1. Tends /\ Tends'
    BY DEF Tends
<1> QED BY <1>1, MovesRadio

LEMMA SelfStopsRadio ==
    ASSUME TypeOK, RadioInv, evtq' = evtq, ctl' = ctl, nvm'.peer = nvm.peer, nvm'.bonds = nvm.bonds,
           NEW k, k # "auth_retry", NEW post, NEW m, BeginStop(s, snapshot, k, post, m)
    PROVE  RadioInv'
<1>1. s \in WorkerType
    BY DEF TypeOK
<1> QED BY <1>1, StopsRadio

\* what an answer leaves of the worker's state
LEMMA AckCopies ==
    ASSUME TypeOK
    PROVE  /\ SameMoved(s, AckFlags)
           /\ AckFlags.awaiting_save = FALSE
<1>1. s \in WorkerType
    BY DEF TypeOK
<1> DEFINE cleared == Clear(s, {"save"})
<1>2. SameMoved(s, cleared) /\ cleared \in WorkerType
    BY <1>1, ClearMoved DEF SameMoved
<1>3. AckFlags = [cleared EXCEPT !.awaiting_save = FALSE]
    BY DEF AckFlags
<1> HIDE DEF cleared
<1>4. SameMoved(cleared, AckFlags) /\ AckFlags.awaiting_save = FALSE
    BY <1>2, <1>3 DEF SameMoved, WorkerType
<1> QED BY <1>2, <1>4 DEF SameMoved

\* nothing is on the air while an answer is awaited, or under a link
LEMMA Unaired ==
    ASSUME TypeOK, LinkInv, ServeInv, ~Winding, s.awaiting_save = TRUE \/ s.connected = TRUE
    PROVE  ~OnAir
<1>1. OnAir => s.advertising /\ ~s.connected
    BY DEF LinkInv, Aired, Silenced
<1>2. s.awaiting_save = TRUE => s.advertising = FALSE
    BY DEF ServeInv, Guarded, Sound
<1> QED BY <1>1, <1>2

LEMMA ApiHandlersRadio ==
    ASSUME TypeOK, LinkInv, ServeInv, RadioInv, ApiHandlers
    PROVE  RadioInv'
<1>1. PICK types \in {{"OPEN"}, {"FORGET"}, {"SAVED"}, {"TAP"}, {"RELEASE"}, {"CLOSE"}, ApiTypes \cup CallbackTypes} :
         Take(types)
    BY DEF ApiHandlers, HandleOpen, HandleForget, HandleSaved, HandleTap, HandleRelease, HandleClose, HandleDropped
<1>2. Shrinks /\ evtq' = evtq /\ nvm'.peer = nvm.peer /\ nvm'.bonds = nvm.bonds
    BY WorkerSteady, ApiHandlersOrder DEF Worker, Steady
<1>3. work.pc = "idle" /\ work.pc \in Posts /\ ~Winding /\ s \in WorkerType /\ work \in WorkType
    BY <1>1 DEF Take, Posts, Winding, TypeOK
<1>4. Msg \in Messages
    BY <1>1, TakeShrinks
<1>5. ctl' = ctl
    BY DEF ApiHandlers, HandleOpen, HandleForget, HandleSaved, HandleTap, HandleRelease, HandleClose, HandleDropped
<1>6. ASSUME NEW pc \in {"idle", "tail", "after"}, Done(pc), s' = s
      PROVE  RadioInv'
    <2>1. work'.pc \in Posts
        BY <1>3, <1>6 DEF Done, WorkType, Posts
    <2>2. Moves(s')
        BY <1>6, SelfMoves
    <2> QED BY <1>2, <1>3, <1>5, <2>1, <2>2, DoneRadio
<1>7. ASSUME NEW k \in {"open", "forget", "restart", "release"}, BeginStop(s, snapshot, k, "tail", Msg)
      PROVE  RadioInv'
    BY <1>2, <1>5, <1>7, SelfStopsRadio
<1>8. CASE HandleOpen
    BY <1>6, <1>7, <1>8 DEF HandleOpen
<1>9. CASE HandleForget
    BY <1>7, <1>9 DEF HandleForget
<1>10. CASE HandleTap \/ HandleRelease
    BY <1>6, <1>7, <1>10 DEF HandleTap, HandleRelease
<1>11. CASE HandleClose \/ HandleDropped
    <2>1. PICK pc \in {"idle", "tail", "after"} : Done(pc)
        BY <1>11 DEF HandleClose, HandleDropped
    <2> QED BY <1>6, <1>11, <2>1 DEF HandleClose, HandleDropped
<1>12. CASE HandleSaved
    <2> DEFINE s1 == [AckFlags EXCEPT !.saved = TRUE, !.pairing = FALSE]
               s2 == [AckFlags EXCEPT !.profile = Msg.remote, !.forgetting = FALSE]
    <2>1. ~OnAir
        <3>1. s.awaiting_save = TRUE
            BY <1>3, <1>12 DEF HandleSaved, WorkerType
        <3> QED BY <1>3, <3>1, Unaired
    <2>2. SameMoved(s, AckFlags) /\ AckFlags \in WorkerType
        BY AckCopies DEF SameMoved
    <2>3. /\ s1 \in WorkerType /\ s1.saved = TRUE /\ s1.pairing = FALSE
          /\ s1.generation = s.generation /\ s1.layers = s.layers /\ s1.phase = s.phase
          /\ "privacy" \in s1.ready <=> "privacy" \in s.ready
          /\ "whitelist" \in s1.ready <=> "whitelist" \in s.ready
          /\ s1.profile = s.profile /\ s1.forgetting = s.forgetting /\ s1.connected = s.connected
        BY <2>2 DEF SameMoved, WorkerType
    <2>4. s2 \in WorkerType /\ s2.layers = s.layers
        <3>1. Msg.remote \in Remotes
            BY <1>4 DEF Messages
        <3> QED BY <2>2, <3>1 DEF SameMoved, WorkerType
    <2>5. AckFlags.layers = s.layers
        BY <2>2 DEF SameMoved
    <2> HIDE DEF s1, s2
    <2>6. ASSUME NEW t \in WorkerType, t.layers = s.layers,
                 NEW k \in {"fail", "restart", "unpair"}, NEW post, BeginStop(t, snapshot, k, post, Msg)
          PROVE  RadioInv'
        BY <1>2, <1>5, <2>1, <2>6, StopsRadio
    <2>7. CASE ~Msg.flag /\ BeginStop(AckFlags, snapshot, "fail", "idle", Msg)
        BY <2>2, <2>5, <2>6, <2>7
    <2>8. CASE BeginStop(s2, snapshot, IF s.pair_after THEN "restart" ELSE "unpair", "tail", Msg)
        BY <2>4, <2>6, <2>8
    <2>9. CASE BeginStop(s1, snapshot, "restart", "tail", Msg)
        BY <2>3, <2>6, <2>9
    <2>10. CASE s.connected /\ ReadyIfSubscribed(s1, "tail", Msg)
        <3>1. s.connected = TRUE
            BY <1>3, <2>10 DEF WorkerType
        <3>2. Moves(s1)
            BY <2>1, <2>3, <3>1 DEF Moves
        <3>3. "tail" \in Posts
            BY DEF Posts
        <3> QED BY <1>2, <1>3, <1>5, <2>10, <3>2, <3>3, ReadyIfSubscribedRadio
    <2> QED BY <1>12, <2>7, <2>8, <2>9, <2>10 DEF HandleSaved, s1, s2
<1> QED BY <1>8, <1>9, <1>10, <1>11, <1>12 DEF ApiHandlers

-----------------------------------------------------------------------------
(* Handlers of the callback messages that set the tables up                  *)

\* a message of the tables is the only one, nothing is under way, nothing on the air
LEMMA TableTaken ==
    ASSUME TypeOK, ServeInv, RadioInv, CallbackHandlers, NEW types \in SUBSET TableTypes, TakeCallback(types)
    PROVE  /\ Running /\ TableOps = {} /\ ~OnAir /\ MsgFits(Msg) /\ SetUp /\ Sorted
           /\ \A i \in 1..Len(queue) : Tabling(i) => i = 1
           /\ \A i \in 1..Len(queue') : i + 1 \in 1..Len(queue) /\ queue'[i] = queue[i + 1]
<1>1. /\ HostOn(s) /\ Tends /\ Msg \in Messages /\ Msg.type \in types
      /\ Msg = queue[1] /\ 1 \in 1..Len(queue) /\ Queued(1, Msg.type)
    BY CallbackFinds
<1>2. Running
    BY <1>1, TendsFacts
<1>3. Tabling(1)
    BY <1>1 DEF Tabling, Queued
<1>4. Single /\ SetUp /\ Sorted /\ MsgFits(queue[1])
    BY <1>1, <1>2, <1>3 DEF RadioInv, Tables
<1>5. TableOps = {} /\ \A i \in 1..Len(queue) : Tabling(i) => i = 1
    BY <1>1, <1>3, <1>4 DEF Single
<1>6. ~OnAir
    BY <1>2, <1>4 DEF RadioInv, Admits, MsgFits
<1>7. \A i \in 1..Len(queue') : i + 1 \in 1..Len(queue) /\ queue'[i] = queue[i + 1]
    <2>1. queue \in Seq(Messages) /\ queue # << >> /\ queue' = Tail(queue)
        BY DEF TakeCallback, Take, TypeOK
    <2> QED BY <2>1
<1> QED BY <1>1, <1>2, <1>4, <1>5, <1>6, <1>7

\* the next step of the set-up is asked for, or there is none
LEMMA TableNext ==
    ASSUME TypeOK, ServeInv, RadioInv, CallbackHandlers, NEW types \in SUBSET TableTypes, TakeCallback(types),
           s' \in WorkerType, s'.generation = s.generation, s'.layers = s.layers,
           s'.forgetting = s.forgetting, s'.pairing = s.pairing, s'.saved = s.saved, work'.pc = "after", SetUp',
           ctl'.adv = ctl.adv,
           \/ ctl'.ops = ctl.ops
           \/ \E op : op[1] \in DOMAIN TableMessage /\ ctl'.ops = ctl.ops \cup {op} /\ OpFits(op)'
    PROVE  RadioInv'
<1>1. /\ Running /\ TableOps = {} /\ ~OnAir /\ Sorted
      /\ \A i \in 1..Len(queue) : Tabling(i) => i = 1
      /\ \A i \in 1..Len(queue') : i + 1 \in 1..Len(queue) /\ queue'[i] = queue[i + 1]
    BY TableTaken
<1>2. work.pc = "idle" /\ HostOn(s)
    BY DEF TakeCallback, Take, Current
<1>3. \A i \in 1..Len(queue') : ~Tabling(i)'
    <2> SUFFICES ASSUME NEW i \in 1..Len(queue'), Tabling(i)'
                 PROVE  FALSE
        OBVIOUS
    <2>1. i + 1 \in 1..Len(queue) /\ queue'[i] = queue[i + 1]
        BY <1>1
    <2>2. Tabling(i + 1)
        BY <2>1 DEF Tabling
    <2> QED BY <1>1, <2>1, <2>2
<1>4. (\A a, b \in TableOps' : a = b) /\ \A op \in TableOps' : OpFits(op)'
    BY <1>1 DEF TableOps
<1>5. ~OnAir'
    <2>1. \A op : op[1] \in DOMAIN TableMessage => op \notin AdvOps
        BY TableFacts, OpFacts DEF Op
    <2> QED BY <1>1, <2>1 DEF OnAir
<1>6. Tables'
    <2>1. Sorted'
        BY <1>1, <1>2 DEF Sorted
    <2>2. Single'
        BY <1>3, <1>4 DEF Single
    <2> QED BY <1>3, <1>4, <2>1, <2>2 DEF Tables
<1>7. Retries'
    BY <1>2 DEF Retries, HostOn, Posts
<1> QED BY <1>5, <1>6, <1>7 DEF RadioInv, Admits

\* a handler of the tables asks for a step, cannot, or only raises flags
LEMMA TableGoes ==
    ASSUME TypeOK, ServeInv, RadioInv, CallbackHandlers, NEW types \in SUBSET TableTypes, TakeCallback(types),
           nvm' = nvm, evtq' = evtq,
           NEW s1 \in WorkerType, s1.generation = s.generation, s1.layers = s.layers,
           s1.forgetting = s.forgetting, s1.pairing = s.pairing, s1.saved = s.saved,
           s1.connected = s.connected, s1.profile = s.profile,
           s1.pairing = FALSE /\ s1.connected = FALSE =>
               /\ "whitelist" \in s1.ready => ctl.wl = {s1.profile.peer}
               /\ "privacy" \in s1.ready /\ s1.profile.peer \in IrkHosts => ctl.resolving = TRUE,
           \/ SetFlags(s1)
           \/ \E op : /\ op[1] \in DOMAIN TableMessage /\ Request(s1, op)
                      /\ "privacy" \notin s1.ready
                      /\ op[1] \in {"privacy_off", "wl_clear", "wl_add"} => "whitelist" \notin s1.ready
                      /\ op[1] = "privacy_off" => s1.phase = "resetting"
                      /\ op[1] = "privacy_on" => s1.phase = "enabling"
                      /\ op[1] = "wl_add" => op[2] = s1.profile.peer /\ ctl.wl = {} /\ s1.pairing = FALSE
    PROVE  RadioInv'
<1>1. Running /\ ~OnAir /\ work \in WorkType /\ ctl \in CtlType
    BY TableTaken DEF TypeOK
<1>2. Done("after") => work'.pc = "after"
    BY <1>1 DEF Done, WorkType
<1>3. CASE SetFlags(s1)
    <2>1. s' = s1 /\ ctl' = ctl /\ work'.pc = "after"
        BY <1>2, <1>3 DEF SetFlags
    <2>2. SetUp'
        BY <2>1 DEF SetUp
    <2> QED BY <2>1, <2>2, TableNext
<1>4. ASSUME NEW op, op[1] \in DOMAIN TableMessage, Request(s1, op),
             /\ "privacy" \notin s1.ready
             /\ op[1] \in {"privacy_off", "wl_clear", "wl_add"} => "whitelist" \notin s1.ready
             /\ op[1] = "privacy_off" => s1.phase = "resetting"
             /\ op[1] = "privacy_on" => s1.phase = "enabling"
             /\ op[1] = "wl_add" => op[2] = s1.profile.peer /\ ctl.wl = {} /\ s1.pairing = FALSE
      PROVE  RadioInv'
    <2>1. CASE s' = s1 /\ ctl' = [ctl EXCEPT !.ops = @ \cup {op}] /\ Done("after")
        <3>1. ctl'.ops = ctl.ops \cup {op} /\ ctl'.adv = ctl.adv /\ ctl'.wl = ctl.wl /\ ctl'.resolving = ctl.resolving
            BY <1>1, <2>1 DEF CtlType
        <3>2. SetUp' /\ OpFits(op)'
            BY <1>4, <2>1, <3>1 DEF SetUp, OpFits
        <3>3. s' = s1 /\ work'.pc = "after"
            BY <1>2, <2>1
        <3> QED BY <1>4, <3>1, <3>2, <3>3, TableNext
    <2>2. CASE BeginStop(s1, snapshot, "fail", "after", Msg) /\ ctl' = ctl
        BY <1>1, <2>2, StopsRadio
    <2> QED BY <1>4, <2>1, <2>2 DEF Request
<1> QED BY <1>3, <1>4

LEMMA HandlePrivacyRadio ==
    ASSUME TypeOK, ServeInv, RadioInv, HandlePrivacy
    PROVE  RadioInv'
<1>1. TakeCallback({"PRIVACY"}) /\ CallbackHandlers /\ {"PRIVACY"} \in SUBSET TableTypes
      /\ nvm' = nvm /\ evtq' = evtq
    BY DEF HandlePrivacy, CallbackHandlers, TableTypes, Outside
<1>2. s \in WorkerType /\ Msg \in Messages /\ Msg.type = "PRIVACY"
    <2>1. Msg.type \in {"PRIVACY"}
        BY <1>1, CallbackFinds
    <2> QED BY <1>1, <2>1, CallbackFinds
<1>3. MsgFits(Msg) /\ SetUp
    BY <1>1, TableTaken
<1>4. CASE SetFlags(s)
    BY <1>1, <1>2, <1>3, <1>4, TableGoes DEF SetUp
<1>5. CASE Msg.ok /\ s.phase = "resetting" /\ Request([s EXCEPT !.phase = "preparing"], Op("wl_clear"))
    <2> DEFINE s1 == [s EXCEPT !.phase = "preparing"]
    <2>1. /\ s1 \in WorkerType /\ s1.generation = s.generation /\ s1.layers = s.layers
          /\ s1.forgetting = s.forgetting /\ s1.pairing = s.pairing /\ s1.saved = s.saved
          /\ s1.connected = s.connected /\ s1.profile = s.profile /\ s1.ready = s.ready
        BY <1>2 DEF WorkerType
    <2>2. Op("wl_clear")[1] = "wl_clear" /\ "wl_clear" \in DOMAIN TableMessage
        BY TableFacts DEF Op
    <2>3. "privacy" \notin s1.ready /\ "whitelist" \notin s1.ready
        BY <1>2, <1>3, <1>5, <2>1 DEF MsgFits
    <2> HIDE DEF s1
    <2> QED BY <1>1, <1>3, <1>5, <2>1, <2>2, <2>3, TableGoes DEF SetUp, s1
<1>6. CASE Msg.ok /\ s.phase = "enabling" /\ SetFlags([s EXCEPT !.phase = "ready", !.ready = @ \cup {"privacy"}])
    <2> DEFINE s1 == [s EXCEPT !.phase = "ready", !.ready = @ \cup {"privacy"}]
    <2>1. /\ s1 \in WorkerType /\ s1.generation = s.generation /\ s1.layers = s.layers
          /\ s1.forgetting = s.forgetting /\ s1.pairing = s.pairing /\ s1.saved = s.saved
          /\ s1.connected = s.connected /\ s1.profile = s.profile /\ s1.ready = s.ready \cup {"privacy"}
        BY <1>2 DEF WorkerType, ReadyFlags
    <2>2. ctl.resolving = TRUE
        BY <1>2, <1>3, <1>6 DEF MsgFits, Messages
    <2> HIDE DEF s1
    <2> QED BY <1>1, <1>3, <1>6, <2>1, <2>2, TableGoes DEF SetUp, s1
<1> QED BY <1>4, <1>5, <1>6 DEF HandlePrivacy

LEMMA HandleWhitelistRadio ==
    ASSUME TypeOK, ServeInv, RadioInv, HandleWhitelist
    PROVE  RadioInv'
<1> DEFINE types == {"WHITELIST_CLEAR", "WHITELIST_ADD"}
<1>1. TakeCallback(types) /\ CallbackHandlers /\ types \in SUBSET TableTypes
      /\ nvm' = nvm /\ evtq' = evtq
    BY DEF HandleWhitelist, CallbackHandlers, TableTypes, Outside
<1>2. s \in WorkerType /\ Msg \in Messages /\ Msg.type \in types
    BY <1>1, CallbackFinds
<1>3. MsgFits(Msg) /\ SetUp
    BY <1>1, TableTaken
<1>4. /\ "privacy" \notin s.ready /\ "whitelist" \notin s.ready
      /\ Msg.type = "WHITELIST_CLEAR" /\ Msg.ok => ctl.wl = {}
      /\ Msg.type = "WHITELIST_ADD" => s.pairing = FALSE /\ (Msg.ok => ctl.wl = {s.profile.peer})
    BY <1>2, <1>3 DEF MsgFits, Messages
<1>5. s.pairing \in BOOLEAN
    BY <1>2 DEF WorkerType
<1>6. CASE SetFlags(s)
    BY <1>1, <1>2, <1>3, <1>6, TableGoes DEF SetUp
<1>7. CASE /\ Msg.ok /\ Msg.type = "WHITELIST_CLEAR" /\ ~s.pairing
           /\ Request(s, <<"wl_add", s.profile.peer>>)
    <2> DEFINE op == <<"wl_add", s.profile.peer>>
    <2>1. op[1] = "wl_add" /\ op[2] = s.profile.peer /\ "wl_add" \in DOMAIN TableMessage
        BY TableFacts
    <2>2. Request(s, op) /\ ctl.wl = {} /\ s.pairing = FALSE
        BY <1>4, <1>5, <1>7
    <2> HIDE DEF op
    <2> QED BY <1>1, <1>2, <1>3, <1>4, <2>1, <2>2, TableGoes DEF SetUp
<1>8. CASE /\ Msg.ok /\ Msg.type = "WHITELIST_ADD" /\ ~s.pairing
           /\ Request([s EXCEPT !.ready = @ \cup {"whitelist"}], Op("peer_privacy"))
    <2> DEFINE s1 == [s EXCEPT !.ready = @ \cup {"whitelist"}]
    <2>1. /\ s1 \in WorkerType /\ s1.generation = s.generation /\ s1.layers = s.layers
          /\ s1.forgetting = s.forgetting /\ s1.pairing = s.pairing /\ s1.saved = s.saved
          /\ s1.connected = s.connected /\ s1.profile = s.profile /\ s1.ready = s.ready \cup {"whitelist"}
        BY <1>2 DEF WorkerType, ReadyFlags
    <2>2. Op("peer_privacy")[1] = "peer_privacy" /\ "peer_privacy" \in DOMAIN TableMessage
        BY TableFacts DEF Op
    <2>3. "privacy" \notin s1.ready
        BY <1>4, <2>1
    <2>4. ctl.wl = {s1.profile.peer}
        BY <1>4, <1>8, <2>1
    <2>5. Request(s1, Op("peer_privacy"))
        BY <1>8
    <2> HIDE DEF s1
    <2> QED BY <1>1, <2>1, <2>2, <2>3, <2>4, <2>5, TableGoes
<1>9. CASE /\ Msg.ok /\ (Msg.type = "WHITELIST_ADD" \/ s.pairing)
           /\ ~(~s.pairing /\ s.profile.peer \in IrkHosts)
           /\ SetFlags([s EXCEPT !.ready = @ \cup {"whitelist", "privacy"}, !.phase = "ready"])
    <2> DEFINE s1 == [s EXCEPT !.ready = @ \cup {"whitelist", "privacy"}, !.phase = "ready"]
    <2>1. /\ s1 \in WorkerType /\ s1.generation = s.generation /\ s1.layers = s.layers
          /\ s1.forgetting = s.forgetting /\ s1.pairing = s.pairing /\ s1.saved = s.saved
          /\ s1.connected = s.connected /\ s1.profile = s.profile
        BY <1>2 DEF WorkerType, ReadyFlags
    <2>2. s1.pairing = FALSE => ctl.wl = {s1.profile.peer} /\ s1.profile.peer \notin IrkHosts
        BY <1>4, <1>9, <2>1
    <2>3. SetFlags(s1)
        BY <1>9
    <2> HIDE DEF s1
    <2> QED BY <1>1, <2>1, <2>2, <2>3, TableGoes
<1> QED BY <1>2, <1>5, <1>6, <1>7, <1>8, <1>9 DEF HandleWhitelist

LEMMA HandlePeerPrivacyRadio ==
    ASSUME TypeOK, ServeInv, RadioInv, HandlePeerPrivacy
    PROVE  RadioInv'
<1>1. TakeCallback({"PEER_PRIVACY"}) /\ CallbackHandlers /\ {"PEER_PRIVACY"} \in SUBSET TableTypes
      /\ nvm' = nvm /\ evtq' = evtq
    BY DEF HandlePeerPrivacy, CallbackHandlers, TableTypes, Outside
<1>2. s \in WorkerType
    BY <1>1, CallbackFinds
<1>3. MsgFits(Msg) /\ SetUp
    BY <1>1, TableTaken
<1>4. CASE SetFlags(s)
    BY <1>1, <1>2, <1>3, <1>4, TableGoes DEF SetUp
<1>5. CASE Request([s EXCEPT !.phase = "enabling"], Op("privacy_on"))
    <2> DEFINE s1 == [s EXCEPT !.phase = "enabling"]
    <2>1. /\ s1 \in WorkerType /\ s1.generation = s.generation /\ s1.layers = s.layers
          /\ s1.forgetting = s.forgetting /\ s1.pairing = s.pairing /\ s1.saved = s.saved
          /\ s1.connected = s.connected /\ s1.profile = s.profile /\ s1.ready = s.ready
          /\ s1.phase = "enabling"
        BY <1>2 DEF WorkerType
    <2>2. Op("privacy_on")[1] = "privacy_on" /\ "privacy_on" \in DOMAIN TableMessage
        BY TableFacts DEF Op
    <2>3. "privacy" \notin s1.ready /\ Request(s1, Op("privacy_on"))
        BY <1>3, <1>5, <2>1 DEF MsgFits
    <2> HIDE DEF s1
    <2> QED BY <1>1, <1>3, <2>1, <2>2, <2>3, TableGoes DEF SetUp
<1> QED BY <1>4, <1>5 DEF HandlePeerPrivacy

-----------------------------------------------------------------------------
(* The other handlers of callback messages                                   *)

\* a handler of a callback message that leaves the tables alone goes on
LEMMA AfterRadio ==
    ASSUME TypeOK, ServeInv, RadioInv, CallbackHandlers, NEW types, TakeCallback(types), ctl' = ctl,
           OnAir => evtq' = evtq, NEW s1, Moves(s1), s' = s1, work'.pc = "after"
    PROVE  RadioInv'
<1>1. Shrinks /\ nvm'.peer = nvm.peer /\ nvm'.bonds = nvm.bonds /\ Tends
    BY CallbackFinds
<1>2. Moves(s') /\ work'.pc \in Posts /\ Tends'
    BY DEF Tends, Posts
<1> QED BY <1>1, <1>2, MovesRadio

LEMMA GatesRadio ==
    ASSUME TypeOK, ServeInv, RadioInv, HandleGate \/ HandleHidReady \/ HandleAdvStarted
    PROVE  RadioInv'
<1>1. PICK types \in {{"ADV_DATA", "SCAN_DATA", "ADDRESS"}, {"HID_READY"}, {"ADV_STARTED"}} : TakeCallback(types)
    BY DEF HandleGate, HandleHidReady, HandleAdvStarted
<1>2. CallbackHandlers
    BY DEF CallbackHandlers
<1>3. s \in WorkerType /\ work \in WorkType
    BY <1>1, <1>2, CallbackFinds
<1>4. evtq' = evtq /\ ctl' = ctl
    BY DEF HandleGate, HandleHidReady, HandleAdvStarted, Outside, UiVars
<1>5. work'.pc = "after"
    BY <1>3 DEF HandleGate, HandleHidReady, HandleAdvStarted, Done, WorkType
<1>6. SameMoved(s, s')
    <2>1. CASE HandleGate
        <3>1. Msg.type \in {"ADV_DATA", "SCAN_DATA", "ADDRESS"}
            BY <2>1 DEF HandleGate, TakeCallback, Take, Msg
        <3>2. GateOf[Msg.type] \in {"adv_data", "scan_data", "address"}
            BY <3>1 DEF GateOf
        <3>3. PICK g \in {"adv_data", "scan_data", "address"} :
                 s' = [s EXCEPT !.ready = @ \cup {g}] \/ s' = [s EXCEPT !.ready = @ \ {g}]
            BY <2>1, <3>2 DEF HandleGate
        <3> QED BY <1>3, <3>3 DEF SameMoved, WorkerType, ReadyFlags
    <2>2. CASE HandleHidReady
        BY <1>3, <2>2 DEF HandleHidReady, SameMoved, WorkerType, ReadyFlags
    <2>3. CASE HandleAdvStarted
        <3>1. s' = s \/ s' = Clear(s, {"start"})
            BY <2>3 DEF HandleAdvStarted, Advertised
        <3>2. SameMoved(s, s)
            BY <1>3 DEF SameMoved
        <3> QED BY <1>3, <3>1, <3>2, ClearMoved
    <2> QED BY <2>1, <2>2, <2>3
<1> QED BY <1>1, <1>2, <1>4, <1>5, <1>6, SelfMoves, SameMoves, AfterRadio

LEMMA HandleConnectedRadio ==
    ASSUME TypeOK, ServeInv, RadioInv, HandleConnected
    PROVE  RadioInv'
<1>1. TakeCallback({"CONNECTED"}) /\ CallbackHandlers /\ evtq' = evtq /\ ctl' = ctl
    BY DEF HandleConnected, CallbackHandlers, Outside
<1>2. s \in WorkerType /\ work \in WorkType
    BY <1>1, CallbackFinds
<1>3. work'.pc = "after"
    BY <1>2 DEF HandleConnected, Done, WorkType
<1>4. Moves(s')
    <2>1. CASE s' = s
        BY <2>1, SelfMoves
    <2>2. CASE s' = [Arm(s, "connect") EXCEPT !.connected = TRUE, !.advertising = FALSE]
        <3> DEFINE armed == Arm(s, "connect")
        <3>1. armed \in WorkerType
            BY <1>2, ArmType DEF Deadlines
        <3>2. SameMoved(s, armed)
            BY <1>2, <3>1 DEF SameMoved, Arm, WorkerType
        <3>3. s' = [armed EXCEPT !.connected = TRUE, !.advertising = FALSE]
            BY <2>2
        <3> HIDE DEF armed
        <3>4. Moves(armed)
            BY <3>2, SelfMoves, SameMoves
        <3>5. /\ s' \in WorkerType /\ s'.session = armed.session /\ s'.generation = armed.generation
              /\ s'.profile = armed.profile /\ s'.store = armed.store /\ s'.layers = armed.layers
              /\ s'.phase = armed.phase /\ s'.ready = armed.ready
              /\ s'.forgetting = armed.forgetting /\ s'.connected = TRUE
              /\ s'.saved = armed.saved /\ s'.pairing = armed.pairing
            BY <3>1, <3>3 DEF WorkerType
        <3> QED BY <3>4, <3>5 DEF Moves
    <2> QED BY <2>1, <2>2 DEF HandleConnected
<1> QED BY <1>1, <1>3, <1>4, AfterRadio

LEMMA HandleAuthFailedRadio ==
    ASSUME TypeOK, ServeInv, RadioInv, HandleAuthFailed
    PROVE  RadioInv'
<1>1. TakeCallback({"AUTH"}) /\ CallbackHandlers /\ evtq' = evtq /\ ctl' = ctl
    BY DEF HandleAuthFailed, CallbackHandlers, Outside
<1>2. s \in WorkerType /\ Tends /\ Shrinks /\ nvm'.peer = nvm.peer /\ nvm'.bonds = nvm.bonds
    BY <1>1, CallbackFinds
<1>3. CASE s.pairing
    <2>1. /\ s' = [s EXCEPT !.encrypted = FALSE, !.subscribed = FALSE]
          /\ work'.pc = "disconnect" /\ work'.k = "auth_retry"
        BY <1>3 DEF HandleAuthFailed
    <2>2. SameMoved(s, s') /\ s'.pairing = TRUE
        BY <1>2, <1>3, <2>1 DEF SameMoved, WorkerType
    <2>3. Moves(s')
        BY <2>2, SelfMoves, SameMoves
    <2>4. Tends'
        BY <2>1 DEF Tends
    <2> QED BY <1>1, <1>2, <2>2, <2>3, <2>4, MovesRadio
<1>4. CASE BeginStop(s, snapshot, "fail", "after", Msg)
    <2>1. "fail" # "auth_retry"
        OBVIOUS
    <2> QED BY <1>1, <1>2, <1>4, <2>1, SelfStopsRadio
<1> QED BY <1>3, <1>4 DEF HandleAuthFailed

LEMMA HandleAuthOkRadio ==
    ASSUME TypeOK, LinkInv, ServeInv, RadioInv, HandleAuthOk, s.connected = TRUE
    PROVE  RadioInv'
<1>1. TakeCallback({"AUTH"}) /\ CallbackHandlers /\ ctl' = ctl
    BY DEF HandleAuthOk, CallbackHandlers
<1>2. /\ s \in WorkerType /\ work \in WorkType /\ Msg \in Messages /\ Shrinks
      /\ work.pc \in Posts /\ "after" \in Posts /\ Tends /\ nvm'.peer = nvm.peer /\ nvm'.bonds = nvm.bonds
    BY <1>1, CallbackFinds
<1>3. ~OnAir
    BY <1>2, TendsFacts, Unaired
<1>4. CASE BeginStop(s, snapshot, "fail", "after", Msg) /\ evtq' = evtq
    <2>1. "fail" # "auth_retry"
        OBVIOUS
    <2> QED BY <1>1, <1>2, <1>4, <2>1, SelfStopsRadio
<1>5. CASE /\ s.pairing
           /\ s' = AwaitingSave([s EXCEPT !.encrypted = TRUE, !.profile.peer = Msg.peer])
           /\ Done("after")
    <2> DEFINE peered == [s EXCEPT !.encrypted = TRUE, !.profile.peer = Msg.peer]
               armed == Arm(peered, "save")
    <2>1. peered \in WorkerType
        <3>1. s.profile \in Remotes /\ Msg.peer \in Peers
            BY <1>2 DEF WorkerType, Messages
        <3>2. [s.profile EXCEPT !.peer = Msg.peer] \in Remotes
            BY <3>1 DEF Remotes
        <3> QED BY <1>2, <3>2 DEF WorkerType
    <2>2. /\ peered.generation = s.generation /\ peered.layers = s.layers /\ peered.phase = s.phase
          /\ peered.ready = s.ready /\ peered.forgetting = s.forgetting /\ peered.connected = s.connected
          /\ peered.saved = s.saved /\ peered.pairing = TRUE
        BY <1>2, <1>5 DEF WorkerType
    <2>3. s' = [armed EXCEPT !.awaiting_save = TRUE]
        BY <1>5 DEF AwaitingSave
    <2> HIDE DEF peered
    <2>4. armed \in WorkerType
        BY <2>1, ArmType DEF Deadlines
    <2>5. SameMoved(peered, armed)
        BY <2>1, <2>4 DEF SameMoved, Arm, WorkerType
    <2> HIDE DEF armed
    <2>6. SameMoved(armed, s')
        BY <2>3, <2>4 DEF SameMoved, WorkerType
    <2>7. Moves(peered)
        BY <1>2, <1>3, <1>5, <2>1, <2>2 DEF Moves, WorkerType
    <2>8. Moves(s')
        BY <2>5, <2>6, <2>7, SameMoves
    <2>9. work'.pc = "after"
        BY <1>2, <1>5 DEF Done, WorkType
    <2> QED BY <1>1, <1>3, <2>8, <2>9, AfterRadio
<1>6. CASE ReadyIfSubscribed([s EXCEPT !.encrypted = TRUE], "after", Msg) /\ evtq' = evtq
    <2> DEFINE encrypted == [s EXCEPT !.encrypted = TRUE]
    <2>1. SameMoved(s, encrypted)
        BY <1>2 DEF SameMoved, WorkerType
    <2>2. Moves(encrypted)
        BY <2>1, SelfMoves, SameMoves
    <2> HIDE DEF encrypted
    <2> QED BY <1>1, <1>2, <1>6, <2>2, ReadyIfSubscribedRadio DEF encrypted
<1> QED BY <1>4, <1>5, <1>6 DEF HandleAuthOk

\* a link of no saved host is lost: the session still pairs
LEMMA HandleDisconnectedRadio ==
    ASSUME TypeOK, LinkInv, ServeInv, RadioInv, HandleDisconnected
    PROVE  RadioInv'
<1>1. TakeCallback({"DISCONNECTED"}) /\ CallbackHandlers /\ evtq' = evtq /\ ctl' = ctl
    BY DEF HandleDisconnected, CallbackHandlers, Outside
<1>2. /\ s \in WorkerType /\ work \in WorkType /\ work.pc \in Posts /\ Tends
      /\ nvm'.peer = nvm.peer /\ nvm'.bonds = nvm.bonds
    BY <1>1, CallbackFinds
<1> DEFINE loose == Unlinked(s)
           cleared == Clear(loose, {"connect"})
           lost == [cleared EXCEPT !.suspended = FALSE]
<1>3. /\ loose \in WorkerType /\ loose.session = s.session /\ loose.generation = s.generation
      /\ loose.profile = s.profile /\ loose.store = s.store /\ loose.layers = s.layers
      /\ loose.phase = s.phase /\ loose.ready = s.ready /\ loose.forgetting = s.forgetting
      /\ loose.connected = FALSE /\ loose.saved = s.saved /\ loose.pairing = s.pairing
    BY <1>2, UnlinkedType DEF Unlinked, WorkerType
<1>4. \/ s' = s /\ Done("after")
      \/ s.connected /\ ~(s.saved /\ s.profile.peer # NoPeer) /\ s' = lost /\ Done("after")
      \/ BeginStop(lost, snapshot, "restart", "after", Msg)
    BY DEF HandleDisconnected
<1>5. Done("after") => work'.pc = "after"
    BY <1>2 DEF Done, WorkType
<1> HIDE DEF loose
<1>6. SameMoved(loose, cleared) /\ cleared \in WorkerType
    BY <1>3, ClearMoved DEF SameMoved
<1> HIDE DEF cleared
<1>7. SameMoved(cleared, lost)
    BY <1>6 DEF SameMoved, WorkerType
<1> HIDE DEF lost
<1>8. CASE s' = s /\ Done("after")
    BY <1>1, <1>5, <1>8, SelfMoves, AfterRadio
<1>9. CASE s.connected /\ ~(s.saved /\ s.profile.peer # NoPeer) /\ s' = lost /\ Done("after")
    <2>1. s.connected = TRUE /\ s.saved \in BOOLEAN
        BY <1>2, <1>9 DEF WorkerType
    <2>2. HostOn(s) /\ s.forgetting = FALSE /\ Serving /\ Running
        BY <1>2, <2>1, LinkedServes, TendsFacts
    <2>3. work.pc # "bond_wait"
        BY <1>2, TendsFacts
    <2>4. s.pairing = TRUE \/ s.saved = TRUE
        BY <2>2, <2>3 DEF RadioInv, Tables, Sorted
    <2>5. s.saved = TRUE => s.profile.peer # NoPeer
        BY <2>2 DEF ServeInv, SaveInv, Settles
    <2>6. s.pairing = TRUE
        BY <1>9, <2>1, <2>4, <2>5
    <2>7. Moves(loose)
        BY <1>3, <2>6 DEF Moves
    <2>8. Moves(lost)
        BY <1>6, <1>7, <2>7, SameMoves
    <2> QED BY <1>1, <1>5, <1>9, <2>8, AfterRadio
<1>10. CASE BeginStop(lost, snapshot, "restart", "after", Msg)
    <2>1. lost \in WorkerType /\ lost.layers = s.layers /\ lost.profile = s.profile
          /\ lost.session = s.session /\ lost.store = s.store
        BY <1>3, <1>6, <1>7 DEF SameMoved
    <2>2. "restart" # "auth_retry"
        OBVIOUS
    <2> QED BY <1>1, <1>2, <1>10, <2>1, <2>2, StopsRadio
<1> QED BY <1>4, <1>8, <1>9, <1>10

LEMMA HandleWriteSuspendRadio ==
    ASSUME TypeOK, ServeInv, RadioInv, HandleWrite \/ HandleSuspend
    PROVE  RadioInv'
<1>1. PICK types \in {{"WRITE"}, {"SUSPEND"}} : TakeCallback(types)
    BY DEF HandleWrite, HandleSuspend
<1>2. CallbackHandlers /\ evtq' = evtq /\ ctl' = ctl
    BY DEF CallbackHandlers, HandleWrite, HandleSuspend, UiVars
<1>3. /\ s \in WorkerType /\ Msg \in Messages /\ Shrinks
      /\ work.pc \in Posts /\ "after" \in Posts /\ nvm'.peer = nvm.peer /\ nvm'.bonds = nvm.bonds
    BY <1>1, <1>2, CallbackFinds
<1>4. SameMoved(s, [s EXCEPT !.suspended = Msg.flag])
    BY <1>3 DEF SameMoved, WorkerType, Messages
<1>5. Moves(s) /\ Moves([s EXCEPT !.suspended = Msg.flag])
    BY <1>4, SelfMoves, SameMoves
<1>6. \/ ReadyIfSubscribed(s, "after", Msg)
      \/ ReadyIfSubscribed([s EXCEPT !.suspended = Msg.flag], "after", Msg)
      \/ BeginStop(s, snapshot, "release", "after", Msg)
    BY DEF HandleWrite, HandleSuspend
<1>7. CASE BeginStop(s, snapshot, "release", "after", Msg)
    <2>1. "release" # "auth_retry"
        OBVIOUS
    <2> QED BY <1>2, <1>3, <1>7, <2>1, SelfStopsRadio
<1> QED BY <1>2, <1>3, <1>5, <1>6, <1>7, ReadyIfSubscribedRadio

LEMMA CallbackHandlersRadio ==
    ASSUME TypeOK, LinkInv, ServeInv, RadioInv, CallbackHandlers, HandleAuthOk => s.connected = TRUE
    PROVE  RadioInv'
BY HandlePrivacyRadio, HandleWhitelistRadio, HandlePeerPrivacyRadio, GatesRadio, HandleConnectedRadio,
   HandleAuthFailedRadio, HandleAuthOkRadio, HandleDisconnectedRadio, HandleWriteSuspendRadio DEF CallbackHandlers

-----------------------------------------------------------------------------
(* The end of an iteration                                                   *)

\* the radio is given what the flags say is set up
LEMMA AdvertiseRadio ==
    ASSUME TypeOK, HostDownIsSilent, LinkInv, BondInv, ServeInv, RadioInv, Advertise
    PROVE  RadioInv'
<1>1. s \in WorkerType /\ work \in WorkType /\ ctl \in CtlType /\ work.pc = "after"
    BY DEF Advertise, TypeOK
<1>2. /\ s.ready = Ready /\ s.connected = FALSE /\ s.advertising = FALSE
      /\ s.awaiting_save = FALSE /\ s.forgetting = FALSE
    BY <1>1 DEF Advertise, CanAdvertise, WorkerType
<1>3. "privacy" \in s.ready /\ "whitelist" \in s.ready
    BY <1>2 DEF Ready
<1>4. HostOn(s) /\ ~Winding /\ Running /\ work.pc # "bond_wait" /\ Serving
    <2>1. HostOn(s)
        BY <1>3 DEF HostDownIsSilent
    <2> QED BY <1>1, <1>2, <2>1 DEF Winding, Running, Serving
<1>5. /\ nvm'.peer = nvm.peer /\ nvm'.bonds = nvm.bonds /\ evtq' = evtq /\ queue' = queue
    BY DEF Advertise, Outside, UiVars
<1>6. CASE BeginStop(s, snapshot, "fail", "tail", work.msg) /\ ctl' = ctl
    <2>1. "fail" # "auth_retry"
        OBVIOUS
    <2> QED BY <1>5, <1>6, <2>1, SelfStopsRadio
<1>7. CASE /\ s' = [s EXCEPT !.advertising = TRUE, !.deadlines = IF s.pairing THEN @ \cup {"pair"} ELSE @]
           /\ ctl' = [ctl EXCEPT !.ops = @ \cup {AdvertisingOp(s)}]
           /\ Goto("tail")
    <2>1. work'.pc = "tail"
        BY <1>1, <1>7 DEF Goto, WorkType
    <2>2. /\ s' \in WorkerType /\ s'.generation = s.generation /\ s'.layers = s.layers /\ s'.phase = s.phase
          /\ s'.ready = s.ready /\ s'.pairing = s.pairing /\ s'.profile = s.profile
          /\ s'.connected = s.connected /\ s'.forgetting = s.forgetting /\ s'.saved = s.saved
          /\ s'.session = s.session /\ s'.store = s.store
        BY <1>1, <1>7 DEF WorkerType, Deadlines
    <2>3. /\ ctl'.ops = ctl.ops \cup {AdvertisingOp(s)} /\ ctl'.adv = ctl.adv
          /\ ctl'.wl = ctl.wl /\ ctl'.resolving = ctl.resolving
        BY <1>1, <1>7 DEF CtlType
    <2>4. ~OnAir
        BY <1>2, <1>4 DEF LinkInv, Aired, Silenced
    <2>5. AdvertisingOp(s)[1] \in {"adv_any", "adv_listed"}
        BY DEF AdvertisingOp, Op
    <2>6. TableOps' = TableOps
        BY <2>3, <2>5, TableFacts DEF TableOps
    <2>7. TableOps = {}
        BY <1>3, <1>4 DEF RadioInv, Tables, OpFits
    <2>8. Moves(s')
        BY <2>2, <2>4 DEF Moves
    <2>9. Tables'
        <3>1. Running'
            BY <1>4, <2>1, <2>2 DEF Running, HostOn, Winding
        <3>2. 0 \in {0, 1} /\ \A i \in 1..Len(queue') :
                 Tabling(i)' => i + 0 \in 1..Len(queue) /\ Tabling(i + 0) /\ queue'[i] = queue[i + 0]
            BY <1>5, <2>2, QueueFacts DEF Tabling
        <3> QED BY <1>4, <2>1, <2>3, <2>6, <2>8, <3>1, <3>2, TablesStay DEF RadioInv
    <2>10. Durably /\ Agreed /\ Settles(s)
        BY <1>2, <1>4 DEF ServeInv, SaveInv
    <2>11. SetUp /\ Sorted
        BY <1>4 DEF RadioInv, Tables
    <2>12. ctl.adv = "off" /\ \A op \in ctl.ops : op # Op("adv_any") /\ op # Op("adv_listed")
        BY <2>4, OpFacts DEF OnAir
    <2>13. \A op \in ctl'.ops : ~Removing(op)'
        <3>1. \A op \in ctl.ops : op[1] # "remove_bond"
            BY <1>1 DEF BondInv, Decided, Removing, Winding
        <3> QED BY <2>3, <2>5, <3>1 DEF Removing
    <2>14. Durably' /\ \A i \in 1..Len(evtq') : Asked(i)' => evtq'[i].peer = s'.profile.peer
        BY <1>5, <2>2, <2>10 DEF Durably, Agreed, Asked
    <2>15. Op("adv_any") \in ctl'.ops => s.pairing = TRUE
        BY <2>3, <2>12, OpFacts DEF AdvertisingOp
    <2>16. Op("adv_listed") \in ctl'.ops => s.pairing = FALSE
        BY <1>1, <2>3, <2>12, OpFacts DEF AdvertisingOp, WorkerType
    <2>17. s.pairing = TRUE => s.profile.peer = NoPeer
        BY <1>2, <2>10 DEF Settles
    <2>18. s.pairing = FALSE => /\ ctl.wl = {s.profile.peer}
                                /\ s.profile.peer \in IrkHosts => ctl.resolving = TRUE
                                /\ HasBond(s.store, s.profile.peer)
        <3>1. s.pairing = FALSE => s.saved = TRUE
            BY <1>2, <1>4, <2>11 DEF Sorted
        <3> QED BY <1>2, <1>3, <2>10, <2>11, <3>1 DEF SetUp, Settles
    <2>19. Admits'
        <3>1. HasBond(s.store, s.profile.peer) => HasBond(s.store, s.profile.peer)'
            BY <1>5, <2>2 DEF HasBond
        <3>2. "privacy" \in s'.ready /\ TableOps' = {}
            BY <1>3, <2>2, <2>6, <2>7
        <3>3. ctl'.adv = "any" \/ Op("adv_any") \in ctl'.ops => s'.profile.peer = NoPeer
            BY <2>2, <2>3, <2>12, <2>15, <2>17
        <3>4. ctl'.adv = "listed" \/ Op("adv_listed") \in ctl'.ops =>
                  /\ ctl'.wl = {s'.profile.peer}
                  /\ s'.profile.peer \in IrkHosts => ctl'.resolving = TRUE
                  /\ HasBond(s.store, s.profile.peer)'
            BY <2>2, <2>3, <2>12, <2>16, <2>18, <3>1
        <3> QED BY <2>13, <2>14, <3>2, <3>3, <3>4 DEF Admits
    <2>20. Retries'
        BY <2>1, <2>6, <2>7 DEF Retries, Posts
    <2> QED BY <2>9, <2>19, <2>20 DEF RadioInv
<1> QED BY <1>6, <1>7 DEF Advertise

LEMMA TailRadio ==
    ASSUME TypeOK, HostDownIsSilent, LinkInv, BondInv, ServeInv, RadioInv,
           AfterCallback \/ Advertise \/ Poll \/ TailClose \/ TailExpired \/ TailDone
    PROVE  RadioInv'
<1>1. Shrinks /\ nvm'.peer = nvm.peer /\ nvm'.bonds = nvm.bonds
    BY WorkerSteady DEF Worker, Steady
<1>2. CASE ~Advertise
    <2>1. evtq' = evtq /\ ctl' = ctl
        BY <1>2 DEF AfterCallback, Poll, TailClose, TailExpired, TailDone, Outside, UiVars
    <2>2. work.pc \in {"after", "idle", "tail"} /\ s \in WorkerType /\ work \in WorkType
        BY <1>2 DEF AfterCallback, Poll, TailClose, TailExpired, TailDone, TypeOK
    <2>3. work.pc \in Posts
        BY <2>2 DEF Posts
    <2>4. CASE work'.pc \in Posts /\ s' = s
        <3>1. Moves(s')
            BY <2>4, SelfMoves
        <3> QED BY <1>1, <2>1, <2>3, <2>4, <3>1, DoneRadio
    <2>5. ASSUME NEW k \in {"fail", "close", "timeout"}, NEW post, NEW m, BeginStop(s, snapshot, k, post, m)
          PROVE  RadioInv'
        <3>1. k # "auth_retry"
            BY <2>5
        <3> QED BY <1>1, <2>1, <2>5, <3>1, SelfStopsRadio
    <2>6. CASE AfterCallback
        <3>1. BeginStop(s, snapshot, "fail", "tail", work.msg) \/ (Goto("tail") /\ s' = s)
            BY <2>6 DEF AfterCallback
        <3>2. Goto("tail") => work'.pc \in Posts
            BY <2>2 DEF Goto, WorkType, Posts
        <3> QED BY <2>4, <2>5, <3>1, <3>2
    <2>7. CASE Poll \/ TailDone
        BY <2>2, <2>4, <2>7 DEF Poll, TailDone, Goto, WorkType, Posts
    <2>8. CASE TailClose
        BY <2>5, <2>8 DEF TailClose
    <2>9. CASE TailExpired
        <3>1. PICK k \in {"fail", "timeout"} : BeginStop(s, snapshot, k, "idle", NoMessage)
            BY <2>9 DEF TailExpired
        <3> QED BY <2>5, <3>1
    <2> QED BY <1>2, <2>6, <2>7, <2>8, <2>9
<1> QED BY <1>2, AdvertiseRadio

-----------------------------------------------------------------------------
(* A stop runs on                                                            *)

\* what the steps of a stop ask of the controller: to stop advertising, to
\* disconnect, and nothing any more once the host goes
LEMMA StopAir ==
    ASSUME TypeOK, StopSteps
    PROVE  /\ ctl'.adv \in {ctl.adv, "off"} /\ ctl'.wl = ctl.wl /\ ctl'.resolving = ctl.resolving
           /\ \A op \in ctl'.ops : op \in ctl.ops \/ op \in {Op("adv_stop"), Op("disconnect")}
           /\ HostOn(s) /\ ~HostOn(s') => ctl'.ops = {}
           /\ work.pc \in {"disconnect", "link_wait"} => /\ \A op \in ctl.ops : op \in ctl'.ops
                                                         /\ s' = s \/ s' = Unlinked(s)
<1>1. s \in WorkerType /\ ctl \in CtlType
    BY DEF TypeOK
<1>2. CASE TeardownHost
    <2>1. PICK left : /\ s' = [s EXCEPT !.layers = left \cup (@ \cap {"hid"}), !.ready = {}, !.phase = "resetting"]
                      /\ IF HostOn(s) /\ "host_on" \notin left THEN ctl' = [ctl EXCEPT !.ops = {}, !.adv = "off"]
                                                               ELSE ctl' = ctl
        BY <1>2 DEF TeardownHost
    <2>2. HostOn(s') <=> "host_on" \in left
        BY <1>1, <2>1 DEF WorkerType, HostOn
    <2>3. HostOn(s) /\ ~HostOn(s') => ctl'.ops = {}
        BY <1>1, <2>1, <2>2 DEF CtlType
    <2>4. /\ ctl'.ops \subseteq ctl.ops /\ ctl'.adv \in {ctl.adv, "off"}
          /\ ctl'.wl = ctl.wl /\ ctl'.resolving = ctl.resolving
        BY <1>1, <2>1 DEF CtlType
    <2>5. work.pc = "host_off"
        BY <1>2 DEF TeardownHost
    <2> QED BY <2>3, <2>4, <2>5
<1>3. CASE ~TeardownHost
    <2>1. work.pc # "host_off"
        BY <1>3 DEF StopSteps, StopAdvertisingSkip, StopAdvertisingRequest, StopAdvertisingWait, DisconnectLink,
           DisconnectDone, DisconnectTimeout, TeardownHid
    <2>2. HostOn(s) => HostOn(s')
        BY <2>1, StopShape
    <2>3. CASE StopAdvertisingRequest \/ StopAdvertisingWait
        <3>1. \/ ctl' = [ctl EXCEPT !.ops = @ \cup {Op("adv_stop")}, !.advStopped = FALSE]
              \/ ctl' = [ctl EXCEPT !.advStopped = FALSE]
            BY <2>3 DEF StopAdvertisingRequest, StopAdvertisingWait
        <3>2. /\ ctl'.ops = ctl.ops \/ ctl'.ops = ctl.ops \cup {Op("adv_stop")}
              /\ ctl'.adv = ctl.adv /\ ctl'.wl = ctl.wl /\ ctl'.resolving = ctl.resolving
            BY <1>1, <3>1 DEF CtlType
        <3>3. work.pc \notin {"disconnect", "link_wait"}
            BY <2>3 DEF StopAdvertisingRequest, StopAdvertisingWait
        <3> QED BY <2>2, <3>2, <3>3
    <2>4. CASE DisconnectLink
        <3>1. /\ ctl'.ops = ctl.ops \/ ctl'.ops = ctl.ops \cup {Op("disconnect")}
              /\ ctl'.adv = ctl.adv /\ ctl'.wl = ctl.wl /\ ctl'.resolving = ctl.resolving
            BY <1>1, <2>4 DEF DisconnectLink, CtlType
        <3>2. s' = s
            BY <2>4 DEF DisconnectLink
        <3> QED BY <2>2, <3>1, <3>2
    <2>5. CASE TeardownHid
        <3>1. /\ ctl'.ops \subseteq ctl.ops
              /\ ctl'.adv = ctl.adv /\ ctl'.wl = ctl.wl /\ ctl'.resolving = ctl.resolving
            BY <1>1, <2>5 DEF TeardownHid, CtlType
        <3>2. work.pc \notin {"disconnect", "link_wait"}
            BY <2>5 DEF TeardownHid
        <3> QED BY <2>2, <3>1, <3>2
    <2>6. CASE StopAdvertisingSkip \/ DisconnectDone \/ DisconnectTimeout
        <3>1. ctl' = ctl /\ (work.pc \in {"disconnect", "link_wait"} => s' = Unlinked(s))
            BY <2>6 DEF StopAdvertisingSkip, DisconnectDone, DisconnectTimeout
        <3> QED BY <2>2, <3>1
    <2> QED BY <1>3, <2>3, <2>4, <2>5, <2>6 DEF StopSteps
<1> QED BY <1>2, <1>3

LEMMA StopStepsRadio ==
    ASSUME TypeOK, LinkInv, LinkInv', RadioInv, StopSteps
    PROVE  RadioInv'
<1>1. /\ work.pc \in StopPlaces /\ work'.pc \in StopPlaces \cup {"resume"} /\ work'.k = work.k
      /\ s'.session = s.session /\ s'.profile = s.profile /\ s'.pairing = s.pairing /\ s'.store = s.store
      /\ work.pc \in {"disconnect", "link_wait"} => s'.layers = s.layers
    BY StopShape
<1>2. /\ s'.generation = s.generation /\ queue' = queue /\ evtq' = evtq /\ nvm' = nvm
      /\ s'.saved = s.saved /\ s'.forgetting = s.forgetting
    BY StopFlags
<1>3. /\ ctl'.adv \in {ctl.adv, "off"} /\ ctl'.wl = ctl.wl /\ ctl'.resolving = ctl.resolving
      /\ \A op \in ctl'.ops : op \in ctl.ops \/ op \in {Op("adv_stop"), Op("disconnect")}
      /\ HostOn(s) /\ ~HostOn(s') => ctl'.ops = {}
      /\ work.pc \in {"disconnect", "link_wait"} => /\ \A op \in ctl.ops : op \in ctl'.ops
                                                    /\ s' = s \/ s' = Unlinked(s)
    BY StopAir
<1>4. \A op \in ctl'.ops : op \in ctl.ops \/ op[1] \notin Weighty
    BY <1>3, TableFacts DEF Op, Weighty
<1>5. TableOps' \subseteq TableOps
    BY <1>4 DEF TableOps, Weighty
<1>6. OnAir' => OnAir
    <2>1. \A op \in AdvOps : op[1] \in Weighty
        BY DEF AdvOps, Op, Weighty
    <2> QED BY <1>3, <1>4, <2>1 DEF OnAir
<1>7. \A i \in 1..Len(evtq') : Asked(i)' => \E j \in 1..Len(evtq) : Asked(j) /\ evtq'[i].peer = evtq[j].peer
    BY <1>1, <1>2 DEF Asked
<1>8. CASE work.k # "auth_retry"
    <2>1. ~Running'
        <3>1. Winding' \/ work'.pc = "resume"
            BY <1>1, <1>8 DEF Winding, StopPlaces
        <3> QED BY <1>1, <1>8, <3>1 DEF Running, LinkInv, Stamped
    <2>2. Admits'
        BY <1>1, <1>2, <1>3, <1>4, <1>6, <1>7, <2>1, AdmitsStays DEF RadioInv
    <2>3. Retries'
        <3>1. HostOn(s) /\ ~HostOn(s') => TableOps' = {}
            BY <1>3 DEF TableOps
        <3> QED BY <1>1, <1>5, <1>8, <3>1 DEF RadioInv, Retries, HostOn
    <2> QED BY <2>1, <2>2, <2>3 DEF RadioInv, Tables
<1>9. CASE work.k = "auth_retry"
    <2>1. work.pc \in {"disconnect", "link_wait"}
        BY <1>1, <1>9 DEF LinkInv, Wound, StopPlaces
    <2>2. s.pairing = TRUE /\ s \in WorkerType
        BY <1>9, <2>1 DEF RadioInv, Retries, Posts, TypeOK
    <2>3. TableOps' = TableOps
        BY <1>3, <1>5, <2>1 DEF TableOps
    <2>4. (Running' => Running) /\ work.pc # "bond_wait"
        BY <1>1, <1>9, <2>1 DEF Running, HostOn, Winding
    <2>5. /\ Unlinked(s) \in WorkerType
          /\ Unlinked(s).layers = s.layers /\ Unlinked(s).phase = s.phase /\ Unlinked(s).ready = s.ready
        BY <2>2, UnlinkedType DEF Unlinked, WorkerType
    <2>6. /\ s' \in WorkerType /\ s'.layers = s.layers /\ s'.phase = s.phase /\ s'.ready = s.ready
        BY <1>3, <2>1, <2>2, <2>5
    <2>7. Moves(s')
        BY <1>1, <1>2, <2>2, <2>6 DEF Moves
    <2>8. Tables'
        <3>1. 0 \in {0, 1} /\ \A i \in 1..Len(queue') :
                 Tabling(i)' => i + 0 \in 1..Len(queue) /\ Tabling(i + 0) /\ queue'[i] = queue[i + 0]
            BY <1>2, QueueFacts DEF Tabling
        <3> QED BY <1>3, <2>3, <2>4, <2>7, <3>1, TablesStay DEF RadioInv
    <2>9. Admits'
        BY <1>1, <1>2, <1>3, <1>4, <1>6, <1>7, <2>4, <2>6, AdmitsStays DEF RadioInv
    <2>10. Retries'
        BY <1>1, <2>2, <2>3, <2>6 DEF RadioInv, Retries, HostOn
    <2> QED BY <2>8, <2>9, <2>10 DEF RadioInv
<1> QED BY <1>8, <1>9

-----------------------------------------------------------------------------
(* What follows a stop                                                       *)

\* without a host nothing is under way, and nothing on the air
LEMMA RestingRadio ==
    ASSUME TypeOK, LinkInv, ServeInv, RadioInv, work.pc = "resume", work.k # "auth_retry"
    PROVE  TableOps = {} /\ ~OnAir /\ ~HostOn(s)
<1>1. ~HostOn(s)
    BY ResumeRests
<1> QED BY <1>1 DEF RadioInv, Retries, LinkInv, Served, HostOn

LEMMA HostlessRadio ==
    ASSUME TableOps = {}, ~OnAir, ctl' = ctl, ~HostOn(s') \/ work'.pc = "stop_adv",
           work'.pc \in Posts \/ work'.k # "auth_retry"
    PROVE  RadioInv'
<1>1. TableOps' = {} /\ ~OnAir'
    BY DEF TableOps, OnAir
<1>2. ~Running'
    <2>1. CASE ~HostOn(s')
        BY <2>1 DEF Running, HostOn
    <2>2. CASE work'.pc = "stop_adv"
        <3>1. Winding'
            BY <2>2 DEF Winding, Posts
        <3> QED BY <3>1 DEF Running
    <2> QED BY <2>1, <2>2
<1> QED BY <1>1, <1>2 DEF RadioInv, Tables, Admits, Retries

\* a stack that comes up: nothing of its generation is queued, and nothing is
\* asked of the tables but their reset
LEMMA FreshRadio ==
    ASSUME TypeOK, LinkInv, ~OnAir, TableOps = {}, queue' = queue,
           s'.generation = s.generation + 1, s'.ready = {}, HostOn(s'), ~Winding',
           ctl'.adv = ctl.adv,
           \A op \in ctl'.ops : op \in ctl.ops \/ (op[1] \notin DOMAIN TableMessage /\ op \notin AdvOps)
                                  \/ (op = Op("privacy_off") /\ s'.phase = "resetting"),
           s'.forgetting = TRUE \/ work'.pc = "bond_wait" \/ s'.pairing = TRUE \/ s'.saved = TRUE,
           work'.pc \in Calm, work'.k # "auth_retry"
    PROVE  RadioInv'
<1>1. \A op \in TableOps' : op = Op("privacy_off") /\ s'.phase = "resetting"
    BY DEF TableOps
<1>2. \A i : ~Tabling(i)'
    BY QueueFacts DEF LinkInv, Stamped, Tabling, TypeOK, WorkerType
<1>3. ~OnAir'
    <2>1. Op("privacy_off") \notin AdvOps
        BY OpFacts
    <2> QED BY <2>1 DEF OnAir
<1>4. Single'
    BY <1>1, <1>2 DEF Single
<1>5. \A op \in TableOps' : OpFits(op)'
    BY <1>1 DEF OpFits, Op
<1>6. SetUp'
    BY DEF SetUp
<1>7. Sorted'
    BY DEF Sorted
<1>8. Tables'
    BY <1>2, <1>4, <1>5, <1>6, <1>7 DEF Tables
<1> QED BY <1>3, <1>8 DEF RadioInv, Admits, Retries, HostOn

LEMMA StartFailsRadio ==
    ASSUME TypeOK, TableOps = {}, ~OnAir, NEW s1 \in WorkerType, NEW post, NEW m, StartStackFails(s1, post, m)
    PROVE  RadioInv'
<1>1. work'.pc = "stop_adv" /\ work'.k = "fail" /\ ctl' = ctl
    BY StartFailsCopies
<1> QED BY <1>1, HostlessRadio

LEMMA RestartRadio ==
    ASSUME TypeOK, HostDownIsSilent, LinkInv, TableOps = {}, ~OnAir, ~HostOn(s), queue' = queue,
           work.pc = "resume", work.k # "auth_retry",
           NEW s1, Rests(s1), s1.generation = s.generation, s1.ready = s.ready, RestartWith(s1)
    PROVE  RadioInv'
<1> DEFINE up == StackUp(s1)
<1>1. /\ Rests(up) /\ up.generation = s.generation + 1 /\ up.profile = s1.profile
    BY StackUpRests
<1>2. up.ready = {}
    <2>1. s1 \in WorkerType /\ up \in WorkerType
        BY <1>1 DEF Rests
    <2>2. up.ready = s1.ready
        BY <2>1 DEF StackUp, WorkerType
    <2> QED BY <2>2 DEF HostDownIsSilent
<1>3. s1 \in WorkerType
    BY DEF Rests
<1>4. \/ StartStackFails(s1, work.post, work.msg)
      \/ BeginStop(up, snapshot, "fail", work.post, work.msg) /\ ctl' = ctl
      \/ BeginStop(s1, snapshot, "fail", work.post, work.msg) /\ ctl' = ctl
      \/ /\ s' = [up EXCEPT !.layers = Layers,
                            !.pairing = s1.profile.peer = NoPeer,
                            !.saved = s1.profile.peer # NoPeer,
                            !.awaiting_save = FALSE, !.forgetting = FALSE, !.suspended = FALSE,
                            !.phase = "resetting"]
         /\ ctl' = [ctl EXCEPT !.ops = @ \cup {Op(g) : g \in Gates} \cup {Op("privacy_off")}]
         /\ work' = [work EXCEPT !.pc = work.post, !.msg = work.msg]
    BY DEF RestartWith, StartRuntime
<1> HIDE DEF up
<1>5. CASE StartStackFails(s1, work.post, work.msg)
    BY <1>3, <1>5, StartFailsRadio
<1>6. ASSUME NEW t, BeginStop(t, snapshot, "fail", work.post, work.msg), ctl' = ctl
      PROVE  RadioInv'
    <2>1. work'.pc = "stop_adv" /\ work'.k = "fail"
        BY <1>6 DEF BeginStop
    <2> QED BY <1>6, <2>1, HostlessRadio
<1>7. CASE /\ s' = [up EXCEPT !.layers = Layers,
                              !.pairing = s1.profile.peer = NoPeer,
                              !.saved = s1.profile.peer # NoPeer,
                              !.awaiting_save = FALSE, !.forgetting = FALSE, !.suspended = FALSE,
                              !.phase = "resetting"]
           /\ ctl' = [ctl EXCEPT !.ops = @ \cup {Op(g) : g \in Gates} \cup {Op("privacy_off")}]
           /\ work' = [work EXCEPT !.pc = work.post, !.msg = work.msg]
    <2>1. /\ s'.generation = s.generation + 1 /\ s'.ready = {} /\ HostOn(s')
          /\ s'.pairing = TRUE \/ s'.saved = TRUE
          /\ s'.phase = "resetting"
        BY <1>1, <1>2, <1>7 DEF Rests, WorkerType, HostOn, Layers, StackLayers
    <2>2. work'.pc \in Posts /\ work'.pc \in Calm /\ ~Winding' /\ work'.k # "auth_retry"
        BY <1>7 DEF TypeOK, WorkType, Posts, Calm, Winding
    <2>3. ctl'.ops = ctl.ops \cup {Op(g) : g \in Gates} \cup {Op("privacy_off")} /\ ctl'.adv = ctl.adv
        BY <1>7 DEF TypeOK, CtlType
    <2>4. ASSUME NEW g \in Gates
          PROVE  Op(g)[1] \notin DOMAIN TableMessage /\ Op(g) \notin AdvOps
        <3>1. g \in {"hid", "adv_data", "scan_data", "address"}
            BY ConstantsAssumption DEF ReadyFlags
        <3> QED BY <3>1, TableFacts, OpFacts DEF Op
    <2>5. \A op \in ctl'.ops : op \in ctl.ops \/ (op[1] \notin DOMAIN TableMessage /\ op \notin AdvOps)
                                  \/ (op = Op("privacy_off") /\ s'.phase = "resetting")
        BY <2>1, <2>3, <2>4
    <2> QED BY <2>1, <2>2, <2>3, <2>5, FreshRadio
<1> QED BY <1>4, <1>5, <1>6, <1>7

\* what a forgotten bond leaves of the worker's flags
LEMMA ForgetBondsMoves ==
    ASSUME TypeOK, NEW s1 \in WorkerType, ForgetBonds(s1)
    PROVE  \/ /\ s' \in WorkerType /\ s'.generation = s1.generation /\ s'.layers = s1.layers /\ s'.ready = s1.ready
              /\ s'.phase = s1.phase /\ s'.pairing = s1.pairing /\ s'.profile = s1.profile
              /\ s'.connected = s1.connected /\ s'.forgetting = TRUE
              /\ work'.pc = work.post /\ work'.k = work.k
           \/ BeginStop(s1, snapshot, "fail", "idle", work.msg)
<1>1. CASE /\ s' = AwaitingSave([Clear(s1, {"start"}) EXCEPT !.forgetting = TRUE, !.pair_after = work.msg.flag])
           /\ Goto(work.post)
    <2> DEFINE cleared == Clear(s1, {"start"})
               asked == [cleared EXCEPT !.forgetting = TRUE, !.pair_after = work.msg.flag]
               armed == Arm(asked, "save")
    <2>1. /\ cleared.generation = s1.generation /\ cleared.layers = s1.layers /\ cleared.ready = s1.ready
          /\ cleared.phase = s1.phase /\ cleared.pairing = s1.pairing /\ cleared.profile = s1.profile
          /\ cleared.connected = s1.connected /\ cleared \in WorkerType
        BY ClearType DEF Clear, WorkerType
    <2>2. s' = [armed EXCEPT !.awaiting_save = TRUE]
        BY <1>1 DEF AwaitingSave
    <2>3. work.msg.flag \in BOOLEAN /\ work'.pc = work.post /\ work'.k = work.k
        BY <1>1 DEF TypeOK, WorkType, Messages, Goto
    <2> HIDE DEF cleared
    <2>4. /\ asked.generation = s1.generation /\ asked.layers = s1.layers /\ asked.ready = s1.ready
          /\ asked.phase = s1.phase /\ asked.pairing = s1.pairing /\ asked.profile = s1.profile
          /\ asked.connected = s1.connected /\ asked.forgetting = TRUE /\ asked \in WorkerType
        BY <2>1, <2>3 DEF WorkerType
    <2> HIDE DEF asked
    <2>5. armed \in WorkerType
        BY <2>4, ArmType DEF Deadlines
    <2>6. /\ armed.generation = s1.generation /\ armed.layers = s1.layers /\ armed.ready = s1.ready
          /\ armed.phase = s1.phase /\ armed.pairing = s1.pairing /\ armed.profile = s1.profile
          /\ armed.connected = s1.connected /\ armed.forgetting = TRUE
        BY <2>4, <2>5 DEF Arm, WorkerType
    <2> HIDE DEF armed
    <2> QED BY <2>2, <2>3, <2>5, <2>6 DEF WorkerType
<1> QED BY <1>1 DEF ForgetBonds

LEMMA FinishForgetRadio ==
    ASSUME TypeOK, HostDownIsSilent, LinkInv, ServeInv, RadioInv, FinishForget
    PROVE  RadioInv'
<1>1. /\ work.pc = "resume" /\ work.k = "forget" /\ queue' = queue /\ work \in WorkType /\ s \in WorkerType
      /\ ctl \in CtlType
    BY DEF FinishForget, Resume, TypeOK
<1>2. Rests(s) /\ TableOps = {} /\ ~OnAir /\ ~HostOn(s)
    BY <1>1, ResumeRests, RestingRadio
<1> DEFINE up == StackUp(s)
<1>3. up.generation = s.generation + 1 /\ HostOn(up) /\ up \in WorkerType
    BY <1>2, StackUpRests DEF HostOn, StackLayers, Rests
<1>4. up.ready = {}
    <2>1. up.ready = s.ready
        BY <1>1, <1>3 DEF StackUp, WorkerType
    <2> QED BY <1>2, <2>1 DEF HostDownIsSilent
<1>5. \/ BeginStop(s, snapshot, "fail", work.post, work.msg) /\ ctl' = ctl
      \/ StartStackFails(s, work.post, work.msg)
      \/ ForgetBonds(up) /\ ctl' = ctl
      \/ /\ s' = up /\ Goto("bond_wait")
         /\ ctl' = [ctl EXCEPT !.ops = @ \cup {<<"remove_bond", s.profile.peer>>}, !.bondRemoved = "no"]
    BY DEF FinishForget
<1> HIDE DEF up
<1>6. ASSUME NEW t, NEW post, BeginStop(t, snapshot, "fail", post, work.msg), ctl' = ctl
      PROVE  RadioInv'
    <2>1. work'.pc = "stop_adv" /\ work'.k = "fail"
        BY <1>6 DEF BeginStop
    <2> QED BY <1>2, <1>6, <2>1, HostlessRadio
<1>7. CASE StartStackFails(s, work.post, work.msg)
    BY <1>1, <1>2, <1>7, StartFailsRadio
<1>8. CASE ForgetBonds(up) /\ ctl' = ctl
    <2>1. CASE BeginStop(up, snapshot, "fail", "idle", work.msg)
        BY <1>6, <1>8, <2>1
    <2>2. CASE ~BeginStop(up, snapshot, "fail", "idle", work.msg)
        <3>1. /\ s'.generation = s.generation + 1 /\ s'.ready = {} /\ HostOn(s') /\ s'.forgetting = TRUE
              /\ work'.pc = work.post /\ work'.k = work.k
            BY <1>3, <1>4, <1>8, <2>2, ForgetBondsMoves DEF HostOn
        <3>2. work'.pc \in Calm /\ ~Winding' /\ work'.k # "auth_retry"
            BY <1>1, <3>1 DEF WorkType, Calm, Posts, Winding
        <3> QED BY <1>1, <1>2, <1>8, <3>1, <3>2, FreshRadio
    <2> QED BY <2>1, <2>2
<1>9. CASE /\ s' = up /\ Goto("bond_wait")
           /\ ctl' = [ctl EXCEPT !.ops = @ \cup {<<"remove_bond", s.profile.peer>>}, !.bondRemoved = "no"]
    <2>1. work'.pc = "bond_wait" /\ work'.k # "auth_retry" /\ ~Winding' /\ work'.pc \in Calm
        BY <1>1, <1>9 DEF Goto, WorkType, Winding, Calm
    <2>2. ctl'.ops = ctl.ops \cup {<<"remove_bond", s.profile.peer>>} /\ ctl'.adv = ctl.adv
        BY <1>1, <1>9 DEF CtlType
    <2>3. <<"remove_bond", s.profile.peer>>[1] \notin DOMAIN TableMessage /\ <<"remove_bond", s.profile.peer>> \notin AdvOps
        BY TableFacts, OpFacts DEF Op
    <2>4. \A op \in ctl'.ops : op \in ctl.ops \/ (op[1] \notin DOMAIN TableMessage /\ op \notin AdvOps)
                                  \/ (op = Op("privacy_off") /\ s'.phase = "resetting")
        BY <2>2, <2>3
    <2>5. s'.generation = s.generation + 1 /\ s'.ready = {} /\ HostOn(s')
        BY <1>3, <1>4, <1>9
    <2> QED BY <1>1, <1>2, <2>1, <2>2, <2>4, <2>5, FreshRadio
<1> QED BY <1>5, <1>6, <1>7, <1>8, <1>9

LEMMA RemoveBondWaitRadio ==
    ASSUME TypeOK, LinkInv, ServeInv, RadioInv, RemoveBondWait
    PROVE  RadioInv'
<1>1. /\ work.pc = "bond_wait" /\ queue' = queue /\ s \in WorkerType /\ work \in WorkType /\ ctl \in CtlType
      /\ ~Winding /\ ctl' = [ctl EXCEPT !.bondRemoved = "no"]
    BY DEF RemoveBondWait, TypeOK, Winding
<1>2. HostOn(s) /\ s.advertising = FALSE /\ Running
    BY <1>1 DEF ServeInv, Guarded, Running
<1>3. ~OnAir
    BY <1>1, <1>2 DEF LinkInv, Aired, Silenced
<1>4. ctl'.ops = ctl.ops /\ ctl'.adv = ctl.adv /\ ctl'.wl = ctl.wl /\ ctl'.resolving = ctl.resolving
    BY <1>1 DEF CtlType
<1>5. ~OnAir' /\ TableOps' = TableOps
    BY <1>3, <1>4 DEF OnAir, TableOps
<1>6. nvm'.peer = nvm.peer /\ nvm'.bonds = nvm.bonds
    BY WorkerSteady DEF Worker, FinishSteps, Steady
<1>7. ASSUME NEW post, BeginStop(s, snapshot, "fail", post, work.msg)
      PROVE  RadioInv'
    <2>1. "fail" # "auth_retry"
        OBVIOUS
    <2> QED BY <1>1, <1>3, <1>4, <1>6, <1>7, <2>1, StopsRadio
<1>8. CASE ForgetBonds(s) /\ ~BeginStop(s, snapshot, "fail", "idle", work.msg)
    <2>1. /\ s' \in WorkerType /\ s'.generation = s.generation /\ s'.layers = s.layers /\ s'.ready = s.ready
          /\ s'.phase = s.phase /\ s'.pairing = s.pairing /\ s'.profile = s.profile
          /\ s'.connected = s.connected /\ s'.forgetting = TRUE
          /\ work'.pc = work.post
        BY <1>1, <1>8, ForgetBondsMoves
    <2>2. Moves(s')
        BY <1>3, <2>1 DEF Moves
    <2>3. 0 \in {0, 1} /\ \A i \in 1..Len(queue') :
             Tabling(i)' => i + 0 \in 1..Len(queue) /\ Tabling(i + 0) /\ queue'[i] = queue[i + 0]
        BY <1>1, <2>1, QueueFacts DEF Tabling
    <2>4. Tables'
        BY <1>2, <1>4, <1>5, <2>1, <2>2, <2>3, TablesStay DEF RadioInv
    <2>5. Retries'
        BY <1>1, <1>2, <2>1 DEF Retries, WorkType, HostOn
    <2> QED BY <1>5, <2>4, <2>5 DEF RadioInv, Admits
<1> QED BY <1>7, <1>8 DEF RemoveBondWait

LEMMA FinishStepsRadio ==
    ASSUME TypeOK, HostDownIsSilent, LinkInv, ServeInv, RadioInv, FinishSteps
    PROVE  RadioInv'
<1>1. s \in WorkerType /\ work \in WorkType /\ work.post \in Posts
    BY DEF TypeOK, WorkType
<1>2. ASSUME work.pc = "resume", work.k # "auth_retry", Goto(work.post), ctl' = ctl,
             s' = s \/ s' = [s EXCEPT !.session = 0]
      PROVE  RadioInv'
    <2>1. TableOps = {} /\ ~OnAir /\ ~HostOn(s)
        BY <1>2, RestingRadio
    <2>2. ~HostOn(s')
        BY <1>1, <1>2, <2>1 DEF HostOn, WorkerType
    <2>3. work'.pc \in Posts
        BY <1>1, <1>2 DEF Goto, WorkType
    <2> QED BY <1>2, <2>1, <2>2, <2>3, HostlessRadio
<1>3. CASE FinishFail \/ FinishTimeout \/ FinishUnpair \/ FinishClose
    BY <1>2, <1>3 DEF FinishFail, FinishTimeout, FinishUnpair, FinishClose, Resume
<1>4. CASE FinishAuthRetry
    <2>1. /\ work.pc = "resume" /\ work.k = "auth_retry" /\ s' = s /\ work'.pc \in Posts
          /\ evtq' = evtq /\ nvm' = nvm /\ queue' = queue /\ ctl' = ctl
        BY <1>1, <1>4 DEF FinishAuthRetry, Resume, Goto, WorkType, Outside, UiVars
    <2>2. Shrinks /\ Tends /\ Tends'
        BY <2>1, SameShrinks DEF Tends
    <2>3. Moves(s')
        BY <2>1, SelfMoves
    <2> QED BY <2>1, <2>2, <2>3, MovesRadio
<1>5. ASSUME work.pc = "resume", work.k # "auth_retry", queue' = queue,
             NEW s1, Rests(s1), s1.generation = s.generation, s1.ready = s.ready, RestartWith(s1)
      PROVE  RadioInv'
    <2>1. TableOps = {} /\ ~OnAir /\ ~HostOn(s)
        BY <1>5, RestingRadio
    <2> QED BY <1>5, <2>1, RestartRadio
<1>6. CASE FinishOpen
    <2> DEFINE s1 == [s EXCEPT !.session = work.msg.session, !.profile = work.msg.remote]
    <2>1. work.pc = "resume" /\ work.k = "open" /\ RestartWith(s1) /\ queue' = queue
        BY <1>6 DEF FinishOpen, Resume
    <2>2. Rests(s)
        BY <2>1, ResumeRests
    <2>3. work.msg.session \in Nat /\ work.msg.remote \in Remotes
        BY <1>1 DEF WorkType, Messages
    <2>4. Rests(s1) /\ s1.generation = s.generation /\ s1.ready = s.ready
        BY <2>2, <2>3 DEF Rests, WorkerType
    <2> HIDE DEF s1
    <2> QED BY <1>5, <2>1, <2>4
<1>7. CASE FinishRestart \/ FinishRelease
    <2>1. /\ work.pc = "resume" /\ work.k \in {"restart", "release"} /\ queue' = queue
          /\ (Goto(work.post) /\ s' = s /\ ctl' = ctl) \/ RestartWith(s)
        BY <1>7 DEF FinishRestart, FinishRelease, Resume
    <2>2. Rests(s)
        BY <2>1, ResumeRests
    <2> QED BY <1>2, <1>5, <2>1, <2>2
<1> QED BY <1>3, <1>4, <1>6, <1>7, FinishForgetRadio, RemoveBondWaitRadio DEF FinishSteps

\* a step of the worker, when no success is stale
LEMMA WorkerRadio ==
    ASSUME TypeOK, HostDownIsSilent, LinkInv, LinkInv', BondInv, ServeInv, RadioInv, Worker,
           HandleAuthOk => s.connected = TRUE
    PROVE  RadioInv'
BY StopStepsRadio, FinishStepsRadio, ApiHandlersRadio, CallbackHandlersRadio, TailRadio DEF Worker

\* a message that is none of the tables' is queued, or nothing
LEMMA NoneTabled ==
    ASSUME TypeOK, s'.generation = s.generation, NEW m, m.type \notin TableTypes,
           queue' = queue \/ queue' = Append(queue, m)
    PROVE  \A i \in 1..Len(queue') : Tabling(i)' => i \in 1..Len(queue) /\ queue'[i] = queue[i]
<1>1. queue \in Seq(Messages) /\ Len(queue) \in Nat
    BY QueueFacts DEF TypeOK
<1>2. CASE queue' = queue
    BY <1>2
<1>3. CASE queue' = Append(queue, m)
    <2>1. Len(queue') = Len(queue) + 1 /\ queue'[Len(queue) + 1] = m
        BY <1>1, <1>3
    <2>2. \A i \in 1..Len(queue) : queue'[i] = queue[i]
        BY <1>1, <1>3
    <2> QED BY <1>1, <2>1, <2>2 DEF Tabling
<1> QED BY <1>2, <1>3

LEMMA ReportTabled ==
    ASSUME TypeOK, s'.generation = s.generation, NEW type, type \notin TableTypes,
           NEW ok, NEW flag, NEW peer, CallbackMessage(type, ok, flag, peer)
    PROVE  \A i \in 1..Len(queue') : Tabling(i)' => i \in 1..Len(queue) /\ queue'[i] = queue[i]
<1> DEFINE m == [NoMessage EXCEPT !.type = type, !.generation = callbackGen, !.ok = ok, !.flag = flag, !.peer = peer]
<1>1. m.type = type
    BY DEF NoMessage
<1>2. queue' = queue \/ queue' = Append(queue, m)
    BY DEF CallbackMessage
<1> HIDE DEF m
<1> QED BY <1>1, <1>2, NoneTabled

\* the radio goes off, or stays, and nothing it was given changes
LEMMA OthersRadio ==
    ASSUME TypeOK, RadioInv, work' = work, SameMoved(s, s'), TableOps' = TableOps,
           \A i \in 1..Len(queue') : Tabling(i)' => i \in 1..Len(queue) /\ queue'[i] = queue[i],
           ctl'.wl = ctl.wl, ctl'.resolving = ctl.resolving, ctl'.adv \in {ctl.adv, "off"},
           \A op \in ctl'.ops : op \in ctl.ops \/ op[1] \notin Weighty,
           nvm'.peer = nvm.peer, OnAir => nvm.bonds \subseteq nvm'.bonds,
           \A i \in 1..Len(evtq') : \E j \in 1..Len(evtq) : evtq'[i] = evtq[j]
    PROVE  RadioInv'
<1>1. Moves(s')
    BY SelfMoves, SameMoves
<1>2. /\ s'.session = s.session /\ s'.profile = s.profile /\ s'.store = s.store /\ s'.layers = s.layers
      /\ s'.forgetting = s.forgetting /\ s'.generation = s.generation /\ s'.pairing = s.pairing
      /\ "privacy" \in s.ready => "privacy" \in s'.ready
    BY DEF SameMoved
<1>3. /\ Running' => Running
      /\ HostOn(s') <=> HostOn(s)
    BY <1>2 DEF Running, Winding, HostOn
<1>4. Tables'
    <2>1. queue \in Seq(Messages) /\ Len(queue) \in Nat
        BY QueueFacts DEF TypeOK
    <2>2. 0 \in {0, 1} /\ \A i \in 1..Len(queue') :
             Tabling(i)' => i + 0 \in 1..Len(queue) /\ Tabling(i + 0) /\ queue'[i] = queue[i + 0]
        BY <1>2, <2>1 DEF Tabling
    <2> QED BY <1>1, <1>2, <1>3, <2>2, TablesStay DEF RadioInv
<1>5. Admits'
    <2>1. OnAir' => OnAir
        <3>1. Op("adv_any")[1] \in Weighty /\ Op("adv_listed")[1] \in Weighty
            BY DEF Op, Weighty
        <3> QED BY <3>1 DEF OnAir, AdvOps
    <2>2. \A i \in 1..Len(evtq') : Asked(i)' => \E j \in 1..Len(evtq) : Asked(j) /\ evtq'[i].peer = evtq[j].peer
        BY <1>2 DEF Asked
    <2> QED BY <1>2, <1>3, <2>1, <2>2, AdmitsStays DEF RadioInv
<1>6. Retries'
    BY <1>2, <1>3 DEF RadioInv, Retries
<1> QED BY <1>4, <1>5, <1>6 DEF RadioInv

LEMMA SelfMoved ==
    ASSUME TypeOK, s' = s
    PROVE  SameMoved(s, s')
BY DEF TypeOK, SameMoved

\* the callback task completes a request that the tables and the radio do not need
LEMMA PlainCallback ==
    ASSUME TypeOK, RadioInv, UNCHANGED WorkerVars, evtq' = evtq, nvm'.peer = nvm.peer,
           OnAir => nvm.bonds \subseteq nvm'.bonds,
           queue' = queue
             \/ \E type \in (ApiTypes \cup CallbackTypes) \ TableTypes, ok \in BOOLEAN, flag \in BOOLEAN, peer \in Peers :
                   CallbackMessage(type, ok, flag, peer),
           ctl'.wl = ctl.wl, ctl'.resolving = ctl.resolving, ctl'.adv \in {ctl.adv, "off"}, TableOps' = TableOps,
           \A op \in ctl'.ops : op \in ctl.ops \/ op[1] \notin Weighty
    PROVE  RadioInv'
<1>1. s' = s /\ work' = work /\ SameMoved(s, s')
    BY SelfMoved DEF WorkerVars
<1>2. \A i \in 1..Len(queue') : Tabling(i)' => i \in 1..Len(queue) /\ queue'[i] = queue[i]
    <2>1. CASE queue' = queue
        BY <2>1
    <2>2. CASE \E type \in (ApiTypes \cup CallbackTypes) \ TableTypes, ok \in BOOLEAN, flag \in BOOLEAN, peer \in Peers :
                   CallbackMessage(type, ok, flag, peer)
        BY <1>1, <2>2, ReportTabled
    <2> QED BY <2>1, <2>2
<1>3. \A i \in 1..Len(evtq') : \E j \in 1..Len(evtq) : evtq'[i] = evtq[j]
    OBVIOUS
<1> QED BY <1>1, <1>2, <1>3, OthersRadio

\* the step before it is done: the tables are as it left them, and its message says so
LEMMA CompleteTableRadio ==
    ASSUME TypeOK, LinkInv, RadioInv, CompleteTable
    PROVE  RadioInv'
<1>1. /\ s' = s /\ work' = work /\ evtq' = evtq /\ nvm' = nvm /\ ctl \in CtlType /\ s \in WorkerType
      /\ queue \in Seq(Messages) /\ Len(queue) \in Nat
    BY QueueFacts DEF CompleteTable, WorkerVars, Outside, TypeOK
<1>2. PICK op \in ctl.ops, ok \in BOOLEAN :
         /\ op[1] \in DOMAIN TableMessage
         /\ ctl' = IF ok THEN TableAfter(op) ELSE Finish(op)
         /\ CallbackMessage(TableMessage[op[1]], ok, FALSE, NoPeer)
    BY DEF CompleteTable
<1>3. op \in TableOps /\ op[1] \in {"privacy_off", "privacy_on", "peer_privacy", "wl_clear", "wl_add"}
    BY <1>2, TableFacts DEF TableOps
<1>4. /\ ctl'.ops = ctl.ops \ {op} /\ ctl'.adv = ctl.adv
      /\ ctl'.resolving = IF ok /\ op[1] = "privacy_off" THEN FALSE
                          ELSE IF ok /\ op[1] = "privacy_on" THEN TRUE ELSE ctl.resolving
      /\ ctl'.wl = IF ok /\ op[1] = "wl_clear" THEN {}
                   ELSE IF ok /\ op[1] = "wl_add" THEN ctl.wl \cup {op[2]} ELSE ctl.wl
    BY <1>1, <1>2 DEF TableAfter, Finish, CtlType
<1>5. HostOn(s) /\ ~OnAir /\ TableOps' = TableOps \ {op}
    BY <1>3, <1>4 DEF RadioInv, Retries, Admits, TableOps
<1>6. Admits'
    BY <1>4, <1>5 DEF Admits, OnAir
<1>7. Retries'
    BY <1>1, <1>5 DEF RadioInv, Retries
<1>8. Tables'
    <2> SUFFICES ASSUME Running'
                 PROVE  /\ Single'
                        /\ \A x \in TableOps' : OpFits(x)'
                        /\ \A i \in 1..Len(queue') : Tabling(i)' => MsgFits(queue[i])'
                        /\ SetUp' /\ Sorted'
        BY DEF Tables
    <2>1. Running
        BY <1>1 DEF Running, Winding
    <2>2. Single /\ OpFits(op) /\ SetUp /\ Sorted
        BY <1>3, <2>1 DEF RadioInv, Tables
    <2>3. TableOps' = {} /\ \A i \in 1..Len(queue) : ~Tabling(i)
        BY <1>3, <1>5, <2>2 DEF Single
    <2>4. PICK m : /\ m.type = TableMessage[op[1]] /\ m.ok = ok
                   /\ queue' = queue \/ queue' = Append(queue, m)
        <3> DEFINE n == [NoMessage EXCEPT !.type = TableMessage[op[1]], !.generation = callbackGen,
                                          !.ok = ok, !.flag = FALSE, !.peer = NoPeer]
        <3>1. n.type = TableMessage[op[1]] /\ n.ok = ok
            BY DEF NoMessage
        <3>2. queue' = queue \/ queue' = Append(queue, n)
            BY <1>2 DEF CallbackMessage
        <3> HIDE DEF n
        <3> QED BY <3>1, <3>2
    <2>6. \A i \in 1..Len(queue') : Tabling(i)' => i = Len(queue) + 1 /\ queue'[i] = m
        <3>1. CASE queue' = queue
            BY <1>1, <2>3, <3>1 DEF Tabling
        <3>2. CASE queue' = Append(queue, m)
            <4>1. Len(queue') = Len(queue) + 1 /\ queue'[Len(queue) + 1] = m
                BY <1>1, <3>2
            <4>2. \A i \in 1..Len(queue) : queue'[i] = queue[i]
                BY <1>1, <3>2
            <4> QED BY <1>1, <2>3, <4>1, <4>2 DEF Tabling
        <3> QED BY <2>4, <3>1, <3>2
    <2>7. Single'
        BY <2>3, <2>6 DEF Single
    <2>8. MsgFits(m)'
        <3>1. /\ "privacy" \notin s'.ready
              /\ op[1] \in {"privacy_off", "wl_clear", "wl_add"} => "whitelist" \notin s'.ready
              /\ op[1] = "privacy_off" => s'.phase = "resetting"
              /\ op[1] = "privacy_on" => s'.phase = "enabling"
              /\ op[1] = "wl_add" => op[2] = s'.profile.peer /\ ctl.wl = {} /\ s'.pairing = FALSE
            BY <1>1, <2>2 DEF OpFits
        <3>2. CASE op[1] = "privacy_off"
            <4>1. m.type = "PRIVACY"
                BY <2>4, <3>2 DEF TableMessage
            <4> QED BY <3>1, <3>2, <4>1 DEF MsgFits
        <3>3. CASE op[1] = "privacy_on"
            <4>1. m.type = "PRIVACY"
                BY <2>4, <3>3 DEF TableMessage
            <4> QED BY <1>4, <2>4, <3>1, <3>3, <4>1 DEF MsgFits
        <3>4. CASE op[1] = "peer_privacy"
            <4>1. m.type = "PEER_PRIVACY"
                BY <2>4, <3>4 DEF TableMessage
            <4> QED BY <3>1, <4>1 DEF MsgFits
        <3>5. CASE op[1] = "wl_clear"
            <4>1. m.type = "WHITELIST_CLEAR"
                BY <2>4, <3>5 DEF TableMessage
            <4> QED BY <1>4, <2>4, <3>1, <3>5, <4>1 DEF MsgFits
        <3>6. CASE op[1] = "wl_add"
            <4>1. m.type = "WHITELIST_ADD"
                BY <2>4, <3>6 DEF TableMessage
            <4>2. ok = TRUE => ctl'.wl = {s'.profile.peer}
                BY <1>4, <3>1, <3>6
            <4> QED BY <2>4, <3>1, <3>6, <4>1, <4>2 DEF MsgFits
        <3> QED BY <1>3, <3>2, <3>3, <3>4, <3>5, <3>6
    <2>9. \A i \in 1..Len(queue') : Tabling(i)' => MsgFits(queue[i])'
        <3> SUFFICES ASSUME NEW i \in 1..Len(queue'), Tabling(i)'
                     PROVE  MsgFits(queue[i])'
            OBVIOUS
        <3>1. queue'[i] = m
            BY <2>6
        <3> QED BY <2>8, <3>1 DEF MsgFits
    <2>10. SetUp'
        <3>1. /\ "whitelist" \in s.ready => ctl'.wl = ctl.wl
              /\ "privacy" \notin s.ready
            BY <1>3, <1>4, <2>2 DEF OpFits
        <3> QED BY <1>1, <2>2, <3>1 DEF SetUp
    <2>11. Sorted'
        BY <1>1, <2>2 DEF Sorted
    <2> QED BY <2>3, <2>7, <2>9, <2>10, <2>11
<1> QED BY <1>6, <1>7, <1>8 DEF RadioInv

\* the radio is on the air as it was asked to be
LEMMA CompleteAdvStartRadio ==
    ASSUME TypeOK, RadioInv, CompleteAdvStart
    PROVE  RadioInv'
<1>1. /\ s' = s /\ work' = work /\ evtq' = evtq /\ nvm' = nvm /\ ctl \in CtlType
    BY DEF CompleteAdvStart, WorkerVars, Outside, TypeOK
<1>2. PICK op \in ctl.ops \cap AdvOps, ok \in BOOLEAN :
         /\ ctl' = [Finish(op) EXCEPT !.adv = IF ~ok THEN @ ELSE IF op = Op("adv_any") THEN "any" ELSE "listed"]
         /\ CallbackMessage("ADV_STARTED", ok, FALSE, NoPeer)
    BY DEF CompleteAdvStart
<1>3. /\ ctl'.ops = ctl.ops \ {op} /\ ctl'.wl = ctl.wl /\ ctl'.resolving = ctl.resolving
      /\ ctl'.adv = "any" => ctl.adv = "any" \/ Op("adv_any") \in ctl.ops
      /\ ctl'.adv = "listed" => ctl.adv = "listed" \/ Op("adv_listed") \in ctl.ops
    <2>1. Finish(op) \in CtlType /\ Finish(op).ops = ctl.ops \ {op} /\ Finish(op).adv = ctl.adv
          /\ Finish(op).wl = ctl.wl /\ Finish(op).resolving = ctl.resolving
        BY <1>1 DEF Finish, CtlType
    <2>2. op = Op("adv_any") \/ op = Op("adv_listed")
        BY DEF AdvOps
    <2> QED BY <1>2, <2>1, <2>2 DEF CtlType
<1>4. OnAir
    BY DEF OnAir
<1>5. TableOps' = TableOps /\ TableOps = {}
    BY <1>3, <1>4 DEF RadioInv, Admits, TableOps
<1>6. Tables'
    <2>1. "ADV_STARTED" \notin TableTypes
        BY DEF TableTypes
    <2>2. \A i \in 1..Len(queue') : Tabling(i)' => i \in 1..Len(queue) /\ queue'[i] = queue[i]
        BY <1>1, <1>2, <2>1, ReportTabled
    <2>3. queue \in Seq(Messages) /\ Len(queue) \in Nat
        BY QueueFacts DEF TypeOK
    <2>4. 0 \in {0, 1} /\ \A i \in 1..Len(queue') :
             Tabling(i)' => i + 0 \in 1..Len(queue) /\ Tabling(i + 0) /\ queue'[i] = queue[i + 0]
        BY <1>1, <2>2, <2>3 DEF Tabling
    <2>5. Moves(s')
        BY <1>1, SelfMoves
    <2>6. Running' => Running
        BY <1>1 DEF Running, Winding
    <2> QED BY <1>1, <1>3, <1>5, <2>4, <2>5, <2>6, TablesStay DEF RadioInv
<1>7. Admits'
    <2>1. \A x \in ctl'.ops : x \in ctl.ops
        BY <1>3
    <2>2. \A x \in ctl'.ops : ~Removing(x)'
        BY <1>4, <2>1 DEF RadioInv, Admits, Removing
    <2>3. Running' => Running
        BY <1>1 DEF Running, Winding
    <2>4. (Asked(1)' <=> Asked(1)) /\ \A i : Asked(i)' <=> Asked(i)
        BY <1>1 DEF Asked
    <2>5. Durably' /\ (HasBond(s.store, s.profile.peer) => HasBond(s.store, s.profile.peer)')
        BY <1>1, <1>4 DEF RadioInv, Admits, Durably, HasBond
    <2> QED BY <1>1, <1>3, <1>4, <1>5, <2>1, <2>2, <2>3, <2>4, <2>5 DEF RadioInv, Admits
<1>8. Retries'
    BY <1>1, <1>5 DEF RadioInv, Retries
<1> QED BY <1>6, <1>7, <1>8 DEF RadioInv

\* a request of another kind is done
LEMMA FinishStays ==
    ASSUME TypeOK, NEW op, op[1] \notin DOMAIN TableMessage, ctl'.ops = Finish(op).ops
    PROVE  TableOps' = TableOps /\ \A x \in ctl'.ops : x \in ctl.ops \/ x[1] \notin Weighty
<1>1. ctl'.ops = ctl.ops \ {op}
    BY DEF Finish, TypeOK, CtlType
<1> QED BY <1>1 DEF TableOps

LEMMA FinishSame ==
    ASSUME TypeOK, NEW op
    PROVE  Finish(op).wl = ctl.wl /\ Finish(op).resolving = ctl.resolving /\ Finish(op).adv = ctl.adv
           /\ Finish(op) \in CtlType
BY DEF Finish, TypeOK, CtlType

LEMMA CompletionsRadio ==
    ASSUME TypeOK, LinkInv, RadioInv, Completions
    PROVE  RadioInv'
<1>1. UNCHANGED WorkerVars /\ evtq' = evtq
    BY DEF Completions, CompleteGate, CompleteTable, CompleteAdvStart, CompleteAdvStop, CompleteRemoveBond,
       CompleteSuspend, Outside, UiVars
<1>2. ASSUME nvm'.peer = nvm.peer, OnAir => nvm.bonds \subseteq nvm'.bonds, NEW op, op[1] \notin DOMAIN TableMessage,
             ctl'.ops = Finish(op).ops, ctl'.wl = ctl.wl, ctl'.resolving = ctl.resolving, ctl'.adv \in {ctl.adv, "off"},
             queue' = queue
               \/ \E type \in (ApiTypes \cup CallbackTypes) \ TableTypes, ok \in BOOLEAN, flag \in BOOLEAN :
                     CallbackMessage(type, ok, flag, NoPeer)
      PROVE  RadioInv'
    <2>1. TableOps' = TableOps /\ \A x \in ctl'.ops : x \in ctl.ops \/ x[1] \notin Weighty
        BY <1>2, FinishStays
    <2>2. NoPeer \in Peers
        BY DEF Peers
    <2> QED BY <1>1, <1>2, <2>1, <2>2, PlainCallback
<1>3. CASE CompleteGate
    <2>1. PICK g \in Gates, ok \in BOOLEAN :
             ctl' = Finish(Op(g)) /\ CallbackMessage(GateMessage[g], ok, FALSE, NoPeer)
        BY <1>3 DEF CompleteGate
    <2>2. /\ GateMessage[g] \in (ApiTypes \cup CallbackTypes) \ TableTypes
          /\ Op(g)[1] \notin DOMAIN TableMessage
        BY ConstantsAssumption, TableFacts DEF GateMessage, CallbackTypes, TableTypes, ReadyFlags, Op
    <2>3. nvm' = nvm
        BY <1>3 DEF CompleteGate, Outside
    <2> QED BY <1>2, <2>1, <2>2, <2>3, FinishSame
<1>4. CASE CompleteAdvStop
    <2> DEFINE op == Op("adv_stop")
    <2>1. ctl' = [Finish(op) EXCEPT !.adv = "off", !.advStopped = TRUE] /\ queue' = queue /\ nvm' = nvm
        BY <1>4 DEF CompleteAdvStop, Outside
    <2>2. op[1] \notin DOMAIN TableMessage
        BY TableFacts DEF Op
    <2> HIDE DEF op
    <2>3. ctl'.ops = Finish(op).ops /\ ctl'.wl = ctl.wl /\ ctl'.resolving = ctl.resolving /\ ctl'.adv = "off"
        BY <2>1, FinishSame DEF CtlType
    <2> QED BY <1>2, <2>1, <2>2, <2>3
<1>5. CASE CompleteRemoveBond
    <2>1. PICK op \in ctl.ops, ok \in BOOLEAN :
             /\ op[1] = "remove_bond"
             /\ ctl' = [Finish(op) EXCEPT !.bondRemoved = IF ok THEN "ok" ELSE "failed"]
             /\ nvm' = IF ok THEN [nvm EXCEPT !.bonds = @ \ {<<s.store, op[2]>>}] ELSE nvm
        BY <1>5 DEF CompleteRemoveBond
    <2>2. ctl'.ops = Finish(op).ops /\ ctl'.wl = ctl.wl /\ ctl'.resolving = ctl.resolving /\ ctl'.adv = ctl.adv
        BY <2>1, FinishSame DEF CtlType
    <2>3. ~OnAir
        BY <2>1 DEF RadioInv, Admits, Removing
    <2>4. nvm'.peer = nvm.peer /\ queue' = queue /\ op[1] \notin DOMAIN TableMessage
        BY <1>5, <2>1, TableFacts DEF CompleteRemoveBond, TypeOK, Durable
    <2> QED BY <1>2, <2>2, <2>3, <2>4
<1>6. CASE CompleteSuspend
    <2>1. PICK name \in {"suspend", "resume"} :
             ctl' = Finish(Op(name)) /\ CallbackMessage("SUSPEND", TRUE, name = "suspend", NoPeer)
        BY <1>6 DEF CompleteSuspend
    <2>2. /\ "SUSPEND" \in (ApiTypes \cup CallbackTypes) \ TableTypes /\ (name = "suspend") \in BOOLEAN
          /\ Op(name)[1] \notin DOMAIN TableMessage
        BY TableFacts DEF CallbackTypes, TableTypes, Op
    <2>3. nvm' = nvm
        BY <1>6 DEF CompleteSuspend, Outside
    <2> QED BY <1>2, <2>1, <2>2, <2>3, FinishSame
<1> QED BY <1>3, <1>4, <1>5, <1>6, CompleteTableRadio, CompleteAdvStartRadio DEF Completions

\* hosts come, leave and write
LEMMA LinkStepsRadio ==
    ASSUME TypeOK, RadioInv, LinkCallbacks \/ Host
    PROVE  RadioInv'
<1>1. ctl \in CtlType /\ nvm \in Durable /\ link \in LinkType
    BY DEF TypeOK
<1>2. UNCHANGED WorkerVars /\ evtq' = evtq
    BY DEF LinkCallbacks, Host, ConnectClear, ConnectUp, ConnectPost, DisconnectMark, DisconnectDown, DisconnectPost,
       HostConnect, LinkEnds, HostAuth, HostWrite, HostSuspend, LinkVars, Outside, UiVars
<1>3. nvm'.peer = nvm.peer /\ nvm.bonds \subseteq nvm'.bonds
    <2>1. nvm' = nvm \/ nvm' = [nvm EXCEPT !.bonds = @ \cup {<<s.store, link.host>>}]
        BY DEF LinkCallbacks, Host, ConnectClear, ConnectUp, ConnectPost, DisconnectMark, DisconnectDown,
           DisconnectPost, HostConnect, LinkEnds, HostAuth, HostWrite, HostSuspend, LinkVars, Outside
    <2> QED BY <1>1, <2>1 DEF Durable
<1>4. queue' = queue
      \/ \E type \in (ApiTypes \cup CallbackTypes) \ TableTypes, ok \in BOOLEAN, flag \in BOOLEAN, peer \in Peers :
            CallbackMessage(type, ok, flag, peer)
    <2>1. {"CONNECTED", "DISCONNECTED", "AUTH", "WRITE"} \subseteq (ApiTypes \cup CallbackTypes) \ TableTypes
          /\ NoPeer \in Peers /\ link.host \in Peers
        BY <1>1 DEF CallbackTypes, TableTypes, Peers, LinkType
    <2>2. CASE ConnectClear \/ ConnectUp \/ DisconnectMark \/ DisconnectDown \/ HostConnect \/ LinkEnds
        BY <2>2 DEF ConnectClear, ConnectUp, DisconnectMark, DisconnectDown, HostConnect, LinkEnds
    <2>3. CASE ConnectPost \/ DisconnectPost \/ HostWrite \/ HostSuspend
        <3>1. PICK type \in {"CONNECTED", "DISCONNECTED", "WRITE"} : CallbackMessage(type, TRUE, FALSE, NoPeer)
            BY <2>3 DEF ConnectPost, DisconnectPost, HostWrite, HostSuspend
        <3> QED BY <2>1, <3>1
    <2>4. CASE HostAuth
        <3>1. PICK ok \in BOOLEAN : CallbackMessage("AUTH", ok, FALSE, link.host)
            BY <2>4 DEF HostAuth
        <3> QED BY <2>1, <3>1
    <2> QED BY <2>2, <2>3, <2>4 DEF LinkCallbacks, Host
<1>5. /\ ctl'.wl = ctl.wl /\ ctl'.resolving = ctl.resolving /\ ctl'.adv \in {ctl.adv, "off"}
      /\ TableOps' = TableOps /\ \A x \in ctl'.ops : x \in ctl.ops \/ x[1] \notin Weighty
    <2>1. CASE ctl' = ctl
        BY <2>1 DEF TableOps
    <2>2. CASE ctl' = [ctl EXCEPT !.adv = "off"]
        BY <1>1, <2>2 DEF TableOps, CtlType
    <2>3. CASE ctl' = Finish(Op("disconnect"))
        <3>1. Op("disconnect")[1] \notin DOMAIN TableMessage
            BY TableFacts DEF Op
        <3> QED BY <2>3, <3>1, FinishStays, FinishSame
    <2>4. CASE \E name \in {"suspend", "resume"} : ctl' = [ctl EXCEPT !.ops = @ \cup {Op(name)}]
        <3>1. PICK name \in {"suspend", "resume"} : ctl' = [ctl EXCEPT !.ops = @ \cup {Op(name)}]
            BY <2>4
        <3>2. /\ ctl'.wl = ctl.wl /\ ctl'.resolving = ctl.resolving /\ ctl'.adv = ctl.adv
              /\ ctl'.ops = ctl.ops \cup {Op(name)}
            BY <1>1, <3>1 DEF CtlType
        <3>3. Op(name)[1] \notin Weighty /\ DOMAIN TableMessage \subseteq Weighty
            BY TableFacts DEF Op, Weighty
        <3> QED BY <3>2, <3>3 DEF TableOps
    <2> QED BY <2>1, <2>2, <2>3, <2>4 DEF LinkCallbacks, Host, ConnectClear, ConnectUp, ConnectPost, DisconnectMark,
           DisconnectDown, DisconnectPost, HostConnect, LinkEnds, HostAuth, HostWrite, HostSuspend, Outside
<1> QED BY <1>2, <1>3, <1>4, <1>5, PlainCallback

LEMMA DeadlineRadio ==
    ASSUME TypeOK, RadioInv, DeadlinePasses
    PROVE  RadioInv'
<1>1. PICK d \in s.deadlines : s' = [s EXCEPT !.due = @ \cup {d}]
    BY DEF DeadlinePasses
<1>2. SameMoved(s, s')
    BY <1>1 DEF TypeOK, WorkerType, SameMoved
<1>3. /\ work' = work /\ queue' = queue /\ nvm' = nvm /\ evtq' = evtq /\ ctl' = ctl
    BY DEF DeadlinePasses, Outside
<1>4. TableOps' = TableOps
    BY <1>3 DEF TableOps
<1>5. \A i \in 1..Len(queue') : Tabling(i)' => i \in 1..Len(queue) /\ queue'[i] = queue[i]
    BY <1>3
<1>6. \A i \in 1..Len(evtq') : \E j \in 1..Len(evtq) : evtq'[i] = evtq[j]
    BY <1>3
<1>7. /\ ctl'.wl = ctl.wl /\ ctl'.resolving = ctl.resolving /\ ctl'.adv \in {ctl.adv, "off"}
      /\ \A op \in ctl'.ops : op \in ctl.ops \/ op[1] \notin Weighty
      /\ nvm'.peer = nvm.peer /\ nvm.bonds \subseteq nvm'.bonds
    BY <1>3
<1> QED BY <1>2, <1>3, <1>4, <1>5, <1>6, <1>7, OthersRadio

\* messages of the UI, events it drops, and an open that begins
LEMMA UiPlainRadio ==
    ASSUME TypeOK, RadioInv,
           \/ UiClose \/ UiForget \/ UiTap \/ UiRelease \/ UiPeerStale \/ UiOpenSend
           \/ \E p \in Profiles : UiOpen(p)
    PROVE  RadioInv'
<1>1. nvm \in Durable /\ s' = s /\ work' = work /\ ctl' = ctl
    BY DEF UiClose, UiForget, UiTap, UiRelease, UiPeerStale, UiOpen, UiOpenSend, Background, WorkerVars, TypeOK
<1>2. nvm'.peer = nvm.peer /\ nvm'.bonds = nvm.bonds
    <2>1. nvm' = nvm \/ \E p \in Profiles : nvm' = [nvm EXCEPT !.legacy[p] = FALSE]
        BY DEF UiClose, UiForget, UiTap, UiRelease, UiPeerStale, UiOpen, UiOpenSend
    <2> QED BY <1>1, <2>1 DEF Durable
<1>3. \A i \in 1..Len(evtq') : \E j \in 1..Len(evtq) : evtq'[i] = evtq[j]
    <2>1. PICK e \in {0, 1} : \A i \in 1..Len(evtq') : i + e \in 1..Len(evtq) /\ evtq'[i] = evtq[i + e]
        BY EventsShift DEF UiClose, UiForget, UiTap, UiRelease, UiPeerStale, UiOpen, UiOpenSend
    <2> QED BY <2>1
<1>4. SameMoved(s, s') /\ TableOps' = TableOps
    BY <1>1, SelfMoved DEF TableOps
<1>5. \A i \in 1..Len(queue') : Tabling(i)' => i \in 1..Len(queue) /\ queue'[i] = queue[i]
    <2>1. ASSUME NEW m, m.type \notin TableTypes, Send(m) \/ Enqueue(m)
          PROVE  \A i \in 1..Len(queue') : Tabling(i)' => i \in 1..Len(queue) /\ queue'[i] = queue[i]
        <3>1. queue' = queue \/ queue' = Append(queue, m)
            BY <2>1 DEF Send, Enqueue
        <3> QED BY <1>1, <2>1, <3>1, NoneTabled
    <2>2. CASE UiPeerStale \/ (\E p \in Profiles : UiOpen(p)) \/ (UiOpenSend /\ ~Room)
        <3>1. queue' = queue
            BY <2>2 DEF UiPeerStale, UiOpen, UiOpenSend
        <3> QED BY <3>1
    <2>3. CASE UiClose
        <3> DEFINE m == [NoMessage EXCEPT !.type = "CLOSE"]
        <3>1. m.type \notin TableTypes /\ Send(m)
            BY <2>3 DEF NoMessage, TableTypes, UiClose
        <3> HIDE DEF m
        <3> QED BY <2>1, <3>1
    <2>4. CASE UiForget
        <3>1. PICK flag \in BOOLEAN :
                 Enqueue([NoMessage EXCEPT !.type = "FORGET", !.session = ui.session, !.flag = flag])
            BY <2>4 DEF UiForget
        <3> DEFINE m == [NoMessage EXCEPT !.type = "FORGET", !.session = ui.session, !.flag = flag]
        <3>2. m.type \notin TableTypes /\ Enqueue(m)
            BY <3>1 DEF NoMessage, TableTypes
        <3> HIDE DEF m
        <3> QED BY <2>1, <3>2
    <2>5. CASE UiTap \/ UiRelease
        <3>1. PICK type \in {"TAP", "RELEASE"} : Enqueue([NoMessage EXCEPT !.type = type, !.session = ui.session])
            BY <2>5 DEF UiTap, UiRelease
        <3> DEFINE m == [NoMessage EXCEPT !.type = type, !.session = ui.session]
        <3>2. m.type \notin TableTypes /\ Enqueue(m)
            BY <3>1 DEF NoMessage, TableTypes
        <3> HIDE DEF m
        <3> QED BY <2>1, <3>2
    <2>6. CASE UiOpenSend /\ Room
        <3> DEFINE m == [NoMessage EXCEPT !.type = "OPEN", !.session = ui.seq, !.remote = Saved(ui.profile)]
        <3>1. m.type \notin TableTypes /\ Enqueue(m)
            BY <2>6 DEF NoMessage, TableTypes, UiOpenSend
        <3> HIDE DEF m
        <3> QED BY <2>1, <3>1
    <2> QED BY <2>2, <2>3, <2>4, <2>5, <2>6
<1> QED BY <1>1, <1>2, <1>3, <1>4, <1>5, OthersRadio

\* the UI saves what was asked for its session: the peer of the radio, if it is on
LEMMA UiPeerRadio ==
    ASSUME TypeOK, HostDownIsSilent, BondInv, TimedInv, KeptInv, RadioInv, UiPeer
    PROVE  RadioInv'
<1>1. /\ nvm \in Durable /\ ui \in UiType /\ ui.session \in Nat /\ ui.session # 0
      /\ ui.profile \in Profiles /\ s.session \in Nat /\ evtq \in Seq(Events) /\ Len(evtq) \in Nat
      /\ queue \in Seq(Messages) /\ Len(queue) \in Nat
    BY QueueFacts, ProfileFacts DEF TypeOK, WorkerType, UiPeer, InSession
<1>2. /\ s' = s /\ work' = work /\ ctl' = ctl /\ evtq # << >> /\ evtq' = Tail(evtq)
      /\ PeerEvent.session = ui.session
    BY DEF UiPeer, Background, WorkerVars
<1>3. 1 \in 1..Len(evtq) /\ PeerEvent = evtq[1]
    BY <1>1, <1>2 DEF PeerEvent
<1>4. \A i \in 1..Len(evtq') : Asked(i)' => Asked(i + 1) /\ evtq'[i] = evtq[i + 1]
    BY <1>1, <1>2 DEF Asked
<1> DEFINE p == ui.profile
           legacy == nvm.legacy[p] /\ PeerEvent.peer # NoPeer
           Answer(ok) == [NoMessage EXCEPT !.type = "SAVED", !.session = ui.session, !.flag = ok,
                              !.remote = [id |-> p, peer |-> PeerEvent.peer, legacy |-> legacy]]
<1>5. PICK ok \in BOOLEAN :
         /\ IF ok THEN nvm' = [nvm EXCEPT !.peer[p] = PeerEvent.peer, !.legacy[p] = legacy]
                  ELSE nvm' = nvm
         /\ Send(Answer(ok))
    BY DEF UiPeer
<1>6. Answer(ok).type \notin TableTypes
    BY DEF NoMessage, TableTypes
<1> HIDE DEF Answer, legacy
<1>7. /\ nvm'.bonds = nvm.bonds
      /\ nvm'.peer = nvm.peer \/ nvm'.peer = [nvm.peer EXCEPT ![p] = PeerEvent.peer]
    BY <1>1, <1>5 DEF Durable
<1>8. TableOps' = TableOps /\ (OnAir' <=> OnAir) /\ (Running' <=> Running)
    BY <1>2 DEF TableOps, OnAir, Running, Winding
<1>9. Tables'
    <2>1. \A i \in 1..Len(queue') : Tabling(i)' => i \in 1..Len(queue) /\ queue'[i] = queue[i]
        <3>1. queue' = queue \/ queue' = Append(queue, Answer(ok))
            BY <1>5 DEF Send, Enqueue
        <3> QED BY <1>2, <1>6, <3>1, NoneTabled
    <2>2. 0 \in {0, 1} /\ \A i \in 1..Len(queue') :
             Tabling(i)' => i + 0 \in 1..Len(queue) /\ Tabling(i + 0) /\ queue'[i] = queue[i + 0]
        BY <1>1, <1>2, <2>1 DEF Tabling
    <2>3. Moves(s')
        BY <1>2, SelfMoves
    <2> QED BY <1>2, <1>8, <2>2, <2>3, TablesStay DEF RadioInv
<1>10. Admits'
    <2> SUFFICES ASSUME OnAir
                 PROVE  Admits'
        BY <1>8 DEF Admits
    <2>1. s.session = ui.session
        <3>1. HostOn(s)
            BY DEF HostDownIsSilent, OnAir
        <3>2. s.session # 0
            BY <3>1 DEF TimedInv, Seated
        <3>3. s.session <= ui.session
            BY <1>1 DEF KeptInv, OrderInv, Newest
        <3>4. ui.session <= s.session
            BY <1>2, <1>3, <3>2 DEF KeptInv, OrderInv, Reached
        <3> QED BY <1>1, <3>3, <3>4
    <2>2. s.profile.id = p
        BY <1>1, <2>1 DEF BondInv, Named
    <2>3. PeerEvent.peer = s.profile.peer
        BY <1>2, <1>3, <2>1 DEF RadioInv, Admits, Asked
    <2>4. Durably'
        <3>1. nvm.peer[p] = s.profile.peer
            BY <2>2 DEF RadioInv, Admits, Durably
        <3>2. nvm'.peer[p] = s.profile.peer
            BY <1>1, <1>7, <2>3, <3>1 DEF Durable
        <3> QED BY <1>2, <2>2, <3>2 DEF Durably
    <2>5. \A i \in 1..Len(evtq') : Asked(i)' => evtq'[i].peer = s'.profile.peer
        BY <1>2, <1>4 DEF RadioInv, Admits, Asked
    <2>6. HasBond(s.store, s.profile.peer) => HasBond(s.store, s.profile.peer)'
        BY <1>2, <1>7 DEF HasBond
    <2>7. \A op \in ctl'.ops : ~Removing(op)'
        BY <1>2 DEF RadioInv, Admits, Removing
    <2> QED BY <1>2, <1>8, <2>4, <2>5, <2>6, <2>7 DEF RadioInv, Admits
<1>11. Retries'
    BY <1>2, <1>8 DEF RadioInv, Retries
<1> QED BY <1>9, <1>10, <1>11 DEF RadioInv

LEMMA IdleRadio ==
    ASSUME s = IdleWorker, work = IdleWork, ctl = IdleCtl
    PROVE  RadioInv
<1>1. s.layers = {} /\ work.k = "none" /\ ctl.ops = {} /\ ctl.adv = "off"
    BY DEF IdleWorker, IdleWork, IdleCtl
<1>2. ~Running /\ ~OnAir /\ TableOps = {}
    BY <1>1 DEF Running, HostOn, OnAir, TableOps
<1> QED BY <1>1, <1>2 DEF RadioInv, Tables, Admits, Retries

LEMMA PowerLossRadio ==
    ASSUME PowerLoss
    PROVE  RadioInv'
<1>1. s'.layers = {} /\ work'.k = "none" /\ ctl'.ops = {} /\ ctl'.adv = "off"
    BY DEF PowerLoss, IdleWorker, IdleWork, IdleCtl
<1>2. ~Running' /\ ~OnAir' /\ TableOps' = {}
    BY <1>1 DEF Running, HostOn, OnAir, TableOps
<1> QED BY <1>1, <1>2 DEF RadioInv, Tables, Admits, Retries

LEMMA RadioInvStep ==
    ASSUME TypeOK, StoppedInv, LinkInv, LinkInv', BondInv, TimedInv, KeptInv, RadioInv,
           [Next]_vars, [AuthsInTime]_vars
    PROVE  RadioInv'
<1>1. CASE UNCHANGED vars
    <2>1. Running' = Running /\ OnAir' = OnAir /\ TableOps' = TableOps
        BY <1>1 DEF vars, Running, HostOn, Winding, OnAir, TableOps
    <2>2. Tables'
        BY <1>1, <2>1 DEF vars, RadioInv, Tables, Single, Tabling, OpFits, MsgFits, SetUp, Sorted
    <2>3. Admits'
        BY <1>1, <2>1 DEF vars, RadioInv, Admits, Removing, Durably, Asked, HasBond
    <2>4. Retries'
        BY <1>1, <2>1 DEF vars, RadioInv, Retries, HostOn
    <2> QED BY <2>2, <2>3, <2>4 DEF RadioInv
<1>2. CASE Next /\ AuthsInTime
    <2>1. HostDownIsSilent
        BY DEF StoppedInv
    <2>2. CASE Worker
        BY <1>2, <2>1, <2>2, WorkerRadio DEF AuthsInTime, KeptInv, ServeInv
    <2>3. CASE UiMenu \/ UiTurn
        BY <2>1, <2>3, UiPlainRadio, UiPeerRadio DEF UiMenu, UiTurn
    <2> QED BY <1>2, <2>2, <2>3, CompletionsRadio, LinkStepsRadio, DeadlineRadio, PowerLossRadio DEF Next
<1> QED BY <1>1, <1>2

\* The radio takes any host only while the durable profile is unbonded, and
\* otherwise only the saved host, whose bond exists, resolvable if it uses private
\* addresses, when the waits and calls of a stop succeed, no report of the radio
\* and no OPEN is refused by a full queue, no authentication is handled after its
\* link was given up, and no profile is forgotten before what was asked of the UI
\* for it is answered (bt_runtime.c:448-453, 487-503, 724-768: the order in which
\* a start sets the controller's tables up, and what it checks before it advertises).
THEOREM RadioTakesSavedPeer ==
    CleanStops =>
        (Spec /\ [][ReportsQueued]_vars /\ [][AuthsInTime]_vars /\ [][ForgetsInTurn]_vars => []RadioAdmitsSavedPeer)
<1> SUFFICES ASSUME CleanStops
             PROVE  Spec /\ [][ReportsQueued]_vars /\ [][AuthsInTime]_vars /\ [][ForgetsInTurn]_vars
                       => []RadioAdmitsSavedPeer
    OBVIOUS
<1>1. Init => TimedInv
    BY IdleTimed DEF Init
<1>2. Init => MatchInv
    BY IdleMatched DEF Init
<1>3. Init => KeptInv
    BY IdleKept DEF Init
<1>4. Init => RadioInv
    BY IdleRadio DEF Init
<1>5. [ReportsQueued]_vars => [StartsQueued]_vars
    BY DEF ReportsQueued, StartsQueued
<1>6. TypeOK /\ StoppedInv /\ LinkInv /\ LinkInv' /\ BondInv /\ TimedInv /\ [Next]_vars /\ [StartsQueued]_vars => TimedInv'
    BY TimedInvStep
<1>7. TypeOK /\ StoppedInv /\ LinkInv /\ LinkInv' /\ BondInv /\ TimedInv /\ TimedInv' /\ MatchInv /\ [Next]_vars
         /\ [ReportsQueued]_vars /\ [AuthsInTime]_vars => MatchInv'
    BY MatchInvStep
<1>8. TypeOK /\ LinkInv /\ LinkInv' /\ BondInv /\ TimedInv /\ MatchInv /\ MatchInv' /\ KeptInv /\ [Next]_vars
         /\ [AuthsInTime]_vars /\ [ForgetsInTurn]_vars => KeptInv'
    BY KeptInvStep
<1>9. TypeOK /\ StoppedInv /\ LinkInv /\ LinkInv' /\ BondInv /\ TimedInv /\ KeptInv /\ RadioInv /\ [Next]_vars
         /\ [AuthsInTime]_vars => RadioInv'
    BY RadioInvStep
<1>10. RadioInv => RadioAdmitsSavedPeer
    <2>1. ctl.adv = "any" \/ ctl.adv = "listed" => OnAir
        BY DEF OnAir
    <2> QED BY <2>1 DEF RadioInv, Admits, Durably, RadioAdmitsSavedPeer
<1> QED BY <1>1, <1>2, <1>3, <1>4, <1>5, <1>6, <1>7, <1>8, <1>9, <1>10,
           TypeCorrect, StoppedCorrect, LinkViewCorrect, CopiesCorrect, PTL DEF Spec
=============================================================================
