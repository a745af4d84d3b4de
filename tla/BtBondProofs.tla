---------------------------- MODULE BtBondProofs ----------------------------
(***************************************************************************)
(* Theorems about the bonds of the Bluetooth runtime, for any profiles,     *)
(* hosts, queue lengths and bounds.  The bond that a removal takes is the   *)
(* forgotten profile's own, although the worker decides on the removal from *)
(* a profile it copied when the session was opened, and while the UI task   *)
(* goes on saving, moving and opening profiles.                             *)
(***************************************************************************)
EXTENDS BtProofs

-----------------------------------------------------------------------------
(* The invariant                                                             *)

\* the messages that bring the worker a profile
Carrying(m) == m.type = "OPEN" \/ (m.type = "SAVED" /\ m.flag = TRUE)

\* an OPEN stays in the worker's hand while the previous session stops
Opening == work.k = "open" /\ (Winding \/ work.pc = "resume")
Held == {queue[i] : i \in 1..Len(queue)} \cup (IF Opening THEN {work.msg} ELSE {})
Opened == Opening => work.msg.type = "OPEN"

\* session numbers are the UI's own, and the next one is new
Issued(n, u) == n <= u.seq /\ (u.pc = "opening" => n < u.seq)
Numbered ==
    /\ Issued(ui.session, ui) /\ Issued(s.session, ui)
    /\ \A m \in Held : Issued(m.session, ui)
    /\ \A i \in 1..Len(evtq) : Issued(evtq[i].session, ui)

\* a copy of a profile says it is out of the shared database only if it is
Truthful(r, legacy) ==
    /\ r.peer = NoPeer => r.legacy = FALSE
    /\ r.id \in Profiles /\ r.legacy = FALSE => legacy[r.id] = FALSE

\* whatever bears the number of the UI's session is about the UI's profile,
\* and a new peer is reported only for a profile out of the shared database
Named ==
    ui.session # 0 =>
       /\ s.session = ui.session => s.profile.id = ui.profile
       /\ \A m \in Held : Carrying(m) /\ m.session = ui.session => m.remote.id = ui.profile
       /\ \A i \in 1..Len(evtq) :
             evtq[i].session = ui.session /\ evtq[i].peer # NoPeer => nvm.legacy[ui.profile] = FALSE

\* the UI moves an unbonded profile out of the shared database first
Moved ==
    /\ ui.session # 0 \/ ui.pc = "opening" => (nvm.peer[ui.profile] = NoPeer => nvm.legacy[ui.profile] = FALSE)
    /\ Truthful(s.profile, nvm.legacy)
    /\ \A m \in Held : Carrying(m) => Truthful(m.remote, nvm.legacy)

\* pairing only ever adds a bond outside the shared database
Paired == Running /\ "hid" \in s.layers /\ s.pairing = TRUE => s.profile.legacy = FALSE

\* what was found when the removal was asked for still holds
Removing(op) == op \in ctl.ops /\ op[1] = "remove_bond"
Unused ==
    s.profile.legacy = TRUE =>
        \A p \in Profiles \ {s.profile.id} : nvm.legacy[p] = TRUE => nvm.peer[p] # s.profile.peer
Decided ==
    \A op : Removing(op) =>
        /\ Winding \/ (work.pc = "bond_wait" /\ ctl.bondRemoved = "no")
        /\ HostOn(s)
        /\ op[2] = s.profile.peer /\ s.store = StoreOf(s.profile)
        /\ Unused

BondInv == Opened /\ Numbered /\ Named /\ Moved /\ Paired /\ Decided

-----------------------------------------------------------------------------
(* How steps relate to what the invariant says                               *)

SameSaved == nvm'.peer = nvm.peer /\ nvm'.legacy = nvm.legacy
RemovalKept == \A op : Removing(op)' => Removing(op)
HeldKept == \A m \in Held' : m \in Held

\* the worker's copy is kept, or a message brought another one
Renamed(s1) ==
    \/ /\ s1.session \in {s.session, 0}
       /\ s1.profile.id = s.profile.id /\ s1.profile.legacy = s.profile.legacy
       /\ s1.profile.peer = s.profile.peer \/ s.profile.legacy = FALSE
    \/ \E m \in Held : Carrying(m) /\ s1.session = m.session /\ s1.profile = m.remote

\* an event of this session names a peer only for a profile out of the shared database
EventsKept ==
    \A i \in 1..Len(evtq') :
       \/ i \in 1..Len(evtq) /\ evtq'[i] = evtq[i]
       \/ evtq'[i].session = s.session /\ (evtq'[i].peer # NoPeer => s.profile.legacy = FALSE)

LEMMA HeldFacts ==
    ASSUME TypeOK
    PROVE  \A m \in Held : m \in Messages
<1>1. \A i \in 1..Len(queue) : queue[i] \in Messages
    BY QueueFacts
<1>2. work.msg \in Messages
    BY DEF TypeOK, WorkType
<1> QED BY <1>1, <1>2 DEF Held

Events == [session : Nat, peer : Peers]

LEMMA ProfileFacts ==
    ASSUME TypeOK
    PROVE  /\ nvm.legacy \in [Profiles -> BOOLEAN] /\ nvm.peer \in [Profiles -> Peers]
           /\ ui.session \in Nat /\ ui.seq \in Nat /\ ui.pc \in {"idle", "opening"}
           /\ ui.session # 0 \/ ui.pc = "opening" => ui.profile \in Profiles
           /\ s.session \in Nat /\ s.profile \in Remotes
           /\ evtq \in Seq(Events) /\ Len(evtq) \in Nat
           /\ \A i \in 1..Len(evtq) : evtq[i] \in Events
<1>1. evtq \in Seq(Events)
    BY DEF TypeOK, Events
<1>2. Len(evtq) \in Nat /\ \A i \in 1..Len(evtq) : evtq[i] \in Events
    BY <1>1
<1> QED BY <1>1, <1>2 DEF TypeOK, Durable, UiType, WorkerType

\* the copy a step leaves is as good as the one it found
LEMMA RenamedFacts ==
    ASSUME TypeOK, Numbered, Named, Moved, NEW s1, Renamed(s1)
    PROVE  /\ Issued(s1.session, ui)
           /\ Truthful(s1.profile, nvm.legacy)
           /\ ui.session # 0 /\ s1.session = ui.session => s1.profile.id = ui.profile
<1>1. CASE /\ s1.session \in {s.session, 0}
           /\ s1.profile.id = s.profile.id /\ s1.profile.legacy = s.profile.legacy
           /\ s1.profile.peer = s.profile.peer \/ s.profile.legacy = FALSE
    <2>1. Issued(0, ui)
        BY ProfileFacts DEF Numbered, Issued
    <2> QED BY <1>1, <2>1 DEF Numbered, Named, Moved, Truthful
<1>2. CASE \E m \in Held : Carrying(m) /\ s1.session = m.session /\ s1.profile = m.remote
    BY <1>2 DEF Numbered, Named, Moved
<1> QED BY <1>1, <1>2 DEF Renamed

LEMMA EventsFacts ==
    ASSUME TypeOK, Numbered, Named, Moved, EventsKept
    PROVE  \A i \in 1..Len(evtq') :
              /\ Issued(evtq'[i].session, ui)
              /\ ui.session # 0 /\ evtq'[i].session = ui.session /\ evtq'[i].peer # NoPeer
                     => nvm.legacy[ui.profile] = FALSE
<1> TAKE i \in 1..Len(evtq')
<1>1. CASE i \in 1..Len(evtq) /\ evtq'[i] = evtq[i]
    BY <1>1 DEF Numbered, Named
<1>2. CASE evtq'[i].session = s.session /\ (evtq'[i].peer # NoPeer => s.profile.legacy = FALSE)
    BY <1>2, ProfileFacts DEF Numbered, Named, Moved, Truthful
<1> QED BY <1>1, <1>2 DEF EventsKept

\* a step of the worker
LEMMA WorkerBond ==
    ASSUME TypeOK, BondInv, Renamed(s'), HeldKept, Opened', EventsKept, SameSaved, ui' = ui, Paired', Decided'
    PROVE  BondInv'
<1>1. Numbered /\ Named /\ Moved
    BY DEF BondInv
<1>2. /\ Issued(s'.session, ui)
      /\ Truthful(s'.profile, nvm.legacy)
      /\ ui.session # 0 /\ s'.session = ui.session => s'.profile.id = ui.profile
    BY <1>1, RenamedFacts
<1>3. \A i \in 1..Len(evtq') :
          /\ Issued(evtq'[i].session, ui)
          /\ ui.session # 0 /\ evtq'[i].session = ui.session /\ evtq'[i].peer # NoPeer
                 => nvm.legacy[ui.profile] = FALSE
    BY <1>1, EventsFacts
<1>4. Numbered'
    BY <1>1, <1>2, <1>3 DEF Numbered, HeldKept
<1>5. Named'
    BY <1>1, <1>2, <1>3 DEF Named, HeldKept, SameSaved
<1>6. Moved'
    BY <1>1, <1>2 DEF Moved, HeldKept, SameSaved
<1> QED BY <1>4, <1>5, <1>6 DEF BondInv

LEMMA HeldGrows ==
    ASSUME TypeOK, work' = work, NEW m, queue' = queue \/ queue' = Append(queue, m)
    PROVE  \A x \in Held' : x \in Held \/ x = m
<1>1. queue \in Seq(Messages) /\ Len(queue) \in Nat /\ Opening' = Opening
    BY QueueFacts DEF TypeOK, Opening, Winding
<1>2. CASE queue' = queue
    BY <1>1, <1>2 DEF Held
<1>3. CASE queue' = Append(queue, m)
    <2>1. Len(queue') = Len(queue) + 1
        BY <1>1, <1>3
    <2>2. \A i \in 1..Len(queue') : (i \in 1..Len(queue) /\ queue'[i] = queue[i]) \/ queue'[i] = m
        BY <1>1, <1>3
    <2> QED BY <1>1, <2>2 DEF Held
<1> QED BY <1>2, <1>3

\* a step of another task that leaves the UI's account alone
LEMMA OthersBond ==
    ASSUME TypeOK, BondInv, work' = work, s'.session = s.session, s'.profile = s.profile,
           s'.layers = s.layers, s'.pairing = s.pairing, s'.store = s.store,
           evtq' = evtq, ui' = ui, SameSaved, RemovalKept,
           ctl'.bondRemoved = ctl.bondRemoved \/ (\A op : ~Removing(op)'),
           NEW m, queue' = queue \/ queue' = Append(queue, m), ~Carrying(m), m.session = 0
    PROVE  BondInv'
<1>1. Winding' = Winding /\ Running' = Running /\ Opening' = Opening /\ HostOn(s') = HostOn(s)
    BY DEF Winding, Running, Opening, HostOn
<1>2. \A x \in Held' : x \in Held \/ x = m
    BY HeldGrows
<1>3. Opened' /\ Paired'
    BY <1>1 DEF BondInv, Opened, Paired
<1>4. Issued(0, ui)
    BY ProfileFacts DEF BondInv, Numbered, Issued
<1>5. Numbered'
    BY <1>2, <1>4 DEF BondInv, Numbered
<1>6. Named' /\ Moved'
    BY <1>2 DEF BondInv, Named, Moved, SameSaved
<1>7. Decided'
    BY <1>1 DEF BondInv, Decided, RemovalKept, SameSaved, Unused, StoreOf
<1> QED BY <1>3, <1>5, <1>6, <1>7 DEF BondInv

-----------------------------------------------------------------------------
(* What handlers share                                                       *)

Alike(s1) ==
    /\ s1 \in WorkerType /\ s1.session = s.session /\ s1.profile = s.profile /\ s1.layers = s.layers
    /\ s1.pairing = s.pairing \/ s1.pairing = FALSE
Unwaiting == Posts \cup {"resume"}

LEMMA SelfAlike == ASSUME TypeOK PROVE Alike(s)
BY DEF TypeOK, Alike

LEMMA HeldShrinks ==
    ASSUME TypeOK, Shrinks, work'.k # "open" \/ work'.pc \in Calm
    PROVE  HeldKept /\ Opened'
<1>1. ~Opening'
    BY DEF Opening, Winding, Calm, Posts
<1>2. \A i \in 1..Len(queue') : \E j \in 1..Len(queue) : queue'[i] = queue[j]
    BY DEF Shrinks
<1> QED BY <1>1, <1>2 DEF HeldKept, Held, Opened

LEMMA NoRemoval ==
    ASSUME Decided, work.pc \in Unwaiting
    PROVE  \A op : ~Removing(op)
BY DEF Decided, Unwaiting, Posts, Winding

LEMMA AlikePaired ==
    ASSUME Paired, Alike(s'), work.pc \in Unwaiting \cup {"bond_wait"}
    PROVE  Paired'
<1>1. ~Winding
    BY DEF Unwaiting, Posts, Winding
<1>2. Running' => Running
    BY <1>1 DEF Running, HostOn, Alike
<1> QED BY <1>2 DEF Paired, Alike

\* a handler that keeps the worker's copy of the profile and asks for no removal
LEMMA PlainBond ==
    ASSUME TypeOK, BondInv, work.pc \in Unwaiting, Shrinks, work'.k # "open" \/ work'.pc \in Calm,
           Alike(s'), evtq' = evtq, ui' = ui, SameSaved, RemovalKept
    PROVE  BondInv'
<1>1. HeldKept /\ Opened'
    BY HeldShrinks
<1>2. Paired'
    BY AlikePaired DEF BondInv
<1>3. Decided'
    BY NoRemoval DEF BondInv, RemovalKept, Decided
<1>4. EventsKept
    BY DEF EventsKept
<1>5. Renamed(s')
    BY DEF Renamed, Alike
<1> QED BY <1>1, <1>2, <1>3, <1>4, <1>5, WorkerBond

LEMMA StoppedAlike ==
    ASSUME NEW s1, Alike(s1), NEW shown, NEW k, NEW post, NEW m, BeginStop(s1, shown, k, post, m)
    PROVE  Alike(s') /\ work'.k = k /\ work'.pc = "stop_adv" /\ work'.msg = m
<1>1. s' = [s1 EXCEPT !.deadlines = {}, !.due = {}, !.awaiting_save = FALSE, !.forgetting = FALSE]
    BY DEF BeginStop, StoppedFlags
<1>2. s1 \in WorkerType
    BY DEF Alike
<1>3. s' \in WorkerType
    BY <1>1, <1>2 DEF WorkerType
<1>4. /\ s'.session = s1.session /\ s'.profile = s1.profile /\ s'.layers = s1.layers
      /\ s'.pairing = s1.pairing
    BY <1>1, <1>2 DEF WorkerType
<1>5. Alike(s')
    BY <1>3, <1>4 DEF Alike
<1> QED BY <1>5 DEF BeginStop

LEMMA StopsBond ==
    ASSUME TypeOK, BondInv, work.pc \in Unwaiting, Shrinks, evtq' = evtq, ui' = ui, SameSaved, RemovalKept,
           NEW s1, Alike(s1), NEW shown, NEW k, k # "open", NEW post, NEW m, BeginStop(s1, shown, k, post, m)
    PROVE  BondInv'
BY StoppedAlike, PlainBond

LEMMA DoneBond ==
    ASSUME TypeOK, BondInv, work.pc \in Unwaiting, Shrinks, evtq' = evtq, ui' = ui, SameSaved, RemovalKept,
           Alike(s'), NEW pc \in Calm, Done(pc) \/ Goto(pc)
    PROVE  BondInv'
<1>1. work'.pc = pc
    BY DEF Done, Goto, TypeOK, WorkType
<1> QED BY <1>1, PlainBond

LEMMA ReadyIfSubscribedBond ==
    ASSUME TypeOK, BondInv, work.pc \in Unwaiting, Shrinks, evtq' = evtq, ui' = ui, ctl' = ctl,
           NEW s1, Alike(s1), NEW post \in Calm, NEW m, ReadyIfSubscribed(s1, post, m)
    PROVE  BondInv'
<1>0. s1 \in WorkerType /\ RemovalKept
    BY DEF Alike, RemovalKept, Removing
<1>1. SameSaved
    BY DEF ReadyIfSubscribed, SameSaved, TypeOK, Durable
<1>2. CASE s' = s1 /\ work' = [work EXCEPT !.pc = post, !.msg = m]
    <2>1. work'.pc = post
        BY <1>2 DEF TypeOK, WorkType
    <2>2. Alike(s')
        BY <1>2 DEF Alike
    <2> QED BY <1>0, <1>1, <2>1, <2>2, PlainBond
<1>3. CASE /\ s' = [(IF ccc THEN Clear(s1, {"connect", "pair"}) ELSE s1) EXCEPT !.subscribed = ccc]
           /\ work' = [work EXCEPT !.pc = post, !.msg = m]
    <2> DEFINE cleared == Clear(s1, {"connect", "pair"})
               base == IF ccc THEN cleared ELSE s1
    <2>1. work'.pc = post
        BY <1>3 DEF TypeOK, WorkType
    <2>2. cleared \in WorkerType
        BY <1>0, ClearType
    <2>3. /\ cleared.session = s1.session /\ cleared.profile = s1.profile /\ cleared.layers = s1.layers
          /\ cleared.pairing = s1.pairing
        BY <1>0 DEF Clear, WorkerType
    <2>4. base = cleared \/ base = s1
        OBVIOUS
    <2>5. s' = [base EXCEPT !.subscribed = ccc] /\ ccc \in BOOLEAN
        BY <1>3 DEF TypeOK
    <2> HIDE DEF cleared, base
    <2>6. /\ base \in WorkerType /\ base.session = s1.session /\ base.profile = s1.profile
          /\ base.layers = s1.layers /\ base.pairing = s1.pairing
        BY <1>0, <2>2, <2>3, <2>4
    <2>7. s' \in WorkerType
        BY <2>5, <2>6 DEF WorkerType
    <2>8. /\ s'.session = s1.session /\ s'.profile = s1.profile /\ s'.layers = s1.layers
          /\ s'.pairing = s1.pairing
        BY <2>5, <2>6 DEF WorkerType
    <2>9. Alike(s')
        BY <2>7, <2>8 DEF Alike
    <2> QED BY <1>0, <1>1, <2>1, <2>9, PlainBond
<1>4. CASE BeginStop(s1, snapshot, "fail", post, m)
    BY <1>0, <1>1, <1>4, StopsBond
<1> QED BY <1>2, <1>3, <1>4 DEF ReadyIfSubscribed

LEMMA RequestBond ==
    ASSUME TypeOK, BondInv, work.pc \in Unwaiting, Shrinks, evtq' = evtq, ui' = ui, SameSaved,
           NEW s1, Alike(s1), NEW op, op[1] # "remove_bond", Request(s1, op)
    PROVE  BondInv'
<1>1. RemovalKept
    BY DEF Request, RemovalKept, Removing, TypeOK, CtlType
<1>2. CASE s' = s1 /\ Done("after")
    BY <1>1, <1>2, DoneBond DEF Alike, Calm, Posts
<1>3. CASE BeginStop(s1, snapshot, "fail", "after", Msg)
    BY <1>1, <1>3, StopsBond
<1> QED BY <1>2, <1>3 DEF Request

LEMMA SetFlagsBond ==
    ASSUME TypeOK, BondInv, work.pc \in Unwaiting, Shrinks, evtq' = evtq, ui' = ui, SameSaved,
           NEW s1, Alike(s1), SetFlags(s1)
    PROVE  BondInv'
<1>1. RemovalKept /\ Done("after") /\ s' = s1
    BY DEF SetFlags, RemovalKept, Removing
<1> QED BY <1>1, DoneBond DEF Alike, Calm, Posts

-----------------------------------------------------------------------------
(* Handlers of messages                                                      *)

LEMMA ApiHandlersBond ==
    ASSUME TypeOK, BondInv, ApiHandlers
    PROVE  BondInv'
<1>1. PICK types : Take(types) /\ (HandleOpen => types = {"OPEN"}) /\ (HandleSaved => types = {"SAVED"})
    <2>1. HandleOpen => Take({"OPEN"})
        BY DEF HandleOpen
    <2>2. HandleSaved => Take({"SAVED"})
        BY DEF HandleSaved
    <2>3. ~(HandleOpen /\ HandleSaved)
        BY DEF HandleOpen, HandleSaved, Take
    <2>4. \E types : Take(types)
        BY DEF ApiHandlers, HandleOpen, HandleForget, HandleSaved, HandleTap, HandleRelease, HandleClose,
               HandleDropped
    <2> QED BY <2>1, <2>2, <2>3, <2>4
<1>2. /\ s \in WorkerType /\ Shrinks /\ Msg \in Messages /\ Msg.type \in types
      /\ Len(queue) > 0 /\ Msg = queue[1] /\ Len(queue) \in Nat
    BY <1>1, TakeShrinks, QueueFacts DEF TypeOK
<1>3. Msg \in Held
    BY <1>2 DEF Held
<1>4. work.pc \in Unwaiting /\ {"idle", "tail", "after"} \subseteq Calm
    BY <1>1 DEF Take, Unwaiting, Calm, Posts
<1>5. ui' = ui /\ evtq' = evtq /\ RemovalKept
    BY DEF ApiHandlers, HandleOpen, HandleForget, HandleSaved, HandleTap, HandleRelease, HandleClose,
           HandleDropped, Outside, UiVars, RemovalKept, Removing
<1>6. SameSaved
    BY DEF ApiHandlers, HandleOpen, HandleForget, HandleSaved, HandleTap, HandleRelease, HandleClose,
           HandleDropped, Outside, ReadyIfSubscribed, SameSaved, TypeOK, Durable
<1>7. ASSUME NEW pc \in {"idle", "tail", "after"}, Done(pc), s' = s
      PROVE  BondInv'
    <2>1. Alike(s')
        BY <1>7, SelfAlike DEF Alike
    <2> QED BY <1>2, <1>4, <1>5, <1>6, <1>7, <2>1, DoneBond
<1>8. ASSUME NEW s1, Alike(s1), NEW k, k # "open", NEW post, BeginStop(s1, snapshot, k, post, Msg)
      PROVE  BondInv'
    BY <1>2, <1>4, <1>5, <1>6, <1>8, StopsBond
<1>9. CASE HandleOpen
    <2>1. CASE BeginStop(s, snapshot, "open", "tail", Msg)
        <3>1. Alike(s') /\ work'.k = "open" /\ work'.pc = "stop_adv" /\ work'.msg = Msg
            BY <2>1, SelfAlike, StoppedAlike
        <3>2. \A i \in 1..Len(queue') : \E j \in 1..Len(queue) : queue'[i] = queue[j]
            BY <1>2 DEF Shrinks
        <3>3. HeldKept
            BY <1>3, <3>1, <3>2 DEF HeldKept, Held
        <3>4. Opened'
            BY <1>1, <1>2, <1>9, <3>1 DEF Opened
        <3>5. Paired'
            BY <1>4, <3>1, AlikePaired DEF BondInv
        <3>6. Decided'
            BY <1>4, <1>5, NoRemoval DEF BondInv, RemovalKept, Decided
        <3>7. EventsKept /\ Renamed(s')
            BY <1>5, <3>1 DEF EventsKept, Renamed, Alike
        <3> QED BY <1>5, <1>6, <3>3, <3>4, <3>5, <3>6, <3>7, WorkerBond
    <2> QED BY <1>7, <1>9, <2>1 DEF HandleOpen
<1>10. CASE HandleForget
    BY <1>8, <1>10, SelfAlike DEF HandleForget
<1>11. CASE HandleSaved
    <2> DEFINE cleared == Clear(s, {"save"})
               ack     == [cleared EXCEPT !.awaiting_save = FALSE]
               done    == [ack EXCEPT !.profile = Msg.remote, !.forgetting = FALSE]
               saved   == [ack EXCEPT !.saved = TRUE, !.pairing = FALSE]
    <2>1. AckFlags = ack
        BY DEF AckFlags
    <2>2. Alike(cleared)
        BY <1>2, ClearType DEF Alike, Clear, WorkerType
    <2> HIDE DEF cleared
    <2>3. Alike(ack)
        BY <2>2 DEF Alike, WorkerType
    <2>4. \/ BeginStop(ack, snapshot, "fail", "idle", Msg)
          \/ /\ Msg.flag = TRUE
             /\ BeginStop(done, snapshot, IF s.pair_after THEN "restart" ELSE "unpair", "tail", Msg)
          \/ BeginStop(saved, snapshot, "restart", "tail", Msg)
          \/ ReadyIfSubscribed(saved, "tail", Msg)
        <3>1. Msg.flag \in BOOLEAN
            BY <1>2 DEF Messages
        <3> QED BY <1>11, <2>1, <3>1 DEF HandleSaved
    <2> HIDE DEF ack
    <2>5. Alike(saved)
        BY <2>3 DEF Alike, WorkerType
    <2>6. CASE ReadyIfSubscribed(saved, "tail", Msg)
        <3>1. ctl' = ctl
            BY <1>11 DEF HandleSaved
        <3> HIDE DEF saved
        <3> QED BY <1>2, <1>4, <1>5, <2>5, <2>6, <3>1, ReadyIfSubscribedBond
    <2>7. CASE /\ Msg.flag = TRUE
               /\ BeginStop(done, snapshot, IF s.pair_after THEN "restart" ELSE "unpair", "tail", Msg)
        <3>1. done \in WorkerType
            <4>1. Msg.remote \in Remotes
                BY <1>2 DEF Messages
            <4> QED BY <2>3, <4>1 DEF Alike, WorkerType
        <3>2. done.session = s.session /\ done.profile = Msg.remote
            BY <2>3 DEF Alike, WorkerType
        <3> HIDE DEF done
        <3>3. /\ s' = [done EXCEPT !.deadlines = {}, !.due = {}, !.awaiting_save = FALSE, !.forgetting = FALSE]
              /\ work'.pc = "stop_adv" /\ work'.k \in {"restart", "unpair"}
            BY <2>7 DEF BeginStop, StoppedFlags
        <3>4. s'.session = s.session /\ s'.profile = Msg.remote
            BY <3>1, <3>2, <3>3 DEF WorkerType
        <3>5. Msg.type = "SAVED" /\ Msg.session = s.session
            BY <1>1, <1>2, <1>11 DEF HandleSaved
        <3>6. Renamed(s')
            BY <1>3, <2>7, <3>4, <3>5 DEF Renamed, Carrying
        <3>7. Paired'
            BY <3>3 DEF Paired, Running, Winding
        <3>8. Decided'
            BY <1>4, <1>5, NoRemoval DEF BondInv, RemovalKept, Decided
        <3>9. HeldKept /\ Opened'
            BY <1>2, <3>3, HeldShrinks
        <3>10. EventsKept
            BY <1>5 DEF EventsKept
        <3> QED BY <1>5, <1>6, <3>6, <3>7, <3>8, <3>9, <3>10, WorkerBond
    <2> HIDE DEF saved, done
    <2> QED BY <1>8, <2>3, <2>4, <2>5, <2>6, <2>7
<1>12. CASE HandleTap \/ HandleRelease \/ HandleClose
    BY <1>7, <1>8, <1>12, SelfAlike DEF HandleTap, HandleRelease, HandleClose
<1>13. CASE HandleDropped
    BY <1>7, <1>13 DEF HandleDropped
<1> QED BY <1>9, <1>10, <1>11, <1>12, <1>13 DEF ApiHandlers

\* the handlers on the way to advertising
LEMMA SetupBond ==
    ASSUME TypeOK, LinkInv, BondInv,
           HandleGate \/ HandleHidReady \/ HandlePrivacy \/ HandleWhitelist \/ HandlePeerPrivacy \/ HandleAdvStarted
    PROVE  BondInv'
<1>1. PICK types : TakeCallback(types)
    BY DEF HandleGate, HandleHidReady, HandlePrivacy, HandleWhitelist, HandlePeerPrivacy, HandleAdvStarted
<1>2. /\ Shrinks /\ s \in WorkerType /\ Msg \in Messages
      /\ work.pc \in Unwaiting /\ "after" \in Calm
    BY <1>1, CallbackTaken DEF TakeCallback, Take, Unwaiting, Posts
<1>3. ui' = ui /\ evtq' = evtq /\ SameSaved
    BY DEF HandleGate, HandleHidReady, HandlePrivacy, HandleWhitelist, HandlePeerPrivacy, HandleAdvStarted,
           Outside, UiVars, SameSaved
<1>4. ASSUME NEW s1, Alike(s1), SetFlags(s1)
      PROVE  BondInv'
    BY <1>2, <1>3, <1>4, SetFlagsBond
<1>5. ASSUME NEW s1, Alike(s1), NEW op, op[1] # "remove_bond", Request(s1, op)
      PROVE  BondInv'
    BY <1>2, <1>3, <1>5, RequestBond
<1>6. Op("wl_clear")[1] # "remove_bond" /\ Op("peer_privacy")[1] # "remove_bond" /\ Op("privacy_on")[1] # "remove_bond"
    BY DEF Op
<1>7. CASE HandleGate \/ HandleHidReady
    <2>1. PICK ready : s' = [s EXCEPT !.ready = ready]
        BY <1>7 DEF HandleGate, HandleHidReady
    <2>2. ready \in SUBSET ReadyFlags
        <3>1. CASE HandleGate
            <4>1. Msg.type \in {"ADV_DATA", "SCAN_DATA", "ADDRESS"}
                BY <3>1 DEF HandleGate, TakeCallback, Take, Msg
            <4>2. GateOf[Msg.type] \in ReadyFlags
                BY <4>1 DEF GateOf, ReadyFlags
            <4>3. s'.ready \in SUBSET ReadyFlags
                BY <1>2, <3>1, <4>2 DEF HandleGate, WorkerType
            <4> QED BY <1>2, <2>1, <4>3 DEF WorkerType
        <3>2. CASE HandleHidReady
            <4>1. s'.ready \in SUBSET ReadyFlags
                BY <1>2, <3>2 DEF HandleHidReady, WorkerType, ReadyFlags
            <4> QED BY <1>2, <2>1, <4>1 DEF WorkerType
        <3> QED BY <1>7, <3>1, <3>2
    <2>3. Alike(s')
        BY <1>2, <2>1, <2>2 DEF Alike, WorkerType
    <2>4. work'.pc = "after" /\ RemovalKept
        BY <1>7 DEF HandleGate, HandleHidReady, Done, TypeOK, WorkType, RemovalKept, Removing
    <2> QED BY <1>2, <1>3, <2>3, <2>4, PlainBond
<1>8. CASE HandlePrivacy
    <2>1. \/ Request([s EXCEPT !.phase = "preparing"], Op("wl_clear"))
          \/ SetFlags([s EXCEPT !.phase = "ready", !.ready = @ \cup {"privacy"}])
          \/ SetFlags(s)
        BY <1>8 DEF HandlePrivacy
    <2>2. Alike([s EXCEPT !.phase = "preparing"]) /\ Alike([s EXCEPT !.phase = "ready", !.ready = @ \cup {"privacy"}])
        BY <1>2 DEF Alike, WorkerType, ReadyFlags
    <2> QED BY <1>4, <1>5, <1>6, <2>1, <2>2, SelfAlike
<1>9. CASE HandleWhitelist
    <2>1. \/ SetFlags(s)
          \/ Request(s, <<"wl_add", s.profile.peer>>)
          \/ Request([s EXCEPT !.ready = @ \cup {"whitelist"}], Op("peer_privacy"))
          \/ SetFlags([s EXCEPT !.ready = @ \cup {"whitelist", "privacy"}, !.phase = "ready"])
        <3>1. Msg.ok \in BOOLEAN /\ Msg.type \in {"WHITELIST_CLEAR", "WHITELIST_ADD"} /\ s.pairing \in BOOLEAN
            BY <1>2, <1>9 DEF HandleWhitelist, TakeCallback, Take, Msg, Messages, WorkerType
        <3> QED BY <1>9, <3>1 DEF HandleWhitelist
    <2>2. /\ Alike([s EXCEPT !.ready = @ \cup {"whitelist"}])
          /\ Alike([s EXCEPT !.ready = @ \cup {"whitelist", "privacy"}, !.phase = "ready"])
        BY <1>2 DEF Alike, WorkerType, ReadyFlags
    <2>3. <<"wl_add", s.profile.peer>>[1] # "remove_bond"
        OBVIOUS
    <2> QED BY <1>4, <1>5, <1>6, <2>1, <2>2, <2>3, SelfAlike
<1>10. CASE HandlePeerPrivacy
    <2>1. Request([s EXCEPT !.phase = "enabling"], Op("privacy_on")) \/ SetFlags(s)
        BY <1>10 DEF HandlePeerPrivacy
    <2>2. Alike([s EXCEPT !.phase = "enabling"])
        BY <1>2 DEF Alike, WorkerType
    <2> QED BY <1>4, <1>5, <1>6, <2>1, <2>2, SelfAlike
<1>11. CASE HandleAdvStarted
    <2>1. s' = Clear(s, {"start"}) \/ s' = s
        BY <1>11 DEF HandleAdvStarted, Advertised
    <2>2. Alike(Clear(s, {"start"}))
        BY <1>2, ClearType DEF Alike, Clear, WorkerType
    <2>3. Alike(s')
        BY <2>1, <2>2, SelfAlike
    <2>4. Done("after") /\ RemovalKept
        BY <1>11 DEF HandleAdvStarted, RemovalKept, Removing
    <2> QED BY <1>2, <1>3, <2>3, <2>4, DoneBond
<1> QED BY <1>7, <1>8, <1>9, <1>10, <1>11

LEMMA PostPeerEvents ==
    ASSUME TypeOK, NEW s1, s1.session = s.session, NEW peer, peer # NoPeer => s.profile.legacy = FALSE,
           PostPeer(s1, peer)
    PROVE  EventsKept
<1> DEFINE e == [session |-> s1.session, peer |-> peer]
<1>1. evtq \in Seq(Events) /\ Len(evtq) \in Nat
    BY ProfileFacts
<1>2. CASE evtq' = evtq
    BY <1>2 DEF EventsKept
<1>3. CASE evtq' = Append(evtq, e)
    <2>1. e.session = s.session /\ e.peer = peer
        OBVIOUS
    <2> HIDE DEF e
    <2>2. \A i \in 1..Len(evtq') : (i \in 1..Len(evtq) /\ evtq'[i] = evtq[i]) \/ evtq'[i] = e
        BY <1>1, <1>3
    <2> QED BY <2>1, <2>2 DEF EventsKept
<1> QED BY <1>2, <1>3 DEF PostPeer

\* a new peer is only ever reported for a profile with a bond database of its own
LEMMA HandleAuthOkBond ==
    ASSUME TypeOK, LinkInv, BondInv, HandleAuthOk
    PROVE  BondInv'
<1>1. TakeCallback({"AUTH"})
    BY DEF HandleAuthOk
<1>2. /\ Shrinks /\ s \in WorkerType /\ Msg \in Messages /\ Running /\ Queued(1, "AUTH") /\ Len(queue) > 0
      /\ work.pc \in Unwaiting /\ "after" \in Calm
    <2>1. /\ Shrinks /\ s \in WorkerType /\ Msg \in Messages /\ Running /\ Msg.type \in {"AUTH"}
          /\ Queued(1, Msg.type) /\ "after" \in Calm
        BY <1>1, CallbackTaken
    <2>2. Take({"AUTH"})
        BY <1>1 DEF TakeCallback
    <2>3. Len(queue) > 0 /\ work.pc \in Unwaiting
        BY <2>2, TakeShrinks DEF Take, Unwaiting, Posts
    <2>4. Queued(1, "AUTH")
        BY <2>1
    <2> QED BY <2>1, <2>3, <2>4
<1>3. ui' = ui /\ ctl' = ctl /\ RemovalKept
    BY DEF HandleAuthOk, RemovalKept, Removing
<1> DEFINE peered    == [s EXCEPT !.encrypted = TRUE, !.profile.peer = Msg.peer]
           encrypted == [s EXCEPT !.encrypted = TRUE]
<1>4. \/ BeginStop(s, snapshot, "fail", "after", Msg) /\ evtq' = evtq /\ nvm' = nvm
      \/ /\ s.pairing = TRUE /\ s' = AwaitingSave(peered) /\ PostPeer(s, Msg.peer)
         /\ Done("after") /\ nvm' = nvm
      \/ ReadyIfSubscribed(encrypted, "after", Msg) /\ evtq' = evtq
    <2>1. s.pairing \in BOOLEAN
        BY <1>2 DEF WorkerType
    <2> QED BY <2>1 DEF HandleAuthOk
<1>5. CASE BeginStop(s, snapshot, "fail", "after", Msg) /\ evtq' = evtq /\ nvm' = nvm
    <2>1. SameSaved
        BY <1>5 DEF SameSaved
    <2> QED BY <1>2, <1>3, <1>5, <2>1, SelfAlike, StopsBond
<1>6. CASE ReadyIfSubscribed(encrypted, "after", Msg) /\ evtq' = evtq
    <2>1. Alike(encrypted)
        BY <1>2 DEF Alike, WorkerType
    <2> HIDE DEF encrypted
    <2> QED BY <1>2, <1>3, <1>6, <2>1, ReadyIfSubscribedBond
<1>7. CASE /\ s.pairing = TRUE /\ s' = AwaitingSave(peered) /\ PostPeer(s, Msg.peer)
           /\ Done("after") /\ nvm' = nvm
    <2>1. "hid" \in s.layers
        <3>1. 1 \in 1..Len(queue)
            BY <1>2, QueueFacts
        <3> QED BY <1>2, <3>1 DEF LinkInv, Served, NeedsHid
    <2>2. s.profile.legacy = FALSE
        BY <1>2, <1>7, <2>1 DEF BondInv, Paired
    <2> DEFINE found == [s.profile EXCEPT !.peer = Msg.peer]
    <2>3. found \in Remotes /\ found.id = s.profile.id /\ found.legacy = s.profile.legacy
        <3>1. Msg.peer \in Peers /\ s.profile \in Remotes
            BY <1>2 DEF Messages, WorkerType
        <3> QED BY <3>1 DEF Remotes
    <2>4. peered = [s EXCEPT !.encrypted = TRUE, !.profile = found]
        BY <1>2 DEF WorkerType
    <2> HIDE DEF found, peered
    <2>5. /\ peered \in WorkerType /\ peered.session = s.session /\ peered.profile = found
        BY <1>2, <2>3, <2>4 DEF WorkerType
    <2>6. s' \in WorkerType /\ s'.session = s.session /\ s'.profile = found
        <3>1. s' \in WorkerType
            BY <1>7, <2>5, AwaitingSaveType
        <3>2. s'.session = peered.session /\ s'.profile = peered.profile
            BY <1>7, <2>5 DEF AwaitingSave, Arm, WorkerType
        <3> QED BY <2>5, <3>1, <3>2
    <2>7. Renamed(s')
        BY <2>2, <2>3, <2>6 DEF Renamed
    <2>8. Paired'
        BY <2>2, <2>3, <2>6 DEF Paired
    <2>9. EventsKept
        BY <1>7, <2>2, PostPeerEvents
    <2>10. work'.pc = "after"
        BY <1>7 DEF Done, TypeOK, WorkType
    <2>11. HeldKept /\ Opened'
        BY <1>2, <2>10, HeldShrinks
    <2>12. Decided'
        BY <1>2, <1>3, NoRemoval DEF BondInv, RemovalKept, Decided
    <2>13. SameSaved
        BY <1>7 DEF SameSaved
    <2> QED BY <1>3, <2>7, <2>8, <2>9, <2>11, <2>12, <2>13, WorkerBond
<1> QED BY <1>4, <1>5, <1>6, <1>7

LEMMA LinkedBond ==
    ASSUME TypeOK, LinkInv, BondInv,
           HandleConnected \/ HandleAuthFailed \/ HandleDisconnected \/ HandleWrite \/ HandleSuspend
    PROVE  BondInv'
<1>1. PICK types : TakeCallback(types)
    BY DEF HandleConnected, HandleAuthFailed, HandleDisconnected, HandleWrite, HandleSuspend
<1>2. /\ Shrinks /\ s \in WorkerType /\ Msg \in Messages
      /\ work.pc \in Unwaiting /\ "after" \in Calm
    BY <1>1, CallbackTaken DEF TakeCallback, Take, Unwaiting, Posts
<1>3. ui' = ui /\ evtq' = evtq /\ RemovalKept /\ ctl' = ctl
    BY DEF HandleConnected, HandleAuthFailed, HandleDisconnected, HandleWrite, HandleSuspend,
           Outside, UiVars, RemovalKept, Removing
<1>4. SameSaved
    BY DEF HandleConnected, HandleAuthFailed, HandleDisconnected, HandleWrite, HandleSuspend,
           Outside, SameSaved, ReadyIfSubscribed, TypeOK, Durable
<1>5. ASSUME NEW s1, Alike(s1), NEW k, k # "open", NEW post, BeginStop(s1, snapshot, k, post, Msg)
      PROVE  BondInv'
    BY <1>2, <1>3, <1>4, <1>5, StopsBond
<1>6. ASSUME Alike(s'), Done("after")
      PROVE  BondInv'
    BY <1>2, <1>3, <1>4, <1>6, DoneBond
<1>7. ASSUME NEW s1, Alike(s1), ReadyIfSubscribed(s1, "after", Msg)
      PROVE  BondInv'
    BY <1>2, <1>3, <1>7, ReadyIfSubscribedBond
<1>8. CASE HandleConnected
    <2> DEFINE armed == Arm(s, "connect")
    <2>1. Alike(armed)
        BY <1>2, ArmType, ArmSets DEF Alike, Deadlines
    <2>2. s' = [armed EXCEPT !.connected = TRUE, !.advertising = FALSE] \/ s' = s
        BY <1>8 DEF HandleConnected
    <2> HIDE DEF armed
    <2>3. Alike(s')
        BY <2>1, <2>2, SelfAlike DEF Alike, WorkerType
    <2> QED BY <1>6, <1>8, <2>3 DEF HandleConnected
<1>9. CASE HandleAuthFailed
    <2>1. CASE /\ s' = [s EXCEPT !.encrypted = FALSE, !.subscribed = FALSE]
               /\ work' = [pc |-> "disconnect", k |-> "auth_retry", post |-> "after",
                           msg |-> [Msg EXCEPT !.ok = TRUE], ok |-> TRUE]
        <3>1. Alike(s')
            BY <1>2, <2>1 DEF Alike, WorkerType
        <3>2. work'.k = "auth_retry"
            BY <2>1
        <3> QED BY <1>2, <1>3, <1>4, <3>1, <3>2, PlainBond
    <2> QED BY <1>5, <1>9, <2>1, SelfAlike DEF HandleAuthFailed
<1>10. CASE HandleDisconnected
    <2> DEFINE cleared == Clear(Unlinked(s), {"connect"})
               lost    == [cleared EXCEPT !.suspended = FALSE]
    <2>1. \/ s' = s /\ Done("after")
          \/ BeginStop(lost, snapshot, "restart", "after", Msg)
          \/ s' = lost /\ Done("after")
        BY <1>10 DEF HandleDisconnected
    <2>2. cleared \in WorkerType
        BY <1>2, UnlinkedType, ClearType
    <2>3. Alike(cleared)
        BY <1>2, <2>2 DEF Alike, Clear, Unlinked, WorkerType
    <2> HIDE DEF cleared
    <2>4. Alike(lost)
        BY <2>3 DEF Alike, WorkerType
    <2> HIDE DEF lost
    <2> QED BY <1>5, <1>6, <2>1, <2>4, SelfAlike DEF Alike
<1>11. CASE HandleWrite \/ HandleSuspend
    <2>1. \/ ReadyIfSubscribed(s, "after", Msg)
          \/ ReadyIfSubscribed([s EXCEPT !.suspended = Msg.flag], "after", Msg)
          \/ BeginStop(s, snapshot, "release", "after", Msg)
        BY <1>11 DEF HandleWrite, HandleSuspend
    <2>2. Alike([s EXCEPT !.suspended = Msg.flag])
        BY <1>2 DEF Alike, WorkerType, Messages
    <2> QED BY <1>5, <1>7, <2>1, <2>2, SelfAlike
<1> QED BY <1>8, <1>9, <1>10, <1>11

LEMMA CallbackHandlersBond ==
    ASSUME TypeOK, LinkInv, BondInv, CallbackHandlers
    PROVE  BondInv'
BY SetupBond, HandleAuthOkBond, LinkedBond DEF CallbackHandlers

-----------------------------------------------------------------------------
(* The end of an iteration                                                   *)

LEMMA TailBond ==
    ASSUME TypeOK, BondInv,
           AfterCallback \/ Advertise \/ Poll \/ TailClose \/ TailExpired \/ TailDone
    PROVE  BondInv'
<1>1. s \in WorkerType /\ Shrinks /\ work.pc \in Unwaiting
    <2>1. queue' = queue /\ work.pc \in Unwaiting
        BY DEF AfterCallback, Advertise, Poll, TailClose, TailExpired, TailDone, Unwaiting, Posts
    <2> QED BY <2>1, SameShrinks DEF TypeOK
<1>2. ui' = ui /\ evtq' = evtq /\ SameSaved
    BY DEF AfterCallback, Advertise, Poll, TailClose, TailExpired, TailDone, Outside, UiVars, SameSaved
<1>3. RemovalKept
    <2>1. AdvertisingOp(s)[1] # "remove_bond"
        BY DEF AdvertisingOp, Op
    <2> QED
        BY <2>1 DEF AfterCallback, Advertise, Poll, TailClose, TailExpired, TailDone, RemovalKept, Removing,
           TypeOK, CtlType
<1>4. ASSUME NEW k, k # "open", NEW post, NEW m, BeginStop(s, snapshot, k, post, m)
      PROVE  BondInv'
    BY <1>1, <1>2, <1>3, <1>4, SelfAlike, StopsBond
<1>5. ASSUME Alike(s'), work'.pc \in Calm
      PROVE  BondInv'
    BY <1>1, <1>2, <1>3, <1>5, PlainBond
<1>6. CASE AfterCallback \/ Poll \/ TailDone
    <2>1. \/ BeginStop(s, snapshot, "fail", "tail", work.msg)
          \/ s' = s /\ work'.pc \in {"tail", "idle"}
        BY <1>6 DEF AfterCallback, Poll, TailDone, Goto, TypeOK, WorkType
    <2> QED BY <1>4, <1>5, <2>1, SelfAlike DEF Alike, Calm, Posts
<1>7. CASE Advertise
    <2>1. CASE BeginStop(s, snapshot, "fail", "tail", work.msg)
        BY <1>4, <2>1
    <2>2. CASE /\ s' = [s EXCEPT !.advertising = TRUE,
                                  !.deadlines = IF s.pairing THEN @ \cup {"pair"} ELSE @]
               /\ Goto("tail")
        <3>1. Alike(s')
            BY <1>1, <2>2 DEF Alike, WorkerType, Deadlines
        <3>2. work'.pc \in Calm
            BY <2>2 DEF Goto, TypeOK, WorkType, Calm, Posts
        <3> QED BY <1>5, <3>1, <3>2
    <2> QED BY <1>7, <2>1, <2>2 DEF Advertise
<1>8. CASE TailClose \/ TailExpired
    BY <1>4, <1>8 DEF TailClose, TailExpired
<1> QED BY <1>6, <1>7, <1>8

-----------------------------------------------------------------------------
(* Stopping                                                                  *)

StopPlaces == {"stop_adv", "adv_wait", "disconnect", "link_wait", "teardown", "host_off"}

LEMMA StopShape ==
    ASSUME TypeOK, StopSteps
    PROVE  /\ work.pc \in StopPlaces /\ work'.pc \in StopPlaces \cup {"resume"}
           /\ work'.k = work.k /\ work'.msg = work.msg
           /\ s'.session = s.session /\ s'.profile = s.profile /\ s'.pairing = s.pairing /\ s'.store = s.store
           /\ work.pc \in {"disconnect", "link_wait"} => s'.layers = s.layers
           /\ work.pc # "host_off" /\ HostOn(s) => HostOn(s')
<1>1. s \in WorkerType /\ work \in WorkType
    BY DEF TypeOK
<1>2. CASE StopAdvertisingSkip \/ StopAdvertisingWait
    <2>1. s' = [s EXCEPT !.advertising = FALSE]
        BY <1>2 DEF StopAdvertisingSkip, StopAdvertisingWait
    <2>2. work'.k = work.k /\ work'.msg = work.msg /\ work'.pc = "disconnect" /\ work.pc \in {"stop_adv", "adv_wait"}
        BY <1>1, <1>2 DEF StopAdvertisingSkip, StopAdvertisingWait, Goto, WorkType
    <2> QED BY <1>1, <2>1, <2>2 DEF StopPlaces, HostOn, WorkerType
<1>3. CASE StopAdvertisingRequest \/ DisconnectLink
    <2>1. s' = s
        BY <1>3 DEF StopAdvertisingRequest, DisconnectLink
    <2>2. /\ work'.k = work.k /\ work'.msg = work.msg /\ work'.pc \in {"adv_wait", "link_wait"}
          /\ work.pc \in {"stop_adv", "disconnect"}
        BY <1>1, <1>3 DEF StopAdvertisingRequest, DisconnectLink, Goto, WorkType
    <2> QED BY <1>1, <2>1, <2>2 DEF StopPlaces, HostOn
<1>4. CASE DisconnectDone \/ DisconnectTimeout
    <2>1. s' = [s EXCEPT !.connected = FALSE, !.encrypted = FALSE, !.subscribed = FALSE]
        BY <1>4 DEF DisconnectDone, DisconnectTimeout, Unlinked
    <2>2. work'.k = work.k /\ work'.msg = work.msg /\ work'.pc \in {"resume", "teardown"} /\ work.pc = "link_wait"
        BY <1>1, <1>4 DEF DisconnectDone, DisconnectTimeout, Goto, WorkType
    <2> QED BY <1>1, <2>1, <2>2 DEF StopPlaces, HostOn, WorkerType
<1>5. CASE TeardownHid
    <2>1. s' = [s EXCEPT !.layers = @ \ {"hid"}] \/ s' = s
        BY <1>5 DEF TeardownHid
    <2>2. work'.k = work.k /\ work'.msg = work.msg /\ work'.pc = "host_off" /\ work.pc = "teardown"
        BY <1>1, <1>5 DEF TeardownHid, Goto, WorkType
    <2> QED BY <1>1, <2>1, <2>2 DEF StopPlaces, HostOn, WorkerType
<1>6. CASE TeardownHost
    <2>1. PICK left : s' = [s EXCEPT !.layers = left \cup (@ \cap {"hid"}), !.ready = {}, !.phase = "resetting"]
        BY <1>6 DEF TeardownHost
    <2>2. work'.k = work.k /\ work'.msg = work.msg /\ work'.pc = "resume" /\ work.pc = "host_off"
        BY <1>1, <1>6 DEF TeardownHost, WorkType
    <2>3. s'.session = s.session /\ s'.profile = s.profile /\ s'.pairing = s.pairing /\ s'.store = s.store
        BY <1>1, <2>1 DEF WorkerType
    <2> QED BY <2>2, <2>3 DEF StopPlaces
<1> QED BY <1>2, <1>3, <1>4, <1>5, <1>6 DEF StopSteps

\* a removal still pending is dropped with the host
LEMMA StopRemoval ==
    ASSUME TypeOK, StopSteps
    PROVE  /\ RemovalKept
           /\ work.pc = "host_off" /\ HostOn(s) /\ ~HostOn(s') => \A op : ~Removing(op)'
<1>1. s \in WorkerType /\ ctl \in CtlType
    BY DEF TypeOK
<1>2. CASE TeardownHost
    <2>1. PICK left : /\ s' = [s EXCEPT !.layers = left \cup (@ \cap {"hid"}), !.ready = {}, !.phase = "resetting"]
                      /\ IF HostOn(s) /\ "host_on" \notin left THEN ctl' = [ctl EXCEPT !.ops = {}, !.adv = "off"]
                                                               ELSE ctl' = ctl
        BY <1>2 DEF TeardownHost
    <2>2. HostOn(s') <=> "host_on" \in left
        BY <1>1, <2>1 DEF WorkerType, HostOn
    <2>3. HostOn(s) /\ ~HostOn(s') => ctl'.ops = {}
        BY <1>1, <2>1, <2>2 DEF CtlType
    <2>4. ctl'.ops \subseteq ctl.ops
        BY <1>1, <2>1 DEF CtlType
    <2> QED BY <2>3, <2>4 DEF RemovalKept, Removing
<1>3. CASE ~TeardownHost
    <2>1. work.pc # "host_off"
        BY <1>3 DEF StopSteps, StopAdvertisingSkip, StopAdvertisingRequest, StopAdvertisingWait, DisconnectLink,
           DisconnectDone, DisconnectTimeout, TeardownHid
    <2>2. ctl'.ops \subseteq ctl.ops \cup {Op("adv_stop"), Op("disconnect")}
        <3>1. CASE StopAdvertisingRequest \/ StopAdvertisingWait
            <4>1. \/ ctl' = [ctl EXCEPT !.ops = @ \cup {Op("adv_stop")}, !.advStopped = FALSE]
                  \/ ctl' = [ctl EXCEPT !.advStopped = FALSE]
                BY <3>1 DEF StopAdvertisingRequest, StopAdvertisingWait
            <4>2. ctl'.ops = ctl.ops \/ ctl'.ops = ctl.ops \cup {Op("adv_stop")}
                BY <1>1, <4>1 DEF CtlType
            <4> QED BY <4>2
        <3>2. CASE DisconnectLink
            <4>1. ctl'.ops = ctl.ops \/ ctl'.ops = ctl.ops \cup {Op("disconnect")}
                BY <1>1, <3>2 DEF DisconnectLink, CtlType
            <4> QED BY <4>1
        <3>3. CASE TeardownHid
            <4>1. ctl'.ops \subseteq ctl.ops
                BY <1>1, <3>3 DEF TeardownHid, CtlType
            <4> QED BY <4>1
        <3>4. CASE StopAdvertisingSkip \/ DisconnectDone \/ DisconnectTimeout
            BY <3>4 DEF StopAdvertisingSkip, DisconnectDone, DisconnectTimeout
        <3> QED BY <1>3, <3>1, <3>2, <3>3, <3>4 DEF StopSteps
    <2>3. RemovalKept
        BY <2>2 DEF RemovalKept, Removing, Op
    <2> QED BY <2>1, <2>3
<1> QED BY <1>2, <1>3

LEMMA StopStepsBond ==
    ASSUME TypeOK, LinkInv, LinkInv', BondInv, StopSteps
    PROVE  BondInv'
<1>1. /\ work.pc \in StopPlaces /\ work'.pc \in StopPlaces \cup {"resume"}
      /\ work'.k = work.k /\ work'.msg = work.msg
      /\ s'.session = s.session /\ s'.profile = s.profile /\ s'.pairing = s.pairing /\ s'.store = s.store
      /\ work.pc \in {"disconnect", "link_wait"} => s'.layers = s.layers
      /\ work.pc # "host_off" /\ HostOn(s) => HostOn(s')
    BY StopShape
<1>2. queue' = queue /\ ui' = ui /\ evtq' = evtq /\ SameSaved
    BY DEF StopSteps, StopAdvertisingSkip, StopAdvertisingRequest, StopAdvertisingWait, DisconnectLink,
           DisconnectDone, DisconnectTimeout, TeardownHid, TeardownHost, Outside, UiVars, SameSaved
<1>3. RemovalKept /\ (work.pc = "host_off" /\ HostOn(s) /\ ~HostOn(s') => \A op : ~Removing(op)')
    BY StopRemoval
<1>4. Winding <=> work.k # "auth_retry"
    BY <1>1 DEF Winding, StopPlaces
<1>5. HeldKept /\ Opened'
    <2>1. Opening' => Opening /\ work'.msg = work.msg
        BY <1>1, <1>4 DEF Opening
    <2>2. Opened'
        BY <2>1 DEF BondInv, Opened
    <2>3. ASSUME NEW m, m \in Held' PROVE m \in Held
        BY <1>2, <2>1, <2>3 DEF Held
    <2> QED BY <2>2, <2>3 DEF HeldKept
<1>6. work.k # "auth_retry" => ~Running'
    <2>1. work.k # "auth_retry" /\ work'.pc = "resume" => ~HostOn(s')
        BY <1>1 DEF LinkInv, Stamped
    <2> QED BY <1>1, <2>1 DEF Running, Winding, StopPlaces
<1>7. Paired'
    <2>1. CASE work.k = "auth_retry"
        <3>1. work.pc \in {"disconnect", "link_wait"}
            BY <1>1, <2>1 DEF LinkInv, Wound, StopPlaces
        <3>2. s'.layers = s.layers /\ (Running' => Running)
            BY <1>1, <1>4, <2>1, <3>1 DEF Running, HostOn
        <3> QED BY <1>1, <3>2 DEF BondInv, Paired
    <2> QED BY <1>6, <2>1 DEF Paired
<1>8. Decided'
    <2> SUFFICES ASSUME NEW op, Removing(op)'
                 PROVE  /\ Winding' /\ HostOn(s')
                        /\ op[2] = s'.profile.peer /\ s'.store = StoreOf(s'.profile)
                        /\ Unused'
        BY DEF Decided
    <2>1. Removing(op)
        BY <1>3 DEF RemovalKept
    <2>2. Winding /\ HostOn(s) /\ op[2] = s.profile.peer /\ s.store = StoreOf(s.profile) /\ Unused
        BY <1>1, <2>1 DEF BondInv, Decided, StopPlaces
    <2>3. HostOn(s')
        BY <1>1, <1>3, <2>2
    <2>4. Winding'
        BY <1>4, <1>6, <2>2, <2>3 DEF Running
    <2>5. Unused'
        BY <1>1, <1>2, <2>2 DEF Unused, SameSaved
    <2> QED BY <1>1, <2>2, <2>3, <2>4, <2>5
<1>9. EventsKept /\ Renamed(s')
    BY <1>1, <1>2 DEF EventsKept, Renamed
<1> QED BY <1>2, <1>5, <1>7, <1>8, <1>9, WorkerBond

-----------------------------------------------------------------------------
(* What follows a stop                                                       *)

LEMMA MovesBond ==
    ASSUME TypeOK, BondInv, work.pc \in Unwaiting, queue' = queue, work'.k # "open" \/ work'.pc \in Calm,
           Renamed(s'), Paired', EventsKept, ui' = ui, SameSaved, RemovalKept
    PROVE  BondInv'
<1>1. HeldKept /\ Opened'
    BY SameShrinks, HeldShrinks
<1>2. Decided'
    BY NoRemoval DEF BondInv, RemovalKept, Decided
<1> QED BY <1>1, <1>2, WorkerBond

\* whatever stops again leaves the copy it had
LEMMA StopCopies ==
    ASSUME NEW s1 \in WorkerType, NEW s2, DOMAIN s2 = DOMAIN s1, s2.session = s1.session, s2.profile = s1.profile,
           NEW shown, NEW k, NEW post, NEW m, BeginStop(s2, shown, k, post, m)
    PROVE  /\ s'.session = s1.session /\ s'.profile = s1.profile
           /\ work'.pc = "stop_adv" /\ work'.k = k
<1>1. s' = [s2 EXCEPT !.deadlines = {}, !.due = {}, !.awaiting_save = FALSE, !.forgetting = FALSE]
    BY DEF BeginStop, StoppedFlags
<1>2. s'.session = s2.session /\ s'.profile = s2.profile
    BY <1>1 DEF WorkerType
<1> QED BY <1>2 DEF BeginStop

LEMMA StackUpCopies ==
    ASSUME NEW s1 \in WorkerType
    PROVE  /\ StackUp(s1) \in WorkerType /\ DOMAIN StackUp(s1) = DOMAIN s1
           /\ StackUp(s1).session = s1.session /\ StackUp(s1).profile = s1.profile
           /\ StackUp(s1).layers = StackLayers /\ StackUp(s1).store = StoreOf(s1.profile)
<1>1. StackUp(s1) \in WorkerType
    BY StackUpType
<1> QED BY <1>1 DEF StackUp, WorkerType

LEMMA StartFailsCopies ==
    ASSUME NEW s1 \in WorkerType, NEW post, NEW m, StartStackFails(s1, post, m)
    PROVE  /\ s'.session = s1.session /\ s'.profile = s1.profile
           /\ work'.pc = "stop_adv" /\ work'.k = "fail" /\ ctl' = ctl
<1>1. CASE BeginStop(s1, snapshot, "fail", post, m) /\ ctl' = ctl
    BY <1>1, StopCopies
<1>2. ASSUME NEW left, ctl' = ctl,
             BeginStop([StackUp(s1) EXCEPT !.layers = left \cup (s1.layers \cap {"controller_init"})],
                       [session |-> s1.session, state |-> "STARTING"], "fail", post, m)
      PROVE  /\ s'.session = s1.session /\ s'.profile = s1.profile
             /\ work'.pc = "stop_adv" /\ work'.k = "fail" /\ ctl' = ctl
    <2> DEFINE up   == StackUp(s1)
               part == [up EXCEPT !.layers = left \cup (s1.layers \cap {"controller_init"})]
    <2>1. up \in WorkerType /\ up.session = s1.session /\ up.profile = s1.profile
        BY StackUpCopies
    <2>2. BeginStop(part, [session |-> s1.session, state |-> "STARTING"], "fail", post, m)
        BY <1>2
    <2> HIDE DEF up
    <2>3. DOMAIN part = DOMAIN up
        OBVIOUS
    <2>4. part.session = up.session /\ part.profile = up.profile
        BY <2>1 DEF WorkerType
    <2> HIDE DEF part
    <2> QED BY <1>2, <2>1, <2>2, <2>3, <2>4, StopCopies
<1> QED BY <1>1, <1>2 DEF StartStackFails

LEMMA RestartBond ==
    ASSUME TypeOK, BondInv, work.pc = "resume", queue' = queue, ui' = ui, evtq' = evtq, SameSaved,
           NEW s1 \in WorkerType, Renamed(s1), RestartWith(s1)
    PROVE  BondInv'
<1>1. work.pc \in Unwaiting /\ work.post \in Calm /\ EventsKept
    BY DEF Unwaiting, EventsKept, TypeOK, WorkType, Calm
<1>2. ASSUME s'.session = s1.session, s'.profile = s1.profile, RemovalKept, Paired',
             work'.k # "open" \/ work'.pc \in Calm
      PROVE  BondInv'
    <2>1. Renamed(s')
        BY <1>2 DEF Renamed
    <2> QED BY <1>1, <1>2, <2>1, MovesBond
<1>3. ASSUME s'.session = s1.session, s'.profile = s1.profile, work'.pc = "stop_adv", work'.k = "fail", ctl' = ctl
      PROVE  BondInv'
    <2>1. Paired' /\ RemovalKept
        BY <1>3 DEF Paired, Running, Winding, RemovalKept, Removing
    <2> QED BY <1>2, <1>3, <2>1
<1> DEFINE up == StackUp(s1)
<1>4. up \in WorkerType /\ DOMAIN up = DOMAIN s1 /\ up.session = s1.session /\ up.profile = s1.profile
    BY StackUpCopies
<1>5. CASE StartStackFails(s1, work.post, work.msg)
    BY <1>3, <1>5, StartFailsCopies
<1>6. CASE BeginStop(up, snapshot, "fail", work.post, work.msg) /\ ctl' = ctl
    <2> HIDE DEF up
    <2> QED BY <1>3, <1>4, <1>6, StopCopies
<1>7. CASE BeginStop(s1, snapshot, "fail", work.post, work.msg) /\ ctl' = ctl
    BY <1>3, <1>7, StopCopies
<1>8. CASE /\ s' = [up EXCEPT !.layers = Layers,
                              !.pairing = s1.profile.peer = NoPeer,
                              !.saved = s1.profile.peer # NoPeer,
                              !.awaiting_save = FALSE, !.forgetting = FALSE, !.suspended = FALSE,
                              !.phase = "resetting"]
           /\ ctl' = [ctl EXCEPT !.ops = @ \cup {Op(g) : g \in Gates} \cup {Op("privacy_off")}]
           /\ work' = [work EXCEPT !.pc = work.post, !.msg = work.msg]
    <2> HIDE DEF up
    <2>1. s'.session = s1.session /\ s'.profile = s1.profile /\ s'.pairing = (s1.profile.peer = NoPeer)
        BY <1>4, <1>8 DEF WorkerType
    <2>2. Truthful(s1.profile, nvm.legacy)
        BY RenamedFacts DEF BondInv
    <2>3. Paired'
        BY <2>1, <2>2 DEF Paired, Truthful
    <2>4. work'.pc \in Calm
        BY <1>1, <1>8 DEF TypeOK, WorkType
    <2>5. RemovalKept
        <3>1. ctl'.ops = ctl.ops \cup {Op(g) : g \in Gates} \cup {Op("privacy_off")}
            BY <1>8 DEF TypeOK, CtlType
        <3>2. "remove_bond" \notin Gates
            BY ConstantsAssumption DEF ReadyFlags
        <3> QED BY <3>1, <3>2 DEF RemovalKept, Removing, Op
    <2> QED BY <1>2, <2>1, <2>3, <2>4, <2>5
<1>9. \/ StartStackFails(s1, work.post, work.msg)
      \/ BeginStop(up, snapshot, "fail", work.post, work.msg) /\ ctl' = ctl
      \/ BeginStop(s1, snapshot, "fail", work.post, work.msg) /\ ctl' = ctl
      \/ /\ s' = [up EXCEPT !.layers = Layers,
                            !.pairing = s1.profile.peer = NoPeer,
                            !.saved = s1.profile.peer # NoPeer,
                            !.awaiting_save = FALSE, !.forgetting = FALSE, !.suspended = FALSE,
                            !.phase = "resetting"]
         /\ ctl' = [ctl EXCEPT !.ops = @ \cup {Op(g) : g \in Gates} \cup {Op("privacy_off")}]
         /\ work' = [work EXCEPT !.pc = work.post, !.msg = work.msg]
    BY DEF RestartWith, StartRuntime
<1> QED BY <1>5, <1>6, <1>7, <1>8, <1>9

LEMMA ForgetBondsCopies ==
    ASSUME TypeOK, NEW s1 \in WorkerType, s1.session = s.session, ForgetBonds(s1)
    PROVE  /\ s'.session = s1.session /\ s'.profile = s1.profile
           /\ EventsKept /\ SameSaved
           /\ \/ work'.pc \in Calm /\ s'.layers = s1.layers /\ s'.pairing = s1.pairing
              \/ work'.pc = "stop_adv" /\ work'.k = "fail"
<1>1. CASE /\ s' = AwaitingSave([Clear(s1, {"start"}) EXCEPT !.forgetting = TRUE, !.pair_after = work.msg.flag])
           /\ nvm' = [nvm EXCEPT !.ccc[s1.profile.id] = "none"]
           /\ PostPeer(s1, NoPeer)
           /\ Goto(work.post)
    <2> DEFINE cleared == Clear(s1, {"start"})
               asked == [cleared EXCEPT !.forgetting = TRUE, !.pair_after = work.msg.flag]
               armed == Arm(asked, "save")
    <2>1. /\ cleared.session = s1.session /\ cleared.profile = s1.profile /\ cleared.layers = s1.layers
          /\ cleared.pairing = s1.pairing /\ cleared \in WorkerType
        BY ClearType DEF Clear, WorkerType
    <2>2. work.msg.flag \in BOOLEAN
        BY DEF TypeOK, WorkType, Messages
    <2> HIDE DEF cleared
    <2>3. /\ asked.session = s1.session /\ asked.profile = s1.profile /\ asked.layers = s1.layers
          /\ asked.pairing = s1.pairing /\ asked \in WorkerType
        BY <2>1, <2>2 DEF WorkerType
    <2>4. s' = [armed EXCEPT !.awaiting_save = TRUE]
        BY <1>1 DEF AwaitingSave, cleared
    <2> HIDE DEF asked
    <2>5. /\ armed.session = s1.session /\ armed.profile = s1.profile /\ armed.layers = s1.layers
          /\ armed.pairing = s1.pairing /\ armed \in WorkerType
        <3>1. "save" \in Deadlines /\ asked \in WorkerType
            BY <2>3 DEF Deadlines
        <3>2. /\ armed.session = asked.session /\ armed.profile = asked.profile /\ armed.layers = asked.layers
              /\ armed.pairing = asked.pairing
            BY <3>1, ArmSets
        <3>3. armed \in WorkerType
            BY <3>1, ArmType
        <3> QED BY <2>3, <3>2, <3>3
    <2> HIDE DEF armed
    <2>6. /\ s'.session = s1.session /\ s'.profile = s1.profile /\ s'.layers = s1.layers
          /\ s'.pairing = s1.pairing
        BY <2>4, <2>5 DEF WorkerType
    <2>7. work'.pc \in Calm
        BY <1>1 DEF Goto, TypeOK, WorkType, Calm
    <2>8. EventsKept
        BY <1>1, PostPeerEvents
    <2>9. SameSaved
        BY <1>1 DEF SameSaved, TypeOK, Durable
    <2> QED BY <2>6, <2>7, <2>8, <2>9
<1>2. CASE BeginStop(s1, snapshot, "fail", "idle", work.msg) /\ UNCHANGED <<nvm, evtq>>
    BY <1>2, StopCopies DEF EventsKept, SameSaved
<1> QED BY <1>1, <1>2 DEF ForgetBonds

\* the removal is asked for only when no other profile needs the bond
LEMMA FinishForgetBond ==
    ASSUME TypeOK, LinkInv, BondInv, FinishForget
    PROVE  BondInv'
<1>1. /\ s \in WorkerType /\ ctl \in CtlType /\ work.pc = "resume" /\ work.pc \in Unwaiting /\ Shrinks
      /\ queue' = queue /\ ui' = ui /\ work.post \in Posts
    BY SameShrinks DEF FinishForget, Resume, Unwaiting, TypeOK, WorkType
<1> DEFINE up == StackUp(s)
<1>2. /\ up \in WorkerType /\ DOMAIN up = DOMAIN s /\ up.session = s.session /\ up.profile = s.profile
      /\ up.layers = StackLayers /\ up.store = StoreOf(s.profile)
    BY <1>1, StackUpCopies
<1>3. \A op : ~Removing(op)
    BY <1>1, NoRemoval DEF BondInv
<1>4. ASSUME s'.session = s.session, s'.profile = s.profile
      PROVE  Renamed(s')
    BY <1>4 DEF Renamed
<1>5. CASE BeginStop(s, snapshot, "fail", work.post, work.msg) /\ UNCHANGED <<ctl, nvm, evtq>>
    <2>1. SameSaved /\ RemovalKept /\ evtq' = evtq
        BY <1>5 DEF SameSaved, RemovalKept, Removing
    <2> QED BY <1>1, <1>5, <2>1, SelfAlike, StopsBond
<1>6. CASE StartStackFails(s, work.post, work.msg) /\ UNCHANGED <<nvm, evtq>>
    <2>1. /\ s'.session = s.session /\ s'.profile = s.profile
          /\ work'.pc = "stop_adv" /\ work'.k = "fail" /\ ctl' = ctl
        BY <1>1, <1>6, StartFailsCopies
    <2>2. SameSaved /\ RemovalKept /\ EventsKept /\ Paired'
        BY <1>6, <2>1 DEF SameSaved, RemovalKept, Removing, EventsKept, Paired, Running, Winding
    <2> QED BY <1>1, <1>4, <2>1, <2>2, MovesBond
<1>7. CASE ForgetBonds(up) /\ ctl' = ctl
    <2> HIDE DEF up
    <2>1. /\ s'.session = s.session /\ s'.profile = s.profile /\ EventsKept /\ SameSaved
          /\ \/ work'.pc \in Calm /\ s'.layers = StackLayers
             \/ work'.pc = "stop_adv" /\ work'.k = "fail"
        BY <1>2, <1>7, ForgetBondsCopies
    <2>2. RemovalKept
        BY <1>7 DEF RemovalKept, Removing
    <2>3. Paired'
        BY <2>1 DEF Paired, Running, Winding, StackLayers
    <2> QED BY <1>1, <1>4, <2>1, <2>2, <2>3, MovesBond
<1>8. CASE /\ MustRemoveBond(s) /\ s' = up
           /\ ctl' = [ctl EXCEPT !.ops = @ \cup {<<"remove_bond", s.profile.peer>>}, !.bondRemoved = "no"]
           /\ Goto("bond_wait")
           /\ UNCHANGED <<nvm, evtq>>
    <2> HIDE DEF up
    <2>1. work'.pc = "bond_wait" /\ work'.k = work.k /\ "bond_wait" \in Calm
        BY <1>8 DEF Goto, TypeOK, WorkType, Calm
    <2>2. ctl'.ops = ctl.ops \cup {<<"remove_bond", s.profile.peer>>} /\ ctl'.bondRemoved = "no"
        BY <1>1, <1>8 DEF CtlType
    <2>3. s'.session = s.session /\ s'.profile = s.profile /\ s'.layers = StackLayers /\ s'.store = StoreOf(s.profile)
        BY <1>2, <1>8
    <2>4. SameSaved /\ EventsKept /\ nvm' = nvm
        BY <1>8 DEF SameSaved, EventsKept
    <2>5. HostOn(s') /\ Paired'
        BY <2>3 DEF HostOn, StackLayers, Paired
    <2>6. Unused'
        <3>1. ~UsedElsewhere(s)
            BY <1>8 DEF MustRemoveBond
        <3> QED BY <2>3, <2>4, <3>1 DEF Unused, UsedElsewhere
    <2>7. \A op : Removing(op)' => op = <<"remove_bond", s.profile.peer>>
        BY <1>3, <2>2 DEF Removing
    <2>8. \A op : Removing(op)' => op[2] = s'.profile.peer
        BY <2>3, <2>7
    <2>9. Decided'
        BY <2>1, <2>2, <2>3, <2>5, <2>6, <2>8 DEF Decided
    <2>10. HeldKept /\ Opened'
        BY <1>1, <2>1, HeldShrinks
    <2> QED BY <1>1, <1>4, <2>3, <2>4, <2>5, <2>9, <2>10, WorkerBond
<1> HIDE DEF up
<1>9. \/ BeginStop(s, snapshot, "fail", work.post, work.msg) /\ UNCHANGED <<ctl, nvm, evtq>>
      \/ StartStackFails(s, work.post, work.msg) /\ UNCHANGED <<nvm, evtq>>
      \/ ForgetBonds(up) /\ ctl' = ctl
      \/ /\ MustRemoveBond(s) /\ s' = up
         /\ ctl' = [ctl EXCEPT !.ops = @ \cup {<<"remove_bond", s.profile.peer>>}, !.bondRemoved = "no"]
         /\ Goto("bond_wait")
         /\ UNCHANGED <<nvm, evtq>>
    BY DEF FinishForget, up
<1> QED BY <1>5, <1>6, <1>7, <1>8, <1>9

LEMMA RemoveBondWaitBond ==
    ASSUME TypeOK, TypeOK', BondInv, RemoveBondWait
    PROVE  BondInv'
<1>1. /\ s \in WorkerType /\ s' \in WorkerType /\ ctl \in CtlType /\ work.pc = "bond_wait" /\ ~Winding
      /\ Shrinks /\ ui' = ui
    BY SameShrinks DEF RemoveBondWait, TypeOK, Winding
<1>2. ctl'.ops = ctl.ops
    BY <1>1 DEF RemoveBondWait, CtlType
<1>3. CASE ctl.bondRemoved = "ok" /\ ForgetBonds(s)
    <2>1. \A op : ~Removing(op)
        BY <1>1, <1>3 DEF BondInv, Decided
    <2>2. Decided'
        BY <1>2, <2>1 DEF Decided, Removing
    <2>3. /\ s'.session = s.session /\ s'.profile = s.profile /\ EventsKept /\ SameSaved
          /\ \/ work'.pc \in Calm /\ s'.layers = s.layers /\ s'.pairing = s.pairing
             \/ work'.pc = "stop_adv" /\ work'.k = "fail"
        BY <1>1, <1>3, ForgetBondsCopies
    <2>4. Paired'
        <3>1. CASE work'.pc = "stop_adv" /\ work'.k = "fail"
            BY <3>1 DEF Paired, Running, Winding
        <3>2. CASE s'.layers = s.layers /\ s'.pairing = s.pairing
            BY <1>1, <2>3, <3>2, AlikePaired DEF Alike, BondInv
        <3> QED BY <2>3, <3>1, <3>2
    <2>5. HeldKept /\ Opened'
        BY <1>1, <2>3, HeldShrinks
    <2>6. Renamed(s')
        BY <2>3 DEF Renamed
    <2> QED BY <1>1, <2>2, <2>3, <2>4, <2>5, <2>6, WorkerBond
<1>4. CASE BeginStop(s, snapshot, "fail", work.post, work.msg) /\ UNCHANGED <<nvm, evtq>>
    <2>1. Alike(s') /\ work'.k = "fail" /\ work'.pc = "stop_adv"
        BY <1>4, SelfAlike, StoppedAlike
    <2>2. s'.store = s.store
        BY <1>1, <1>4 DEF BeginStop, StoppedFlags, WorkerType
    <2>3. SameSaved /\ EventsKept
        BY <1>4 DEF SameSaved, EventsKept
    <2>4. Paired'
        BY <2>1 DEF Paired, Running, Winding
    <2>5. HeldKept /\ Opened'
        BY <1>1, <2>1, HeldShrinks
    <2>6. Renamed(s')
        BY <2>1 DEF Renamed, Alike
    <2>7. Decided'
        <3> SUFFICES ASSUME NEW op, Removing(op)'
                     PROVE  /\ Winding' /\ HostOn(s')
                            /\ op[2] = s'.profile.peer /\ s'.store = StoreOf(s'.profile)
                            /\ Unused'
            BY DEF Decided
        <3>1. Removing(op)
            BY <1>2 DEF Removing
        <3>2. HostOn(s) /\ op[2] = s.profile.peer /\ s.store = StoreOf(s.profile) /\ Unused
            BY <3>1 DEF BondInv, Decided
        <3>3. Winding' /\ HostOn(s')
            BY <2>1, <3>2 DEF Winding, HostOn, Alike
        <3>4. Unused'
            BY <2>1, <2>3, <3>2 DEF Unused, SameSaved, Alike
        <3> QED BY <2>1, <2>2, <3>2, <3>3, <3>4 DEF Alike
    <2> QED BY <1>1, <2>3, <2>4, <2>5, <2>6, <2>7, WorkerBond
<1> QED BY <1>3, <1>4 DEF RemoveBondWait

LEMMA FinishStepsBond ==
    ASSUME TypeOK, TypeOK', LinkInv, BondInv, FinishSteps
    PROVE  BondInv'
<1>1. CASE FinishForget \/ RemoveBondWait
    BY <1>1, FinishForgetBond, RemoveBondWaitBond
<1>2. CASE ~(FinishForget \/ RemoveBondWait)
    <2>1. /\ s \in WorkerType /\ work.msg \in Messages /\ work.pc = "resume" /\ work.pc \in Unwaiting
          /\ queue' = queue /\ Shrinks /\ ui' = ui /\ evtq' = evtq /\ work.post \in Calm
        BY <1>2, SameShrinks DEF FinishSteps, FinishFail, FinishTimeout, FinishUnpair, FinishAuthRetry, FinishClose,
           FinishOpen, FinishRestart, FinishRelease, Resume, Unwaiting, Outside, UiVars, TypeOK, WorkType, Calm
    <2>2. SameSaved
        BY <1>2 DEF FinishSteps, FinishFail, FinishTimeout, FinishUnpair, FinishAuthRetry, FinishClose,
           FinishOpen, FinishRestart, FinishRelease, Outside, SameSaved
    <2>3. ASSUME Alike(s'), Goto(work.post), ctl' = ctl
          PROVE  BondInv'
        <3>1. RemovalKept
            BY <2>3 DEF RemovalKept, Removing
        <3> QED BY <2>1, <2>2, <2>3, <3>1, DoneBond
    <2>4. CASE FinishFail \/ FinishTimeout \/ FinishUnpair \/ FinishAuthRetry
        BY <2>3, <2>4, SelfAlike DEF FinishFail, FinishTimeout, FinishUnpair, FinishAuthRetry, Alike
    <2>5. CASE FinishClose
        <3>1. s' = [s EXCEPT !.session = 0] /\ Goto(work.post) /\ ctl' = ctl
            BY <2>5 DEF FinishClose
        <3>2. /\ s'.session = 0 /\ s'.profile = s.profile /\ s'.layers = s.layers /\ s'.pairing = s.pairing
            BY <2>1, <3>1 DEF WorkerType
        <3>3. work'.pc \in Calm
            BY <2>1, <3>1 DEF Goto, TypeOK, WorkType
        <3>4. Paired'
            <4>1. Running' => Running
                BY <2>1, <3>2 DEF Running, Winding, HostOn
            <4> QED BY <3>2, <4>1 DEF BondInv, Paired
        <3>5. Renamed(s') /\ RemovalKept /\ EventsKept
            BY <2>1, <3>1, <3>2 DEF Renamed, RemovalKept, Removing, EventsKept
        <3> QED BY <2>1, <2>2, <3>3, <3>4, <3>5, MovesBond
    <2>6. CASE FinishOpen
        <3> DEFINE next == [s EXCEPT !.session = work.msg.session, !.profile = work.msg.remote]
        <3>1. RestartWith(next) /\ work.k = "open"
            BY <2>6 DEF FinishOpen, Resume
        <3>2. next \in WorkerType /\ next.session = work.msg.session /\ next.profile = work.msg.remote
            <4>1. work.msg.session \in Nat /\ work.msg.remote \in Remotes
                BY <2>1 DEF Messages
            <4> QED BY <2>1, <4>1 DEF WorkerType
        <3> HIDE DEF next
        <3>3. Opening
            BY <2>1, <3>1 DEF Opening
        <3>4. work.msg \in Held /\ Carrying(work.msg)
            BY <3>3 DEF Held, Carrying, BondInv, Opened
        <3>5. Renamed(next)
            BY <3>2, <3>4 DEF Renamed
        <3> QED BY <2>1, <2>2, <3>1, <3>2, <3>5, RestartBond
    <2>7. CASE FinishRestart \/ FinishRelease
        <3>1. Renamed(s)
            BY DEF Renamed
        <3>2. CASE RestartWith(s)
            BY <2>1, <2>2, <3>1, <3>2, RestartBond
        <3>3. CASE Goto(work.post) /\ s' = s /\ ctl' = ctl
            BY <2>3, <3>3, SelfAlike DEF Alike
        <3> QED BY <2>7, <3>2, <3>3 DEF FinishRestart, FinishRelease
    <2> QED BY <1>2, <2>4, <2>5, <2>6, <2>7 DEF FinishSteps
<1> QED BY <1>1, <1>2

-----------------------------------------------------------------------------
(* The other tasks                                                           *)

\* what the callback task queues brings no profile and bears no session
LEMMA CallbackQuiet ==
    ASSUME NEW type \in CallbackTypes, NEW ok, NEW flag, NEW peer, CallbackMessage(type, ok, flag, peer)
    PROVE  \E m : ~Carrying(m) /\ m.session = 0 /\ (queue' = queue \/ queue' = Append(queue, m))
<1> DEFINE m == [NoMessage EXCEPT !.type = type, !.generation = callbackGen, !.ok = ok, !.flag = flag, !.peer = peer]
<1>1. m.type = type /\ m.session = 0
    BY DEF NoMessage
<1>2. queue' = queue \/ queue' = Append(queue, m)
    BY DEF CallbackMessage
<1>3. type \notin {"OPEN", "SAVED"}
    BY DEF CallbackTypes
<1> HIDE DEF m
<1> QED BY <1>1, <1>2, <1>3 DEF Carrying

LEMMA CallbackTaskBond ==
    ASSUME TypeOK, BondInv, s' = s, work' = work, evtq' = evtq, ui' = ui, SameSaved, RemovalKept,
           ctl'.bondRemoved = ctl.bondRemoved \/ (\A op : ~Removing(op)'),
           queue' = queue
             \/ \E type \in CallbackTypes, ok \in BOOLEAN, flag \in BOOLEAN, peer \in Peers :
                   CallbackMessage(type, ok, flag, peer)
    PROVE  BondInv'
<1>1. PICK m : ~Carrying(m) /\ m.session = 0 /\ (queue' = queue \/ queue' = Append(queue, m))
    <2>1. ~Carrying(NoMessage) /\ NoMessage.session = 0
        BY DEF Carrying, NoMessage
    <2> QED BY <2>1, CallbackQuiet
<1> QED BY <1>1, OthersBond

LEMMA CompletionsBond ==
    ASSUME TypeOK, BondInv, Completions
    PROVE  BondInv'
<1>1. s' = s /\ work' = work /\ evtq' = evtq /\ ui' = ui
    BY DEF Completions, CompleteGate, CompleteTable, CompleteAdvStart, CompleteAdvStop, CompleteRemoveBond,
           CompleteSuspend, WorkerVars, Outside, UiVars
<1>2. ctl \in CtlType /\ nvm \in Durable /\ NoPeer \in Peers
    BY DEF TypeOK, Peers
<1>3. SameSaved
    BY <1>2 DEF Completions, CompleteGate, CompleteTable, CompleteAdvStart, CompleteAdvStop, CompleteRemoveBond,
           CompleteSuspend, WorkerVars, Outside, UiVars, SameSaved, Durable
<1>4. \A op : /\ Finish(op) \in [adv : {"off", "any", "listed"}, wl : SUBSET Peers, resolving : BOOLEAN,
                                 ops : SUBSET (OpNames \X Peers), advStopped : BOOLEAN,
                                 bondRemoved : {"no", "ok", "failed"}]
              /\ Finish(op).ops = ctl.ops \ {op} /\ Finish(op).bondRemoved = ctl.bondRemoved
    BY <1>2 DEF Finish, CtlType
<1>5. ASSUME NEW type \in CallbackTypes, NEW ok \in BOOLEAN, NEW flag \in BOOLEAN, CallbackMessage(type, ok, flag, NoPeer),
             ctl'.ops \subseteq ctl.ops, ctl'.bondRemoved = ctl.bondRemoved
      PROVE  BondInv'
    <2>1. RemovalKept
        BY <1>5 DEF RemovalKept, Removing
    <2> QED BY <1>1, <1>2, <1>3, <1>5, <2>1, CallbackTaskBond
<1>6. CASE CompleteGate
    <2>1. PICK g \in Gates, ok \in BOOLEAN : ctl' = Finish(Op(g)) /\ CallbackMessage(GateMessage[g], ok, FALSE, NoPeer)
        BY <1>6 DEF CompleteGate
    <2>2. GateMessage[g] \in CallbackTypes
        BY <2>1, ConstantsAssumption DEF GateMessage, CallbackTypes, ReadyFlags
    <2> QED BY <1>4, <1>5, <2>1, <2>2
<1>7. CASE CompleteTable
    <2>1. PICK op \in ctl.ops, ok \in BOOLEAN :
             /\ op[1] \in DOMAIN TableMessage
             /\ ctl' = IF ok THEN TableAfter(op) ELSE Finish(op)
             /\ CallbackMessage(TableMessage[op[1]], ok, FALSE, NoPeer)
        BY <1>7 DEF CompleteTable
    <2>2. TableMessage[op[1]] \in CallbackTypes
        BY <2>1 DEF TableMessage, CallbackTypes
    <2> DEFINE finished == Finish(op)
    <2>3. /\ finished \in CtlType /\ finished.ops = ctl.ops \ {op} /\ finished.bondRemoved = ctl.bondRemoved
        BY <1>4 DEF CtlType
    <2>4. \/ TableAfter(op) = finished
          \/ TableAfter(op) = [finished EXCEPT !.resolving = FALSE]
          \/ TableAfter(op) = [finished EXCEPT !.resolving = TRUE]
          \/ TableAfter(op) = [finished EXCEPT !.wl = {}]
          \/ TableAfter(op) = [finished EXCEPT !.wl = @ \cup {op[2]}]
        BY DEF TableAfter
    <2> HIDE DEF finished
    <2>5. TableAfter(op).ops = finished.ops /\ TableAfter(op).bondRemoved = finished.bondRemoved
        BY <2>3, <2>4 DEF CtlType
    <2>6. ctl'.ops \subseteq ctl.ops /\ ctl'.bondRemoved = ctl.bondRemoved
        BY <2>1, <2>3, <2>5 DEF finished
    <2> QED BY <1>5, <2>1, <2>2, <2>6
<1>8. CASE CompleteAdvStart
    <2>1. PICK op \in ctl.ops, ok \in BOOLEAN :
             /\ ctl' = [Finish(op) EXCEPT !.adv = IF ~ok THEN @ ELSE IF op = Op("adv_any") THEN "any" ELSE "listed"]
             /\ CallbackMessage("ADV_STARTED", ok, FALSE, NoPeer)
        BY <1>8 DEF CompleteAdvStart
    <2> DEFINE finished == Finish(op)
    <2>2. /\ finished \in CtlType /\ finished.ops = ctl.ops \ {op} /\ finished.bondRemoved = ctl.bondRemoved
        BY <1>4 DEF CtlType
    <2>3. \E adv : ctl' = [finished EXCEPT !.adv = adv]
        BY <2>1
    <2> HIDE DEF finished
    <2>4. ctl'.ops \subseteq ctl.ops /\ ctl'.bondRemoved = ctl.bondRemoved
        BY <2>2, <2>3 DEF CtlType
    <2> QED BY <1>5, <2>1, <2>4 DEF CallbackTypes
<1>9. CASE CompleteAdvStop
    <2> DEFINE finished == Finish(Op("adv_stop"))
    <2>1. /\ finished \in CtlType /\ finished.ops = ctl.ops \ {Op("adv_stop")} /\ finished.bondRemoved = ctl.bondRemoved
        BY <1>4 DEF CtlType
    <2>2. ctl' = [finished EXCEPT !.adv = "off", !.advStopped = TRUE] /\ queue' = queue
        BY <1>9 DEF CompleteAdvStop
    <2> HIDE DEF finished
    <2>3. RemovalKept /\ ctl'.bondRemoved = ctl.bondRemoved
        BY <2>1, <2>2 DEF RemovalKept, Removing, CtlType
    <2> QED BY <1>1, <1>3, <2>2, <2>3, CallbackTaskBond
<1>10. CASE CompleteRemoveBond
    <2>1. PICK op \in ctl.ops, ok \in BOOLEAN :
             /\ op[1] = "remove_bond"
             /\ ctl' = [Finish(op) EXCEPT !.bondRemoved = IF ok THEN "ok" ELSE "failed"]
        BY <1>10 DEF CompleteRemoveBond
    <2> DEFINE finished == Finish(op)
    <2>2. finished \in CtlType /\ finished.ops = ctl.ops \ {op}
        BY <1>4 DEF CtlType
    <2>3. \E removed : ctl' = [finished EXCEPT !.bondRemoved = removed]
        BY <2>1
    <2> HIDE DEF finished
    <2>4. ctl'.ops = ctl.ops \ {op}
        BY <2>2, <2>3 DEF CtlType
    <2>5. \A o \in ctl.ops : o = <<o[1], o[2]>>
        BY <1>2 DEF CtlType
    <2>6. \A o : Removing(o) => o = <<"remove_bond", s.profile.peer>>
        BY <2>5 DEF Removing, BondInv, Decided
    <2>7. \A o : ~Removing(o)'
        <3> SUFFICES ASSUME NEW o, Removing(o)' PROVE FALSE
            OBVIOUS
        <3>1. Removing(o) /\ o # op /\ Removing(op)
            BY <2>1, <2>4 DEF Removing
        <3> QED BY <2>6, <3>1
    <2>8. queue' = queue
        BY <1>10 DEF CompleteRemoveBond
    <2> QED BY <1>1, <1>3, <2>7, <2>8, CallbackTaskBond DEF RemovalKept
<1>11. CASE CompleteSuspend
    <2>1. PICK name \in {"suspend", "resume"} :
             ctl' = Finish(Op(name)) /\ CallbackMessage("SUSPEND", TRUE, name = "suspend", NoPeer)
        BY <1>11 DEF CompleteSuspend
    <2>2. (name = "suspend") \in BOOLEAN /\ "SUSPEND" \in CallbackTypes
        BY DEF CallbackTypes
    <2> QED BY <1>4, <1>5, <2>1, <2>2
<1> QED BY <1>6, <1>7, <1>8, <1>9, <1>10, <1>11 DEF Completions

LEMMA LinkStepsBond ==
    ASSUME TypeOK, BondInv, LinkCallbacks \/ Host
    PROVE  BondInv'
<1>1. s' = s /\ work' = work /\ evtq' = evtq /\ ui' = ui
    BY DEF LinkCallbacks, ConnectClear, ConnectUp, ConnectPost, DisconnectMark, DisconnectDown, DisconnectPost,
           Host, HostConnect, LinkEnds, HostAuth, HostWrite, HostSuspend, WorkerVars, LinkVars, Outside, UiVars
<1>2. ctl \in CtlType /\ nvm \in Durable /\ link \in LinkType /\ NoPeer \in Peers
    BY DEF TypeOK, Peers
<1>3. SameSaved
    BY <1>2 DEF LinkCallbacks, ConnectClear, ConnectUp, ConnectPost, DisconnectMark, DisconnectDown, DisconnectPost,
           Host, HostConnect, LinkEnds, HostAuth, HostWrite, HostSuspend, LinkVars, Outside, SameSaved, Durable
<1>4. RemovalKept /\ ctl'.bondRemoved = ctl.bondRemoved
    <2>1. CASE ctl' = ctl
        BY <2>1 DEF RemovalKept, Removing
    <2>2. CASE HostConnect
        <3>1. ctl' = [ctl EXCEPT !.adv = "off"]
            BY <2>2 DEF HostConnect
        <3> QED BY <1>2, <3>1 DEF RemovalKept, Removing, CtlType
    <2>3. CASE LinkEnds
        <3>1. ctl' = [ctl EXCEPT !.ops = @ \ {Op("disconnect")}]
            BY <2>3 DEF LinkEnds, Finish
        <3> QED BY <1>2, <3>1 DEF RemovalKept, Removing, CtlType
    <2>4. CASE HostSuspend
        <3>1. PICK name \in {"suspend", "resume"} : ctl' = [ctl EXCEPT !.ops = @ \cup {Op(name)}]
            BY <2>4 DEF HostSuspend
        <3>2. ctl'.ops = ctl.ops \cup {Op(name)} /\ ctl'.bondRemoved = ctl.bondRemoved
            BY <1>2, <3>1 DEF CtlType
        <3>3. Op(name)[1] # "remove_bond"
            BY DEF Op
        <3> QED BY <3>2, <3>3 DEF RemovalKept, Removing
    <2> QED
        BY <2>1, <2>2, <2>3, <2>4 DEF LinkCallbacks, ConnectClear, ConnectUp, ConnectPost, DisconnectMark,
           DisconnectDown, DisconnectPost, Host, HostAuth, HostWrite
<1>5. \/ queue' = queue
      \/ \E type \in CallbackTypes, ok \in BOOLEAN, flag \in BOOLEAN, peer \in Peers :
            CallbackMessage(type, ok, flag, peer)
    <2>1. CASE LinkCallbacks \/ HostConnect \/ LinkEnds
        BY <1>2, <2>1 DEF LinkCallbacks, ConnectClear, ConnectUp, ConnectPost, DisconnectMark, DisconnectDown,
           DisconnectPost, HostConnect, LinkEnds, CallbackTypes
    <2>2. CASE HostAuth
        <3>1. link.host \in Peers /\ "AUTH" \in CallbackTypes
            BY <1>2 DEF LinkType, CallbackTypes
        <3>2. PICK ok \in BOOLEAN : CallbackMessage("AUTH", ok, FALSE, link.host)
            BY <2>2 DEF HostAuth
        <3> QED BY <3>1, <3>2
    <2>3. CASE HostWrite \/ HostSuspend
        BY <1>2, <2>3 DEF HostWrite, HostSuspend, CallbackTypes
    <2> QED BY <2>1, <2>2, <2>3 DEF Host
<1> QED BY <1>1, <1>3, <1>4, <1>5, CallbackTaskBond

LEMMA DeadlineBond ==
    ASSUME TypeOK, BondInv, DeadlinePasses
    PROVE  BondInv'
<1>1. PICK d : s' = [s EXCEPT !.due = @ \cup {d}]
    BY DEF DeadlinePasses
<1>2. /\ s'.session = s.session /\ s'.profile = s.profile /\ s'.layers = s.layers
      /\ s'.pairing = s.pairing /\ s'.store = s.store
    BY <1>1 DEF TypeOK, WorkerType
<1>3. /\ work' = work /\ evtq' = evtq /\ ui' = ui /\ SameSaved /\ RemovalKept
      /\ ctl' = ctl /\ queue' = queue
    BY DEF DeadlinePasses, Outside, UiVars, SameSaved, RemovalKept, Removing
<1>4. ~Carrying(NoMessage) /\ NoMessage.session = 0
    BY DEF Carrying, NoMessage
<1> QED BY <1>2, <1>3, <1>4, OthersBond

LEMMA IdleBond ==
    ASSUME s = IdleWorker, work = IdleWork, ctl = IdleCtl, queue = << >>, evtq = << >>, ui = IdleUi
    PROVE  BondInv
<1>1. ~Opening /\ Held = {}
    BY DEF Opening, Held, IdleWork
<1>2. Len(evtq) = 0
    OBVIOUS
<1>3. ~HostOn(s) /\ \A op : ~Removing(op)
    BY DEF HostOn, IdleWorker, IdleCtl, Removing
<1>4. Opened /\ Paired /\ Decided
    BY <1>1, <1>3 DEF Opened, Paired, Running, Decided
<1>5. Numbered /\ Named
    BY <1>1, <1>2 DEF Numbered, Named, Issued, IdleUi, IdleWorker
<1>6. Truthful(s.profile, nvm.legacy)
    BY ConstantsAssumption DEF Truthful, IdleWorker, NoRemote, Stores
<1>7. Moved
    BY <1>1, <1>6 DEF Moved, IdleUi
<1> QED BY <1>4, <1>5, <1>7 DEF BondInv

LEMMA PowerLossBond ==
    ASSUME PowerLoss
    PROVE  BondInv'
<1>0. /\ s' = IdleWorker /\ work' = IdleWork /\ ctl' = IdleCtl /\ queue' = << >>
      /\ evtq' = << >> /\ ui' = IdleUi
    BY DEF PowerLoss
<1>1. ~Opening' /\ Held' = {}
    BY <1>0 DEF Opening, Held, IdleWork
<1>2. Len(evtq') = 0
    BY <1>0
<1>3. ~HostOn(s') /\ \A op : ~Removing(op)'
    BY <1>0 DEF HostOn, IdleWorker, IdleCtl, Removing
<1>4. Opened' /\ Paired' /\ Decided'
    BY <1>1, <1>3 DEF Opened, Paired, Running, Decided
<1>5. Numbered' /\ Named'
    BY <1>0, <1>1, <1>2 DEF Numbered, Named, Issued, IdleUi, IdleWorker
<1>6. Truthful(s.profile, nvm.legacy)'
    BY <1>0, ConstantsAssumption DEF Truthful, IdleWorker, NoRemote, Stores
<1>7. Moved'
    BY <1>0, <1>1, <1>6 DEF Moved, IdleUi
<1> QED BY <1>4, <1>5, <1>7 DEF BondInv

-----------------------------------------------------------------------------
(* The UI task                                                               *)

\* a profile only ever leaves the shared database, and keeps its peer until then
Shed ==
    /\ nvm'.legacy \in [Profiles -> BOOLEAN]
    /\ \A p \in Profiles : nvm'.legacy[p] = TRUE => nvm.legacy[p] = TRUE /\ nvm'.peer[p] = nvm.peer[p]

LEMMA ShedTruthful ==
    ASSUME TypeOK, Shed, NEW r, Truthful(r, nvm.legacy)
    PROVE  Truthful(r, nvm'.legacy)
BY ProfileFacts DEF Shed, Truthful

LEMMA UiBond ==
    ASSUME TypeOK, TypeOK', BondInv, s' = s, work' = work, ctl' = ctl, Shed,
           NEW m, queue' = queue \/ queue' = Append(queue, m),
           \A n \in Nat : Issued(n, ui) => Issued(n, ui'),
           Issued(ui'.session, ui'), Issued(m.session, ui'),
           Carrying(m) => Truthful(m.remote, nvm'.legacy),
           \A i \in 1..Len(evtq') : \E j \in 1..Len(evtq) : evtq'[i] = evtq[j],
           ui'.session # 0 \/ ui'.pc = "opening" =>
               (nvm'.peer[ui'.profile] = NoPeer => nvm'.legacy[ui'.profile] = FALSE),
           \/ ui'.session = 0
           \/ /\ ui'.session = ui.session /\ ui'.profile = ui.profile
              /\ Carrying(m) /\ m.session = ui.session => m.remote.id = ui.profile
           \/ /\ ui.pc = "opening" /\ ui'.session = ui.seq /\ ui'.profile = ui.profile
              /\ Carrying(m) => m.remote.id = ui.profile
    PROVE  BondInv'
<1>1. Winding' = Winding /\ Running' = Running /\ Opening' = Opening
    BY DEF Winding, Running, Opening
<1>2. \A x \in Held' : x \in Held \/ x = m
    BY HeldGrows
<1>3. Opened' /\ Paired'
    BY <1>1 DEF BondInv, Opened, Paired
<1>4. /\ s.session \in Nat /\ ui.seq \in Nat
      /\ \A x \in Held : x.session \in Nat
      /\ \A i \in 1..Len(evtq) : evtq[i].session \in Nat
    BY HeldFacts, ProfileFacts DEF Messages, Events
<1>5. Numbered'
    BY <1>2, <1>4 DEF BondInv, Numbered
<1>6. Decided'
    <2> SUFFICES ASSUME NEW op, Removing(op)'
                 PROVE  /\ Winding' \/ (work'.pc = "bond_wait" /\ ctl'.bondRemoved = "no")
                        /\ HostOn(s')
                        /\ op[2] = s'.profile.peer /\ s'.store = StoreOf(s'.profile)
                        /\ Unused'
        BY DEF Decided
    <2>1. Removing(op)
        BY DEF Removing
    <2>2. Unused'
        BY <2>1 DEF BondInv, Decided, Unused, Shed
    <2> QED BY <1>1, <2>1, <2>2 DEF BondInv, Decided
<1>7. Moved'
    <2>1. Truthful(s'.profile, nvm'.legacy)
        BY ShedTruthful DEF BondInv, Moved
    <2>2. ASSUME NEW x \in Held', Carrying(x)
          PROVE  Truthful(x.remote, nvm'.legacy)
        BY <1>2, <2>2, ShedTruthful DEF BondInv, Moved
    <2> QED BY <2>1, <2>2 DEF Moved
<1>8. CASE ui'.session = 0
    BY <1>3, <1>5, <1>6, <1>7, <1>8 DEF BondInv, Named
<1>9. CASE /\ ui'.session = ui.session /\ ui'.profile = ui.profile
           /\ (Carrying(m) /\ m.session = ui.session => m.remote.id = ui.profile)
    <2>1. ui.session # 0 /\ nvm.legacy[ui.profile] = FALSE => nvm'.legacy[ui.profile] = FALSE
        BY ProfileFacts DEF Shed
    <2>2. Named'
        BY <1>2, <1>9, <2>1 DEF BondInv, Named
    <2> QED BY <1>3, <1>5, <1>6, <1>7, <2>2 DEF BondInv
<1>10. CASE /\ ui.pc = "opening" /\ ui'.session = ui.seq /\ ui'.profile = ui.profile
            /\ (Carrying(m) => m.remote.id = ui.profile)
    <2>1. \A n \in Nat : Issued(n, ui) => n # ui'.session
        BY <1>4, <1>10 DEF Issued
    <2>2. Named'
        BY <1>2, <1>4, <1>10, <2>1 DEF BondInv, Numbered, Named
    <2> QED BY <1>3, <1>5, <1>6, <1>7, <2>2 DEF BondInv
<1> QED BY <1>8, <1>9, <1>10

LEMMA UiOpenBond ==
    ASSUME TypeOK, TypeOK', BondInv, NEW p \in Profiles, UiOpen(p)
    PROVE  BondInv'
<1>1. nvm \in Durable /\ nvm' \in Durable /\ ui \in UiType /\ ui.seq \in Nat
    BY DEF TypeOK, UiType
<1>2. s' = s /\ work' = work /\ ctl' = ctl /\ queue' = queue /\ evtq' = evtq
    BY DEF UiOpen, Background, WorkerVars
<1>3. ui' = [ui EXCEPT !.seq = @ + 1, !.profile = p, !.previous = desired, !.pc = "opening"]
    BY DEF UiOpen
<1>4. ui'.seq = ui.seq + 1 /\ ui'.profile = p /\ ui'.pc = "opening" /\ ui'.session = ui.session
    BY <1>1, <1>3 DEF UiType
<1>5. nvm'.peer = nvm.peer /\ (nvm'.legacy = nvm.legacy \/ nvm'.legacy = [nvm.legacy EXCEPT ![p] = FALSE])
      /\ (nvm'.peer[p] = NoPeer => nvm'.legacy[p] = FALSE)
    BY <1>1 DEF UiOpen, Durable
<1>6. Shed
    BY <1>1, <1>5 DEF Shed, Durable
<1>7. \A n \in Nat : Issued(n, ui) => Issued(n, ui')
    BY <1>1, <1>4 DEF Issued
<1>8. ui.session \in Nat /\ Issued(ui.session, ui) /\ 0 \in Nat /\ Issued(0, ui)
    BY <1>1, ProfileFacts DEF BondInv, Numbered, Issued
<1>9. ~Carrying(NoMessage) /\ NoMessage.session = 0
    BY DEF Carrying, NoMessage
<1>10. ui'.session = 0 \/ (ui'.session = ui.session /\ ui'.profile = ui.profile)
    BY <1>4 DEF UiOpen
<1> QED BY <1>2, <1>4, <1>5, <1>6, <1>7, <1>8, <1>9, <1>10, UiBond

LEMMA UiOpenSendBond ==
    ASSUME TypeOK, TypeOK', BondInv, UiOpenSend
    PROVE  BondInv'
<1>1. nvm \in Durable /\ ui \in UiType /\ ui.seq \in Nat /\ ui.session \in Nat /\ ui.profile \in Profiles
    BY DEF TypeOK, UiType, UiOpenSend
<1>2. s' = s /\ work' = work /\ ctl' = ctl /\ evtq' = evtq /\ nvm' = nvm /\ ui.pc = "opening"
    BY DEF UiOpenSend, Background, WorkerVars
<1>3. Shed
    BY <1>1, <1>2 DEF Shed, Durable
<1>4. nvm.peer[ui.profile] = NoPeer => nvm.legacy[ui.profile] = FALSE
    BY <1>2 DEF BondInv, Moved
<1>5. CASE Room
    <2> DEFINE m == [NoMessage EXCEPT !.type = "OPEN", !.session = ui.seq, !.remote = Saved(ui.profile)]
    <2>1. m.session = ui.seq /\ m.remote = Saved(ui.profile)
        BY DEF NoMessage
    <2>2. queue' = Append(queue, m)
        BY <1>5 DEF UiOpenSend, Enqueue
    <2> HIDE DEF m
    <2>3. ui' = [ui EXCEPT !.session = ui.seq, !.pc = "idle"]
        BY <1>5 DEF UiOpenSend
    <2>4. ui'.seq = ui.seq /\ ui'.profile = ui.profile /\ ui'.pc = "idle" /\ ui'.session = ui.seq
        BY <1>1, <2>3 DEF UiType
    <2>5. (\A n \in Nat : Issued(n, ui) => Issued(n, ui')) /\ Issued(ui.seq, ui')
        BY <1>1, <2>4 DEF Issued
    <2>6. Truthful(m.remote, nvm'.legacy) /\ m.remote.id = ui.profile
        BY <1>2, <1>4, <2>1 DEF Truthful, Saved
    <2> QED BY <1>2, <1>3, <1>4, <2>1, <2>2, <2>4, <2>5, <2>6, UiBond
<1>6. CASE ~Room
    <2>1. ui' = [ui EXCEPT !.pc = "idle"] /\ queue' = queue
        BY <1>6 DEF UiOpenSend
    <2>2. ui'.seq = ui.seq /\ ui'.profile = ui.profile /\ ui'.pc = "idle" /\ ui'.session = ui.session
        BY <1>1, <2>1 DEF UiType
    <2>3. \A n \in Nat : Issued(n, ui) => Issued(n, ui')
        BY <1>1, <2>2 DEF Issued
    <2>4. Issued(ui'.session, ui') /\ Issued(0, ui')
        BY <1>1, <2>2, <2>3 DEF BondInv, Numbered, Issued
    <2>5. ~Carrying(NoMessage) /\ NoMessage.session = 0
        BY DEF Carrying, NoMessage
    <2> QED BY <1>2, <1>3, <1>4, <2>1, <2>2, <2>3, <2>4, <2>5, UiBond
<1> QED BY <1>5, <1>6

\* messages that only name a session, and events that are dropped
LEMMA UiPlainBond ==
    ASSUME TypeOK, TypeOK', BondInv, UiClose \/ UiForget \/ UiTap \/ UiRelease \/ UiPeerStale
    PROVE  BondInv'
<1>1. nvm \in Durable /\ ui \in UiType /\ ui.seq \in Nat /\ ui.session \in Nat /\ ui.pc = "idle"
    BY DEF TypeOK, UiType, UiClose, UiForget, UiTap, UiRelease, UiPeerStale, InSession, UiIdle
<1>2. s' = s /\ work' = work /\ ctl' = ctl /\ nvm' = nvm
    BY DEF UiClose, UiForget, UiTap, UiRelease, UiPeerStale, Background, WorkerVars
<1>3. Shed
    BY <1>1, <1>2 DEF Shed, Durable
<1>4. \A i \in 1..Len(evtq') : \E j \in 1..Len(evtq) : evtq'[i] = evtq[j]
    <2>1. evtq' = evtq \/ (evtq # << >> /\ evtq' = Tail(evtq))
        BY DEF UiClose, UiForget, UiTap, UiRelease, UiPeerStale
    <2>2. evtq \in Seq(Events) /\ Len(evtq) \in Nat
        BY ProfileFacts
    <2>3. CASE evtq # << >> /\ evtq' = Tail(evtq)
        <3>1. \A i \in 1..Len(evtq') : i + 1 \in 1..Len(evtq) /\ evtq'[i] = evtq[i + 1]
            BY <2>2, <2>3
        <3> QED BY <3>1
    <2> QED BY <2>1, <2>3
<1>5. ui'.seq = ui.seq /\ ui'.profile = ui.profile /\ ui'.pc = "idle" /\ ui'.session \in {ui.session, 0}
    BY <1>1 DEF UiClose, UiForget, UiTap, UiRelease, UiPeerStale, UiType
<1>6. \A n \in Nat : Issued(n, ui) => Issued(n, ui')
    BY <1>1, <1>5 DEF Issued
<1>7. Issued(ui.session, ui') /\ Issued(0, ui')
    BY <1>1, <1>5 DEF BondInv, Numbered, Issued
<1>8. ui'.session # 0 \/ ui'.pc = "opening" =>
          (nvm'.peer[ui'.profile] = NoPeer => nvm'.legacy[ui'.profile] = FALSE)
    BY <1>2, <1>5 DEF BondInv, Moved
<1>9. ASSUME NEW m, m.type \notin {"OPEN", "SAVED"}, m.session \in {0, ui.session}, Send(m) \/ Enqueue(m)
      PROVE  BondInv'
    <2>1. queue' = queue \/ queue' = Append(queue, m)
        BY <1>9 DEF Send, Enqueue
    <2>2. ~Carrying(m) /\ Issued(m.session, ui')
        BY <1>7, <1>9 DEF Carrying
    <2> QED BY <1>2, <1>3, <1>4, <1>5, <1>6, <1>7, <1>8, <2>1, <2>2, UiBond
<1>10. NoMessage.session = 0
    BY DEF NoMessage
<1>11. \A type : [NoMessage EXCEPT !.type = type].type = type /\ [NoMessage EXCEPT !.type = type].session = 0
    BY DEF NoMessage
<1>12. \A type, session : /\ [NoMessage EXCEPT !.type = type, !.session = session].type = type
                          /\ [NoMessage EXCEPT !.type = type, !.session = session].session = session
    BY DEF NoMessage
<1>13. CASE UiClose
    <2> DEFINE m == [NoMessage EXCEPT !.type = "CLOSE"]
    <2>1. Send(m)
        BY <1>13 DEF UiClose
    <2>2. m.type = "CLOSE" /\ m.session = 0
        BY <1>11
    <2> HIDE DEF m
    <2> QED BY <1>9, <2>1, <2>2
<1>14. CASE UiForget
    <2>1. PICK flag \in BOOLEAN :
             Enqueue([NoMessage EXCEPT !.type = "FORGET", !.session = ui.session, !.flag = flag])
        BY <1>14 DEF UiForget
    <2> DEFINE m == [NoMessage EXCEPT !.type = "FORGET", !.session = ui.session, !.flag = flag]
    <2>2. Enqueue(m)
        BY <2>1
    <2>3. m.type = "FORGET" /\ m.session = ui.session
        BY DEF NoMessage
    <2> HIDE DEF m
    <2> QED BY <1>9, <2>2, <2>3
<1>15. CASE UiTap \/ UiRelease
    <2>1. PICK type \in {"TAP", "RELEASE"} : Enqueue([NoMessage EXCEPT !.type = type, !.session = ui.session])
        BY <1>15 DEF UiTap, UiRelease
    <2> DEFINE m == [NoMessage EXCEPT !.type = type, !.session = ui.session]
    <2>2. Enqueue(m)
        BY <2>1
    <2>3. m.type \in {"TAP", "RELEASE"} /\ m.session = ui.session
        BY <1>12, <2>1
    <2> HIDE DEF m
    <2> QED BY <1>9, <2>2, <2>3
<1>16. CASE UiPeerStale
    <2>1. queue' = queue /\ ~Carrying(NoMessage)
        BY <1>16 DEF UiPeerStale, Carrying, NoMessage
    <2> QED BY <1>2, <1>3, <1>4, <1>5, <1>6, <1>7, <1>8, <1>10, <2>1, UiBond
<1> QED BY <1>13, <1>14, <1>15, <1>16

\* a profile saved with a new peer is out of the shared database
LEMMA UiPeerBond ==
    ASSUME TypeOK, TypeOK', BondInv, UiPeer
    PROVE  BondInv'
<1>1. nvm \in Durable /\ nvm' \in Durable /\ ui' = ui /\ ui \in UiType /\ ui.session \in Nat /\ ui.session # 0
      /\ ui.profile \in Profiles
    BY DEF TypeOK, UiType, UiPeer, InSession
<1>2. s' = s /\ work' = work /\ ctl' = ctl /\ evtq # << >> /\ evtq' = Tail(evtq) /\ PeerEvent.session = ui.session
    BY DEF UiPeer, Background, WorkerVars
<1>3. evtq \in Seq(Events) /\ Len(evtq) \in Nat
    BY ProfileFacts
<1>4. 1 \in 1..Len(evtq) /\ PeerEvent = evtq[1]
    BY <1>2, <1>3 DEF PeerEvent
<1>5. \A i \in 1..Len(evtq') : \E j \in 1..Len(evtq) : evtq'[i] = evtq[j]
    <2>1. \A i \in 1..Len(evtq') : i + 1 \in 1..Len(evtq) /\ evtq'[i] = evtq[i + 1]
        BY <1>2, <1>3
    <2> QED BY <2>1
<1> DEFINE p == ui.profile
           legacy == nvm.legacy[p] /\ PeerEvent.peer # NoPeer
           Answer(ok) == [NoMessage EXCEPT !.type = "SAVED", !.session = ui.session, !.flag = ok,
                              !.remote = [id |-> p, peer |-> PeerEvent.peer, legacy |-> legacy]]
<1>6. PICK ok \in BOOLEAN :
         /\ IF ok THEN nvm' = [nvm EXCEPT !.peer[p] = PeerEvent.peer, !.legacy[p] = legacy]
                  ELSE nvm' = nvm
         /\ Send(Answer(ok))
    BY DEF UiPeer
<1>7. legacy = FALSE
    <2>1. PeerEvent.peer # NoPeer => nvm.legacy[p] = FALSE
        BY <1>1, <1>2, <1>4 DEF BondInv, Named
    <2> QED BY <2>1
<1> DEFINE m == Answer(ok)
<1>8. /\ m.type = "SAVED" /\ m.session = ui.session /\ m.flag = ok
      /\ m.remote = [id |-> p, peer |-> PeerEvent.peer, legacy |-> legacy]
    BY DEF NoMessage
<1>9. queue' = queue \/ queue' = Append(queue, m)
    BY <1>6 DEF Send, Enqueue
<1>10. nvm' = nvm \/ nvm' = [nvm EXCEPT !.peer[p] = PeerEvent.peer, !.legacy[p] = legacy]
    BY <1>6
<1>11. ok = TRUE => nvm' = [nvm EXCEPT !.peer[p] = PeerEvent.peer, !.legacy[p] = legacy]
    BY <1>6
<1> HIDE DEF m, legacy
<1>12. ok = TRUE => nvm'.legacy = [nvm.legacy EXCEPT ![p] = FALSE] /\ nvm'.peer = [nvm.peer EXCEPT ![p] = PeerEvent.peer]
    BY <1>1, <1>7, <1>11 DEF Durable
<1>13. \/ nvm' = nvm
       \/ nvm'.legacy = [nvm.legacy EXCEPT ![p] = FALSE] /\ nvm'.peer = [nvm.peer EXCEPT ![p] = PeerEvent.peer]
    BY <1>1, <1>7, <1>10 DEF Durable
<1>14. Shed
    BY <1>1, <1>13 DEF Shed, Durable
<1>15. Carrying(m) => Truthful(m.remote, nvm'.legacy)
    <2>1. SUFFICES ASSUME Carrying(m) PROVE Truthful(m.remote, nvm'.legacy)
        OBVIOUS
    <2>2. ok = TRUE
        BY <1>8, <2>1 DEF Carrying
    <2>3. m.remote.legacy = FALSE /\ m.remote.id = p
        BY <1>7, <1>8
    <2>4. nvm'.legacy[p] = FALSE
        BY <1>1, <1>12, <2>2 DEF Durable
    <2> QED BY <2>3, <2>4 DEF Truthful
<1>16. nvm'.peer[ui'.profile] = NoPeer => nvm'.legacy[ui'.profile] = FALSE
    BY <1>1, <1>13 DEF Durable, BondInv, Moved
<1>17. m.remote.id = ui.profile
    BY <1>8
<1>18. Issued(ui.session, ui)
    BY DEF BondInv, Numbered
<1> QED BY <1>1, <1>2, <1>5, <1>8, <1>9, <1>14, <1>15, <1>16, <1>17, <1>18, UiBond

-----------------------------------------------------------------------------
(* The theorem                                                               *)

LEMMA BondInvStep ==
    ASSUME TypeOK, TypeOK', LinkInv, LinkInv', BondInv, [Next]_vars
    PROVE  BondInv'
<1>1. CASE UNCHANGED vars
    <2>1. UNCHANGED <<s, work, evtq, ui, nvm, ctl, queue>>
        BY <1>1 DEF vars
    <2>2. SameSaved /\ RemovalKept
        BY <2>1 DEF SameSaved, RemovalKept, Removing
    <2> QED BY <2>1, <2>2, CallbackTaskBond
<1>2. CASE Worker
    BY <1>2, StopStepsBond, FinishStepsBond, ApiHandlersBond, CallbackHandlersBond, TailBond DEF Worker
<1>3. CASE UiMenu \/ UiTurn
    BY <1>3, UiOpenBond, UiOpenSendBond, UiPlainBond, UiPeerBond DEF UiMenu, UiTurn
<1> QED
    BY <1>1, <1>2, <1>3, CompletionsBond, LinkStepsBond, DeadlineBond, PowerLossBond DEF Next

\* What the worker copied of a profile, what its messages bring and what the UI
\* has saved stay consistent, as long as the waits and calls of a stop succeed.
THEOREM CopiesCorrect == CleanStops => (Spec => []BondInv)
<1> SUFFICES ASSUME CleanStops PROVE Spec => []BondInv
    OBVIOUS
<1>1. Init => BondInv
    BY IdleBond DEF Init
<1>2. TypeOK /\ TypeOK' /\ LinkInv /\ LinkInv' /\ BondInv /\ [Next]_vars => BondInv'
    BY BondInvStep
<1> QED BY <1>1, <1>2, TypeCorrect, LinkViewCorrect, PTL DEF Spec

\* only a removal takes a bond away, and only the one it was asked for
LEMMA BondsTaken ==
    ASSUME TypeOK, Next
    PROVE  \/ nvm.bonds \subseteq nvm'.bonds
           \/ \E op : Removing(op) /\ nvm'.bonds = nvm.bonds \ {<<s.store, op[2]>>}
<1>1. nvm \in Durable
    BY DEF TypeOK
<1>2. CASE CompleteRemoveBond
    <2>1. PICK op \in ctl.ops, ok \in BOOLEAN :
             /\ op[1] = "remove_bond"
             /\ nvm' = IF ok THEN [nvm EXCEPT !.bonds = @ \ {<<s.store, op[2]>>}] ELSE nvm
        BY <1>2 DEF CompleteRemoveBond
    <2>2. nvm' = nvm \/ nvm'.bonds = nvm.bonds \ {<<s.store, op[2]>>}
        BY <1>1, <2>1 DEF Durable
    <2> QED BY <2>1, <2>2 DEF Removing
<1>3. CASE HostAuth
    <2>1. nvm' = nvm \/ nvm' = [nvm EXCEPT !.bonds = @ \cup {<<s.store, link.host>>}]
        BY <1>3 DEF HostAuth
    <2> QED BY <1>1, <2>1 DEF Durable
<1>4. CASE UiMenu \/ UiTurn
    <2>1. CASE nvm' = nvm
        BY <2>1
    <2>2. CASE \E p \in Profiles : UiOpen(p)
        BY <1>1, <2>2 DEF UiOpen, Durable
    <2>3. CASE UiPeer
        <3>1. nvm' = nvm \/ nvm' = [nvm EXCEPT !.peer[ui.profile] = PeerEvent.peer,
                                  !.legacy[ui.profile] = nvm.legacy[ui.profile] /\ PeerEvent.peer # NoPeer]
            BY <2>3 DEF UiPeer
        <3> QED BY <1>1, <3>1 DEF Durable
    <2> QED BY <1>4, <2>1, <2>2, <2>3 DEF UiMenu, UiTurn, UiOpenSend, UiClose, UiForget, UiTap, UiRelease, UiPeerStale
<1>5. CASE Worker
    <2>1. CASE nvm' = nvm
        BY <2>1
    <2>2. CASE \E p, subscribed : nvm' = [nvm EXCEPT !.ccc[p] = subscribed]
        BY <1>1, <2>2 DEF Durable
    <2>3. nvm' = nvm \/ \E p, subscribed : nvm' = [nvm EXCEPT !.ccc[p] = subscribed]
        <3>1. CASE StopSteps \/ AfterCallback \/ Advertise \/ Poll \/ TailClose \/ TailExpired \/ TailDone
            BY <3>1 DEF StopSteps, StopAdvertisingSkip, StopAdvertisingRequest, StopAdvertisingWait, DisconnectLink,
               DisconnectDone, DisconnectTimeout, TeardownHid, TeardownHost, AfterCallback, Advertise, Poll, TailClose,
               TailExpired, TailDone, Outside
        <3>2. CASE FinishSteps
            BY <3>2 DEF FinishSteps, FinishFail, FinishTimeout, FinishUnpair, FinishAuthRetry, FinishClose,
               FinishOpen, FinishRestart, FinishRelease, FinishForget, RemoveBondWait, ForgetBonds, Outside
        <3>3. CASE ApiHandlers
            BY <3>3 DEF ApiHandlers, HandleOpen, HandleForget, HandleSaved, HandleTap, HandleRelease, HandleClose,
               HandleDropped, ReadyIfSubscribed, Outside
        <3>4. CASE HandleWrite \/ HandleSuspend \/ HandleAuthOk
            <4>1. ASSUME NEW s1, ReadyIfSubscribed(s1, "after", Msg)
                  PROVE  \/ nvm' = nvm
                         \/ nvm' = [nvm EXCEPT !.ccc[s1.profile.id] = IF ccc THEN "on" ELSE "off"]
                BY <4>1 DEF ReadyIfSubscribed
            <4>2. \/ nvm' = nvm
                  \/ ReadyIfSubscribed(s, "after", Msg)
                  \/ ReadyIfSubscribed([s EXCEPT !.suspended = Msg.flag], "after", Msg)
                  \/ ReadyIfSubscribed([s EXCEPT !.encrypted = TRUE], "after", Msg)
                BY <3>4 DEF HandleWrite, HandleSuspend, HandleAuthOk
            <4> QED BY <4>1, <4>2
        <3>5. CASE HandleGate \/ HandleHidReady \/ HandlePrivacy \/ HandleWhitelist \/ HandlePeerPrivacy
                     \/ HandleAdvStarted \/ HandleConnected \/ HandleAuthFailed \/ HandleDisconnected
            <4>1. CASE HandleHidReady
                BY <4>1 DEF HandleHidReady
            <4>2. CASE ~HandleHidReady
                <5>1. UNCHANGED Outside
                    BY <3>5, <4>2 DEF HandleGate, HandlePrivacy, HandleWhitelist, HandlePeerPrivacy,
                       HandleAdvStarted, HandleConnected, HandleAuthFailed, HandleDisconnected
                <5> QED BY <5>1 DEF Outside
            <4> QED BY <4>1, <4>2
        <3> QED BY <1>5, <3>1, <3>2, <3>3, <3>4, <3>5 DEF Worker, CallbackHandlers
    <2> QED BY <2>1, <2>2, <2>3
<1>6. CASE DeadlinePasses \/ PowerLoss \/ LinkCallbacks \/ (Host /\ ~HostAuth) \/ (Completions /\ ~CompleteRemoveBond)
    <2>1. nvm' = nvm
        BY <1>6 DEF DeadlinePasses, PowerLoss, LinkCallbacks, ConnectClear, ConnectUp, ConnectPost, DisconnectMark,
           DisconnectDown, DisconnectPost, Host, HostConnect, LinkEnds, HostWrite, HostSuspend, Completions,
           CompleteGate, CompleteTable, CompleteAdvStart, CompleteAdvStop, CompleteSuspend, LinkVars, Outside
    <2> QED BY <2>1
<1> QED BY <1>2, <1>3, <1>4, <1>5, <1>6 DEF Next

\* the bond removed is in the forgotten profile's own database, or no other profile has the peer
LEMMA OthersKept ==
    ASSUME TypeOK, BondInv, Next, NEW p \in Profiles \ {s.profile.id}, nvm.peer[p] # NoPeer,
           HasBond(StoreOf(Saved(p)), nvm.peer[p])
    PROVE  <<StoreOf(Saved(p)), nvm.peer[p]>> \in nvm'.bonds
<1> DEFINE store == StoreOf(Saved(p))
<1>1. <<store, nvm.peer[p]>> \in nvm.bonds
    BY DEF HasBond
<1>2. ASSUME NEW op, Removing(op), store = s.store, nvm.peer[p] = op[2]
      PROVE  FALSE
    <2>1. op[2] = s.profile.peer /\ s.store = StoreOf(s.profile) /\ Unused
        BY <1>2 DEF BondInv, Decided
    <2>2. s.profile.id \in Profiles \cup {NoProfile} /\ s.profile.legacy \in BOOLEAN /\ nvm.legacy[p] \in BOOLEAN
        BY ProfileFacts DEF Remotes
    <2>3. store = IF nvm.legacy[p] THEN Legacy ELSE p
        BY DEF StoreOf, Saved
    <2>4. Legacy \notin Profiles /\ Legacy # NoProfile
        BY ConstantsAssumption DEF Stores
    <2>5. CASE s.profile.legacy = FALSE
        <3>1. s.store = s.profile.id
            BY <2>1, <2>5 DEF StoreOf
        <3> QED BY <1>2, <2>2, <2>3, <2>4, <3>1
    <2>6. CASE s.profile.legacy = TRUE
        <3>1. s.store = Legacy
            BY <2>1, <2>6 DEF StoreOf
        <3>2. nvm.legacy[p] = TRUE
            BY <1>2, <2>2, <2>3, <2>4, <3>1
        <3> QED BY <1>2, <2>1, <2>6, <3>2 DEF Unused
    <2> QED BY <2>2, <2>5, <2>6
<1> HIDE DEF store
<1>3. \A op : Removing(op) => <<store, nvm.peer[p]>> # <<s.store, op[2]>>
    BY <1>2
<1>4. <<store, nvm.peer[p]>> \in nvm'.bonds
    BY <1>1, <1>3, BondsTaken
<1> QED BY <1>4 DEF store

\* Forgetting a profile never takes the bond another profile still uses, when the
\* waits and calls of a stop succeed (bt_runtime.c:264-274: bond_used_elsewhere).
THEOREM ForgetKeepsOtherBonds == CleanStops => (Spec => OtherBondsKept)
<1> SUFFICES ASSUME CleanStops PROVE Spec => OtherBondsKept
    OBVIOUS
<1> DEFINE Kept == \A p \in Profiles \ {s.profile.id} :
         nvm.peer[p] # NoPeer /\ HasBond(StoreOf(Saved(p)), nvm.peer[p])
             => <<StoreOf(Saved(p)), nvm.peer[p]>> \in nvm'.bonds
<1>1. TypeOK /\ BondInv /\ [Next]_vars => [Kept]_vars
    BY OthersKept
<1> QED BY <1>1, TypeCorrect, CopiesCorrect, PTL DEF Spec, OtherBondsKept
=============================================================================
