--------------------------- MODULE BtServiceProofs ---------------------------
(***************************************************************************)
(* Theorems about the session in use of the Bluetooth runtime, for any      *)
(* profiles, hosts, queue lengths and bounds.  It is under no deadline of   *)
(* its start, pairing or connection, the link it holds is the real one,     *)
(* encrypted, to the saved host, and that host is the one flash names.      *)
(* Each needs that certain messages are not refused by a full queue, or not *)
(* handled late; a theorem names them.                                      *)
(***************************************************************************)
EXTENDS BtBondProofs

-----------------------------------------------------------------------------
(* Deadlines of a session in use                                             *)

Restarts == {"restart", "release", "forget"}

\* a host that runs, or is about to, runs for a session
Seated ==
    /\ \A m \in Held : m.type \in {"OPEN", "SAVED", "FORGET"} => m.session # 0
    /\ HostOn(s) => s.session # 0 /\ s.generation # 0
    /\ (Winding \/ work.pc = "resume") /\ work.k \in Restarts => s.session # 0

\* before a host is taken for connected, the advertising it answered is known to
\* have started: the message that says so is queued ahead
Announcing(j) == Queued(j, "ADV_STARTED") /\ queue[j].ok = TRUE /\ queue[j].generation # 0
Announced ==
    Running /\ desired = s.session /\ "start" \in s.deadlines =>
        /\ ctl.adv # "off" \/ Attached => \E j \in 1..Len(queue) : Announcing(j)
        /\ \A i \in 1..Len(queue) : Queued(i, "CONNECTED") =>
              \E j \in 1..Len(queue) : j < i /\ Announcing(j)

\* a session is shown in use only while the worker holds its link
Untimed == s.connected = TRUE => "start" \notin s.deadlines
Used ==
    /\ work.pc \in Calm /\ InUse => s.connected = TRUE /\ s.deadlines \cap {"pair", "connect"} = {}
    /\ work.pc \notin Calm /\ work.k # "auth_retry" => ~InUse

TimedInv == Seated /\ Announced /\ Untimed /\ Used

LEMMA InUseFacts ==
    /\ InUse <=> snapshot.state \in {"CONNECTED", "SUSPENDED"}
    /\ InUse' <=> snapshot'.state \in {"CONNECTED", "SUSPENDED"}
BY DEF InUse

\* a message is taken, or none, and the radio is no more on than it was
LEMMA AnnouncedShrinks ==
    ASSUME TypeOK, Announced, Shrinks, s'.generation = s.generation,
           Running' /\ desired' = s'.session /\ "start" \in s'.deadlines =>
               /\ Running /\ desired = s.session /\ "start" \in s.deadlines
               /\ queue' = queue \/ ~Announcing(1),
           ctl'.adv # "off" => ctl.adv # "off", Attached' => Attached
    PROVE  Announced'
<1> SUFFICES ASSUME Running', desired' = s'.session, "start" \in s'.deadlines
             PROVE  /\ ctl'.adv # "off" \/ Attached' => \E j \in 1..Len(queue') : Announcing(j)'
                    /\ \A i \in 1..Len(queue') : Queued(i, "CONNECTED")' =>
                          \E j \in 1..Len(queue') : j < i /\ Announcing(j)'
    BY DEF Announced
<1>1. /\ ctl.adv # "off" \/ Attached => \E j \in 1..Len(queue) : Announcing(j)
      /\ \A i \in 1..Len(queue) : Queued(i, "CONNECTED") => \E j \in 1..Len(queue) : j < i /\ Announcing(j)
      /\ queue' = queue \/ ~Announcing(1)
    BY DEF Announced
<1>2. CASE queue' = queue
    <2>1. \A j : (Announcing(j)' <=> Announcing(j)) /\ (Queued(j, "CONNECTED")' <=> Queued(j, "CONNECTED"))
        BY <1>2 DEF Announcing, Queued
    <2> QED BY <1>1, <1>2, <2>1
<1>3. CASE ~Announcing(1)
    <2>1. PICK d \in {0, 1} :
             /\ Len(queue') = Len(queue) - d
             /\ \A i \in 1..Len(queue') : i + d \in 1..Len(queue) /\ queue'[i] = queue[i + d]
             /\ \A i, type : Queued(i, type)' => i \in 1..Len(queue') /\ Queued(i + d, type)
        BY ShrinksQueued
    <2>2. Len(queue) \in Nat /\ Len(queue') \in Nat
        BY <2>1, QueueFacts DEF TypeOK, Shrinks
    <2>3. ASSUME NEW j \in 1..Len(queue), Announcing(j)
          PROVE  j - d \in 1..Len(queue') /\ Announcing(j - d)'
        <3>1. j # 1
            BY <1>3, <2>3
        <3>2. j - d \in 1..Len(queue') /\ (j - d) + d = j
            BY <2>1, <2>2, <3>1
        <3>3. queue'[j - d] = queue[j]
            BY <2>1, <3>2
        <3> QED BY <2>3, <3>2, <3>3 DEF Announcing, Queued
    <2>4. ctl'.adv # "off" \/ Attached' => \E j \in 1..Len(queue') : Announcing(j)'
        BY <1>1, <2>3
    <2>5. ASSUME NEW i \in 1..Len(queue'), Queued(i, "CONNECTED")'
          PROVE  \E j \in 1..Len(queue') : j < i /\ Announcing(j)'
        <3>1. i + d \in 1..Len(queue) /\ Queued(i + d, "CONNECTED")
            BY <2>1, <2>5
        <3>2. PICK j \in 1..Len(queue) : j < i + d /\ Announcing(j)
            BY <1>1, <3>1
        <3>3. j - d < i
            BY <2>1, <2>2, <3>2
        <3> QED BY <2>3, <3>2, <3>3
    <2> QED BY <2>4, <2>5
<1> QED BY <1>1, <1>2, <1>3

\* a message is added that is no CONNECTED
LEMMA AnnouncedGrows ==
    ASSUME TypeOK, Announced, NEW type, type # "CONNECTED", Grows(type), s'.generation = s.generation,
           Running' /\ desired' = s'.session /\ "start" \in s'.deadlines =>
               Running /\ desired = s.session /\ "start" \in s.deadlines,
           ctl'.adv # "off" => ctl.adv # "off", Attached' => Attached
    PROVE  Announced'
<1> SUFFICES ASSUME Running', desired' = s'.session, "start" \in s'.deadlines
             PROVE  /\ ctl'.adv # "off" \/ Attached' => \E j \in 1..Len(queue') : Announcing(j)'
                    /\ \A i \in 1..Len(queue') : Queued(i, "CONNECTED")' =>
                          \E j \in 1..Len(queue') : j < i /\ Announcing(j)'
    BY DEF Announced
<1>1. /\ ctl.adv # "off" \/ Attached => \E j \in 1..Len(queue) : Announcing(j)
      /\ \A i \in 1..Len(queue) : Queued(i, "CONNECTED") => \E j \in 1..Len(queue) : j < i /\ Announcing(j)
    BY DEF Announced
<1>2. /\ Len(queue) \in Nat /\ Len(queue') \in {Len(queue), Len(queue) + 1}
      /\ \A i \in 1..Len(queue) : i \in 1..Len(queue') /\ queue'[i] = queue[i]
      /\ Len(queue') # Len(queue) => queue'[Len(queue')].type = type
    BY QueueFacts DEF Grows
<1>3. \A j \in 1..Len(queue) : j \in 1..Len(queue') /\ (Announcing(j) => Announcing(j)')
    BY <1>2 DEF Announcing, Queued
<1>4. \A i \in 1..Len(queue') : Queued(i, "CONNECTED")' => i \in 1..Len(queue) /\ Queued(i, "CONNECTED")
    BY <1>2 DEF Queued
<1> QED BY <1>1, <1>3, <1>4

\* the worker begins to stop
LEMMA StopTimed ==
    ASSUME TypeOK, Seated, HeldKept, work'.pc = "stop_adv", work'.k # "auth_retry", s'.deadlines = {}, ~InUse',
           HostOn(s') => s'.session # 0 /\ s'.generation # 0, work'.k \in Restarts => s'.session # 0
    PROVE  TimedInv'
<1>1. Winding' /\ ~Running' /\ work'.pc \notin Calm
    BY DEF Winding, Running, Calm, Posts
<1>2. Seated'
    BY DEF Seated, HeldKept
<1>3. Announced' /\ Untimed' /\ Used'
    BY <1>1 DEF Announced, Untimed, Used
<1> QED BY <1>2, <1>3 DEF TimedInv

\* what a stop leaves
LEMMA BeginStopFacts ==
    ASSUME NEW s1 \in WorkerType, NEW s2, DOMAIN s2 = DOMAIN s1, NEW shown, NEW k, NEW post, NEW m,
           BeginStop(s2, shown, k, post, m)
    PROVE  /\ s'.session = s2.session /\ s'.generation = s2.generation /\ s'.layers = s2.layers
           /\ s'.deadlines = {}
           /\ work'.pc = "stop_adv" /\ work'.k = k /\ work'.msg = m
           /\ On(s2) => snapshot'.state = "STOPPING"
           /\ ~On(s2) => snapshot' = shown
<1>1. s' = [s2 EXCEPT !.deadlines = {}, !.due = {}, !.awaiting_save = FALSE, !.forgetting = FALSE]
    BY DEF BeginStop, StoppedFlags
<1>2. /\ s'.session = s2.session /\ s'.generation = s2.generation /\ s'.layers = s2.layers
      /\ s'.deadlines = {}
    BY <1>1 DEF WorkerType
<1> QED BY <1>2 DEF BeginStop

\* a copy of the worker's state that a handler works on
Kin(s1) ==
    /\ s1 \in WorkerType /\ s1.session = s.session /\ s1.generation = s.generation /\ s1.layers = s.layers
    /\ s1.connected = s.connected /\ s1.deadlines \subseteq s.deadlines \cup {"save"}

LEMMA SelfKin == ASSUME TypeOK PROVE Kin(s)
BY DEF TypeOK, Kin

\* between two messages a session in use has its host
LEMMA InUseOn ==
    ASSUME TypeOK, LinkInv, Used, work.pc \in Calm, InUse
    PROVE  HostOn(s) /\ s.connected = TRUE /\ s.deadlines \cap {"pair", "connect"} = {}
<1>1. s.connected = TRUE /\ s.deadlines \cap {"pair", "connect"} = {}
    BY DEF Used
<1>2. HostOn(s)
    BY <1>1 DEF LinkInv, Aired
<1> QED BY <1>1, <1>2

LEMMA StopsHeld ==
    ASSUME Shrinks, queue' # queue => Len(queue) > 0 /\ work'.msg = queue[1], work'.k = "open" => queue' # queue
    PROVE  HeldKept
<1>1. \A i \in 1..Len(queue') : \E j \in 1..Len(queue) : queue'[i] = queue[j]
    BY DEF Shrinks
<1>2. queue' # queue => work'.msg \in Held
    BY DEF Held, Shrinks
<1>3. Opening' => work'.k = "open"
    BY DEF Opening
<1> QED BY <1>1, <1>2, <1>3 DEF HeldKept, Held

\* a handler gives up the runtime
LEMMA CalmStops ==
    ASSUME TypeOK, LinkInv, TimedInv, work.pc \in Calm \cup {"resume"}, HeldKept,
           NEW s1 \in WorkerType, s1.session = s.session, s1.generation = s.generation, s1.layers = s.layers,
           NEW k, k # "auth_retry", k \in Restarts => s.session # 0,
           NEW post, NEW m, BeginStop(s1, snapshot, k, post, m), work.pc = "resume" => work.k # "auth_retry"
    PROVE  TimedInv'
<1>1. /\ s'.session = s.session /\ s'.generation = s.generation /\ s'.layers = s.layers /\ s'.deadlines = {}
      /\ work'.pc = "stop_adv" /\ work'.k = k
      /\ On(s1) => snapshot'.state = "STOPPING"
      /\ ~On(s1) => snapshot' = snapshot
    BY BeginStopFacts
<1>2. ~InUse'
    <2>1. CASE On(s1)
        BY <1>1, <2>1, InUseFacts
    <2>2. CASE ~On(s1)
        <3>1. ~HostOn(s)
            BY <2>2 DEF On, HostOn
        <3>2. ~InUse
            <4>1. CASE work.pc \in Calm
                BY <3>1, <4>1, InUseOn DEF TimedInv
            <4>2. CASE work.pc = "resume"
                BY <4>2 DEF TimedInv, Used, Calm, Posts
            <4> QED BY <4>1, <4>2
        <3> QED BY <1>1, <2>2, <3>2, InUseFacts
    <2> QED BY <2>1, <2>2
<1>3. HostOn(s') => s'.session # 0 /\ s'.generation # 0
    BY <1>1 DEF TimedInv, Seated, HostOn
<1> QED BY <1>1, <1>2, <1>3, StopTimed DEF TimedInv

\* a handler goes on
LEMMA CalmGoes ==
    ASSUME TypeOK, LinkInv, TimedInv, work.pc \in Calm, work'.pc \in Calm, Shrinks, SameLink, ctl'.adv = ctl.adv,
           desired' = desired, s'.session = s.session, s'.generation = s.generation, s'.layers = s.layers,
           "start" \in s'.deadlines => "start" \in s.deadlines, s'.connected = TRUE => "start" \notin s'.deadlines,
           InUse' => s'.connected = TRUE /\ s'.deadlines \cap {"pair", "connect"} = {},
           "start" \in s'.deadlines /\ desired = s.session => queue' = queue \/ ~Announcing(1)
    PROVE  TimedInv'
<1>1. ~Winding /\ ~Winding' /\ work'.pc # "resume"
    BY DEF Winding, Calm, Posts
<1>2. Running' = Running /\ Attached' = Attached
    BY <1>1 DEF Running, HostOn, SameLink, Attached
<1>3. HeldKept
    BY HeldShrinks
<1>4. Seated'
    BY <1>1, <1>3 DEF TimedInv, Seated, HeldKept, HostOn
<1>5. Announced'
    BY <1>2, AnnouncedShrinks DEF TimedInv
<1>6. Untimed' /\ Used'
    BY DEF Untimed, Used
<1> QED BY <1>4, <1>5, <1>6 DEF TimedInv

\* the same with a copy of the state and the status as it was
LEMMA KinGoes ==
    ASSUME TypeOK, LinkInv, TimedInv, work.pc \in Calm, work'.pc \in Calm, Shrinks, SameLink, ctl'.adv = ctl.adv,
           desired' = desired, Kin(s'), ~InUse' \/ snapshot' = snapshot, queue' = queue \/ ~Announcing(1)
    PROVE  TimedInv'
<1>1. "start" \in s'.deadlines => "start" \in s.deadlines
    BY DEF Kin
<1>2. s'.connected = TRUE => "start" \notin s'.deadlines
    BY <1>1 DEF Kin, TimedInv, Untimed
<1>3. InUse' => s'.connected = TRUE /\ s'.deadlines \cap {"pair", "connect"} = {}
    <2>1. InUse' => InUse
        BY InUseFacts
    <2> QED BY <2>1, InUseOn DEF Kin, TimedInv
<1> QED BY <1>1, <1>2, <1>3, CalmGoes DEF Kin

LEMMA NotAnnouncing ==
    ASSUME TypeOK, NEW types, Take(types), "ADV_STARTED" \notin types
    PROVE  ~Announcing(1)
BY TakeShrinks DEF Announcing, Queued

LEMMA ReadyIfSubscribedTimed ==
    ASSUME TypeOK, LinkInv, TimedInv, work.pc \in Calm, Shrinks, SameLink, ctl' = ctl, desired' = desired,
           NEW s1, Kin(s1), NEW post \in Calm, NEW m, ReadyIfSubscribed(s1, post, m),
           ~Announcing(1)
    PROVE  TimedInv'
<1>1. CASE s' = s1 /\ snapshot' = snapshot /\ work' = [work EXCEPT !.pc = post, !.msg = m]
    <2>1. work'.pc = post
        BY <1>1 DEF TypeOK, WorkType
    <2>2. Kin(s')
        BY <1>1 DEF Kin
    <2> QED BY <1>1, <2>1, <2>2, KinGoes
<1>2. CASE /\ Usable(s1)
           /\ s' = [(IF ccc THEN Clear(s1, {"connect", "pair"}) ELSE s1) EXCEPT !.subscribed = ccc]
           /\ Status(s1, IF ~ccc THEN "CONNECTING" ELSE IF s1.suspended THEN "SUSPENDED" ELSE "CONNECTED")
           /\ work' = [work EXCEPT !.pc = post, !.msg = m]
    <2> DEFINE cleared == Clear(s1, {"connect", "pair"})
               base == IF ccc THEN cleared ELSE s1
    <2>1. work'.pc = post /\ ccc \in BOOLEAN /\ s1 \in WorkerType
        BY <1>2 DEF TypeOK, WorkType, Kin
    <2>2. /\ cleared \in WorkerType /\ cleared.session = s1.session /\ cleared.generation = s1.generation
          /\ cleared.layers = s1.layers /\ cleared.connected = s1.connected
          /\ cleared.deadlines = s1.deadlines \ {"connect", "pair"}
        BY <2>1, ClearType, ClearSets
    <2>3. s' = [base EXCEPT !.subscribed = ccc]
        BY <1>2
    <2>4. (ccc = TRUE => base = cleared) /\ (base = cleared \/ base = s1)
        OBVIOUS
    <2> HIDE DEF cleared, base
    <2>5. /\ base \in WorkerType /\ base.session = s1.session /\ base.generation = s1.generation
          /\ base.layers = s1.layers /\ base.connected = s1.connected /\ base.deadlines \subseteq s1.deadlines
          /\ ccc = TRUE => base.deadlines \cap {"connect", "pair"} = {}
        BY <2>1, <2>2, <2>4
    <2>6. /\ s' \in WorkerType /\ s'.session = s1.session /\ s'.generation = s1.generation
          /\ s'.layers = s1.layers /\ s'.connected = s1.connected /\ s'.deadlines = base.deadlines
        BY <2>1, <2>3, <2>5 DEF WorkerType
    <2>7. Kin(s')
        BY <2>5, <2>6 DEF Kin
    <2>8. snapshot'.state = IF ~ccc THEN "CONNECTING" ELSE IF s1.suspended THEN "SUSPENDED" ELSE "CONNECTED"
        BY <1>2 DEF Status
    <2>9. InUse' => ccc = TRUE
        BY <2>1, <2>8, InUseFacts
    <2>10. s'.connected = TRUE
        BY <1>2, <2>6 DEF Usable, Kin, WorkerType
    <2>11. "start" \in s'.deadlines => "start" \in s.deadlines
        BY <2>7 DEF Kin
    <2>12. "start" \notin s'.deadlines
        BY <2>7, <2>10, <2>11 DEF Kin, TimedInv, Untimed
    <2>13. InUse' => s'.deadlines \cap {"pair", "connect"} = {}
        BY <2>5, <2>6, <2>9
    <2> QED BY <2>1, <2>7, <2>10, <2>11, <2>12, <2>13, CalmGoes DEF Kin
<1>3. CASE BeginStop(s1, snapshot, "fail", post, m)
    <2>1. work'.k = "fail"
        BY <1>3 DEF BeginStop
    <2>2. HeldKept
        BY <2>1, HeldShrinks
    <2> QED BY <1>3, <2>2, CalmStops DEF Kin, Restarts, Calm, Posts
<1> QED BY <1>1, <1>2, <1>3 DEF ReadyIfSubscribed

LEMMA ApiHandlersTimed ==
    ASSUME TypeOK, LinkInv, TimedInv, ApiHandlers
    PROVE  TimedInv'
<1>1. PICK types : Take(types)
    BY DEF ApiHandlers, HandleOpen, HandleForget, HandleSaved, HandleTap, HandleRelease, HandleClose, HandleDropped
<1>2. /\ s \in WorkerType /\ work \in WorkType /\ work.pc \in Calm /\ work.pc = "idle"
      /\ {"idle", "tail", "after"} \subseteq Calm
    BY <1>1 DEF TypeOK, Posts, Calm, Take
<1>3. SameLink /\ UNCHANGED <<ctl, desired>>
    BY DEF ApiHandlers, HandleOpen, HandleForget, HandleSaved, HandleTap, HandleRelease, HandleClose,
           HandleDropped, Outside, SameLink
<1>4. Shrinks /\ Len(queue) > 0 /\ Msg = queue[1] /\ Msg \in Messages
    BY <1>1, TakeShrinks
<1>5. Msg \in Held
    BY <1>4, QueueFacts DEF Held
<1>6. ASSUME NEW pc \in {"idle", "tail", "after"}, Done(pc), UNCHANGED <<snapshot, s>>, ~Announcing(1)
      PROVE  TimedInv'
    <2>1. work'.pc \in Calm
        BY <1>2, <1>6 DEF Done, WorkType
    <2>2. Kin(s')
        BY <1>6, SelfKin
    <2> QED BY <1>2, <1>3, <1>4, <1>6, <2>1, <2>2, KinGoes
<1>7. ASSUME NEW s1 \in WorkerType, s1.session = s.session, s1.generation = s.generation, s1.layers = s.layers,
             NEW k, k # "auth_retry", k \in Restarts => s.session # 0, NEW post, BeginStop(s1, snapshot, k, post, Msg)
      PROVE  TimedInv'
    <2>1. work'.msg = queue[1] /\ work'.k = k
        BY <1>4, <1>7 DEF BeginStop
    <2>2. queue' # queue
        <3>1. queue \in Seq(Messages) /\ queue # << >> /\ queue' = Tail(queue)
            BY <1>1 DEF TypeOK, Take
        <3>2. Len(queue) \in Nat /\ Len(Tail(queue)) = Len(queue) - 1
            BY <3>1
        <3>3. Len(Tail(queue)) # Len(queue)
            BY <3>2
        <3>4. \A q : q = Tail(queue) => Len(q) # Len(queue)
            BY ONLY <3>3
        <3>5. queue # Tail(queue)
            BY ONLY <3>4
        <3> QED BY <3>1, <3>5
    <2>3. HeldKept
        BY <1>4, <2>1, <2>2, StopsHeld
    <2> QED BY <1>2, <1>7, <2>3, CalmStops
<1>8. CASE HandleOpen
    <2>1. ~Announcing(1)
        BY <1>8, NotAnnouncing DEF HandleOpen
    <2> QED BY <1>2, <1>6, <1>7, <1>8, <2>1 DEF HandleOpen, Restarts
<1>9. ASSUME Msg.type \in {"FORGET", "SAVED"}
      PROVE  Msg.session # 0
    BY <1>5, <1>9 DEF TimedInv, Seated
<1>10. CASE HandleForget
    <2>1. Msg.session # 0 /\ Msg.session = s.session
        BY <1>9, <1>10 DEF HandleForget, Take, Msg
    <2> QED BY <1>2, <1>7, <1>10, <2>1 DEF HandleForget
<1>11. CASE HandleSaved
    <2> DEFINE cleared == Clear(s, {"save"})
               ack     == [cleared EXCEPT !.awaiting_save = FALSE]
               done    == [ack EXCEPT !.profile = Msg.remote, !.forgetting = FALSE]
               saved   == [ack EXCEPT !.saved = TRUE, !.pairing = FALSE]
    <2>1. Msg.remote \in Remotes /\ s.session # 0
        BY <1>4, <1>9, <1>11 DEF Messages, HandleSaved, Take, Msg
    <2>2. /\ cleared \in WorkerType /\ cleared.session = s.session /\ cleared.generation = s.generation
          /\ cleared.layers = s.layers /\ cleared.connected = s.connected /\ cleared.deadlines \subseteq s.deadlines
        BY <1>2, ClearType, ClearSets
    <2>3. AckFlags = ack
        BY DEF AckFlags
    <2> HIDE DEF cleared
    <2>4. Kin(ack)
        BY <2>2 DEF Kin, WorkerType
    <2> HIDE DEF ack
    <2>5. Kin(done) /\ Kin(saved)
        BY <2>1, <2>4 DEF Kin, WorkerType
    <2>6. \/ BeginStop(ack, snapshot, "fail", "idle", Msg)
          \/ BeginStop(done, snapshot, IF s.pair_after THEN "restart" ELSE "unpair", "tail", Msg)
          \/ BeginStop(saved, snapshot, "restart", "tail", Msg)
          \/ ReadyIfSubscribed(saved, "tail", Msg)
        BY <1>11, <2>3 DEF HandleSaved
    <2> HIDE DEF done, saved
    <2>7. CASE ReadyIfSubscribed(saved, "tail", Msg)
        <3>1. ~Announcing(1)
            BY <1>11, NotAnnouncing DEF HandleSaved
        <3> QED BY <1>2, <1>3, <1>4, <2>5, <2>7, <3>1, ReadyIfSubscribedTimed
    <2> QED BY <1>7, <2>1, <2>4, <2>5, <2>6, <2>7 DEF Kin
<1>12. s.connected => s.session # 0
    <2>1. s.connected => HostOn(s)
        BY <1>2 DEF LinkInv, Aired, WorkerType
    <2> QED BY <2>1 DEF TimedInv, Seated
<1>13. CASE HandleTap
    <2>1. ~Announcing(1)
        BY <1>13, NotAnnouncing DEF HandleTap
    <2> QED BY <1>2, <1>6, <1>7, <1>12, <1>13, <2>1 DEF HandleTap, InputActive
<1>14. CASE HandleRelease
    <2>1. ~Announcing(1)
        BY <1>14, NotAnnouncing DEF HandleRelease
    <2> QED BY <1>2, <1>6, <1>7, <1>12, <1>14, <2>1 DEF HandleRelease, ReleaseFails
<1>15. CASE HandleClose
    <2>1. ~Announcing(1)
        BY <1>15, NotAnnouncing DEF HandleClose
    <2> QED BY <1>6, <1>15, <2>1 DEF HandleClose
<1>16. CASE HandleDropped
    <2>1. PICK pc \in {"idle", "tail", "after"} : Done(pc)
        BY <1>16 DEF HandleDropped
    <2>2. s' = s /\ snapshot' = snapshot
        BY <1>16 DEF HandleDropped
    <2>3. CASE ~Announcing(1)
        BY <1>6, <2>1, <2>2, <2>3
    <2>4. CASE Announcing(1)
        <3>1. Msg.type = "ADV_STARTED" /\ Msg.generation = s.generation /\ Msg.generation # 0
            BY <1>4, <2>4 DEF Announcing, Queued
        <3>2. ~HostOn(s) \/ desired # s.session
            BY <1>16, <3>1 DEF HandleDropped, Current, ApiTypes
        <3>3. work'.pc \in Calm
            BY <1>2, <2>1 DEF Done, WorkType
        <3>4. "start" \in s'.deadlines /\ desired = s.session => ~Running'
            BY <2>2, <3>2 DEF Running
        <3>5. Announced'
            BY <1>3, <2>2, <3>4 DEF Announced
        <3>6. ~Winding /\ ~Winding' /\ work'.pc # "resume"
            BY <1>2, <3>3 DEF Winding, Calm, Posts
        <3>7. HeldKept
            BY <1>4, <3>3, HeldShrinks
        <3>8. Seated'
            BY <2>2, <3>6, <3>7 DEF TimedInv, Seated, HeldKept, HostOn
        <3>9. Untimed' /\ Used'
            BY <1>2, <2>2, <3>3, InUseFacts DEF TimedInv, Untimed, Used
        <3> QED BY <3>5, <3>8, <3>9 DEF TimedInv
    <2> QED BY <2>3, <2>4
<1> QED BY <1>8, <1>10, <1>11, <1>13, <1>14, <1>15, <1>16 DEF ApiHandlers

LEMMA RequestTimed ==
    ASSUME TypeOK, LinkInv, TimedInv, work.pc \in Calm, Shrinks, SameLink, desired' = desired,
           NEW s1, Kin(s1), NEW op, Request(s1, op), ~Announcing(1)
    PROVE  TimedInv'
<1>0. "after" \in Calm /\ "resume" \notin Calm
    BY DEF Calm, Posts
<1>1. CASE /\ s' = s1 /\ ctl' = [ctl EXCEPT !.ops = @ \cup {op}] /\ Done("after") /\ snapshot' = snapshot
    <2>1. ctl'.adv = ctl.adv /\ work'.pc \in Calm
        BY <1>0, <1>1, DoneFacts DEF TypeOK, CtlType
    <2>2. Kin(s')
        BY <1>1 DEF Kin
    <2> QED BY <1>1, <2>1, <2>2, KinGoes
<1>2. CASE BeginStop(s1, snapshot, "fail", "after", Msg) /\ ctl' = ctl
    <2>1. work'.k = "fail"
        BY <1>2 DEF BeginStop
    <2>2. HeldKept
        BY <2>1, HeldShrinks
    <2> QED BY <1>0, <1>2, <2>2, CalmStops DEF Kin, Restarts
<1> QED BY <1>1, <1>2 DEF Request

LEMMA SetFlagsTimed ==
    ASSUME TypeOK, LinkInv, TimedInv, work.pc \in Calm, Shrinks, SameLink, desired' = desired,
           NEW s1, Kin(s1), SetFlags(s1), ~Announcing(1)
    PROVE  TimedInv'
<1>1. "after" \in Calm /\ s' = s1 /\ Done("after") /\ UNCHANGED <<snapshot, ctl>>
    BY DEF Calm, Posts, SetFlags
<1>2. work'.pc \in Calm /\ Kin(s')
    BY <1>1, DoneFacts DEF Kin
<1> QED BY <1>1, <1>2, KinGoes

LEMMA SetupTimed ==
    ASSUME TypeOK, LinkInv, TimedInv,
           HandleGate \/ HandleHidReady \/ HandlePrivacy \/ HandleWhitelist \/ HandlePeerPrivacy
    PROVE  TimedInv'
<1>1. PICK types \in {{"ADV_DATA", "SCAN_DATA", "ADDRESS"}, {"HID_READY"}, {"PRIVACY"},
                      {"WHITELIST_CLEAR", "WHITELIST_ADD"}, {"PEER_PRIVACY"}} : TakeCallback(types)
    BY DEF HandleGate, HandleHidReady, HandlePrivacy, HandleWhitelist, HandlePeerPrivacy
<1>2. /\ Shrinks /\ work.pc \in Calm /\ "after" \in Calm /\ s \in WorkerType /\ Msg \in Messages
    BY <1>1, CallbackTaken
<1>3. ~Announcing(1)
    BY <1>1, NotAnnouncing DEF TakeCallback
<1>4. SameLink /\ desired' = desired
    BY DEF HandleGate, HandleHidReady, HandlePrivacy, HandleWhitelist, HandlePeerPrivacy, Outside, SameLink
<1>5. ASSUME NEW s1, Kin(s1), SetFlags(s1)
      PROVE  TimedInv'
    BY <1>2, <1>3, <1>4, <1>5, SetFlagsTimed
<1>6. ASSUME NEW s1, Kin(s1), NEW op, Request(s1, op)
      PROVE  TimedInv'
    BY <1>2, <1>3, <1>4, <1>6, RequestTimed
<1>7. CASE HandleGate \/ HandleHidReady
    <2>1. UNCHANGED <<snapshot, ctl>> /\ work'.pc = "after"
        BY <1>7 DEF HandleGate, HandleHidReady, Done, TypeOK, WorkType
    <2>2. PICK ready \in SUBSET ReadyFlags : s' = [s EXCEPT !.ready = ready]
        <3>1. CASE HandleGate
            <4>1. Msg.type \in {"ADV_DATA", "SCAN_DATA", "ADDRESS"}
                BY <3>1 DEF HandleGate, TakeCallback, Take, Msg
            <4>2. GateOf[Msg.type] \in {"adv_data", "scan_data", "address"}
                BY <4>1 DEF GateOf
            <4> QED BY <1>2, <3>1, <4>2 DEF HandleGate, WorkerType, ReadyFlags
        <3>2. CASE HandleHidReady
            BY <1>2, <3>2 DEF HandleHidReady, WorkerType, ReadyFlags
        <3> QED BY <1>7, <3>1, <3>2
    <2>3. Kin(s')
        BY <1>2, <2>2 DEF Kin, WorkerType
    <2> QED BY <1>2, <1>3, <1>4, <2>1, <2>3, KinGoes
<1>8. CASE HandlePrivacy
    <2>1. \/ Request([s EXCEPT !.phase = "preparing"], Op("wl_clear"))
          \/ SetFlags([s EXCEPT !.phase = "ready", !.ready = @ \cup {"privacy"}])
          \/ SetFlags(s)
        BY <1>8 DEF HandlePrivacy
    <2>2. Kin([s EXCEPT !.phase = "preparing"]) /\ Kin([s EXCEPT !.phase = "ready", !.ready = @ \cup {"privacy"}])
        BY <1>2 DEF Kin, WorkerType, ReadyFlags
    <2> QED BY <1>5, <1>6, <2>1, <2>2, SelfKin
<1>9. CASE HandleWhitelist
    <2>1. \/ SetFlags(s)
          \/ Request(s, <<"wl_add", s.profile.peer>>)
          \/ Request([s EXCEPT !.ready = @ \cup {"whitelist"}], Op("peer_privacy"))
          \/ SetFlags([s EXCEPT !.ready = @ \cup {"whitelist", "privacy"}, !.phase = "ready"])
        <3>1. Msg.ok \in BOOLEAN /\ Msg.type \in {"WHITELIST_CLEAR", "WHITELIST_ADD"} /\ s.pairing \in BOOLEAN
            BY <1>2, <1>9 DEF HandleWhitelist, TakeCallback, Take, Msg, Messages, WorkerType
        <3> QED BY <1>9, <3>1 DEF HandleWhitelist
    <2>2. /\ Kin([s EXCEPT !.ready = @ \cup {"whitelist"}])
          /\ Kin([s EXCEPT !.ready = @ \cup {"whitelist", "privacy"}, !.phase = "ready"])
        BY <1>2 DEF Kin, WorkerType, ReadyFlags
    <2> QED BY <1>5, <1>6, <2>1, <2>2, SelfKin
<1>10. CASE HandlePeerPrivacy
    <2>1. Request([s EXCEPT !.phase = "enabling"], Op("privacy_on")) \/ SetFlags(s)
        BY <1>10 DEF HandlePeerPrivacy
    <2>2. Kin([s EXCEPT !.phase = "enabling"])
        BY <1>2 DEF Kin, WorkerType
    <2> QED BY <1>5, <1>6, <2>1, <2>2, SelfKin
<1> QED BY <1>7, <1>8, <1>9, <1>10

\* advertising has started: its message ends the start deadline
LEMMA HandleAdvStartedTimed ==
    ASSUME TypeOK, LinkInv, TimedInv, HandleAdvStarted
    PROVE  TimedInv'
<1>1. TakeCallback({"ADV_STARTED"})
    BY DEF HandleAdvStarted
<1>2. /\ Shrinks /\ work.pc \in Calm /\ "after" \in Calm /\ s \in WorkerType /\ Msg \in Messages
    BY <1>1, CallbackTaken
<1>3. SameLink /\ desired' = desired /\ ctl' = ctl /\ work'.pc \in Calm
    BY <1>2, DoneFacts DEF HandleAdvStarted, Outside, SameLink
<1>4. CASE ~Msg.ok
    <2>1. Kin(s') /\ snapshot' = snapshot
        BY <1>4, SelfKin DEF HandleAdvStarted
    <2>2. ~Announcing(1)
        <3>1. Msg = queue[1]
            BY <1>1, TakeShrinks DEF TakeCallback
        <3> QED BY <1>2, <1>4, <3>1 DEF Announcing, Messages
    <2> QED BY <1>2, <1>3, <2>1, <2>2, KinGoes
<1>5. CASE Msg.ok
    <2>1. s' = Clear(s, {"start"}) /\ snapshot'.state \in {"PAIRING", "RECONNECTING"}
        BY <1>5 DEF HandleAdvStarted, Advertised, Status
    <2>2. /\ s'.session = s.session /\ s'.generation = s.generation /\ s'.layers = s.layers
          /\ "start" \notin s'.deadlines
        BY <1>2, <2>1 DEF Clear, WorkerType
    <2>3. ~InUse'
        BY <2>1, InUseFacts
    <2> QED BY <1>2, <1>3, <2>2, <2>3, CalmGoes
<1> QED BY <1>4, <1>5

\* a host has connected: advertising was known to have started
LEMMA HandleConnectedTimed ==
    ASSUME TypeOK, LinkInv, TimedInv, HandleConnected
    PROVE  TimedInv'
<1>1. TakeCallback({"CONNECTED"})
    BY DEF HandleConnected
<1>2. /\ Shrinks /\ work.pc \in Calm /\ "after" \in Calm /\ s \in WorkerType /\ Running
      /\ Msg.type = "CONNECTED" /\ Queued(1, Msg.type)
    BY <1>1, CallbackTaken
<1>3. SameLink /\ desired' = desired /\ ctl' = ctl /\ work'.pc \in Calm
    BY <1>2, DoneFacts DEF HandleConnected, Outside, SameLink
<1>4. ~Announcing(1)
    BY <1>1, NotAnnouncing DEF TakeCallback
<1>5. CASE s.connected
    <2>1. Kin(s') /\ snapshot' = snapshot
        BY <1>5, SelfKin DEF HandleConnected
    <2> QED BY <1>2, <1>3, <1>4, <2>1, KinGoes
<1>6. CASE ~s.connected
    <2> DEFINE armed == Arm(s, "connect")
    <2>1. s' = [armed EXCEPT !.connected = TRUE, !.advertising = FALSE] /\ snapshot'.state = "CONNECTING"
        BY <1>6 DEF HandleConnected, Status
    <2>2. /\ armed \in WorkerType /\ armed.session = s.session /\ armed.generation = s.generation
          /\ armed.layers = s.layers /\ armed.deadlines = s.deadlines \cup {"connect"}
        BY <1>2, ArmType, ArmSets DEF Deadlines
    <2> HIDE DEF armed
    <2>3. /\ s'.session = s.session /\ s'.generation = s.generation /\ s'.layers = s.layers
          /\ s'.deadlines = s.deadlines \cup {"connect"}
        BY <2>1, <2>2 DEF WorkerType
    <2>4. "start" \notin s.deadlines
        <3>1. desired = s.session
            BY <1>1 DEF TakeCallback
        <3>2. 1 \in 1..Len(queue) /\ \A j \in 1..Len(queue) : ~(j < 1)
            BY <1>2, QueueFacts DEF Queued
        <3> QED BY <1>2, <3>1, <3>2 DEF TimedInv, Announced
    <2>5. ~InUse' /\ "start" \notin s'.deadlines
        BY <2>1, <2>3, <2>4, InUseFacts
    <2> QED BY <1>2, <1>3, <2>3, <2>5, CalmGoes
<1> QED BY <1>5, <1>6

LEMMA HandleDisconnectedTimed ==
    ASSUME TypeOK, LinkInv, TimedInv, HandleDisconnected
    PROVE  TimedInv'
<1> DEFINE lost == [Clear(Unlinked(s), {"connect"}) EXCEPT !.suspended = FALSE]
<1>1. TakeCallback({"DISCONNECTED"})
    BY DEF HandleDisconnected
<1>2. /\ Shrinks /\ work.pc \in Calm /\ "after" \in Calm /\ Running /\ s \in WorkerType
    BY <1>1, CallbackTaken
<1>3. SameLink /\ UNCHANGED <<desired, ctl>> /\ ~Announcing(1)
    BY <1>1, NotAnnouncing DEF HandleDisconnected, Outside, SameLink, TakeCallback
<1>4. /\ lost \in WorkerType /\ lost.session = s.session /\ lost.generation = s.generation
      /\ lost.layers = s.layers /\ lost.connected = FALSE /\ lost.deadlines \subseteq s.deadlines
    <2> DEFINE gone == Unlinked(s)
    <2>1. /\ gone \in WorkerType /\ gone.session = s.session /\ gone.generation = s.generation
          /\ gone.layers = s.layers /\ gone.connected = FALSE /\ gone.deadlines = s.deadlines
        BY <1>2, UnlinkedType, UnlinkedSets
    <2> DEFINE cleared == Clear(gone, {"connect"})
    <2> HIDE DEF gone
    <2>2. cleared \in WorkerType
        BY <2>1, ClearType
    <2>3. /\ cleared.session = s.session /\ cleared.generation = s.generation /\ cleared.layers = s.layers
          /\ cleared.connected = FALSE /\ cleared.deadlines \subseteq s.deadlines
        BY <2>1 DEF Clear, WorkerType
    <2>4. lost = [cleared EXCEPT !.suspended = FALSE]
        BY DEF gone
    <2> HIDE DEF cleared, lost
    <2> QED BY <2>2, <2>3, <2>4 DEF WorkerType
<1>5. \/ Done("after") /\ UNCHANGED <<s, snapshot>>
      \/ BeginStop(lost, snapshot, "restart", "after", Msg)
      \/ s' = lost /\ Done("after") /\ Status(s, "PAIRING")
    <2>1. s.connected \in BOOLEAN /\ s.saved \in BOOLEAN
        BY <1>2 DEF WorkerType
    <2> QED BY <2>1 DEF HandleDisconnected
<1> HIDE DEF lost
<1>6. CASE Done("after") /\ UNCHANGED <<s, snapshot>>
    BY <1>2, <1>3, <1>6, SelfKin, DoneFacts, KinGoes
<1>7. CASE BeginStop(lost, snapshot, "restart", "after", Msg)
    <2>1. work'.k = "restart" /\ s.session # 0
        BY <1>2, <1>7 DEF BeginStop, TimedInv, Seated, Running
    <2>2. HeldKept
        BY <1>2, <2>1, HeldShrinks
    <2> QED BY <1>2, <1>4, <1>7, <2>1, <2>2, CalmStops DEF Calm, Posts
<1>8. CASE s' = lost /\ Done("after") /\ Status(s, "PAIRING")
    <2>1. ~InUse' /\ work'.pc \in Calm
        BY <1>2, <1>8, DoneFacts, InUseFacts DEF Status
    <2>2. ~(s'.connected = TRUE) /\ ("start" \in s'.deadlines => "start" \in s.deadlines)
        BY <1>4, <1>8
    <2> QED BY <1>2, <1>3, <1>4, <1>8, <2>1, <2>2, CalmGoes
<1> QED BY <1>5, <1>6, <1>7, <1>8

LEMMA HandleAuthFailedTimed ==
    ASSUME TypeOK, LinkInv, TimedInv, HandleAuthFailed
    PROVE  TimedInv'
<1>1. TakeCallback({"AUTH"})
    BY DEF HandleAuthFailed
<1>2. /\ Shrinks /\ work.pc \in Calm /\ Running /\ s \in WorkerType
    BY <1>1, CallbackTaken
<1>3. SameLink /\ UNCHANGED <<desired, ctl>> /\ ~Announcing(1)
    BY <1>1, NotAnnouncing DEF HandleAuthFailed, Outside, SameLink, TakeCallback
<1>4. CASE s.pairing
    <2>1. /\ s' = [s EXCEPT !.encrypted = FALSE, !.subscribed = FALSE]
          /\ work'.pc = "disconnect" /\ work'.k = "auth_retry"
        BY <1>4 DEF HandleAuthFailed
    <2>2. /\ s'.session = s.session /\ s'.generation = s.generation /\ s'.layers = s.layers
          /\ s'.connected = s.connected /\ s'.deadlines = s.deadlines
        BY <1>2, <2>1 DEF WorkerType
    <2>3. HeldKept
        BY <1>2, <2>1, HeldShrinks
    <2>4. work'.pc \notin Calm /\ ~Winding'
        BY <2>1 DEF Calm, Posts, Winding
    <2>5. Seated'
        BY <2>1, <2>2, <2>3, <2>4 DEF TimedInv, Seated, HeldKept, HostOn
    <2>6. Announced'
        <3>1. Attached' = Attached
            BY <1>3 DEF Attached, SameLink
        <3> QED BY <1>2, <1>3, <2>2, <3>1, AnnouncedShrinks DEF TimedInv
    <2>7. Untimed' /\ Used'
        BY <2>1, <2>2, <2>4 DEF TimedInv, Untimed, Used
    <2> QED BY <2>5, <2>6, <2>7 DEF TimedInv
<1>5. CASE ~s.pairing
    <2>1. BeginStop(s, snapshot, "fail", "after", Msg)
        BY <1>5 DEF HandleAuthFailed
    <2>2. work'.k = "fail"
        BY <2>1 DEF BeginStop
    <2>3. HeldKept
        BY <1>2, <2>2, HeldShrinks
    <2> QED BY <1>2, <2>1, <2>3, CalmStops DEF Restarts, Calm, Posts
<1> QED BY <1>4, <1>5

LEMMA HandleAuthOkTimed ==
    ASSUME TypeOK, LinkInv, TimedInv, HandleAuthOk
    PROVE  TimedInv'
<1>1. TakeCallback({"AUTH"})
    BY DEF HandleAuthOk
<1>2. /\ Shrinks /\ work.pc \in Calm /\ "after" \in Calm /\ s \in WorkerType /\ Msg \in Messages
    BY <1>1, CallbackTaken
<1>3. SameLink /\ UNCHANGED <<desired, ctl>> /\ ~Announcing(1)
    BY <1>1, NotAnnouncing DEF HandleAuthOk, SameLink, TakeCallback
<1> DEFINE peered    == [s EXCEPT !.encrypted = TRUE, !.profile.peer = Msg.peer]
           encrypted == [s EXCEPT !.encrypted = TRUE]
<1>4. \/ BeginStop(s, snapshot, "fail", "after", Msg)
      \/ s' = AwaitingSave(peered) /\ Done("after") /\ snapshot' = snapshot
      \/ ReadyIfSubscribed(encrypted, "after", Msg)
    BY DEF HandleAuthOk
<1>5. Kin(encrypted)
    BY <1>2 DEF Kin, WorkerType
<1>6. Kin(AwaitingSave(peered))
    <2>1. Msg.peer \in Peers /\ s.profile \in Remotes
        BY <1>2 DEF Messages, WorkerType
    <2>2. [s.profile EXCEPT !.peer = Msg.peer] \in Remotes
        BY <2>1 DEF Remotes
    <2>3. peered \in WorkerType /\ peered.session = s.session /\ peered.generation = s.generation
          /\ peered.layers = s.layers /\ peered.connected = s.connected /\ peered.deadlines = s.deadlines
        BY <1>2, <2>2 DEF WorkerType
    <2> HIDE DEF peered
    <2>4. AwaitingSave(peered) \in WorkerType
        BY <2>3, AwaitingSaveType
    <2>5. /\ AwaitingSave(peered).session = peered.session
          /\ AwaitingSave(peered).generation = peered.generation /\ AwaitingSave(peered).layers = peered.layers
          /\ AwaitingSave(peered).connected = peered.connected
          /\ AwaitingSave(peered).deadlines = peered.deadlines \cup {"save"}
        BY <2>3 DEF AwaitingSave, Arm, WorkerType
    <2> QED BY <2>3, <2>4, <2>5 DEF Kin
<1> HIDE DEF peered, encrypted
<1>7. CASE s' = AwaitingSave(peered) /\ Done("after") /\ snapshot' = snapshot
    <2>1. Kin(s') /\ work'.pc \in Calm
        BY <1>2, <1>6, <1>7, DoneFacts DEF Kin
    <2> QED BY <1>2, <1>3, <1>7, <2>1, KinGoes
<1>8. CASE ReadyIfSubscribed(encrypted, "after", Msg)
    BY <1>2, <1>3, <1>5, <1>8, ReadyIfSubscribedTimed
<1>9. CASE BeginStop(s, snapshot, "fail", "after", Msg)
    <2>1. work'.k = "fail"
        BY <1>9 DEF BeginStop
    <2>2. HeldKept
        BY <1>2, <2>1, HeldShrinks
    <2> QED BY <1>2, <1>9, <2>2, CalmStops DEF Restarts, Calm, Posts
<1> QED BY <1>4, <1>7, <1>8, <1>9

LEMMA HandleWriteSuspendTimed ==
    ASSUME TypeOK, LinkInv, TimedInv, HandleWrite \/ HandleSuspend
    PROVE  TimedInv'
<1>1. PICK types \in {{"WRITE"}, {"SUSPEND"}} : TakeCallback(types)
    BY DEF HandleWrite, HandleSuspend
<1>2. /\ Shrinks /\ work.pc \in Calm /\ "after" \in Calm /\ s \in WorkerType /\ Msg \in Messages /\ Running
    BY <1>1, CallbackTaken
<1>3. SameLink /\ UNCHANGED <<desired, ctl>> /\ ~Announcing(1)
    BY <1>1, NotAnnouncing DEF HandleWrite, HandleSuspend, SameLink, TakeCallback
<1>4. Kin([s EXCEPT !.suspended = Msg.flag])
    BY <1>2 DEF Kin, WorkerType, Messages
<1>5. \/ ReadyIfSubscribed(s, "after", Msg)
      \/ ReadyIfSubscribed([s EXCEPT !.suspended = Msg.flag], "after", Msg)
      \/ BeginStop(s, snapshot, "release", "after", Msg)
    BY DEF HandleWrite, HandleSuspend
<1>6. CASE BeginStop(s, snapshot, "release", "after", Msg)
    <2>1. work'.k = "release" /\ s.session # 0
        BY <1>2, <1>6 DEF BeginStop, TimedInv, Seated, Running
    <2>2. HeldKept
        BY <1>2, <2>1, HeldShrinks
    <2> QED BY <1>2, <1>6, <2>1, <2>2, CalmStops DEF Calm, Posts
<1> QED BY <1>2, <1>3, <1>4, <1>5, <1>6, SelfKin, ReadyIfSubscribedTimed

LEMMA CallbackHandlersTimed ==
    ASSUME TypeOK, LinkInv, TimedInv, CallbackHandlers
    PROVE  TimedInv'
BY SetupTimed, HandleAdvStartedTimed, HandleConnectedTimed, HandleDisconnectedTimed, HandleAuthFailedTimed,
   HandleAuthOkTimed, HandleWriteSuspendTimed DEF CallbackHandlers

\* the end of an iteration: advertising is never begun under a link
LEMMA TailTimed ==
    ASSUME TypeOK, LinkInv, TimedInv, AfterCallback \/ Advertise \/ Poll \/ TailClose \/ TailExpired \/ TailDone
    PROVE  TimedInv'
<1>1. /\ s \in WorkerType /\ work \in WorkType /\ ctl \in CtlType /\ work.pc \in {"idle", "after", "tail"}
      /\ work.pc \in Calm /\ "tail" \in Calm /\ "idle" \in Calm /\ "resume" \notin Calm
    BY DEF TypeOK, AfterCallback, Advertise, Poll, TailClose, TailExpired, TailDone, Calm, Posts
<1>2. queue' = queue /\ SameLink /\ desired' = desired
    BY DEF AfterCallback, Advertise, Poll, TailClose, TailExpired, TailDone, Outside, SameLink
<1>3. Shrinks
    BY <1>2, SameShrinks
<1>4. ASSUME NEW k, k \notin Restarts \cup {"open", "auth_retry"}, NEW post, NEW m, BeginStop(s, snapshot, k, post, m)
      PROVE  TimedInv'
    <2>1. work'.k = k
        BY <1>4 DEF BeginStop
    <2>2. HeldKept
        BY <1>3, <1>4, <2>1, HeldShrinks
    <2> QED BY <1>1, <1>4, <2>2, CalmStops
<1>5. ASSUME work'.pc \in Calm, UNCHANGED <<s, ctl, snapshot>>
      PROVE  TimedInv'
    BY <1>1, <1>2, <1>3, <1>5, SelfKin, KinGoes
<1>6. CASE AfterCallback
    <2>1. \/ BeginStop(s, snapshot, "fail", "tail", work.msg)
          \/ Goto("tail") /\ UNCHANGED <<s, ctl, snapshot>>
        BY <1>6 DEF AfterCallback
    <2>2. Goto("tail") => work'.pc \in Calm
        BY <1>1 DEF Goto, WorkType
    <2> QED BY <1>4, <1>5, <2>1, <2>2 DEF Restarts
<1>7. CASE Advertise
    <2>1. CASE BeginStop(s, snapshot, "fail", "tail", work.msg)
        BY <1>4, <2>1 DEF Restarts
    <2>2. CASE /\ s' = [s EXCEPT !.advertising = TRUE, !.deadlines = IF s.pairing THEN @ \cup {"pair"} ELSE @]
               /\ ctl' = [ctl EXCEPT !.ops = @ \cup {AdvertisingOp(s)}]
               /\ Goto("tail")
               /\ snapshot' = snapshot
        <3>1. work'.pc \in Calm /\ ctl'.adv = ctl.adv
            BY <1>1, <2>2 DEF Goto, WorkType, CtlType
        <3>2. /\ s'.session = s.session /\ s'.generation = s.generation /\ s'.layers = s.layers
              /\ s'.connected = s.connected /\ s'.deadlines \subseteq s.deadlines \cup {"pair"}
            BY <1>1, <2>2 DEF WorkerType
        <3>3. ~(s.connected = TRUE)
            BY <1>7 DEF Advertise, CanAdvertise
        <3>4. ~InUse'
            <4>1. ~InUse
                BY <1>1, <3>3 DEF TimedInv, Used
            <4> QED BY <2>2, <4>1, InUseFacts
        <3>5. "start" \in s'.deadlines => "start" \in s.deadlines
            BY <3>2
        <3> QED BY <1>1, <1>2, <1>3, <3>1, <3>2, <3>3, <3>4, <3>5, CalmGoes
    <2> QED BY <1>7, <2>1, <2>2 DEF Advertise
<1>8. CASE Poll
    <2>1. work'.pc \in Calm /\ UNCHANGED <<s, ctl, snapshot>>
        BY <1>1, <1>8 DEF Poll, Goto, WorkType
    <2> QED BY <1>5, <2>1
<1>9. CASE TailClose
    BY <1>4, <1>9 DEF TailClose, Restarts
<1>10. CASE TailExpired
    <2>1. PICK k \in {"fail", "timeout"} : BeginStop(s, snapshot, k, "idle", NoMessage)
        BY <1>10 DEF TailExpired
    <2> QED BY <1>4, <2>1 DEF Restarts
<1>11. CASE TailDone
    <2>1. work'.pc \in Calm /\ UNCHANGED <<s, ctl, snapshot>>
        BY <1>1, <1>11 DEF TailDone, WorkType
    <2> QED BY <1>5, <2>1
<1> QED BY <1>6, <1>7, <1>8, <1>9, <1>10, <1>11

\* a stop runs on: it arms nothing and shows nothing
LEMMA StopStepsTimed ==
    ASSUME TypeOK, LinkInv, LinkInv', TimedInv, StopSteps
    PROVE  TimedInv'
<1>1. /\ work.pc \in StopPlaces /\ work'.pc \in StopPlaces \cup {"resume"}
      /\ work'.k = work.k /\ work'.msg = work.msg /\ s'.session = s.session
      /\ work.pc \in {"disconnect", "link_wait"} => s'.layers = s.layers
    BY StopShape
<1>2. UNCHANGED <<queue, desired, snapshot>>
    BY DEF StopSteps, StopAdvertisingSkip, StopAdvertisingRequest, StopAdvertisingWait, DisconnectLink,
           DisconnectDone, DisconnectTimeout, TeardownHid, TeardownHost, Outside
<1>3. /\ s'.generation = s.generation /\ s'.deadlines = s.deadlines
      /\ s'.connected = TRUE => s.connected = TRUE
      /\ HostOn(s') => HostOn(s)
    <2>1. s \in WorkerType
        BY DEF TypeOK
    <2>2. CASE StopAdvertisingSkip \/ StopAdvertisingRequest \/ StopAdvertisingWait \/ DisconnectLink
        BY <2>1, <2>2 DEF StopAdvertisingSkip, StopAdvertisingRequest, StopAdvertisingWait, DisconnectLink,
           WorkerType, HostOn
    <2>3. CASE DisconnectDone \/ DisconnectTimeout
        BY <2>1, <2>3 DEF DisconnectDone, DisconnectTimeout, Unlinked, WorkerType, HostOn
    <2>4. CASE TeardownHid
        BY <2>1, <2>4 DEF TeardownHid, WorkerType, HostOn
    <2>5. CASE TeardownHost
        <3>1. PICK left \in {{}} \cup {StuckWith[l] \cap s.layers : l \in s.layers \cap StackLayers} :
                 s' = [s EXCEPT !.layers = left \cup (@ \cap {"hid"}), !.ready = {}, !.phase = "resetting"]
            BY <2>5 DEF TeardownHost
        <3>2. left \subseteq s.layers
            OBVIOUS
        <3>3. /\ s'.generation = s.generation /\ s'.deadlines = s.deadlines /\ s'.connected = s.connected
              /\ s'.layers = left \cup (s.layers \cap {"hid"})
            BY <2>1, <3>1 DEF WorkerType
        <3> QED BY <3>2, <3>3 DEF HostOn
    <2> QED BY <2>2, <2>3, <2>4, <2>5 DEF StopSteps
<1>4. Winding <=> work.k # "auth_retry"
    BY <1>1 DEF Winding, StopPlaces
<1>5. work.pc \notin Calm /\ work'.pc \notin Calm
    BY <1>1 DEF StopPlaces, Calm, Posts
<1>6. HeldKept
    <2>1. Opening' => Opening
        BY <1>1, <1>4 DEF Opening
    <2> QED BY <1>1, <1>2, <2>1 DEF HeldKept, Held
<1>7. Seated'
    <2>1. (Winding' \/ work'.pc = "resume") /\ work'.k \in Restarts => s'.session # 0
        BY <1>1, <1>4 DEF TimedInv, Seated, Restarts
    <2> QED BY <1>1, <1>3, <1>6, <2>1 DEF TimedInv, Seated, HeldKept
<1>8. Announced'
    <2>1. CASE work.k = "auth_retry"
        <3>1. work.pc \in {"disconnect", "link_wait"}
            BY <1>1, <2>1 DEF LinkInv, Wound, StopPlaces
        <3>2. link' = link /\ ctl'.adv = ctl.adv
            BY <3>1 DEF StopSteps, StopAdvertisingSkip, StopAdvertisingRequest, StopAdvertisingWait, DisconnectLink,
               DisconnectDone, DisconnectTimeout, TeardownHid, TeardownHost, Outside, TypeOK, CtlType
        <3>3. Running' => Running
            BY <1>3, <1>4, <2>1 DEF Running
        <3>4. Attached' = Attached /\ Shrinks
            BY <1>2, <3>2, SameShrinks DEF Attached
        <3> QED BY <1>1, <1>2, <1>3, <3>2, <3>3, <3>4, AnnouncedShrinks DEF TimedInv
    <2>2. CASE work.k # "auth_retry"
        <3>1. work'.pc = "resume" => ~HostOn(s')
            BY <1>1, <2>2 DEF LinkInv, Stamped
        <3>2. ~Running'
            BY <1>1, <2>2, <3>1 DEF Running, Winding, StopPlaces
        <3> QED BY <3>2 DEF Announced
    <2> QED BY <2>1, <2>2
<1>9. Untimed'
    BY <1>3 DEF TimedInv, Untimed
<1>10. Used'
    BY <1>1, <1>2, <1>5, InUseFacts DEF TimedInv, Used
<1> QED BY <1>7, <1>8, <1>9, <1>10 DEF TimedInv

\* what follows a stop fails, and stops again
LEMMA ResumeStops ==
    ASSUME TypeOK, LinkInv, TimedInv, work.pc = "resume", queue' = queue,
           NEW s1 \in WorkerType, NEW s2, DOMAIN s2 = DOMAIN s1, HostOn(s2) => s2.session # 0 /\ s2.generation # 0,
           NEW shown, shown.state \notin {"CONNECTED", "SUSPENDED"}, NEW post, NEW m,
           BeginStop(s2, shown, "fail", post, m)
    PROVE  TimedInv'
<1>1. /\ s'.session = s2.session /\ s'.generation = s2.generation /\ s'.layers = s2.layers /\ s'.deadlines = {}
      /\ work'.pc = "stop_adv" /\ work'.k = "fail"
      /\ On(s2) => snapshot'.state = "STOPPING"
      /\ ~On(s2) => snapshot' = shown
    BY BeginStopFacts
<1>2. ~InUse'
    BY <1>1, InUseFacts
<1>3. HeldKept
    BY <1>1, SameShrinks, HeldShrinks
<1>4. HostOn(s') => s'.session # 0 /\ s'.generation # 0
    BY <1>1 DEF HostOn
<1> QED BY <1>1, <1>2, <1>3, <1>4, StopTimed DEF TimedInv, Restarts

\* a new generation: nothing of it is queued, nothing is on the air
LEMMA StackTimed ==
    ASSUME TypeOK, LinkInv, HostDownIsSilent, TimedInv, work.pc = "resume", ~HostOn(s), queue' = queue, SameLink,
           ctl'.adv = ctl.adv, work'.pc \in Calm, s'.generation = s.generation + 1, s'.session # 0,
           s'.connected = s.connected, snapshot'.state = "STARTING"
    PROVE  TimedInv'
<1>1. ctl'.adv = "off" /\ ~Attached' /\ ~(s'.connected = TRUE)
    BY DEF HostDownIsSilent, LinkInv, Served, HostOn, Attached, SameLink, Aired
<1>2. s.generation \in Nat
    BY DEF TypeOK, WorkerType
<1>3. s'.generation # 0
    BY <1>2
<1>4. ~Winding' /\ work'.pc # "resume"
    BY DEF Winding, Calm, Posts
<1>5. HeldKept
    BY SameShrinks, HeldShrinks
<1>6. Seated'
    BY <1>3, <1>4, <1>5 DEF TimedInv, Seated, HeldKept
<1>7. \A i \in 1..Len(queue') : ~Queued(i, "CONNECTED")'
    <2>1. \A i \in 1..Len(queue) : queue[i].generation \in Nat /\ queue[i].generation <= s.generation
        BY QueueFacts DEF LinkInv, Stamped
    <2>2. \A i \in 1..Len(queue) : queue[i].generation # s'.generation
        BY <1>2, <2>1
    <2> QED BY <2>2 DEF Queued
<1>8. Announced'
    BY <1>1, <1>7 DEF Announced
<1>9. Untimed' /\ Used'
    BY <1>1, InUseFacts DEF Untimed, Used
<1> QED BY <1>6, <1>8, <1>9 DEF TimedInv

LEMMA StackUpTimes ==
    ASSUME NEW s1 \in WorkerType
    PROVE  /\ StackUp(s1) \in WorkerType /\ DOMAIN StackUp(s1) = DOMAIN s1
           /\ StackUp(s1).session = s1.session /\ StackUp(s1).generation = s1.generation + 1
           /\ StackUp(s1).connected = s1.connected /\ s1.generation + 1 # 0
<1>1. StackUp(s1) \in WorkerType
    BY StackUpType
<1> QED BY <1>1 DEF StackUp, WorkerType

LEMMA StartStackFailsTimed ==
    ASSUME TypeOK, LinkInv, TimedInv, work.pc = "resume", work.k # "auth_retry", queue' = queue,
           NEW s1 \in WorkerType, s1.session # 0, s1.layers = s.layers, NEW post, NEW m, StartStackFails(s1, post, m)
    PROVE  TimedInv'
<1>1. ~HostOn(s1) /\ snapshot.state \notin {"CONNECTED", "SUSPENDED"}
    BY InUseFacts DEF LinkInv, Stamped, HostOn, TimedInv, Used, Calm, Posts
<1>2. CASE BeginStop(s1, snapshot, "fail", post, m)
    BY <1>1, <1>2, ResumeStops
<1>3. ASSUME NEW left,
             BeginStop([StackUp(s1) EXCEPT !.layers = left \cup (s1.layers \cap {"controller_init"})],
                       [session |-> s1.session, state |-> "STARTING"], "fail", post, m)
      PROVE  TimedInv'
    <2> DEFINE up    == StackUp(s1)
               part  == [up EXCEPT !.layers = left \cup (s1.layers \cap {"controller_init"})]
               shown == [session |-> s1.session, state |-> "STARTING"]
    <2>1. /\ up \in WorkerType /\ up.session = s1.session /\ up.generation = s1.generation + 1
          /\ s1.generation + 1 # 0
        BY StackUpTimes
    <2>2. BeginStop(part, shown, "fail", post, m)
        BY <1>3
    <2>3. shown.state = "STARTING"
        OBVIOUS
    <2> HIDE DEF up, shown
    <2>4. DOMAIN part = DOMAIN up
        OBVIOUS
    <2>5. part.session = up.session /\ part.generation = up.generation
        BY <2>1 DEF WorkerType
    <2> HIDE DEF part
    <2> QED BY <2>1, <2>2, <2>3, <2>4, <2>5, ResumeStops
<1> QED BY <1>2, <1>3 DEF StartStackFails

LEMMA RestartTimed ==
    ASSUME TypeOK, LinkInv, HostDownIsSilent, TimedInv, work.pc = "resume", work.k # "auth_retry", queue' = queue,
           SameLink, NEW s1 \in WorkerType, s1.session # 0, s1.layers = s.layers, s1.generation = s.generation,
           s1.connected = s.connected, RestartWith(s1)
    PROVE  TimedInv'
<1> DEFINE up == StackUp(s1)
<1>1. ~HostOn(s) /\ ~HostOn(s1) /\ snapshot.state \notin {"CONNECTED", "SUSPENDED"}
    BY InUseFacts DEF LinkInv, Stamped, HostOn, TimedInv, Used, Calm, Posts
<1>2. /\ up \in WorkerType /\ DOMAIN up = DOMAIN s1 /\ up.session = s1.session
      /\ up.generation = s1.generation + 1 /\ up.connected = s1.connected /\ s1.generation + 1 # 0
    BY StackUpTimes
<1>3. CASE StartStackFails(s1, work.post, work.msg)
    BY <1>3, StartStackFailsTimed
<1>4. CASE BeginStop(up, snapshot, "fail", work.post, work.msg)
    <2> HIDE DEF up
    <2> QED BY <1>1, <1>2, <1>4, ResumeStops
<1>5. CASE BeginStop(s1, snapshot, "fail", work.post, work.msg)
    BY <1>1, <1>5, ResumeStops
<1>6. CASE /\ s' = [up EXCEPT !.layers = Layers,
                              !.pairing = s1.profile.peer = NoPeer,
                              !.saved = s1.profile.peer # NoPeer,
                              !.awaiting_save = FALSE, !.forgetting = FALSE, !.suspended = FALSE,
                              !.phase = "resetting"]
           /\ Status(s1, "STARTING")
           /\ ctl' = [ctl EXCEPT !.ops = @ \cup {Op(g) : g \in Gates} \cup {Op("privacy_off")}]
           /\ work' = [work EXCEPT !.pc = work.post, !.msg = work.msg]
    <2> HIDE DEF up
    <2>1. s'.session = up.session /\ s'.generation = up.generation /\ s'.connected = up.connected
        BY <1>2, <1>6 DEF WorkerType
    <2>2. work'.pc \in Calm /\ ctl'.adv = ctl.adv
        BY <1>6 DEF TypeOK, WorkType, CtlType, Calm
    <2>3. snapshot'.state = "STARTING"
        BY <1>6 DEF Status
    <2> QED BY <1>1, <1>2, <2>1, <2>2, <2>3, StackTimed
<1>7. \/ StartStackFails(s1, work.post, work.msg)
      \/ BeginStop(up, snapshot, "fail", work.post, work.msg)
      \/ BeginStop(s1, snapshot, "fail", work.post, work.msg)
      \/ /\ s' = [up EXCEPT !.layers = Layers,
                            !.pairing = s1.profile.peer = NoPeer,
                            !.saved = s1.profile.peer # NoPeer,
                            !.awaiting_save = FALSE, !.forgetting = FALSE, !.suspended = FALSE,
                            !.phase = "resetting"]
         /\ Status(s1, "STARTING")
         /\ ctl' = [ctl EXCEPT !.ops = @ \cup {Op(g) : g \in Gates} \cup {Op("privacy_off")}]
         /\ work' = [work EXCEPT !.pc = work.post, !.msg = work.msg]
    BY DEF RestartWith, StartRuntime
<1> QED BY <1>3, <1>4, <1>5, <1>6, <1>7

\* a bond is gone: the start deadline ends, the save deadline begins
LEMMA ForgetBondsTimes ==
    ASSUME TypeOK, NEW s1 \in WorkerType, ForgetBonds(s1)
    PROVE  \/ /\ s'.session = s1.session /\ s'.generation = s1.generation /\ s'.layers = s1.layers
              /\ s'.connected = s1.connected /\ "start" \notin s'.deadlines
              /\ snapshot'.state = "STARTING" /\ work'.pc = work.post /\ work'.k = work.k
           \/ BeginStop(s1, snapshot, "fail", "idle", work.msg)
<1>1. CASE /\ s' = AwaitingSave([Clear(s1, {"start"}) EXCEPT !.forgetting = TRUE, !.pair_after = work.msg.flag])
           /\ Status(s1, "STARTING")
           /\ Goto(work.post)
    <2> DEFINE cleared == Clear(s1, {"start"})
               asked == [cleared EXCEPT !.forgetting = TRUE, !.pair_after = work.msg.flag]
               armed == Arm(asked, "save")
    <2>1. /\ cleared.session = s1.session /\ cleared.generation = s1.generation /\ cleared.layers = s1.layers
          /\ cleared.connected = s1.connected /\ "start" \notin cleared.deadlines
          /\ cleared \in WorkerType
        BY ClearType, ClearSets
    <2>2. work.msg.flag \in BOOLEAN
        BY DEF TypeOK, WorkType, Messages
    <2> HIDE DEF cleared
    <2>3. /\ asked.session = s1.session /\ asked.generation = s1.generation /\ asked.layers = s1.layers
          /\ asked.connected = s1.connected /\ "start" \notin asked.deadlines
          /\ asked \in WorkerType
        BY <2>1, <2>2 DEF WorkerType
    <2>4. s' = [armed EXCEPT !.awaiting_save = TRUE]
        BY <1>1 DEF AwaitingSave, cleared
    <2> HIDE DEF asked
    <2>5. /\ armed.session = s1.session /\ armed.generation = s1.generation /\ armed.layers = s1.layers
          /\ armed.connected = s1.connected /\ "start" \notin armed.deadlines
          /\ armed \in WorkerType
        <3>1. "save" \in Deadlines /\ asked \in WorkerType
            BY <2>3 DEF Deadlines
        <3>2. /\ armed.session = asked.session /\ armed.generation = asked.generation /\ armed.layers = asked.layers
              /\ armed.connected = asked.connected /\ armed.deadlines = asked.deadlines \cup {"save"}
            BY <3>1, ArmSets
        <3>3. armed \in WorkerType
            BY <3>1, ArmType
        <3> QED BY <2>3, <3>2, <3>3
    <2> HIDE DEF armed
    <2>6. /\ s'.session = s1.session /\ s'.generation = s1.generation /\ s'.layers = s1.layers
          /\ s'.connected = s1.connected /\ "start" \notin s'.deadlines
        BY <2>4, <2>5 DEF WorkerType
    <2>7. work'.pc = work.post /\ work'.k = work.k /\ snapshot'.state = "STARTING"
        BY <1>1 DEF Goto, Status, TypeOK, WorkType
    <2> QED BY <2>6, <2>7
<1> QED BY <1>1 DEF ForgetBonds

LEMMA FinishForgetTimed ==
    ASSUME TypeOK, LinkInv, HostDownIsSilent, TimedInv, FinishForget
    PROVE  TimedInv'
<1>1. /\ work.pc = "resume" /\ work.k = "forget" /\ queue' = queue /\ SameLink
      /\ s \in WorkerType /\ work \in WorkType /\ ctl \in CtlType
    BY DEF FinishForget, Resume, SameLink, TypeOK
<1>2. s.session # 0
    BY <1>1 DEF TimedInv, Seated, Restarts
<1>3. ~HostOn(s) /\ snapshot.state \notin {"CONNECTED", "SUSPENDED"}
    BY <1>1, InUseFacts DEF LinkInv, Stamped, TimedInv, Used, Calm, Posts
<1> DEFINE up == StackUp(s)
<1>4. /\ up \in WorkerType /\ DOMAIN up = DOMAIN s /\ up.session = s.session
      /\ up.generation = s.generation + 1 /\ up.connected = s.connected /\ s.generation + 1 # 0
    BY <1>1, StackUpTimes
<1>5. CASE BeginStop(s, snapshot, "fail", work.post, work.msg)
    BY <1>1, <1>3, <1>5, ResumeStops
<1>6. CASE StartStackFails(s, work.post, work.msg)
    BY <1>1, <1>2, <1>6, StartStackFailsTimed
<1>7. CASE ForgetBonds(up) /\ UNCHANGED ctl
    <2> HIDE DEF up
    <2>1. CASE BeginStop(up, snapshot, "fail", "idle", work.msg)
        BY <1>1, <1>2, <1>3, <1>4, <2>1, ResumeStops
    <2>2. CASE /\ s'.session = up.session /\ s'.generation = up.generation /\ s'.connected = up.connected
               /\ snapshot'.state = "STARTING" /\ work'.pc = work.post
        <3>1. work'.pc \in Calm
            BY <1>1, <2>2 DEF WorkType, Calm
        <3> QED BY <1>1, <1>2, <1>3, <1>4, <1>7, <2>2, <3>1, StackTimed
    <2> QED BY <1>4, <1>7, <2>1, <2>2, ForgetBondsTimes
<1>8. CASE /\ s' = up /\ Status(s, "STARTING") /\ Goto("bond_wait")
           /\ ctl' = [ctl EXCEPT !.ops = @ \cup {<<"remove_bond", s.profile.peer>>}, !.bondRemoved = "no"]
    <2>1. work'.pc \in Calm /\ ctl'.adv = ctl.adv /\ snapshot'.state = "STARTING"
        BY <1>1, <1>8 DEF Goto, WorkType, CtlType, Calm, Status
    <2> HIDE DEF up
    <2> QED BY <1>1, <1>2, <1>3, <1>4, <1>8, <2>1, StackTimed
<1> QED BY <1>5, <1>6, <1>7, <1>8 DEF FinishForget

LEMMA RemoveBondWaitTimed ==
    ASSUME TypeOK, LinkInv, TimedInv, RemoveBondWait
    PROVE  TimedInv'
<1>1. /\ work.pc = "bond_wait" /\ work.pc \in Calm /\ work.pc \in Calm \cup {"resume"} /\ queue' = queue /\ SameLink
      /\ Shrinks /\ desired' = desired /\ s \in WorkerType /\ work \in WorkType /\ ctl'.adv = ctl.adv
    BY SameShrinks DEF RemoveBondWait, SameLink, TypeOK, Calm, CtlType
<1>2. ASSUME NEW post, BeginStop(s, snapshot, "fail", post, work.msg)
      PROVE  TimedInv'
    <2>1. work'.k = "fail"
        BY <1>2 DEF BeginStop
    <2>2. HeldKept
        BY <1>1, <2>1, HeldShrinks
    <2> QED BY <1>1, <1>2, <2>2, CalmStops DEF Restarts
<1>3. CASE ForgetBonds(s)
    <2>1. CASE /\ s'.session = s.session /\ s'.generation = s.generation /\ s'.layers = s.layers
               /\ s'.connected = s.connected /\ "start" \notin s'.deadlines
               /\ snapshot'.state = "STARTING" /\ work'.pc = work.post
        <3>1. work'.pc \in Calm /\ ~InUse'
            BY <1>1, <2>1, InUseFacts DEF WorkType, Calm
        <3> QED BY <1>1, <2>1, <3>1, CalmGoes
    <2> QED BY <1>1, <1>2, <1>3, <2>1, ForgetBondsTimes
<1> QED BY <1>2, <1>3 DEF RemoveBondWait

LEMMA FinishStepsTimed ==
    ASSUME TypeOK, LinkInv, HostDownIsSilent, BondInv, TimedInv, FinishSteps
    PROVE  TimedInv'
<1>1. /\ s \in WorkerType /\ work \in WorkType /\ work.post \in Posts /\ Posts \subseteq Calm /\ "resume" \notin Calm
    BY DEF TypeOK, WorkType, Calm, Posts
<1>2. queue' = queue /\ SameLink /\ Shrinks /\ desired' = desired
    BY SameShrinks DEF FinishSteps, FinishFail, FinishTimeout, FinishClose, FinishUnpair, FinishAuthRetry,
       FinishOpen, FinishRestart, FinishRelease, FinishForget, RemoveBondWait, Outside, SameLink
<1>3. ASSUME work.pc = "resume", Goto(work.post), ctl' = ctl,
             s' = s \/ (s' = [s EXCEPT !.session = 0] /\ ~HostOn(s)),
             ~InUse'
      PROVE  TimedInv'
    <2>1. work'.pc \in Calm /\ ~Winding' /\ ~Winding /\ work'.pc # "resume"
        BY <1>1, <1>3 DEF Goto, WorkType, Winding, Calm, Posts
    <2>2. /\ s'.generation = s.generation /\ s'.layers = s.layers /\ s'.connected = s.connected
          /\ s'.deadlines = s.deadlines /\ (HostOn(s) => s'.session = s.session)
        BY <1>1, <1>3 DEF WorkerType
    <2>3. HeldKept
        BY <1>2, <2>1, HeldShrinks
    <2>4. Seated'
        BY <2>1, <2>2, <2>3 DEF TimedInv, Seated, HeldKept, HostOn
    <2>5. Attached' = Attached
        BY <1>2 DEF SameLink, Attached
    <2>6. Running' => Running /\ s'.session = s.session
        BY <2>1, <2>2 DEF Running, HostOn
    <2>7. Announced'
        BY <1>2, <1>3, <2>2, <2>5, <2>6, AnnouncedShrinks DEF TimedInv
    <2>8. Untimed' /\ Used'
        BY <1>3, <2>1, <2>2 DEF TimedInv, Untimed, Used
    <2> QED BY <2>4, <2>7, <2>8 DEF TimedInv
<1>4. ASSUME work.pc = "resume", work.k # "auth_retry"
      PROVE  ~HostOn(s) /\ ~InUse
    BY <1>1, <1>4 DEF LinkInv, Stamped, TimedInv, Used
<1>5. CASE FinishFail \/ FinishTimeout \/ FinishUnpair \/ FinishAuthRetry
    <2>1. snapshot'.state \in {"ERROR", "PAIR_TIMEOUT", "UNPAIRED", "PAIRING"}
        BY <1>5 DEF FinishFail, FinishTimeout, FinishUnpair, FinishAuthRetry, Status
    <2>2. ~InUse'
        BY <2>1, InUseFacts
    <2> QED BY <1>3, <1>5, <2>2 DEF FinishFail, FinishTimeout, FinishUnpair, FinishAuthRetry, Resume
<1>6. CASE FinishClose
    <2>1. snapshot'.state \in {"ERROR", "OFF"} /\ work.pc = "resume" /\ work.k # "auth_retry"
        BY <1>6 DEF FinishClose, Status, Resume
    <2>2. ~InUse' /\ ~HostOn(s)
        BY <1>4, <2>1, InUseFacts
    <2> QED BY <1>3, <1>6, <2>2 DEF FinishClose, Resume
<1>7. CASE FinishOpen
    <2> DEFINE s1 == [s EXCEPT !.session = work.msg.session, !.profile = work.msg.remote]
    <2>1. work.msg.session \in Nat /\ work.msg.remote \in Remotes
        BY <1>1 DEF WorkType, Messages
    <2>2. s1 \in WorkerType /\ s1.generation = s.generation /\ s1.layers = s.layers
          /\ s1.connected = s.connected /\ s1.session = work.msg.session
        BY <1>1, <2>1 DEF WorkerType
    <2>3. RestartWith(s1) /\ work.pc = "resume" /\ work.k = "open"
        BY <1>7 DEF FinishOpen, Resume
    <2>4. work.msg.session # 0
        <3>1. Opening /\ work.msg \in Held
            BY <2>3 DEF Opening, Held
        <3>2. work.msg.type = "OPEN"
            BY <3>1 DEF BondInv, Opened
        <3> QED BY <3>1, <3>2 DEF TimedInv, Seated
    <2> HIDE DEF s1
    <2> QED BY <1>2, <2>2, <2>3, <2>4, RestartTimed
<1>8. CASE FinishRestart
    <2>1. s.session # 0 /\ RestartWith(s) /\ work.pc = "resume" /\ work.k # "auth_retry"
        BY <1>8 DEF FinishRestart, Resume, TimedInv, Seated, Restarts
    <2> QED BY <1>1, <1>2, <2>1, RestartTimed
<1>9. CASE FinishRelease
    <2>1. s.session # 0 /\ work.pc = "resume" /\ work.k # "auth_retry"
        BY <1>9 DEF FinishRelease, Resume, TimedInv, Seated, Restarts
    <2>2. CASE RestartWith(s)
        BY <1>1, <1>2, <2>1, <2>2, RestartTimed
    <2>3. CASE Goto(work.post) /\ UNCHANGED <<callbackGen, snapshot, s, ctl, ccc, budget>>
        <3>1. ~InUse'
            BY <1>4, <2>1, <2>3, InUseFacts
        <3> QED BY <1>3, <2>1, <2>3, <3>1
    <2> QED BY <1>9, <2>2, <2>3 DEF FinishRelease
<1> QED BY <1>5, <1>6, <1>7, <1>8, <1>9, FinishForgetTimed, RemoveBondWaitTimed DEF FinishSteps

\* a step of another task
LEMMA OthersTimed ==
    ASSUME TypeOK, TimedInv, work' = work, snapshot' = snapshot,
           s'.session = s.session, s'.generation = s.generation, s'.layers = s.layers,
           s'.connected = s.connected, s'.deadlines = s.deadlines,
           NEW m, m.type \in {"OPEN", "SAVED", "FORGET"} => m.session # 0,
           queue' = queue \/ queue' = Append(queue, m), Announced'
    PROVE  TimedInv'
<1>1. \A x \in Held' : x \in Held \/ x = m
    BY HeldGrows
<1>2. Seated'
    BY <1>1 DEF TimedInv, Seated, HostOn, Winding
<1>3. Untimed' /\ Used'
    BY InUseFacts DEF TimedInv, Untimed, Used
<1> QED BY <1>2, <1>3 DEF TimedInv

LEMMA DeadlineTimed ==
    ASSUME TypeOK, LinkInv, TimedInv, DeadlinePasses
    PROVE  TimedInv'
<1>1. PICK d : s' = [s EXCEPT !.due = @ \cup {d}]
    BY DEF DeadlinePasses
<1>2. /\ s'.session = s.session /\ s'.generation = s.generation /\ s'.layers = s.layers
      /\ s'.connected = s.connected /\ s'.deadlines = s.deadlines
    BY <1>1 DEF TypeOK, WorkerType
<1>3. work' = work /\ snapshot' = snapshot /\ ctl' = ctl /\ link' = link /\ queue' = queue /\ desired' = desired
    BY DEF DeadlinePasses, Outside
<1>4. NoMessage.type = "NONE" /\ Shrinks
    BY <1>3, SameShrinks DEF NoMessage
<1>5. Announced'
    <2>1. Running' = Running /\ Attached' = Attached
        BY <1>2, <1>3 DEF Running, HostOn, Winding, Attached
    <2> QED BY <1>2, <1>3, <1>4, <2>1, AnnouncedShrinks DEF TimedInv
<1> QED BY <1>2, <1>3, <1>4, <1>5, OthersTimed

\* the callback task queues something other than CONNECTED, or nothing
LEMMA CallbackTaskTimed ==
    ASSUME TypeOK, LinkInv, TimedInv, UNCHANGED <<WorkerVars, desired>>,
           queue' = queue
             \/ \E type \in CallbackTypes \ {"CONNECTED"}, ok \in BOOLEAN, flag \in BOOLEAN, peer \in Peers :
                   CallbackMessage(type, ok, flag, peer),
           ctl'.adv # "off" => ctl.adv # "off", Attached' => Attached
    PROVE  TimedInv'
<1>1. s' = s /\ work' = work /\ snapshot' = snapshot /\ desired' = desired
    BY DEF WorkerVars
<1>2. Running' = Running
    BY <1>1 DEF Running, HostOn, Winding
<1>3. ASSUME NEW type \in CallbackTypes \ {"CONNECTED"}, Grows(type)
      PROVE  Announced'
    BY <1>1, <1>2, <1>3, AnnouncedGrows DEF TimedInv
<1>4. CASE queue' = queue
    <2>1. Grows("WRITE") /\ "WRITE" \in CallbackTypes \ {"CONNECTED"} /\ NoMessage.type = "NONE"
        BY <1>4, SameGrows DEF CallbackTypes, NoMessage
    <2> QED BY <1>1, <1>3, <1>4, <2>1, OthersTimed
<1>5. ASSUME NEW type \in CallbackTypes \ {"CONNECTED"}, NEW ok \in BOOLEAN, NEW flag \in BOOLEAN, NEW peer \in Peers,
             CallbackMessage(type, ok, flag, peer)
      PROVE  TimedInv'
    <2> DEFINE m == [NoMessage EXCEPT !.type = type, !.generation = callbackGen, !.ok = ok, !.flag = flag, !.peer = peer]
    <2>1. m.type = type /\ (queue' = queue \/ queue' = Append(queue, m))
        BY <1>5 DEF NoMessage, CallbackMessage
    <2> HIDE DEF m
    <2>2. type \notin {"OPEN", "SAVED", "FORGET"}
        BY DEF CallbackTypes
    <2>3. Grows(type)
        BY <1>5, CallbackGrows DEF LinkInv
    <2> QED BY <1>1, <1>3, <2>1, <2>2, <2>3, OthersTimed
<1> QED BY <1>4, <1>5

\* advertising is told of when it starts, unless the queue is full
LEMMA CompleteAdvStartTimed ==
    ASSUME TypeOK, LinkInv, TimedInv, CompleteAdvStart, Room
    PROVE  TimedInv'
<1>1. UNCHANGED <<WorkerVars, desired>> /\ link' = link /\ ctl \in CtlType
    BY DEF CompleteAdvStart, Outside, TypeOK
<1>2. s' = s /\ work' = work /\ snapshot' = snapshot /\ desired' = desired /\ Attached' = Attached /\ Running' = Running
    BY <1>1 DEF WorkerVars, Attached, Running, HostOn, Winding
<1>3. PICK op \in ctl.ops, ok \in BOOLEAN :
         /\ op \in AdvOps
         /\ ctl' = [Finish(op) EXCEPT !.adv = IF ~ok THEN @ ELSE IF op = Op("adv_any") THEN "any" ELSE "listed"]
         /\ CallbackMessage("ADV_STARTED", ok, FALSE, NoPeer)
    BY DEF CompleteAdvStart
<1>4. NoPeer \in Peers /\ "ADV_STARTED" \in CallbackTypes \ {"CONNECTED"}
    BY DEF Peers, CallbackTypes
<1>5. CASE ok = FALSE
    <2>1. ctl'.adv = ctl.adv
        BY <1>1, <1>3, <1>5 DEF Finish, CtlType
    <2> QED BY <1>1, <1>2, <1>3, <1>4, <2>1, CallbackTaskTimed
<1>6. CASE ok = TRUE
    <2> DEFINE m == [NoMessage EXCEPT !.type = "ADV_STARTED", !.generation = callbackGen, !.ok = ok,
                                      !.flag = FALSE, !.peer = NoPeer]
    <2>1. m.type = "ADV_STARTED" /\ m.ok = TRUE /\ m.generation = callbackGen
        BY <1>6 DEF NoMessage
    <2>2. queue' = queue \/ queue' = Append(queue, m)
        BY <1>3 DEF CallbackMessage
    <2>3. callbackGen # 0 => queue' = Append(queue, m)
        BY <1>3 DEF CallbackMessage
    <2> HIDE DEF m
    <2>4. queue \in Seq(Messages) /\ Len(queue) \in Nat
        BY QueueFacts DEF TypeOK
    <2>5. ASSUME Running, desired = s.session, "start" \in s.deadlines
          PROVE  /\ \E j \in 1..Len(queue') : Announcing(j)'
                 /\ \A i \in 1..Len(queue') : Queued(i, "CONNECTED")' =>
                       \E j \in 1..Len(queue') : j < i /\ Announcing(j)'
        <3>1. callbackGen = s.generation /\ s.generation # 0
            BY <2>5 DEF LinkInv, Stamped, TimedInv, Seated, Running
        <3>2. /\ Len(queue') = Len(queue) + 1 /\ queue'[Len(queue) + 1] = m
              /\ \A i \in 1..Len(queue) : queue'[i] = queue[i]
            BY <2>3, <2>4, <3>1
        <3> PICK n \in Nat : n = Len(queue) + 1
            BY <2>4
        <3>3. n \in 1..Len(queue') /\ Announcing(n)'
            BY <1>2, <2>1, <2>4, <3>1, <3>2 DEF Announcing, Queued
        <3>4. ASSUME NEW i \in 1..Len(queue'), Queued(i, "CONNECTED")'
              PROVE  \E j \in 1..Len(queue') : j < i /\ Announcing(j)'
            <4>1. i # Len(queue) + 1
                BY <2>1, <3>2, <3>4 DEF Queued
            <4>2. i \in 1..Len(queue) /\ queue'[i] = queue[i]
                BY <2>4, <3>2, <4>1
            <4>3. Queued(i, "CONNECTED")
                BY <1>2, <3>4, <4>2 DEF Queued
            <4>4. PICK j \in 1..Len(queue) : j < i /\ Announcing(j)
                BY <2>5, <4>2, <4>3 DEF TimedInv, Announced
            <4>5. j \in 1..Len(queue') /\ Announcing(j)'
                BY <1>2, <2>4, <3>2, <4>4 DEF Announcing, Queued
            <4> QED BY <4>4, <4>5
        <3> QED BY <3>3, <3>4
    <2>6. Announced'
        BY <1>2, <2>5 DEF Announced
    <2> QED BY <1>2, <2>1, <2>2, <2>6, OthersTimed
<1> QED BY <1>3, <1>5, <1>6

LEMMA CompletionsTimed ==
    ASSUME TypeOK, LinkInv, TimedInv, Completions, CompleteAdvStart => Room
    PROVE  TimedInv'
<1>1. UNCHANGED <<WorkerVars, desired>> /\ link' = link /\ ctl \in CtlType
    BY DEF Completions, CompleteGate, CompleteTable, CompleteAdvStart, CompleteAdvStop, CompleteRemoveBond,
       CompleteSuspend, Outside, TypeOK
<1>2. Attached' = Attached /\ NoPeer \in Peers
    BY <1>1 DEF Attached, Peers
<1>3. ASSUME NEW op
      PROVE  Finish(op).adv = ctl.adv
    BY <1>1 DEF Finish, CtlType
<1>4. CASE CompleteGate
    <2>1. PICK g \in Gates, ok \in BOOLEAN : ctl' = Finish(Op(g)) /\ CallbackMessage(GateMessage[g], ok, FALSE, NoPeer)
        BY <1>4 DEF CompleteGate
    <2>2. GateMessage[g] \in CallbackTypes \ {"CONNECTED"}
        BY ConstantsAssumption DEF GateMessage, CallbackTypes, ReadyFlags
    <2> QED BY <1>1, <1>2, <1>3, <2>1, <2>2, CallbackTaskTimed
<1>5. CASE CompleteTable
    <2>1. PICK op \in ctl.ops, ok \in BOOLEAN :
             /\ op[1] \in DOMAIN TableMessage
             /\ ctl' = IF ok THEN TableAfter(op) ELSE Finish(op)
             /\ CallbackMessage(TableMessage[op[1]], ok, FALSE, NoPeer)
        BY <1>5 DEF CompleteTable
    <2>2. TableMessage[op[1]] \in CallbackTypes \ {"CONNECTED"}
        BY <2>1 DEF TableMessage, CallbackTypes
    <2>3. TableAfter(op).adv = ctl.adv
        BY <1>1 DEF TableAfter, Finish, CtlType
    <2> QED BY <1>1, <1>2, <1>3, <2>1, <2>2, <2>3, CallbackTaskTimed
<1>6. CASE CompleteAdvStop \/ CompleteRemoveBond
    <2>1. queue' = queue /\ (ctl'.adv # "off" => ctl.adv # "off")
        BY <1>1, <1>6 DEF CompleteAdvStop, CompleteRemoveBond, Finish, CtlType
    <2> QED BY <1>1, <1>2, <2>1, CallbackTaskTimed
<1>7. CASE CompleteSuspend
    <2>1. PICK name \in {"suspend", "resume"} : ctl' = Finish(Op(name)) /\ CallbackMessage("SUSPEND", TRUE, name = "suspend", NoPeer)
        BY <1>7 DEF CompleteSuspend
    <2>2. "SUSPEND" \in CallbackTypes \ {"CONNECTED"} /\ (name = "suspend") \in BOOLEAN
        BY DEF CallbackTypes
    <2> QED BY <1>1, <1>2, <1>3, <2>1, <2>2, CallbackTaskTimed
<1> QED BY <1>4, <1>5, <1>6, <1>7, CompleteAdvStartTimed DEF Completions

LEMMA LinkStepsTimed ==
    ASSUME TypeOK, LinkInv, TimedInv, LinkCallbacks \/ Host
    PROVE  TimedInv'
<1>1. UNCHANGED <<WorkerVars, desired>> /\ link \in LinkType /\ ctl \in CtlType /\ NoPeer \in Peers
    BY DEF LinkCallbacks, ConnectClear, ConnectUp, ConnectPost, DisconnectMark, DisconnectDown, DisconnectPost,
       Host, HostConnect, LinkEnds, HostAuth, HostWrite, HostSuspend, LinkVars, Outside, TypeOK, Peers
<1>2. s' = s /\ work' = work /\ snapshot' = snapshot /\ desired' = desired /\ Running' = Running
    BY <1>1 DEF WorkerVars, Running, HostOn, Winding
<1>3. CASE ConnectClear \/ ConnectUp \/ DisconnectMark \/ DisconnectDown
    <2>1. link'.live = link.live /\ link.phase \notin {"idle", "disconnect_down"}
        BY <1>1, <1>3 DEF ConnectClear, ConnectUp, DisconnectMark, DisconnectDown, LinkType
    <2>2. queue' = queue /\ ctl' = ctl /\ Attached
        BY <1>3, <2>1 DEF ConnectClear, ConnectUp, DisconnectMark, DisconnectDown, Attached
    <2> QED BY <1>1, <2>2, CallbackTaskTimed
<1>4. CASE DisconnectPost
    <2>1. link'.live = link.live /\ link'.phase = "idle" /\ ctl' = ctl
        BY <1>1, <1>4 DEF DisconnectPost, LinkType
    <2>2. CallbackMessage("DISCONNECTED", TRUE, FALSE, NoPeer) /\ "DISCONNECTED" \in CallbackTypes \ {"CONNECTED"}
        BY <1>4 DEF DisconnectPost, CallbackTypes
    <2> QED BY <1>1, <2>1, <2>2, CallbackTaskTimed DEF Attached
<1>5. CASE LinkEnds
    <2>1. queue' = queue /\ Attached /\ ctl'.adv = ctl.adv
        BY <1>1, <1>5 DEF LinkEnds, Attached, Finish, CtlType
    <2> QED BY <1>1, <2>1, CallbackTaskTimed
<1>6. CASE HostAuth \/ HostWrite \/ HostSuspend
    <2>1. Attached /\ ctl'.adv = ctl.adv /\ link.host \in Peers
        BY <1>1, <1>6 DEF HostAuth, HostWrite, HostSuspend, Attached, CtlType, LinkType, Outside
    <2>2. \E type \in {"AUTH", "WRITE"}, ok \in BOOLEAN, peer \in Peers : CallbackMessage(type, ok, FALSE, peer)
        BY <1>1, <1>6, <2>1 DEF HostAuth, HostWrite, HostSuspend
    <2>3. {"AUTH", "WRITE"} \subseteq CallbackTypes \ {"CONNECTED"} /\ FALSE \in BOOLEAN
        BY DEF CallbackTypes
    <2> QED BY <1>1, <2>1, <2>2, <2>3, CallbackTaskTimed
\* a host answers advertising, which the worker is about to hear has started
<1>7. CASE HostConnect
    <2>1. queue' = queue /\ ctl.adv # "off" /\ ctl'.adv = "off" /\ NoMessage.type = "NONE"
        BY <1>1, <1>7 DEF HostConnect, CtlType, NoMessage
    <2>2. \A i, type : Queued(i, type)' = Queued(i, type)
        BY <1>2, <2>1 DEF Queued
    <2>3. \A i : Announcing(i)' = Announcing(i)
        BY <2>1, <2>2 DEF Announcing
    <2>4. Announced'
        BY <1>2, <2>1, <2>2, <2>3 DEF TimedInv, Announced
    <2> QED BY <1>2, <2>1, <2>4, OthersTimed
<1>8. CASE ConnectPost
    <2> DEFINE m == [NoMessage EXCEPT !.type = "CONNECTED", !.generation = callbackGen, !.ok = TRUE,
                                      !.flag = FALSE, !.peer = NoPeer]
    <2>1. m.type = "CONNECTED"
        BY DEF NoMessage
    <2>2. queue' = queue \/ queue' = Append(queue, m)
        BY <1>8 DEF ConnectPost, CallbackMessage
    <2> HIDE DEF m
    <2>3. queue \in Seq(Messages) /\ Len(queue) \in Nat
        BY QueueFacts DEF TypeOK
    <2>4. ctl' = ctl /\ Attached
        BY <1>8 DEF ConnectPost, Attached
    <2>5. ASSUME Running, desired = s.session, "start" \in s.deadlines
          PROVE  /\ \E j \in 1..Len(queue') : Announcing(j)'
                 /\ \A i \in 1..Len(queue') : Queued(i, "CONNECTED")' =>
                       \E j \in 1..Len(queue') : j < i /\ Announcing(j)'
        <3>1. PICK k \in 1..Len(queue) : Announcing(k)
            BY <2>4, <2>5 DEF TimedInv, Announced
        <3>2. /\ Len(queue') \in {Len(queue), Len(queue) + 1}
              /\ \A i \in 1..Len(queue) : i \in 1..Len(queue') /\ queue'[i] = queue[i]
            BY <2>2, <2>3
        <3>3. \A j \in 1..Len(queue) : j \in 1..Len(queue') /\ (Announcing(j) => Announcing(j)')
            BY <1>2, <3>2 DEF Announcing, Queued
        <3>4. ASSUME NEW i \in 1..Len(queue'), Queued(i, "CONNECTED")'
              PROVE  \E j \in 1..Len(queue') : j < i /\ Announcing(j)'
            <4>1. CASE i \in 1..Len(queue)
                <5>1. Queued(i, "CONNECTED")
                    BY <1>2, <3>2, <3>4, <4>1 DEF Queued
                <5>2. PICK j \in 1..Len(queue) : j < i /\ Announcing(j)
                    BY <2>5, <4>1, <5>1 DEF TimedInv, Announced
                <5> QED BY <3>3, <5>2
            <4>2. CASE i \notin 1..Len(queue)
                <5>1. k < i
                    BY <2>3, <3>2, <4>2
                <5> QED BY <3>1, <3>3, <5>1
            <4> QED BY <4>1, <4>2
        <3> QED BY <3>1, <3>3, <3>4
    <2>6. Announced'
        BY <1>2, <2>5 DEF Announced
    <2> QED BY <1>2, <2>1, <2>2, <2>6, OthersTimed
<1> QED BY <1>3, <1>4, <1>5, <1>6, <1>7, <1>8 DEF LinkCallbacks, Host

\* a step of the UI task leaves the worker's session no more wanted than it was
LEMMA UiTimed ==
    ASSUME TypeOK, LinkInv, TimedInv, s' = s, work' = work, snapshot' = snapshot, ctl' = ctl, link' = link,
           NEW m, m.generation = 0, m.type \in ApiTypes \cup {"NONE"},
           m.type \in {"OPEN", "SAVED", "FORGET"} => m.session # 0,
           queue' = queue \/ queue' = Append(queue, m),
           Running /\ desired' = s.session => desired = s.session
    PROVE  TimedInv'
<1>1. Running' = Running /\ Attached' = Attached
    BY DEF Running, HostOn, Winding, Attached
<1>2. queue \in Seq(Messages) /\ Len(queue) \in Nat /\ s.generation \in Nat
    BY QueueFacts DEF TypeOK, WorkerType
<1>3. Grows(m.type)
    <2>1. CASE queue' = queue
        BY <2>1, SameGrows
    <2>2. CASE queue' = Append(queue, m)
        <3>1. Len(queue') = Len(queue) + 1 /\ queue'[Len(queue')] = m
            BY <1>2, <2>2
        <3>2. \A i \in 1..Len(queue) : queue'[i] = queue[i]
            BY <1>2, <2>2
        <3> QED BY <1>2, <3>1, <3>2 DEF Grows
    <2> QED BY <2>1, <2>2
<1>4. m.type # "CONNECTED"
    BY DEF ApiTypes
<1>5. Announced'
    BY <1>1, <1>3, <1>4, AnnouncedGrows DEF TimedInv
<1> QED BY <1>5, OthersTimed

\* the UI task queues at most one message, and leaves the worker's session no
\* more wanted than it was
Spoken ==
    /\ UNCHANGED <<WorkerVars, ctl, link>>
    /\ \E m : /\ m.generation = 0 /\ m.type \in ApiTypes \cup {"NONE"}
              /\ m.type \in {"OPEN", "SAVED", "FORGET"} => m.session # 0
              /\ queue' = queue \/ queue' = Append(queue, m)
    /\ Running /\ desired' = s.session => desired = s.session

LEMMA UiSpeaks ==
    ASSUME TypeOK, BondInv, TimedInv, UiMenu \/ UiTurn, UiOpenSend => Room
    PROVE  Spoken
<1>1. UNCHANGED <<WorkerVars, ctl, link>>
    BY DEF UiMenu, UiTurn, UiClose, UiForget, UiTap, UiRelease, UiOpen, UiOpenSend, UiPeerStale, UiPeer,
           Background, WorkerVars
<1>2. ui.session \in Nat /\ ui.seq \in Nat /\ s.session \in Nat /\ Issued(s.session, ui) /\ Issued(ui.session, ui)
    BY ProfileFacts DEF BondInv, Numbered
<1>3. Running => s.session # 0
    BY DEF Running, TimedInv, Seated
<1>4. NoMessage.generation = 0 /\ NoMessage.type = "NONE"
    BY DEF NoMessage
<1>5. ASSUME NEW m, m.generation = 0, m.type \in ApiTypes, m.type \in {"OPEN", "SAVED", "FORGET"} => m.session # 0,
             Send(m) \/ Enqueue(m), desired' \in {desired, 0}
      PROVE  Spoken
    <2>1. queue' = queue \/ queue' = Append(queue, m)
        BY <1>5 DEF Send, Enqueue
    <2> QED BY <1>1, <1>3, <1>5, <2>1 DEF Spoken
<1>6. CASE UiPeerStale \/ \E p \in Profiles : UiOpen(p)
    <2>1. queue' = queue
        BY <1>6 DEF UiPeerStale, UiOpen
    <2>2. desired' = desired \/ desired' = ui.seq + 1
        BY <1>6 DEF UiPeerStale, UiOpen
    <2>3. desired' = s.session => desired = s.session
        BY <1>2, <2>2 DEF Issued
    <2> QED BY <1>1, <1>4, <2>1, <2>3 DEF Spoken
<1>7. CASE UiOpenSend
    <2> DEFINE m == [NoMessage EXCEPT !.type = "OPEN", !.session = ui.seq, !.remote = Saved(ui.profile)]
    <2>1. Enqueue(m) /\ desired' = desired /\ ui.pc = "opening"
        BY <1>7 DEF UiOpenSend
    <2>2. m.type = "OPEN" /\ m.generation = 0 /\ m.session = ui.seq /\ "OPEN" \in ApiTypes
        BY DEF NoMessage, ApiTypes
    <2>3. ui.seq # 0
        BY <1>2, <2>1 DEF Issued
    <2> HIDE DEF m
    <2> QED BY <1>5, <2>1, <2>2, <2>3
<1>8. CASE UiClose
    <2> DEFINE m == [NoMessage EXCEPT !.type = "CLOSE"]
    <2>1. Send(m) /\ desired' = 0
        BY <1>8 DEF UiClose
    <2>2. m.type = "CLOSE" /\ m.generation = 0 /\ "CLOSE" \in ApiTypes
        BY DEF NoMessage, ApiTypes
    <2> HIDE DEF m
    <2> QED BY <1>5, <2>1, <2>2
<1>9. CASE UiForget
    <2>1. PICK flag \in BOOLEAN : Enqueue([NoMessage EXCEPT !.type = "FORGET", !.session = ui.session, !.flag = flag])
        BY <1>9 DEF UiForget
    <2> DEFINE m == [NoMessage EXCEPT !.type = "FORGET", !.session = ui.session, !.flag = flag]
    <2>2. Enqueue(m) /\ desired' = desired /\ ui.session # 0
        BY <1>9, <2>1 DEF UiForget, InSession
    <2>3. m.type = "FORGET" /\ m.generation = 0 /\ m.session = ui.session /\ "FORGET" \in ApiTypes
        BY DEF NoMessage, ApiTypes
    <2> HIDE DEF m
    <2> QED BY <1>5, <2>2, <2>3
<1>10. CASE UiTap \/ UiRelease
    <2>1. PICK type \in {"TAP", "RELEASE"} : Enqueue([NoMessage EXCEPT !.type = type, !.session = ui.session])
        BY <1>10 DEF UiTap, UiRelease
    <2> DEFINE m == [NoMessage EXCEPT !.type = type, !.session = ui.session]
    <2>2. Enqueue(m) /\ desired' = desired
        BY <1>10, <2>1 DEF UiTap, UiRelease
    <2>3. m.type \in {"TAP", "RELEASE"} /\ m.generation = 0 /\ {"TAP", "RELEASE"} \subseteq ApiTypes
        BY DEF NoMessage, ApiTypes
    <2> HIDE DEF m
    <2> QED BY <1>5, <2>2, <2>3
<1>11. CASE UiPeer
    <2>1. PICK ok, remote : Send([NoMessage EXCEPT !.type = "SAVED", !.session = ui.session, !.flag = ok,
                                                   !.remote = remote])
        BY <1>11 DEF UiPeer
    <2> DEFINE m == [NoMessage EXCEPT !.type = "SAVED", !.session = ui.session, !.flag = ok,
                                       !.remote = remote]
    <2>2. Send(m) /\ desired' \in {desired, 0} /\ ui.session # 0
        BY <1>11, <2>1 DEF UiPeer, InSession
    <2>3. m.type = "SAVED" /\ m.generation = 0 /\ m.session = ui.session /\ "SAVED" \in ApiTypes
        BY DEF NoMessage, ApiTypes
    <2> HIDE DEF m
    <2> QED BY <1>5, <2>2, <2>3
<1> QED BY <1>6, <1>7, <1>8, <1>9, <1>10, <1>11 DEF UiMenu, UiTurn

LEMMA UiStepsTimed ==
    ASSUME TypeOK, LinkInv, BondInv, TimedInv, UiMenu \/ UiTurn, UiOpenSend => Room
    PROVE  TimedInv'
<1>1. Spoken
    BY UiSpeaks
<1>2. PICK m : /\ m.generation = 0 /\ m.type \in ApiTypes \cup {"NONE"}
               /\ m.type \in {"OPEN", "SAVED", "FORGET"} => m.session # 0
               /\ queue' = queue \/ queue' = Append(queue, m)
    BY <1>1 DEF Spoken
<1> QED BY <1>1, <1>2, UiTimed DEF Spoken, WorkerVars

LEMMA IdleTimed ==
    ASSUME s = IdleWorker, work = IdleWork, queue = << >>, snapshot = OffStatus
    PROVE  TimedInv
<1>1. ~Opening /\ Held = {} /\ ~Winding /\ ~HostOn(s) /\ work.pc = "idle" /\ s.connected = FALSE
    BY DEF Opening, Held, IdleWork, Winding, HostOn, IdleWorker
<1>2. Seated
    BY <1>1 DEF Seated
<1>3. Announced /\ Untimed
    BY <1>1 DEF Announced, Untimed, Running
<1>4. Used
    BY <1>1 DEF Used, InUse, OffStatus, Calm, Posts
<1> QED BY <1>2, <1>3, <1>4 DEF TimedInv

LEMMA PowerLossTimed ==
    ASSUME PowerLoss
    PROVE  TimedInv'
<1>0. s' = IdleWorker /\ work' = IdleWork /\ queue' = << >> /\ snapshot' = OffStatus
    BY DEF PowerLoss
<1>1. ~Opening' /\ Held' = {} /\ ~Winding' /\ ~HostOn(s') /\ work'.pc = "idle" /\ s'.connected = FALSE
    BY <1>0 DEF Opening, Held, IdleWork, Winding, HostOn, IdleWorker
<1>2. Seated'
    BY <1>1 DEF Seated
<1>3. Announced' /\ Untimed'
    BY <1>1 DEF Announced, Untimed, Running
<1>4. Used'
    BY <1>0, <1>1 DEF Used, InUse, OffStatus, Calm, Posts
<1> QED BY <1>2, <1>3, <1>4 DEF TimedInv

\* neither the message that advertising has started nor an OPEN meets a full queue
StartsQueued == CompleteAdvStart \/ UiOpenSend => Room

LEMMA TimedInvStep ==
    ASSUME TypeOK, StoppedInv, LinkInv, LinkInv', BondInv, TimedInv, [Next]_vars, [StartsQueued]_vars
    PROVE  TimedInv'
<1>1. CASE UNCHANGED vars
    <2>1. UNCHANGED <<WorkerVars, desired>> /\ queue' = queue /\ ctl' = ctl /\ Attached' = Attached
        BY <1>1 DEF vars, WorkerVars, Attached
    <2> QED BY <2>1, CallbackTaskTimed
<1>2. HostDownIsSilent
    BY DEF StoppedInv
<1>3. CASE Worker
    BY <1>2, <1>3, StopStepsTimed, FinishStepsTimed, ApiHandlersTimed, CallbackHandlersTimed, TailTimed DEF Worker
<1>4. CASE StartsQueued
    BY <1>2, <1>3, <1>4, TailTimed, CompletionsTimed, LinkStepsTimed, UiStepsTimed, DeadlineTimed, PowerLossTimed,
       <1>1 DEF Next, StartsQueued
<1> QED BY <1>1, <1>4

\* A session in use is on the clock of neither its start, its pairing window nor
\* its connection attempt, when the waits and calls of a stop succeed and neither
\* an ADV_STARTED nor an OPEN is refused by a full queue (bt_runtime.c:543-545,
\* 771, 853-861: HandleAdvStarted clears the start, ready_if_subscribed the rest).
THEOREM InUseUnderNoDeadline ==
    CleanStops => (Spec /\ [][StartsQueued]_vars => []InUseHasNoDeadline)
<1> SUFFICES ASSUME CleanStops PROVE Spec /\ [][StartsQueued]_vars => []InUseHasNoDeadline
    OBVIOUS
<1>1. Init => TimedInv
    BY IdleTimed DEF Init
<1>2. TypeOK /\ StoppedInv /\ LinkInv /\ LinkInv' /\ BondInv /\ TimedInv /\ [Next]_vars /\ [StartsQueued]_vars => TimedInv'
    BY TimedInvStep
<1>3. TimedInv => InUseHasNoDeadline
    <2>1. "idle" \in Calm
        BY DEF Calm, Posts
    <2> QED BY <2>1 DEF TimedInv, Untimed, Used, InUseHasNoDeadline
<1> QED BY <1>1, <1>2, <1>3, TypeCorrect, StoppedCorrect, LinkViewCorrect, CopiesCorrect, PTL DEF Spec

-----------------------------------------------------------------------------
(* The worker's view of the link                                             *)

Reporting(i) == Queued(i, "CONNECTED") \/ Queued(i, "DISCONNECTED")
LastReport(i) == Reporting(i) /\ \A j \in 1..Len(queue) : Reporting(j) => j <= i

\* the last report still queued, or the worker's flag without one, is true to the link
Followed ==
    Running /\ desired = s.session /\ link.phase = "idle" =>
        /\ \A i \in 1..Len(queue) : LastReport(i) => (queue[i].type = "CONNECTED" <=> link.live = TRUE)
        /\ (\A i \in 1..Len(queue) : ~Reporting(i)) => s.connected = link.live

\* an AUTH that no CONNECTED follows is about the link there is
Latest(i) ==
    /\ Queued(i, "AUTH") /\ queue[i].ok = TRUE
    /\ \A j \in 1..Len(queue) : i < j => ~Queued(j, "CONNECTED")
Vouched ==
    Running /\ link.live = TRUE /\ ~Joining =>
        \A i \in 1..Len(queue) : Latest(i) => link.enc = TRUE /\ link.host = queue[i].peer

Trusted ==
    Running /\ s.connected = TRUE /\ s.encrypted = TRUE /\ link.live = TRUE
        => link.enc = TRUE /\ link.host = s.profile.peer

\* what the worker's flags exclude, and what a session in use has
Flags(s1) ==
    /\ s1.advertising = TRUE => s1.connected = FALSE
    /\ s1.encrypted = TRUE => s1.connected = TRUE
    /\ s1.saved = TRUE => s1.pairing = FALSE
Relied ==
    /\ work.pc \in Calm /\ InUse => s.encrypted = TRUE /\ s.saved = TRUE
    /\ work.pc \notin Calm => ~InUse

MatchInv == Followed /\ Vouched /\ Trusted /\ Flags(s) /\ Relied

Wanted == Running /\ desired = s.session

\* messages go, and the worker's flag changes with the report taken
LEMMA FollowedShrinks ==
    ASSUME TypeOK, Followed, Shrinks, s'.generation = s.generation, SameLink, Wanted' => Wanted,
           \/ /\ queue' = queue \/ ~Reporting(1)
              /\ link.phase = "idle" => s'.connected = s.connected \/ s'.connected = link.live
           \/ /\ Reporting(1) /\ Len(queue') = Len(queue) - 1
              /\ s'.connected = (queue[1].type = "CONNECTED")
    PROVE  Followed'
<1> SUFFICES ASSUME Wanted', link.phase = "idle"
             PROVE  /\ \A i \in 1..Len(queue') : LastReport(i)' => (queue'[i].type = "CONNECTED" <=> link.live = TRUE)
                    /\ (\A i \in 1..Len(queue') : ~Reporting(i)') => s'.connected = link.live
    BY DEF Followed, SameLink, Wanted
<1>1. /\ \A i \in 1..Len(queue) : LastReport(i) => (queue[i].type = "CONNECTED" <=> link.live = TRUE)
      /\ (\A i \in 1..Len(queue) : ~Reporting(i)) => s.connected = link.live
    BY DEF Followed, Wanted
<1>2. CASE queue' = queue /\ (s'.connected = s.connected \/ s'.connected = link.live)
    <2>1. \A i : Reporting(i)' <=> Reporting(i)
        BY <1>2 DEF Reporting, Queued
    <2>2. \A i : LastReport(i)' <=> LastReport(i)
        BY <1>2, <2>1 DEF LastReport
    <2> QED BY <1>1, <1>2, <2>1, <2>2
<1>3. CASE \/ ~Reporting(1) /\ (s'.connected = s.connected \/ s'.connected = link.live)
           \/ /\ Reporting(1) /\ Len(queue') = Len(queue) - 1
              /\ s'.connected = (queue[1].type = "CONNECTED")
    <2>1. PICK d \in {0, 1} :
             /\ Len(queue') = Len(queue) - d
             /\ \A i \in 1..Len(queue') : i + d \in 1..Len(queue) /\ queue'[i] = queue[i + d]
             /\ \A i, type : Queued(i, type)' => i \in 1..Len(queue') /\ Queued(i + d, type)
        BY ShrinksQueued
    <2>2. Len(queue) \in Nat /\ Len(queue') \in Nat
        BY <2>1, QueueFacts DEF TypeOK, Shrinks
    <2>3. \A i \in 1..Len(queue') : Reporting(i)' => i + d \in 1..Len(queue) /\ Reporting(i + d)
        BY <2>1 DEF Reporting
    <2>4. ASSUME NEW j \in 1..Len(queue), Reporting(j), j # 1 \/ d = 0
          PROVE  j - d \in 1..Len(queue') /\ Reporting(j - d)'
        <3>1. j - d \in 1..Len(queue') /\ (j - d) + d = j
            BY <2>1, <2>2, <2>4
        <3>2. queue'[j - d] = queue[j]
            BY <2>1, <3>1
        <3> QED BY <2>4, <3>1, <3>2 DEF Reporting, Queued
    <2>5. ASSUME NEW i \in 1..Len(queue'), LastReport(i)'
          PROVE  queue'[i].type = "CONNECTED" <=> link.live = TRUE
        <3>1. i + d \in 1..Len(queue) /\ Reporting(i + d) /\ queue'[i] = queue[i + d] /\ i + d >= 1
            BY <2>1, <2>2, <2>3, <2>5 DEF LastReport
        <3>2. ASSUME NEW j \in 1..Len(queue), Reporting(j)
              PROVE  j <= i + d
            <4>1. CASE j = 1
                BY <2>1, <3>1, <4>1
            <4>2. CASE j # 1
                <5>1. j - d \in 1..Len(queue') /\ Reporting(j - d)'
                    BY <2>4, <3>2, <4>2
                <5>2. j - d <= i
                    BY <2>5, <5>1 DEF LastReport
                <5> QED BY <2>1, <2>2, <5>2
            <4> QED BY <4>1, <4>2
        <3>3. LastReport(i + d)
            BY <3>1, <3>2 DEF LastReport
        <3> QED BY <1>1, <3>1, <3>3
    <2>6. ASSUME \A i \in 1..Len(queue') : ~Reporting(i)'
          PROVE  s'.connected = link.live
        <3>1. ASSUME NEW j \in 1..Len(queue), Reporting(j)
              PROVE  j = 1 /\ d = 1
            BY <2>1, <2>4, <2>6, <3>1
        <3>2. CASE Reporting(1)
            <4>1. 1 \in 1..Len(queue)
                BY <3>2 DEF Reporting, Queued
            <4>2. LastReport(1)
                BY <3>1, <3>2 DEF LastReport
            <4>3. s'.connected = (queue[1].type = "CONNECTED")
                BY <1>3, <3>2
            <4>4. link.live \in BOOLEAN
                BY DEF TypeOK, LinkType
            <4>5. queue[1].type = "CONNECTED" <=> link.live = TRUE
                BY <1>1, <4>1, <4>2
            <4> QED BY <4>3, <4>4, <4>5
        <3>3. CASE ~Reporting(1)
            <4>1. \A j \in 1..Len(queue) : ~Reporting(j)
                BY <3>1, <3>3
            <4> QED BY <1>1, <1>3, <3>3, <4>1
        <3> QED BY <3>2, <3>3
    <2> QED BY <2>5, <2>6
<1> QED BY <1>2, <1>3

LEMMA VouchedShrinks ==
    ASSUME TypeOK, Vouched, Shrinks, s'.generation = s.generation, SameLink, Running' => Running
    PROVE  Vouched'
<1> SUFFICES ASSUME Running', link.live = TRUE, ~Joining, NEW i \in 1..Len(queue'), Latest(i)'
             PROVE  link.enc = TRUE /\ link.host = queue'[i].peer
    BY DEF Vouched, SameLink, Joining
<1>1. PICK d \in {0, 1} :
         /\ Len(queue') = Len(queue) - d
         /\ \A k \in 1..Len(queue') : k + d \in 1..Len(queue) /\ queue'[k] = queue[k + d]
         /\ \A k, type : Queued(k, type)' => k \in 1..Len(queue') /\ Queued(k + d, type)
    BY ShrinksQueued
<1>2. Len(queue) \in Nat /\ Len(queue') \in Nat
    BY <1>1, QueueFacts DEF TypeOK, Shrinks
<1>3. i + d \in 1..Len(queue) /\ queue'[i] = queue[i + d] /\ Queued(i + d, "AUTH") /\ queue[i + d].ok = TRUE
    BY <1>1 DEF Latest
<1>4. ASSUME NEW j \in 1..Len(queue), i + d < j, Queued(j, "CONNECTED")
      PROVE  FALSE
    <2>1. j - d \in 1..Len(queue') /\ i < j - d /\ (j - d) + d = j
        BY <1>1, <1>2, <1>4
    <2>2. queue'[j - d] = queue[j]
        BY <1>1, <2>1
    <2>3. Queued(j - d, "CONNECTED")'
        BY <1>4, <2>1, <2>2 DEF Queued
    <2> QED BY <2>1, <2>3 DEF Latest
<1>5. Latest(i + d)
    BY <1>3, <1>4 DEF Latest
<1> QED BY <1>3, <1>5 DEF Vouched

\* a message comes that is no report, and the link is still up or still down
LEMMA FollowedGrows ==
    ASSUME TypeOK, Followed, NEW type, type \notin {"CONNECTED", "DISCONNECTED"}, Grows(type),
           s'.generation = s.generation, s'.connected = s.connected, Wanted' => Wanted,
           link'.phase = "idle" => link.phase = "idle" /\ link'.live = link.live
    PROVE  Followed'
<1> SUFFICES ASSUME Wanted', link'.phase = "idle"
             PROVE  /\ \A i \in 1..Len(queue') : LastReport(i)' => (queue'[i].type = "CONNECTED" <=> link.live = TRUE)
                    /\ (\A i \in 1..Len(queue') : ~Reporting(i)') => s'.connected = link.live
    BY DEF Followed, Wanted
<1>1. /\ \A i \in 1..Len(queue) : LastReport(i) => (queue[i].type = "CONNECTED" <=> link.live = TRUE)
      /\ (\A i \in 1..Len(queue) : ~Reporting(i)) => s.connected = link.live
    BY DEF Followed, Wanted
<1>2. /\ Len(queue) \in Nat /\ Len(queue') \in {Len(queue), Len(queue) + 1}
      /\ \A i \in 1..Len(queue) : i \in 1..Len(queue') /\ queue'[i] = queue[i]
      /\ Len(queue') # Len(queue) => queue'[Len(queue')].type = type
    BY QueueFacts DEF Grows
<1>3. \A j \in 1..Len(queue) : Reporting(j)' <=> Reporting(j)
    BY <1>2 DEF Reporting, Queued
<1>4. \A i \in 1..Len(queue') : Reporting(i)' => i \in 1..Len(queue) /\ Reporting(i)
    BY <1>2 DEF Reporting, Queued
<1>5. \A i \in 1..Len(queue') : LastReport(i)' => i \in 1..Len(queue) /\ LastReport(i)
    BY <1>2, <1>3, <1>4 DEF LastReport
<1> QED BY <1>1, <1>2, <1>3, <1>5

\* a message comes; if it is an AUTH, the link is that of the host it names
LEMMA VouchedGrows ==
    ASSUME TypeOK, Vouched, NEW type, Grows(type), s'.generation = s.generation, Running' => Running,
           link'.live = TRUE /\ ~Joining' =>
               /\ link.live = TRUE /\ ~Joining /\ link'.host = link.host
               /\ link'.enc = link.enc \/ link'.enc = TRUE
               /\ Len(queue') # Len(queue) /\ queue'[Len(queue')].type = "AUTH" /\ queue'[Len(queue')].ok = TRUE =>
                     link'.enc = TRUE /\ link'.host = queue'[Len(queue')].peer
    PROVE  Vouched'
<1> SUFFICES ASSUME Running', link'.live = TRUE, ~Joining', NEW i \in 1..Len(queue'), Latest(i)'
             PROVE  link'.enc = TRUE /\ link'.host = queue'[i].peer
    BY DEF Vouched
<1>1. /\ Len(queue) \in Nat /\ Len(queue') \in {Len(queue), Len(queue) + 1}
      /\ \A j \in 1..Len(queue) : j \in 1..Len(queue') /\ queue'[j] = queue[j]
    BY QueueFacts DEF Grows
<1>2. CASE i \in 1..Len(queue)
    <2>1. \A j, t : j \in 1..Len(queue) => (Queued(j, t)' <=> Queued(j, t))
        BY <1>1 DEF Queued
    <2>2. Latest(i)
        BY <1>1, <1>2, <2>1 DEF Latest
    <2> QED BY <1>1, <1>2, <2>2 DEF Vouched
<1>3. CASE i \notin 1..Len(queue)
    <2>1. i = Len(queue') /\ Len(queue') # Len(queue)
        BY <1>1, <1>3
    <2> QED BY <2>1 DEF Latest, Queued
<1> QED BY <1>2, <1>3

\* no host runs, or the worker takes it down
LEMMA StoppedMatched ==
    ASSUME ~Running', Flags(s'), Relied'
    PROVE  MatchInv'
<1>1. Flags(s)'
    BY DEF Flags
<1>2. Followed' /\ Vouched' /\ Trusted'
    BY DEF Followed, Vouched, Trusted
<1> QED BY <1>1, <1>2 DEF MatchInv

LEMMA StopMatched ==
    ASSUME TimedInv', NEW s1 \in WorkerType, Flags(s1), NEW shown, NEW k, k # "auth_retry", NEW post, NEW m,
           BeginStop(s1, shown, k, post, m)
    PROVE  MatchInv'
<1>1. s' = [s1 EXCEPT !.deadlines = {}, !.due = {}, !.awaiting_save = FALSE, !.forgetting = FALSE]
    BY DEF BeginStop, StoppedFlags
<1>2. /\ s'.advertising = s1.advertising /\ s'.connected = s1.connected /\ s'.encrypted = s1.encrypted
      /\ s'.saved = s1.saved /\ s'.pairing = s1.pairing
    BY <1>1 DEF WorkerType
<1>3. work'.pc = "stop_adv" /\ work'.k = k
    BY DEF BeginStop
<1>4. work'.pc \notin Calm /\ ~Running'
    BY <1>3 DEF Calm, Posts, Running, Winding
<1>5. Relied'
    BY <1>3, <1>4 DEF TimedInv, Used, Relied
<1>6. Flags(s')
    BY <1>2 DEF Flags
<1> QED BY <1>4, <1>5, <1>6, StoppedMatched

\* a copy of the worker's state that a handler works on
Akin(s1) ==
    /\ s1 \in WorkerType /\ s1.session = s.session /\ s1.generation = s.generation /\ s1.layers = s.layers
    /\ s1.connected = s.connected /\ s1.advertising = s.advertising
    /\ s1.encrypted = TRUE => s1.connected = TRUE
    /\ s.encrypted = TRUE => s1.encrypted = TRUE
    /\ Running /\ s1.encrypted = TRUE /\ link.live = TRUE => link.enc = TRUE /\ link.host = s1.profile.peer
    /\ s1.saved = TRUE => s1.pairing = FALSE

LEMMA SelfAkin ==
    ASSUME TypeOK, MatchInv
    PROVE  Akin(s)
<1>1. s \in WorkerType
    BY DEF TypeOK
<1>2. (s.saved = TRUE => s.pairing = FALSE) /\ (s.encrypted = TRUE => s.connected = TRUE)
    BY DEF MatchInv, Flags
<1>3. Running /\ s.encrypted = TRUE /\ link.live = TRUE => link.enc = TRUE /\ link.host = s.profile.peer
    BY <1>2 DEF MatchInv, Trusted
<1> QED BY <1>1, <1>2, <1>3 DEF Akin

LEMMA AkinFlags ==
    ASSUME MatchInv, NEW s1, Akin(s1)
    PROVE  Flags(s1)
BY DEF MatchInv, Flags, Akin

\* a handler that keeps the worker's view of the link
LEMMA GoesMatched ==
    ASSUME TypeOK, MatchInv, work.pc \in Calm, work'.pc \in Calm, Shrinks, SameLink, desired' = desired,
           Akin(s'), queue' = queue \/ ~Reporting(1), InUse' => s'.encrypted = TRUE /\ s'.saved = TRUE
    PROVE  MatchInv'
<1>1. ~Winding /\ ~Winding'
    BY DEF Winding, Calm, Posts
<1>2. Running' = Running /\ (Wanted' => Wanted)
    BY <1>1 DEF Running, HostOn, Wanted, Akin
<1>3. Followed'
    BY <1>2, FollowedShrinks DEF MatchInv, Akin
<1>4. Vouched'
    BY <1>2, VouchedShrinks DEF MatchInv, Akin
<1>5. Trusted'
    BY <1>2 DEF MatchInv, Trusted, Akin, SameLink
<1>6. Flags(s)'
    <2>1. Flags(s')
        BY AkinFlags
    <2> QED BY <2>1 DEF Flags
<1>7. Relied'
    BY DEF Relied
<1> QED BY <1>3, <1>4, <1>5, <1>6, <1>7 DEF MatchInv

\* the same, with the status as it was
LEMMA KeepsMatched ==
    ASSUME TypeOK, MatchInv, work.pc \in Calm, work'.pc \in Calm, Shrinks, SameLink, desired' = desired,
           Akin(s'), s.saved = TRUE => s'.saved = TRUE, queue' = queue \/ ~Reporting(1), ~InUse' \/ snapshot' = snapshot
    PROVE  MatchInv'
<1>1. InUse' => s'.encrypted = TRUE /\ s'.saved = TRUE
    <2>1. InUse' => InUse
        BY InUseFacts
    <2> QED BY <2>1 DEF MatchInv, Relied, Akin
<1> QED BY <1>1, GoesMatched

\* a new generation: nothing is queued for it
LEMMA FreshMatched ==
    ASSUME TypeOK, LinkInv, MatchInv, queue' = queue, SameLink, ~Attached, s'.generation = s.generation + 1,
           s'.connected = FALSE, Flags(s'), work'.pc \in Calm, ~InUse'
    PROVE  MatchInv'
<1>1. \A i \in 1..Len(queue) : queue[i].generation <= s.generation /\ queue[i].generation \in Nat /\ s.generation \in Nat
    BY QueueFacts DEF LinkInv, Stamped, TypeOK, WorkerType
<1>2. \A i, type : i \in 1..Len(queue') => ~Queued(i, type)'
    BY <1>1 DEF Queued
<1>3. link.live = FALSE
    BY DEF Attached, TypeOK, LinkType
<1>4. Followed'
    BY <1>2, <1>3 DEF Followed, LastReport, Reporting, SameLink
<1>5. Vouched' /\ Trusted'
    BY <1>2 DEF Vouched, Latest, Trusted
<1>6. Flags(s)' /\ Relied'
    BY DEF Flags, Relied
<1> QED BY <1>4, <1>5, <1>6 DEF MatchInv

LEMMA NotReporting ==
    ASSUME TypeOK, NEW types, Take(types), types \cap {"CONNECTED", "DISCONNECTED"} = {}
    PROVE  ~Reporting(1)
BY TakeShrinks DEF Reporting, Queued

LEMMA ReadyIfSubscribedMatched ==
    ASSUME TypeOK, MatchInv, TimedInv', work.pc \in Calm, Shrinks, SameLink, desired' = desired,
           NEW s1, Akin(s1), s.saved = TRUE => s1.saved = TRUE,
           NEW post \in Calm, NEW m, ReadyIfSubscribed(s1, post, m), ~Reporting(1)
    PROVE  MatchInv'
<1>1. CASE s' = s1 /\ snapshot' = snapshot /\ work' = [work EXCEPT !.pc = post, !.msg = m]
    <2>1. work'.pc = post
        BY <1>1 DEF TypeOK, WorkType
    <2>2. Akin(s')
        BY <1>1 DEF Akin
    <2> QED BY <1>1, <2>1, <2>2, KeepsMatched
<1>2. CASE /\ Usable(s1)
           /\ s' = [(IF ccc THEN Clear(s1, {"connect", "pair"}) ELSE s1) EXCEPT !.subscribed = ccc]
           /\ work' = [work EXCEPT !.pc = post, !.msg = m]
    <2> DEFINE cleared == Clear(s1, {"connect", "pair"})
               base == IF ccc THEN cleared ELSE s1
    <2>1. work'.pc = post /\ ccc \in BOOLEAN /\ s1 \in WorkerType
        BY <1>2 DEF TypeOK, WorkType, Akin
    <2>2. Akin(cleared) /\ cleared.saved = s1.saved /\ cleared.encrypted = s1.encrypted
        <3>1. cleared \in WorkerType
            BY <2>1, ClearType
        <3> QED BY <2>1, <3>1 DEF Akin, Clear, WorkerType
    <2>3. s' = [base EXCEPT !.subscribed = ccc] /\ (base = cleared \/ base = s1)
        BY <1>2
    <2> HIDE DEF cleared, base
    <2>4. Akin(base) /\ base.saved = s1.saved /\ base.encrypted = s1.encrypted
        BY <2>2, <2>3
    <2>5. Akin(s') /\ s'.saved = s1.saved /\ s'.encrypted = s1.encrypted
        BY <2>1, <2>3, <2>4 DEF Akin, WorkerType
    <2>6. s'.encrypted = TRUE /\ s'.saved = TRUE
        BY <1>2, <2>1, <2>5 DEF Usable, Akin, WorkerType
    <2> QED BY <2>1, <2>5, <2>6, GoesMatched
<1>3. CASE BeginStop(s1, snapshot, "fail", post, m)
    BY <1>3, AkinFlags, StopMatched DEF Akin
<1> QED BY <1>1, <1>2, <1>3 DEF ReadyIfSubscribed

LEMMA ApiHandlersMatched ==
    ASSUME TypeOK, MatchInv, TimedInv, TimedInv', ApiHandlers
    PROVE  MatchInv'
<1>1. PICK types \in {{"OPEN"}, {"FORGET"}, {"SAVED"}, {"TAP"}, {"RELEASE"}, {"CLOSE"}, ApiTypes \cup CallbackTypes} :
         Take(types)
    BY DEF ApiHandlers, HandleOpen, HandleForget, HandleSaved, HandleTap, HandleRelease, HandleClose, HandleDropped
<1>2. SameLink /\ desired' = desired
    BY DEF ApiHandlers, HandleOpen, HandleForget, HandleSaved, HandleTap, HandleRelease, HandleClose, HandleDropped,
       Outside, SameLink
<1>3. work.pc = "idle" /\ work.pc \in Calm /\ {"idle", "tail", "after"} \subseteq Calm /\ s \in WorkerType
      /\ work \in WorkType
    BY <1>1 DEF Take, Calm, Posts, TypeOK
<1>4. Shrinks /\ Len(queue) > 0 /\ Msg = queue[1] /\ Msg \in Messages /\ Msg.type \in types
    BY <1>1, TakeShrinks
<1>5. Akin(s) /\ Flags(s)
    <2>1. Flags(s)
        BY DEF MatchInv
    <2> QED BY <2>1, SelfAkin
<1>6. ASSUME NEW pc \in {"idle", "tail", "after"}, Done(pc), UNCHANGED <<snapshot, s>>, ~Reporting(1) \/ ~Wanted
      PROVE  MatchInv'
    <2>1. work'.pc = pc
        BY <1>3, <1>6 DEF Done, WorkType
    <2>2. Akin(s') /\ s'.saved = s.saved /\ work'.pc \in Calm
        BY <1>3, <1>5, <1>6, <2>1
    <2>3. CASE ~Reporting(1)
        BY <1>2, <1>3, <1>4, <1>6, <2>2, <2>3, KeepsMatched
    <2>4. CASE ~Wanted
        <3>1. Running' = Running
            BY <1>3, <1>6, <2>1 DEF Running, HostOn, Winding
        <3>2. ~Wanted' /\ Followed'
            BY <1>2, <1>6, <2>4, <3>1 DEF Wanted, Followed
        <3>3. Vouched'
            BY <1>2, <1>4, <1>6, <3>1, VouchedShrinks DEF MatchInv
        <3>4. Trusted'
            BY <1>2, <1>6, <3>1 DEF MatchInv, Trusted, SameLink
        <3>5. Flags(s)' /\ Relied'
            BY <1>3, <1>6, <2>2, InUseFacts DEF MatchInv, Flags, Relied
        <3> QED BY <3>2, <3>3, <3>4, <3>5 DEF MatchInv
    <2> QED BY <1>6, <2>3, <2>4
<1>7. CASE HandleOpen
    <2>1. ~Reporting(1)
        BY <1>7, NotReporting DEF HandleOpen
    <2> QED BY <1>3, <1>5, <1>6, <1>7, <2>1, StopMatched DEF HandleOpen
<1>8. CASE HandleForget
    BY <1>3, <1>5, <1>8, StopMatched DEF HandleForget
<1>9. CASE HandleTap \/ HandleRelease \/ HandleClose
    <2>1. ~Reporting(1)
        BY <1>9, NotReporting DEF HandleTap, HandleRelease, HandleClose
    <2> QED BY <1>3, <1>5, <1>6, <1>9, <2>1, StopMatched DEF HandleTap, HandleRelease, HandleClose
<1>10. CASE HandleSaved
    <2> DEFINE acked == [Clear(s, {"save"}) EXCEPT !.awaiting_save = FALSE]
               s1 == [AckFlags EXCEPT !.saved = TRUE, !.pairing = FALSE]
               s2 == [AckFlags EXCEPT !.profile = Msg.remote, !.forgetting = FALSE]
    <2>1. Clear(s, {"save"}) \in WorkerType
        BY <1>3, ClearType
    <2>2. AckFlags \in WorkerType
        BY <2>1 DEF AckFlags, WorkerType
    <2>3. Akin(AckFlags)
        <3>1. Clear(s, {"save"}).session = s.session /\ Akin(Clear(s, {"save"}))
            BY <1>3, <1>5, <2>1 DEF Clear, Akin, WorkerType
        <3> QED BY <2>1, <2>2, <3>1 DEF AckFlags, Akin, WorkerType
    <2>4. AckFlags.forgetting \in BOOLEAN
        BY <2>2 DEF WorkerType
    <2>5. Akin(s1) /\ s1.saved = TRUE
        BY <2>2, <2>3 DEF Akin, WorkerType
    <2>6. s2 \in WorkerType /\ Flags(s2)
        <3>1. Msg.remote \in Remotes /\ Flags(AckFlags)
            BY <1>4, <2>3, AkinFlags DEF Messages
        <3>2. s2 \in WorkerType /\ s2.advertising = AckFlags.advertising /\ s2.connected = AckFlags.connected
              /\ s2.encrypted = AckFlags.encrypted /\ s2.saved = AckFlags.saved /\ s2.pairing = AckFlags.pairing
            BY <2>2, <3>1 DEF WorkerType
        <3> QED BY <3>1, <3>2 DEF Flags
    <2>7. ~Reporting(1)
        BY <1>10, NotReporting DEF HandleSaved
    <2>8. Flags(AckFlags) /\ Flags(s1) /\ s1 \in WorkerType
        BY <2>3, <2>5, AkinFlags DEF Akin
    <2>9. \/ BeginStop(AckFlags, snapshot, "fail", "idle", Msg)
          \/ BeginStop(s2, snapshot, IF s.pair_after THEN "restart" ELSE "unpair", "tail", Msg)
          \/ BeginStop(s1, snapshot, "restart", "tail", Msg)
          \/ ReadyIfSubscribed(s1, "tail", Msg)
        BY <1>10 DEF HandleSaved
    <2> HIDE DEF s1, s2
    <2>10. (IF s.pair_after THEN "restart" ELSE "unpair") # "auth_retry"
        OBVIOUS
    <2>11. CASE ReadyIfSubscribed(s1, "tail", Msg)
        BY <1>2, <1>3, <1>4, <2>5, <2>7, <2>11, ReadyIfSubscribedMatched
    <2> QED BY <2>2, <2>6, <2>8, <2>9, <2>10, <2>11, StopMatched
<1>11. CASE HandleDropped
    <2>1. ~Reporting(1) \/ ~Wanted
        <3>1. SUFFICES ASSUME Reporting(1), Wanted PROVE FALSE
            OBVIOUS
        <3>2. Msg.type \in {"CONNECTED", "DISCONNECTED"} /\ Msg.generation = s.generation /\ HostOn(s)
              /\ desired = s.session /\ s.generation # 0
            BY <1>4, <3>1 DEF Reporting, Queued, Wanted, Running, TimedInv, Seated
        <3>3. Current(Msg)
            BY <3>2 DEF Current
        <3> QED BY <1>11, <3>2, <3>3 DEF HandleDropped
    <2>2. PICK pc \in {"idle", "tail", "after"} : Done(pc)
        BY <1>11 DEF HandleDropped
    <2> QED BY <1>6, <1>11, <2>1, <2>2 DEF HandleDropped
<1> QED BY <1>7, <1>8, <1>9, <1>10, <1>11 DEF ApiHandlers

LEMMA RequestMatched ==
    ASSUME TypeOK, MatchInv, TimedInv', work.pc \in Calm, Shrinks, SameLink, desired' = desired,
           NEW s1, Akin(s1), s1.saved = s.saved, NEW op, Request(s1, op), ~Reporting(1)
    PROVE  MatchInv'
<1>1. CASE s' = s1 /\ Done("after") /\ snapshot' = snapshot
    <2>1. work'.pc \in Calm /\ Akin(s')
        BY <1>1, DoneFacts DEF Calm, Posts, Akin
    <2> QED BY <1>1, <2>1, KeepsMatched
<1>2. CASE BeginStop(s1, snapshot, "fail", "after", Msg)
    BY <1>2, AkinFlags, StopMatched DEF Akin
<1> QED BY <1>1, <1>2 DEF Request

LEMMA SetFlagsMatched ==
    ASSUME TypeOK, MatchInv, work.pc \in Calm, Shrinks, SameLink, desired' = desired,
           NEW s1, Akin(s1), s1.saved = s.saved, SetFlags(s1), ~Reporting(1)
    PROVE  MatchInv'
<1>1. s' = s1 /\ Done("after") /\ snapshot' = snapshot
    BY DEF SetFlags
<1>2. work'.pc \in Calm /\ Akin(s')
    BY <1>1, DoneFacts DEF Calm, Posts, Akin
<1> QED BY <1>1, <1>2, KeepsMatched

LEMMA SetupMatched ==
    ASSUME TypeOK, LinkInv, MatchInv, TimedInv',
           HandleGate \/ HandleHidReady \/ HandlePrivacy \/ HandleWhitelist \/ HandlePeerPrivacy
    PROVE  MatchInv'
<1>1. PICK types \in {{"ADV_DATA", "SCAN_DATA", "ADDRESS"}, {"HID_READY"}, {"PRIVACY"},
                      {"WHITELIST_CLEAR", "WHITELIST_ADD"}, {"PEER_PRIVACY"}} : TakeCallback(types)
    BY DEF HandleGate, HandleHidReady, HandlePrivacy, HandleWhitelist, HandlePeerPrivacy
<1>2. /\ Shrinks /\ work.pc \in Calm /\ "after" \in Calm /\ s \in WorkerType /\ Msg \in Messages
    BY <1>1, CallbackTaken
<1>3. ~Reporting(1)
    BY <1>1, NotReporting DEF TakeCallback
<1>4. SameLink /\ desired' = desired
    BY DEF HandleGate, HandleHidReady, HandlePrivacy, HandleWhitelist, HandlePeerPrivacy, Outside, SameLink
<1>5. Akin(s)
    BY SelfAkin
<1>6. ASSUME NEW s1, Akin(s1), s1.saved = s.saved, SetFlags(s1) \/ \E op : Request(s1, op)
      PROVE  MatchInv'
    BY <1>2, <1>3, <1>4, <1>6, SetFlagsMatched, RequestMatched
<1>8. CASE HandleGate \/ HandleHidReady
    <2>1. snapshot' = snapshot /\ work'.pc = "after"
        BY <1>8 DEF HandleGate, HandleHidReady, Done, TypeOK, WorkType
    <2>2. PICK ready \in SUBSET ReadyFlags : s' = [s EXCEPT !.ready = ready]
        <3>1. CASE HandleGate
            <4>1. Msg.type \in {"ADV_DATA", "SCAN_DATA", "ADDRESS"}
                BY <3>1 DEF HandleGate, TakeCallback, Take, Msg
            <4>2. GateOf[Msg.type] \in {"adv_data", "scan_data", "address"}
                BY <4>1 DEF GateOf
            <4> QED BY <1>2, <3>1, <4>2 DEF HandleGate, WorkerType, ReadyFlags
        <3>2. CASE HandleHidReady
            BY <1>2, <3>2 DEF HandleHidReady, WorkerType, ReadyFlags
        <3> QED BY <1>8, <3>1, <3>2
    <2>3. Akin(s') /\ s'.saved = s.saved
        BY <1>2, <1>5, <2>2 DEF Akin, WorkerType
    <2> QED BY <1>2, <1>3, <1>4, <2>1, <2>3, KeepsMatched
<1>9. CASE HandlePrivacy
    <2>1. \/ Request([s EXCEPT !.phase = "preparing"], Op("wl_clear"))
          \/ SetFlags([s EXCEPT !.phase = "ready", !.ready = @ \cup {"privacy"}])
          \/ SetFlags(s)
        BY <1>9 DEF HandlePrivacy
    <2>2. /\ Akin([s EXCEPT !.phase = "preparing"]) /\ [s EXCEPT !.phase = "preparing"].saved = s.saved
          /\ Akin([s EXCEPT !.phase = "ready", !.ready = @ \cup {"privacy"}])
          /\ [s EXCEPT !.phase = "ready", !.ready = @ \cup {"privacy"}].saved = s.saved
        BY <1>2, <1>5 DEF Akin, WorkerType, ReadyFlags
    <2> QED BY <1>5, <1>6, <2>1, <2>2
<1>10. CASE HandleWhitelist
    <2>1. \/ SetFlags(s)
          \/ Request(s, <<"wl_add", s.profile.peer>>)
          \/ Request([s EXCEPT !.ready = @ \cup {"whitelist"}], Op("peer_privacy"))
          \/ SetFlags([s EXCEPT !.ready = @ \cup {"whitelist", "privacy"}, !.phase = "ready"])
        <3>1. Msg.ok \in BOOLEAN /\ Msg.type \in {"WHITELIST_CLEAR", "WHITELIST_ADD"} /\ s.pairing \in BOOLEAN
            BY <1>2, <1>10 DEF HandleWhitelist, TakeCallback, Take, Msg, Messages, WorkerType
        <3> QED BY <1>10, <3>1 DEF HandleWhitelist
    <2>2. /\ Akin([s EXCEPT !.ready = @ \cup {"whitelist"}])
          /\ [s EXCEPT !.ready = @ \cup {"whitelist"}].saved = s.saved
          /\ Akin([s EXCEPT !.ready = @ \cup {"whitelist", "privacy"}, !.phase = "ready"])
          /\ [s EXCEPT !.ready = @ \cup {"whitelist", "privacy"}, !.phase = "ready"].saved = s.saved
        BY <1>2, <1>5 DEF Akin, WorkerType, ReadyFlags
    <2> QED BY <1>5, <1>6, <2>1, <2>2
<1>11. CASE HandlePeerPrivacy
    <2>1. Request([s EXCEPT !.phase = "enabling"], Op("privacy_on")) \/ SetFlags(s)
        BY <1>11 DEF HandlePeerPrivacy
    <2>2. Akin([s EXCEPT !.phase = "enabling"]) /\ [s EXCEPT !.phase = "enabling"].saved = s.saved
        BY <1>2, <1>5 DEF Akin, WorkerType
    <2> QED BY <1>5, <1>6, <2>1, <2>2
<1> QED BY <1>8, <1>9, <1>10, <1>11

LEMMA HandleAdvStartedMatched ==
    ASSUME TypeOK, LinkInv, MatchInv, HandleAdvStarted
    PROVE  MatchInv'
<1>1. TakeCallback({"ADV_STARTED"})
    BY DEF HandleAdvStarted
<1>2. /\ Shrinks /\ work.pc \in Calm /\ "after" \in Calm /\ s \in WorkerType
    BY <1>1, CallbackTaken
<1>3. SameLink /\ desired' = desired /\ work'.pc \in Calm /\ ~Reporting(1)
    BY <1>1, <1>2, DoneFacts, NotReporting DEF HandleAdvStarted, Outside, SameLink, TakeCallback
<1>4. CASE UNCHANGED <<s, snapshot>>
    <2>1. Akin(s')
        BY <1>4, SelfAkin
    <2> QED BY <1>2, <1>3, <1>4, <2>1, KeepsMatched
<1>5. CASE s' = Clear(s, {"start"}) /\ Status(s, IF s.pairing THEN "PAIRING" ELSE "RECONNECTING")
    <2>1. Clear(s, {"start"}) \in WorkerType
        BY <1>2, ClearType
    <2>2. Akin(s) /\ ~InUse'
        BY <1>5, SelfAkin, InUseFacts DEF Status
    <2>3. Akin(s') /\ s'.saved = s.saved
        BY <1>5, <2>1, <2>2 DEF Clear, Akin, WorkerType
    <2> QED BY <1>2, <1>3, <2>2, <2>3, KeepsMatched
<1> QED BY <1>4, <1>5 DEF HandleAdvStarted, Advertised

\* the worker takes a report of the link
LEMMA ReportMatched ==
    ASSUME TypeOK, LinkInv, MatchInv, NEW type \in {"CONNECTED", "DISCONNECTED"}, TakeCallback({type}),
           work'.pc \in Calm, SameLink, desired' = desired,
           s'.session = s.session, s'.generation = s.generation, s'.layers = s.layers,
           s'.connected = (type = "CONNECTED"), s'.encrypted = FALSE, Flags(s'), ~InUse'
    PROVE  MatchInv'
<1>1. /\ Shrinks /\ work.pc \in Calm /\ Msg.type = type /\ Queued(1, type)
      /\ Len(queue') = Len(queue) - 1
    BY CallbackTaken
<1>2. Reporting(1) /\ queue[1].type = type
    BY <1>1 DEF Reporting, Queued
<1>3. ~Winding /\ ~Winding'
    BY <1>1 DEF Winding, Calm, Posts
<1>4. Running' = Running /\ (Wanted' => Wanted)
    BY <1>3 DEF Running, HostOn, Wanted
<1>5. Followed'
    BY <1>1, <1>2, <1>4, FollowedShrinks DEF MatchInv
<1>6. Vouched'
    BY <1>1, <1>4, VouchedShrinks DEF MatchInv
<1>7. Trusted' /\ Relied'
    BY DEF Trusted, Relied
<1>8. Flags(s)'
    BY DEF Flags
<1> QED BY <1>5, <1>6, <1>7, <1>8 DEF MatchInv

LEMMA HandleConnectedMatched ==
    ASSUME TypeOK, LinkInv, MatchInv, HandleConnected
    PROVE  MatchInv'
<1>1. TakeCallback({"CONNECTED"})
    BY DEF HandleConnected
<1>2. /\ work.pc \in Calm /\ "after" \in Calm /\ s \in WorkerType /\ Running /\ Msg.type = "CONNECTED" /\ Queued(1, Msg.type)
    BY <1>1, CallbackTaken
<1>3. SameLink /\ desired' = desired /\ work'.pc \in Calm
    BY <1>2, DoneFacts DEF HandleConnected, Outside, SameLink
<1>4. ~s.connected
    <2>1. 1 \in 1..Len(queue)
        BY <1>2 DEF Queued
    <2> QED BY <1>2, <2>1 DEF LinkInv, Told
<1> DEFINE armed == Arm(s, "connect")
<1>5. s' = [armed EXCEPT !.connected = TRUE, !.advertising = FALSE] /\ snapshot'.state = "CONNECTING"
    BY <1>4 DEF HandleConnected, Status
<1>6. /\ armed \in WorkerType /\ armed.session = s.session /\ armed.generation = s.generation
      /\ armed.layers = s.layers /\ armed.encrypted = s.encrypted /\ armed.saved = s.saved
      /\ armed.pairing = s.pairing
    BY <1>2, ArmType, ArmSets DEF Deadlines
<1> HIDE DEF armed
<1>7. s.encrypted = FALSE
    BY <1>2, <1>4 DEF MatchInv, Flags, WorkerType
<1>8. /\ s'.session = s.session /\ s'.generation = s.generation /\ s'.layers = s.layers
      /\ s'.connected = TRUE /\ s'.advertising = FALSE /\ s'.encrypted = FALSE
      /\ s'.saved = s.saved /\ s'.pairing = s.pairing
    BY <1>5, <1>6, <1>7 DEF WorkerType
<1>9. Flags(s')
    BY <1>8 DEF MatchInv, Flags
<1>10. ~InUse'
    BY <1>5, InUseFacts
<1> QED BY <1>1, <1>3, <1>8, <1>9, <1>10, ReportMatched

LEMMA HandleDisconnectedMatched ==
    ASSUME TypeOK, LinkInv, MatchInv, TimedInv', HandleDisconnected
    PROVE  MatchInv'
<1> DEFINE lost == [Clear(Unlinked(s), {"connect"}) EXCEPT !.suspended = FALSE]
<1>1. TakeCallback({"DISCONNECTED"})
    BY DEF HandleDisconnected
<1>2. work.pc \in Calm /\ "after" \in Calm /\ s \in WorkerType
    BY <1>1, CallbackTaken
<1>3. SameLink /\ desired' = desired
    BY DEF HandleDisconnected, Outside, SameLink
<1>4. /\ lost \in WorkerType /\ lost.session = s.session /\ lost.generation = s.generation
      /\ lost.layers = s.layers /\ lost.connected = FALSE /\ lost.encrypted = FALSE
      /\ lost.saved = s.saved /\ lost.pairing = s.pairing
    <2> DEFINE gone == Unlinked(s)
    <2>1. /\ gone \in WorkerType /\ gone.session = s.session /\ gone.generation = s.generation
          /\ gone.layers = s.layers /\ gone.connected = FALSE /\ gone.encrypted = FALSE
          /\ gone.saved = s.saved /\ gone.pairing = s.pairing
        BY <1>2, UnlinkedType, UnlinkedSets
    <2> DEFINE cleared == Clear(gone, {"connect"})
    <2> HIDE DEF gone
    <2>2. cleared \in WorkerType
        BY <2>1, ClearType
    <2>3. /\ cleared.session = s.session /\ cleared.generation = s.generation
          /\ cleared.layers = s.layers /\ cleared.connected = FALSE /\ cleared.encrypted = FALSE
          /\ cleared.saved = s.saved /\ cleared.pairing = s.pairing
        BY <2>1 DEF Clear, WorkerType
    <2>4. lost = [cleared EXCEPT !.suspended = FALSE]
        BY DEF gone
    <2> HIDE DEF cleared, lost
    <2> QED BY <2>2, <2>3, <2>4 DEF WorkerType
<1>5. \/ Done("after") /\ UNCHANGED <<s, snapshot>> /\ ~s.connected
      \/ BeginStop(lost, snapshot, "restart", "after", Msg)
      \/ s' = lost /\ Done("after") /\ Status(s, "PAIRING")
    <2>1. s.connected \in BOOLEAN /\ s.saved \in BOOLEAN
        BY <1>2 DEF WorkerType
    <2> QED BY <2>1 DEF HandleDisconnected
<1> HIDE DEF lost
<1>6. Flags(lost)
    BY <1>4 DEF MatchInv, Flags
<1>7. CASE Done("after") /\ UNCHANGED <<s, snapshot>> /\ ~s.connected
    <2>1. s'.connected = FALSE /\ s'.encrypted = FALSE /\ Flags(s')
        BY <1>2, <1>7 DEF MatchInv, Flags, WorkerType
    <2>2. ~InUse'
        BY <1>2, <1>7, <2>1, InUseFacts DEF MatchInv, Relied
    <2> QED BY <1>1, <1>2, <1>3, <1>7, <2>1, <2>2, DoneFacts, ReportMatched
<1>8. CASE BeginStop(lost, snapshot, "restart", "after", Msg)
    BY <1>4, <1>6, <1>8, StopMatched
<1>9. CASE s' = lost /\ Done("after") /\ Status(s, "PAIRING")
    <2>1. ~InUse' /\ work'.pc \in Calm
        BY <1>2, <1>9, DoneFacts, InUseFacts DEF Status
    <2> QED BY <1>1, <1>3, <1>4, <1>6, <1>9, <2>1, ReportMatched
<1> QED BY <1>5, <1>7, <1>8, <1>9

LEMMA HandleAuthFailedMatched ==
    ASSUME TypeOK, LinkInv, MatchInv, TimedInv', HandleAuthFailed
    PROVE  MatchInv'
<1>1. TakeCallback({"AUTH"})
    BY DEF HandleAuthFailed
<1>2. /\ Shrinks /\ work.pc \in Calm /\ Running /\ s \in WorkerType
    BY <1>1, CallbackTaken
<1>3. SameLink /\ desired' = desired /\ ~Reporting(1)
    BY <1>1, NotReporting DEF HandleAuthFailed, Outside, SameLink, TakeCallback
<1>4. CASE s.pairing
    <2>1. /\ s' = [s EXCEPT !.encrypted = FALSE, !.subscribed = FALSE]
          /\ work'.pc = "disconnect" /\ work'.k = "auth_retry" /\ snapshot' = snapshot
        BY <1>4 DEF HandleAuthFailed
    <2>2. /\ s'.session = s.session /\ s'.generation = s.generation /\ s'.layers = s.layers
          /\ s'.connected = s.connected /\ s'.encrypted = FALSE /\ s'.advertising = s.advertising
          /\ s'.saved = s.saved /\ s'.pairing = s.pairing
        BY <1>2, <2>1 DEF WorkerType
    <2>3. Running' = Running /\ (Wanted' => Wanted)
        BY <1>2, <1>3, <2>1, <2>2 DEF Running, Winding, HostOn, Wanted
    <2>4. Followed'
        BY <1>2, <1>3, <2>2, <2>3, FollowedShrinks DEF MatchInv
    <2>5. Vouched'
        BY <1>2, <1>3, <2>2, <2>3, VouchedShrinks DEF MatchInv
    <2>6. Trusted' /\ Flags(s)'
        BY <2>2 DEF Trusted, Flags, MatchInv
    <2>7. ~InUse'
        BY <1>2, <1>4, <2>1, InUseFacts DEF MatchInv, Relied, Flags
    <2> QED BY <2>4, <2>5, <2>6, <2>7 DEF MatchInv, Relied
<1>5. CASE BeginStop(s, snapshot, "fail", "after", Msg)
    <2>1. Flags(s)
        BY DEF MatchInv
    <2> QED BY <1>2, <1>5, <2>1, StopMatched
<1> QED BY <1>4, <1>5 DEF HandleAuthFailed

\* the success the worker reads is about the link it has
LEMMA HeadVouched ==
    ASSUME TypeOK, LinkInv, MatchInv, TakeCallback({"AUTH"}), Msg.ok = TRUE, s.connected = TRUE
    PROVE  link.live = TRUE => link.enc = TRUE /\ link.host = Msg.peer
<1>1. Running /\ ~Silenced /\ Queued(1, "AUTH") /\ Msg = queue[1] /\ 1 \in 1..Len(queue)
    BY CallbackTaken, TakeShrinks DEF TakeCallback, Queued
<1>2. \A j \in 1..Len(queue) : ~Queued(j, "CONNECTED")
    BY <1>1 DEF LinkInv, Told
<1>3. ~Joining
    BY <1>1 DEF LinkInv, Aired
<1>4. Latest(1)
    BY <1>1, <1>2 DEF Latest
<1> QED BY <1>1, <1>3, <1>4 DEF MatchInv, Vouched

LEMMA HandleAuthOkMatched ==
    ASSUME TypeOK, LinkInv, MatchInv, TimedInv', HandleAuthOk, s.connected = TRUE
    PROVE  MatchInv'
<1>1. TakeCallback({"AUTH"}) /\ Msg.ok
    BY DEF HandleAuthOk
<1>2. /\ Shrinks /\ work.pc \in Calm /\ "after" \in Calm /\ s \in WorkerType /\ Msg \in Messages
    BY <1>1, CallbackTaken
<1>3. SameLink /\ desired' = desired /\ ~Reporting(1)
    BY <1>1, NotReporting DEF HandleAuthOk, SameLink, TakeCallback
<1> DEFINE peered    == [s EXCEPT !.encrypted = TRUE, !.profile.peer = Msg.peer]
           encrypted == [s EXCEPT !.encrypted = TRUE]
<1>4. \/ BeginStop(s, snapshot, "fail", "after", Msg)
      \/ s' = AwaitingSave(peered) /\ Done("after") /\ snapshot' = snapshot /\ s.pairing
      \/ ReadyIfSubscribed(encrypted, "after", Msg) /\ Msg.peer = s.profile.peer
    BY DEF HandleAuthOk
<1>5. link.live = TRUE => link.enc = TRUE /\ link.host = Msg.peer
    <2>1. Msg.ok = TRUE
        BY <1>1, <1>2 DEF Messages
    <2> QED BY <1>1, <2>1, HeadVouched
<1>6. Akin(s)
    BY SelfAkin
<1>7. Msg.peer = s.profile.peer => Akin(encrypted) /\ encrypted.saved = s.saved
    BY <1>2, <1>5, <1>6 DEF Akin, WorkerType
<1>8. Akin(AwaitingSave(peered))
    <2>1. Msg.peer \in Peers /\ s.profile \in Remotes
        BY <1>2 DEF Messages, WorkerType
    <2>2. [s.profile EXCEPT !.peer = Msg.peer] \in Remotes /\ [s.profile EXCEPT !.peer = Msg.peer].peer = Msg.peer
        BY <2>1 DEF Remotes
    <2>3. /\ peered \in WorkerType /\ peered.session = s.session /\ peered.generation = s.generation
          /\ peered.layers = s.layers /\ peered.connected = s.connected /\ peered.advertising = s.advertising
          /\ peered.encrypted = TRUE /\ peered.profile.peer = Msg.peer
          /\ peered.saved = s.saved /\ peered.pairing = s.pairing
        BY <1>2, <2>2 DEF WorkerType
    <2> HIDE DEF peered
    <2> DEFINE asked == AwaitingSave(peered)
    <2>4. asked \in WorkerType
        BY <2>3, AwaitingSaveType
    <2>5. /\ asked.session = peered.session /\ asked.generation = peered.generation /\ asked.layers = peered.layers
          /\ asked.connected = peered.connected /\ asked.advertising = peered.advertising
          /\ asked.encrypted = peered.encrypted /\ asked.profile = peered.profile
          /\ asked.saved = peered.saved /\ asked.pairing = peered.pairing
        BY <2>3 DEF AwaitingSave, Arm, WorkerType
    <2> HIDE DEF asked
    <2>6. Akin(asked)
        BY <1>5, <1>6, <2>3, <2>4, <2>5 DEF Akin
    <2> QED BY <2>6 DEF asked
<1> HIDE DEF peered, encrypted
<1>9. CASE s' = AwaitingSave(peered) /\ Done("after") /\ snapshot' = snapshot /\ s.pairing
    <2>1. Akin(s') /\ work'.pc \in Calm
        BY <1>2, <1>8, <1>9, DoneFacts
    <2>2. ~InUse'
        BY <1>2, <1>9, InUseFacts DEF MatchInv, Relied, Flags
    <2> QED BY <1>2, <1>3, <2>1, <2>2, GoesMatched
<1>10. CASE ReadyIfSubscribed(encrypted, "after", Msg) /\ Msg.peer = s.profile.peer
    BY <1>2, <1>3, <1>7, <1>10, ReadyIfSubscribedMatched
<1>11. CASE BeginStop(s, snapshot, "fail", "after", Msg)
    BY <1>2, <1>6, <1>11, AkinFlags, StopMatched
<1> QED BY <1>4, <1>9, <1>10, <1>11

LEMMA HandleWriteSuspendMatched ==
    ASSUME TypeOK, LinkInv, MatchInv, TimedInv', HandleWrite \/ HandleSuspend
    PROVE  MatchInv'
<1>1. PICK types \in {{"WRITE"}, {"SUSPEND"}} : TakeCallback(types)
    BY DEF HandleWrite, HandleSuspend
<1>2. /\ Shrinks /\ work.pc \in Calm /\ "after" \in Calm /\ s \in WorkerType /\ Msg \in Messages
    BY <1>1, CallbackTaken
<1>3. SameLink /\ desired' = desired /\ ~Reporting(1)
    BY <1>1, NotReporting DEF HandleWrite, HandleSuspend, SameLink, TakeCallback
<1>4. Akin(s)
    BY SelfAkin
<1>5. Akin([s EXCEPT !.suspended = Msg.flag]) /\ [s EXCEPT !.suspended = Msg.flag].saved = s.saved
    BY <1>2, <1>4 DEF Akin, WorkerType, Messages
<1>6. \/ ReadyIfSubscribed(s, "after", Msg)
      \/ ReadyIfSubscribed([s EXCEPT !.suspended = Msg.flag], "after", Msg)
      \/ BeginStop(s, snapshot, "release", "after", Msg)
    BY DEF HandleWrite, HandleSuspend
<1>7. CASE BeginStop(s, snapshot, "release", "after", Msg)
    BY <1>2, <1>4, <1>7, AkinFlags, StopMatched
<1> QED BY <1>2, <1>3, <1>4, <1>5, <1>6, <1>7, ReadyIfSubscribedMatched

LEMMA CallbackHandlersMatched ==
    ASSUME TypeOK, LinkInv, MatchInv, TimedInv', CallbackHandlers, HandleAuthOk => s.connected = TRUE
    PROVE  MatchInv'
BY SetupMatched, HandleAdvStartedMatched, HandleConnectedMatched, HandleDisconnectedMatched, HandleAuthFailedMatched,
   HandleAuthOkMatched, HandleWriteSuspendMatched DEF CallbackHandlers

\* the end of an iteration: advertising is never begun under a link
LEMMA TailMatched ==
    ASSUME TypeOK, LinkInv, MatchInv, TimedInv', AfterCallback \/ Advertise \/ Poll \/ TailClose \/ TailExpired \/ TailDone
    PROVE  MatchInv'
<1>1. /\ s \in WorkerType /\ work \in WorkType /\ work.pc \in {"idle", "after", "tail"}
      /\ work.pc \in Calm /\ "tail" \in Calm /\ "idle" \in Calm
    BY DEF TypeOK, AfterCallback, Advertise, Poll, TailClose, TailExpired, TailDone, Calm, Posts
<1>2. queue' = queue /\ SameLink /\ desired' = desired
    BY DEF AfterCallback, Advertise, Poll, TailClose, TailExpired, TailDone, Outside, SameLink
<1>3. Shrinks /\ Akin(s) /\ Flags(s)
    BY <1>2, SameShrinks, SelfAkin, AkinFlags
<1>4. ASSUME NEW k \in {"fail", "timeout", "close"}, NEW post, NEW m, BeginStop(s, snapshot, k, post, m)
      PROVE  MatchInv'
    BY <1>1, <1>3, <1>4, StopMatched
<1>5. ASSUME work'.pc \in Calm, UNCHANGED <<s, snapshot>>
      PROVE  MatchInv'
    BY <1>1, <1>2, <1>3, <1>5, KeepsMatched
<1>6. CASE Advertise /\ ~BeginStop(s, snapshot, "fail", "tail", work.msg)
    <2>1. /\ s' = [s EXCEPT !.advertising = TRUE, !.deadlines = IF s.pairing THEN @ \cup {"pair"} ELSE @]
          /\ Goto("tail") /\ snapshot' = snapshot
        BY <1>6 DEF Advertise
    <2>2. s.connected = FALSE
        BY <1>1, <1>6 DEF Advertise, CanAdvertise, WorkerType
    <2>3. work'.pc \in Calm
        BY <1>1, <2>1 DEF Goto, WorkType
    <2>4. /\ s'.session = s.session /\ s'.generation = s.generation /\ s'.layers = s.layers
          /\ s'.connected = FALSE /\ s'.encrypted = s.encrypted
          /\ s'.saved = s.saved /\ s'.pairing = s.pairing /\ s'.profile = s.profile
        BY <1>1, <2>1, <2>2 DEF WorkerType
    <2>5. ~Winding /\ ~Winding'
        BY <1>1, <2>3 DEF Winding, Calm, Posts
    <2>6. Running' = Running /\ (Wanted' => Wanted)
        BY <1>2, <2>4, <2>5 DEF Running, HostOn, Wanted
    <2>7. Followed' /\ Vouched'
        BY <1>2, <1>3, <2>2, <2>4, <2>6, FollowedShrinks, VouchedShrinks DEF MatchInv
    <2>8. Trusted' /\ Flags(s)' /\ Relied'
        BY <1>1, <2>1, <2>2, <2>3, <2>4, InUseFacts DEF MatchInv, Trusted, Flags, Relied
    <2> QED BY <2>7, <2>8 DEF MatchInv
<1>7. CASE TailExpired
    <2>1. PICK k \in {"fail", "timeout"} : BeginStop(s, snapshot, k, "idle", NoMessage)
        BY <1>7 DEF TailExpired
    <2> QED BY <1>4, <2>1
<1>8. CASE TailClose
    BY <1>4, <1>8 DEF TailClose
<1>9. CASE AfterCallback \/ BeginStop(s, snapshot, "fail", "tail", work.msg)
    <2>1. \/ BeginStop(s, snapshot, "fail", "tail", work.msg)
          \/ Goto("tail") /\ UNCHANGED <<s, snapshot>>
        BY <1>9 DEF AfterCallback
    <2>2. Goto("tail") => work'.pc \in Calm
        BY <1>1 DEF Goto, WorkType
    <2> QED BY <1>4, <1>5, <2>1, <2>2
<1>10. CASE Poll \/ TailDone
    <2>1. work'.pc \in Calm /\ UNCHANGED <<s, snapshot>>
        BY <1>1, <1>10 DEF Poll, TailDone, Goto, WorkType
    <2> QED BY <1>5, <2>1
<1> QED BY <1>6, <1>7, <1>8, <1>9, <1>10

\* a stop runs on: nothing runs that could be mistaken, or a retry waits for its link to go
LEMMA StopStepsMatched ==
    ASSUME TypeOK, CleanStops, LinkInv, LinkInv', MatchInv, TimedInv', StopSteps
    PROVE  MatchInv'
<1>1. /\ work.pc \in StopPlaces /\ work'.pc \in StopPlaces \cup {"resume"} /\ work'.k = work.k
      /\ s'.session = s.session /\ s'.pairing = s.pairing
      /\ work.pc \in {"disconnect", "link_wait"} => s'.layers = s.layers
    BY StopShape
<1>2. UNCHANGED <<queue, desired, snapshot>> /\ s \in WorkerType
    BY DEF StopSteps, StopAdvertisingSkip, StopAdvertisingRequest, StopAdvertisingWait, DisconnectLink,
           DisconnectDone, DisconnectTimeout, TeardownHid, TeardownHost, Outside, TypeOK
<1>3. /\ s'.generation = s.generation /\ s'.saved = s.saved
      /\ s'.advertising = TRUE => s.advertising = TRUE
      /\ \/ s'.connected = s.connected /\ s'.encrypted = s.encrypted
         \/ s'.connected = FALSE /\ s'.encrypted = FALSE
    <2>1. CASE StopAdvertisingSkip \/ StopAdvertisingRequest \/ StopAdvertisingWait \/ DisconnectLink
        BY <1>2, <2>1 DEF StopAdvertisingSkip, StopAdvertisingRequest, StopAdvertisingWait, DisconnectLink, WorkerType
    <2>2. CASE DisconnectDone \/ DisconnectTimeout
        BY <1>2, <2>2 DEF DisconnectDone, DisconnectTimeout, Unlinked, WorkerType
    <2>3. CASE TeardownHid \/ TeardownHost
        BY <1>2, <2>3 DEF TeardownHid, TeardownHost, WorkerType
    <2> QED BY <2>1, <2>2, <2>3 DEF StopSteps
<1>4. Flags(s')
    BY <1>1, <1>3 DEF MatchInv, Flags
<1>5. Relied'
    <2>1. work.pc \notin Calm /\ work'.pc \notin Calm
        BY <1>1 DEF StopPlaces, Calm, Posts
    <2> QED BY <1>2, <2>1, InUseFacts DEF MatchInv, Relied
<1>6. CASE work.k # "auth_retry"
    <2>1. work'.pc = "resume" => ~HostOn(s')
        BY <1>1, <1>6 DEF LinkInv, Stamped
    <2>2. ~Running'
        BY <1>1, <1>6, <2>1 DEF Running, Winding, StopPlaces
    <2> QED BY <1>4, <1>5, <2>2, StoppedMatched
<1>7. CASE work.k = "auth_retry"
    <2>1. work.pc \in {"disconnect", "link_wait"}
        BY <1>1, <1>7 DEF LinkInv, Wound, StopPlaces
    <2>2. SameLink /\ Shrinks
        BY <1>2, <2>1, SameShrinks DEF StopSteps, StopAdvertisingSkip, StopAdvertisingRequest, StopAdvertisingWait,
           DisconnectLink, DisconnectDone, DisconnectTimeout, TeardownHid, TeardownHost, Outside, SameLink
    <2>3. Running' = Running /\ (Wanted' => Wanted)
        BY <1>1, <1>2, <1>7, <2>1 DEF Running, Winding, HostOn, Wanted
    <2>4. link.phase = "idle" => s'.connected = s.connected \/ s'.connected = link.live
        <3>1. CASE DisconnectLink
            BY <1>2, <3>1 DEF DisconnectLink
        <3>2. CASE DisconnectDone
            <4>1. s'.connected = FALSE
                BY <1>2, <3>2 DEF DisconnectDone, Unlinked, WorkerType
            <4>2. link.phase = "idle" => link.live = FALSE
                BY <3>2, ViewFacts DEF DisconnectDone, LinkInv, Attached, TypeOK, LinkType
            <4> QED BY <4>1, <4>2
        <3>3. CASE DisconnectTimeout
            <4>1. s'.connected = FALSE
                BY <1>2, <3>3 DEF DisconnectTimeout, Unlinked, WorkerType
            <4>2. Attached /\ ~DisconnectComing
                BY <3>3, ViewFacts, NoFault DEF DisconnectTimeout, LinkInv
            <4>3. s.advertising = TRUE
                BY <1>2, <3>3, <4>2 DEF DisconnectTimeout, LinkInv, Wound, WorkerType
            <4> QED BY <4>1, <4>3 DEF MatchInv, Flags
        <3> QED BY <2>1, <3>1, <3>2, <3>3 DEF StopSteps, StopAdvertisingSkip, StopAdvertisingRequest,
                StopAdvertisingWait, TeardownHid, TeardownHost
    <2>5. Followed'
        BY <1>2, <1>3, <2>2, <2>3, <2>4, FollowedShrinks DEF MatchInv
    <2>6. Vouched'
        BY <1>3, <2>2, <2>3, VouchedShrinks DEF MatchInv
    <2>7. Trusted'
        <3>1. s'.profile = s.profile
            BY StopShape
        <3> QED BY <1>3, <2>2, <2>3, <3>1 DEF MatchInv, Trusted, SameLink
    <2>8. Flags(s)'
        BY <1>4 DEF Flags
    <2> QED BY <1>5, <2>5, <2>6, <2>7, <2>8 DEF MatchInv
<1> QED BY <1>6, <1>7

\* two states of the worker that see the same of the link
SameView(s1, s2) ==
    /\ s2 \in WorkerType
    /\ s2.session = s1.session /\ s2.generation = s1.generation /\ s2.layers = s1.layers /\ s2.profile = s1.profile
    /\ s2.connected = s1.connected /\ s2.encrypted = s1.encrypted /\ s2.advertising = s1.advertising
    /\ s2.saved = s1.saved /\ s2.pairing = s1.pairing

LEMMA ForgetBondsViews ==
    ASSUME TypeOK, NEW s1 \in WorkerType, ForgetBonds(s1)
    PROVE  \/ SameView(s1, s') /\ ~InUse' /\ Goto(work.post)
           \/ BeginStop(s1, snapshot, "fail", "idle", work.msg)
<1>1. CASE /\ s' = AwaitingSave([Clear(s1, {"start"}) EXCEPT !.forgetting = TRUE, !.pair_after = work.msg.flag])
           /\ Status(s1, "STARTING")
           /\ Goto(work.post)
    <2> DEFINE cleared == Clear(s1, {"start"})
               asked == [cleared EXCEPT !.forgetting = TRUE, !.pair_after = work.msg.flag]
               armed == Arm(asked, "save")
    <2>1. SameView(s1, cleared)
        BY ClearType DEF Clear, WorkerType, SameView
    <2>2. work.msg.flag \in BOOLEAN
        BY DEF TypeOK, WorkType, Messages
    <2> HIDE DEF cleared
    <2>3. SameView(s1, asked)
        BY <2>1, <2>2 DEF WorkerType, SameView
    <2>4. s' = [armed EXCEPT !.awaiting_save = TRUE]
        BY <1>1 DEF AwaitingSave, cleared
    <2> HIDE DEF asked
    <2>5. SameView(s1, armed)
        <3>1. armed \in WorkerType
            BY <2>3, ArmType DEF SameView, Deadlines
        <3> QED BY <2>3, <3>1 DEF Arm, WorkerType, SameView
    <2> HIDE DEF armed
    <2>6. SameView(s1, s')
        BY <2>4, <2>5 DEF WorkerType, SameView
    <2>7. ~InUse'
        BY <1>1, InUseFacts DEF Status
    <2> QED BY <1>1, <2>6, <2>7
<1> QED BY <1>1 DEF ForgetBonds

\* a stack that comes up has neither a link nor a message of one
LEMMA StackUpViews ==
    ASSUME NEW s1 \in WorkerType
    PROVE  /\ StackUp(s1) \in WorkerType /\ StackUp(s1).generation = s1.generation + 1
           /\ StackUp(s1).connected = s1.connected /\ StackUp(s1).encrypted = s1.encrypted
           /\ StackUp(s1).advertising = s1.advertising
           /\ StackUp(s1).saved = s1.saved /\ StackUp(s1).pairing = s1.pairing
<1>1. StackUp(s1) \in WorkerType
    BY StackUpType
<1> QED BY <1>1 DEF StackUp, WorkerType

LEMMA StartStackFailsMatched ==
    ASSUME TimedInv', NEW s1 \in WorkerType, Flags(s1), NEW post, NEW m, StartStackFails(s1, post, m)
    PROVE  MatchInv'
<1>1. CASE BeginStop(s1, snapshot, "fail", post, m)
    BY <1>1, StopMatched
<1>2. ASSUME NEW left \in PartialStacks,
             BeginStop([StackUp(s1) EXCEPT !.layers = left \cup (s1.layers \cap {"controller_init"})],
                       [session |-> s1.session, state |-> "STARTING"], "fail", post, m)
      PROVE  MatchInv'
    <2> DEFINE up    == StackUp(s1)
               part  == [up EXCEPT !.layers = left \cup (s1.layers \cap {"controller_init"})]
               shown == [session |-> s1.session, state |-> "STARTING"]
    <2>1. /\ up \in WorkerType /\ up.connected = s1.connected /\ up.encrypted = s1.encrypted
          /\ up.advertising = s1.advertising /\ up.saved = s1.saved /\ up.pairing = s1.pairing
        BY StackUpViews
    <2>2. BeginStop(part, shown, "fail", post, m)
        BY <1>2
    <2>3. left \cup (s1.layers \cap {"controller_init"}) \in SUBSET Layers
        BY DEF PartialStacks, Layers, StackLayers
    <2> HIDE DEF up, shown
    <2>4. /\ part \in WorkerType /\ part.connected = up.connected /\ part.encrypted = up.encrypted
          /\ part.advertising = up.advertising /\ part.saved = up.saved /\ part.pairing = up.pairing
        BY <2>1, <2>3 DEF WorkerType
    <2> HIDE DEF part
    <2>5. Flags(part)
        BY <2>1, <2>4 DEF Flags
    <2> QED BY <2>2, <2>4, <2>5, StopMatched
<1> QED BY <1>1, <1>2 DEF StartStackFails

LEMMA RestartMatched ==
    ASSUME TypeOK, LinkInv, MatchInv, TimedInv', ~HostOn(s), queue' = queue, SameLink,
           NEW s1 \in WorkerType, SameView([s EXCEPT !.session = s1.session, !.profile = s1.profile], s1), RestartWith(s1)
    PROVE  MatchInv'
<1> DEFINE up == StackUp(s1)
<1>1. /\ s1.generation = s.generation /\ s1.connected = s.connected /\ s1.encrypted = s.encrypted
      /\ s1.advertising = s.advertising /\ s1.saved = s.saved /\ s1.pairing = s.pairing
    BY DEF SameView, TypeOK, WorkerType
<1>2. s1.connected = FALSE /\ s1.encrypted = FALSE /\ ~Attached
    BY <1>1 DEF LinkInv, Aired, Served, HostOn, MatchInv, Flags, TypeOK, WorkerType
<1>3. Flags(s1)
    BY <1>1 DEF MatchInv, Flags
<1>4. /\ up \in WorkerType /\ up.generation = s1.generation + 1 /\ up.connected = s1.connected
      /\ up.encrypted = s1.encrypted /\ up.advertising = s1.advertising
      /\ up.saved = s1.saved /\ up.pairing = s1.pairing
    BY StackUpViews
<1> HIDE DEF up
<1>5. Flags(up)
    BY <1>3, <1>4 DEF Flags
<1>6. CASE StartStackFails(s1, work.post, work.msg)
    BY <1>3, <1>6, StartStackFailsMatched
<1>7. CASE BeginStop(up, snapshot, "fail", work.post, work.msg)
    BY <1>4, <1>5, <1>7, StopMatched
<1>8. CASE BeginStop(s1, snapshot, "fail", work.post, work.msg)
    BY <1>3, <1>8, StopMatched
<1>9. CASE /\ s' = [up EXCEPT !.layers = Layers,
                              !.pairing = s1.profile.peer = NoPeer,
                              !.saved = s1.profile.peer # NoPeer,
                              !.awaiting_save = FALSE, !.forgetting = FALSE, !.suspended = FALSE,
                              !.phase = "resetting"]
           /\ Status(s1, "STARTING")
           /\ work' = [work EXCEPT !.pc = work.post, !.msg = work.msg]
    <2>1. /\ s'.generation = s.generation + 1 /\ s'.connected = FALSE /\ s'.encrypted = FALSE
          /\ s'.saved = (s1.profile.peer # NoPeer) /\ s'.pairing = (s1.profile.peer = NoPeer)
        BY <1>1, <1>2, <1>4, <1>9 DEF WorkerType
    <2>2. Flags(s')
        BY <2>1 DEF Flags
    <2>3. work'.pc \in Calm /\ ~InUse'
        BY <1>9, InUseFacts DEF TypeOK, WorkType, Calm, Status
    <2> QED BY <1>2, <2>1, <2>2, <2>3, FreshMatched
<1>10. \/ StartStackFails(s1, work.post, work.msg)
       \/ BeginStop(up, snapshot, "fail", work.post, work.msg)
       \/ BeginStop(s1, snapshot, "fail", work.post, work.msg)
       \/ /\ s' = [up EXCEPT !.layers = Layers,
                             !.pairing = s1.profile.peer = NoPeer,
                             !.saved = s1.profile.peer # NoPeer,
                             !.awaiting_save = FALSE, !.forgetting = FALSE, !.suspended = FALSE,
                             !.phase = "resetting"]
          /\ Status(s1, "STARTING")
          /\ work' = [work EXCEPT !.pc = work.post, !.msg = work.msg]
    BY DEF RestartWith, StartRuntime, up
<1> QED BY <1>6, <1>7, <1>8, <1>9, <1>10

LEMMA FinishForgetMatched ==
    ASSUME TypeOK, LinkInv, MatchInv, TimedInv', FinishForget
    PROVE  MatchInv'
<1>1. /\ work.pc = "resume" /\ work.k = "forget" /\ queue' = queue /\ SameLink
      /\ s \in WorkerType /\ work \in WorkType
    BY DEF FinishForget, Resume, SameLink, TypeOK
<1>2. ~HostOn(s)
    BY <1>1 DEF LinkInv, Stamped
<1>3. Flags(s) /\ s.connected = FALSE /\ ~Attached
    BY <1>1, <1>2 DEF MatchInv, LinkInv, Aired, Served, HostOn, WorkerType
<1> DEFINE up == StackUp(s)
<1>4. /\ up \in WorkerType /\ up.generation = s.generation + 1 /\ up.connected = s.connected
      /\ up.encrypted = s.encrypted /\ up.advertising = s.advertising
      /\ up.saved = s.saved /\ up.pairing = s.pairing
    BY <1>1, StackUpViews
<1>5. \/ BeginStop(s, snapshot, "fail", work.post, work.msg)
      \/ StartStackFails(s, work.post, work.msg)
      \/ ForgetBonds(up)
      \/ s' = up /\ Status(s, "STARTING") /\ Goto("bond_wait")
    BY DEF FinishForget
<1> HIDE DEF up
<1>6. Flags(up)
    BY <1>3, <1>4 DEF Flags
<1>7. CASE BeginStop(s, snapshot, "fail", work.post, work.msg)
    BY <1>1, <1>3, <1>7, StopMatched
<1>8. CASE StartStackFails(s, work.post, work.msg)
    BY <1>1, <1>3, <1>8, StartStackFailsMatched
<1>9. CASE ForgetBonds(up)
    <2>1. CASE BeginStop(up, snapshot, "fail", "idle", work.msg)
        BY <1>4, <1>6, <2>1, StopMatched
    <2>2. CASE SameView(up, s') /\ ~InUse' /\ Goto(work.post)
        <3>1. work'.pc \in Calm
            BY <1>1, <2>2 DEF Goto, WorkType, Calm
        <3>2. s'.generation = s.generation + 1 /\ s'.connected = FALSE /\ Flags(s')
            BY <1>3, <1>4, <1>6, <2>2 DEF SameView, Flags
        <3> QED BY <1>1, <1>3, <2>2, <3>1, <3>2, FreshMatched
    <2> QED BY <1>4, <1>9, <2>1, <2>2, ForgetBondsViews
<1>10. CASE s' = up /\ Status(s, "STARTING") /\ Goto("bond_wait")
    <2>1. work'.pc \in Calm /\ ~InUse'
        BY <1>1, <1>10, InUseFacts DEF Goto, WorkType, Calm, Status
    <2> QED BY <1>1, <1>3, <1>4, <1>6, <1>10, <2>1, FreshMatched
<1> QED BY <1>5, <1>7, <1>8, <1>9, <1>10

LEMMA RemoveBondWaitMatched ==
    ASSUME TypeOK, MatchInv, TimedInv', RemoveBondWait
    PROVE  MatchInv'
<1>1. /\ work.pc = "bond_wait" /\ work.pc \in Calm /\ queue' = queue /\ SameLink
      /\ Shrinks /\ desired' = desired /\ s \in WorkerType /\ work \in WorkType
    BY SameShrinks DEF RemoveBondWait, SameLink, TypeOK, Calm
<1>2. Akin(s) /\ Flags(s)
    BY SelfAkin, AkinFlags
<1>3. ASSUME NEW post, BeginStop(s, snapshot, "fail", post, work.msg)
      PROVE  MatchInv'
    BY <1>1, <1>2, <1>3, StopMatched
<1>4. CASE SameView(s, s') /\ ~InUse' /\ Goto(work.post)
    <2>1. Akin(s') /\ s'.saved = s.saved /\ work'.pc \in Calm
        BY <1>1, <1>2, <1>4 DEF SameView, Akin, Goto, WorkType, Calm
    <2> QED BY <1>1, <1>4, <2>1, KeepsMatched
<1> QED BY <1>1, <1>3, <1>4, ForgetBondsViews DEF RemoveBondWait

LEMMA FinishStepsMatched ==
    ASSUME TypeOK, LinkInv, MatchInv, TimedInv', FinishSteps
    PROVE  MatchInv'
<1>1. /\ s \in WorkerType /\ work \in WorkType /\ work.post \in Calm
    BY DEF TypeOK, WorkType, Calm
<1>2. queue' = queue /\ SameLink /\ Shrinks /\ desired' = desired
    BY SameShrinks DEF FinishSteps, FinishFail, FinishTimeout, FinishClose, FinishUnpair, FinishAuthRetry,
       FinishOpen, FinishRestart, FinishRelease, FinishForget, RemoveBondWait, Outside, SameLink
<1>3. ASSUME work.pc = "resume", work.k # "auth_retry"
      PROVE  ~HostOn(s) /\ ~InUse
    BY <1>3 DEF LinkInv, Stamped, MatchInv, Relied, Calm, Posts
<1>4. ASSUME work.pc = "resume", work.k # "auth_retry", Goto(work.post),
             s' = s \/ s' = [s EXCEPT !.session = 0], ~InUse'
      PROVE  MatchInv'
    <2>1. ~Running' /\ Flags(s')
        BY <1>1, <1>3, <1>4 DEF Running, HostOn, MatchInv, Flags, WorkerType
    <2>2. Relied'
        BY <1>1, <1>4 DEF Relied
    <2> QED BY <2>1, <2>2, StoppedMatched
<1>5. CASE FinishFail \/ FinishTimeout \/ FinishUnpair \/ FinishClose
    <2>1. snapshot'.state \in {"ERROR", "PAIR_TIMEOUT", "UNPAIRED", "OFF"}
        BY <1>5 DEF FinishFail, FinishTimeout, FinishUnpair, FinishClose, Status
    <2>2. ~InUse'
        BY <2>1, InUseFacts
    <2> QED BY <1>4, <1>5, <2>2 DEF FinishFail, FinishTimeout, FinishUnpair, FinishClose, Resume
<1>6. CASE FinishAuthRetry
    <2>1. work.pc = "resume" /\ work.k = "auth_retry" /\ s' = s /\ work'.pc \in Calm /\ ~InUse'
        BY <1>1, <1>6, InUseFacts DEF FinishAuthRetry, Resume, Goto, WorkType, Status
    <2>2. Running' = Running /\ (Wanted' => Wanted)
        BY <1>2, <2>1 DEF Running, Winding, Calm, Posts, HostOn, Wanted
    <2>3. Followed' /\ Vouched'
        BY <1>2, <2>1, <2>2, FollowedShrinks, VouchedShrinks DEF MatchInv
    <2>4. Trusted' /\ Flags(s)' /\ Relied'
        BY <1>2, <2>1, <2>2 DEF MatchInv, Trusted, Flags, Relied, SameLink
    <2> QED BY <2>3, <2>4 DEF MatchInv
<1>7. ASSUME RestartWith(s), work.pc = "resume", work.k # "auth_retry"
      PROVE  MatchInv'
    <2>1. SameView([s EXCEPT !.session = s.session, !.profile = s.profile], s)
        BY <1>1 DEF SameView, WorkerType
    <2> QED BY <1>1, <1>2, <1>3, <1>7, <2>1, RestartMatched
<1>8. CASE FinishOpen
    <2> DEFINE s1 == [s EXCEPT !.session = work.msg.session, !.profile = work.msg.remote]
    <2>1. work.msg.session \in Nat /\ work.msg.remote \in Remotes
        BY <1>1 DEF WorkType, Messages
    <2>2. s1 \in WorkerType /\ SameView([s EXCEPT !.session = s1.session, !.profile = s1.profile], s1)
        BY <1>1, <2>1 DEF WorkerType, SameView
    <2>3. RestartWith(s1) /\ work.pc = "resume" /\ work.k # "auth_retry"
        BY <1>8 DEF FinishOpen, Resume
    <2> HIDE DEF s1
    <2> QED BY <1>2, <1>3, <2>2, <2>3, RestartMatched
<1>9. CASE FinishRestart
    BY <1>7, <1>9 DEF FinishRestart, Resume
<1>10. CASE FinishRelease
    <2>1. CASE Goto(work.post) /\ UNCHANGED <<callbackGen, snapshot, s, ctl, ccc, budget>>
        BY <1>3, <1>4, <1>10, <2>1, InUseFacts DEF FinishRelease, Resume
    <2> QED BY <1>7, <1>10, <2>1 DEF FinishRelease, Resume
<1> QED BY <1>5, <1>6, <1>8, <1>9, <1>10, FinishForgetMatched, RemoveBondWaitMatched DEF FinishSteps

\* a step of another task
LEMMA OthersMatched ==
    ASSUME TypeOK, MatchInv, work' = work, snapshot' = snapshot,
           s'.connected = s.connected, s'.encrypted = s.encrypted, s'.advertising = s.advertising,
           s'.saved = s.saved, s'.pairing = s.pairing, s'.layers = s.layers, s'.profile = s.profile,
           Followed', Vouched',
           Running /\ s.connected = TRUE /\ link'.live = TRUE =>
               link.live = TRUE /\ link'.host = link.host /\ (link.enc = TRUE => link'.enc = TRUE)
    PROVE  MatchInv'
<1>1. Running' = Running
    BY DEF Running, HostOn, Winding
<1>2. Trusted'
    BY <1>1 DEF MatchInv, Trusted
<1>3. Flags(s)' /\ Relied'
    BY InUseFacts DEF MatchInv, Flags, Relied
<1> QED BY <1>2, <1>3 DEF MatchInv

LEMMA DeadlineMatched ==
    ASSUME TypeOK, MatchInv, DeadlinePasses
    PROVE  MatchInv'
<1>1. PICK d : s' = [s EXCEPT !.due = @ \cup {d}]
    BY DEF DeadlinePasses
<1>2. /\ s'.session = s.session /\ s'.generation = s.generation /\ s'.layers = s.layers /\ s'.profile = s.profile
      /\ s'.connected = s.connected /\ s'.encrypted = s.encrypted /\ s'.advertising = s.advertising
      /\ s'.saved = s.saved /\ s'.pairing = s.pairing
    BY <1>1 DEF TypeOK, WorkerType
<1>3. work' = work /\ snapshot' = snapshot /\ SameLink /\ queue' = queue /\ desired' = desired /\ Shrinks
    BY SameShrinks DEF DeadlinePasses, Outside, SameLink
<1>4. Running' = Running /\ (Wanted' => Wanted)
    BY <1>2, <1>3 DEF Running, HostOn, Winding, Wanted
<1>5. Followed' /\ Vouched'
    BY <1>2, <1>3, <1>4, FollowedShrinks, VouchedShrinks DEF MatchInv
<1> QED BY <1>2, <1>3, <1>5, OthersMatched DEF SameLink

\* a step of the callback task or the UI that neither makes nor reports a link
LEMMA BesideMatched ==
    ASSUME TypeOK, MatchInv, UNCHANGED WorkerVars, desired' = s.session /\ Running => desired = s.session,
           NEW type, type \notin {"CONNECTED", "DISCONNECTED", "AUTH"}, Grows(type),
           link'.phase = "idle" => link.phase = "idle" /\ link'.live = link.live,
           link'.live = TRUE => link.live = TRUE /\ link'.host = link.host /\ link'.enc = link.enc,
           link'.live = TRUE /\ ~Joining' => ~Joining
    PROVE  MatchInv'
<1>1. s' = s /\ work' = work /\ snapshot' = snapshot
    BY DEF WorkerVars
<1>2. Running' = Running /\ (Wanted' => Wanted)
    BY <1>1 DEF Running, HostOn, Winding, Wanted
<1>3. Followed'
    BY <1>1, <1>2, FollowedGrows DEF MatchInv
<1>4. Len(queue') # Len(queue) => queue'[Len(queue')].type # "AUTH"
    BY DEF Grows
<1>5. Vouched'
    BY <1>1, <1>2, <1>4, VouchedGrows DEF MatchInv
<1> QED BY <1>1, <1>3, <1>5, OthersMatched

LEMMA CompletionsMatched ==
    ASSUME TypeOK, LinkInv, MatchInv, Completions
    PROVE  MatchInv'
<1>1. UNCHANGED <<WorkerVars, desired>> /\ link' = link
    BY DEF Completions, CompleteGate, CompleteTable, CompleteAdvStart, CompleteAdvStop, CompleteRemoveBond,
       CompleteSuspend, Outside
<1>2. Joining' = Joining /\ NoPeer \in Peers
    BY <1>1 DEF Joining, Peers
<1>3. ASSUME NEW type, type \notin {"CONNECTED", "DISCONNECTED", "AUTH"}, Grows(type)
      PROVE  MatchInv'
    BY <1>1, <1>2, <1>3, BesideMatched
<1>4. ASSUME NEW type \in CallbackTypes, type \notin {"CONNECTED", "DISCONNECTED", "AUTH"},
             NEW ok \in BOOLEAN, NEW flag \in BOOLEAN, CallbackMessage(type, ok, flag, NoPeer)
      PROVE  MatchInv'
    BY <1>2, <1>3, <1>4, CallbackGrows DEF LinkInv
<1>5. CASE CompleteGate
    <2>1. PICK g \in Gates, ok \in BOOLEAN : CallbackMessage(GateMessage[g], ok, FALSE, NoPeer)
        BY <1>5 DEF CompleteGate
    <2>2. GateMessage[g] \in CallbackTypes /\ GateMessage[g] \notin {"CONNECTED", "DISCONNECTED", "AUTH"}
        BY ConstantsAssumption DEF GateMessage, CallbackTypes, ReadyFlags
    <2> QED BY <1>4, <2>1, <2>2
<1>6. CASE CompleteTable
    <2>1. PICK op \in ctl.ops, ok \in BOOLEAN :
             op[1] \in DOMAIN TableMessage /\ CallbackMessage(TableMessage[op[1]], ok, FALSE, NoPeer)
        BY <1>6 DEF CompleteTable
    <2>2. TableMessage[op[1]] \in CallbackTypes /\ TableMessage[op[1]] \notin {"CONNECTED", "DISCONNECTED", "AUTH"}
        BY <2>1 DEF TableMessage, CallbackTypes
    <2> QED BY <1>4, <2>1, <2>2
<1>7. CASE CompleteAdvStart
    <2>1. PICK ok \in BOOLEAN : CallbackMessage("ADV_STARTED", ok, FALSE, NoPeer)
        BY <1>7 DEF CompleteAdvStart
    <2>2. "ADV_STARTED" \in CallbackTypes
        BY DEF CallbackTypes
    <2> QED BY <1>4, <2>1, <2>2
<1>8. CASE CompleteAdvStop \/ CompleteRemoveBond
    <2>1. Grows("WRITE")
        BY <1>8, SameGrows DEF CompleteAdvStop, CompleteRemoveBond
    <2> QED BY <1>3, <2>1
<1>9. CASE CompleteSuspend
    <2>1. PICK name \in {"suspend", "resume"} : CallbackMessage("SUSPEND", TRUE, name = "suspend", NoPeer)
        BY <1>9 DEF CompleteSuspend
    <2>2. "SUSPEND" \in CallbackTypes /\ (name = "suspend") \in BOOLEAN
        BY DEF CallbackTypes
    <2> QED BY <1>4, <2>1, <2>2
<1> QED BY <1>5, <1>6, <1>7, <1>8, <1>9 DEF Completions

\* the callback task ends a callback with its report
LEMMA PostMatched ==
    ASSUME TypeOK, LinkInv, TimedInv, MatchInv, Room,
           \/ ConnectPost
           \/ DisconnectPost
    PROVE  MatchInv'
<1>1. s' = s /\ work' = work /\ snapshot' = snapshot /\ desired' = desired
    BY DEF ConnectPost, DisconnectPost, WorkerVars, LinkVars
<1>2. Running' = Running
    BY <1>1 DEF Running, HostOn, Winding
<1>3. \A a, b, c, d, e, f, g, h : <<a, b, c, d>> = <<e, f, g, h>> => a = e /\ b = f /\ c = g /\ d = h
    OBVIOUS
<1>4. link.phase = "disconnect_down" => link.live = FALSE
    BY ONLY <1>3, LinkInv DEF LinkInv, Viewed, Views
<1>5. PICK type \in {"CONNECTED", "DISCONNECTED"} :
         /\ CallbackMessage(type, TRUE, FALSE, NoPeer)
         /\ type = "CONNECTED" <=> link.live = TRUE
    <2>1. CASE ConnectPost
        <3>1. Joining
            BY <2>1 DEF ConnectPost, Joining
        <3>2. link.live = TRUE
            BY <3>1, ViewFacts DEF LinkInv, TypeOK, LinkType
        <3> QED BY <2>1, <3>2 DEF ConnectPost
    <2>2. CASE DisconnectPost
        BY <1>4, <2>2 DEF DisconnectPost
    <2> QED BY <2>1, <2>2
<1>6. /\ link'.live = link.live /\ link'.host = link.host /\ link'.enc = link.enc
    BY DEF ConnectPost, DisconnectPost, TypeOK, LinkType
<1>7. PICK m : /\ m.type = type /\ m.generation = callbackGen
               /\ callbackGen # 0 => queue' = Append(queue, m)
    <2> DEFINE mm == [NoMessage EXCEPT !.type = type, !.generation = callbackGen, !.ok = TRUE,
                                       !.flag = FALSE, !.peer = NoPeer]
    <2>1. NoMessage \in Messages
        BY NoMessageType
    <2>2. mm.type = type /\ mm.generation = callbackGen
        BY <2>1 DEF Messages
    <2>3. callbackGen # 0 => queue' = Append(queue, mm)
        BY <1>5 DEF CallbackMessage
    <2> QED BY <2>2, <2>3
<1>8. PICK n : n = Len(queue) + 1
    OBVIOUS
<1>9. ASSUME Running
      PROVE  Len(queue') = n /\ n \in Nat /\ n >= 1 /\ Queued(n, type)' /\ queue'[n].type = type
    <2>1. callbackGen = s.generation /\ s.generation # 0
        BY <1>9 DEF LinkInv, Stamped, TimedInv, Seated, Running
    <2>2. queue \in Seq(Messages) /\ Len(queue) \in Nat
        BY QueueFacts DEF TypeOK
    <2>3. queue' = Append(queue, m)
        BY <1>7, <2>1
    <2>4. Len(queue') = n /\ queue'[n] = m /\ n \in Nat /\ n >= 1
        BY <1>8, <2>2, <2>3
    <2>5. n \in 1..Len(queue') /\ queue'[n].type = type /\ queue'[n].generation = s'.generation
        BY <1>1, <1>7, <2>1, <2>4
    <2>6. Queued(n, type)'
        BY <2>5 DEF Queued
    <2> QED BY <2>4, <2>5, <2>6
<1>10. Followed'
    <2> SUFFICES ASSUME Running
                 PROVE  /\ \A i \in 1..Len(queue') : LastReport(i)' => (queue'[i].type = "CONNECTED" <=> link.live = TRUE)
                        /\ ~\A i \in 1..Len(queue') : ~Reporting(i)'
        BY <1>2, <1>6 DEF Followed
    <2>1. n \in 1..Len(queue')
        BY <1>9
    <2>2. Reporting(n)'
        BY <1>5, <1>9 DEF Reporting
    <2>3. ASSUME NEW i \in 1..Len(queue'), LastReport(i)'
          PROVE  i = n
        <3>1. n <= i
            BY <2>1, <2>2, <2>3 DEF LastReport
        <3> QED BY <1>9, <3>1
    <2> QED BY <1>5, <1>9, <2>1, <2>2, <2>3
<1>11. Vouched'
    <2> SUFFICES ASSUME Running, link.live = TRUE, NEW i \in 1..Len(queue'), Latest(i)'
                 PROVE  FALSE
        BY <1>2, <1>6 DEF Vouched
    <2>1. n \in 1..Len(queue') /\ Queued(n, "CONNECTED")'
        BY <1>5, <1>9
    <2>2. Queued(i, "AUTH")' /\ ~(i < n)
        BY <2>1 DEF Latest
    <2>3. i = n
        BY <1>9, <2>2
    <2> QED BY <2>1, <2>2, <2>3 DEF Queued
<1> QED BY <1>1, <1>6, <1>10, <1>11, OthersMatched

LEMMA HostAuthMatched ==
    ASSUME TypeOK, LinkInv, MatchInv, HostAuth
    PROVE  MatchInv'
<1>1. s' = s /\ work' = work /\ snapshot' = snapshot /\ desired' = desired
    BY DEF HostAuth, WorkerVars
<1>2. link \in LinkType /\ link.host \in Peers /\ link.live = TRUE /\ callbackGen \in Nat
    BY DEF HostAuth, TypeOK, LinkType, Peers
<1>3. PICK ok \in BOOLEAN : link' = [link EXCEPT !.enc = @ \/ ok] /\ CallbackMessage("AUTH", ok, FALSE, link.host)
    BY DEF HostAuth
<1>4. /\ link'.live = link.live /\ link'.host = link.host /\ link'.phase = link.phase
      /\ link'.enc = (link.enc \/ ok)
    BY <1>2, <1>3 DEF LinkType
<1>5. Grows("AUTH")
    <2>1. "AUTH" \in CallbackTypes /\ FALSE \in BOOLEAN
        BY DEF CallbackTypes
    <2> QED BY <1>2, <1>3, <2>1, CallbackGrows DEF LinkInv
<1>6. Len(queue') # Len(queue) => queue'[Len(queue')].ok = ok /\ queue'[Len(queue')].peer = link.host
    <2> DEFINE m == [NoMessage EXCEPT !.type = "AUTH", !.generation = callbackGen, !.ok = ok,
                                      !.flag = FALSE, !.peer = link.host]
    <2>1. m.ok = ok /\ m.peer = link.host
        BY DEF NoMessage
    <2>2. queue' = queue \/ queue' = Append(queue, m)
        BY <1>3 DEF CallbackMessage
    <2> HIDE DEF m
    <2>3. queue \in Seq(Messages) /\ Len(queue) \in Nat
        BY QueueFacts DEF TypeOK
    <2> QED BY <2>1, <2>2, <2>3
<1>7. Running' = Running /\ Wanted' = Wanted /\ Joining' = Joining
    BY <1>1, <1>4 DEF Running, HostOn, Winding, Wanted, Joining
<1>8. Followed'
    BY <1>1, <1>4, <1>5, <1>7, FollowedGrows DEF MatchInv
<1>9. link.enc = TRUE => link'.enc = TRUE
    BY <1>4
<1>10. ok = TRUE => link'.enc = TRUE
    BY <1>4
<1>11. Vouched'
    <2>1. link'.enc = link.enc \/ link'.enc = TRUE
        BY <1>2, <1>3, <1>4, <1>10 DEF LinkType
    <2> QED BY <1>1, <1>2, <1>4, <1>5, <1>6, <1>7, <1>10, <2>1, VouchedGrows DEF MatchInv
<1> QED BY <1>1, <1>2, <1>4, <1>8, <1>9, <1>11, OthersMatched

LEMMA HostConnectMatched ==
    ASSUME TypeOK, LinkInv, MatchInv, HostConnect
    PROVE  MatchInv'
<1>1. s' = s /\ work' = work /\ snapshot' = snapshot /\ desired' = desired /\ queue' = queue
    BY DEF HostConnect, WorkerVars, LinkVars
<1>2. link'.phase = "connect" /\ ctl.adv # "off"
    BY DEF HostConnect, TypeOK, LinkType
<1>3. Running' = Running /\ Wanted' = Wanted /\ Joining'
    BY <1>1, <1>2 DEF Running, HostOn, Winding, Wanted, Joining
<1>4. Running => s.connected # TRUE
    BY <1>2 DEF LinkInv, Aired, Running, Silenced, OnAir
<1>5. Grows("WRITE")
    BY <1>1, SameGrows
<1>6. Followed'
    BY <1>1, <1>2, <1>3, <1>5, FollowedGrows DEF MatchInv
<1>7. Vouched'
    BY <1>1, <1>3, <1>5, VouchedGrows DEF MatchInv
<1> QED BY <1>1, <1>4, <1>6, <1>7, OthersMatched

LEMMA LinkStepsMatched ==
    ASSUME TypeOK, LinkInv, TimedInv, MatchInv, LinkCallbacks \/ Host, ConnectPost \/ DisconnectPost => Room
    PROVE  MatchInv'
<1>1. CASE ConnectClear \/ ConnectUp \/ DisconnectMark \/ DisconnectDown \/ LinkEnds
    <2>1. UNCHANGED <<WorkerVars, desired>> /\ queue' = queue /\ link \in LinkType
        BY <1>1 DEF ConnectClear, ConnectUp, DisconnectMark, DisconnectDown, LinkEnds, LinkVars, TypeOK
    <2>2. /\ link'.phase # "idle"
          /\ link'.live = TRUE => link.live = TRUE /\ link'.host = link.host /\ link'.enc = link.enc
          /\ link'.live = TRUE /\ ~Joining' => ~Joining
        BY <1>1, <2>1 DEF ConnectClear, ConnectUp, DisconnectMark, DisconnectDown, LinkEnds, Joining, LinkType
    <2>3. Grows("WRITE")
        BY <2>1, SameGrows
    <2> QED BY <2>1, <2>2, <2>3, BesideMatched
<1>2. CASE HostWrite \/ HostSuspend
    <2>1. UNCHANGED <<WorkerVars, desired>> /\ link' = link /\ Joining' = Joining
        BY <1>2 DEF HostWrite, HostSuspend, Outside, Joining
    <2>2. CallbackMessage("WRITE", TRUE, FALSE, NoPeer)
        BY <1>2 DEF HostWrite, HostSuspend
    <2>3. "WRITE" \in CallbackTypes /\ NoPeer \in Peers
        BY DEF CallbackTypes, Peers
    <2>4. Grows("WRITE")
        BY <2>2, <2>3, CallbackGrows DEF LinkInv
    <2> QED BY <2>1, <2>4, BesideMatched
<1> QED BY <1>1, <1>2, PostMatched, HostAuthMatched, HostConnectMatched DEF LinkCallbacks, Host

LEMMA UiMatched ==
    ASSUME TypeOK, MatchInv, s' = s, work' = work, snapshot' = snapshot, callbackGen' = callbackGen, link' = link,
           NEW m, m.generation = 0, m.type \in ApiTypes \cup {"NONE"}, queue' = queue \/ queue' = Append(queue, m),
           Running /\ desired' = s.session => desired = s.session
    PROVE  MatchInv'
<1>1. queue \in Seq(Messages) /\ Len(queue) \in Nat /\ s.generation \in Nat
    BY QueueFacts DEF TypeOK, WorkerType
<1>2. Grows(m.type)
    <2>1. CASE queue' = queue
        BY <2>1, SameGrows
    <2>2. CASE queue' = Append(queue, m)
        <3>1. Len(queue') = Len(queue) + 1 /\ queue'[Len(queue')] = m
            BY <1>1, <2>2
        <3>2. \A i \in 1..Len(queue) : queue'[i] = queue[i]
            BY <1>1, <2>2
        <3> QED BY <1>1, <3>1, <3>2 DEF Grows
    <2> QED BY <2>1, <2>2
<1>3. m.type \notin {"CONNECTED", "DISCONNECTED", "AUTH"} /\ Joining' = Joining /\ UNCHANGED WorkerVars
    BY DEF ApiTypes, Joining, WorkerVars
<1> QED BY <1>2, <1>3, BesideMatched

LEMMA UiStepsMatched ==
    ASSUME TypeOK, BondInv, TimedInv, MatchInv, UiMenu \/ UiTurn, UiOpenSend => Room
    PROVE  MatchInv'
<1>1. Spoken
    BY UiSpeaks
<1>2. PICK m : /\ m.generation = 0 /\ m.type \in ApiTypes \cup {"NONE"}
               /\ queue' = queue \/ queue' = Append(queue, m)
    BY <1>1 DEF Spoken
<1> QED BY <1>1, <1>2, UiMatched DEF Spoken, WorkerVars

LEMMA IdleMatched ==
    ASSUME s = IdleWorker, work = IdleWork, snapshot = OffStatus
    PROVE  MatchInv
<1>1. ~HostOn(s) /\ ~Running /\ work.pc = "idle" /\ Flags(s) /\ ~InUse
    BY DEF IdleWorker, IdleWork, HostOn, Running, Flags, InUse, OffStatus
<1>2. Followed /\ Vouched /\ Trusted
    BY <1>1 DEF Followed, Vouched, Trusted
<1>3. Relied
    BY <1>1 DEF Relied
<1> QED BY <1>1, <1>2, <1>3 DEF MatchInv

LEMMA PowerLossMatched ==
    ASSUME PowerLoss
    PROVE  MatchInv'
<1>1. s' = IdleWorker /\ work' = IdleWork /\ snapshot' = OffStatus
    BY DEF PowerLoss
<1>2. ~HostOn(s') /\ ~Running' /\ Flags(s') /\ ~InUse'
    BY <1>1 DEF IdleWorker, HostOn, Running, Flags, InUse, OffStatus
<1>3. Relied'
    BY <1>2 DEF Relied
<1> QED BY <1>2, <1>3, StoppedMatched

\* no report of the radio and no OPEN meets a full queue, and a host's
\* authentication is handled while the worker holds its link
ReportsQueued == CompleteAdvStart \/ ConnectPost \/ DisconnectPost \/ UiOpenSend => Room
AuthsInTime == HandleAuthOk => s.connected = TRUE

LEMMA MatchInvStep ==
    ASSUME TypeOK, StoppedInv, CleanStops, LinkInv, LinkInv', BondInv, TimedInv, TimedInv', MatchInv,
           [Next]_vars, [ReportsQueued]_vars, [AuthsInTime]_vars
    PROVE  MatchInv'
<1>1. CASE UNCHANGED vars
    <2>1. UNCHANGED WorkerVars /\ desired' = desired /\ queue' = queue /\ link' = link /\ Joining' = Joining
        BY <1>1 DEF vars, WorkerVars, Joining
    <2>2. Grows("WRITE")
        BY <2>1, SameGrows
    <2> QED BY <2>1, <2>2, BesideMatched
<1>2. CASE Next /\ ReportsQueued /\ AuthsInTime
    <2>1. HandleAuthOk => s.connected = TRUE
        BY <1>2 DEF AuthsInTime
    <2>2. CASE Worker
        BY <2>1, <2>2, StopStepsMatched, FinishStepsMatched, ApiHandlersMatched, CallbackHandlersMatched,
           TailMatched DEF Worker
    <2>3. CASE LinkCallbacks \/ Host
        BY <1>2, <2>3, LinkStepsMatched DEF ReportsQueued
    <2>4. CASE UiMenu \/ UiTurn
        BY <1>2, <2>4, UiStepsMatched DEF ReportsQueued
    <2> QED BY <1>2, <2>2, <2>3, <2>4, CompletionsMatched, DeadlineMatched, PowerLossMatched DEF Next
<1> QED BY <1>1, <1>2

\* Once all messages are handled the worker's view of the link is the real one,
\* and a session in use has the saved host on an encrypted link, when the waits
\* and calls of a stop succeed, no report of the radio and no OPEN is refused by
\* a full queue, and no authentication is handled after its link was given up
\* (bt_runtime.c:795-821: HandleAuthOk does not ask whether it is connected).
THEOREM ViewIsTheLink ==
    CleanStops => (Spec /\ [][ReportsQueued]_vars /\ [][AuthsInTime]_vars => []ViewMatchesLink)
<1> SUFFICES ASSUME CleanStops
             PROVE  Spec /\ [][ReportsQueued]_vars /\ [][AuthsInTime]_vars => []ViewMatchesLink
    OBVIOUS
<1>1. Init => TimedInv
    BY IdleTimed DEF Init
<1>2. Init => MatchInv
    BY IdleMatched DEF Init
<1>3. [ReportsQueued]_vars => [StartsQueued]_vars
    BY DEF ReportsQueued, StartsQueued
<1>4. TypeOK /\ StoppedInv /\ LinkInv /\ LinkInv' /\ BondInv /\ TimedInv /\ [Next]_vars /\ [StartsQueued]_vars => TimedInv'
    BY TimedInvStep
<1>5. TypeOK /\ StoppedInv /\ LinkInv /\ LinkInv' /\ BondInv /\ TimedInv /\ TimedInv' /\ MatchInv /\ [Next]_vars
         /\ [ReportsQueued]_vars /\ [AuthsInTime]_vars => MatchInv'
    BY MatchInvStep
<1>6. TypeOK /\ LinkInv /\ MatchInv => ViewMatchesLink
    <2> SUFFICES ASSUME TypeOK, LinkInv, MatchInv, Settled, HostOn(s), desired = s.session
                 PROVE  s.connected = link.up /\ (InUse => link.enc /\ link.host = s.profile.peer)
        BY DEF ViewMatchesLink
    <2>1. Running /\ link.phase = "idle" /\ queue = << >> /\ "idle" \in Calm /\ work.pc = "idle"
        BY DEF Settled, Running, Winding, CallbackIdle, Calm, Posts
    <2>2. s.connected = link.live
        BY <2>1 DEF MatchInv, Followed
    <2>3. link.up \in BOOLEAN /\ link.live \in BOOLEAN
        BY DEF TypeOK, LinkType
    <2>4. link.up = link.live
        BY <2>1, <2>3, ViewFacts DEF LinkInv, Attached
    <2>5. ASSUME InUse
          PROVE  link.enc /\ link.host = s.profile.peer
        <3>1. s.encrypted = TRUE /\ s.connected = TRUE
            BY <2>1, <2>5 DEF MatchInv, Relied, Flags
        <3> QED BY <2>1, <2>2, <3>1 DEF MatchInv, Trusted
    <2> QED BY <2>1, <2>2, <2>4, <2>5
<1> QED BY <1>1, <1>2, <1>3, <1>4, <1>5, <1>6, TypeCorrect, StoppedCorrect, LinkViewCorrect, CopiesCorrect, PTL DEF Spec

-----------------------------------------------------------------------------
(* The order of sessions                                                     *)

Opens == {m \in Held : m.type = "OPEN"}

\* sessions are opened in the order of their numbers, and what an event or an
\* answer is about was opened before what is still to be opened
Ahead ==
    /\ \A i, j \in 1..Len(queue) :
          queue[i].type = "OPEN" /\ queue[j].type = "OPEN" /\ i < j => queue[i].session < queue[j].session
    /\ Opening => \A j \in 1..Len(queue) : queue[j].type = "OPEN" => work.msg.session < queue[j].session
    /\ \A m \in Opens :
          /\ s.session < m.session
          /\ \A i \in 1..Len(evtq) : evtq[i].session < m.session
          /\ \A a \in Held : a.type = "SAVED" => a.session < m.session

\* the UI holds the last session it opened, and the worker got no further
Newest == ui.session # 0 => s.session <= ui.session /\ \A m \in Opens : m.session <= ui.session
Reached == s.session # 0 => \A i \in 1..Len(evtq) : evtq[i].session <= s.session

\* an OPEN brings the peer as it is saved
AsSaved == \A m \in Opens : m.remote.peer = nvm.peer[m.remote.id]

OrderInv == Ahead /\ Newest /\ Reached /\ AsSaved

-----------------------------------------------------------------------------
(* What the worker asks the UI to save                                       *)

Asked(i) == i \in 1..Len(evtq) /\ evtq[i].session = s.session
Answered(i) == i \in 1..Len(queue) /\ queue[i].type = "SAVED" /\ queue[i].session = s.session
Assured(i) == Answered(i) /\ queue[i].flag = TRUE
NoneAsked == (\A i \in 1..Len(evtq) : ~Asked(i)) /\ (\A i \in 1..Len(queue) : ~Answered(i))
Durably == nvm.peer[s.profile.id] = s.profile.peer

\* the worker serves its profile, or stops only to serve it again; it clears
\* its profile; it is about to
Pausing(ks) == (Winding \/ work.pc = "resume") /\ work.k \in ks
Serving ==
    \/ Running /\ s.forgetting = FALSE /\ work.pc # "bond_wait"
    \/ Pausing({"restart", "release"})
Clearing == Running /\ s.forgetting = TRUE
Unasking == Pausing({"forget"}) \/ work.pc = "bond_wait"

\* all that was asked for this session is to save the peer the worker has
Agreed ==
    /\ \A i \in 1..Len(evtq) : Asked(i) => evtq[i].peer = s.profile.peer /\ s.profile.peer # NoPeer
    /\ \A i \in 1..Len(queue) : Assured(i) => s.profile.peer # NoPeer /\ Durably

\* or that it has none any more, once
Sole ==
    /\ \A i \in 1..Len(evtq) : Asked(i) =>
          /\ evtq[i].peer = NoPeer
          /\ \A j \in 1..Len(evtq) : Asked(j) => j = i
          /\ \A j \in 1..Len(queue) : ~Answered(j)
    /\ \A i \in 1..Len(queue) : Answered(i) => \A j \in 1..Len(queue) : Answered(j) => j = i
    /\ \A i \in 1..Len(queue) : Assured(i) =>
          queue[i].remote.id = s.profile.id /\ queue[i].remote.peer = NoPeer /\ nvm.peer[s.profile.id] = NoPeer

\* what the worker's profile has when it says so
Settles(s1) ==
    /\ s1.saved = TRUE \/ s1.awaiting_save = TRUE => s1.profile.peer # NoPeer /\ HasBond(s1.store, s1.profile.peer)
    /\ s1.pairing = TRUE /\ s1.awaiting_save = FALSE => s1.profile.peer = NoPeer
SaveInv ==
    /\ Serving => Agreed /\ (s.awaiting_save = FALSE => Durably)
    /\ Serving /\ Running => Settles(s)
    /\ Clearing => Sole
    /\ Unasking => NoneAsked

-----------------------------------------------------------------------------
(* What the worker's flags exclude while it waits for an answer              *)

Sound(s1) ==
    /\ s1.awaiting_save = TRUE => s1.advertising = FALSE
    /\ s1.awaiting_save = TRUE /\ s1.saved = TRUE => s1.forgetting = TRUE
    /\ s1.forgetting = TRUE => s1.awaiting_save = TRUE /\ s1.connected = FALSE
    /\ s1.subscribed = TRUE => s1.connected = TRUE /\ s1.saved = TRUE
Attends(s1) == s1.awaiting_save = TRUE /\ s1.connected = TRUE => s1.encrypted = TRUE
Guarded ==
    /\ Sound(s)
    /\ s.awaiting_save = TRUE => Running
    /\ work.pc \in Calm => Attends(s)
    /\ work.pc = "resume" => s.connected = FALSE
    /\ work.pc = "bond_wait" => HostOn(s) /\ s.connected = FALSE /\ s.advertising = FALSE

\* successes that no CONNECTED follows are of one host, and of the one in use
Granted(i) == Queued(i, "AUTH") /\ queue[i].ok = TRUE
Consistent ==
    Running => \A i, j \in 1..Len(queue) : Latest(i) /\ Latest(j) => queue[i].peer = queue[j].peer
Proven ==
    Running /\ s.connected = TRUE /\ s.encrypted = TRUE =>
        \A i \in 1..Len(queue) : Granted(i) => queue[i].peer = s.profile.peer

\* only a host is linked, and authenticates
Hosted ==
    /\ link.live = TRUE => link.host \in Hosts
    /\ \A i \in 1..Len(queue) : queue[i].type = "AUTH" => queue[i].peer \in Hosts

KeptInv == OrderInv /\ SaveInv /\ Guarded /\ Consistent /\ Proven /\ Hosted

\* no profile is forgotten before what was asked of the UI is answered
ForgetsInTurn == HandleForget => NoneAsked

\* a step of the worker: a message is taken, an event is posted, or the session in hand is opened
LEMMA OrderWorker ==
    ASSUME TypeOK, OrderInv, Shrinks, ui' = ui, nvm'.peer = nvm.peer,
           Opening' => \/ Opening /\ work'.msg = work.msg /\ queue' = queue
                       \/ Len(queue) > 0 /\ Len(queue') = Len(queue) - 1 /\ work'.msg = queue[1] /\ queue[1].type = "OPEN",
           \A i \in 1..Len(evtq') : \/ i \in 1..Len(evtq) /\ evtq'[i] = evtq[i]
                                    \/ evtq'[i].session = s.session,
           \/ s'.session \in {s.session, 0}
           \/ Opening /\ ~Opening' /\ s'.session = work.msg.session /\ work.msg.type = "OPEN" /\ evtq' = evtq
    PROVE  OrderInv'
<1>1. PICK d \in {0, 1} :
         /\ Len(queue') = Len(queue) - d
         /\ \A i \in 1..Len(queue') : i + d \in 1..Len(queue) /\ queue'[i] = queue[i + d]
    BY DEF Shrinks
<1>2. /\ Len(queue) \in Nat /\ Len(queue') \in Nat /\ s.session \in Nat
      /\ \A i \in 1..Len(queue) : queue[i].session \in Nat
      /\ \A i \in 1..Len(evtq) : evtq[i].session \in Nat
      /\ \A m \in Held : m.session \in Nat
    BY <1>1, QueueFacts, ProfileFacts, HeldFacts DEF Messages, Events
<1>3. \A m \in Held' : m \in Held
    BY <1>1 DEF Held
<1>4. \A m \in Opens' : m \in Opens
    BY <1>3 DEF Opens
<1>5. Opening /\ work.msg.type = "OPEN" => work.msg \in Opens
    BY DEF Opens, Held
<1>6. ASSUME NEW i \in 1..Len(queue'), NEW j \in 1..Len(queue'),
             queue'[i].type = "OPEN", queue'[j].type = "OPEN", i < j
      PROVE  queue'[i].session < queue'[j].session
    <2>1. i + d \in 1..Len(queue) /\ j + d \in 1..Len(queue) /\ i + d < j + d
        BY <1>1, <1>2, <1>6
    <2> QED BY <1>1, <1>6, <2>1 DEF OrderInv, Ahead
<1>7. ASSUME Opening', NEW j \in 1..Len(queue'), queue'[j].type = "OPEN"
      PROVE  work'.msg.session < queue'[j].session
    <2>1. CASE Opening /\ work'.msg = work.msg /\ queue' = queue
        BY <1>7, <2>1 DEF OrderInv, Ahead
    <2>2. CASE Len(queue) > 0 /\ Len(queue') = Len(queue) - 1 /\ work'.msg = queue[1] /\ queue[1].type = "OPEN"
        <3>1. d = 1 /\ 1 \in 1..Len(queue) /\ j + 1 \in 1..Len(queue) /\ 1 < j + 1 /\ queue'[j] = queue[j + 1]
            BY <1>1, <1>2, <2>2
        <3> QED BY <1>7, <2>2, <3>1 DEF OrderInv, Ahead
    <2> QED BY <1>7, <2>1, <2>2
<1>8. ASSUME NEW m \in Opens'
      PROVE  /\ s'.session < m.session
             /\ \A i \in 1..Len(evtq') : evtq'[i].session < m.session
             /\ \A a \in Held' : a.type = "SAVED" => a.session < m.session
    <2>1. /\ s.session < m.session
          /\ \A i \in 1..Len(evtq) : evtq[i].session < m.session
          /\ \A a \in Held : a.type = "SAVED" => a.session < m.session
        BY <1>4 DEF OrderInv, Ahead
    <2>2. s'.session < m.session
        <3>1. CASE s'.session \in {s.session, 0}
            BY <1>2, <1>3, <2>1, <3>1 DEF Opens
        <3>2. CASE Opening /\ ~Opening' /\ s'.session = work.msg.session
            <4>1. PICK j \in 1..Len(queue') : m = queue'[j] /\ m.type = "OPEN"
                BY <3>2 DEF Opens, Held
            <4>2. j + d \in 1..Len(queue) /\ m = queue[j + d]
                BY <1>1, <4>1
            <4> QED BY <3>2, <4>1, <4>2 DEF OrderInv, Ahead
        <3> QED BY <3>1, <3>2
    <2> QED BY <1>3, <2>1, <2>2
<1>9. Ahead'
    BY <1>6, <1>7, <1>8 DEF Ahead
<1>10. Newest'
    <2> SUFFICES ASSUME ui.session # 0
                 PROVE  s'.session <= ui.session /\ \A m \in Opens' : m.session <= ui.session
        BY DEF Newest
    <2>1. ui.session \in Nat /\ s.session <= ui.session /\ \A m \in Opens : m.session <= ui.session
        BY ProfileFacts DEF OrderInv, Newest
    <2> QED BY <1>4, <1>5, <2>1
<1>11. Reached'
    <2>1. CASE s'.session = s.session
        BY <1>2, <2>1 DEF OrderInv, Reached
    <2>2. CASE s'.session = 0
        BY <2>2 DEF Reached
    <2>3. CASE Opening /\ s'.session = work.msg.session /\ work.msg.type = "OPEN" /\ evtq' = evtq
        <3>1. work.msg \in Opens /\ work.msg \in Held
            BY <1>5, <2>3 DEF Opens
        <3>2. \A i \in 1..Len(evtq) : evtq[i].session < work.msg.session
            BY <3>1 DEF OrderInv, Ahead
        <3> QED BY <1>2, <2>3, <3>1, <3>2 DEF Reached
    <2> QED BY <2>1, <2>2, <2>3
<1>12. AsSaved'
    BY <1>4 DEF OrderInv, AsSaved
<1> QED BY <1>9, <1>10, <1>11, <1>12 DEF OrderInv

\* a step of another task that brings no OPEN and no answer, and takes no event but the first
LEMMA OrderOthers ==
    ASSUME TypeOK, OrderInv, s'.session = s.session, work' = work, nvm'.peer = nvm.peer,
           NEW m, m.type \notin {"OPEN", "SAVED"}, queue' = queue \/ queue' = Append(queue, m),
           \A i \in 1..Len(evtq') : \E j \in 1..Len(evtq) : evtq'[i] = evtq[j],
           ui'.session \in {ui.session, 0}
    PROVE  OrderInv'
<1>1. queue \in Seq(Messages) /\ Len(queue) \in Nat /\ Opening' = Opening
    BY QueueFacts DEF TypeOK, Opening, Winding
<1>2. \A x \in Held' : x \in Held \/ x = m
    BY HeldGrows
<1>3. \A x \in Opens' : x \in Opens
    BY <1>2 DEF Opens
<1>4. \A i \in 1..Len(queue') : queue'[i].type = "OPEN" => i \in 1..Len(queue) /\ queue'[i] = queue[i]
    <2>1. CASE queue' = queue
        BY <2>1
    <2>2. CASE queue' = Append(queue, m)
        <3>1. Len(queue') = Len(queue) + 1 /\ queue'[Len(queue')] = m
            BY <1>1, <2>2
        <3>2. \A i \in 1..Len(queue) : queue'[i] = queue[i]
            BY <1>1, <2>2
        <3> QED BY <1>1, <3>1, <3>2
    <2> QED BY <2>1, <2>2
<1>5. Ahead'
    BY <1>1, <1>2, <1>3, <1>4 DEF OrderInv, Ahead
<1>6. Newest' /\ Reached' /\ AsSaved'
    BY <1>3 DEF OrderInv, Newest, Reached, AsSaved
<1> QED BY <1>5, <1>6 DEF OrderInv

-----------------------------------------------------------------------------
(* What every step of the worker has in common                               *)

\* it takes the head of the queue or nothing, saves no peer and touches no bond
Steady ==
    /\ Shrinks /\ ui' = ui /\ nvm'.peer = nvm.peer /\ nvm'.bonds = nvm.bonds
    /\ link' = link \/ link'.live = FALSE

LEMMA WorkerSteady ==
    ASSUME TypeOK, Worker
    PROVE  Steady
<1>1. nvm \in Durable /\ link \in LinkType
    BY DEF TypeOK
<1>2. CASE nvm' = nvm \/ \E p, subscribed : nvm' = [nvm EXCEPT !.ccc[p] = subscribed]
    <2>1. nvm'.peer = nvm.peer /\ nvm'.bonds = nvm.bonds
        BY <1>1, <1>2 DEF Durable
    <2>2. CASE StopSteps \/ AfterCallback \/ Advertise \/ Poll \/ TailClose \/ TailExpired \/ TailDone
        <3>1. queue' = queue /\ ui' = ui
            BY <2>2 DEF StopSteps, StopAdvertisingSkip, StopAdvertisingRequest, StopAdvertisingWait, DisconnectLink,
               DisconnectDone, DisconnectTimeout, TeardownHid, TeardownHost, AfterCallback, Advertise, Poll, TailClose,
               TailExpired, TailDone, Outside, UiVars
        <3>2. link' = link \/ link' = [link EXCEPT !.live = FALSE, !.enc = FALSE]
            BY <2>2 DEF StopSteps, StopAdvertisingSkip, StopAdvertisingRequest, StopAdvertisingWait, DisconnectLink,
               DisconnectDone, DisconnectTimeout, TeardownHid, TeardownHost, AfterCallback, Advertise, Poll, TailClose,
               TailExpired, TailDone, Outside
        <3>3. link' = link \/ link'.live = FALSE
            BY <1>1, <3>2 DEF LinkType
        <3> QED BY <2>1, <3>1, <3>3, SameShrinks DEF Steady
    <2>3. CASE FinishSteps
        <3>1. queue' = queue /\ ui' = ui /\ link' = link
            BY <2>3 DEF FinishSteps, FinishFail, FinishTimeout, FinishUnpair, FinishAuthRetry, FinishClose,
               FinishOpen, FinishRestart, FinishRelease, FinishForget, RemoveBondWait, Outside, UiVars
        <3> QED BY <2>1, <3>1, SameShrinks DEF Steady
    <2>4. CASE ApiHandlers
        <3>1. PICK types \in {{"OPEN"}, {"FORGET"}, {"SAVED"}, {"TAP"}, {"RELEASE"}, {"CLOSE"}, ApiTypes \cup CallbackTypes} :
                 Take(types)
            BY <2>4 DEF ApiHandlers, HandleOpen, HandleForget, HandleSaved, HandleTap, HandleRelease, HandleClose, HandleDropped
        <3>2. ui' = ui /\ link' = link
            BY <2>4 DEF ApiHandlers, HandleOpen, HandleForget, HandleSaved, HandleTap, HandleRelease, HandleClose,
               HandleDropped, Outside, UiVars
        <3> QED BY <2>1, <3>1, <3>2, TakeShrinks DEF Steady
    <2>5. CASE CallbackHandlers
        <3>1. PICK types \in {{"ADV_DATA", "SCAN_DATA", "ADDRESS"}, {"HID_READY"}, {"PRIVACY"},
                              {"WHITELIST_CLEAR", "WHITELIST_ADD"}, {"PEER_PRIVACY"}, {"ADV_STARTED"}, {"CONNECTED"},
                              {"AUTH"}, {"DISCONNECTED"}, {"WRITE"}, {"SUSPEND"}} : Take(types)
            BY <2>5 DEF CallbackHandlers, HandleGate, HandleHidReady, HandlePrivacy, HandleWhitelist, HandlePeerPrivacy,
               HandleAdvStarted, HandleConnected, HandleAuthFailed, HandleAuthOk, HandleDisconnected, HandleWrite,
               HandleSuspend, TakeCallback
        <3>2. ui' = ui /\ link' = link
            <4>1. CASE HandleHidReady \/ HandleWrite \/ HandleSuspend \/ HandleAuthOk
                BY <4>1 DEF HandleHidReady, HandleWrite, HandleSuspend, HandleAuthOk, UiVars
            <4>2. CASE UNCHANGED Outside
                BY <4>2 DEF Outside
            <4> QED BY <2>5, <4>1, <4>2 DEF CallbackHandlers, HandleGate, HandlePrivacy, HandleWhitelist,
                    HandlePeerPrivacy, HandleAdvStarted, HandleConnected, HandleAuthFailed, HandleDisconnected
        <3> QED BY <2>1, <3>1, <3>2, TakeShrinks DEF Steady
    <2> QED BY <2>2, <2>3, <2>4, <2>5 DEF Worker
<1>3. nvm' = nvm \/ \E p, subscribed : nvm' = [nvm EXCEPT !.ccc[p] = subscribed]
    <2>1. CASE StopSteps \/ AfterCallback \/ Advertise \/ Poll \/ TailClose \/ TailExpired \/ TailDone
        BY <2>1 DEF StopSteps, StopAdvertisingSkip, StopAdvertisingRequest, StopAdvertisingWait, DisconnectLink,
           DisconnectDone, DisconnectTimeout, TeardownHid, TeardownHost, AfterCallback, Advertise, Poll, TailClose,
           TailExpired, TailDone, Outside
    <2>2. CASE FinishSteps
        BY <2>2 DEF FinishSteps, FinishFail, FinishTimeout, FinishUnpair, FinishAuthRetry, FinishClose,
           FinishOpen, FinishRestart, FinishRelease, FinishForget, RemoveBondWait, ForgetBonds, Outside
    <2>3. CASE ApiHandlers
        <3>1. ASSUME NEW s1, NEW m, ReadyIfSubscribed(s1, "tail", m)
              PROVE  nvm' = nvm \/ nvm' = [nvm EXCEPT !.ccc[s1.profile.id] = IF ccc THEN "on" ELSE "off"]
            BY <3>1 DEF ReadyIfSubscribed
        <3>2. nvm' = nvm \/ ReadyIfSubscribed([AckFlags EXCEPT !.saved = TRUE, !.pairing = FALSE], "tail", Msg)
            BY <2>3 DEF ApiHandlers, HandleOpen, HandleForget, HandleSaved, HandleTap, HandleRelease, HandleClose,
               HandleDropped, Outside
        <3> QED BY <3>1, <3>2
    <2>4. CASE HandleWrite \/ HandleSuspend \/ HandleAuthOk
        <3>1. ASSUME NEW s1, ReadyIfSubscribed(s1, "after", Msg)
              PROVE  \/ nvm' = nvm
                     \/ nvm' = [nvm EXCEPT !.ccc[s1.profile.id] = IF ccc THEN "on" ELSE "off"]
            BY <3>1 DEF ReadyIfSubscribed
        <3>2. \/ nvm' = nvm
              \/ ReadyIfSubscribed(s, "after", Msg)
              \/ ReadyIfSubscribed([s EXCEPT !.suspended = Msg.flag], "after", Msg)
              \/ ReadyIfSubscribed([s EXCEPT !.encrypted = TRUE], "after", Msg)
            BY <2>4 DEF HandleWrite, HandleSuspend, HandleAuthOk
        <3> QED BY <3>1, <3>2
    <2>5. CASE HandleGate \/ HandleHidReady \/ HandlePrivacy \/ HandleWhitelist \/ HandlePeerPrivacy
                 \/ HandleAdvStarted \/ HandleConnected \/ HandleAuthFailed \/ HandleDisconnected
        <3>1. CASE HandleHidReady
            BY <3>1 DEF HandleHidReady
        <3>2. CASE UNCHANGED Outside
            BY <3>2 DEF Outside
        <3> QED BY <2>5, <3>1, <3>2 DEF HandleGate, HandlePrivacy, HandleWhitelist, HandlePeerPrivacy,
                HandleAdvStarted, HandleConnected, HandleAuthFailed, HandleDisconnected
    <2> QED BY <2>1, <2>2, <2>3, <2>4, <2>5 DEF Worker, CallbackHandlers
<1> QED BY <1>2, <1>3

\* only a host is linked, and only it has authenticated
LEMMA WorkerHosted ==
    ASSUME TypeOK, Hosted, Worker
    PROVE  Hosted'
<1>1. Steady
    BY WorkerSteady
<1>2. link'.live = TRUE => link.live = TRUE /\ link'.host = link.host
    BY <1>1 DEF Steady
<1>3. \A i \in 1..Len(queue') : queue'[i].type = "AUTH" => queue'[i].peer \in Hosts
    BY <1>1 DEF Steady, Shrinks, Hosted
<1> QED BY <1>2, <1>3 DEF Hosted

\* the message of an OPEN stays in the worker's hand, the events it posts are
\* about its session, and it takes another session only from that message
Handed ==
    Opening' => \/ Opening /\ work'.msg = work.msg /\ queue' = queue
                \/ Len(queue) > 0 /\ Len(queue') = Len(queue) - 1 /\ work'.msg = queue[1] /\ queue[1].type = "OPEN"
Posted ==
    \A i \in 1..Len(evtq') : \/ i \in 1..Len(evtq) /\ evtq'[i] = evtq[i]
                             \/ evtq'[i].session = s.session
Succeeds ==
    \/ s'.session \in {s.session, 0}
    \/ Opening /\ ~Opening' /\ s'.session = work.msg.session /\ work.msg.type = "OPEN" /\ evtq' = evtq

LEMMA StopsUnopened ==
    ASSUME NEW s1 \in WorkerType, NEW shown, NEW k, k # "open", NEW post, NEW m, BeginStop(s1, shown, k, post, m)
    PROVE  s'.session = s1.session /\ ~Opening'
<1>1. s'.session = s1.session /\ work'.k = k
    BY StopCopies
<1> QED BY <1>1 DEF Opening

LEMMA ReadyIfSubscribedOrder ==
    ASSUME TypeOK, NEW s1 \in WorkerType, s1.session = s.session, NEW post \in Calm, NEW m, ReadyIfSubscribed(s1, post, m)
    PROVE  s'.session = s.session /\ ~Opening'
<1>1. CASE s' = s1 /\ work' = [work EXCEPT !.pc = post, !.msg = m]
    BY <1>1 DEF Opening, Winding, Calm, Posts, TypeOK, WorkType
<1>2. CASE /\ s' = [(IF ccc THEN Clear(s1, {"connect", "pair"}) ELSE s1) EXCEPT !.subscribed = ccc]
           /\ work' = [work EXCEPT !.pc = post, !.msg = m]
    <2> DEFINE cleared == Clear(s1, {"connect", "pair"})
    <2>1. cleared \in WorkerType /\ cleared.session = s1.session
        BY ClearType, ClearSets
    <2>2. ccc \in BOOLEAN /\ (s' = [cleared EXCEPT !.subscribed = ccc] \/ s' = [s1 EXCEPT !.subscribed = ccc])
        BY <1>2 DEF TypeOK
    <2> HIDE DEF cleared
    <2>3. s'.session = s.session
        BY <2>1, <2>2 DEF WorkerType
    <2>4. ~Opening'
        BY <1>2 DEF Opening, Winding, Calm, Posts, TypeOK, WorkType
    <2> QED BY <2>3, <2>4
<1>3. CASE BeginStop(s1, snapshot, "fail", post, m)
    BY <1>3, StopsUnopened
<1> QED BY <1>1, <1>2, <1>3 DEF ReadyIfSubscribed

LEMMA ApiHandlersOrder ==
    ASSUME TypeOK, ApiHandlers
    PROVE  Handed /\ evtq' = evtq /\ s'.session = s.session
<1>1. PICK types \in {{"OPEN"}, {"FORGET"}, {"SAVED"}, {"TAP"}, {"RELEASE"}, {"CLOSE"}, ApiTypes \cup CallbackTypes} :
         Take(types)
    BY DEF ApiHandlers, HandleOpen, HandleForget, HandleSaved, HandleTap, HandleRelease, HandleClose, HandleDropped
<1>2. /\ work.pc = "idle" /\ s \in WorkerType /\ work \in WorkType /\ {"idle", "tail", "after"} \subseteq Calm
      /\ Len(queue) > 0 /\ Msg = queue[1] /\ Msg \in Messages /\ Msg.type \in types /\ queue' = Tail(queue)
    BY <1>1, TakeShrinks DEF Take, TypeOK, Calm, Posts
<1>3. evtq' = evtq
    BY DEF ApiHandlers, HandleOpen, HandleForget, HandleSaved, HandleTap, HandleRelease, HandleClose,
       HandleDropped, Outside, UiVars
<1>4. ASSUME NEW pc \in {"idle", "tail", "after"}, Done(pc), s' = s
      PROVE  ~Opening' /\ s'.session = s.session
    BY <1>2, <1>4 DEF Done, WorkType, Opening, Winding
<1>5. CASE HandleOpen
    <2>1. CASE Done("idle") /\ s' = s
        BY <1>3, <1>4, <2>1 DEF Handed
    <2>2. CASE BeginStop(s, snapshot, "open", "tail", Msg)
        <3>1. s'.session = s.session
            BY <1>2, <2>2, StopCopies
        <3>2. work'.msg = queue[1]
            BY <1>2, <2>2 DEF BeginStop
        <3>3. Len(queue') = Len(queue) - 1
            BY <1>2 DEF TypeOK
        <3>4. queue[1].type = "OPEN"
            BY <1>2, <1>5 DEF HandleOpen, Take, Msg
        <3> QED BY <1>2, <1>3, <3>1, <3>2, <3>3, <3>4 DEF Handed
    <2> QED BY <1>5, <2>1, <2>2 DEF HandleOpen
<1>6. CASE HandleForget \/ HandleTap \/ HandleRelease \/ HandleClose
    BY <1>2, <1>3, <1>4, <1>6, StopsUnopened DEF HandleForget, HandleTap, HandleRelease, HandleClose, Handed
<1>7. CASE HandleSaved
    <2> DEFINE s1 == [AckFlags EXCEPT !.saved = TRUE, !.pairing = FALSE]
               s2 == [AckFlags EXCEPT !.profile = Msg.remote, !.forgetting = FALSE]
    <2>1. Clear(s, {"save"}) \in WorkerType /\ Clear(s, {"save"}).session = s.session
        BY <1>2, ClearType, ClearSets
    <2>2. AckFlags \in WorkerType /\ AckFlags.session = s.session
        BY <2>1 DEF AckFlags, WorkerType
    <2>3. s1 \in WorkerType /\ s1.session = s.session
        BY <2>2 DEF WorkerType
    <2>4. s2 \in WorkerType /\ s2.session = s.session
        <3>1. Msg.remote \in Remotes
            BY <1>2 DEF Messages
        <3> QED BY <2>2, <3>1 DEF WorkerType
    <2>5. \/ BeginStop(AckFlags, snapshot, "fail", "idle", Msg)
          \/ BeginStop(s2, snapshot, IF s.pair_after THEN "restart" ELSE "unpair", "tail", Msg)
          \/ BeginStop(s1, snapshot, "restart", "tail", Msg)
          \/ ReadyIfSubscribed(s1, "tail", Msg)
        BY <1>7 DEF HandleSaved
    <2> HIDE DEF s1, s2
    <2>6. (IF s.pair_after THEN "restart" ELSE "unpair") # "open"
        OBVIOUS
    <2>7. ~Opening' /\ s'.session = s.session
        BY <1>2, <2>2, <2>3, <2>4, <2>5, <2>6, StopsUnopened, ReadyIfSubscribedOrder
    <2> QED BY <1>3, <2>7 DEF Handed
<1>8. CASE HandleDropped
    <2>1. s' = s /\ \E pc \in {"idle", "tail", "after"} : Done(pc)
        BY <1>8 DEF HandleDropped
    <2> QED BY <1>3, <1>4, <2>1 DEF Handed
<1> QED BY <1>5, <1>6, <1>7, <1>8 DEF ApiHandlers

LEMMA CallbackHandlersOrder ==
    ASSUME TypeOK, LinkInv, CallbackHandlers
    PROVE  ~Opening' /\ Posted /\ s'.session = s.session
<1>1. PICK types \in {{"ADV_DATA", "SCAN_DATA", "ADDRESS"}, {"HID_READY"}, {"PRIVACY"},
                      {"WHITELIST_CLEAR", "WHITELIST_ADD"}, {"PEER_PRIVACY"}, {"ADV_STARTED"}, {"CONNECTED"},
                      {"AUTH"}, {"DISCONNECTED"}, {"WRITE"}, {"SUSPEND"}} : TakeCallback(types)
    BY DEF CallbackHandlers, HandleGate, HandleHidReady, HandlePrivacy, HandleWhitelist, HandlePeerPrivacy,
       HandleAdvStarted, HandleConnected, HandleAuthFailed, HandleAuthOk, HandleDisconnected, HandleWrite,
       HandleSuspend
<1>2. /\ s \in WorkerType /\ Msg \in Messages /\ "after" \in Calm /\ work \in WorkType /\ Msg.remote \in Remotes
    BY <1>1, CallbackTaken DEF TypeOK, Messages
<1>3. ASSUME NEW s1 \in WorkerType, s1.session = s.session,
             \/ s' = s1 /\ Done("after")
             \/ \E op : Request(s1, op)
             \/ SetFlags(s1)
             \/ \E k \in {"fail", "restart", "release"} : BeginStop(s1, snapshot, k, "after", Msg)
             \/ ReadyIfSubscribed(s1, "after", Msg)
      PROVE  ~Opening' /\ s'.session = s.session
    <2>1. CASE s' = s1 /\ Done("after")
        BY <1>2, <1>3, <2>1 DEF Done, Opening, Winding, WorkType
    <2>2. CASE \E k \in {"fail", "restart", "release"} : BeginStop(s1, snapshot, k, "after", Msg)
        BY <1>3, <2>2, StopsUnopened
    <2>3. CASE ReadyIfSubscribed(s1, "after", Msg)
        BY <1>2, <1>3, <2>3, ReadyIfSubscribedOrder
    <2> QED BY <1>3, <2>1, <2>2, <2>3 DEF Request, SetFlags
<1>4. evtq' = evtq => Posted
    BY ProfileFacts DEF Posted
<1>5. CASE HandleGate \/ HandleHidReady
    <2>1. work'.pc = "after" /\ evtq' = evtq
        BY <1>2, <1>5 DEF HandleGate, HandleHidReady, Done, WorkType, Outside, UiVars
    <2>2. PICK ready : s' = [s EXCEPT !.ready = ready]
        BY <1>5 DEF HandleGate, HandleHidReady
    <2>3. s'.session = s.session
        BY <1>2, <2>2 DEF WorkerType
    <2> QED BY <1>4, <2>1, <2>3 DEF Opening, Winding
<1>6. CASE HandlePrivacy \/ HandleWhitelist \/ HandlePeerPrivacy
    <2>1. evtq' = evtq
        BY <1>6 DEF HandlePrivacy, HandleWhitelist, HandlePeerPrivacy, Outside, UiVars
    <2>2. PICK s1 : (SetFlags(s1) \/ \E op : Request(s1, op)) /\ s1 \in WorkerType /\ s1.session = s.session
        <3>1. /\ [s EXCEPT !.phase = "preparing"] \in WorkerType
              /\ [s EXCEPT !.phase = "preparing"].session = s.session
            BY <1>2 DEF WorkerType, ReadyFlags
        <3>2. /\ [s EXCEPT !.phase = "ready", !.ready = @ \cup {"privacy"}] \in WorkerType
              /\ [s EXCEPT !.phase = "ready", !.ready = @ \cup {"privacy"}].session = s.session
            BY <1>2 DEF WorkerType, ReadyFlags
        <3>3. /\ [s EXCEPT !.ready = @ \cup {"whitelist"}] \in WorkerType
              /\ [s EXCEPT !.ready = @ \cup {"whitelist"}].session = s.session
            BY <1>2 DEF WorkerType, ReadyFlags
        <3>4. /\ [s EXCEPT !.ready = @ \cup {"whitelist", "privacy"}, !.phase = "ready"] \in WorkerType
              /\ [s EXCEPT !.ready = @ \cup {"whitelist", "privacy"}, !.phase = "ready"].session = s.session
            BY <1>2 DEF WorkerType, ReadyFlags
        <3>5. /\ [s EXCEPT !.phase = "enabling"] \in WorkerType
              /\ [s EXCEPT !.phase = "enabling"].session = s.session
            BY <1>2 DEF WorkerType
        <3>6. CASE HandlePrivacy
            <4>1. \/ Request([s EXCEPT !.phase = "preparing"], Op("wl_clear"))
                  \/ SetFlags([s EXCEPT !.phase = "ready", !.ready = @ \cup {"privacy"}])
                  \/ SetFlags(s)
                BY <3>6 DEF HandlePrivacy
            <4> QED BY <1>2, <3>1, <3>2, <4>1
        <3>7. CASE HandleWhitelist
            <4>1. Msg.ok \in BOOLEAN /\ Msg.type \in {"WHITELIST_CLEAR", "WHITELIST_ADD"} /\ s.pairing \in BOOLEAN
                BY <1>2, <3>7 DEF HandleWhitelist, TakeCallback, Take, Msg, Messages, WorkerType
            <4>2. \/ SetFlags(s)
                  \/ Request(s, <<"wl_add", s.profile.peer>>)
                  \/ Request([s EXCEPT !.ready = @ \cup {"whitelist"}], Op("peer_privacy"))
                  \/ SetFlags([s EXCEPT !.ready = @ \cup {"whitelist", "privacy"}, !.phase = "ready"])
                BY <3>7, <4>1 DEF HandleWhitelist
            <4> QED BY <1>2, <3>3, <3>4, <4>2
        <3>8. CASE HandlePeerPrivacy
            <4>1. Request([s EXCEPT !.phase = "enabling"], Op("privacy_on")) \/ SetFlags(s)
                BY <3>8 DEF HandlePeerPrivacy
            <4> QED BY <1>2, <3>5, <4>1
        <3> QED BY <1>6, <3>6, <3>7, <3>8
    <2> QED BY <1>3, <1>4, <2>1, <2>2
<1>7. CASE HandleAdvStarted \/ HandleConnected
    <2> DEFINE armed == Arm(s, "connect")
    <2>1. evtq' = evtq /\ Done("after")
        BY <1>7 DEF HandleAdvStarted, HandleConnected, Outside, UiVars
    <2>2. Clear(s, {"start"}) \in WorkerType /\ Clear(s, {"start"}).session = s.session
        BY <1>2, ClearType, ClearSets
    <2>3. armed \in WorkerType /\ armed.session = s.session
        BY <1>2, ArmType, ArmSets DEF Deadlines
    <2>4. \/ s' = s \/ s' = Clear(s, {"start"})
          \/ s' = [armed EXCEPT !.connected = TRUE, !.advertising = FALSE]
        BY <1>7 DEF HandleAdvStarted, HandleConnected, Advertised
    <2> HIDE DEF armed
    <2>5. s' \in WorkerType /\ s'.session = s.session
        <3>1. CASE s' = s \/ s' = Clear(s, {"start"})
            BY <1>2, <2>2, <3>1
        <3>2. CASE s' = [armed EXCEPT !.connected = TRUE, !.advertising = FALSE]
            BY <2>3, <3>2 DEF WorkerType
        <3> QED BY <2>4, <3>1, <3>2
    <2>6. ~Opening'
        BY <1>2, <2>1 DEF Done, Opening, Winding, WorkType
    <2> QED BY <1>4, <2>1, <2>5, <2>6
<1>8. CASE HandleAuthFailed
    <2>1. evtq' = evtq
        BY <1>8 DEF HandleAuthFailed, Outside, UiVars
    <2>2. CASE s.pairing
        <3>1. s' = [s EXCEPT !.encrypted = FALSE, !.subscribed = FALSE] /\ work'.k = "auth_retry"
            BY <1>8, <2>2 DEF HandleAuthFailed
        <3>2. s'.session = s.session
            BY <1>2, <3>1 DEF WorkerType
        <3> QED BY <1>4, <2>1, <3>1, <3>2 DEF Opening
    <2>3. CASE ~s.pairing
        BY <1>2, <1>3, <1>4, <1>8, <2>1, <2>3 DEF HandleAuthFailed
    <2> QED BY <2>2, <2>3
<1>9. CASE HandleAuthOk
    <2> DEFINE peered == [s EXCEPT !.encrypted = TRUE, !.profile.peer = Msg.peer]
    <2>1. peered \in WorkerType /\ peered.session = s.session
        <3>1. Msg.peer \in Peers /\ s.profile \in Remotes
            BY <1>2 DEF Messages, WorkerType
        <3>2. [s.profile EXCEPT !.peer = Msg.peer] \in Remotes
            BY <3>1 DEF Remotes
        <3> QED BY <1>2, <3>2 DEF WorkerType
    <2>2. [s EXCEPT !.encrypted = TRUE] \in WorkerType /\ [s EXCEPT !.encrypted = TRUE].session = s.session
        BY <1>2 DEF WorkerType
    <2>3. \/ BeginStop(s, snapshot, "fail", "after", Msg) /\ evtq' = evtq
          \/ s' = AwaitingSave(peered) /\ Done("after") /\ PostPeer(s, Msg.peer)
          \/ ReadyIfSubscribed([s EXCEPT !.encrypted = TRUE], "after", Msg) /\ evtq' = evtq
        BY <1>9 DEF HandleAuthOk
    <2> HIDE DEF peered
    <2>4. CASE s' = AwaitingSave(peered) /\ Done("after") /\ PostPeer(s, Msg.peer)
        <3>1. AwaitingSave(peered) \in WorkerType /\ AwaitingSave(peered).session = peered.session
            BY <2>1, AwaitingSaveType DEF AwaitingSave, Arm, WorkerType
        <3>2. Posted
            <4>1. evtq \in Seq(Events) /\ Len(evtq) \in Nat
                BY ProfileFacts
            <4>2. CASE evtq' = evtq
                BY <1>4, <4>2
            <4>3. CASE evtq' = Append(evtq, [session |-> s.session, peer |-> Msg.peer])
                <5>1. Len(evtq') = Len(evtq) + 1 /\ evtq'[Len(evtq')] = [session |-> s.session, peer |-> Msg.peer]
                    BY <4>1, <4>3
                <5>2. \A i \in 1..Len(evtq) : evtq'[i] = evtq[i]
                    BY <4>1, <4>3
                <5> QED BY <4>1, <5>1, <5>2 DEF Posted
            <4> QED BY <2>4, <4>2, <4>3 DEF PostPeer
        <3> QED BY <1>3, <2>1, <2>4, <3>1, <3>2
    <2>5. CASE ReadyIfSubscribed([s EXCEPT !.encrypted = TRUE], "after", Msg) /\ evtq' = evtq
        BY <1>3, <1>4, <2>2, <2>5
    <2> QED BY <1>2, <1>3, <1>4, <2>3, <2>4, <2>5
<1>10. CASE HandleDisconnected
    <2> DEFINE gone == Unlinked(s)
               cleared == Clear(gone, {"connect"})
               lost == [cleared EXCEPT !.suspended = FALSE]
    <2>1. gone \in WorkerType /\ gone.session = s.session
        BY <1>2, UnlinkedType, UnlinkedSets
    <2>2. \/ Done("after") /\ s' = s
          \/ BeginStop(lost, snapshot, "restart", "after", Msg)
          \/ s' = lost /\ Done("after")
        <3>1. s.connected \in BOOLEAN /\ s.saved \in BOOLEAN
            BY <1>2 DEF WorkerType
        <3> QED BY <1>10, <3>1 DEF HandleDisconnected
    <2> HIDE DEF gone
    <2>3. cleared \in WorkerType /\ cleared.session = s.session
        BY <2>1, ClearType, ClearSets
    <2> HIDE DEF cleared
    <2>4. lost \in WorkerType /\ lost.session = s.session
        BY <2>3 DEF WorkerType
    <2>5. evtq' = evtq
        BY <1>10 DEF HandleDisconnected, Outside, UiVars
    <2> HIDE DEF lost
    <2> QED BY <1>2, <1>3, <1>4, <2>2, <2>4, <2>5
<1>11. CASE HandleWrite \/ HandleSuspend
    <2>1. [s EXCEPT !.suspended = Msg.flag] \in WorkerType /\ [s EXCEPT !.suspended = Msg.flag].session = s.session
        BY <1>2 DEF WorkerType, Messages
    <2>2. evtq' = evtq
        BY <1>11 DEF HandleWrite, HandleSuspend, UiVars
    <2>3. \/ ReadyIfSubscribed(s, "after", Msg)
          \/ ReadyIfSubscribed([s EXCEPT !.suspended = Msg.flag], "after", Msg)
          \/ BeginStop(s, snapshot, "release", "after", Msg)
        BY <1>11 DEF HandleWrite, HandleSuspend
    <2> QED BY <1>2, <1>3, <1>4, <2>1, <2>2, <2>3
<1> QED BY <1>5, <1>6, <1>7, <1>8, <1>9, <1>10, <1>11 DEF CallbackHandlers

LEMMA RestartOrder ==
    ASSUME TypeOK, NEW s1 \in WorkerType, RestartWith(s1)
    PROVE  s'.session = s1.session /\ ~Opening'
<1> DEFINE up == StackUp(s1)
<1>1. up \in WorkerType /\ up.session = s1.session
    BY StackUpCopies
<1>2. CASE StartStackFails(s1, work.post, work.msg)
    BY <1>2, StartFailsCopies DEF Opening
<1>3. CASE \E s2 \in {up, s1} : BeginStop(s2, snapshot, "fail", work.post, work.msg)
    BY <1>1, <1>3, StopsUnopened
<1>4. CASE /\ s' = [up EXCEPT !.layers = Layers,
                              !.pairing = s1.profile.peer = NoPeer,
                              !.saved = s1.profile.peer # NoPeer,
                              !.awaiting_save = FALSE, !.forgetting = FALSE, !.suspended = FALSE,
                              !.phase = "resetting"]
           /\ work' = [work EXCEPT !.pc = work.post, !.msg = work.msg]
    <2>1. s'.session = up.session
        <3> HIDE DEF up
        <3> QED BY <1>1, <1>4 DEF WorkerType
    <2>2. ~Opening'
        BY <1>4 DEF Opening, Winding, TypeOK, WorkType, Posts
    <2> QED BY <1>1, <2>1, <2>2
<1> QED BY <1>2, <1>3, <1>4 DEF RestartWith, StartRuntime

LEMMA FinishStepsOrder ==
    ASSUME TypeOK, BondInv, FinishSteps
    PROVE  ~Opening' /\ Posted /\ Succeeds
<1>1. s \in WorkerType /\ work \in WorkType /\ work.post \in Posts
    BY DEF TypeOK, WorkType
<1>2. evtq' = evtq => Posted
    BY ProfileFacts DEF Posted
<1>3. Goto(work.post) \/ Goto("bond_wait") => ~Opening'
    BY <1>1 DEF Goto, WorkType, Posts, Opening, Winding
<1>4. CASE FinishFail \/ FinishTimeout \/ FinishUnpair \/ FinishClose \/ FinishAuthRetry
    <2>1. evtq' = evtq /\ Goto(work.post) /\ (s' = s \/ s' = [s EXCEPT !.session = 0])
        BY <1>4 DEF FinishFail, FinishTimeout, FinishUnpair, FinishClose, FinishAuthRetry, Outside, UiVars
    <2>2. s'.session \in {s.session, 0}
        BY <1>1, <2>1 DEF WorkerType
    <2> QED BY <1>2, <1>3, <2>1, <2>2 DEF Succeeds
<1>5. CASE FinishOpen
    <2> DEFINE s1 == [s EXCEPT !.session = work.msg.session, !.profile = work.msg.remote]
    <2>1. Opening /\ evtq' = evtq /\ RestartWith(s1)
        BY <1>5 DEF FinishOpen, Resume, Opening, UiVars
    <2>2. s1 \in WorkerType /\ s1.session = work.msg.session
        BY <1>1 DEF WorkerType, WorkType, Messages
    <2> HIDE DEF s1
    <2>3. work.msg.type = "OPEN"
        BY <2>1 DEF BondInv, Opened
    <2> QED BY <1>2, <2>1, <2>2, <2>3, RestartOrder DEF Succeeds
<1>6. CASE FinishRestart \/ FinishRelease
    <2>1. evtq' = evtq /\ (RestartWith(s) \/ (s' = s /\ Goto(work.post)))
        BY <1>6 DEF FinishRestart, FinishRelease, UiVars
    <2> QED BY <1>1, <1>2, <1>3, <2>1, RestartOrder DEF Succeeds
<1>7. ASSUME NEW s1 \in WorkerType, s1.session = s.session, ForgetBonds(s1)
      PROVE  ~Opening' /\ Posted /\ Succeeds
    <2>1. s'.session = s.session /\ EventsKept
        BY <1>7, ForgetBondsCopies
    <2>2. ~Opening'
        BY <1>7, ForgetBondsCopies DEF Opening, Winding, Calm, Posts
    <2> QED BY <2>1, <2>2 DEF EventsKept, Posted, Succeeds
<1>8. CASE FinishForget
    <2> DEFINE up == StackUp(s)
    <2>1. up \in WorkerType /\ up.session = s.session
        BY <1>1, StackUpCopies
    <2>2. \/ BeginStop(s, snapshot, "fail", work.post, work.msg) /\ evtq' = evtq
          \/ StartStackFails(s, work.post, work.msg) /\ evtq' = evtq
          \/ ForgetBonds(up)
          \/ s' = up /\ Goto("bond_wait") /\ evtq' = evtq
        BY <1>8 DEF FinishForget
    <2> HIDE DEF up
    <2>3. CASE StartStackFails(s, work.post, work.msg) /\ evtq' = evtq
        BY <1>1, <1>2, <2>3, StartFailsCopies DEF Opening, Succeeds
    <2>4. CASE BeginStop(s, snapshot, "fail", work.post, work.msg) /\ evtq' = evtq
        BY <1>1, <1>2, <2>4, StopsUnopened DEF Succeeds
    <2> QED BY <1>2, <1>3, <1>7, <2>1, <2>2, <2>3, <2>4 DEF Succeeds
<1>9. CASE RemoveBondWait
    <2>1. \/ ForgetBonds(s)
          \/ BeginStop(s, snapshot, "fail", work.post, work.msg) /\ evtq' = evtq
        BY <1>9 DEF RemoveBondWait
    <2> QED BY <1>1, <1>2, <1>7, <2>1, StopsUnopened DEF Succeeds
<1> QED BY <1>4, <1>5, <1>6, <1>8, <1>9 DEF FinishSteps

\* sessions stay in order under every step of the worker
LEMMA WorkerOrder ==
    ASSUME TypeOK, LinkInv, BondInv, OrderInv, Worker
    PROVE  OrderInv'
<1>1. Steady /\ s \in WorkerType /\ work \in WorkType
    BY WorkerSteady DEF TypeOK
<1>2. evtq' = evtq => Posted
    BY ProfileFacts DEF Posted
<1>3. CASE StopSteps
    <2>1. evtq' = evtq /\ queue' = queue
        BY <1>3 DEF StopSteps, StopAdvertisingSkip, StopAdvertisingRequest, StopAdvertisingWait, DisconnectLink,
           DisconnectDone, DisconnectTimeout, TeardownHid, TeardownHost, Outside, UiVars
    <2>2. /\ work.pc \in StopPlaces /\ work'.k = work.k /\ work'.msg = work.msg /\ s'.session = s.session
        BY <1>3, StopShape
    <2>3. Opening' => Opening
        BY <2>2 DEF Opening, Winding, StopPlaces
    <2>4. Handed /\ Posted /\ Succeeds
        BY <1>2, <2>1, <2>2, <2>3 DEF Handed, Succeeds
    <2> QED BY <1>1, <2>4, OrderWorker DEF Steady, Handed, Posted, Succeeds
<1>4. CASE FinishSteps
    <2>1. Handed /\ Posted /\ Succeeds
        BY <1>4, FinishStepsOrder DEF Handed
    <2> QED BY <1>1, <2>1, OrderWorker DEF Steady, Handed, Posted, Succeeds
<1>5. CASE ApiHandlers
    <2>1. Handed /\ Posted /\ Succeeds
        BY <1>2, <1>5, ApiHandlersOrder DEF Succeeds
    <2> QED BY <1>1, <2>1, OrderWorker DEF Steady, Handed, Posted, Succeeds
<1>6. CASE CallbackHandlers
    <2>1. Handed /\ Posted /\ Succeeds
        BY <1>6, CallbackHandlersOrder DEF Handed, Succeeds
    <2> QED BY <1>1, <2>1, OrderWorker DEF Steady, Handed, Posted, Succeeds
<1>7. CASE AfterCallback \/ Advertise \/ Poll \/ TailClose \/ TailExpired \/ TailDone
    <2>1. evtq' = evtq
        BY <1>7 DEF AfterCallback, Advertise, Poll, TailClose, TailExpired, TailDone, Outside, UiVars
    <2>2. work.pc \in Posts
        BY <1>7 DEF AfterCallback, Advertise, Poll, TailClose, TailExpired, TailDone, Posts
    <2>3. CASE \E k \in {"fail", "timeout", "close"} : \E post, m : BeginStop(s, snapshot, k, post, m)
        <3>1. Handed /\ Posted /\ Succeeds
            BY <1>1, <1>2, <2>1, <2>3, StopsUnopened DEF Handed, Succeeds
        <3> QED BY <1>1, <3>1, OrderWorker DEF Steady, Handed, Posted, Succeeds
    <2>4. CASE ~\E k \in {"fail", "timeout", "close"} : \E post, m : BeginStop(s, snapshot, k, post, m)
        <3>1. work'.pc \in Posts
            BY <1>1, <1>7, <2>4 DEF AfterCallback, Advertise, Poll, TailClose, TailExpired, TailDone, Goto, Posts, WorkType
        <3>2. s' = s \/ s' = [s EXCEPT !.advertising = TRUE, !.deadlines = IF s.pairing THEN @ \cup {"pair"} ELSE @]
            BY <1>7, <2>4 DEF AfterCallback, Advertise, Poll, TailClose, TailExpired, TailDone
        <3>3. s'.session = s.session
            BY <1>1, <3>2 DEF WorkerType
        <3>4. Handed /\ Posted /\ Succeeds
            BY <1>2, <2>1, <3>1, <3>3 DEF Handed, Opening, Winding, Posts, Succeeds
        <3> QED BY <1>1, <3>4, OrderWorker DEF Steady, Handed, Posted, Succeeds
    <2> QED BY <2>3, <2>4
<1> QED BY <1>3, <1>4, <1>5, <1>6, <1>7 DEF Worker

\* what KeptInv says of the worker, beside the order of sessions
ServeInv == SaveInv /\ Guarded /\ Consistent /\ Proven

\* questions and answers go, or others than answers come
LEMMA AskedKept ==
    ASSUME s'.session = s.session, s'.profile = s.profile, nvm'.peer = nvm.peer,
           NEW d \in {0, 1}, NEW e \in {0, 1},
           \A i \in 1..Len(queue') : queue'[i].type = "SAVED" => i + d \in 1..Len(queue) /\ queue'[i] = queue[i + d],
           \A i \in 1..Len(evtq') : i + e \in 1..Len(evtq) /\ evtq'[i] = evtq[i + e]
    PROVE  /\ Agreed => Agreed'
           /\ Sole => Sole'
           /\ NoneAsked => NoneAsked'
           /\ Durably' <=> Durably
<1>1. \A i : Asked(i)' => i \in 1..Len(evtq') /\ Asked(i + e) /\ evtq'[i] = evtq[i + e]
    BY DEF Asked
<1>2. \A i : Answered(i)' => i \in 1..Len(queue') /\ Answered(i + d) /\ queue'[i] = queue[i + d]
    BY DEF Answered
<1>3. \A i : Assured(i)' => i \in 1..Len(queue') /\ Assured(i + d) /\ queue'[i] = queue[i + d]
    BY <1>2 DEF Assured
<1>4. Durably' <=> Durably
    BY DEF Durably
<1>5. ASSUME Agreed PROVE Agreed'
    <2>1. \A i \in 1..Len(evtq') : Asked(i)' => evtq'[i].peer = s'.profile.peer /\ s'.profile.peer # NoPeer
        BY <1>1, <1>5 DEF Agreed, Asked
    <2>2. \A i \in 1..Len(queue') : Assured(i)' => s'.profile.peer # NoPeer /\ Durably'
        BY <1>3, <1>4, <1>5 DEF Agreed, Assured, Answered
    <2> QED BY <2>1, <2>2 DEF Agreed
<1>6. ASSUME Sole PROVE Sole'
    <2>1. ASSUME NEW i \in 1..Len(evtq'), Asked(i)'
          PROVE  /\ evtq'[i].peer = NoPeer
                 /\ \A j \in 1..Len(evtq') : Asked(j)' => j = i
                 /\ \A j \in 1..Len(queue') : ~Answered(j)'
        <3>1. i + e \in 1..Len(evtq) /\ Asked(i + e) /\ evtq'[i] = evtq[i + e]
            BY <1>1, <2>1 DEF Asked
        <3>2. ASSUME NEW j \in 1..Len(evtq'), Asked(j)'
              PROVE  j = i
            <4>1. j + e \in 1..Len(evtq) /\ Asked(j + e)
                BY <1>1, <3>2 DEF Asked
            <4>2. j + e = i + e
                BY <1>6, <3>1, <4>1 DEF Sole
            <4> QED BY <4>2
        <3>3. \A j \in 1..Len(queue') : ~Answered(j)'
            BY <1>2, <1>6, <3>1 DEF Sole, Answered
        <3>4. evtq[i + e].peer = NoPeer
            BY <1>6, <3>1 DEF Sole
        <3> QED BY <3>1, <3>2, <3>3, <3>4
    <2>2. ASSUME NEW i \in 1..Len(queue'), Answered(i)', NEW j \in 1..Len(queue'), Answered(j)'
          PROVE  j = i
        <3>1. i + d \in 1..Len(queue) /\ Answered(i + d) /\ j + d \in 1..Len(queue) /\ Answered(j + d)
            BY <1>2, <2>2 DEF Answered
        <3>2. j + d = i + d
            BY <1>6, <3>1 DEF Sole
        <3> QED BY <3>2
    <2>3. \A i \in 1..Len(queue') : Assured(i)' =>
             queue'[i].remote.id = s'.profile.id /\ queue'[i].remote.peer = NoPeer /\ nvm'.peer[s'.profile.id] = NoPeer
        BY <1>3, <1>6 DEF Sole, Assured, Answered
    <2> QED BY <2>1, <2>2, <2>3 DEF Sole
<1>7. NoneAsked => NoneAsked'
    BY <1>1, <1>2 DEF NoneAsked, Asked, Answered
<1> QED BY <1>4, <1>5, <1>6, <1>7

\* a step of the worker that asks nothing
LEMMA WorkerAsked ==
    ASSUME TypeOK, Shrinks, evtq' = evtq, s'.session = s.session, s'.profile = s.profile, nvm'.peer = nvm.peer
    PROVE  /\ Agreed => Agreed'
           /\ Sole => Sole'
           /\ NoneAsked => NoneAsked'
           /\ Durably' <=> Durably
<1>1. PICK d \in {0, 1} : \A i \in 1..Len(queue') : i + d \in 1..Len(queue) /\ queue'[i] = queue[i + d]
    BY DEF Shrinks
<1>2. \A i \in 1..Len(evtq') : i + 0 \in 1..Len(evtq) /\ evtq'[i] = evtq[i + 0]
    BY ProfileFacts
<1> DEFINE e == 0
<1>3. \A i \in 1..Len(evtq') : i + e \in 1..Len(evtq) /\ evtq'[i] = evtq[i + e]
    BY <1>2
<1>4. e \in {0, 1}
    OBVIOUS
<1> HIDE DEF e
<1> QED BY <1>1, <1>3, <1>4, AskedKept

-----------------------------------------------------------------------------
(* Successes that are queued                                                 *)

LEMMA GrantedShrinks ==
    ASSUME TypeOK, Shrinks, s'.generation = s.generation
    PROVE  \E d \in {0, 1} : \A i \in 1..Len(queue') :
              /\ i + d \in 1..Len(queue) /\ queue'[i] = queue[i + d]
              /\ Granted(i)' => Granted(i + d)
              /\ Latest(i)' => Latest(i + d)
<1>1. PICK d \in {0, 1} :
         /\ Len(queue') = Len(queue) - d
         /\ \A k \in 1..Len(queue') : k + d \in 1..Len(queue) /\ queue'[k] = queue[k + d]
         /\ \A k, type : Queued(k, type)' => k \in 1..Len(queue') /\ Queued(k + d, type)
    BY ShrinksQueued
<1>2. Len(queue) \in Nat /\ Len(queue') \in Nat
    BY <1>1, QueueFacts DEF TypeOK, Shrinks
<1>3. ASSUME NEW i \in 1..Len(queue'), Latest(i)'
      PROVE  Latest(i + d)
    <2>1. Queued(i + d, "AUTH") /\ queue[i + d].ok = TRUE
        BY <1>1, <1>3 DEF Latest
    <2>2. ASSUME NEW j \in 1..Len(queue), i + d < j, Queued(j, "CONNECTED")
          PROVE  FALSE
        <3>1. j - d \in 1..Len(queue') /\ i < j - d /\ (j - d) + d = j
            BY <1>1, <1>2, <2>2
        <3>2. queue'[j - d] = queue[j]
            BY <1>1, <3>1
        <3>3. Queued(j - d, "CONNECTED")'
            BY <2>2, <3>1, <3>2 DEF Queued
        <3> QED BY <1>3, <3>1, <3>3 DEF Latest
    <2> QED BY <2>1, <2>2 DEF Latest
<1>4. \A i \in 1..Len(queue') : Granted(i)' => Granted(i + d)
    BY <1>1 DEF Granted
<1> QED BY <1>1, <1>3, <1>4

LEMMA ConsistentShrinks ==
    ASSUME TypeOK, Consistent, Shrinks, s'.generation = s.generation, Running' => Running
    PROVE  Consistent'
<1>1. PICK d \in {0, 1} : \A i \in 1..Len(queue') :
         /\ i + d \in 1..Len(queue) /\ queue'[i] = queue[i + d]
         /\ Latest(i)' => Latest(i + d)
    BY GrantedShrinks
<1> SUFFICES ASSUME Running', NEW i \in 1..Len(queue'), NEW j \in 1..Len(queue'), Latest(i)', Latest(j)'
             PROVE  queue'[i].peer = queue'[j].peer
    BY DEF Consistent
<1>2. /\ i + d \in 1..Len(queue) /\ queue'[i] = queue[i + d] /\ Latest(i + d)
      /\ j + d \in 1..Len(queue) /\ queue'[j] = queue[j + d] /\ Latest(j + d)
    BY <1>1
<1> QED BY <1>2 DEF Consistent

LEMMA GrantedGrows ==
    ASSUME TypeOK, Consistent, Proven, NEW type, type # "AUTH", Grows(type),
           s'.generation = s.generation, s'.layers = s.layers, s'.connected = s.connected,
           s'.encrypted = s.encrypted, s'.profile = s.profile, work' = work
    PROVE  Consistent' /\ Proven'
<1>1. Running' = Running
    BY DEF Running, HostOn, Winding
<1>2. /\ Len(queue) \in Nat /\ Len(queue') \in {Len(queue), Len(queue) + 1}
      /\ \A j \in 1..Len(queue) : j \in 1..Len(queue') /\ queue'[j] = queue[j]
      /\ Len(queue') # Len(queue) => queue'[Len(queue')].type = type
    BY QueueFacts DEF Grows
<1>3. \A i, t : Queued(i, t) => Queued(i, t)'
    BY <1>2 DEF Queued
<1>4. \A i : Queued(i, "AUTH")' => i \in 1..Len(queue) /\ Queued(i, "AUTH") /\ queue'[i] = queue[i]
    BY <1>2 DEF Queued
<1>5. \A i \in 1..Len(queue') : Granted(i)' => i \in 1..Len(queue) /\ Granted(i) /\ queue'[i] = queue[i]
    BY <1>4 DEF Granted
<1>6. \A i \in 1..Len(queue') : Latest(i)' => i \in 1..Len(queue) /\ Latest(i) /\ queue'[i] = queue[i]
    BY <1>2, <1>3, <1>4 DEF Latest
<1>7. Consistent'
    BY <1>1, <1>6 DEF Consistent
<1>8. Proven'
    BY <1>1, <1>5 DEF Proven
<1> QED BY <1>7, <1>8

\* nothing is queued for a generation that begins
LEMMA FreshConsistent ==
    ASSUME TypeOK, LinkInv, queue' = queue, s'.generation = s.generation + 1
    PROVE  Consistent' /\ \A i : ~Granted(i)'
<1>1. \A i \in 1..Len(queue) : queue[i].generation <= s.generation /\ queue[i].generation \in Nat /\ s.generation \in Nat
    BY QueueFacts DEF LinkInv, Stamped, TypeOK, WorkerType
<1>2. \A i, type : ~Queued(i, type)'
    BY <1>1 DEF Queued
<1> QED BY <1>2 DEF Consistent, Latest, Granted

-----------------------------------------------------------------------------
(* A handler stops the runtime                                               *)

LEMMA StopKept ==
    ASSUME NEW s1 \in WorkerType, s1.subscribed = TRUE => s1.connected = TRUE /\ s1.saved = TRUE,
           NEW shown, NEW k, k # "auth_retry", NEW post, NEW m, BeginStop(s1, shown, k, post, m),
           k \in {"restart", "release"} => Agreed' /\ Durably', k = "forget" => NoneAsked'
    PROVE  ServeInv'
<1>1. s' = [s1 EXCEPT !.deadlines = {}, !.due = {}, !.awaiting_save = FALSE, !.forgetting = FALSE]
    BY DEF BeginStop, StoppedFlags
<1>2. /\ s'.awaiting_save = FALSE /\ s'.forgetting = FALSE /\ s'.connected = s1.connected
      /\ s'.subscribed = s1.subscribed /\ s'.saved = s1.saved
    BY <1>1 DEF WorkerType
<1>3. work'.pc = "stop_adv" /\ work'.k = k
    BY DEF BeginStop
<1>4. Winding' /\ ~Running' /\ work'.pc \notin Calm
    BY <1>3 DEF Calm, Posts, Running, Winding
<1>5. SaveInv'
    BY <1>3, <1>4 DEF SaveInv, Serving, Clearing, Unasking, Pausing
<1>6. Guarded'
    BY <1>2, <1>3, <1>4 DEF Guarded, Sound
<1>7. Consistent' /\ Proven'
    BY <1>4 DEF Consistent, Proven
<1> QED BY <1>5, <1>6, <1>7 DEF ServeInv

\* a stop that asks for nothing more of the profile
LEMMA EndsKept ==
    ASSUME NEW s1 \in WorkerType, s1.subscribed = TRUE => s1.connected = TRUE /\ s1.saved = TRUE,
           NEW shown, NEW k, k \notin {"auth_retry", "restart", "release", "forget"}, NEW post, NEW m,
           BeginStop(s1, shown, k, post, m)
    PROVE  ServeInv'
BY StopKept

\* a stop that serves the same profile again
LEMMA PausesKept ==
    ASSUME TypeOK, ServeInv, Shrinks, evtq' = evtq, nvm'.peer = nvm.peer, Serving, s.awaiting_save = FALSE,
           NEW s1 \in WorkerType, s1.session = s.session, s1.profile = s.profile,
           s1.subscribed = TRUE => s1.connected = TRUE /\ s1.saved = TRUE,
           NEW shown, NEW k \in {"restart", "release"}, NEW post, NEW m, BeginStop(s1, shown, k, post, m)
    PROVE  ServeInv'
<1>1. s'.session = s.session /\ s'.profile = s.profile
    BY StopCopies
<1>2. Agreed' /\ Durably'
    BY <1>1, WorkerAsked DEF ServeInv, SaveInv
<1> QED BY <1>2, StopKept

-----------------------------------------------------------------------------
(* A handler goes on                                                         *)

\* between handlers, and while a failed pairing attempt loses its link
Tends == work.pc \in Posts \/ (work.k = "auth_retry" /\ work.pc \in {"disconnect", "link_wait", "resume"})

\* a copy of the worker's state that a handler works on
Keeps(s1) ==
    /\ s1 \in WorkerType /\ s1.session = s.session /\ s1.generation = s.generation /\ s1.profile = s.profile
    /\ s1.store = s.store /\ s1.layers = s.layers /\ s1.forgetting = s.forgetting
    /\ Sound(s1)
    /\ s1.awaiting_save = TRUE => HostOn(s)
    /\ HostOn(s) /\ s.forgetting = FALSE => (s1.awaiting_save = FALSE => Durably) /\ Settles(s1)
    /\ HostOn(s) /\ s1.connected = TRUE /\ s1.encrypted = TRUE =>
          \A i \in 1..Len(queue) : Granted(i) => queue[i].peer = s.profile.peer

LEMMA TendsFacts ==
    ASSUME Tends
    PROVE  /\ ~Winding /\ work.pc # "bond_wait" /\ ~Unasking
           /\ Running <=> HostOn(s)
           /\ Serving <=> Running /\ s.forgetting = FALSE
           /\ Clearing <=> HostOn(s) /\ s.forgetting = TRUE
<1>1. ~Winding /\ work.pc # "bond_wait"
    BY DEF Tends, Winding, Posts
<1>2. work.pc = "resume" => work.k = "auth_retry"
    BY DEF Tends, Posts
<1>3. ~Pausing({"restart", "release"}) /\ ~Pausing({"forget"})
    BY <1>1, <1>2 DEF Pausing
<1> QED BY <1>1, <1>3 DEF Unasking, Running, Serving, Clearing

LEMMA SelfKeeps ==
    ASSUME TypeOK, ServeInv, Tends
    PROVE  Keeps(s)
<1>1. s \in WorkerType
    BY DEF TypeOK
<1>2. Sound(s) /\ (s.awaiting_save = TRUE => HostOn(s))
    BY DEF ServeInv, Guarded, Running
<1>3. HostOn(s) /\ s.forgetting = FALSE => (s.awaiting_save = FALSE => Durably) /\ Settles(s)
    BY TendsFacts DEF ServeInv, SaveInv
<1>4. HostOn(s) /\ s.connected = TRUE /\ s.encrypted = TRUE =>
          \A i \in 1..Len(queue) : Granted(i) => queue[i].peer = s.profile.peer
    BY TendsFacts DEF ServeInv, Proven
<1> QED BY <1>1, <1>2, <1>3, <1>4 DEF Keeps

LEMMA GoesKept ==
    ASSUME TypeOK, ServeInv, Tends, Tends', Shrinks, evtq' = evtq, nvm'.peer = nvm.peer, nvm'.bonds = nvm.bonds,
           Keeps(s'), work'.pc \in Calm => Attends(s'), work'.pc = "resume" => s'.connected = FALSE
    PROVE  ServeInv'
<1>1. /\ s' \in WorkerType /\ s'.session = s.session /\ s'.generation = s.generation /\ s'.profile = s.profile
      /\ s'.store = s.store /\ s'.layers = s.layers /\ s'.forgetting = s.forgetting
    BY DEF Keeps
<1>2. /\ ~Winding /\ ~Winding' /\ work'.pc # "bond_wait" /\ ~Unasking'
      /\ Running' <=> Running
      /\ Running <=> HostOn(s)
      /\ Serving' <=> Running /\ s.forgetting = FALSE
      /\ Serving <=> Running /\ s.forgetting = FALSE
      /\ Clearing' <=> Clearing
    <2>1. /\ ~Winding' /\ work'.pc # "bond_wait"
          /\ ~Pausing({"restart", "release"})' /\ ~Pausing({"forget"})'
        BY DEF Tends, Winding, Posts, Pausing
    <2>2. ~Winding /\ (Running <=> HostOn(s)) /\ (Serving <=> Running /\ s.forgetting = FALSE)
        BY TendsFacts
    <2>3. Running' <=> Running
        BY <1>1, <2>1, <2>2 DEF Running, HostOn
    <2> QED BY <1>1, <2>1, <2>2, <2>3 DEF Unasking, Serving, Clearing
<1>3. /\ Agreed => Agreed'
      /\ Sole => Sole'
      /\ Durably' <=> Durably
    BY <1>1, WorkerAsked
<1>4. Settles(s') => Settles(s)'
    BY <1>1 DEF Settles, HasBond
<1>5. SaveInv'
    BY <1>2, <1>3, <1>4 DEF ServeInv, SaveInv, Keeps
<1>6. Guarded'
    <2>1. Sound(s)' /\ (s'.awaiting_save = TRUE => Running')
        BY <1>2 DEF Keeps, Sound
    <2>2. work'.pc \in Calm => Attends(s)'
        BY DEF Attends
    <2> QED BY <1>2, <2>1, <2>2 DEF Guarded
<1>7. Consistent'
    BY <1>1, <1>2, ConsistentShrinks DEF ServeInv
<1>8. Proven'
    <2>1. PICK d \in {0, 1} : \A i \in 1..Len(queue') :
             /\ i + d \in 1..Len(queue) /\ queue'[i] = queue[i + d]
             /\ Granted(i)' => Granted(i + d)
        BY <1>1, GrantedShrinks
    <2> SUFFICES ASSUME Running', s'.connected = TRUE, s'.encrypted = TRUE, NEW i \in 1..Len(queue'), Granted(i)'
                 PROVE  queue'[i].peer = s'.profile.peer
        BY DEF Proven
    <2>2. i + d \in 1..Len(queue) /\ queue'[i] = queue[i + d] /\ Granted(i + d)
        BY <2>1
    <2> QED BY <1>1, <1>2, <2>2 DEF Keeps
<1> QED BY <1>5, <1>6, <1>7, <1>8 DEF ServeInv

\* the same of all that Keeps speaks of
SameKept(s1, s2) ==
    /\ s2 \in WorkerType /\ s2.session = s1.session /\ s2.generation = s1.generation /\ s2.profile = s1.profile
    /\ s2.store = s1.store /\ s2.layers = s1.layers /\ s2.forgetting = s1.forgetting
    /\ s2.awaiting_save = s1.awaiting_save /\ s2.advertising = s1.advertising /\ s2.connected = s1.connected
    /\ s2.encrypted = s1.encrypted /\ s2.subscribed = s1.subscribed /\ s2.saved = s1.saved /\ s2.pairing = s1.pairing

LEMMA SameKeeps ==
    ASSUME NEW s1, NEW s2, SameKept(s1, s2), Keeps(s1), Attends(s1)
    PROVE  Keeps(s2) /\ Attends(s2)
BY DEF SameKept, Keeps, Attends, Sound, Settles

LEMMA KeepsStop ==
    ASSUME NEW s1, Keeps(s1)
    PROVE  s1 \in WorkerType /\ (s1.subscribed = TRUE => s1.connected = TRUE /\ s1.saved = TRUE)
BY DEF Keeps, Sound

LEMMA DoneKept ==
    ASSUME TypeOK, ServeInv, work.pc \in Posts, work'.pc \in Posts, Shrinks, evtq' = evtq,
           nvm'.peer = nvm.peer, nvm'.bonds = nvm.bonds, s' = s
    PROVE  ServeInv'
<1>1. Tends /\ Tends' /\ work.pc \in Calm /\ work'.pc # "resume"
    BY DEF Tends, Posts, Calm
<1>2. Keeps(s) /\ Attends(s)
    BY <1>1, SelfKeeps DEF ServeInv, Guarded
<1>3. Keeps(s') /\ Attends(s')
    BY <1>2
<1> QED BY <1>1, <1>3, GoesKept

LEMMA ReadyIfSubscribedKept ==
    ASSUME TypeOK, ServeInv, work.pc \in Posts, Shrinks, evtq' = evtq, nvm'.peer = nvm.peer, nvm'.bonds = nvm.bonds,
           NEW s1, Keeps(s1), Attends(s1), NEW post \in Posts, NEW m, ReadyIfSubscribed(s1, post, m)
    PROVE  ServeInv'
<1>1. Tends /\ s1 \in WorkerType /\ ccc \in BOOLEAN
    BY DEF Tends, Keeps, TypeOK
<1>2. ASSUME work' = [work EXCEPT !.pc = post, !.msg = m], Keeps(s'), Attends(s')
      PROVE  ServeInv'
    <2>1. work'.pc = post
        BY <1>2 DEF TypeOK, WorkType
    <2>2. Tends' /\ work'.pc # "resume"
        BY <2>1 DEF Tends, Posts
    <2> QED BY <1>1, <1>2, <2>2, GoesKept
<1>3. CASE s' = s1 /\ work' = [work EXCEPT !.pc = post, !.msg = m]
    <2>1. Keeps(s') /\ Attends(s')
        BY <1>3
    <2> QED BY <1>2, <1>3, <2>1
<1>4. CASE /\ Usable(s1)
           /\ s' = [(IF ccc THEN Clear(s1, {"connect", "pair"}) ELSE s1) EXCEPT !.subscribed = ccc]
           /\ work' = [work EXCEPT !.pc = post, !.msg = m]
    <2> DEFINE cleared == Clear(s1, {"connect", "pair"})
               base == IF ccc THEN cleared ELSE s1
    <2>1. cleared \in WorkerType
        BY <1>1, ClearType
    <2>2. SameKept(s1, cleared)
        BY <1>1, <2>1 DEF SameKept, Clear, WorkerType
    <2>3. s' = [base EXCEPT !.subscribed = ccc] /\ (base = cleared \/ base = s1)
        BY <1>4
    <2> HIDE DEF cleared, base
    <2>4. Keeps(base) /\ Attends(base) /\ base.connected = s1.connected /\ base.saved = s1.saved
        BY <2>2, <2>3, SameKeeps DEF SameKept
    <2>5. s1.connected = TRUE /\ s1.saved = TRUE
        BY <1>1, <1>4 DEF Usable, WorkerType
    <2>6. base \in WorkerType
        BY <2>4 DEF Keeps
    <2>7. /\ s' \in WorkerType /\ s'.session = base.session /\ s'.generation = base.generation
          /\ s'.profile = base.profile /\ s'.store = base.store /\ s'.layers = base.layers
          /\ s'.forgetting = base.forgetting /\ s'.awaiting_save = base.awaiting_save
          /\ s'.advertising = base.advertising /\ s'.connected = base.connected /\ s'.encrypted = base.encrypted
          /\ s'.saved = base.saved /\ s'.pairing = base.pairing
        BY <1>1, <2>3, <2>6 DEF WorkerType
    <2>8. Keeps(s') /\ Attends(s')
        BY <2>4, <2>5, <2>7 DEF Keeps, Attends, Sound, Settles
    <2> QED BY <1>2, <1>4, <2>8
<1>5. CASE BeginStop(s1, snapshot, "fail", post, m)
    BY <1>5, KeepsStop, EndsKept
<1> QED BY <1>3, <1>4, <1>5 DEF ReadyIfSubscribed

\* a link to a saved profile's host is served
LEMMA LinkedServes ==
    ASSUME TypeOK, LinkInv, ServeInv, work.pc \in Posts, s.connected = TRUE
    PROVE  /\ HostOn(s) /\ s.forgetting = FALSE /\ Serving
           /\ s.saved = TRUE => s.awaiting_save = FALSE
<1>1. s \in WorkerType /\ Sound(s) /\ Tends
    BY DEF TypeOK, ServeInv, Guarded, Tends
<1>2. HostOn(s)
    BY DEF LinkInv, Aired
<1>3. s.forgetting = FALSE
    BY <1>1 DEF Sound, WorkerType
<1>4. s.saved = TRUE => s.awaiting_save = FALSE
    BY <1>1, <1>3 DEF Sound, WorkerType
<1> QED BY <1>1, <1>2, <1>3, <1>4, TendsFacts

LEMMA ApiHandlersKept ==
    ASSUME TypeOK, LinkInv, ServeInv, ApiHandlers, HandleForget => NoneAsked
    PROVE  ServeInv'
<1>1. PICK types \in {{"OPEN"}, {"FORGET"}, {"SAVED"}, {"TAP"}, {"RELEASE"}, {"CLOSE"}, ApiTypes \cup CallbackTypes} :
         Take(types)
    BY DEF ApiHandlers, HandleOpen, HandleForget, HandleSaved, HandleTap, HandleRelease, HandleClose, HandleDropped
<1>2. Shrinks /\ evtq' = evtq /\ nvm'.peer = nvm.peer /\ nvm'.bonds = nvm.bonds
    BY WorkerSteady, ApiHandlersOrder DEF Worker, Steady
<1>3. work.pc = "idle" /\ work.pc \in Posts /\ Tends /\ s \in WorkerType /\ work \in WorkType
    BY <1>1 DEF Take, Posts, Tends, TypeOK
<1>4. Len(queue) > 0 /\ Msg = queue[1] /\ Msg \in Messages /\ Msg.type \in types
    BY <1>1, TakeShrinks
<1>5. Keeps(s) /\ Attends(s)
    <2>1. work.pc \in Calm
        BY <1>3 DEF Calm
    <2> QED BY <1>3, <2>1, SelfKeeps DEF ServeInv, Guarded
<1>6. s.subscribed = TRUE => s.connected = TRUE /\ s.saved = TRUE
    BY <1>5, KeepsStop
<1>7. ASSUME NEW pc \in {"idle", "tail", "after"}, Done(pc), s' = s
      PROVE  ServeInv'
    <2>1. work'.pc = pc
        BY <1>3, <1>7 DEF Done, WorkType
    <2> QED BY <1>2, <1>3, <1>7, <2>1, DoneKept DEF Posts
<1>8. CASE HandleOpen
    BY <1>3, <1>6, <1>7, <1>8, EndsKept DEF HandleOpen
<1>9. CASE HandleForget
    <2>1. BeginStop(s, snapshot, "forget", "tail", Msg) /\ NoneAsked
        BY <1>9 DEF HandleForget
    <2>2. s'.session = s.session /\ s'.profile = s.profile
        BY <1>3, <2>1, StopCopies
    <2>3. NoneAsked'
        BY <1>2, <2>1, <2>2, WorkerAsked
    <2> QED BY <1>3, <1>6, <2>1, <2>3, StopKept
<1>10. ASSUME NEW k \in {"restart", "release"}, BeginStop(s, snapshot, k, "tail", Msg),
              s.connected = TRUE, s.saved = TRUE
       PROVE  ServeInv'
    BY <1>2, <1>3, <1>6, <1>10, LinkedServes, PausesKept
<1>11. CASE HandleTap
    <2>1. CASE Done("tail") /\ s' = s
        BY <1>7, <2>1
    <2>2. CASE InputActive /\ BeginStop(s, snapshot, "restart", "tail", Msg)
        BY <1>3, <1>10, <2>2 DEF InputActive, WorkerType
    <2> QED BY <1>11, <2>1, <2>2 DEF HandleTap
<1>12. CASE HandleRelease
    <2>1. CASE Done("tail") /\ s' = s
        BY <1>7, <2>1
    <2>2. CASE ReleaseFails /\ BeginStop(s, snapshot, "release", "tail", Msg)
        BY <1>3, <1>6, <1>10, <2>2 DEF ReleaseFails, WorkerType
    <2> QED BY <1>12, <2>1, <2>2 DEF HandleRelease
<1>13. CASE HandleClose \/ HandleDropped
    <2>1. PICK pc \in {"idle", "tail", "after"} : Done(pc)
        BY <1>13 DEF HandleClose, HandleDropped
    <2> QED BY <1>7, <1>13, <2>1 DEF HandleClose, HandleDropped
<1>14. CASE HandleSaved
    <2> DEFINE cleared == Clear(s, {"save"})
               s1 == [AckFlags EXCEPT !.saved = TRUE, !.pairing = FALSE]
               s2 == [AckFlags EXCEPT !.profile = Msg.remote, !.forgetting = FALSE]
    <2>1. Msg.type = "SAVED" /\ Msg.session = s.session /\ s.awaiting_save = TRUE
        <3>1. Take({"SAVED"}) /\ Msg.session = s.session /\ s.awaiting_save
            BY <1>14 DEF HandleSaved
        <3> QED BY <1>3, <3>1, TakeShrinks DEF WorkerType
    <2>2. 1 \in 1..Len(queue) /\ Answered(1)
        <3>1. Len(queue) \in Nat
            BY QueueFacts
        <3>2. 1 \in 1..Len(queue)
            BY <1>4, <3>1
        <3> QED BY <1>4, <2>1, <3>2 DEF Answered
    <2>3. HostOn(s)
        BY <2>1 DEF ServeInv, Guarded, Running
    <2>4. cleared \in WorkerType /\ cleared.awaiting_save \in BOOLEAN /\ AckFlags = [cleared EXCEPT !.awaiting_save = FALSE]
        <3>1. cleared \in WorkerType
            BY <1>3, ClearType
        <3> QED BY <3>1 DEF AckFlags, WorkerType
    <2>5. SameKept(s, cleared)
        BY <1>3, <2>4 DEF SameKept, Clear, WorkerType
    <2> HIDE DEF cleared
    <2>6. /\ AckFlags \in WorkerType /\ AckFlags.awaiting_save = FALSE
          /\ AckFlags.session = s.session /\ AckFlags.generation = s.generation /\ AckFlags.profile = s.profile
          /\ AckFlags.store = s.store /\ AckFlags.layers = s.layers /\ AckFlags.forgetting = s.forgetting
          /\ AckFlags.advertising = s.advertising /\ AckFlags.connected = s.connected
          /\ AckFlags.encrypted = s.encrypted /\ AckFlags.subscribed = s.subscribed /\ AckFlags.saved = s.saved
          /\ AckFlags.pairing = s.pairing
        BY <2>4, <2>5 DEF SameKept, WorkerType
    <2>7. /\ s1 \in WorkerType /\ s1.awaiting_save = FALSE /\ s1.saved = TRUE /\ s1.pairing = FALSE
          /\ s1.session = s.session /\ s1.generation = s.generation /\ s1.profile = s.profile
          /\ s1.store = s.store /\ s1.layers = s.layers /\ s1.forgetting = s.forgetting
          /\ s1.advertising = s.advertising /\ s1.connected = s.connected
          /\ s1.encrypted = s.encrypted /\ s1.subscribed = s.subscribed
        BY <2>6 DEF WorkerType
    <2>8. /\ s2 \in WorkerType /\ s2.session = s.session /\ s2.profile = Msg.remote
          /\ s2.connected = s.connected /\ s2.subscribed = s.subscribed /\ s2.saved = s.saved
        <3>1. Msg.remote \in Remotes
            BY <1>4 DEF Messages
        <3> QED BY <2>6, <3>1 DEF WorkerType
    <2> HIDE DEF s1, s2
    <2>9. CASE ~Msg.flag /\ BeginStop(AckFlags, snapshot, "fail", "idle", Msg)
        BY <1>6, <2>6, <2>9, EndsKept
    <2>10. CASE Msg.flag /\ s.forgetting /\ BeginStop(s2, snapshot, IF s.pair_after THEN "restart" ELSE "unpair", "tail", Msg)
        <3> DEFINE k == IF s.pair_after THEN "restart" ELSE "unpair"
        <3>1. Sole /\ Assured(1)
            <4>1. s.forgetting = TRUE /\ queue[1].flag = TRUE
                BY <1>3, <1>4, <2>10 DEF WorkerType, Messages
            <4> QED BY <1>3, <2>2, <2>3, <4>1, TendsFacts DEF ServeInv, SaveInv, Assured
        <3>2. k \in {"restart", "unpair"} /\ BeginStop(s2, snapshot, k, "tail", Msg)
            BY <2>10
        <3> HIDE DEF k
        <3>3. s'.session = s.session /\ s'.profile = Msg.remote
            BY <2>8, <3>2, StopCopies
        <3>4. NoneAsked'
            <4>1. \A i \in 1..Len(evtq) : ~Asked(i)
                BY <2>2, <3>1 DEF Sole
            <4>2. \A i \in 1..Len(evtq') : ~Asked(i)'
                BY <1>2, <3>3, <4>1 DEF Asked
            <4>3. \A i \in 1..Len(queue) : Answered(i) => i = 1
                BY <2>2, <3>1 DEF Sole
            <4>4. Len(queue) \in Nat /\ Len(queue') = Len(queue) - 1 /\ \A i \in 1..Len(queue') : queue'[i] = queue[i + 1]
                <5>1. queue \in Seq(Messages) /\ queue # << >> /\ queue' = Tail(queue)
                    BY <1>1 DEF Take, TypeOK
                <5> QED BY <5>1
            <4>5. ASSUME NEW i \in 1..Len(queue'), Answered(i)'
                  PROVE  FALSE
                <5>1. i + 1 \in 1..Len(queue) /\ queue'[i] = queue[i + 1]
                    BY <4>4
                <5>2. Answered(i + 1)
                    BY <3>3, <4>5, <5>1 DEF Answered
                <5> QED BY <4>3, <5>1, <5>2
            <4> QED BY <4>2, <4>5 DEF NoneAsked
        <3>5. Agreed'
            BY <3>4 DEF NoneAsked, Agreed, Assured
        <3>6. Durably'
            <4>1. Msg.remote.id = s.profile.id /\ Msg.remote.peer = NoPeer /\ nvm.peer[s.profile.id] = NoPeer
                BY <1>4, <2>2, <3>1 DEF Sole
            <4> QED BY <1>2, <3>3, <4>1 DEF Durably
        <3> QED BY <1>6, <2>8, <3>2, <3>5, <3>6, StopKept
    <2>11. ASSUME Msg.flag, ~s.forgetting
           PROVE  /\ s.forgetting = FALSE /\ Serving /\ Agreed /\ Durably /\ Settles(s)
                  /\ s.profile.peer # NoPeer /\ HasBond(s.store, s.profile.peer)
        <3>1. s.forgetting = FALSE /\ queue[1].flag = TRUE
            BY <1>3, <1>4, <2>11 DEF WorkerType, Messages
        <3>2. Serving /\ Running
            BY <1>3, <2>3, <3>1, TendsFacts
        <3>3. Agreed /\ Settles(s) /\ Assured(1)
            BY <2>2, <3>1, <3>2 DEF ServeInv, SaveInv, Assured
        <3> QED BY <2>1, <2>2, <3>1, <3>2, <3>3 DEF Agreed, Settles
    <2>12. CASE Msg.flag /\ ~s.forgetting /\ ~s.connected /\ BeginStop(s1, snapshot, "restart", "tail", Msg)
        <3>1. s'.session = s.session /\ s'.profile = s.profile
            BY <2>7, <2>12, StopCopies
        <3>2. Agreed' /\ Durably'
            BY <1>2, <2>11, <2>12, <3>1, WorkerAsked
        <3>3. s1.subscribed # TRUE
            BY <1>3, <1>6, <2>7, <2>12 DEF WorkerType
        <3>4. "restart" # "auth_retry" /\ "restart" # "forget"
            OBVIOUS
        <3>5. BeginStop(s1, snapshot, "restart", "tail", Msg) /\ s1 \in WorkerType
            BY <2>7, <2>12
        <3> QED BY <3>2, <3>3, <3>4, <3>5, StopKept
    <2>13. CASE Msg.flag /\ ~s.forgetting /\ s.connected /\ ReadyIfSubscribed(s1, "tail", Msg)
        <3>1. Keeps(s1)
            <4>1. Sound(s1)
                BY <1>6, <2>7, <2>11, <2>13 DEF Sound
            <4>2. Settles(s1)
                BY <2>7, <2>11, <2>13 DEF Settles
            <4>3. HostOn(s) /\ s1.connected = TRUE /\ s1.encrypted = TRUE =>
                     \A i \in 1..Len(queue) : Granted(i) => queue[i].peer = s.profile.peer
                BY <1>5, <2>7 DEF Keeps
            <4> QED BY <2>3, <2>7, <2>11, <2>13, <4>1, <4>2, <4>3 DEF Keeps
        <3>2. Attends(s1) /\ "tail" \in Posts
            BY <2>7 DEF Attends, Posts
        <3> QED BY <1>2, <1>3, <2>13, <3>1, <3>2, ReadyIfSubscribedKept
    <2> QED BY <1>14, <2>9, <2>10, <2>12, <2>13 DEF HandleSaved, s1, s2
<1> QED BY <1>8, <1>9, <1>11, <1>12, <1>13, <1>14 DEF ApiHandlers

-----------------------------------------------------------------------------
(* Handlers of callback messages                                             *)

\* what every handler of a callback message finds
LEMMA CallbackFinds ==
    ASSUME TypeOK, ServeInv, CallbackHandlers, NEW types, TakeCallback(types)
    PROVE  /\ Shrinks /\ nvm'.peer = nvm.peer /\ nvm'.bonds = nvm.bonds
           /\ work.pc \in Posts /\ "after" \in Posts /\ Tends /\ HostOn(s)
           /\ s \in WorkerType /\ work \in WorkType /\ Msg \in Messages /\ Msg.type \in types
           /\ Msg = queue[1] /\ 1 \in 1..Len(queue) /\ Queued(1, Msg.type)
           /\ Keeps(s) /\ Attends(s) /\ (s.subscribed = TRUE => s.connected = TRUE /\ s.saved = TRUE)
<1>1. Shrinks /\ nvm'.peer = nvm.peer /\ nvm'.bonds = nvm.bonds
    BY WorkerSteady DEF Worker, Steady
<1>2. Take(types) /\ Msg.generation = s.generation /\ HostOn(s)
    BY DEF TakeCallback, Current
<1>3. work.pc = "idle" /\ s \in WorkerType /\ work \in WorkType
    BY <1>2 DEF Take, TypeOK
<1>4. work.pc \in Posts /\ "after" \in Posts /\ Tends /\ work.pc \in Calm
    BY <1>3 DEF Posts, Tends, Calm
<1>5. Len(queue) > 0 /\ Msg = queue[1] /\ Msg \in Messages /\ Msg.type \in types /\ Len(queue) \in Nat
    BY <1>2, TakeShrinks, QueueFacts
<1>6. 1 \in 1..Len(queue)
    BY <1>5
<1>7. Queued(1, Msg.type)
    BY <1>2, <1>5, <1>6 DEF Queued
<1>8. Keeps(s) /\ Attends(s)
    BY <1>4, SelfKeeps DEF ServeInv, Guarded
<1> QED BY <1>1, <1>2, <1>3, <1>4, <1>5, <1>6, <1>7, <1>8, KeepsStop

\* the worker's state stays as it was, or like it
LEMMA AfterKept ==
    ASSUME TypeOK, ServeInv, CallbackHandlers, NEW types, TakeCallback(types), evtq' = evtq,
           NEW s1, Keeps(s1), Attends(s1),
           \/ s' = s1 /\ work'.pc = "after"
           \/ BeginStop(s1, snapshot, "fail", "after", Msg)
    PROVE  ServeInv'
<1>1. CASE s' = s1 /\ work'.pc = "after"
    <2>1. Keeps(s') /\ Attends(s')
        BY <1>1
    <2>2. Tends' /\ work'.pc # "resume"
        BY <1>1 DEF Tends, Posts
    <2> QED BY <2>1, <2>2, CallbackFinds, GoesKept
<1>2. CASE BeginStop(s1, snapshot, "fail", "after", Msg)
    BY <1>2, KeepsStop, EndsKept
<1> QED BY <1>1, <1>2

LEMMA SetupKept ==
    ASSUME TypeOK, ServeInv,
           HandleGate \/ HandleHidReady \/ HandlePrivacy \/ HandleWhitelist \/ HandlePeerPrivacy \/ HandleAdvStarted
    PROVE  ServeInv'
<1>1. PICK types \in {{"ADV_DATA", "SCAN_DATA", "ADDRESS"}, {"HID_READY"}, {"PRIVACY"},
                      {"WHITELIST_CLEAR", "WHITELIST_ADD"}, {"PEER_PRIVACY"}, {"ADV_STARTED"}} : TakeCallback(types)
    BY DEF HandleGate, HandleHidReady, HandlePrivacy, HandleWhitelist, HandlePeerPrivacy, HandleAdvStarted
<1>2. CallbackHandlers
    BY DEF CallbackHandlers
<1>3. s \in WorkerType /\ work \in WorkType /\ Msg \in Messages /\ Msg.type \in types /\ Keeps(s) /\ Attends(s)
    BY <1>1, <1>2, CallbackFinds
<1>4. evtq' = evtq
    <2>1. CASE HandleHidReady
        BY <2>1 DEF HandleHidReady, UiVars
    <2>2. CASE UNCHANGED Outside
        BY <2>2 DEF Outside
    <2> QED BY <2>1, <2>2 DEF HandleGate, HandlePrivacy, HandleWhitelist, HandlePeerPrivacy, HandleAdvStarted
<1>5. ASSUME NEW s1, SameKept(s, s1), SetFlags(s1) \/ (\E op : Request(s1, op)) \/ (s' = s1 /\ work'.pc = "after")
      PROVE  ServeInv'
    <2>1. Done("after") => work'.pc = "after"
        BY <1>3 DEF Done, WorkType
    <2>2. Keeps(s1) /\ Attends(s1)
        BY <1>3, <1>5, SameKeeps
    <2> QED BY <1>1, <1>2, <1>4, <1>5, <2>1, <2>2, AfterKept DEF SetFlags, Request
<1>6. SameKept(s, s)
    BY <1>3 DEF SameKept
<1>7. CASE HandleGate \/ HandleHidReady
    <2>1. work'.pc = "after"
        BY <1>3, <1>7 DEF HandleGate, HandleHidReady, Done, WorkType
    <2>2. PICK ready \in SUBSET ReadyFlags : s' = [s EXCEPT !.ready = ready]
        <3>1. CASE HandleGate
            <4>1. Msg.type \in {"ADV_DATA", "SCAN_DATA", "ADDRESS"}
                BY <3>1 DEF HandleGate, TakeCallback, Take, Msg
            <4>2. GateOf[Msg.type] \in {"adv_data", "scan_data", "address"}
                BY <4>1 DEF GateOf
            <4> QED BY <1>3, <3>1, <4>2 DEF HandleGate, WorkerType, ReadyFlags
        <3>2. CASE HandleHidReady
            BY <1>3, <3>2 DEF HandleHidReady, WorkerType, ReadyFlags
        <3> QED BY <1>7, <3>1, <3>2
    <2>3. SameKept(s, s')
        BY <1>3, <2>2 DEF SameKept, WorkerType
    <2> QED BY <1>5, <2>1, <2>3
<1>8. CASE HandlePrivacy
    <2>1. \/ Request([s EXCEPT !.phase = "preparing"], Op("wl_clear"))
          \/ SetFlags([s EXCEPT !.phase = "ready", !.ready = @ \cup {"privacy"}])
          \/ SetFlags(s)
        BY <1>8 DEF HandlePrivacy
    <2>2. /\ SameKept(s, [s EXCEPT !.phase = "preparing"])
          /\ SameKept(s, [s EXCEPT !.phase = "ready", !.ready = @ \cup {"privacy"}])
        BY <1>3 DEF SameKept, WorkerType, ReadyFlags
    <2> QED BY <1>5, <1>6, <2>1, <2>2
<1>9. CASE HandleWhitelist
    <2>1. \/ SetFlags(s)
          \/ Request(s, <<"wl_add", s.profile.peer>>)
          \/ Request([s EXCEPT !.ready = @ \cup {"whitelist"}], Op("peer_privacy"))
          \/ SetFlags([s EXCEPT !.ready = @ \cup {"whitelist", "privacy"}, !.phase = "ready"])
        <3>1. Msg.ok \in BOOLEAN /\ Msg.type \in {"WHITELIST_CLEAR", "WHITELIST_ADD"} /\ s.pairing \in BOOLEAN
            BY <1>3, <1>9 DEF HandleWhitelist, TakeCallback, Take, Msg, Messages, WorkerType
        <3> QED BY <1>9, <3>1 DEF HandleWhitelist
    <2>2. /\ SameKept(s, [s EXCEPT !.ready = @ \cup {"whitelist"}])
          /\ SameKept(s, [s EXCEPT !.ready = @ \cup {"whitelist", "privacy"}, !.phase = "ready"])
        BY <1>3 DEF SameKept, WorkerType, ReadyFlags
    <2> QED BY <1>5, <1>6, <2>1, <2>2
<1>10. CASE HandlePeerPrivacy
    <2>1. Request([s EXCEPT !.phase = "enabling"], Op("privacy_on")) \/ SetFlags(s)
        BY <1>10 DEF HandlePeerPrivacy
    <2>2. SameKept(s, [s EXCEPT !.phase = "enabling"])
        BY <1>3 DEF SameKept, WorkerType
    <2> QED BY <1>5, <1>6, <2>1, <2>2
<1>11. CASE HandleAdvStarted
    <2>1. work'.pc = "after" /\ (s' = s \/ s' = Clear(s, {"start"}))
        BY <1>3, <1>11 DEF HandleAdvStarted, Advertised, Done, WorkType
    <2>2. Clear(s, {"start"}) \in WorkerType
        BY <1>3, ClearType
    <2>3. SameKept(s, Clear(s, {"start"}))
        BY <1>3, <2>2 DEF SameKept, Clear, WorkerType
    <2> QED BY <1>5, <1>6, <2>1, <2>3
<1> QED BY <1>7, <1>8, <1>9, <1>10, <1>11

\* a host connects while the worker advertises, and so waits for no answer
LEMMA HandleConnectedKept ==
    ASSUME TypeOK, LinkInv, MatchInv, ServeInv, HandleConnected
    PROVE  ServeInv'
<1>1. TakeCallback({"CONNECTED"}) /\ CallbackHandlers /\ evtq' = evtq
    BY DEF HandleConnected, CallbackHandlers, Outside
<1>2. /\ s \in WorkerType /\ work \in WorkType /\ Keeps(s) /\ Attends(s) /\ HostOn(s) /\ work.pc \in Posts
      /\ 1 \in 1..Len(queue) /\ Queued(1, "CONNECTED")
    <2>1. Msg.type \in {"CONNECTED"} /\ Queued(1, Msg.type)
        BY <1>1, CallbackFinds
    <2>2. Queued(1, "CONNECTED")
        BY <2>1 DEF Queued
    <2> QED BY <1>1, <2>2, CallbackFinds
<1>3. work'.pc = "after"
    BY <1>2 DEF HandleConnected, Done, WorkType
<1>4. Running
    BY <1>2 DEF Running, Winding, Posts
<1>5. s.advertising = TRUE /\ s.connected = FALSE
    <2>1. s.advertising /\ ~s.connected
        BY <1>2, <1>4 DEF LinkInv, Told
    <2>2. s.advertising \in BOOLEAN /\ s.connected \in BOOLEAN
        BY <1>2 DEF WorkerType
    <2> QED BY <2>1, <2>2
<1>6. s.awaiting_save = FALSE /\ s.forgetting = FALSE /\ s.subscribed = FALSE /\ s.encrypted = FALSE
    <2>1. /\ s.awaiting_save \in BOOLEAN /\ s.forgetting \in BOOLEAN
          /\ s.subscribed \in BOOLEAN /\ s.encrypted \in BOOLEAN
        BY <1>2 DEF WorkerType
    <2>2. Sound(s) /\ Flags(s)
        BY <1>2 DEF Keeps, MatchInv
    <2>3. s.encrypted # TRUE /\ s.awaiting_save # TRUE /\ s.subscribed # TRUE /\ s.forgetting # TRUE
        BY <1>5, <2>2 DEF Sound, Flags
    <2> QED BY <2>1, <2>3
<1> DEFINE armed == Arm(s, "connect")
<1>7. s' = [armed EXCEPT !.connected = TRUE, !.advertising = FALSE]
    BY <1>5 DEF HandleConnected
<1>8. armed \in WorkerType
    BY <1>2, ArmType DEF Deadlines
<1>9. SameKept(s, armed)
    BY <1>2, <1>8 DEF SameKept, Arm, WorkerType
<1> HIDE DEF armed
<1>10. /\ s' \in WorkerType /\ s'.session = armed.session /\ s'.generation = armed.generation
       /\ s'.profile = armed.profile /\ s'.store = armed.store /\ s'.layers = armed.layers
       /\ s'.forgetting = armed.forgetting /\ s'.awaiting_save = armed.awaiting_save
       /\ s'.encrypted = armed.encrypted /\ s'.saved = armed.saved /\ s'.pairing = armed.pairing
       /\ s'.subscribed = armed.subscribed /\ s'.connected = TRUE /\ s'.advertising = FALSE
    BY <1>7, <1>8 DEF WorkerType
<1>11. Keeps(s') /\ Attends(s')
    BY <1>2, <1>6, <1>9, <1>10 DEF Keeps, SameKept, Attends, Sound, Settles
<1> QED BY <1>1, <1>3, <1>11, AfterKept

LEMMA HandleAuthFailedKept ==
    ASSUME TypeOK, ServeInv, HandleAuthFailed
    PROVE  ServeInv'
<1>1. TakeCallback({"AUTH"}) /\ CallbackHandlers /\ evtq' = evtq
    BY DEF HandleAuthFailed, CallbackHandlers, Outside
<1>2. /\ s \in WorkerType /\ Keeps(s) /\ Attends(s) /\ Tends /\ Shrinks
      /\ nvm'.peer = nvm.peer /\ nvm'.bonds = nvm.bonds
    BY <1>1, CallbackFinds
<1>3. CASE s.pairing
    <2>1. /\ s' = [s EXCEPT !.encrypted = FALSE, !.subscribed = FALSE]
          /\ work'.pc = "disconnect" /\ work'.k = "auth_retry"
        BY <1>3 DEF HandleAuthFailed
    <2>2. /\ s' \in WorkerType /\ s'.session = s.session /\ s'.generation = s.generation
          /\ s'.profile = s.profile /\ s'.store = s.store /\ s'.layers = s.layers
          /\ s'.forgetting = s.forgetting /\ s'.awaiting_save = s.awaiting_save
          /\ s'.advertising = s.advertising /\ s'.connected = s.connected
          /\ s'.encrypted = FALSE /\ s'.subscribed = FALSE /\ s'.saved = s.saved /\ s'.pairing = s.pairing
        BY <1>2, <2>1 DEF WorkerType
    <2>3. Keeps(s')
        BY <1>2, <2>2 DEF Keeps, Sound, Settles
    <2>4. Tends' /\ work'.pc \notin Calm /\ work'.pc # "resume"
        BY <2>1 DEF Tends, Calm, Posts
    <2> QED BY <1>1, <1>2, <2>3, <2>4, GoesKept
<1>4. CASE BeginStop(s, snapshot, "fail", "after", Msg)
    BY <1>1, <1>2, <1>4, AfterKept
<1> QED BY <1>3, <1>4 DEF HandleAuthFailed

\* a saved host's link is lost: the session is served again
LEMMA HandleDisconnectedKept ==
    ASSUME TypeOK, LinkInv, ServeInv, HandleDisconnected
    PROVE  ServeInv'
<1>1. TakeCallback({"DISCONNECTED"}) /\ CallbackHandlers /\ evtq' = evtq
    BY DEF HandleDisconnected, CallbackHandlers, Outside
<1>2. /\ s \in WorkerType /\ work \in WorkType /\ Keeps(s) /\ Attends(s) /\ Tends /\ Shrinks /\ work.pc \in Posts
      /\ nvm'.peer = nvm.peer /\ nvm'.bonds = nvm.bonds
    BY <1>1, CallbackFinds
<1> DEFINE loose == Unlinked(s)
           cleared == Clear(loose, {"connect"})
           lost == [cleared EXCEPT !.suspended = FALSE]
<1>3. loose \in WorkerType
    BY <1>2, UnlinkedType
<1>4. /\ loose.session = s.session /\ loose.generation = s.generation
      /\ loose.profile = s.profile /\ loose.store = s.store /\ loose.layers = s.layers
      /\ loose.forgetting = s.forgetting /\ loose.awaiting_save = s.awaiting_save
      /\ loose.advertising = s.advertising /\ loose.connected = FALSE
      /\ loose.encrypted = FALSE /\ loose.subscribed = FALSE /\ loose.saved = s.saved /\ loose.pairing = s.pairing
    BY <1>2 DEF Unlinked, WorkerType
<1>5. s' = s \/ s' = lost \/ BeginStop(lost, snapshot, "restart", "after", Msg)
    BY DEF HandleDisconnected
<1>6. BeginStop(lost, snapshot, "restart", "after", Msg) \/ Done("after")
    BY DEF HandleDisconnected
<1>7. Done("after") => work'.pc = "after"
    BY <1>2 DEF Done, WorkType
<1>8. BeginStop(lost, snapshot, "restart", "after", Msg) \/ s' = s \/ (s' = lost /\ Done("after"))
    BY <1>5, <1>6
<1> HIDE DEF loose
<1>9. cleared \in WorkerType
    BY <1>3, ClearType
<1>10. SameKept(loose, cleared)
    BY <1>3, <1>9 DEF SameKept, Clear, WorkerType
<1> HIDE DEF cleared
<1>11. SameKept(cleared, lost)
    BY <1>9 DEF SameKept, WorkerType
<1> HIDE DEF lost
<1>12. Keeps(loose) /\ Attends(loose)
    BY <1>2, <1>3, <1>4 DEF Keeps, Attends, Sound, Settles
<1>13. Keeps(lost) /\ Attends(lost)
    BY <1>10, <1>11, <1>12, SameKeeps
<1>14. CASE s' = s /\ Done("after")
    BY <1>1, <1>2, <1>7, <1>14, AfterKept
<1>15. CASE s' = lost /\ Done("after")
    BY <1>1, <1>7, <1>13, <1>15, AfterKept
<1>16. CASE s.connected /\ s.saved /\ BeginStop(lost, snapshot, "restart", "after", Msg)
    <2>1. s.connected = TRUE /\ s.saved = TRUE
        BY <1>2, <1>16 DEF WorkerType
    <2>2. Serving /\ s.awaiting_save = FALSE
        BY <1>2, <2>1, LinkedServes
    <2>3. lost \in WorkerType /\ lost.session = s.session /\ lost.profile = s.profile /\ lost.subscribed = FALSE
        BY <1>4, <1>10, <1>11 DEF SameKept
    <2> QED BY <1>1, <1>2, <1>16, <2>2, <2>3, PausesKept
<1>17. \/ s' = s /\ Done("after")
       \/ s' = lost /\ Done("after")
       \/ s.connected /\ s.saved /\ BeginStop(lost, snapshot, "restart", "after", Msg)
    BY DEF HandleDisconnected, lost, cleared, loose
<1> QED BY <1>14, <1>15, <1>16, <1>17

\* all successes queued under a link are of the host whose success is taken
LEMMA HeadGranted ==
    ASSUME TypeOK, LinkInv, ServeInv, TakeCallback({"AUTH"}), Msg.ok = TRUE, s.connected = TRUE
    PROVE  \A i \in 1..Len(queue) : Granted(i) => queue[i].peer = Msg.peer
<1>1. Running /\ Queued(1, "AUTH") /\ Msg = queue[1] /\ 1 \in 1..Len(queue)
    BY CallbackTaken, TakeShrinks DEF TakeCallback, Queued
<1>2. \A j \in 1..Len(queue) : ~Queued(j, "CONNECTED")
    BY <1>1 DEF LinkInv, Told
<1>3. \A i \in 1..Len(queue) : Granted(i) => Latest(i)
    BY <1>2 DEF Granted, Latest
<1>4. Latest(1)
    BY <1>1, <1>2 DEF Latest
<1> QED BY <1>1, <1>3, <1>4 DEF ServeInv, Consistent

\* a host pairs: it is the one asked for already, or none was
LEMMA PairedKept ==
    ASSUME TypeOK, LinkInv, MatchInv, ServeInv, Hosted, TakeCallback({"AUTH"}), Msg.ok = TRUE, s.connected = TRUE,
           Shrinks, nvm' = nvm, s.pairing = TRUE, HasBond(s.store, Msg.peer),
           s' = AwaitingSave([s EXCEPT !.encrypted = TRUE, !.profile.peer = Msg.peer]),
           PostPeer(s, Msg.peer), work'.pc = "after"
    PROVE  ServeInv'
<1> DEFINE peered == [s EXCEPT !.encrypted = TRUE, !.profile.peer = Msg.peer]
<1>1. /\ s \in WorkerType /\ Msg \in Messages /\ HostOn(s) /\ work.pc \in Posts /\ Keeps(s) /\ Attends(s)
      /\ Msg = queue[1] /\ 1 \in 1..Len(queue) /\ Msg.type = "AUTH"
    <2>1. s \in WorkerType /\ work.pc \in Posts /\ HostOn(s)
        BY DEF TakeCallback, Take, Current, TypeOK, Posts
    <2>2. Msg \in Messages /\ Msg = queue[1] /\ Len(queue) > 0 /\ Msg.type \in {"AUTH"} /\ Len(queue) \in Nat
        BY TakeShrinks, QueueFacts DEF TakeCallback
    <2>3. Tends /\ work.pc \in Calm
        BY <2>1 DEF Tends, Calm
    <2>4. Keeps(s) /\ Attends(s)
        BY <2>3, SelfKeeps DEF ServeInv, Guarded
    <2> QED BY <2>1, <2>2, <2>4
<1>2. Msg.peer \in Hosts /\ Msg.peer # NoPeer /\ Msg.peer \in Peers
    BY <1>1, ConstantsAssumption DEF Hosted, Messages
<1>3. /\ s'.session = s.session /\ s'.generation = s.generation /\ s'.store = s.store /\ s'.layers = s.layers
      /\ s'.profile.id = s.profile.id /\ s'.profile.peer = Msg.peer
      /\ s'.awaiting_save = TRUE /\ s'.encrypted = TRUE /\ s'.connected = s.connected
      /\ s'.forgetting = s.forgetting /\ s'.advertising = s.advertising /\ s'.subscribed = s.subscribed
      /\ s'.saved = s.saved
    <2>1. s.profile \in Remotes
        BY <1>1 DEF WorkerType
    <2>2. /\ [s.profile EXCEPT !.peer = Msg.peer] \in Remotes
          /\ [s.profile EXCEPT !.peer = Msg.peer].peer = Msg.peer
          /\ [s.profile EXCEPT !.peer = Msg.peer].id = s.profile.id
        BY <1>2, <2>1 DEF Remotes
    <2>3. /\ peered \in WorkerType /\ peered.session = s.session /\ peered.generation = s.generation
          /\ peered.store = s.store /\ peered.layers = s.layers
          /\ peered.profile.id = s.profile.id /\ peered.profile.peer = Msg.peer
          /\ peered.encrypted = TRUE /\ peered.connected = s.connected /\ peered.forgetting = s.forgetting
          /\ peered.advertising = s.advertising /\ peered.subscribed = s.subscribed /\ peered.saved = s.saved
        BY <1>1, <2>2 DEF WorkerType
    <2> HIDE DEF peered
    <2> DEFINE asked == AwaitingSave(peered)
    <2>4. /\ asked.session = peered.session /\ asked.generation = peered.generation
          /\ asked.store = peered.store /\ asked.layers = peered.layers /\ asked.profile = peered.profile
          /\ asked.awaiting_save = TRUE
          /\ asked.encrypted = peered.encrypted /\ asked.connected = peered.connected
          /\ asked.forgetting = peered.forgetting /\ asked.advertising = peered.advertising
          /\ asked.subscribed = peered.subscribed /\ asked.saved = peered.saved
        BY <2>3 DEF AwaitingSave, Arm, WorkerType
    <2>5. s' = asked
        BY DEF peered
    <2> HIDE DEF asked
    <2> QED BY <2>3, <2>4, <2>5
<1> HIDE DEF peered
<1>4. Running /\ Serving /\ s.forgetting = FALSE /\ s.advertising = FALSE /\ s.saved = FALSE
    <2>1. Running /\ work.pc # "bond_wait"
        BY <1>1 DEF Running, Winding, Posts
    <2>2. /\ s.forgetting \in BOOLEAN /\ s.advertising \in BOOLEAN /\ s.saved \in BOOLEAN
        BY <1>1 DEF WorkerType
    <2>3. s.forgetting # TRUE
        BY <1>1 DEF Keeps, Sound
    <2>4. s.advertising # TRUE /\ s.saved # TRUE
        BY DEF MatchInv, Flags
    <2> QED BY <2>1, <2>2, <2>3, <2>4 DEF Serving
<1>5. \A i \in 1..Len(queue) : Granted(i) => queue[i].peer = Msg.peer
    BY HeadGranted
<1>6. Granted(1)
    <2>1. Msg.type \in {"AUTH"} /\ Queued(1, Msg.type)
        BY CallbackTaken
    <2> QED BY <1>1, <2>1 DEF Granted, Queued
\* whatever was asked for is this host
<1>7. /\ \A i \in 1..Len(evtq) : Asked(i) => evtq[i].peer = Msg.peer
      /\ \A i \in 1..Len(queue) : Assured(i) => nvm.peer[s.profile.id] = Msg.peer
    <2>1. Agreed
        BY <1>4 DEF ServeInv, SaveInv
    <2>2. CASE s.awaiting_save = TRUE
        <3>1. s.encrypted = TRUE
            BY <1>1, <2>2 DEF Attends
        <3>2. s.profile.peer = Msg.peer
            BY <1>1, <1>4, <1>6, <3>1 DEF ServeInv, Proven
        <3> QED BY <2>1, <3>2 DEF Agreed, Durably
    <2>3. CASE s.awaiting_save # TRUE
        <3>1. s.awaiting_save = FALSE
            BY <1>1, <2>3 DEF WorkerType
        <3>2. s.profile.peer = NoPeer
            BY <1>4, <3>1 DEF ServeInv, SaveInv, Settles
        <3> QED BY <2>1, <3>2 DEF Agreed
    <2> QED BY <2>2, <2>3
<1>8. Agreed'
    <2>1. ASSUME NEW i \in 1..Len(evtq'), evtq'[i].session = s.session
          PROVE  evtq'[i].peer = Msg.peer
        <3>1. evtq \in Seq(Events) /\ Len(evtq) \in Nat
            BY ProfileFacts
        <3>2. CASE evtq' = evtq
            BY <1>7, <2>1, <3>2 DEF Asked
        <3>3. CASE evtq' = Append(evtq, [session |-> s.session, peer |-> Msg.peer])
            <4>1. CASE i \in 1..Len(evtq)
                <5>1. evtq'[i] = evtq[i]
                    BY <3>1, <3>3, <4>1
                <5> QED BY <1>7, <2>1, <4>1, <5>1 DEF Asked
            <4>2. CASE i = Len(evtq) + 1
                <5>1. evtq'[i] = [session |-> s.session, peer |-> Msg.peer]
                    BY <3>1, <3>3, <4>2
                <5> QED BY <5>1
            <4>3. Len(evtq') = Len(evtq) + 1
                BY <3>1, <3>3
            <4> QED BY <3>1, <4>1, <4>2, <4>3
        <3> QED BY <3>2, <3>3 DEF PostPeer
    <2>2. PICK d \in {0, 1} : \A i \in 1..Len(queue') : i + d \in 1..Len(queue) /\ queue'[i] = queue[i + d]
        BY DEF Shrinks
    <2>3. ASSUME NEW i \in 1..Len(queue'), Assured(i)'
          PROVE  Durably'
        <3>1. i + d \in 1..Len(queue) /\ queue'[i] = queue[i + d]
            BY <2>2
        <3>2. Assured(i + d)
            BY <1>3, <2>3, <3>1 DEF Assured, Answered
        <3> QED BY <1>3, <1>7, <3>1, <3>2 DEF Durably
    <2> QED BY <1>2, <1>3, <2>1, <2>3 DEF Agreed, Asked
<1>9. Running' /\ ~Winding' /\ ~Unasking' /\ ~Clearing' /\ work'.pc \in Calm
      /\ work'.pc \notin {"resume", "bond_wait"}
    BY <1>1, <1>3, <1>4 DEF Running, HostOn, Winding, Unasking, Pausing, Clearing, Calm, Posts
<1>10. SaveInv'
    <2>1. Settles(s)'
        BY <1>2, <1>3 DEF Settles, HasBond
    <2>2. s'.awaiting_save # FALSE
        BY <1>3
    <2> QED BY <1>8, <1>9, <2>1, <2>2 DEF SaveInv
<1>11. Guarded'
    <2>1. Sound(s)'
        BY <1>1, <1>3, <1>4 DEF Keeps, Sound
    <2>2. Attends(s)'
        BY <1>3 DEF Attends
    <2> QED BY <1>9, <2>1, <2>2 DEF Guarded
<1>12. Consistent'
    BY <1>3, <1>4, ConsistentShrinks DEF ServeInv
<1>13. Proven'
    <2>1. PICK d \in {0, 1} : \A i \in 1..Len(queue') :
             /\ i + d \in 1..Len(queue) /\ queue'[i] = queue[i + d]
             /\ Granted(i)' => Granted(i + d)
        BY <1>3, GrantedShrinks
    <2> SUFFICES ASSUME NEW i \in 1..Len(queue'), Granted(i)'
                 PROVE  queue'[i].peer = s'.profile.peer
        BY DEF Proven
    <2>2. i + d \in 1..Len(queue) /\ queue'[i] = queue[i + d] /\ Granted(i + d)
        BY <2>1
    <2> QED BY <1>3, <1>5, <2>2
<1> QED BY <1>10, <1>11, <1>12, <1>13 DEF ServeInv

LEMMA HandleAuthOkKept ==
    ASSUME TypeOK, LinkInv, MatchInv, ServeInv, Hosted, HandleAuthOk, s.connected = TRUE
    PROVE  ServeInv'
<1>1. TakeCallback({"AUTH"}) /\ Msg.ok /\ CallbackHandlers
    BY DEF HandleAuthOk, CallbackHandlers
<1>2. /\ s \in WorkerType /\ work \in WorkType /\ Msg \in Messages /\ Keeps(s) /\ Attends(s) /\ Shrinks
      /\ work.pc \in Posts /\ "after" \in Posts /\ nvm'.peer = nvm.peer /\ nvm'.bonds = nvm.bonds
    BY <1>1, CallbackFinds
<1>3. Msg.ok = TRUE
    BY <1>1, <1>2 DEF Messages
<1> DEFINE encrypted == [s EXCEPT !.encrypted = TRUE]
<1>4. CASE BeginStop(s, snapshot, "fail", "after", Msg) /\ evtq' = evtq
    BY <1>1, <1>2, <1>4, AfterKept
<1>5. CASE /\ s.pairing /\ HasBond(s.store, Msg.peer)
           /\ s' = AwaitingSave([s EXCEPT !.encrypted = TRUE, !.profile.peer = Msg.peer])
           /\ PostPeer(s, Msg.peer) /\ Done("after") /\ nvm' = nvm
    <2>1. s.pairing = TRUE
        BY <1>2, <1>5 DEF WorkerType
    <2>2. work'.pc = "after"
        BY <1>2, <1>5 DEF Done, WorkType
    <2> QED BY <1>1, <1>2, <1>3, <1>5, <2>1, <2>2, PairedKept
<1>6. CASE Msg.peer = s.profile.peer /\ ReadyIfSubscribed(encrypted, "after", Msg) /\ evtq' = evtq
    <2>1. \A i \in 1..Len(queue) : Granted(i) => queue[i].peer = s.profile.peer
        BY <1>1, <1>3, <1>6, HeadGranted
    <2>2. /\ encrypted \in WorkerType /\ encrypted.session = s.session /\ encrypted.generation = s.generation
          /\ encrypted.profile = s.profile /\ encrypted.store = s.store /\ encrypted.layers = s.layers
          /\ encrypted.forgetting = s.forgetting /\ encrypted.awaiting_save = s.awaiting_save
          /\ encrypted.advertising = s.advertising /\ encrypted.connected = s.connected
          /\ encrypted.encrypted = TRUE /\ encrypted.subscribed = s.subscribed
          /\ encrypted.saved = s.saved /\ encrypted.pairing = s.pairing
        BY <1>2 DEF WorkerType
    <2> HIDE DEF encrypted
    <2>3. Keeps(encrypted) /\ Attends(encrypted)
        BY <1>2, <2>1, <2>2 DEF Keeps, Attends, Sound, Settles
    <2> QED BY <1>2, <1>6, <2>3, ReadyIfSubscribedKept
<1> QED BY <1>4, <1>5, <1>6 DEF HandleAuthOk

LEMMA HandleWriteSuspendKept ==
    ASSUME TypeOK, LinkInv, ServeInv, HandleWrite \/ HandleSuspend
    PROVE  ServeInv'
<1>1. PICK types \in {{"WRITE"}, {"SUSPEND"}} : TakeCallback(types)
    BY DEF HandleWrite, HandleSuspend
<1>2. CallbackHandlers /\ evtq' = evtq
    BY DEF CallbackHandlers, HandleWrite, HandleSuspend, UiVars
<1>3. /\ s \in WorkerType /\ Msg \in Messages /\ Keeps(s) /\ Attends(s) /\ Shrinks
      /\ work.pc \in Posts /\ "after" \in Posts /\ nvm'.peer = nvm.peer /\ nvm'.bonds = nvm.bonds
      /\ (s.subscribed = TRUE => s.connected = TRUE /\ s.saved = TRUE)
    BY <1>1, <1>2, CallbackFinds
<1>4. SameKept(s, [s EXCEPT !.suspended = Msg.flag])
    BY <1>3 DEF SameKept, WorkerType, Messages
<1>5. Keeps([s EXCEPT !.suspended = Msg.flag]) /\ Attends([s EXCEPT !.suspended = Msg.flag])
    BY <1>3, <1>4, SameKeeps
<1>6. \/ ReadyIfSubscribed(s, "after", Msg)
      \/ ReadyIfSubscribed([s EXCEPT !.suspended = Msg.flag], "after", Msg)
      \/ ReleaseFails /\ BeginStop(s, snapshot, "release", "after", Msg)
    BY DEF HandleWrite, HandleSuspend
<1>7. CASE ReleaseFails /\ BeginStop(s, snapshot, "release", "after", Msg)
    <2>1. s.connected = TRUE /\ s.saved = TRUE
        <3>1. s.subscribed
            BY <1>7 DEF ReleaseFails
        <3> QED BY <1>3, <3>1 DEF WorkerType
    <2>2. Serving /\ s.awaiting_save = FALSE
        BY <1>3, <2>1, LinkedServes
    <2> QED BY <1>2, <1>3, <1>7, <2>2, PausesKept
<1> QED BY <1>2, <1>3, <1>5, <1>6, <1>7, ReadyIfSubscribedKept

LEMMA CallbackHandlersKept ==
    ASSUME TypeOK, LinkInv, MatchInv, ServeInv, Hosted, CallbackHandlers, HandleAuthOk => s.connected = TRUE
    PROVE  ServeInv'
BY SetupKept, HandleConnectedKept, HandleDisconnectedKept, HandleAuthFailedKept, HandleAuthOkKept,
   HandleWriteSuspendKept DEF CallbackHandlers

\* the end of an iteration: nothing is advertised while an answer is awaited
LEMMA TailKept ==
    ASSUME TypeOK, ServeInv, AfterCallback \/ Advertise \/ Poll \/ TailClose \/ TailExpired \/ TailDone
    PROVE  ServeInv'
<1>1. Shrinks /\ nvm'.peer = nvm.peer /\ nvm'.bonds = nvm.bonds
    BY WorkerSteady DEF Worker, Steady
<1>2. evtq' = evtq
    BY DEF AfterCallback, Advertise, Poll, TailClose, TailExpired, TailDone, Outside
<1>3. work.pc \in {"after", "idle", "tail"} /\ s \in WorkerType /\ work \in WorkType
    BY DEF AfterCallback, Advertise, Poll, TailClose, TailExpired, TailDone, TypeOK
<1>4. work.pc \in Posts /\ work.pc \in Calm /\ Tends
    BY <1>3 DEF Posts, Calm, Tends
<1>5. Keeps(s) /\ Attends(s) /\ (s.subscribed = TRUE => s.connected = TRUE /\ s.saved = TRUE)
    BY <1>4, SelfKeeps, KeepsStop DEF ServeInv, Guarded
<1>6. CASE work'.pc \in Posts /\ s' = s
    BY <1>1, <1>2, <1>4, <1>6, DoneKept
<1>7. ASSUME NEW k \in {"fail", "close", "timeout"}, NEW post, NEW m, BeginStop(s, snapshot, k, post, m)
      PROVE  ServeInv'
    <2>1. k \notin {"auth_retry", "restart", "release", "forget"}
        BY <1>7
    <2> QED BY <1>3, <1>5, <1>7, <2>1, EndsKept
<1>8. CASE AfterCallback
    <2>1. BeginStop(s, snapshot, "fail", "tail", work.msg) \/ (Goto("tail") /\ s' = s)
        BY <1>8 DEF AfterCallback
    <2>2. Goto("tail") => work'.pc \in Posts
        BY <1>3 DEF Goto, WorkType, Posts
    <2> QED BY <1>6, <1>7, <2>1, <2>2
<1>9. CASE Poll \/ TailDone
    BY <1>3, <1>6, <1>9 DEF Poll, TailDone, Goto, WorkType, Posts
<1>10. CASE TailClose
    BY <1>7, <1>10 DEF TailClose
<1>11. CASE TailExpired
    <2>1. PICK k \in {"fail", "timeout"} : BeginStop(s, snapshot, k, "idle", NoMessage)
        BY <1>11 DEF TailExpired
    <2> QED BY <1>7, <2>1
<1>12. CASE Advertise
    <2>1. CASE BeginStop(s, snapshot, "fail", "tail", work.msg)
        BY <1>7, <2>1
    <2>2. CASE /\ s' = [s EXCEPT !.advertising = TRUE, !.deadlines = IF s.pairing THEN @ \cup {"pair"} ELSE @]
               /\ Goto("tail")
        <3>1. s.awaiting_save = FALSE
            BY <1>3, <1>12 DEF Advertise, CanAdvertise, WorkerType
        <3>2. /\ s' \in WorkerType /\ s'.session = s.session /\ s'.generation = s.generation
              /\ s'.profile = s.profile /\ s'.store = s.store /\ s'.layers = s.layers
              /\ s'.forgetting = s.forgetting /\ s'.awaiting_save = s.awaiting_save
              /\ s'.connected = s.connected /\ s'.encrypted = s.encrypted /\ s'.subscribed = s.subscribed
              /\ s'.saved = s.saved /\ s'.pairing = s.pairing
            BY <1>3, <2>2 DEF WorkerType, Deadlines
        <3>3. Keeps(s') /\ Attends(s')
            BY <1>5, <3>1, <3>2 DEF Keeps, Attends, Sound, Settles
        <3>4. work'.pc = "tail" /\ Tends' /\ work'.pc # "resume"
            BY <1>3, <2>2 DEF Goto, WorkType, Tends, Posts
        <3> QED BY <1>1, <1>2, <1>4, <3>3, <3>4, GoesKept
    <2> QED BY <1>12, <2>1, <2>2 DEF Advertise
<1> QED BY <1>8, <1>9, <1>10, <1>11, <1>12

-----------------------------------------------------------------------------
(* A stop runs on                                                            *)

\* what the steps of a stop leave of the worker's flags
LEMMA StopFlags ==
    ASSUME TypeOK, StopSteps
    PROVE  /\ s'.awaiting_save = s.awaiting_save /\ s'.forgetting = s.forgetting /\ s'.saved = s.saved
           /\ s'.generation = s.generation
           /\ \/ s'.connected = s.connected /\ s'.subscribed = s.subscribed
              \/ s'.connected = FALSE /\ s'.subscribed = FALSE
           /\ queue' = queue /\ evtq' = evtq /\ nvm' = nvm
<1>1. s \in WorkerType
    BY DEF TypeOK
<1>2. queue' = queue /\ evtq' = evtq /\ nvm' = nvm
    BY DEF StopSteps, StopAdvertisingSkip, StopAdvertisingRequest, StopAdvertisingWait, DisconnectLink,
       DisconnectDone, DisconnectTimeout, TeardownHid, TeardownHost, Outside, UiVars
<1>3. CASE s' = s \/ s' = [s EXCEPT !.advertising = FALSE] \/ s' = [s EXCEPT !.layers = @ \ {"hid"}]
    BY <1>1, <1>2, <1>3 DEF WorkerType
<1>4. CASE s' = Unlinked(s)
    BY <1>1, <1>2, <1>4 DEF Unlinked, WorkerType
<1>5. CASE \E left : s' = [s EXCEPT !.layers = left \cup (@ \cap {"hid"}), !.ready = {}, !.phase = "resetting"]
    BY <1>1, <1>2, <1>5 DEF WorkerType
<1>6. \/ s' = s \/ s' = [s EXCEPT !.advertising = FALSE] \/ s' = [s EXCEPT !.layers = @ \ {"hid"}]
      \/ s' = Unlinked(s)
      \/ \E left : s' = [s EXCEPT !.layers = left \cup (@ \cap {"hid"}), !.ready = {}, !.phase = "resetting"]
    BY DEF StopSteps, StopAdvertisingSkip, StopAdvertisingRequest, StopAdvertisingWait, DisconnectLink,
       DisconnectDone, DisconnectTimeout, TeardownHid, TeardownHost
<1> QED BY <1>3, <1>4, <1>5, <1>6

\* a retry waits for its link to go
LEMMA RetryKept ==
    ASSUME TypeOK, LinkInv, ServeInv, StopSteps, work.k = "auth_retry"
    PROVE  ServeInv'
<1>1. work.pc \in {"disconnect", "link_wait"}
    BY StopShape DEF LinkInv, Wound, StopPlaces
<1>2. Tends /\ s \in WorkerType /\ work \in WorkType
    BY <1>1 DEF Tends, TypeOK
<1>3. Keeps(s)
    BY <1>2, SelfKeeps
<1>4. /\ Shrinks /\ evtq' = evtq /\ nvm'.peer = nvm.peer /\ nvm'.bonds = nvm.bonds
    BY StopFlags, SameShrinks
<1>5. CASE DisconnectLink
    <2>1. s' = s /\ work'.pc = "link_wait" /\ work'.k = "auth_retry"
        BY <1>2, <1>5 DEF DisconnectLink, Goto, WorkType
    <2>2. Tends' /\ work'.pc \notin Calm /\ work'.pc # "resume"
        BY <2>1 DEF Tends, Calm, Posts
    <2>3. Keeps(s')
        BY <1>3, <2>1
    <2> QED BY <1>2, <1>4, <2>2, <2>3, GoesKept
<1>6. CASE DisconnectDone \/ DisconnectTimeout
    <2>1. s' = Unlinked(s) /\ work'.pc = "resume" /\ work'.k = "auth_retry"
        BY <1>2, <1>6 DEF DisconnectDone, DisconnectTimeout, Goto, WorkType
    <2>2. Tends' /\ work'.pc \notin Calm
        BY <2>1 DEF Tends, Calm, Posts
    <2>3. /\ s' \in WorkerType /\ s'.session = s.session /\ s'.generation = s.generation
          /\ s'.profile = s.profile /\ s'.store = s.store /\ s'.layers = s.layers
          /\ s'.forgetting = s.forgetting /\ s'.awaiting_save = s.awaiting_save
          /\ s'.advertising = s.advertising /\ s'.connected = FALSE
          /\ s'.encrypted = FALSE /\ s'.subscribed = FALSE /\ s'.saved = s.saved /\ s'.pairing = s.pairing
        BY <1>2, <2>1 DEF Unlinked, WorkerType
    <2>4. Keeps(s')
        BY <1>3, <2>3 DEF Keeps, Sound, Settles
    <2> QED BY <1>2, <1>4, <2>2, <2>3, <2>4, GoesKept
<1> QED BY <1>1, <1>5, <1>6 DEF StopSteps, StopAdvertisingSkip, StopAdvertisingRequest, StopAdvertisingWait,
        TeardownHid, TeardownHost

LEMMA StopStepsKept ==
    ASSUME TypeOK, LinkInv, LinkInv', ServeInv, StopSteps
    PROVE  ServeInv'
<1>1. CASE work.k = "auth_retry"
    BY <1>1, RetryKept
<1>2. CASE work.k # "auth_retry"
    <2>1. /\ Winding /\ work'.k = work.k /\ (Winding' \/ work'.pc = "resume")
          /\ work'.pc \notin Calm
        BY <1>2, StopShape DEF Winding, StopPlaces, Calm, Posts
    <2>2. ~Running /\ ~Running'
        <3>1. ~Running
            BY <2>1 DEF Running
        <3>2. CASE Winding'
            BY <3>1, <3>2 DEF Running
        <3>3. CASE work'.pc = "resume"
            BY <1>2, <2>1, <3>1, <3>3 DEF LinkInv, Stamped, Running
        <3> QED BY <2>1, <3>1, <3>2, <3>3
    <2>3. /\ s.awaiting_save = FALSE /\ s'.awaiting_save = FALSE
          /\ s.forgetting = FALSE /\ s'.forgetting = FALSE
        <3>1. s.awaiting_save \in BOOLEAN /\ s.forgetting \in BOOLEAN
            BY DEF TypeOK, WorkerType
        <3>2. s.awaiting_save # TRUE /\ s.forgetting # TRUE
            BY <2>2 DEF ServeInv, Guarded, Sound
        <3> QED BY <3>1, <3>2, StopFlags
    <2>4. Shrinks /\ evtq' = evtq /\ nvm'.peer = nvm.peer /\ s'.session = s.session /\ s'.profile = s.profile
        BY StopFlags, StopShape, SameShrinks
    <2>5. (Agreed => Agreed') /\ (NoneAsked => NoneAsked') /\ (Durably' <=> Durably)
        BY <2>4, WorkerAsked
    <2>6. /\ Serving' => Serving
          /\ ~Clearing' /\ (Unasking' => Unasking)
        BY <2>1, <2>2 DEF Serving, Clearing, Unasking, Pausing, Calm
    <2>7. SaveInv'
        BY <2>2, <2>3, <2>5, <2>6 DEF ServeInv, SaveInv
    <2>8. work'.pc = "resume" => s'.connected = FALSE
        <3>1. s' \in WorkerType
            BY StopStepsType DEF TypeOK
        <3>2. work'.pc = "resume" => ~HostOn(s')
            BY <1>2, <2>1 DEF LinkInv, Stamped, HostOn
        <3>3. ~HostOn(s') => ~s'.connected
            BY DEF LinkInv, Aired, HostOn
        <3> QED BY <3>1, <3>2, <3>3 DEF WorkerType
    <2>9. Guarded'
        <3>1. s'.subscribed = TRUE => s'.connected = TRUE /\ s'.saved = TRUE
            BY StopFlags DEF ServeInv, Guarded, Sound
        <3> QED BY <2>1, <2>3, <2>8, <3>1 DEF Guarded, Sound, Calm
    <2>10. Consistent' /\ Proven'
        BY <2>2 DEF Consistent, Proven
    <2> QED BY <2>7, <2>9, <2>10 DEF ServeInv
<1> QED BY <1>1, <1>2

-----------------------------------------------------------------------------
(* What follows a stop                                                       *)

\* no host runs, and the worker waits for nothing
Rests(s1) ==
    /\ s1 \in WorkerType /\ s1.awaiting_save = FALSE /\ s1.forgetting = FALSE
    /\ s1.connected = FALSE /\ s1.advertising = FALSE /\ s1.subscribed = FALSE

LEMMA ResumeRests ==
    ASSUME TypeOK, LinkInv, ServeInv, work.pc = "resume", work.k # "auth_retry"
    PROVE  Rests(s) /\ ~HostOn(s)
<1>1. s \in WorkerType
    BY DEF TypeOK
<1>2. ~HostOn(s)
    BY DEF LinkInv, Stamped
<1>3. s.connected = FALSE /\ s.advertising = FALSE
    BY <1>1, <1>2 DEF LinkInv, Aired, WorkerType
<1>4. s.awaiting_save # TRUE /\ s.forgetting # TRUE /\ s.subscribed # TRUE
    BY <1>2, <1>3 DEF ServeInv, Guarded, Sound, Running
<1>5. s.awaiting_save \in BOOLEAN /\ s.forgetting \in BOOLEAN /\ s.subscribed \in BOOLEAN
    BY <1>1 DEF WorkerType
<1> QED BY <1>1, <1>2, <1>3, <1>4, <1>5 DEF Rests

LEMMA RestsKept ==
    ASSUME Rests(s'), ~HostOn(s'), work'.pc \in Posts
    PROVE  ServeInv'
<1>1. /\ ~Running' /\ ~Winding' /\ work'.pc \notin {"resume", "bond_wait"}
    BY DEF Running, Winding, Posts, HostOn
<1>2. ~Serving' /\ ~Clearing' /\ ~Unasking'
    BY <1>1 DEF Serving, Clearing, Unasking, Pausing
<1>3. SaveInv'
    BY <1>2 DEF SaveInv
<1>4. Sound(s)' /\ Attends(s)' /\ s'.awaiting_save # TRUE
    BY DEF Rests, Sound, Attends
<1>5. Guarded'
    BY <1>1, <1>4 DEF Guarded
<1>6. Consistent' /\ Proven'
    BY <1>1 DEF Consistent, Proven
<1> QED BY <1>3, <1>5, <1>6 DEF ServeInv

LEMMA RestsStop ==
    ASSUME NEW s1, Rests(s1), NEW shown, NEW post, NEW m, BeginStop(s1, shown, "fail", post, m)
    PROVE  ServeInv'
<1>1. s1 \in WorkerType /\ (s1.subscribed = TRUE => s1.connected = TRUE /\ s1.saved = TRUE)
    BY DEF Rests
<1>2. "fail" \notin {"auth_retry", "restart", "release", "forget"}
    OBVIOUS
<1> QED BY <1>1, <1>2, EndsKept

LEMMA StackUpRests ==
    ASSUME NEW s1, Rests(s1)
    PROVE  /\ Rests(StackUp(s1)) /\ StackUp(s1).generation = s1.generation + 1
           /\ StackUp(s1).session = s1.session /\ StackUp(s1).profile = s1.profile
           /\ StackUp(s1).layers = StackLayers /\ StackUp(s1).store = StoreOf(s1.profile)
<1>1. s1 \in WorkerType /\ StackUp(s1) \in WorkerType
    BY StackUpType DEF Rests
<1>2. /\ StackUp(s1).awaiting_save = s1.awaiting_save /\ StackUp(s1).forgetting = s1.forgetting
      /\ StackUp(s1).connected = s1.connected /\ StackUp(s1).advertising = s1.advertising
      /\ StackUp(s1).subscribed = s1.subscribed
    BY <1>1 DEF StackUp, WorkerType
<1> QED BY <1>1, <1>2, StackUpCopies, StackUpViews DEF Rests

LEMMA StartFailsKept ==
    ASSUME NEW s1, Rests(s1), NEW post, NEW m, StartStackFails(s1, post, m)
    PROVE  ServeInv'
<1>1. CASE BeginStop(s1, snapshot, "fail", post, m)
    BY <1>1, RestsStop
<1>2. ASSUME NEW left \in PartialStacks,
             BeginStop([StackUp(s1) EXCEPT !.layers = left \cup (s1.layers \cap {"controller_init"})],
                       [session |-> s1.session, state |-> "STARTING"], "fail", post, m)
      PROVE  ServeInv'
    <2> DEFINE up    == StackUp(s1)
               part  == [up EXCEPT !.layers = left \cup (s1.layers \cap {"controller_init"})]
               shown == [session |-> s1.session, state |-> "STARTING"]
    <2>1. Rests(up)
        BY StackUpRests
    <2>2. BeginStop(part, shown, "fail", post, m)
        BY <1>2
    <2>3. left \cup (s1.layers \cap {"controller_init"}) \in SUBSET Layers
        BY DEF PartialStacks, Layers, StackLayers
    <2> HIDE DEF up, shown
    <2>4. Rests(part)
        BY <2>1, <2>3 DEF Rests, WorkerType
    <2> HIDE DEF part
    <2> QED BY <2>2, <2>4, RestsStop
<1> QED BY <1>1, <1>2 DEF StartStackFails

\* a profile to start with is the one that is saved, and all that was asked for
\* this session is to save its peer
Fits(s1) ==
    /\ nvm.peer[s1.profile.id] = s1.profile.peer
    /\ \A i \in 1..Len(evtq) : evtq[i].session = s1.session => evtq[i].peer = s1.profile.peer /\ s1.profile.peer # NoPeer
    /\ \A i \in 1..Len(queue) : queue[i].type = "SAVED" /\ queue[i].session = s1.session /\ queue[i].flag = TRUE
           => s1.profile.peer # NoPeer

LEMMA RestartKept ==
    ASSUME TypeOK, LinkInv, ServeInv, queue' = queue, evtq' = evtq, nvm' = nvm,
           NEW s1, Rests(s1), s1.generation = s.generation, Fits(s1), RestartWith(s1)
    PROVE  ServeInv'
<1> DEFINE up == StackUp(s1)
<1>1. /\ Rests(up) /\ up.generation = s.generation + 1
      /\ up.session = s1.session /\ up.profile = s1.profile
      /\ up.store = StoreOf(s1.profile)
    BY StackUpRests
<1>2. s1.profile.peer \in Peers
    BY DEF Rests, WorkerType, Remotes
<1> HIDE DEF up
<1>3. CASE StartStackFails(s1, work.post, work.msg)
    BY <1>3, StartFailsKept
<1>4. CASE BeginStop(up, snapshot, "fail", work.post, work.msg)
    BY <1>1, <1>4, RestsStop
<1>5. CASE BeginStop(s1, snapshot, "fail", work.post, work.msg)
    BY <1>5, RestsStop
<1>6. CASE /\ ~BondMissing(s1)
           /\ s' = [up EXCEPT !.layers = Layers,
                              !.pairing = s1.profile.peer = NoPeer,
                              !.saved = s1.profile.peer # NoPeer,
                              !.awaiting_save = FALSE, !.forgetting = FALSE, !.suspended = FALSE,
                              !.phase = "resetting"]
           /\ work' = [work EXCEPT !.pc = work.post, !.msg = work.msg]
    <2>1. /\ s'.session = s1.session /\ s'.generation = s.generation + 1 /\ s'.profile = s1.profile
          /\ s'.store = StoreOf(s1.profile)
          /\ s'.saved = (s1.profile.peer # NoPeer) /\ s'.pairing = (s1.profile.peer = NoPeer)
          /\ s'.awaiting_save = FALSE /\ s'.forgetting = FALSE
          /\ s'.connected = FALSE /\ s'.advertising = FALSE /\ s'.subscribed = FALSE
        BY <1>1, <1>6 DEF Rests, WorkerType
    <2>2. work'.pc \in Posts /\ work'.pc \notin {"resume", "bond_wait"} /\ ~Winding'
        BY <1>6 DEF TypeOK, WorkType, Posts, Winding
    <2>3. Agreed' /\ Durably'
        BY <2>1 DEF Fits, Agreed, Asked, Assured, Answered, Durably
    <2>4. Settles(s)'
        BY <1>6, <2>1 DEF Settles, BondMissing, HasBond
    <2>5. ~Clearing' /\ ~Unasking'
        BY <2>1, <2>2 DEF Clearing, Unasking, Pausing
    <2>6. SaveInv'
        BY <2>3, <2>4, <2>5 DEF SaveInv
    <2>7. Guarded'
        BY <2>1, <2>2 DEF Guarded, Sound, Attends
    <2>8. Consistent' /\ Proven'
        BY <2>1, FreshConsistent DEF Proven
    <2> QED BY <2>6, <2>7, <2>8 DEF ServeInv
<1>7. \/ StartStackFails(s1, work.post, work.msg)
      \/ BeginStop(up, snapshot, "fail", work.post, work.msg)
      \/ BeginStop(s1, snapshot, "fail", work.post, work.msg)
      \/ /\ ~BondMissing(s1)
         /\ s' = [up EXCEPT !.layers = Layers,
                            !.pairing = s1.profile.peer = NoPeer,
                            !.saved = s1.profile.peer # NoPeer,
                            !.awaiting_save = FALSE, !.forgetting = FALSE, !.suspended = FALSE,
                            !.phase = "resetting"]
         /\ work' = [work EXCEPT !.pc = work.post, !.msg = work.msg]
    BY DEF RestartWith, StartRuntime, up
<1> QED BY <1>3, <1>4, <1>5, <1>6, <1>7

\* the session in hand is newer than anything asked for, and brings what is saved
LEMMA OpenFits ==
    ASSUME TypeOK, BondInv, OrderInv, work.pc = "resume", work.k = "open", NEW s1,
           s1.session = work.msg.session, s1.profile = work.msg.remote
    PROVE  Fits(s1)
<1>1. Opening /\ work.msg.type = "OPEN" /\ work.msg \in Held
    BY DEF Opening, BondInv, Opened, Held
<1>2. work.msg \in Opens
    BY <1>1 DEF Opens
<1>3. work.msg.session \in Nat /\ \A i \in 1..Len(evtq) : evtq[i].session < work.msg.session /\ evtq[i].session \in Nat
    BY <1>2, ProfileFacts DEF OrderInv, Ahead, Events, TypeOK, WorkType, Messages
<1>4. ASSUME NEW i \in 1..Len(queue), queue[i].type = "SAVED"
      PROVE  queue[i].session < work.msg.session /\ queue[i].session \in Nat
    <2>1. queue[i] \in Held
        BY DEF Held
    <2>2. queue[i] \in Messages
        BY QueueFacts
    <2> QED BY <1>2, <1>4, <2>1, <2>2 DEF OrderInv, Ahead, Messages
<1>5. \A i \in 1..Len(evtq) : evtq[i].session # work.msg.session
    BY <1>3
<1>6. \A i \in 1..Len(queue) : queue[i].type = "SAVED" => queue[i].session # work.msg.session
    BY <1>3, <1>4
<1>7. work.msg.remote.peer = nvm.peer[work.msg.remote.id]
    BY <1>2 DEF OrderInv, AsSaved
<1> QED BY <1>5, <1>6, <1>7 DEF Fits

\* the session that goes on is the one it was
LEMMA PauseFits ==
    ASSUME TypeOK, LinkInv, ServeInv, work.pc = "resume", work.k \in {"restart", "release"}
    PROVE  Fits(s)
<1>1. work.k # "auth_retry"
    OBVIOUS
<1>2. Serving /\ s.awaiting_save = FALSE
    BY <1>1, ResumeRests DEF Serving, Pausing, Rests
<1>3. Agreed /\ Durably
    BY <1>2 DEF ServeInv, SaveInv
<1> QED BY <1>3 DEF Fits, Agreed, Durably, Asked, Assured, Answered

\* no peer is connected or could
Idles(s1) ==
    s1 \in WorkerType /\ s1.connected = FALSE /\ s1.advertising = FALSE /\ s1.subscribed = FALSE

\* the bond is gone, and the one question is to save that
LEMMA ForgetKept ==
    ASSUME TypeOK, NoneAsked, queue' = queue, NEW s1, Idles(s1), HostOn(s1), s1.session = s.session,
           ForgetBonds(s1), s'.generation = s1.generation => Consistent'
    PROVE  ServeInv'
<1>1. CASE BeginStop(s1, snapshot, "fail", "idle", work.msg)
    <2>1. s1 \in WorkerType /\ (s1.subscribed = TRUE => s1.connected = TRUE /\ s1.saved = TRUE)
        BY DEF Idles
    <2>2. "fail" \notin {"auth_retry", "restart", "release", "forget"}
        OBVIOUS
    <2> QED BY <1>1, <2>1, <2>2, EndsKept
<1>2. CASE /\ s' = AwaitingSave([Clear(s1, {"start"}) EXCEPT !.forgetting = TRUE, !.pair_after = work.msg.flag])
           /\ PostPeer(s1, NoPeer)
           /\ Goto(work.post)
    <2> DEFINE cleared == Clear(s1, {"start"})
               asked == [cleared EXCEPT !.forgetting = TRUE, !.pair_after = work.msg.flag]
               armed == Arm(asked, "save")
    <2>1. s1 \in WorkerType /\ work.msg.flag \in BOOLEAN
        BY DEF Idles, TypeOK, WorkType, Messages
    <2>2. /\ cleared \in WorkerType /\ cleared.session = s1.session /\ cleared.generation = s1.generation
          /\ cleared.layers = s1.layers /\ cleared.connected = s1.connected
          /\ cleared.advertising = s1.advertising /\ cleared.subscribed = s1.subscribed
        BY <2>1, ClearType, ClearSets
    <2> HIDE DEF cleared
    <2>3. /\ asked \in WorkerType /\ asked.session = s1.session /\ asked.generation = s1.generation
          /\ asked.layers = s1.layers /\ asked.connected = s1.connected /\ asked.forgetting = TRUE
          /\ asked.advertising = s1.advertising /\ asked.subscribed = s1.subscribed
        BY <2>1, <2>2 DEF WorkerType
    <2>4. s' = [armed EXCEPT !.awaiting_save = TRUE]
        BY <1>2 DEF AwaitingSave, cleared
    <2> HIDE DEF asked
    <2>5. armed \in WorkerType
        BY <2>3, ArmType DEF Deadlines
    <2>6. /\ armed.session = s1.session /\ armed.generation = s1.generation
          /\ armed.layers = s1.layers /\ armed.connected = s1.connected /\ armed.forgetting = TRUE
          /\ armed.advertising = s1.advertising /\ armed.subscribed = s1.subscribed
        BY <2>3, <2>5 DEF Arm, WorkerType
    <2> HIDE DEF armed
    <2>7. /\ s'.session = s.session /\ s'.generation = s1.generation
          /\ s'.layers = s1.layers /\ s'.connected = FALSE /\ s'.forgetting = TRUE /\ s'.awaiting_save = TRUE
          /\ s'.advertising = FALSE /\ s'.subscribed = FALSE
        BY <2>4, <2>5, <2>6 DEF WorkerType, Idles
    <2>8. work'.pc \in Posts /\ work'.pc \notin {"resume", "bond_wait"} /\ ~Winding'
        BY <1>2 DEF Goto, TypeOK, WorkType, Posts, Winding
    <2>9. ~Serving' /\ ~Unasking' /\ Running'
        BY <2>7, <2>8 DEF Serving, Unasking, Pausing, Running, HostOn
    <2>10. Sole'
        <3>1. evtq \in Seq(Events) /\ Len(evtq) \in Nat
            BY ProfileFacts
        <3>2. \A i \in 1..Len(queue') : ~Answered(i)'
            BY <2>7 DEF NoneAsked, Answered
        <3>3. ASSUME NEW i \in 1..Len(evtq'), Asked(i)'
              PROVE  i = Len(evtq) + 1 /\ evtq'[i].peer = NoPeer
            <4>1. CASE evtq' = evtq
                BY <2>7, <3>3, <4>1 DEF NoneAsked, Asked
            <4>2. CASE evtq' = Append(evtq, [session |-> s1.session, peer |-> NoPeer])
                <5>1. CASE i \in 1..Len(evtq)
                    <6>1. evtq'[i] = evtq[i]
                        BY <3>1, <4>2, <5>1
                    <6> QED BY <2>7, <3>3, <5>1, <6>1 DEF NoneAsked, Asked
                <5>2. CASE i = Len(evtq) + 1
                    <6>1. evtq'[i] = [session |-> s1.session, peer |-> NoPeer]
                        BY <3>1, <4>2, <5>2
                    <6> QED BY <5>2, <6>1
                <5>3. Len(evtq') = Len(evtq) + 1
                    BY <3>1, <4>2
                <5> QED BY <3>1, <5>1, <5>2, <5>3
            <4> QED BY <1>2, <4>1, <4>2 DEF PostPeer
        <3> QED BY <3>2, <3>3 DEF Sole, Assured
    <2>11. SaveInv'
        BY <2>9, <2>10 DEF SaveInv
    <2>12. Guarded'
        BY <2>7, <2>8, <2>9 DEF Guarded, Sound, Attends
    <2>13. Consistent' /\ Proven'
        BY <2>7 DEF Proven
    <2> QED BY <2>11, <2>12, <2>13 DEF ServeInv
<1> QED BY <1>1, <1>2 DEF ForgetBonds

LEMMA FinishForgetKept ==
    ASSUME TypeOK, LinkInv, ServeInv, FinishForget
    PROVE  ServeInv'
<1>1. /\ work.pc = "resume" /\ work.k = "forget" /\ queue' = queue /\ work \in WorkType
    BY DEF FinishForget, Resume, TypeOK
<1>2. Rests(s) /\ ~HostOn(s)
    BY <1>1, ResumeRests
<1>3. NoneAsked
    BY <1>1 DEF ServeInv, SaveInv, Unasking, Pausing
<1>4. Shrinks /\ nvm'.peer = nvm.peer
    BY WorkerSteady DEF Worker, FinishSteps, Steady
<1> DEFINE up == StackUp(s)
<1>5. /\ Rests(up) /\ up.generation = s.generation + 1 /\ up.session = s.session /\ up.profile = s.profile
      /\ HostOn(up)
    BY <1>2, StackUpRests DEF HostOn, StackLayers
<1>6. \/ BeginStop(s, snapshot, "fail", work.post, work.msg)
      \/ StartStackFails(s, work.post, work.msg)
      \/ ForgetBonds(up)
      \/ s' = up /\ Goto("bond_wait") /\ evtq' = evtq
    BY DEF FinishForget
<1> HIDE DEF up
<1>7. CASE BeginStop(s, snapshot, "fail", work.post, work.msg)
    BY <1>2, <1>7, RestsStop
<1>8. CASE StartStackFails(s, work.post, work.msg)
    BY <1>2, <1>8, StartFailsKept
<1>9. CASE ForgetBonds(up)
    <2>1. s'.generation = up.generation => Consistent'
        BY <1>1, <1>5, FreshConsistent
    <2>2. Idles(up)
        BY <1>5 DEF Rests, Idles
    <2> QED BY <1>1, <1>3, <1>5, <1>9, <2>1, <2>2, ForgetKept
<1>10. CASE s' = up /\ Goto("bond_wait") /\ evtq' = evtq
    <2>1. work'.pc = "bond_wait" /\ ~Winding'
        BY <1>1, <1>10 DEF Goto, WorkType, Winding
    <2>2. /\ s'.session = s.session /\ s'.profile = s.profile /\ s'.generation = s.generation + 1
          /\ s'.awaiting_save = FALSE /\ s'.forgetting = FALSE /\ s'.connected = FALSE
          /\ s'.advertising = FALSE /\ s'.subscribed = FALSE /\ HostOn(s')
        BY <1>5, <1>10 DEF Rests
    <2>3. NoneAsked'
        BY <1>3, <1>4, <1>10, <2>2, WorkerAsked
    <2>4. SaveInv'
        BY <2>1, <2>2, <2>3 DEF SaveInv, Serving, Clearing, Pausing
    <2>5. Guarded'
        BY <2>1, <2>2 DEF Guarded, Sound, Attends, HostOn
    <2>6. Consistent' /\ Proven'
        BY <1>1, <2>2, FreshConsistent DEF Proven
    <2> QED BY <2>4, <2>5, <2>6 DEF ServeInv
<1> QED BY <1>6, <1>7, <1>8, <1>9, <1>10

LEMMA RemoveBondWaitKept ==
    ASSUME TypeOK, LinkInv, ServeInv, RemoveBondWait
    PROVE  ServeInv'
<1>1. work.pc = "bond_wait" /\ queue' = queue /\ s \in WorkerType /\ ~Winding
    BY DEF RemoveBondWait, TypeOK, Winding
<1>2. HostOn(s) /\ s.connected = FALSE /\ s.advertising = FALSE /\ Running
    BY <1>1 DEF ServeInv, Guarded, Running
<1>3. NoneAsked
    BY <1>1 DEF ServeInv, SaveInv, Unasking
<1>4. s.subscribed = FALSE
    <2>1. s.subscribed # TRUE
        BY <1>2 DEF ServeInv, Guarded, Sound
    <2> QED BY <1>1, <2>1 DEF WorkerType
<1>5. Shrinks
    BY <1>1, SameShrinks
<1>6. ASSUME NEW post, BeginStop(s, snapshot, "fail", post, work.msg)
      PROVE  ServeInv'
    <2>1. "fail" \notin {"auth_retry", "restart", "release", "forget"}
        OBVIOUS
    <2>2. s.subscribed = TRUE => s.connected = TRUE /\ s.saved = TRUE
        BY <1>4
    <2> QED BY <1>1, <1>6, <2>1, <2>2, EndsKept
<1>7. CASE ForgetBonds(s)
    <2>1. s'.generation = s.generation => Consistent'
        BY <1>2, <1>5, ConsistentShrinks DEF ServeInv
    <2>2. Idles(s)
        BY <1>1, <1>2, <1>4 DEF Idles
    <2> QED BY <1>1, <1>2, <1>3, <1>7, <2>1, <2>2, ForgetKept
<1> QED BY <1>6, <1>7 DEF RemoveBondWait

LEMMA FinishStepsKept ==
    ASSUME TypeOK, LinkInv, BondInv, OrderInv, ServeInv, FinishSteps
    PROVE  ServeInv'
<1>1. s \in WorkerType /\ work \in WorkType /\ work.post \in Calm /\ work.post \in Posts
    BY DEF TypeOK, WorkType, Calm
<1>2. ASSUME work.pc = "resume", work.k # "auth_retry", Goto(work.post), s' = s \/ s' = [s EXCEPT !.session = 0]
      PROVE  ServeInv'
    <2>1. Rests(s) /\ ~HostOn(s)
        BY <1>2, ResumeRests
    <2>2. Rests(s') /\ ~HostOn(s')
        BY <1>2, <2>1 DEF Rests, HostOn, WorkerType
    <2>3. work'.pc \in Posts
        BY <1>1, <1>2 DEF Goto, WorkType
    <2> QED BY <2>2, <2>3, RestsKept
<1>3. CASE FinishFail \/ FinishTimeout \/ FinishUnpair \/ FinishClose
    BY <1>2, <1>3 DEF FinishFail, FinishTimeout, FinishUnpair, FinishClose, Resume
<1>4. CASE FinishAuthRetry
    <2>1. /\ work.pc = "resume" /\ work.k = "auth_retry" /\ s' = s /\ work'.pc \in Posts
          /\ evtq' = evtq /\ nvm' = nvm /\ queue' = queue
        BY <1>1, <1>4 DEF FinishAuthRetry, Resume, Goto, WorkType, Outside, UiVars
    <2>2. Shrinks /\ Tends /\ Tends' /\ work'.pc # "resume"
        BY <2>1, SameShrinks DEF Tends, Posts
    <2>3. s.connected = FALSE
        BY <2>1 DEF ServeInv, Guarded
    <2>4. Keeps(s') /\ Attends(s')
        BY <2>1, <2>2, <2>3, SelfKeeps DEF Attends
    <2> QED BY <2>1, <2>2, <2>4, GoesKept
<1>5. CASE FinishOpen
    <2> DEFINE s1 == [s EXCEPT !.session = work.msg.session, !.profile = work.msg.remote]
    <2>1. work.pc = "resume" /\ work.k = "open" /\ RestartWith(s1)
          /\ queue' = queue /\ evtq' = evtq /\ nvm' = nvm
        BY <1>5 DEF FinishOpen, Resume, UiVars
    <2>2. Rests(s)
        BY <2>1, ResumeRests
    <2>3. work.msg.session \in Nat /\ work.msg.remote \in Remotes
        BY <1>1 DEF WorkType, Messages
    <2>4. /\ Rests(s1) /\ s1.generation = s.generation
          /\ s1.session = work.msg.session /\ s1.profile = work.msg.remote
        BY <2>2, <2>3 DEF Rests, WorkerType
    <2> HIDE DEF s1
    <2>5. Fits(s1)
        BY <2>1, <2>4, OpenFits
    <2> QED BY <2>1, <2>4, <2>5, RestartKept
<1>6. ASSUME work.pc = "resume", work.k \in {"restart", "release"}, RestartWith(s),
             queue' = queue, evtq' = evtq, nvm' = nvm
      PROVE  ServeInv'
    <2>1. Rests(s) /\ Fits(s)
        BY <1>6, ResumeRests, PauseFits
    <2> QED BY <1>6, <2>1, RestartKept
<1>7. CASE FinishRestart
    BY <1>6, <1>7 DEF FinishRestart, Resume, UiVars
<1>8. CASE FinishRelease
    <2>1. /\ work.pc = "resume" /\ work.k = "release" /\ queue' = queue /\ evtq' = evtq /\ nvm' = nvm
          /\ (Goto(work.post) /\ s' = s) \/ RestartWith(s)
        BY <1>8 DEF FinishRelease, Resume, UiVars
    <2> QED BY <1>2, <1>6, <2>1
<1> QED BY <1>3, <1>4, <1>5, <1>7, <1>8, FinishForgetKept, RemoveBondWaitKept DEF FinishSteps

\* a step of the worker, when a bond is forgotten in turn and no success is stale
LEMMA WorkerKept ==
    ASSUME TypeOK, LinkInv, LinkInv', BondInv, MatchInv, OrderInv, ServeInv, Hosted, Worker,
           ForgetsInTurn, HandleAuthOk => s.connected = TRUE
    PROVE  ServeInv'
BY StopStepsKept, FinishStepsKept, ApiHandlersKept, CallbackHandlersKept, TailKept DEF Worker, ForgetsInTurn

-----------------------------------------------------------------------------
(* The other tasks                                                           *)

\* another task takes no bond from a worker that serves its profile, and brings no answer
LEMMA OthersServe ==
    ASSUME TypeOK, BondInv, ServeInv, Next, work' = work, SameKept(s, s'), nvm'.peer = nvm.peer,
           \A i \in 1..Len(queue') : queue'[i].type = "SAVED" => i \in 1..Len(queue) /\ queue'[i] = queue[i],
           NEW e \in {0, 1}, \A i \in 1..Len(evtq') : i + e \in 1..Len(evtq) /\ evtq'[i] = evtq[i + e],
           Consistent', Proven'
    PROVE  ServeInv'
<1>1. /\ s'.session = s.session /\ s'.profile = s.profile /\ s'.store = s.store /\ s'.layers = s.layers
      /\ s'.forgetting = s.forgetting /\ s'.awaiting_save = s.awaiting_save /\ s'.advertising = s.advertising
      /\ s'.connected = s.connected /\ s'.encrypted = s.encrypted /\ s'.subscribed = s.subscribed
      /\ s'.saved = s.saved /\ s'.pairing = s.pairing
    BY DEF SameKept
<1>2. (Agreed => Agreed') /\ (Sole => Sole') /\ (NoneAsked => NoneAsked') /\ (Durably' <=> Durably)
    <2>1. 0 \in {0, 1} /\ \A i \in 1..Len(queue') : queue'[i].type = "SAVED" =>
             i + 0 \in 1..Len(queue) /\ queue'[i] = queue[i + 0]
        OBVIOUS
    <2> QED BY <1>1, <2>1, AskedKept
<1>3. /\ Running' = Running /\ Winding' = Winding /\ Serving' = Serving /\ Clearing' = Clearing
      /\ Unasking' = Unasking
    BY <1>1 DEF Running, HostOn, Winding, Serving, Clearing, Unasking, Pausing
<1>4. Serving /\ Running => Settles(s)'
    <2> SUFFICES ASSUME Serving, Running
                 PROVE  Settles(s)'
        OBVIOUS
    <2>1. ~Winding /\ work.pc # "bond_wait"
        <3>1. ~Winding /\ (work.pc = "bond_wait" => ~Winding)
            BY DEF Running
        <3> QED BY <3>1 DEF Serving, Pausing
    <2>2. \A op : ~Removing(op)
        BY <2>1 DEF BondInv, Decided
    <2>3. nvm.bonds \subseteq nvm'.bonds
        BY <2>2, BondsTaken
    <2> QED BY <1>1, <2>3 DEF ServeInv, SaveInv, Settles, HasBond
<1>5. SaveInv'
    BY <1>1, <1>2, <1>3, <1>4 DEF ServeInv, SaveInv
<1>6. Guarded'
    BY <1>1, <1>3 DEF ServeInv, Guarded, Sound, Attends, HostOn
<1> QED BY <1>5, <1>6 DEF ServeInv

\* another task queues neither an OPEN, an answer nor an authentication
LEMMA OthersKeep ==
    ASSUME TypeOK, BondInv, KeptInv, Next, work' = work, SameKept(s, s'), nvm'.peer = nvm.peer,
           NEW m, m.type \notin {"OPEN", "SAVED", "AUTH"}, m.generation <= s.generation,
           queue' = queue \/ queue' = Append(queue, m),
           NEW e \in {0, 1}, \A i \in 1..Len(evtq') : i + e \in 1..Len(evtq) /\ evtq'[i] = evtq[i + e],
           ui'.session \in {ui.session, 0}, link'.live = TRUE => link'.host \in Hosts
    PROVE  KeptInv'
<1>1. /\ s'.session = s.session /\ s'.profile = s.profile /\ s'.generation = s.generation /\ s'.layers = s.layers
      /\ s'.connected = s.connected /\ s'.encrypted = s.encrypted
    BY DEF SameKept
<1>2. queue \in Seq(Messages) /\ Len(queue) \in Nat
    BY QueueFacts DEF TypeOK
<1>3. /\ Len(queue') \in {Len(queue), Len(queue) + 1}
      /\ \A i \in 1..Len(queue) : queue'[i] = queue[i]
      /\ Len(queue') # Len(queue) => queue'[Len(queue')] = m
    <2>1. CASE queue' = queue
        BY <1>2, <2>1
    <2>2. CASE queue' = Append(queue, m)
        <3>1. Len(queue') = Len(queue) + 1 /\ queue'[Len(queue')] = m
            BY <1>2, <2>2
        <3>2. \A i \in 1..Len(queue) : queue'[i] = queue[i]
            BY <1>2, <2>2
        <3> QED BY <1>2, <3>1, <3>2
    <2> QED BY <2>1, <2>2
<1>4. Grows(m.type)
    BY <1>3 DEF Grows
<1>5. \A i \in 1..Len(queue') : queue'[i].type \in {"SAVED", "AUTH"} => i \in 1..Len(queue) /\ queue'[i] = queue[i]
    BY <1>2, <1>3
<1>6. OrderInv'
    <2>1. \A i \in 1..Len(evtq') : \E j \in 1..Len(evtq) : evtq'[i] = evtq[j]
        OBVIOUS
    <2> QED BY <1>1, <2>1, OrderOthers DEF KeptInv
<1>7. Consistent' /\ Proven'
    BY <1>1, <1>4, GrantedGrows DEF KeptInv
<1>8. ServeInv'
    BY <1>5, <1>7, OthersServe DEF KeptInv, ServeInv
<1>9. Hosted'
    BY <1>5 DEF KeptInv, Hosted
<1> QED BY <1>6, <1>8, <1>9 DEF KeptInv, ServeInv

LEMMA SelfSame ==
    ASSUME TypeOK, s' = s
    PROVE  SameKept(s, s')
BY DEF TypeOK, SameKept

\* the callback task queues something other than an authentication, or nothing
LEMMA CallbackTaskKept ==
    ASSUME TypeOK, LinkInv, BondInv, KeptInv, Next, UNCHANGED WorkerVars, evtq' = evtq, ui' = ui, nvm'.peer = nvm.peer,
           queue' = queue
             \/ \E type \in CallbackTypes \ {"AUTH"}, ok \in BOOLEAN, flag \in BOOLEAN :
                   CallbackMessage(type, ok, flag, NoPeer),
           link'.live = TRUE => link'.host \in Hosts
    PROVE  KeptInv'
<1>1. s' = s /\ work' = work /\ SameKept(s, s')
    BY SelfSame DEF WorkerVars
<1>2. /\ 0 \in {0, 1} /\ evtq \in Seq(Events)
      /\ \A i \in 1..Len(evtq') : i + 0 \in 1..Len(evtq) /\ evtq'[i] = evtq[i + 0]
    BY ProfileFacts
<1>3. ASSUME NEW m, m.type \notin {"OPEN", "SAVED", "AUTH"}, m.generation <= s.generation,
             queue' = queue \/ queue' = Append(queue, m)
      PROVE  KeptInv'
    <2>1. ui'.session \in {ui.session, 0}
        OBVIOUS
    <2> QED BY <1>1, <1>2, <1>3, <2>1, OthersKeep
<1>4. CASE queue' = queue
    <2>1. NoMessage.type \notin {"OPEN", "SAVED", "AUTH"} /\ NoMessage.generation <= s.generation
        BY DEF NoMessage, TypeOK, WorkerType
    <2> QED BY <1>3, <1>4, <2>1
<1>5. ASSUME NEW type \in CallbackTypes \ {"AUTH"}, NEW ok \in BOOLEAN, NEW flag \in BOOLEAN,
             CallbackMessage(type, ok, flag, NoPeer)
      PROVE  KeptInv'
    <2> DEFINE m == [NoMessage EXCEPT !.type = type, !.generation = callbackGen,
                                      !.ok = ok, !.flag = flag, !.peer = NoPeer]
    <2>1. m.type = type /\ m.generation = callbackGen
        BY DEF NoMessage
    <2>2. callbackGen <= s.generation
        BY DEF LinkInv, Stamped, TypeOK, WorkerType
    <2>3. queue' = queue \/ queue' = Append(queue, m)
        BY <1>5 DEF CallbackMessage
    <2>4. type \notin {"OPEN", "SAVED", "AUTH"}
        BY <1>5 DEF CallbackTypes
    <2> HIDE DEF m
    <2> QED BY <1>3, <2>1, <2>2, <2>3, <2>4
<1> QED BY <1>4, <1>5

LEMMA CompletionsKept ==
    ASSUME TypeOK, LinkInv, BondInv, KeptInv, Next, Completions
    PROVE  KeptInv'
<1>1. /\ UNCHANGED WorkerVars /\ evtq' = evtq /\ ui' = ui /\ link' = link
    BY DEF Completions, CompleteGate, CompleteTable, CompleteAdvStart, CompleteAdvStop, CompleteRemoveBond,
       CompleteSuspend, Outside, UiVars
<1>2. nvm'.peer = nvm.peer
    <2>1. nvm \in Durable
        BY DEF TypeOK
    <2>2. CASE CompleteRemoveBond
        BY <2>1, <2>2 DEF CompleteRemoveBond, Durable
    <2>3. CASE ~CompleteRemoveBond
        BY <2>3 DEF Completions, CompleteGate, CompleteTable, CompleteAdvStart, CompleteAdvStop, CompleteSuspend, Outside
    <2> QED BY <2>2, <2>3
<1>3. link'.live = TRUE => link'.host \in Hosts
    BY <1>1 DEF KeptInv, Hosted
<1>4. ASSUME NEW type \in CallbackTypes, type # "AUTH", NEW ok \in BOOLEAN, NEW flag \in BOOLEAN,
             CallbackMessage(type, ok, flag, NoPeer)
      PROVE  KeptInv'
    BY <1>1, <1>2, <1>3, <1>4, CallbackTaskKept
<1>5. CASE CompleteGate
    <2>1. PICK g \in Gates, ok \in BOOLEAN : CallbackMessage(GateMessage[g], ok, FALSE, NoPeer)
        BY <1>5 DEF CompleteGate
    <2>2. GateMessage[g] \in CallbackTypes /\ GateMessage[g] # "AUTH"
        BY ConstantsAssumption DEF GateMessage, CallbackTypes, ReadyFlags
    <2> QED BY <1>4, <2>1, <2>2
<1>6. CASE CompleteTable
    <2>1. PICK op \in ctl.ops, ok \in BOOLEAN :
             op[1] \in DOMAIN TableMessage /\ CallbackMessage(TableMessage[op[1]], ok, FALSE, NoPeer)
        BY <1>6 DEF CompleteTable
    <2>2. TableMessage[op[1]] \in CallbackTypes /\ TableMessage[op[1]] # "AUTH"
        BY <2>1 DEF TableMessage, CallbackTypes
    <2> QED BY <1>4, <2>1, <2>2
<1>7. CASE CompleteAdvStart
    <2>1. PICK ok \in BOOLEAN : CallbackMessage("ADV_STARTED", ok, FALSE, NoPeer)
        BY <1>7 DEF CompleteAdvStart
    <2>2. "ADV_STARTED" \in CallbackTypes
        BY DEF CallbackTypes
    <2> QED BY <1>4, <2>1, <2>2
<1>8. CASE CompleteAdvStop \/ CompleteRemoveBond
    <2>1. queue' = queue
        BY <1>8 DEF CompleteAdvStop, CompleteRemoveBond
    <2> QED BY <1>1, <1>2, <1>3, <2>1, CallbackTaskKept
<1>9. CASE CompleteSuspend
    <2>1. PICK name \in {"suspend", "resume"} : CallbackMessage("SUSPEND", TRUE, name = "suspend", NoPeer)
        BY <1>9 DEF CompleteSuspend
    <2>2. "SUSPEND" \in CallbackTypes /\ (name = "suspend") \in BOOLEAN
        BY DEF CallbackTypes
    <2> QED BY <1>4, <2>1, <2>2
<1> QED BY <1>5, <1>6, <1>7, <1>8, <1>9 DEF Completions

LEMMA DeadlineKept ==
    ASSUME TypeOK, BondInv, KeptInv, Next, DeadlinePasses
    PROVE  KeptInv'
<1>1. PICK d \in s.deadlines : s' = [s EXCEPT !.due = @ \cup {d}]
    BY DEF DeadlinePasses
<1>2. SameKept(s, s')
    BY <1>1 DEF TypeOK, WorkerType, SameKept
<1>3. /\ work' = work /\ queue' = queue /\ nvm' = nvm /\ ui' = ui /\ evtq' = evtq /\ link' = link
    BY DEF DeadlinePasses, Outside
<1>4. /\ 0 \in {0, 1} /\ evtq \in Seq(Events)
      /\ \A i \in 1..Len(evtq') : i + 0 \in 1..Len(evtq) /\ evtq'[i] = evtq[i + 0]
    BY <1>3, ProfileFacts
<1>5. NoMessage.type \notin {"OPEN", "SAVED", "AUTH"} /\ NoMessage.generation <= s.generation
    BY DEF NoMessage, TypeOK, WorkerType
<1>6. link'.live = TRUE => link'.host \in Hosts
    BY <1>3 DEF KeptInv, Hosted
<1>7. ui'.session \in {ui.session, 0}
    BY <1>3
<1> QED BY <1>2, <1>3, <1>4, <1>5, <1>6, <1>7, OthersKeep

\* the host that authenticates is the one linked
LEMMA HostAuthKept ==
    ASSUME TypeOK, BondInv, MatchInv, MatchInv', KeptInv, Next, HostAuth
    PROVE  KeptInv'
<1>1. s' = s /\ work' = work /\ evtq' = evtq /\ ui' = ui /\ SameKept(s, s')
    BY SelfSame DEF HostAuth, WorkerVars, UiVars
<1>2. link \in LinkType /\ link.live = TRUE /\ link.host \in Hosts /\ link.phase = "idle" /\ nvm \in Durable
    BY DEF HostAuth, CallbackIdle, TypeOK, LinkType, KeptInv, Hosted
<1>3. PICK ok \in BOOLEAN :
         /\ link' = [link EXCEPT !.enc = @ \/ ok]
         /\ nvm' = IF ok THEN [nvm EXCEPT !.bonds = @ \cup {<<s.store, link.host>>}] ELSE nvm
         /\ CallbackMessage("AUTH", ok, FALSE, link.host)
    BY DEF HostAuth
<1>4. link'.live = TRUE /\ link'.host = link.host /\ link'.phase = "idle" /\ nvm'.peer = nvm.peer
    BY <1>2, <1>3 DEF LinkType, Durable
<1> DEFINE m == [NoMessage EXCEPT !.type = "AUTH", !.generation = callbackGen, !.ok = ok,
                                  !.flag = FALSE, !.peer = link.host]
<1>5. m.type = "AUTH" /\ m.peer = link.host
    BY DEF NoMessage
<1>6. queue' = queue \/ queue' = Append(queue, m)
    BY <1>3 DEF CallbackMessage
<1> HIDE DEF m
<1>7. queue \in Seq(Messages) /\ Len(queue) \in Nat /\ evtq \in Seq(Events)
    BY QueueFacts, ProfileFacts DEF TypeOK
<1>8. \A i \in 1..Len(queue') : \/ i \in 1..Len(queue) /\ queue'[i] = queue[i]
                                \/ i = Len(queue) + 1 /\ queue'[i] = m
    <2>1. CASE queue' = queue
        BY <2>1
    <2>2. CASE queue' = Append(queue, m)
        <3>1. Len(queue') = Len(queue) + 1 /\ queue'[Len(queue) + 1] = m
            BY <1>7, <2>2
        <3>2. \A i \in 1..Len(queue) : queue'[i] = queue[i]
            BY <1>7, <2>2
        <3> QED BY <1>7, <3>1, <3>2
    <2> QED BY <1>6, <2>1, <2>2
<1>9. OrderInv'
    <2>1. m.type \notin {"OPEN", "SAVED"} /\ ui'.session \in {ui.session, 0}
        BY <1>1, <1>5
    <2>2. \A i \in 1..Len(evtq') : \E j \in 1..Len(evtq) : evtq'[i] = evtq[j]
        BY <1>1
    <2> QED BY <1>1, <1>4, <1>6, <2>1, <2>2, OrderOthers DEF KeptInv
<1>10. Consistent'
    <2>1. ~Joining'
        BY <1>4 DEF Joining
    <2>2. Running' => \A i \in 1..Len(queue') : Latest(i)' => queue'[i].peer = link'.host
        BY <1>4, <2>1 DEF MatchInv, Vouched
    <2> QED BY <2>2 DEF Consistent
<1>11. Proven'
    <2> SUFFICES ASSUME Running', s'.connected = TRUE, s'.encrypted = TRUE, NEW i \in 1..Len(queue'), Granted(i)'
                 PROVE  queue'[i].peer = s'.profile.peer
        BY DEF Proven
    <2>1. Running /\ s.connected = TRUE /\ s.encrypted = TRUE
        BY <1>1 DEF Running, HostOn, Winding
    <2>2. CASE i \in 1..Len(queue) /\ queue'[i] = queue[i]
        <3>1. Granted(i)
            BY <1>1, <2>2 DEF Granted, Queued
        <3> QED BY <1>1, <2>1, <2>2, <3>1 DEF KeptInv, Proven
    <2>3. CASE queue'[i] = m
        <3>1. link.host = s.profile.peer
            BY <1>2, <2>1 DEF MatchInv, Trusted
        <3> QED BY <1>1, <1>5, <2>3, <3>1
    <2> QED BY <1>8, <2>2, <2>3
<1>12. ServeInv'
    <2>1. \A i \in 1..Len(queue') : queue'[i].type = "SAVED" => i \in 1..Len(queue) /\ queue'[i] = queue[i]
        BY <1>5, <1>8
    <2>2. 0 \in {0, 1} /\ \A i \in 1..Len(evtq') : i + 0 \in 1..Len(evtq) /\ evtq'[i] = evtq[i + 0]
        BY <1>1, <1>7
    <2> QED BY <1>1, <1>4, <1>10, <1>11, <2>1, <2>2, OthersServe DEF KeptInv, ServeInv
<1>13. Hosted'
    <2>1. \A i \in 1..Len(queue') : queue'[i].type = "AUTH" => queue'[i].peer \in Hosts
        BY <1>2, <1>5, <1>8 DEF KeptInv, Hosted
    <2> QED BY <1>2, <1>4, <2>1 DEF Hosted
<1> QED BY <1>9, <1>12, <1>13 DEF KeptInv, ServeInv

LEMMA LinkStepsKept ==
    ASSUME TypeOK, LinkInv, BondInv, MatchInv, MatchInv', KeptInv, Next, LinkCallbacks \/ Host
    PROVE  KeptInv'
<1>1. link \in LinkType
    BY DEF TypeOK
<1>2. CASE ConnectClear \/ ConnectUp \/ DisconnectMark \/ DisconnectDown \/ LinkEnds
    <2>1. /\ UNCHANGED WorkerVars /\ evtq' = evtq /\ ui' = ui /\ nvm' = nvm /\ queue' = queue
          /\ link'.live = TRUE => link.live = TRUE /\ link'.host = link.host
        BY <1>1, <1>2 DEF ConnectClear, ConnectUp, DisconnectMark, DisconnectDown, LinkEnds, LinkVars, UiVars, LinkType
    <2>2. link'.live = TRUE => link'.host \in Hosts
        BY <2>1 DEF KeptInv, Hosted
    <2> QED BY <2>1, <2>2, CallbackTaskKept
<1>3. CASE ConnectPost \/ DisconnectPost
    <2>1. /\ UNCHANGED WorkerVars /\ evtq' = evtq /\ ui' = ui /\ nvm' = nvm
          /\ link'.live = link.live /\ link'.host = link.host
        BY <1>1, <1>3 DEF ConnectPost, DisconnectPost, LinkVars, UiVars, LinkType
    <2>2. link'.live = TRUE => link'.host \in Hosts
        BY <2>1 DEF KeptInv, Hosted
    <2>3. PICK type \in {"CONNECTED", "DISCONNECTED"} : CallbackMessage(type, TRUE, FALSE, NoPeer)
        BY <1>3 DEF ConnectPost, DisconnectPost
    <2>4. type \in CallbackTypes \ {"AUTH"}
        BY DEF CallbackTypes
    <2> QED BY <2>1, <2>2, <2>3, <2>4, CallbackTaskKept
<1>4. CASE HostConnect
    <2>1. UNCHANGED WorkerVars /\ evtq' = evtq /\ ui' = ui /\ nvm' = nvm /\ queue' = queue
        BY <1>4 DEF HostConnect, LinkVars, UiVars
    <2>2. PICK h \in Hosts : link' = [link EXCEPT !.live = TRUE, !.host = h, !.phase = "connect"]
        BY <1>4 DEF HostConnect
    <2>3. link'.host \in Hosts
        BY <1>1, <2>2 DEF LinkType
    <2> QED BY <2>1, <2>3, CallbackTaskKept
<1>5. CASE HostWrite \/ HostSuspend
    <2>1. UNCHANGED WorkerVars /\ evtq' = evtq /\ ui' = ui /\ nvm' = nvm /\ link' = link
        BY <1>5 DEF HostWrite, HostSuspend, Outside, UiVars
    <2>2. link'.live = TRUE => link'.host \in Hosts
        BY <2>1 DEF KeptInv, Hosted
    <2>3. CallbackMessage("WRITE", TRUE, FALSE, NoPeer) /\ "WRITE" \in CallbackTypes \ {"AUTH"}
        BY <1>5 DEF HostWrite, HostSuspend, CallbackTypes
    <2> QED BY <2>1, <2>2, <2>3, CallbackTaskKept
<1> QED BY <1>2, <1>3, <1>4, <1>5, HostAuthKept DEF LinkCallbacks, Host

-----------------------------------------------------------------------------
(* The UI task                                                               *)

\* events stay, or the first one is taken
LEMMA EventsShift ==
    ASSUME TypeOK, evtq' = evtq \/ (evtq # << >> /\ evtq' = Tail(evtq))
    PROVE  \E e \in {0, 1} : \A i \in 1..Len(evtq') : i + e \in 1..Len(evtq) /\ evtq'[i] = evtq[i + e]
<1>1. evtq \in Seq(Events) /\ Len(evtq) \in Nat
    BY ProfileFacts
<1>2. CASE evtq' = evtq
    <2>1. \A i \in 1..Len(evtq') : i + 0 \in 1..Len(evtq) /\ evtq'[i] = evtq[i + 0]
        BY <1>1, <1>2
    <2> QED BY <2>1
<1>3. CASE evtq # << >> /\ evtq' = Tail(evtq)
    <2>1. \A i \in 1..Len(evtq') : i + 1 \in 1..Len(evtq) /\ evtq'[i] = evtq[i + 1]
        BY <1>1, <1>3
    <2> QED BY <2>1
<1> QED BY <1>2, <1>3

\* messages that only name a session, events that are dropped, and an open that begins
LEMMA UiPlainKept ==
    ASSUME TypeOK, BondInv, KeptInv, Next,
           \/ UiClose \/ UiForget \/ UiTap \/ UiRelease \/ UiPeerStale
           \/ \E p \in Profiles : UiOpen(p)
           \/ UiOpenSend /\ ~Room
    PROVE  KeptInv'
<1>1. nvm \in Durable /\ ui \in UiType /\ s.generation \in Nat
    BY DEF TypeOK, WorkerType
<1>2. s' = s /\ work' = work /\ link' = link
    BY DEF UiClose, UiForget, UiTap, UiRelease, UiPeerStale, UiOpen, UiOpenSend, Background, WorkerVars
<1>3. SameKept(s, s') /\ (link'.live = TRUE => link'.host \in Hosts)
    BY <1>2, SelfSame DEF KeptInv, Hosted
<1>4. nvm'.peer = nvm.peer
    <2>1. nvm' = nvm \/ \E p \in Profiles : nvm' = [nvm EXCEPT !.legacy[p] = FALSE]
        BY DEF UiClose, UiForget, UiTap, UiRelease, UiPeerStale, UiOpen, UiOpenSend
    <2> QED BY <1>1, <2>1 DEF Durable
<1>5. ui'.session \in {ui.session, 0}
    BY <1>1 DEF UiClose, UiForget, UiTap, UiRelease, UiPeerStale, UiOpen, UiOpenSend, UiType
<1>6. PICK e \in {0, 1} : \A i \in 1..Len(evtq') : i + e \in 1..Len(evtq) /\ evtq'[i] = evtq[i + e]
    BY EventsShift DEF UiClose, UiForget, UiTap, UiRelease, UiPeerStale, UiOpen, UiOpenSend
<1>7. ASSUME NEW m, m.type \notin {"OPEN", "SAVED", "AUTH"}, m.generation = 0,
             queue' = queue \/ queue' = Append(queue, m)
      PROVE  KeptInv'
    <2>1. m.generation <= s.generation
        BY <1>1, <1>7
    <2> QED BY <1>2, <1>3, <1>4, <1>5, <1>6, <1>7, <2>1, OthersKeep
<1>8. ASSUME NEW m, m.type \notin {"OPEN", "SAVED", "AUTH"}, m.generation = 0, Send(m) \/ Enqueue(m)
      PROVE  KeptInv'
    BY <1>7, <1>8 DEF Send, Enqueue
<1>9. CASE UiClose
    <2> DEFINE m == [NoMessage EXCEPT !.type = "CLOSE"]
    <2>1. Send(m)
        BY <1>9 DEF UiClose
    <2>2. m.type = "CLOSE" /\ m.generation = 0
        BY DEF NoMessage
    <2> HIDE DEF m
    <2> QED BY <1>8, <2>1, <2>2
<1>10. CASE UiForget
    <2>1. PICK flag \in BOOLEAN :
             Enqueue([NoMessage EXCEPT !.type = "FORGET", !.session = ui.session, !.flag = flag])
        BY <1>10 DEF UiForget
    <2> DEFINE m == [NoMessage EXCEPT !.type = "FORGET", !.session = ui.session, !.flag = flag]
    <2>2. Enqueue(m)
        BY <2>1
    <2>3. m.type = "FORGET" /\ m.generation = 0
        BY DEF NoMessage
    <2> HIDE DEF m
    <2> QED BY <1>8, <2>2, <2>3
<1>11. CASE UiTap \/ UiRelease
    <2>1. PICK type \in {"TAP", "RELEASE"} : Enqueue([NoMessage EXCEPT !.type = type, !.session = ui.session])
        BY <1>11 DEF UiTap, UiRelease
    <2> DEFINE m == [NoMessage EXCEPT !.type = type, !.session = ui.session]
    <2>2. Enqueue(m)
        BY <2>1
    <2>3. m.type = type /\ m.generation = 0
        BY DEF NoMessage
    <2> HIDE DEF m
    <2> QED BY <1>8, <2>1, <2>2, <2>3
<1>12. CASE UiPeerStale \/ (\E p \in Profiles : UiOpen(p)) \/ (UiOpenSend /\ ~Room)
    <2>1. queue' = queue
        BY <1>12 DEF UiPeerStale, UiOpen, UiOpenSend
    <2>2. NoMessage.type \notin {"OPEN", "SAVED", "AUTH"} /\ NoMessage.generation = 0
        BY DEF NoMessage
    <2> QED BY <1>7, <2>1, <2>2
<1> QED BY <1>9, <1>10, <1>11, <1>12

\* a session is opened: it is the last, and brings what is saved
LEMMA UiOpenSendKept ==
    ASSUME TypeOK, BondInv, KeptInv, Next, UiOpenSend, Room
    PROVE  KeptInv'
<1>1. ui \in UiType /\ ui.seq \in Nat /\ queue \in Seq(Messages) /\ Len(queue) \in Nat /\ evtq \in Seq(Events)
      /\ s.session \in Nat /\ s.generation \in Nat
    BY QueueFacts, ProfileFacts DEF TypeOK, UiType, WorkerType
<1>2. s' = s /\ work' = work /\ link' = link /\ nvm' = nvm /\ evtq' = evtq /\ ui.pc = "opening"
    BY DEF UiOpenSend, Background, WorkerVars
<1> DEFINE m == [NoMessage EXCEPT !.type = "OPEN", !.session = ui.seq, !.remote = Saved(ui.profile)]
<1>3. /\ m.type = "OPEN" /\ m.session = ui.seq /\ m.remote = Saved(ui.profile) /\ m.generation = 0
      /\ m.remote.peer = nvm.peer[m.remote.id]
    BY DEF NoMessage, Saved
<1>4. queue' = Append(queue, m)
    BY DEF UiOpenSend, Enqueue
<1> HIDE DEF m
<1>5. ui'.session = ui.seq
    BY <1>1 DEF UiOpenSend, UiType
<1>6. Len(queue') = Len(queue) + 1 /\ queue'[Len(queue) + 1] = m
    BY <1>1, <1>4
<1>7. \A i \in 1..Len(queue) : queue'[i] = queue[i]
    BY <1>1, <1>4
<1>8. Opening' = Opening /\ work'.msg = work.msg
    BY <1>2 DEF Opening, Winding
<1>9. \A x \in Held' : x \in Held \/ x = m
    BY <1>2, <1>4, HeldGrows
<1>10. /\ s.session < ui.seq
       /\ \A x \in Held : x.session < ui.seq
       /\ \A i \in 1..Len(evtq) : evtq[i].session < ui.seq
    BY <1>2 DEF BondInv, Numbered, Issued
<1>11. \A i \in 1..Len(queue) : queue[i] \in Held
    BY DEF Held
<1>12. Opening => work.msg \in Held
    BY DEF Held
<1>13. \A x \in Held : x.session \in Nat
    BY HeldFacts DEF Messages
<1>14. Ahead'
    <2>1. ASSUME NEW i \in 1..Len(queue'), NEW j \in 1..Len(queue'), i < j,
                 queue'[i].type = "OPEN", queue'[j].type = "OPEN"
          PROVE  queue'[i].session < queue'[j].session
        <3>1. i \in 1..Len(queue) /\ queue'[i] = queue[i]
            BY <1>1, <1>6, <1>7, <2>1
        <3>2. CASE j \in 1..Len(queue)
            <4>1. queue'[j] = queue[j]
                BY <1>7, <3>2
            <4> QED BY <2>1, <3>1, <3>2, <4>1 DEF KeptInv, OrderInv, Ahead
        <3>3. CASE j = Len(queue) + 1
            BY <1>3, <1>6, <1>10, <1>11, <3>1, <3>3
        <3> QED BY <1>1, <1>6, <3>2, <3>3
    <2>2. ASSUME Opening', NEW j \in 1..Len(queue'), queue'[j].type = "OPEN"
          PROVE  work'.msg.session < queue'[j].session
        <3>1. CASE j \in 1..Len(queue)
            <4>1. queue'[j] = queue[j]
                BY <1>7, <3>1
            <4> QED BY <1>8, <2>2, <3>1, <4>1 DEF KeptInv, OrderInv, Ahead
        <3>2. CASE j = Len(queue) + 1
            BY <1>3, <1>6, <1>8, <1>10, <1>12, <2>2, <3>2
        <3> QED BY <1>1, <1>6, <3>1, <3>2
    <2>3. ASSUME NEW x \in Opens'
          PROVE  /\ s'.session < x.session
                 /\ \A i \in 1..Len(evtq') : evtq'[i].session < x.session
                 /\ \A a \in Held' : a.type = "SAVED" => a.session < x.session
        <3>1. \A a \in Held' : a.type = "SAVED" => a \in Held
            BY <1>3, <1>9
        <3>2. CASE x \in Opens
            BY <1>2, <3>1, <3>2 DEF KeptInv, OrderInv, Ahead
        <3>3. CASE x = m
            BY <1>2, <1>3, <1>10, <3>1, <3>3
        <3> QED BY <1>9, <2>3, <3>2, <3>3 DEF Opens
    <2> QED BY <2>1, <2>2, <2>3 DEF Ahead
<1>15. Newest'
    <2>1. s'.session <= ui'.session
        BY <1>1, <1>2, <1>5, <1>10
    <2>2. \A x \in Opens' : x.session <= ui'.session
        <3>1. \A x \in Opens' : x \in Held \/ x = m
            BY <1>9 DEF Opens
        <3> QED BY <1>1, <1>3, <1>5, <1>10, <1>13, <3>1
    <2> QED BY <2>1, <2>2 DEF Newest
<1>16. Reached' /\ AsSaved'
    <2>1. \A x \in Opens' : x \in Opens \/ x = m
        BY <1>9 DEF Opens
    <2> QED BY <1>2, <1>3, <2>1 DEF KeptInv, OrderInv, Reached, AsSaved
<1>17. Consistent' /\ Proven'
    <2>1. Grows("OPEN")
        BY <1>1, <1>3, <1>6, <1>7 DEF Grows
    <2> QED BY <1>2, <2>1, GrantedGrows DEF KeptInv
<1>18. \A i \in 1..Len(queue') : queue'[i].type \in {"SAVED", "AUTH"} => i \in 1..Len(queue) /\ queue'[i] = queue[i]
    BY <1>1, <1>3, <1>6, <1>7
<1>19. ServeInv'
    <2>1. 0 \in {0, 1} /\ \A i \in 1..Len(evtq') : i + 0 \in 1..Len(evtq) /\ evtq'[i] = evtq[i + 0]
        BY <1>1, <1>2
    <2>2. SameKept(s, s') /\ nvm'.peer = nvm.peer
        BY <1>2, SelfSame
    <2> QED BY <1>2, <1>17, <1>18, <2>1, <2>2, OthersServe DEF KeptInv, ServeInv
<1>20. Hosted'
    BY <1>2, <1>18 DEF KeptInv, Hosted
<1> QED BY <1>14, <1>15, <1>16, <1>19, <1>20 DEF KeptInv, ServeInv, OrderInv

\* the UI saves what was asked for its session, which is still the last
LEMMA UiPeerKept ==
    ASSUME TypeOK, BondInv, TimedInv, KeptInv, Next, UiPeer
    PROVE  KeptInv'
<1>1. /\ nvm \in Durable /\ ui' = ui /\ ui \in UiType /\ ui.session \in Nat /\ ui.session # 0
      /\ ui.profile \in Profiles /\ s.session \in Nat /\ s.generation \in Nat
    BY ProfileFacts DEF TypeOK, WorkerType, UiPeer, InSession
<1>2. s' = s /\ work' = work /\ link' = link /\ evtq # << >> /\ evtq' = Tail(evtq) /\ PeerEvent.session = ui.session
    BY DEF UiPeer, Background, WorkerVars
<1>3. evtq \in Seq(Events) /\ Len(evtq) \in Nat /\ queue \in Seq(Messages) /\ Len(queue) \in Nat
    BY QueueFacts, ProfileFacts DEF TypeOK
<1>4. 1 \in 1..Len(evtq) /\ PeerEvent = evtq[1]
    BY <1>2, <1>3 DEF PeerEvent
<1>5. \A i \in 1..Len(evtq') : i + 1 \in 1..Len(evtq) /\ evtq'[i] = evtq[i + 1]
    BY <1>2, <1>3
<1> DEFINE p == ui.profile
           legacy == nvm.legacy[p] /\ PeerEvent.peer # NoPeer
           Answer(ok) == [NoMessage EXCEPT !.type = "SAVED", !.session = ui.session, !.flag = ok,
                              !.remote = [id |-> p, peer |-> PeerEvent.peer, legacy |-> legacy]]
<1>6. PICK ok \in BOOLEAN :
         /\ IF ok THEN nvm' = [nvm EXCEPT !.peer[p] = PeerEvent.peer, !.legacy[p] = legacy]
                  ELSE nvm' = nvm
         /\ Send(Answer(ok))
    BY DEF UiPeer
<1> DEFINE m == Answer(ok)
<1>7. /\ m.type = "SAVED" /\ m.session = ui.session /\ m.flag = ok /\ m.generation = 0
      /\ m.remote.id = p /\ m.remote.peer = PeerEvent.peer
    BY DEF NoMessage
<1>8. queue' = queue \/ queue' = Append(queue, m)
    BY <1>6 DEF Send, Enqueue
<1>9. ok = TRUE => nvm' = [nvm EXCEPT !.peer[p] = PeerEvent.peer, !.legacy[p] = legacy]
    BY <1>6
<1>10. ok # TRUE => nvm' = nvm
    BY <1>6
<1> HIDE DEF m, legacy
<1>11. /\ ok = TRUE => nvm'.peer = [nvm.peer EXCEPT ![p] = PeerEvent.peer]
       /\ ok # TRUE => nvm'.peer = nvm.peer
       /\ nvm'.bonds = nvm.bonds
    BY <1>1, <1>9, <1>10 DEF Durable
<1>12. ok = TRUE => nvm'.peer[p] = PeerEvent.peer
    BY <1>1, <1>11 DEF Durable
<1>13. /\ Len(queue') \in {Len(queue), Len(queue) + 1}
       /\ \A i \in 1..Len(queue) : queue'[i] = queue[i]
       /\ Len(queue') # Len(queue) => queue'[Len(queue) + 1] = m
    <2>1. CASE queue' = queue
        BY <1>3, <2>1
    <2>2. CASE queue' = Append(queue, m)
        <3>1. Len(queue') = Len(queue) + 1 /\ queue'[Len(queue) + 1] = m
            BY <1>3, <2>2
        <3>2. \A i \in 1..Len(queue) : queue'[i] = queue[i]
            BY <1>3, <2>2
        <3> QED BY <3>1, <3>2
    <2> QED BY <1>8, <2>1, <2>2
<1>14. \A i \in 1..Len(queue') : \/ i \in 1..Len(queue) /\ queue'[i] = queue[i]
                                 \/ i = Len(queue) + 1 /\ queue'[i] = m
    BY <1>3, <1>13
<1>15. Opens = {}
    <2>1. ASSUME NEW x \in Opens
          PROVE  FALSE
        <3>1. evtq[1].session < x.session
            BY <1>4 DEF KeptInv, OrderInv, Ahead
        <3>2. x.session <= ui.session /\ x.session \in Nat
            BY <1>1, HeldFacts DEF KeptInv, OrderInv, Newest, Opens, Messages
        <3> QED BY <1>1, <1>2, <1>4, <3>1, <3>2
    <2> QED BY <2>1
<1>16. s.session \in {0, ui.session}
    <2>1. s.session <= ui.session
        BY <1>1 DEF KeptInv, OrderInv, Newest
    <2>2. s.session # 0 => ui.session <= s.session
        BY <1>2, <1>4 DEF KeptInv, OrderInv, Reached
    <2> QED BY <1>1, <2>1, <2>2
<1>17. OrderInv'
    <2>1. \A x \in Held' : x \in Held \/ x = m
        BY <1>2, <1>8, HeldGrows
    <2>2. Opens' = {}
        BY <1>7, <1>15, <2>1 DEF Opens
    <2>3. \A i \in 1..Len(queue') : queue'[i].type # "OPEN"
        BY <2>2 DEF Opens, Held
    <2>4. Ahead'
        BY <2>2, <2>3 DEF Ahead
    <2>5. Newest' /\ AsSaved'
        BY <1>1, <1>2, <2>2 DEF KeptInv, OrderInv, Newest, AsSaved
    <2>6. Reached'
        BY <1>2, <1>5 DEF KeptInv, OrderInv, Reached
    <2> QED BY <2>4, <2>5, <2>6 DEF OrderInv
<1>18. /\ Running' = Running /\ Serving' = Serving /\ Clearing' = Clearing /\ Unasking' = Unasking
    BY <1>2 DEF Running, HostOn, Winding, Serving, Clearing, Unasking, Pausing
<1>19. \A i \in 1..Len(evtq') : Asked(i)' => Asked(i + 1) /\ evtq'[i] = evtq[i + 1]
    BY <1>2, <1>5 DEF Asked
<1>20. \A i \in 1..Len(queue') : Answered(i)' =>
          \/ Answered(i) /\ (Assured(i)' <=> Assured(i)) /\ queue'[i] = queue[i]
          \/ i = Len(queue) + 1 /\ queue'[i] = m
    BY <1>2, <1>14 DEF Answered, Assured
<1>21. SaveInv'
    <2>1. CASE s.session = 0
        <3>1. ~HostOn(s) /\ ~((Winding \/ work.pc = "resume") /\ work.k \in Restarts)
            BY <2>1 DEF TimedInv, Seated
        <3>2. ~Serving /\ ~Clearing /\ ~Unasking
            BY <3>1 DEF Serving, Clearing, Unasking, Pausing, Running, Restarts, KeptInv, Guarded
        <3> QED BY <1>18, <3>2 DEF SaveInv
    <2>2. CASE s.session = ui.session
        <3>1. s.profile.id = p
            BY <1>1, <2>2 DEF BondInv, Named
        <3>2. Asked(1)
            BY <1>2, <1>4, <2>2 DEF Asked
        <3>3. ~Unasking'
            BY <1>4, <1>18, <3>2 DEF KeptInv, SaveInv, NoneAsked
        <3>4. ASSUME Serving
              PROVE  Agreed' /\ (s'.awaiting_save = FALSE => Durably') /\ (Running' => Settles(s)')
            <4>1. Agreed /\ (s.awaiting_save = FALSE => Durably) /\ (Running => Settles(s))
                BY <3>4 DEF KeptInv, SaveInv
            <4>2. PeerEvent.peer = s.profile.peer /\ s.profile.peer # NoPeer
                BY <1>4, <3>2, <4>1 DEF Agreed
            <4>3. (ok = TRUE \/ Durably) => Durably'
                BY <1>2, <1>11, <1>12, <3>1, <4>2 DEF Durably
            <4>4. \A i \in 1..Len(evtq') : Asked(i)' => evtq'[i].peer = s'.profile.peer /\ s'.profile.peer # NoPeer
                BY <1>2, <1>5, <1>19, <4>1 DEF Agreed
            <4>5. \A i \in 1..Len(queue') : Assured(i)' => s'.profile.peer # NoPeer /\ Durably'
                <5> SUFFICES ASSUME NEW i \in 1..Len(queue'), Assured(i)'
                             PROVE  s'.profile.peer # NoPeer /\ Durably'
                    OBVIOUS
                <5>1. Answered(i)' /\ queue'[i].flag = TRUE
                    BY DEF Assured
                <5>2. CASE Answered(i) /\ (Assured(i)' <=> Assured(i))
                    BY <1>2, <4>1, <4>2, <4>3, <5>2 DEF Agreed, Answered
                <5>3. CASE queue'[i] = m
                    BY <1>2, <1>7, <4>2, <4>3, <5>1, <5>3
                <5> QED BY <1>20, <5>1, <5>2, <5>3
            <4>6. Running' => Settles(s)'
                BY <1>2, <1>11, <1>18, <4>1 DEF Settles, HasBond
            <4> QED BY <1>2, <4>1, <4>3, <4>4, <4>5, <4>6 DEF Agreed
        <3>5. ASSUME Clearing
              PROVE  Sole'
            <4>1. Sole
                BY <3>5 DEF KeptInv, SaveInv
            <4>2. /\ PeerEvent.peer = NoPeer
                  /\ \A j \in 1..Len(evtq) : Asked(j) => j = 1
                  /\ \A j \in 1..Len(queue) : ~Answered(j)
                BY <1>4, <3>2, <4>1 DEF Sole
            <4>3. \A i \in 1..Len(evtq') : ~Asked(i)'
                <5> SUFFICES ASSUME NEW i \in 1..Len(evtq'), Asked(i)'
                             PROVE  FALSE
                    OBVIOUS
                <5>1. i + 1 \in 1..Len(evtq) /\ Asked(i + 1) /\ i \in Nat /\ i # 0
                    BY <1>5, <1>19
                <5> QED BY <4>2, <5>1
            <4>4. \A i \in 1..Len(queue') : Answered(i)' => i = Len(queue) + 1 /\ queue'[i] = m
                BY <1>20, <4>2 DEF Answered
            <4>5. \A i \in 1..Len(queue') : Assured(i)' =>
                     /\ queue'[i].remote.id = s'.profile.id /\ queue'[i].remote.peer = NoPeer
                     /\ nvm'.peer[s'.profile.id] = NoPeer
                <5> SUFFICES ASSUME NEW i \in 1..Len(queue'), Assured(i)'
                             PROVE  /\ queue'[i].remote.id = s'.profile.id /\ queue'[i].remote.peer = NoPeer
                                    /\ nvm'.peer[s'.profile.id] = NoPeer
                    OBVIOUS
                <5>1. queue'[i] = m /\ m.flag = TRUE
                    BY <4>4 DEF Assured
                <5> QED BY <1>2, <1>7, <1>12, <3>1, <4>2, <5>1
            <4> QED BY <4>3, <4>4, <4>5 DEF Sole
        <3> QED BY <1>18, <3>3, <3>4, <3>5 DEF SaveInv
    <2> QED BY <1>16, <2>1, <2>2
<1>22. Guarded'
    BY <1>2, <1>18 DEF KeptInv, Guarded, Sound, Attends, HostOn
<1>23. Consistent' /\ Proven'
    <2>1. Grows("SAVED")
        BY <1>1, <1>3, <1>7, <1>13 DEF Grows
    <2> QED BY <1>2, <2>1, GrantedGrows DEF KeptInv
<1>24. Hosted'
    <2>1. \A i \in 1..Len(queue') : queue'[i].type = "AUTH" => i \in 1..Len(queue) /\ queue'[i] = queue[i]
        BY <1>7, <1>14
    <2> QED BY <1>2, <2>1 DEF KeptInv, Hosted
<1> QED BY <1>17, <1>21, <1>22, <1>23, <1>24 DEF KeptInv

LEMMA IdleKept ==
    ASSUME s = IdleWorker, work = IdleWork, queue = << >>, evtq = << >>, link = IdleLink, ui = IdleUi
    PROVE  KeptInv
<1>1. /\ s.session = 0 /\ s.layers = {} /\ s.awaiting_save = FALSE /\ s.forgetting = FALSE
      /\ s.connected = FALSE /\ s.advertising = FALSE /\ s.subscribed = FALSE
      /\ work.pc = "idle" /\ work.k = "none" /\ Len(queue) = 0 /\ Len(evtq) = 0
      /\ link.live = FALSE /\ ui.session = 0
    BY DEF IdleWorker, IdleWork, IdleLink, IdleUi
<1>2. 1..Len(queue) = {} /\ 1..Len(evtq) = {}
    BY <1>1
<1>3. ~Running /\ ~Winding /\ ~Opening
    BY <1>1 DEF Running, HostOn, Winding, Opening
<1>4. Opens = {}
    BY <1>2, <1>3 DEF Opens, Held
<1>5. OrderInv
    BY <1>1, <1>2, <1>4 DEF OrderInv, Ahead, Newest, Reached, AsSaved
<1>6. ~Serving /\ ~Clearing /\ ~Unasking
    BY <1>1, <1>3 DEF Serving, Clearing, Unasking, Pausing
<1>7. SaveInv /\ Guarded /\ Consistent /\ Proven /\ Hosted
    BY <1>1, <1>2, <1>3, <1>6 DEF SaveInv, Guarded, Sound, Attends, Consistent, Proven, Hosted
<1> QED BY <1>5, <1>7 DEF KeptInv

LEMMA PowerLossKept ==
    ASSUME PowerLoss
    PROVE  KeptInv'
<1>1. /\ s'.session = 0 /\ s'.layers = {} /\ s'.awaiting_save = FALSE /\ s'.forgetting = FALSE
      /\ s'.connected = FALSE /\ s'.advertising = FALSE /\ s'.subscribed = FALSE
      /\ work'.pc = "idle" /\ work'.k = "none" /\ Len(queue') = 0 /\ Len(evtq') = 0
      /\ link'.live = FALSE /\ ui'.session = 0
    BY DEF PowerLoss, IdleWorker, IdleWork, IdleLink, IdleUi
<1>2. 1..Len(queue') = {} /\ 1..Len(evtq') = {}
    BY <1>1
<1>3. ~Running' /\ ~Winding' /\ ~Opening'
    BY <1>1 DEF Running, HostOn, Winding, Opening
<1>4. Opens' = {}
    BY <1>2, <1>3 DEF Opens, Held
<1>5. OrderInv'
    BY <1>1, <1>2, <1>4 DEF OrderInv, Ahead, Newest, Reached, AsSaved
<1>6. ~Serving' /\ ~Clearing' /\ ~Unasking'
    BY <1>1, <1>3 DEF Serving, Clearing, Unasking, Pausing
<1>7. SaveInv' /\ Guarded' /\ Consistent' /\ Proven' /\ Hosted'
    BY <1>1, <1>2, <1>3, <1>6 DEF SaveInv, Guarded, Sound, Attends, Consistent, Proven, Hosted
<1> QED BY <1>5, <1>7 DEF KeptInv

LEMMA KeptInvStep ==
    ASSUME TypeOK, LinkInv, LinkInv', BondInv, TimedInv, MatchInv, MatchInv', KeptInv,
           [Next]_vars, [AuthsInTime]_vars, [ForgetsInTurn]_vars
    PROVE  KeptInv'
<1>1. CASE UNCHANGED vars
    BY <1>1 DEF vars, KeptInv, OrderInv, Ahead, Newest, Reached, AsSaved, Opens, Held, Opening, SaveInv, Serving,
       Clearing, Unasking, Pausing, Agreed, Sole, NoneAsked, Asked, Answered, Assured, Durably, Settles, HasBond,
       Guarded, Sound, Attends, HostOn, Running, Winding, Consistent, Proven, Latest, Granted, Queued, Hosted
<1>2. CASE Next /\ AuthsInTime /\ ForgetsInTurn
    <2>1. HandleAuthOk => s.connected = TRUE
        BY <1>2 DEF AuthsInTime
    <2>2. CASE Worker
        <3>1. OrderInv'
            BY <2>2, WorkerOrder DEF KeptInv
        <3>2. Hosted'
            BY <2>2, WorkerHosted DEF KeptInv
        <3>3. ServeInv'
            BY <1>2, <2>1, <2>2, WorkerKept DEF KeptInv, ServeInv
        <3> QED BY <3>1, <3>2, <3>3 DEF KeptInv, ServeInv
    <2>3. CASE UiMenu \/ UiTurn
        BY <1>2, <2>3, UiPlainKept, UiOpenSendKept, UiPeerKept DEF UiMenu, UiTurn
    <2> QED BY <1>2, <2>2, <2>3, CompletionsKept, LinkStepsKept, DeadlineKept, PowerLossKept DEF Next
<1> QED BY <1>1, <1>2

\* A session in use serves the host its durable profile names, with the keys of
\* that profile's bond database, when the waits and calls of a stop succeed, no
\* report of the radio and no OPEN is refused by a full queue, no authentication
\* is handled after its link was given up, and no profile is forgotten before
\* what was asked of the UI for it is answered (bt_runtime.c:801-821, 699-708; at
\* 680 an answer names its session, not the question it answers).
THEOREM InUseIsSaved ==
    CleanStops =>
        (Spec /\ [][ReportsQueued]_vars /\ [][AuthsInTime]_vars /\ [][ForgetsInTurn]_vars => []InUseIsDurable)
<1> SUFFICES ASSUME CleanStops
             PROVE  Spec /\ [][ReportsQueued]_vars /\ [][AuthsInTime]_vars /\ [][ForgetsInTurn]_vars => []InUseIsDurable
    OBVIOUS
<1>1. Init => TimedInv
    BY IdleTimed DEF Init
<1>2. Init => MatchInv
    BY IdleMatched DEF Init
<1>3. Init => KeptInv
    BY IdleKept DEF Init
<1>4. [ReportsQueued]_vars => [StartsQueued]_vars
    BY DEF ReportsQueued, StartsQueued
<1>5. TypeOK /\ StoppedInv /\ LinkInv /\ LinkInv' /\ BondInv /\ TimedInv /\ [Next]_vars /\ [StartsQueued]_vars => TimedInv'
    BY TimedInvStep
<1>6. TypeOK /\ StoppedInv /\ LinkInv /\ LinkInv' /\ BondInv /\ TimedInv /\ TimedInv' /\ MatchInv /\ [Next]_vars
         /\ [ReportsQueued]_vars /\ [AuthsInTime]_vars => MatchInv'
    BY MatchInvStep
<1>7. TypeOK /\ LinkInv /\ LinkInv' /\ BondInv /\ TimedInv /\ MatchInv /\ MatchInv' /\ KeptInv /\ [Next]_vars
         /\ [AuthsInTime]_vars /\ [ForgetsInTurn]_vars => KeptInv'
    BY KeptInvStep
<1>8. TypeOK /\ LinkInv /\ MatchInv /\ KeptInv => InUseIsDurable
    <2> SUFFICES ASSUME TypeOK, LinkInv, MatchInv, KeptInv, InUse
                 PROVE  s.profile.peer # NoPeer /\ Durably /\ HasBond(s.store, s.profile.peer)
        BY DEF InUseIsDurable, Durably
    <2>1. s \in WorkerType /\ s.awaiting_save \in BOOLEAN /\ s.forgetting \in BOOLEAN /\ s.connected \in BOOLEAN
        BY DEF TypeOK, WorkerType
    <2>2. work.pc \in Calm /\ s.saved = TRUE /\ s.connected = TRUE
        BY DEF MatchInv, Relied, Flags
    <2>3. HostOn(s) /\ Running
        BY <2>2 DEF LinkInv, Aired, Running, Winding, Calm, Posts
    <2>4. s.forgetting = FALSE /\ work.pc # "bond_wait"
        BY <2>1, <2>2 DEF KeptInv, Guarded, Sound
    <2>5. s.awaiting_save = FALSE
        BY <2>1, <2>2, <2>4 DEF KeptInv, Guarded, Sound
    <2>6. Serving
        BY <2>3, <2>4 DEF Serving
    <2>7. Durably /\ Settles(s)
        BY <2>3, <2>5, <2>6 DEF KeptInv, SaveInv
    <2> QED BY <2>2, <2>7 DEF Settles
<1> QED BY <1>1, <1>2, <1>3, <1>4, <1>5, <1>6, <1>7, <1>8, TypeCorrect, StoppedCorrect, LinkViewCorrect, CopiesCorrect, PTL DEF Spec
=============================================================================
