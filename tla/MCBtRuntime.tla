---------------------------- MODULE MCBtRuntime ----------------------------
(***************************************************************************)
(* Instances of BtRuntime for TLC.  A run names the durable states it       *)
(* starts from, how often each kind of environment step may happen, and     *)
(* which kinds of failure may occur.                                        *)
(***************************************************************************)
EXTENDS BtProperties, TLC

CONSTANTS p1, p2, h1   \* profiles and a host; p2 is a profile of one run only

\* only p1 is opened
Bounds(sessions, links, auths, events, forgets, inputs, faults, crashes) ==
    [sessions |-> sessions, links |-> links, auths |-> auths, events |-> events,
     forgets |-> forgets, inputs |-> inputs, faults |-> faults, crashes |-> crashes]
        @@ [p \in Profiles |-> IF p = p1 THEN 1 ELSE 0]

\* no profile was ever paired
Fresh == [peer |-> [p \in Profiles |-> NoPeer], legacy |-> [p \in Profiles |-> FALSE],
          ccc |-> [p \in Profiles |-> "none"], bonds |-> {}]
\* p1 is bonded to h1, in its own bond database, and h1 subscribed
Bonded == [Fresh EXCEPT !.peer[p1] = h1, !.ccc[p1] = "on", !.bonds = {<<p1, h1>>}]
\* migrated profiles bonded to the same host in the database they share
SharedBond == [Fresh EXCEPT !.peer = [p \in Profiles |-> h1], !.legacy = [p \in Profiles |-> TRUE],
                            !.bonds = {<<Legacy, h1>>}]
\* a migrated profile that was never paired
Migrated == [Fresh EXCEPT !.legacy[p1] = TRUE]

From(durables, limit) == [nvm : durables, limit : {limit}]

\* Two sessions, or two links of one, with callbacks crossing each stop; and the
\* start-up completions in every order, one request failing
McLifecycle ==
    From({Fresh, Bonded, Migrated}, Bounds(2, 1, 1, 0, 0, 0, 0, 0))
        \cup From({Fresh}, Bounds(1, 2, 1, 0, 0, 0, 0, 0))
        \cup From({Fresh, Bonded}, Bounds(1, 1, 0, 0, 0, 0, 1, 0))
\* forgetting one of two profiles, then opening either
McShare ==
    LET limit == Bounds(2, 0, 0, 0, 1, 0, 0, 0) IN From({SharedBond}, [p \in Profiles |-> 1] @@ limit)
\* Pairing and forgetting; the host's writes; the user's input; one step of any of
\* these failing; power lost at any step of a session or a forget
McPairing ==
    From({Fresh, Bonded}, Bounds(1, 1, 1, 1, 1, 0, 0, 0))
        \cup From({Fresh, Bonded}, Bounds(1, 1, 1, 0, 1, 0, 1, 0))
        \cup From({Fresh, Bonded}, Bounds(1, 1, 1, 1, 0, 0, 1, 0))
        \cup From({Fresh, Bonded}, Bounds(1, 1, 1, 1, 0, 1, 0, 0))
        \cup From({Bonded}, Bounds(2, 1, 0, 0, 1, 0, 0, 1))
        \cup McShare
\* lost messages
McProgress == From({Fresh, Bonded}, Bounds(1, 1, 1, 0, 1, 0, 1, 0))
\* one attempt to pair, to stop or to forget
McOneAttempt == From({Fresh}, Bounds(1, 1, 1, 0, 0, 0, 0, 0))
McOneFault == From({Fresh}, Bounds(1, 1, 1, 0, 0, 0, 1, 0))
McOneForget == From({Fresh}, Bounds(1, 1, 1, 0, 1, 0, 0, 0))
=============================================================================
