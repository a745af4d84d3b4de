---------------------------- MODULE DurableModel ----------------------------
(***************************************************************************)
(* What the application model promises its callers: a list of remotes on   *)
(* which each call either makes one change that no restart undoes, and     *)
(* says so, or makes none.  A store that cannot be read is never changed.  *)
(***************************************************************************)
EXTENDS Naturals

VARIABLES
    readable,   \* the list can be read
    contents,   \* the list
    busy,       \* a call is being answered
    reply       \* the answer to the last call
vars == <<readable, contents, busy, reply>>

Appended(old, new) ==
    /\ new.size = old.size + 1
    /\ \A j \in 0..(old.size - 1) : new.entry[j] = old.entry[j]
Replaced(old, new) ==
    /\ new.size = old.size
    /\ \E i \in 0..(old.size - 1) :
          \A j \in 0..(old.size - 1) : j # i => new.entry[j] = old.entry[j]
Removed(old, new) ==
    /\ old.size = new.size + 1
    /\ \E i \in 0..new.size :
          \A j \in 0..(new.size - 1) :
             new.entry[j] = old.entry[IF j < i THEN j ELSE j + 1]

Init == ~busy /\ reply = "none"

Begin ==
    /\ ~busy /\ readable
    /\ busy' = TRUE /\ reply' = "none"
    /\ UNCHANGED <<readable, contents>>

Apply ==
    /\ busy
    /\ Appended(contents, contents') \/ Replaced(contents, contents') \/ Removed(contents, contents')
    /\ busy' = FALSE /\ reply' = "ok"
    /\ UNCHANGED readable

Refuse ==
    /\ busy' = FALSE /\ reply' = "refused"
    /\ UNCHANGED <<readable, contents>>

(* A call the restart cuts off is not answered and has changed nothing.    *)
Restart ==
    /\ busy' = FALSE /\ reply' = "none"
    /\ UNCHANGED <<readable, contents>>

Next == Begin \/ Apply \/ Refuse \/ Restart
Spec == Init /\ [][Next]_vars
=============================================================================
