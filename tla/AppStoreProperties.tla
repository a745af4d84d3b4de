------------------------- MODULE AppStoreProperties -------------------------
(***************************************************************************)
(* What the application model and its storage promise.                     *)
(***************************************************************************)
EXTENDS AppStore, FiniteSets

(* Between two calls the model in RAM is exactly what a restart would load *)
(* from flash, whatever saves failed and were rolled back before: the      *)
(* rollback of app_state.c, with its memmoves, restores remotes and texts. *)
RamIsDurable ==
    call.pc = "idle" /\ ~storageError =>
        Readable(flash, legacy) /\ ram = Loaded(flash, legacy)

(* At every moment, also in the middle of a call and of a rollback, a task *)
(* that reads the model finds valid remotes, and texts exactly on the      *)
(* assigned keys of the remotes that type: no text outlives its remote or  *)
(* moves to another.  Only the one key a call is changing may lag.         *)
ReadersSeeWhole ==
    /\ \A i \in Slots : i < ram.count => remote_valid(ram.remotes[i])
    /\ ~storageError => \A i \in Slots \ Typing(ram) : ram.text[i] = BlankRow
    /\ \A i \in Typing(ram) : \A k \in Keys :
          \/ call.pc \in {"texted", "untext"} /\ i = call.index /\ k = call.key
          \/ k \in ram.remotes[i].assigned <=> ram.text[i][k] # NoText

(* What can be loaded stays loadable, whatever is saved; what cannot be    *)
(* loaded is never overwritten ("Do not erase recordings automatically     *)
(* when NVS needs recovery", app_storage.c 168).                           *)
StoreKeptReadable ==
    [][IF Readable(flash, legacy) THEN Readable(flash', legacy') ELSE UNCHANGED flash]_vars

(* The first firmware's codes are all there after the migration, each on a *)
(* key of its own and in their order, whether or not the migrated remotes  *)
(* could be saved.                                                         *)
MigrationComplete ==
    flash.kind = "none" /\ legacy.kind = "slots" /\ (storageError \/ call.pc = "migrating")
        /\ ram.count > 0 =>
        LET used == {p \in Slots \X Keys : p[1] < ram.count /\ p[2] \in ram.remotes[p[1]].assigned}
            before(p) == {q \in used : q[1] < p[1] \/ (q[1] = p[1] /\ q[2] < p[2])}
        IN /\ Cardinality(used) = legacy.count
           /\ \A p \in used :
                 ram.remotes[p[1]].keys[p[2]] = legacy.code[Cardinality(before(p))]

(* The model and its storage implement DurableModel: in the middle of a    *)
(* call, of a failing save, of a rollback or of a migration the list is    *)
(* what flash holds, and it changes in the one step that commits the save. *)
Contents(m) ==
    [size |-> m.count, entry |-> [i \in 0..(m.count - 1) |-> <<m.remotes[i], m.text[i]>>]]
Abstract == INSTANCE DurableModel WITH
    readable <- Readable(flash, legacy),
    contents <- Contents(Loaded(flash, legacy)),
    busy <- call.pc \in {"texted", "saving", "undo", "untext"}
CallsAreAtomic == Abstract!Spec
=============================================================================
