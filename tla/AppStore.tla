------------------------------ MODULE AppStore ------------------------------
(***************************************************************************)
(* The application model and its durable copy: app_core/app_state.c and    *)
(* app_storage.c.                                                          *)
(*                                                                         *)
(* The UI task changes the model in RAM, saves the whole of it as one NVS  *)
(* blob, and takes the change back when the save fails.  Other tasks read  *)
(* the model at any moment, so RAM change, save and rollback are separate  *)
(* steps; power may fail between any two.                                  *)
(***************************************************************************)
EXTENDS RemoteModel

CONSTANTS
    Starts,         \* what flash may hold when the firmware first starts
    Recorded        \* the codes and bindings the user may record

VARIABLES
    ram,        \* s_app: the remotes and the text rows
    storageError,   \* s_app.storage_error: nothing may be saved until the next start
    flash,      \* the blob "profiles" in namespace "remotes"
    legacy,     \* the blob "slots" in namespace "ir"
    call,       \* the API call the UI task is in, with its local variables
    reply       \* what the last call returned
vars == <<ram, storageError, flash, legacy, call, reply>>

ASSUME StartAssumption ==
    /\ Starts \subseteq [flash : Blobs, legacy : Legacies]
    /\ Recorded \subseteq Codes
    (* What the firmware writes has cleared entries behind the last remote. *)
    /\ \A start \in Starts : \A i \in Slots :
          i >= start.flash.model.count => start.flash.model.remotes[i] = Blank

Calls == [pc : {"off", "idle", "migrating", "texted", "saving", "undo", "untext"},
          op : {"none", "create", "update", "remove", "text"},
          index : Slots, previous : Remotes, row : Rows, key : Keys,
          old : Texts \cup {NoText}]

TypeOK ==
    /\ ram \in Models
    /\ storageError \in BOOLEAN
    /\ flash \in Blobs
    /\ legacy \in Legacies
    /\ call \in Calls
    /\ reply \in {"none", "ok", "refused"}

At(pc) == [pc |-> pc, op |-> "none", index |-> 0, previous |-> Blank, row |-> BlankRow,
           key |-> ModeKey, old |-> NoText]

-----------------------------------------------------------------------------
(* Start-up: app_state_init clears the model and loads it.                 *)

Init ==
    /\ \E start \in Starts : flash = start.flash /\ legacy = start.legacy
    /\ ram = Empty /\ storageError = FALSE
    /\ call = At("off")
    /\ reply = "none"

(* Any NVS call or the allocation fails: no change may be saved this time. *)
LoadFails ==
    /\ call.pc = "off"
    /\ ram' = Empty /\ storageError' = TRUE
    /\ call' = At("idle")
    /\ UNCHANGED <<flash, legacy, reply>>

\* variant: unusable data counts as an empty store
LoadRejectsWritable ==
    /\ call.pc = "off" /\ ~Readable(flash, legacy)
    /\ ram' = Empty /\ storageError' = FALSE
    /\ call' = At("idle")
    /\ UNCHANGED <<flash, legacy, reply>>
(* The stored data cannot be used: it is left as it is.  The rows in front *)
(* of the one that is wrong have been copied already.                      *)
LoadRejects ==
    /\ call.pc = "off"
    /\ ~Readable(flash, legacy)
    /\ \E text \in {Empty.text, flash.model.text} : ram' = [Empty EXCEPT !.text = text]
    /\ storageError' = TRUE
    /\ call' = At("idle")
    /\ UNCHANGED <<flash, legacy, reply>>

(* A blob is loaded, or the first firmware's codes, which are then saved.  *)
Load ==
    /\ call.pc = "off"
    /\ Readable(flash, legacy)
    /\ ram' = Loaded(flash, legacy) /\ storageError' = FALSE
    /\ call' = At(IF flash.kind = "none" /\ legacy.kind = "slots" /\ legacy.count > 0
                  THEN "migrating" ELSE "idle")
    /\ UNCHANGED <<flash, legacy, reply>>

MigrationSaved ==
    /\ call.pc = "migrating"
    /\ flash' = Serialized(ram)
    /\ call' = At("idle")
    /\ UNCHANGED <<ram, storageError, legacy, reply>>

(* The migrated remotes can be used until the next start, not changed.     *)
MigrationNotSaved ==
    /\ call.pc = "migrating"
    /\ storageError' = TRUE
    /\ call' = At("idle")
    /\ UNCHANGED <<ram, flash, legacy, reply>>

-----------------------------------------------------------------------------
(* The calls.  Each returns an error before it changes anything when its   *)
(* arguments or the stored data are not valid.                             *)

Writable == call.pc = "idle" /\ ~storageError

\* variant: no limit
app_remote_createUnbounded(r) ==
    /\ Writable /\ remote_valid(r)
    /\ ram' = [ram EXCEPT !.count = @ + 1]
    /\ call' = [At("saving") EXCEPT !.op = "create"]
    /\ reply' = "none"
    /\ UNCHANGED <<storageError, flash, legacy>>
(* A new remote is appended; the row of text it gets is cleared.           *)
app_remote_create(r) ==
    /\ Writable
    /\ remote_valid(r) /\ ram.count < MaxRemotes
    /\ ram' = [ram EXCEPT !.count = @ + 1, !.remotes[ram.count] = r, !.text[ram.count] = BlankRow]
    /\ call' = [At("saving") EXCEPT !.op = "create", !.index = ram.count]
    /\ reply' = "none"
    /\ UNCHANGED <<storageError, flash, legacy>>

app_remote_update(i, r) ==
    /\ Writable
    /\ remote_valid(r) /\ i < ram.count
    /\ ram' = [ram EXCEPT !.remotes[i] = r]
    /\ call' = [At("saving") EXCEPT !.op = "update", !.index = i, !.previous = ram.remotes[i]]
    /\ reply' = "none"
    /\ UNCHANGED <<storageError, flash, legacy>>

(* The editor, pairing and the mouse settings leave kind and keys alone.   *)
ChangeSettings(i) ==
    app_remote_update(i, ram.remotes[i])

(* An unpaired keyboard moves to a bond store of its own.                  *)
OwnBondStore(i) ==
    /\ i < ram.count /\ ram.remotes[i].kind # "ir"
    /\ app_remote_update(i, [ram.remotes[i] EXCEPT !.store = "profile"])

app_remote_set_code(i, k, code) ==
    /\ k \in Assignable /\ i < ram.count /\ ram.remotes[i].kind = "ir"
    /\ app_remote_update(i, [ram.remotes[i] EXCEPT !.keys[k] = code, !.assigned = @ \cup {k}])

(* A keyboard's assigned keys are those with a binding.                    *)
app_remote_set_bt_binding(i, k, binding) ==
    /\ k \in Assignable /\ i < ram.count /\ ram.remotes[i].kind = "custom"
    /\ LET bound == [ram.remotes[i].keys EXCEPT ![k] = binding] IN
       app_remote_update(i, [ram.remotes[i] EXCEPT !.keys = bound,
                                                   !.assigned = {j \in Keys : bound[j] # NoCode}])

(* memmove of both arrays, the last entry cleared.                         *)
Without(array, i, blank) ==
    [j \in Slots |-> IF j < i THEN array[j]
                     ELSE IF j + 1 < ram.count THEN array[j + 1] ELSE blank]
\* variant: the rows of text stay where they are
app_remote_removeLeavesText(i) ==
    /\ Writable
    /\ i < ram.count
    /\ ram' = [ram EXCEPT !.count = @ - 1, !.remotes = Without(@, i, Blank)]
    /\ call' = [At("saving") EXCEPT !.op = "remove", !.index = i, !.previous = ram.remotes[i]]
    /\ reply' = "none"
    /\ UNCHANGED <<storageError, flash, legacy>>
app_remote_remove(i) ==
    /\ Writable
    /\ i < ram.count
    /\ ram' = [ram EXCEPT !.count = @ - 1, !.remotes = Without(@, i, Blank),
                          !.text = Without(@, i, BlankRow)]
    /\ call' = [At("saving") EXCEPT !.op = "remove", !.index = i,
                                    !.previous = ram.remotes[i], !.row = ram.text[i]]
    /\ reply' = "none"
    /\ UNCHANGED <<storageError, flash, legacy>>

(* Text is changed first, under its own lock, and the remote after it.     *)
app_remote_set_bt_text(i, k, text) ==
    /\ call.pc = "idle"
    /\ k \in Assignable /\ i < ram.count /\ ram.remotes[i].kind = "text"
    /\ ram' = [ram EXCEPT !.text[i][k] = text]
    /\ call' = [At("texted") EXCEPT !.op = "text", !.index = i, !.key = k, !.old = ram.text[i][k]]
    /\ reply' = "none"
    /\ UNCHANGED <<storageError, flash, legacy>>

(* app_remote_update cannot refuse: with a storage error no remote types.   *)
TextAssigned ==
    /\ call.pc = "texted"
    /\ ~storageError
    /\ LET i == call.index
           r == ram.remotes[i]
           assigned == IF ram.text[i][call.key] = NoText THEN r.assigned \ {call.key}
                       ELSE r.assigned \cup {call.key}
       IN /\ ram' = [ram EXCEPT !.remotes[i] = [r EXCEPT !.assigned = assigned]]
          /\ call' = [call EXCEPT !.pc = "saving", !.previous = r]
    /\ UNCHANGED <<storageError, flash, legacy, reply>>

Refused ==
    /\ call.pc = "idle"
    /\ reply' = "refused"
    /\ UNCHANGED <<ram, storageError, flash, legacy, call>>

-----------------------------------------------------------------------------
(* The save, and what follows when it fails.                               *)

Saved ==
    /\ call.pc = "saving"
    /\ flash' = Serialized(ram)
    /\ call' = At("idle")
    /\ reply' = "ok"
    /\ UNCHANGED <<ram, storageError, legacy>>

(* No memory for the blob, or NVS keeps the old one.                       *)
NotSaved ==
    /\ call.pc = "saving"
    /\ call' = [call EXCEPT !.pc = "undo"]
    /\ UNCHANGED <<ram, storageError, flash, legacy, reply>>

\* variant: everything behind the removed one moves up, the last is lost
WithShort(array, i, value) ==
    [j \in Slots |-> IF j < i \/ j >= ram.count THEN array[j]
                     ELSE IF j = i THEN value ELSE array[j - 1]]
(* The memmove back: everything from the removed one on moves up.          *)
With(array, i, value) ==
    [j \in Slots |-> IF j < i \/ j > ram.count THEN array[j]
                     ELSE IF j = i THEN value ELSE array[j - 1]]
Restored ==
    LET i == call.index IN
    CASE call.op = "create" -> [ram EXCEPT !.count = @ - 1, !.remotes[ram.count - 1] = Blank]
      [] call.op = "remove" -> [ram EXCEPT !.count = @ + 1, !.remotes = With(@, i, call.previous),
                                           !.text = With(@, i, call.row)]
      [] OTHER -> [ram EXCEPT !.remotes[i] = call.previous]

Undo ==
    /\ call.pc = "undo"
    /\ ram' = Restored
    /\ IF call.op = "text"
       THEN call' = [call EXCEPT !.pc = "untext"] /\ reply' = reply
       ELSE call' = At("idle") /\ reply' = "refused"
    /\ UNCHANGED <<storageError, flash, legacy>>

UndoText ==
    /\ call.pc = "untext"
    /\ ram' = [ram EXCEPT !.text[call.index][call.key] = call.old]
    /\ call' = At("idle")
    /\ reply' = "refused"
    /\ UNCHANGED <<storageError, flash, legacy>>

(* Flash is what survives.                                                 *)
PowerLoss ==
    /\ ram' = Empty /\ storageError' = FALSE
    /\ call' = At("off")
    /\ reply' = "none"
    /\ UNCHANGED <<flash, legacy>>

-----------------------------------------------------------------------------
(* A new remote has no key assigned; new keyboards have their own store.   *)
NewRemote(kind) ==
    [Blank EXCEPT !.kind = kind, !.named = TRUE,
                  !.store = IF kind = "ir" THEN "legacy" ELSE "profile"]

Next ==
    \/ LoadFails \/ LoadRejects \/ Load \/ MigrationSaved \/ MigrationNotSaved
    \/ \E kind \in {"ir", "custom", "text"} : app_remote_create(NewRemote(kind))
    \/ \E i \in Slots :
          \/ app_remote_remove(i) \/ ChangeSettings(i) \/ OwnBondStore(i)
          \/ \E k \in Keys :
                \/ \E code \in Recorded : app_remote_set_code(i, k, code)
                \/ \E binding \in Recorded \cup {NoCode} : app_remote_set_bt_binding(i, k, binding)
                \/ \E text \in Texts \cup {NoText} : app_remote_set_bt_text(i, k, text)
    \/ TextAssigned \/ Refused \/ Saved \/ NotSaved \/ Undo \/ UndoText \/ PowerLoss

Spec == Init /\ [][Next]_vars
=============================================================================
