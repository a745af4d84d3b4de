---------------------------- MODULE RemoteModel ----------------------------
(***************************************************************************)
(* The data of the application model: a remote, the array of remotes with *)
(* the text rows beside it, what flash can hold, and when a stored blob is *)
(* accepted.  components/app_core/remote_model.[ch] and the data half of   *)
(* app_storage.c.                                                          *)
(***************************************************************************)
EXTENDS Naturals

CONSTANTS
    MaxRemotes,     \* MAX_REMOTES
    KeyCount,       \* REMOTE_KEY_COUNT
    ModeKey,        \* REMOTE_KEY_MODE, which no remote may assign
    Codes,          \* infrared codes and keyboard bindings
    Texts,          \* non-empty texts
    LegacyMax       \* slots of the first firmware's store

NoCode == "no code"     \* an all-zero code or binding
NoText == "no text"     \* an empty string

Slots == 0..(MaxRemotes - 1)
Keys == 1..KeyCount
Assignable == Keys \ {ModeKey}
PerRemote == KeyCount - 1

(* The codes of the first firmware fit in the array.                       *)
ASSUME StoreAssumption ==
    /\ MaxRemotes \in Nat \ {0}
    /\ KeyCount \in Nat /\ KeyCount >= 2
    /\ ModeKey \in Keys
    /\ NoCode \notin Codes /\ NoText \notin Texts
    /\ LegacyMax \in Nat
    /\ \A n \in 0..LegacyMax : (n + PerRemote - 1) \div PerRemote \in 0..MaxRemotes

(* A remote.  "custom" is a keyboard with bindings of its own, "text" one  *)
(* whose keys type texts; both are REMOTE_BT.  Icon, profile and peer are  *)
(* represented by `named` (the name is not empty) and the bond store.      *)
Remotes == [kind : {"ir", "custom", "text"}, named : BOOLEAN,
            assigned : SUBSET Keys, keys : [Keys -> Codes \cup {NoCode}],
            store : {"legacy", "profile"}]
Rows == [Keys -> Texts \cup {NoText}]

Blank == [kind |-> "ir", named |-> FALSE, assigned |-> {},
          keys |-> [k \in Keys |-> NoCode], store |-> "legacy"]
BlankRow == [k \in Keys |-> NoText]

Models == [count : 0..MaxRemotes, remotes : [Slots -> Remotes], text : [Slots -> Rows]]
Empty == [count |-> 0, remotes |-> [i \in Slots |-> Blank], text |-> [i \in Slots |-> BlankRow]]

remote_valid(r) ==
    /\ r.named
    /\ r.assigned \subseteq Assignable
    /\ r.kind = "custom" => r.keys[ModeKey] = NoCode

(* What flash can hold under "remotes": nothing, a blob that fails its     *)
(* size, magic or checksum, or one that passes.                            *)
Blobs == [kind : {"none", "bad", "blob"}, version : 1..3, model : Models]
Legacies == [kind : {"none", "bad", "slots"}, count : 0..LegacyMax,
             code : [0..(LegacyMax - 1) -> Codes]]

(* The text of row i is stored, and looked for, only if its remote types.  *)
Typing(m) == {i \in Slots : i < m.count /\ m.remotes[i].kind = "text"}

\* variant: the rows of text are not written
SerializedWithoutText(m) == [kind |-> "blob", version |-> 3, model |-> [m EXCEPT !.text = Empty.text]]
(* app_storage_save: the whole array, and the rows of the typing remotes.  *)
Serialized(m) ==
    [kind |-> "blob", version |-> 3,
     model |-> [m EXCEPT !.text = [i \in Slots |-> IF i \in Typing(m) THEN m.text[i] ELSE BlankRow]]]

(* The checks of app_storage_load behind the checksum.                     *)
Accepted(blob) ==
    /\ blob.kind = "blob"
    /\ \A i \in Slots : blob.model.text[i] # BlankRow =>
          /\ blob.version > 1
          /\ i \in Typing(blob.model)
          /\ blob.model.text[i][ModeKey] = NoText
    /\ \A i \in Typing(blob.model) : \A k \in Keys :
          k \in blob.model.remotes[i].assigned <=> blob.model.text[i][k] # NoText
    /\ \A i \in Slots : i < blob.model.count => remote_valid(blob.model.remotes[i])

(* Blobs before version 3 knew one bond store.                             *)
Upgraded(blob) ==
    [blob.model EXCEPT !.remotes = [i \in Slots |->
        IF blob.version < 3 /\ i < blob.model.count /\ blob.model.remotes[i].kind # "ir"
        THEN [blob.model.remotes[i] EXCEPT !.store = "legacy"]
        ELSE blob.model.remotes[i]]]

\* variant: a code is taken for the MODE key too, and lost
MigratedOverMode(old) ==
    LET slot(i, k) == i * PerRemote + k - 1
        given(i) == {k \in Assignable : slot(i, k) < old.count}
        count == (old.count + PerRemote - 1) \div PerRemote
        remote(i) == [Blank EXCEPT !.named = TRUE, !.assigned = given(i),
                          !.keys = [k \in Keys |->
                              IF k \in given(i) THEN old.code[slot(i, k)] ELSE NoCode]]
    IN [Empty EXCEPT !.count = count,
                     !.remotes = [i \in Slots |-> IF i < count THEN remote(i) ELSE Blank]]
(* migrate_legacy: the recorded codes in order, one per assignable key, as *)
(* many remotes as they need.                                              *)
Migrated(old) ==
    LET slot(i, k) == i * PerRemote + (IF k < ModeKey THEN k - 1 ELSE k - 2)
        given(i) == {k \in Assignable : slot(i, k) < old.count}
        count == (old.count + PerRemote - 1) \div PerRemote
        remote(i) ==
            [Blank EXCEPT !.named = TRUE, !.assigned = given(i),
                          !.keys = [k \in Keys |->
                              IF k \in given(i) THEN old.code[slot(i, k)] ELSE NoCode]]
    IN [Empty EXCEPT !.count = count,
                     !.remotes = [i \in Slots |-> IF i < count THEN remote(i) ELSE Blank]]

(* Flash can be read, and what a load of it leaves in RAM.                 *)
Readable(flash, legacy) ==
    IF flash.kind = "none" THEN legacy.kind # "bad" ELSE Accepted(flash)
Loaded(flash, legacy) ==
    IF flash.kind # "none" THEN Upgraded(flash)
    ELSE IF legacy.kind = "slots" THEN Migrated(legacy) ELSE Empty
=============================================================================
