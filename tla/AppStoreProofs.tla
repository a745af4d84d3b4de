--------------------------- MODULE AppStoreProofs ---------------------------
(***************************************************************************)
(* Theorems about the application model and its storage, for any number of *)
(* remotes, keys, codes and texts.                                         *)
(***************************************************************************)
EXTENDS AppStoreProperties, FiniteSetTheorems, TLAPS

-----------------------------------------------------------------------------
(* The inductive invariant.                                                *)

(* A model that a save may write: valid remotes, texts where they belong,  *)
(* cleared entries behind the last remote.                                 *)
ClearedTail(m) == \A i \in Slots : i >= m.count => m.remotes[i] = Blank
Whole(m) ==
    /\ \A i \in Slots : i < m.count => remote_valid(m.remotes[i])
    /\ ClearedTail(m)
    /\ \A i \in Slots : ~(i < m.count /\ m.remotes[i].kind = "text") => m.text[i] = BlankRow
    /\ \A i \in Slots : i < m.count /\ m.remotes[i].kind = "text" =>
          \A k \in Keys : k \in m.remotes[i].assigned <=> m.text[i][k] # NoText

(* The model as it will be when the rollback of the call has ended.        *)
TextUndone(m) == [m EXCEPT !.text[call.index][call.key] = call.old]
Undone ==
    IF call.pc \in {"texted", "untext"} THEN TextUndone(ram)
    ELSE IF call.op = "text" THEN TextUndone(Restored) ELSE Restored

Calling == call.pc \in {"texted", "saving", "undo", "untext"}

(* What a call has done so far: it can be undone, and then RAM is again    *)
(* what flash holds.                                                       *)
CallInv ==
    Calling =>
        /\ ~storageError
        /\ call.op # "none"
        /\ call.op = "create" => ram.count > 0
        /\ call.op = "remove" => ram.count < MaxRemotes /\ call.index <= ram.count
        /\ call.op \in {"update", "text"} => call.index < ram.count
        /\ call.op = "text" => ram.remotes[call.index].kind = "text" /\ call.key \in Assignable
        /\ call.op = "text" /\ call.pc \in {"saving", "undo"} => call.previous.kind = "text"
        /\ call.pc \in {"texted", "untext"} => call.op = "text"
        /\ Whole(Undone)
        /\ Readable(flash, legacy) /\ Undone = Loaded(flash, legacy)

RamInv ==
    /\ ~Calling => ram.count = 0 \/ Whole(ram)
    /\ storageError => \A i \in Slots : i < ram.count => ram.remotes[i].kind = "ir"
    /\ ~Calling /\ ~storageError => Whole(ram)
    /\ call.pc \in {"saving", "undo"} => Whole(ram)
    /\ call.pc = "migrating" =>
          /\ ~storageError /\ flash.kind = "none" /\ Readable(flash, legacy)
          /\ ram = Loaded(flash, legacy)

StoreInv == TypeOK /\ ClearedTail(flash.model) /\ RamIsDurable /\ CallInv /\ RamInv

-----------------------------------------------------------------------------
(* The data.                                                               *)

LEMMA BlankType == Blank \in Remotes /\ BlankRow \in Rows /\ Empty \in Models /\ Whole(Empty)
<1>1. Blank \in Remotes
  BY DEF Blank, Remotes
<1>2. BlankRow \in Rows
  BY DEF BlankRow, Rows
<1>3. Empty \in Models
  BY <1>1, <1>2, StoreAssumption DEF Empty, Models
<1>4. Whole(Empty)
  BY DEF Empty, Whole, ClearedTail, Slots
<1> QED
  BY <1>1, <1>2, <1>3, <1>4

LEMMA SerializedLoads ==
    ASSUME NEW m \in Models, Whole(m), NEW old
    PROVE  /\ Serialized(m) \in Blobs
           /\ ClearedTail(Serialized(m).model)
           /\ Readable(Serialized(m), old)
           /\ Loaded(Serialized(m), old) = m
<1> DEFINE b == Serialized(m)
<1>1. b.model = m
  BY BlankType DEF Serialized, Typing, Models, Whole
<1>2. b.kind = "blob" /\ b.version = 3
  BY DEF Serialized
<1>3. b \in Blobs
  BY <1>1, <1>2 DEF Serialized, Blobs
<1>4. Accepted(b)
  BY <1>1, <1>2, StoreAssumption DEF Accepted, Typing, Whole, BlankRow, remote_valid, Assignable
<1>5. Upgraded(b) = m
  BY <1>1, <1>2 DEF Upgraded, Models
<1> QED
  BY <1>1, <1>2, <1>3, <1>4, <1>5 DEF Readable, Loaded, Whole, ClearedTail

LEMMA AcceptedWhole ==
    ASSUME NEW b \in Blobs, Accepted(b), ClearedTail(b.model)
    PROVE  Upgraded(b) \in Models /\ Whole(Upgraded(b))
<1> DEFINE m == Upgraded(b)
           r(i) == b.model.remotes[i]
           f(i) == IF b.version < 3 /\ i < b.model.count /\ r(i).kind # "ir"
                   THEN [r(i) EXCEPT !.store = "legacy"] ELSE r(i)
<1>1. b.model \in Models
  BY DEF Blobs
<1>2. \A i \in Slots : r(i) \in Remotes
  BY <1>1 DEF Models
<1>3. \A i \in Slots : /\ f(i) \in Remotes /\ f(i).kind = r(i).kind
                       /\ f(i).assigned = r(i).assigned
                       /\ f(i).keys = r(i).keys /\ f(i).named = r(i).named
                       /\ i >= b.model.count => f(i) = r(i)
  <2> SUFFICES ASSUME NEW i \in Slots
               PROVE  /\ f(i) \in Remotes /\ f(i).kind = r(i).kind
                      /\ f(i).assigned = r(i).assigned
                      /\ f(i).keys = r(i).keys /\ f(i).named = r(i).named
                      /\ i >= b.model.count => f(i) = r(i)
    OBVIOUS
  <2>1. i \in Nat /\ b.model.count \in Nat
    BY <1>1, StoreAssumption DEF Slots, Models
  <2>2. r(i) \in Remotes
    BY <1>2
  <2> HIDE DEF r
  <2> QED
    BY <2>1, <2>2 DEF Remotes
<1> HIDE DEF f
<1>4. m = [b.model EXCEPT !.remotes = [i \in Slots |-> f(i)]]
  BY DEF Upgraded, f
<1>5. /\ m \in Models /\ m.count = b.model.count /\ m.text = b.model.text
      /\ \A i \in Slots : m.remotes[i] = f(i)
  BY <1>1, <1>3, <1>4 DEF Models
<1> HIDE DEF m
<1>6. \A i \in Slots : i < m.count => remote_valid(m.remotes[i])
  BY <1>3, <1>5 DEF Accepted, remote_valid
<1>7. ClearedTail(m)
  BY <1>3, <1>5 DEF ClearedTail
<1>8. \A i \in Slots : ~(i < m.count /\ m.remotes[i].kind = "text") => m.text[i] = BlankRow
  BY <1>3, <1>5 DEF Accepted, Typing
<1>9. \A i \in Slots : i < m.count /\ m.remotes[i].kind = "text" =>
          \A k \in Keys : k \in m.remotes[i].assigned <=> m.text[i][k] # NoText
  BY <1>3, <1>5 DEF Accepted, Typing
<1> QED
  BY <1>5, <1>6, <1>7, <1>8, <1>9 DEF Whole, m

LEMMA MigratedWhole ==
    ASSUME NEW old \in Legacies
    PROVE  /\ Migrated(old) \in Models /\ Whole(Migrated(old))
           /\ \A i \in Slots : i < Migrated(old).count => Migrated(old).remotes[i].kind = "ir"
<1> DEFINE slot(i, k) == i * PerRemote + (IF k < ModeKey THEN k - 1 ELSE k - 2)
           given(i) == {k \in Assignable : slot(i, k) < old.count}
           count == (old.count + PerRemote - 1) \div PerRemote
           remote(i) ==
               [Blank EXCEPT !.named = TRUE, !.assigned = given(i),
                             !.keys = [k \in Keys |->
                                 IF k \in given(i) THEN old.code[slot(i, k)] ELSE NoCode]]
           m == Migrated(old)
<1>1. /\ old.count \in 0..LegacyMax
      /\ \A n \in 0..(LegacyMax - 1) : old.code[n] \in Codes
  BY DEF Legacies
<1>2. count \in 0..MaxRemotes
  BY <1>1, StoreAssumption
<1>3. \A i \in Slots : \A k \in Assignable : slot(i, k) \in Nat
  <2> SUFFICES ASSUME NEW i \in Slots, NEW k \in Assignable PROVE slot(i, k) \in Nat
    OBVIOUS
  <2>1. i \in Nat /\ PerRemote \in Nat /\ k \in Nat \ {0} /\ k # ModeKey /\ ModeKey \in Nat \ {0}
    BY StoreAssumption DEF Slots, Assignable, Keys, PerRemote
  <2>2. i * PerRemote \in Nat
    BY <2>1
  <2> QED
    BY <2>1, <2>2
<1> HIDE DEF count, slot
<1>4. \A i \in Slots : /\ remote(i) \in Remotes /\ remote_valid(remote(i))
                       /\ remote(i).kind = "ir"
  <2> SUFFICES ASSUME NEW i \in Slots
               PROVE  /\ remote(i) \in Remotes /\ remote_valid(remote(i))
                      /\ remote(i).kind = "ir"
    OBVIOUS
  <2>1. given(i) \subseteq Assignable /\ Assignable \subseteq Keys
    BY DEF Assignable
  <2>2. \A k \in given(i) : old.code[slot(i, k)] \in Codes
    BY <1>1, <1>3, StoreAssumption
  <2> HIDE DEF given
  <2> QED
    BY <2>1, <2>2 DEF Remotes, Blank, remote_valid
<1> HIDE DEF remote
<1>5. m = [Empty EXCEPT !.count = count,
                        !.remotes = [i \in Slots |-> IF i < count THEN remote(i) ELSE Blank]]
  BY DEF Migrated, count, slot, remote
<1>6. /\ m \in Models /\ m.count = count /\ m.text = Empty.text
      /\ \A i \in Slots : m.remotes[i] = IF i < count THEN remote(i) ELSE Blank
  <2> DEFINE array == [i \in Slots |-> IF i < count THEN remote(i) ELSE Blank]
  <2>1. array \in [Slots -> Remotes]
    BY <1>4, BlankType
  <2> HIDE DEF array
  <2>2. m = [Empty EXCEPT !.count = count, !.remotes = array]
    BY <1>5 DEF array
  <2>3. m \in Models /\ m.count = count /\ m.text = Empty.text /\ m.remotes = array
    BY <1>2, <2>1, <2>2, BlankType DEF Models
  <2> QED
    BY <2>3 DEF array
<1>7. \A i \in Slots : m.text[i] = BlankRow
  BY <1>6 DEF Empty
<1> HIDE DEF m
<1>8. \A i \in Slots : i \in Nat
  BY StoreAssumption DEF Slots
<1>9. \A i \in Slots : i < m.count => m.remotes[i].kind = "ir" /\ remote_valid(m.remotes[i])
  BY <1>4, <1>6
<1>10. ClearedTail(m)
  BY <1>2, <1>6, <1>8 DEF ClearedTail
<1> QED
  BY <1>6, <1>7, <1>9, <1>10 DEF Whole, m

LEMMA LoadedWhole ==
    ASSUME NEW b \in Blobs, NEW old \in Legacies, Readable(b, old), ClearedTail(b.model)
    PROVE  Loaded(b, old) \in Models /\ Whole(Loaded(b, old))
BY AcceptedWhole, MigratedWhole, BlankType DEF Readable, Loaded

-----------------------------------------------------------------------------
(* Models as arrays.                                                       *)

LEMMA SlotFacts ==
    /\ 0 \in Slots /\ \A i \in Slots : i \in Nat /\ i < MaxRemotes
    /\ \A n \in Nat : n < MaxRemotes => n \in Slots
    /\ ModeKey \in Keys
BY StoreAssumption DEF Slots, Keys

LEMMA CallTypes ==
    /\ \A pc \in {"off", "idle", "migrating", "saving"} : At(pc) \in Calls
    /\ \A pc : At(pc).pc = pc
BY SlotFacts, BlankType DEF At, Calls

(* Two models with the same entries are equal.                             *)
LEMMA SameModel ==
    ASSUME NEW m \in Models, NEW n \in Models, m.count = n.count,
           \A j \in Slots : m.remotes[j] = n.remotes[j] /\ m.text[j] = n.text[j]
    PROVE  m = n
<1>1. m.remotes = n.remotes /\ m.text = n.text
  BY DEF Models
<1> QED
  BY <1>1 DEF Models

(* What changing one remote, keeping its kind and the assignments of a     *)
(* typing one, leaves whole.                                               *)
LEMMA UpdateKeepsWhole ==
    ASSUME NEW m \in Models, Whole(m), NEW i \in Slots, i < m.count,
           NEW r \in Remotes, remote_valid(r), r.kind = m.remotes[i].kind,
           r.kind = "text" => r.assigned = m.remotes[i].assigned,
           NEW n \in Models, n.count = m.count, n.text = m.text,
           \A j \in Slots : n.remotes[j] = IF j = i THEN r ELSE m.remotes[j]
    PROVE  Whole(n)
<1>1. \A j \in Slots : j < n.count => remote_valid(n.remotes[j])
  BY DEF Whole
<1>2. ClearedTail(n)
  BY SlotFacts DEF Whole, ClearedTail, Models
<1>3. \A j \in Slots : ~(j < n.count /\ n.remotes[j].kind = "text") => n.text[j] = BlankRow
  BY DEF Whole
<1>4. \A j \in Slots : j < n.count /\ n.remotes[j].kind = "text" =>
          \A k \in Keys : k \in n.remotes[j].assigned <=> n.text[j][k] # NoText
  BY DEF Whole
<1> QED
  BY <1>1, <1>2, <1>3, <1>4 DEF Whole

LEMMA UpdateStep ==
    ASSUME StoreInv, NEW i \in Slots, NEW r \in Remotes, r.kind = ram.remotes[i].kind,
           r.kind = "text" => r.assigned = ram.remotes[i].assigned,
           app_remote_update(i, r)
    PROVE  StoreInv'
<1>1. /\ TypeOK /\ call.pc = "idle" /\ ~storageError /\ i < ram.count /\ remote_valid(r)
      /\ Whole(ram) /\ Readable(flash, legacy) /\ ram = Loaded(flash, legacy)
      /\ ClearedTail(flash.model)
  BY DEF StoreInv, app_remote_update, Writable, RamInv, RamIsDurable, Calling
<1>2. /\ ram' = [ram EXCEPT !.remotes[i] = r]
      /\ call' = [At("saving") EXCEPT !.op = "update", !.index = i, !.previous = ram.remotes[i]]
      /\ reply' = "none" /\ UNCHANGED <<storageError, flash, legacy>>
  BY DEF app_remote_update
<1>3. ram \in Models /\ ram.remotes[i] \in Remotes
  BY <1>1 DEF TypeOK, Models
<1>4. ram' \in Models /\ Whole(ram') /\ ram'.count = ram.count
      /\ [ram' EXCEPT !.remotes[i] = ram.remotes[i]] = ram
  <2>1. /\ ram' \in Models /\ ram'.count = ram.count /\ ram'.text = ram.text
        /\ \A j \in Slots : ram'.remotes[j] = IF j = i THEN r ELSE ram.remotes[j]
        /\ [ram' EXCEPT !.remotes[i] = ram.remotes[i]] = ram
    BY <1>2, <1>3 DEF Models
  <2>2. Whole(ram')
    BY <1>1, <1>3, <2>1, UpdateKeepsWhole
  <2> QED
    BY <2>1, <2>2
<1>5. /\ call' \in Calls /\ call'.pc = "saving" /\ call'.op = "update" /\ call'.index = i
      /\ call'.previous = ram.remotes[i]
  BY <1>2, <1>3, CallTypes DEF Calls
<1>6. TypeOK'
  BY <1>1, <1>2, <1>4, <1>5 DEF TypeOK
<1>7. Undone' = ram
  BY <1>4, <1>5 DEF Undone, Restored
<1>8. CallInv'
  BY <1>1, <1>2, <1>4, <1>5, <1>7 DEF CallInv, Calling
<1>9. RamInv' /\ RamIsDurable' /\ ClearedTail(flash.model)'
  BY <1>1, <1>2, <1>4, <1>5 DEF RamInv, RamIsDurable, Calling
<1> QED
  BY <1>6, <1>8, <1>9 DEF StoreInv

(* The calls that change one remote.                                       *)
LEMMA UpdateCalls ==
    ASSUME StoreInv, NEW i \in Slots
    PROVE  /\ ChangeSettings(i) => StoreInv'
           /\ OwnBondStore(i) => StoreInv'
           /\ \A k \in Keys : \A code \in Codes :
                 app_remote_set_code(i, k, code) => StoreInv'
           /\ \A k \in Keys : \A binding \in Codes \cup {NoCode} :
                 app_remote_set_bt_binding(i, k, binding) => StoreInv'
<1>1. ram.remotes[i] \in Remotes
  BY DEF StoreInv, TypeOK, Models
<1>2. ASSUME ChangeSettings(i) PROVE StoreInv'
  BY <1>1, <1>2, UpdateStep DEF ChangeSettings
<1>3. ASSUME OwnBondStore(i) PROVE StoreInv'
  <2> DEFINE r == [ram.remotes[i] EXCEPT !.store = "profile"]
  <2>1. r \in Remotes /\ r.kind = ram.remotes[i].kind /\ r.assigned = ram.remotes[i].assigned
    BY <1>1 DEF Remotes
  <2>2. app_remote_update(i, r)
    BY <1>3 DEF OwnBondStore
  <2> HIDE DEF r
  <2> QED
    BY <2>1, <2>2, UpdateStep
<1>4. ASSUME NEW k \in Keys, NEW code \in Codes, app_remote_set_code(i, k, code)
      PROVE  StoreInv'
  <2> DEFINE r == [ram.remotes[i] EXCEPT !.keys[k] = code, !.assigned = @ \cup {k}]
  <2>1. r \in Remotes /\ r.kind = "ir" /\ ram.remotes[i].kind = "ir"
    BY <1>1, <1>4 DEF Remotes, app_remote_set_code
  <2>2. app_remote_update(i, r)
    BY <1>4 DEF app_remote_set_code
  <2> HIDE DEF r
  <2> QED
    BY <2>1, <2>2, UpdateStep
<1>5. ASSUME NEW k \in Keys, NEW binding \in Codes \cup {NoCode},
             app_remote_set_bt_binding(i, k, binding)
      PROVE  StoreInv'
  <2> DEFINE bound == [ram.remotes[i].keys EXCEPT ![k] = binding]
             r == [ram.remotes[i] EXCEPT !.keys = bound,
                                         !.assigned = {j \in Keys : bound[j] # NoCode}]
  <2>1. bound \in [Keys -> Codes \cup {NoCode}]
    BY <1>1 DEF Remotes
  <2>2. app_remote_update(i, r) /\ ram.remotes[i].kind = "custom"
    BY <1>5 DEF app_remote_set_bt_binding
  <2> HIDE DEF bound
  <2>3. r \in Remotes /\ r.kind = "custom"
    BY <1>1, <2>1, <2>2 DEF Remotes
  <2> HIDE DEF r
  <2> QED
    BY <2>2, <2>3, UpdateStep
<1> QED
  BY <1>2, <1>3, <1>4, <1>5

LEMMA CreateStep ==
    ASSUME StoreInv, NEW r \in Remotes, r.kind = "text" => r.assigned = {}, app_remote_create(r)
    PROVE  StoreInv'
<1> DEFINE n == ram.count
<1>1. /\ TypeOK /\ call.pc = "idle" /\ ~storageError /\ n < MaxRemotes /\ remote_valid(r)
      /\ Whole(ram) /\ Readable(flash, legacy) /\ ram = Loaded(flash, legacy)
      /\ ClearedTail(flash.model)
  BY DEF StoreInv, app_remote_create, Writable, RamInv, RamIsDurable, Calling
<1>2. /\ ram' = [ram EXCEPT !.count = @ + 1, !.remotes[n] = r, !.text[n] = BlankRow]
      /\ call' = [At("saving") EXCEPT !.op = "create", !.index = n]
      /\ reply' = "none" /\ UNCHANGED <<storageError, flash, legacy>>
  BY DEF app_remote_create
<1>3. ram \in Models /\ n \in Slots /\ n \in Nat
  BY <1>1, SlotFacts DEF TypeOK, Models
<1>4. /\ ram' \in Models /\ ram'.count = n + 1
      /\ \A j \in Slots : /\ ram'.remotes[j] = IF j = n THEN r ELSE ram.remotes[j]
                          /\ ram'.text[j] = IF j = n THEN BlankRow ELSE ram.text[j]
  <2>1. n + 1 \in 0..MaxRemotes
    BY <1>1, <1>3, StoreAssumption
  <2> HIDE DEF n
  <2> QED
    BY <1>2, <1>3, <2>1, BlankType DEF Models, n
<1>5. Whole(ram')
  <2>1. \A j \in Slots : j < n + 1 => j < n \/ j = n
    BY <1>3, SlotFacts
  <2>2. \A j \in Slots : j < n => j < n + 1
    BY <1>3, SlotFacts
  <2>3. \A j \in Slots : j < ram'.count => remote_valid(ram'.remotes[j])
    BY <1>1, <1>4, <2>1 DEF Whole
  <2>4. ClearedTail(ram')
    BY <1>1, <1>3, <1>4, SlotFacts DEF Whole, ClearedTail
  <2>5. \A j \in Slots : ~(j < ram'.count /\ ram'.remotes[j].kind = "text") => ram'.text[j] = BlankRow
    BY <1>1, <1>4, <2>2 DEF Whole
  <2>6. \A j \in Slots : j < ram'.count /\ ram'.remotes[j].kind = "text" =>
            \A k \in Keys : k \in ram'.remotes[j].assigned <=> ram'.text[j][k] # NoText
    BY <1>1, <1>4, <2>1 DEF Whole, BlankRow
  <2> QED
    BY <2>3, <2>4, <2>5, <2>6 DEF Whole
<1>6. /\ call' \in Calls /\ call'.pc = "saving" /\ call'.op = "create"
  BY <1>2, <1>3, CallTypes DEF Calls
<1>7. TypeOK'
  BY <1>1, <1>2, <1>4, <1>6 DEF TypeOK
<1>8. Undone' = ram
  <2>1. Undone' = [ram' EXCEPT !.count = @ - 1, !.remotes[ram'.count - 1] = Blank]
    BY <1>6 DEF Undone, Restored
  <2>2. ram'.count - 1 = n
    BY <1>3, <1>4
  <2>3. /\ Undone' \in Models /\ Undone'.count = n
        /\ \A j \in Slots : /\ Undone'.remotes[j] = IF j = n THEN Blank ELSE ram'.remotes[j]
                            /\ Undone'.text[j] = ram'.text[j]
    <3> HIDE DEF n
    <3>1. n \in 0..MaxRemotes
      BY <1>3, SlotFacts, StoreAssumption
    <3> QED
      BY <1>3, <1>4, <2>1, <2>2, <3>1, BlankType DEF Models
  <2>4. ram.remotes[n] = Blank /\ ram.text[n] = BlankRow
    BY <1>1, <1>3 DEF Whole, ClearedTail
  <2> QED
    BY <1>3, <1>4, <2>3, <2>4, SameModel
<1>9. CallInv'
  BY <1>1, <1>2, <1>3, <1>4, <1>5, <1>6, <1>8 DEF CallInv, Calling
<1>10. RamInv' /\ RamIsDurable' /\ ClearedTail(flash.model)'
  BY <1>1, <1>2, <1>5, <1>6 DEF RamInv, RamIsDurable, Calling
<1> QED
  BY <1>7, <1>9, <1>10 DEF StoreInv

LEMMA RemoveStep ==
    ASSUME StoreInv, NEW i \in Slots, app_remote_remove(i)
    PROVE  StoreInv'
<1> DEFINE n == ram.count
<1>1. /\ TypeOK /\ call.pc = "idle" /\ ~storageError /\ i < n
      /\ Whole(ram) /\ Readable(flash, legacy) /\ ram = Loaded(flash, legacy)
      /\ ClearedTail(flash.model)
  BY DEF StoreInv, app_remote_remove, Writable, RamInv, RamIsDurable, Calling
<1>2. /\ ram' = [ram EXCEPT !.count = @ - 1, !.remotes = Without(@, i, Blank),
                            !.text = Without(@, i, BlankRow)]
      /\ call' = [At("saving") EXCEPT !.op = "remove", !.index = i,
                                      !.previous = ram.remotes[i], !.row = ram.text[i]]
      /\ reply' = "none" /\ UNCHANGED <<storageError, flash, legacy>>
  BY DEF app_remote_remove
<1>3. /\ ram \in Models /\ n \in Nat /\ n <= MaxRemotes /\ n > 0
      /\ ram.remotes[i] \in Remotes /\ ram.text[i] \in Rows
  BY <1>1, SlotFacts, StoreAssumption DEF TypeOK, Models
<1>4. \A j \in Slots : j + 1 < n => j + 1 \in Slots
  BY <1>3, SlotFacts, StoreAssumption DEF Slots
<1>5. /\ ram' \in Models /\ ram'.count = n - 1
      /\ \A j \in Slots :
            /\ ram'.remotes[j] = IF j < i THEN ram.remotes[j]
                                 ELSE IF j + 1 < n THEN ram.remotes[j + 1] ELSE Blank
            /\ ram'.text[j] = IF j < i THEN ram.text[j]
                              ELSE IF j + 1 < n THEN ram.text[j + 1] ELSE BlankRow
  <2> DEFINE remotes == Without(ram.remotes, i, Blank)
             text == Without(ram.text, i, BlankRow)
  <2>1. remotes \in [Slots -> Remotes]
    BY <1>3, <1>4, BlankType DEF Without, Models
  <2>2. text \in [Slots -> Rows]
    BY <1>3, <1>4, BlankType DEF Without, Models
  <2>3. n - 1 \in 0..MaxRemotes
    BY <1>3, StoreAssumption
  <2>4. ram' = [ram EXCEPT !.count = n - 1, !.remotes = remotes, !.text = text]
    BY <1>2
  <2>5. /\ \A j \in Slots : remotes[j] = IF j < i THEN ram.remotes[j]
                                 ELSE IF j + 1 < n THEN ram.remotes[j + 1] ELSE Blank
        /\ \A j \in Slots : text[j] = IF j < i THEN ram.text[j]
                                 ELSE IF j + 1 < n THEN ram.text[j + 1] ELSE BlankRow
    BY DEF Without
  <2> HIDE DEF remotes, text
  <2>6. ram' \in Models /\ ram'.count = n - 1 /\ ram'.remotes = remotes /\ ram'.text = text
    BY <1>3, <2>1, <2>2, <2>3, <2>4 DEF Models
  <2> QED
    BY <2>5, <2>6
<1>6. Whole(ram')
  <2>1. \A j \in Slots : j < n - 1 => j < n /\ j + 1 < n
    BY <1>3, SlotFacts
  <2>2. \A j \in Slots : j < i => j < n - 1
    BY <1>1, <1>3, SlotFacts
  <2>3. \A j \in Slots : j + 1 < n => j < n - 1
    BY <1>3, SlotFacts
  <2>4. \A j \in Slots : j < ram'.count => remote_valid(ram'.remotes[j])
    BY <1>1, <1>4, <1>5, <2>1 DEF Whole
  <2>5. \A j \in Slots : j >= ram'.count => ~(j < i) /\ ~(j + 1 < n)
    BY <1>1, <1>3, <1>5, SlotFacts
  <2>6. ClearedTail(ram')
    BY <1>5, <2>5 DEF ClearedTail
  <2>7. \A j \in Slots : ~(j < ram'.count /\ ram'.remotes[j].kind = "text") => ram'.text[j] = BlankRow
    BY <1>1, <1>4, <1>5, <2>1, <2>2, <2>3 DEF Whole
  <2>8. \A j \in Slots : j < ram'.count /\ ram'.remotes[j].kind = "text" =>
            \A k \in Keys : k \in ram'.remotes[j].assigned <=> ram'.text[j][k] # NoText
    BY <1>1, <1>4, <1>5, <2>1 DEF Whole
  <2> QED
    BY <2>4, <2>6, <2>7, <2>8 DEF Whole
<1>7. /\ call' \in Calls /\ call'.pc = "saving" /\ call'.op = "remove" /\ call'.index = i
      /\ call'.previous = ram.remotes[i] /\ call'.row = ram.text[i]
  BY <1>2, <1>3, CallTypes DEF Calls
<1>8. TypeOK'
  BY <1>1, <1>2, <1>5, <1>7 DEF TypeOK
<1>9. Undone' = ram
  <2> DEFINE back(array, array1, value) ==
                 [j \in Slots |-> IF j < i \/ j > ram'.count THEN array1[j]
                                  ELSE IF j = i THEN value ELSE array1[j - 1]]
  <2>1. Undone' = [ram' EXCEPT !.count = @ + 1,
                       !.remotes = back(ram.remotes, ram'.remotes, ram.remotes[i]),
                       !.text = back(ram.text, ram'.text, ram.text[i])]
    BY <1>7 DEF Undone, Restored, With
  <2>2. \A j \in Slots : j - 1 >= i => j - 1 \in Slots /\ (j - 1) + 1 = j
    BY SlotFacts, StoreAssumption DEF Slots
  <2>3. ram'.count = n - 1 /\ ram'.count + 1 = n
    BY <1>3, <1>5
  <2>4. \A j \in Slots : /\ j > n - 1 => j >= n /\ ~(j + 1 < n) /\ ~(j < i)
                         /\ ~(j < i) /\ j # i => j - 1 >= i /\ ~(j - 1 < i)
                         /\ ~(j > n - 1) => j < n
    BY <1>1, <1>3, SlotFacts
  <2>5. \A j \in Slots : j >= n => ram.remotes[j] = Blank /\ ram.text[j] = BlankRow
    <3>1. \A j \in Slots : j >= n => ~(j < n)
      BY <1>3, SlotFacts
    <3> QED
      BY <1>1, <3>1 DEF Whole, ClearedTail
  <2>6. \A j \in Slots : back(ram.remotes, ram'.remotes, ram.remotes[i])[j] = ram.remotes[j]
    BY <1>5, <2>2, <2>3, <2>4, <2>5
  <2>7. \A j \in Slots : back(ram.text, ram'.text, ram.text[i])[j] = ram.text[j]
    BY <1>5, <2>2, <2>3, <2>4, <2>5
  <2>8. /\ back(ram.remotes, ram'.remotes, ram.remotes[i]) = ram.remotes
        /\ back(ram.text, ram'.text, ram.text[i]) = ram.text
    BY <1>3, <2>6, <2>7 DEF Models
  <2> HIDE DEF back
  <2> QED
    BY <1>3, <1>5, <2>1, <2>3, <2>8 DEF Models
<1>10. ram'.count < MaxRemotes /\ i <= ram'.count
  BY <1>1, <1>3, <1>5, SlotFacts, StoreAssumption
<1>11. CallInv'
  BY <1>1, <1>2, <1>6, <1>7, <1>9, <1>10 DEF CallInv, Calling
<1>12. RamInv' /\ RamIsDurable' /\ ClearedTail(flash.model)'
  BY <1>1, <1>2, <1>6, <1>7 DEF RamInv, RamIsDurable, Calling
<1> QED
  BY <1>8, <1>11, <1>12 DEF StoreInv

(* Setting a text, and taking it back, goes through one key that lags.     *)
LEMMA TextStep ==
    ASSUME StoreInv, NEW i \in Slots, NEW k \in Keys, NEW text \in Texts \cup {NoText},
           app_remote_set_bt_text(i, k, text)
    PROVE  StoreInv'
<1>1. /\ TypeOK /\ call.pc = "idle" /\ i < ram.count /\ ram.remotes[i].kind = "text"
      /\ k \in Assignable /\ ClearedTail(flash.model) /\ ~Calling
  BY DEF StoreInv, app_remote_set_bt_text, Calling
<1>2. ram \in Models /\ ram.remotes[i] \in Remotes /\ ram.text[i] \in Rows /\ ram.count # 0
  BY <1>1, SlotFacts DEF TypeOK, Models
<1>3. ~storageError
  BY <1>1, <1>2 DEF StoreInv, RamInv
<1>4. Whole(ram) /\ Readable(flash, legacy) /\ ram = Loaded(flash, legacy)
  BY <1>1, <1>3 DEF StoreInv, RamInv, RamIsDurable
<1>5. /\ ram' = [ram EXCEPT !.text[i][k] = text]
      /\ call' = [At("texted") EXCEPT !.op = "text", !.index = i, !.key = k, !.old = ram.text[i][k]]
      /\ reply' = "none" /\ UNCHANGED <<storageError, flash, legacy>>
  BY DEF app_remote_set_bt_text
<1>6. ram' \in Models /\ ram'.count = ram.count /\ ram'.remotes = ram.remotes
      /\ [ram' EXCEPT !.text[i][k] = ram.text[i][k]] = ram
  BY <1>2, <1>5 DEF Models, Rows
<1>7. /\ call' \in Calls /\ call'.pc = "texted" /\ call'.op = "text" /\ call'.index = i
      /\ call'.key = k /\ call'.old = ram.text[i][k]
  BY <1>2, <1>5, SlotFacts, BlankType DEF Calls, At, Rows
<1>8. TypeOK'
  BY <1>1, <1>5, <1>6, <1>7 DEF TypeOK
<1>9. Undone' = ram
  BY <1>6, <1>7 DEF Undone, TextUndone
<1>10. CallInv'
  BY <1>1, <1>3, <1>4, <1>5, <1>6, <1>7, <1>9 DEF CallInv, Calling
<1>11. RamInv' /\ RamIsDurable' /\ ClearedTail(flash.model)'
  BY <1>1, <1>3, <1>5, <1>7 DEF RamInv, RamIsDurable, Calling
<1> QED
  BY <1>8, <1>10, <1>11 DEF StoreInv

LEMMA TextAssignedStep ==
    ASSUME StoreInv, TextAssigned
    PROVE  StoreInv'
<1> DEFINE i == call.index
           k == call.key
           r == ram.remotes[i]
           assigned == IF ram.text[i][k] = NoText THEN r.assigned \ {k} ELSE r.assigned \cup {k}
<1>1. /\ TypeOK /\ call.pc = "texted" /\ ~storageError /\ ClearedTail(flash.model)
      /\ call.op = "text" /\ i < ram.count /\ r.kind = "text" /\ k \in Assignable
      /\ Whole(Undone) /\ Readable(flash, legacy) /\ Undone = Loaded(flash, legacy)
  BY DEF StoreInv, TextAssigned, CallInv, Calling
<1>2. /\ ram \in Models /\ i \in Slots /\ r \in Remotes /\ k \in Keys /\ call \in Calls
      /\ call.old \in Texts \cup {NoText}
  BY <1>1 DEF TypeOK, Models, Calls
<1>3. /\ ram' = [ram EXCEPT !.remotes[i] = [r EXCEPT !.assigned = assigned]]
      /\ call' = [call EXCEPT !.pc = "saving", !.previous = r]
      /\ UNCHANGED <<storageError, flash, legacy, reply>>
  BY DEF TextAssigned
<1>4. assigned \in SUBSET Keys
  BY <1>2 DEF Remotes
<1> DEFINE q == [r EXCEPT !.assigned = assigned]
<1>5. q \in Remotes /\ q.kind = "text" /\ q.assigned = assigned /\ q.named = r.named /\ q.keys = r.keys
  <2> HIDE DEF r, assigned
  <2> QED
    BY <1>1, <1>2, <1>4 DEF Remotes
<1> HIDE DEF q
<1>6. /\ ram' \in Models /\ ram'.count = ram.count /\ ram'.text = ram.text
      /\ \A j \in Slots : ram'.remotes[j] = IF j = i THEN q ELSE ram.remotes[j]
      /\ [ram' EXCEPT !.remotes[i] = r] = ram
  BY <1>2, <1>3, <1>5 DEF Models, q
<1>7. /\ call' \in Calls /\ call'.pc = "saving" /\ call'.op = "text" /\ call'.index = i
      /\ call'.key = k /\ call'.old = call.old /\ call'.previous = r
  BY <1>1, <1>2, <1>3 DEF Calls
<1>8. Undone = [ram EXCEPT !.text[i][k] = call.old]
  BY <1>1 DEF Undone, TextUndone
<1>9. Undone' = Undone
  <2>1. Restored' = ram
    BY <1>6, <1>7 DEF Restored
  <2>2. Undone' = [Restored' EXCEPT !.text[i][k] = call.old]
    BY <1>7 DEF Undone, TextUndone
  <2> QED
    BY <1>8, <2>1, <2>2
<1>10. /\ Undone.count = ram.count /\ Undone.remotes = ram.remotes
       /\ \A j \in Slots : j # i => Undone.text[j] = ram.text[j]
       /\ \A l \in Keys : l # k => Undone.text[i][l] = ram.text[i][l]
  BY <1>2, <1>8 DEF Models, Rows
<1>11. Whole(ram')
  <2>1. r.named /\ r.assigned \subseteq Assignable
    BY <1>1, <1>2, <1>10 DEF Whole, remote_valid
  <2>2. assigned \subseteq Assignable
    BY <1>1, <2>1
  <2>3. remote_valid(q)
    BY <1>5, <2>1, <2>2 DEF remote_valid
  <2>4. \A j \in Slots : j < ram'.count => remote_valid(ram'.remotes[j])
    BY <1>1, <1>6, <1>10, <2>3 DEF Whole
  <2>5. ClearedTail(ram')
    <3>1. \A j \in Slots : j >= ram'.count => j # i
      BY <1>1, <1>2, <1>6, SlotFacts DEF Models
    <3> QED
      BY <1>1, <1>6, <1>10, <3>1 DEF Whole, ClearedTail
  <2>6. \A j \in Slots : ~(j < ram'.count /\ ram'.remotes[j].kind = "text") => ram'.text[j] = BlankRow
    BY <1>1, <1>5, <1>6, <1>10 DEF Whole
  <2>7. ASSUME NEW j \in Slots, j < ram'.count, ram'.remotes[j].kind = "text", NEW l \in Keys
        PROVE  l \in ram'.remotes[j].assigned <=> ram'.text[j][l] # NoText
    <3>1. CASE j # i
      BY <1>1, <1>6, <1>10, <2>7, <3>1 DEF Whole
    <3>2. CASE j = i /\ l # k
      BY <1>1, <1>5, <1>6, <1>10, <2>7, <3>2 DEF Whole
    <3>3. CASE j = i /\ l = k
      BY <1>5, <1>6, <3>3
    <3> QED
      BY <3>1, <3>2, <3>3
  <2> QED
    BY <2>4, <2>5, <2>6, <2>7 DEF Whole
<1>12. TypeOK'
  BY <1>1, <1>3, <1>6, <1>7 DEF TypeOK
<1>13. ram'.remotes[i].kind = "text"
  BY <1>2, <1>5, <1>6
<1>14. CallInv'
  BY <1>1, <1>3, <1>6, <1>7, <1>9, <1>13 DEF CallInv, Calling
<1>15. RamInv' /\ RamIsDurable' /\ ClearedTail(flash.model)'
  BY <1>1, <1>3, <1>7, <1>11 DEF RamInv, RamIsDurable, Calling
<1> QED
  BY <1>12, <1>14, <1>15 DEF StoreInv

(* The save commits the change, or the change is taken back.               *)
LEMMA SavedStep ==
    ASSUME StoreInv, Saved \/ MigrationSaved
    PROVE  StoreInv'
<1>1. /\ TypeOK /\ ~storageError /\ Whole(ram)
      /\ flash' = Serialized(ram) /\ call' = At("idle") /\ reply' \in {"none", "ok", "refused"}
      /\ UNCHANGED <<ram, storageError, legacy>>
  BY DEF StoreInv, Saved, MigrationSaved, CallInv, RamInv, Calling, TypeOK
<1>2. /\ flash' \in Blobs /\ ClearedTail(flash'.model)
      /\ Readable(flash', legacy') /\ Loaded(flash', legacy') = ram
  BY <1>1, SerializedLoads DEF TypeOK
<1>3. call' \in Calls /\ call'.pc = "idle"
  BY <1>1, CallTypes
<1>4. TypeOK'
  BY <1>1, <1>2, <1>3 DEF TypeOK
<1> QED
  BY <1>1, <1>2, <1>3, <1>4 DEF StoreInv, CallInv, RamInv, RamIsDurable, Calling

LEMMA NotSavedStep ==
    ASSUME StoreInv, NotSaved
    PROVE  StoreInv'
<1>1. /\ TypeOK /\ call.pc = "saving" /\ call' = [call EXCEPT !.pc = "undo"]
      /\ UNCHANGED <<ram, storageError, flash, legacy, reply>>
  BY DEF StoreInv, NotSaved
<1>2. /\ call' \in Calls /\ call'.pc = "undo" /\ call'.op = call.op /\ call'.index = call.index
      /\ call'.key = call.key /\ call'.old = call.old /\ call'.previous = call.previous
      /\ call'.row = call.row
  BY <1>1 DEF TypeOK, Calls
<1>3. TypeOK'
  BY <1>1, <1>2 DEF TypeOK
<1>4. Undone' = Undone
  BY <1>1, <1>2 DEF Undone, TextUndone, Restored, With
<1>5. CallInv'
  BY <1>1, <1>2, <1>4 DEF StoreInv, CallInv, Calling
<1> QED
  BY <1>1, <1>2, <1>3, <1>5 DEF StoreInv, RamInv, RamIsDurable, Calling

LEMMA UndoStep ==
    ASSUME StoreInv, Undo
    PROVE  StoreInv'
<1>1. /\ TypeOK /\ call.pc = "undo" /\ ram' = Restored /\ ~storageError /\ call \in Calls
      /\ UNCHANGED <<storageError, flash, legacy>>
      /\ Whole(Undone) /\ Readable(flash, legacy) /\ Undone = Loaded(flash, legacy)
      /\ ClearedTail(flash.model)
  BY DEF StoreInv, Undo, CallInv, Calling, TypeOK
<1>2. CASE call.op # "text"
  <2>1. /\ call' = At("idle") /\ reply' = "refused" /\ ram' = Undone
    BY <1>1, <1>2 DEF Undo, Undone
  <2>2. ram' \in Models
    BY <1>1, <2>1, LoadedWhole DEF TypeOK
  <2>3. call' \in Calls /\ call'.pc = "idle"
    BY <2>1, CallTypes
  <2>4. TypeOK'
    BY <1>1, <2>1, <2>2, <2>3 DEF TypeOK
  <2> QED
    BY <1>1, <2>1, <2>3, <2>4 DEF StoreInv, CallInv, RamInv, RamIsDurable, Calling
<1>3. CASE call.op = "text"
  <2> DEFINE i == call.index
             k == call.key
  <2>1. /\ call' = [call EXCEPT !.pc = "untext"] /\ reply' = reply
        /\ ram' = [ram EXCEPT !.remotes[i] = call.previous]
    BY <1>1, <1>3 DEF Undo, Restored
  <2>2. /\ call' \in Calls /\ call'.pc = "untext" /\ call'.op = "text" /\ call'.index = i
        /\ call'.key = k /\ call'.old = call.old
    BY <1>1, <1>3, <2>1 DEF Calls
  <2>3. ram \in Models /\ call.previous \in Remotes /\ i \in Slots
    BY <1>1 DEF TypeOK, Calls
  <2>4. ram' \in Models /\ ram'.count = ram.count
    BY <2>1, <2>3 DEF Models
  <2>5. Undone = [ram' EXCEPT !.text[i][k] = call.old]
    BY <1>1, <1>3 DEF Undone, TextUndone
  <2>6. Undone' = Undone
    BY <2>2, <2>5 DEF Undone, TextUndone
  <2>7. Undone.remotes = ram'.remotes /\ Undone.count = ram'.count
    BY <2>4, <2>5 DEF Models
  <2>8. i < ram.count /\ k \in Assignable /\ call.previous.kind = "text"
    BY <1>1, <1>3 DEF StoreInv, CallInv, Calling
  <2>9. ram'.remotes[i].kind = "text"
    BY <2>1, <2>3, <2>8 DEF Models
  <2>10. TypeOK'
    BY <1>1, <2>1, <2>2, <2>4 DEF TypeOK
  <2>11. CallInv'
    BY <1>1, <2>1, <2>2, <2>4, <2>6, <2>8, <2>9 DEF CallInv, Calling
  <2> QED
    BY <1>1, <2>2, <2>10, <2>11 DEF StoreInv, RamInv, RamIsDurable, Calling
<1> QED
  BY <1>2, <1>3

LEMMA UndoTextStep ==
    ASSUME StoreInv, UndoText
    PROVE  StoreInv'
<1>1. /\ TypeOK /\ call.pc = "untext" /\ ~storageError
      /\ Whole(Undone) /\ Readable(flash, legacy) /\ Undone = Loaded(flash, legacy)
      /\ ClearedTail(flash.model)
  BY DEF StoreInv, UndoText, CallInv, Calling
<1>2. /\ ram' = Undone /\ call' = At("idle") /\ reply' = "refused"
      /\ UNCHANGED <<storageError, flash, legacy>>
  BY <1>1 DEF UndoText, Undone, TextUndone
<1>3. ram' \in Models
  BY <1>1, <1>2, LoadedWhole DEF TypeOK
<1>4. call' \in Calls /\ call'.pc = "idle"
  BY <1>2, CallTypes
<1>5. TypeOK'
  BY <1>1, <1>2, <1>3, <1>4 DEF TypeOK
<1> QED
  BY <1>1, <1>2, <1>4, <1>5 DEF StoreInv, CallInv, RamInv, RamIsDurable, Calling

(* A refusal, and a step of something else.                                *)
LEMMA SameStep ==
    ASSUME StoreInv, UNCHANGED <<ram, storageError, flash, legacy, call>>,
           reply' \in {"none", "ok", "refused"}
    PROVE  StoreInv'
<1>1. TypeOK'
  BY DEF StoreInv, TypeOK
<1>2. Undone' = Undone
  BY DEF Undone, TextUndone, Restored, With
<1>3. CallInv'
  BY <1>2 DEF StoreInv, CallInv, Calling
<1>4. RamInv' /\ RamIsDurable' /\ ClearedTail(flash.model)'
  BY DEF StoreInv, RamInv, RamIsDurable, Calling
<1> QED
  BY <1>1, <1>3, <1>4 DEF StoreInv

(* Start-up.                                                               *)
LEMMA StartSteps ==
    ASSUME StoreInv, LoadFails \/ LoadRejects \/ Load \/ MigrationNotSaved \/ Refused \/ PowerLoss
    PROVE  StoreInv'
<1>1. TypeOK /\ ClearedTail(flash.model) /\ flash \in Blobs /\ legacy \in Legacies
  BY DEF StoreInv, TypeOK
<1>2. ASSUME LoadFails \/ PowerLoss PROVE StoreInv'
  <2>1. /\ ram' = Empty /\ call' \in Calls /\ call'.pc \in {"off", "idle"}
        /\ (call'.pc = "idle" => storageError') /\ storageError' \in BOOLEAN
        /\ UNCHANGED <<flash, legacy>> /\ reply' \in {"none", "ok", "refused"}
    BY <1>1, <1>2, CallTypes DEF LoadFails, PowerLoss, TypeOK
  <2>2. Empty.count = 0 /\ \A i \in Slots : ~(i < 0)
    BY SlotFacts DEF Empty
  <2> QED
    BY <1>1, <2>1, <2>2, BlankType DEF StoreInv, TypeOK, CallInv, RamInv, RamIsDurable, Calling
<1>3. ASSUME LoadRejects PROVE StoreInv'
  <2>1. PICK text \in {Empty.text, flash.model.text} : ram' = [Empty EXCEPT !.text = text]
    BY <1>3 DEF LoadRejects
  <2>2. text \in [Slots -> Rows]
    BY <1>1, BlankType DEF Blobs, Models
  <2>3. ram' \in Models /\ ram'.count = 0 /\ \A i \in Slots : ~(i < 0)
    BY <2>1, <2>2, BlankType, SlotFacts DEF Models, Empty
  <2>4. /\ call' \in Calls /\ call'.pc = "idle" /\ storageError' = TRUE
        /\ UNCHANGED <<flash, legacy, reply>>
    BY <1>3, CallTypes DEF LoadRejects
  <2> QED
    BY <1>1, <2>3, <2>4 DEF StoreInv, TypeOK, CallInv, RamInv, RamIsDurable, Calling
<1>4. ASSUME Load PROVE StoreInv'
  <2>1. /\ Readable(flash, legacy) /\ ram' = Loaded(flash, legacy) /\ storageError' = FALSE
        /\ UNCHANGED <<flash, legacy, reply>>
        /\ call' \in Calls /\ call'.pc \in {"idle", "migrating"}
        /\ call'.pc = "migrating" => flash.kind = "none"
    BY <1>4, CallTypes DEF Load
  <2>2. ram' \in Models /\ Whole(ram')
    BY <1>1, <2>1, LoadedWhole
  <2> QED
    BY <1>1, <2>1, <2>2 DEF StoreInv, TypeOK, CallInv, RamInv, RamIsDurable, Calling
<1>5. ASSUME MigrationNotSaved PROVE StoreInv'
  <2>1. /\ call.pc = "migrating" /\ storageError' = TRUE /\ call' \in Calls /\ call'.pc = "idle"
        /\ UNCHANGED <<ram, flash, legacy, reply>>
    BY <1>5, CallTypes DEF MigrationNotSaved
  <2>2. /\ Whole(ram) /\ flash.kind = "none" /\ ram = Loaded(flash, legacy)
    BY <2>1 DEF StoreInv, RamInv, Calling
  <2>3. \A i \in Slots : i < ram.count => ram.remotes[i].kind = "ir"
    BY <1>1, <2>2, MigratedWhole, SlotFacts DEF Loaded, Empty
  <2> QED
    BY <1>1, <2>1, <2>2, <2>3 DEF StoreInv, TypeOK, CallInv, RamInv, RamIsDurable, Calling
<1>6. ASSUME Refused PROVE StoreInv'
  <2>1. UNCHANGED <<ram, storageError, flash, legacy, call>> /\ reply' = "refused"
    BY <1>6 DEF Refused
  <2> QED
    BY <1>1, <2>1, SameStep
<1> QED
  BY <1>2, <1>3, <1>4, <1>5, <1>6

-----------------------------------------------------------------------------
(* The theorems.                                                           *)

LEMMA StoreInit == Init => StoreInv
<1> SUFFICES ASSUME Init PROVE StoreInv
  OBVIOUS
<1>1. PICK start \in Starts : flash = start.flash /\ legacy = start.legacy
  BY DEF Init
<1>2. flash \in Blobs /\ legacy \in Legacies /\ ClearedTail(flash.model)
  BY <1>1, StartAssumption DEF ClearedTail
<1>3. ram = Empty /\ storageError = FALSE /\ call = At("off") /\ reply = "none"
  BY DEF Init
<1>4. call \in Calls /\ call.pc = "off"
  BY <1>3, CallTypes
<1> QED
  BY <1>2, <1>3, <1>4, BlankType DEF StoreInv, TypeOK, CallInv, RamInv, RamIsDurable, Calling

LEMMA StoreStep == StoreInv /\ [Next]_vars => StoreInv'
<1> SUFFICES ASSUME StoreInv, [Next]_vars PROVE StoreInv'
  OBVIOUS
<1>1. CASE LoadFails \/ LoadRejects \/ Load \/ MigrationNotSaved \/ Refused \/ PowerLoss
  BY <1>1, StartSteps
<1>2. CASE Saved \/ MigrationSaved
  BY <1>2, SavedStep
<1>3. CASE TextAssigned \/ NotSaved \/ Undo \/ UndoText
  BY <1>3, TextAssignedStep, NotSavedStep, UndoStep, UndoTextStep
<1>4. ASSUME NEW kind \in {"ir", "custom", "text"}, app_remote_create(NewRemote(kind))
      PROVE  StoreInv'
  <2>1. NewRemote(kind) \in Remotes /\ NewRemote(kind).assigned = {}
    BY StoreAssumption DEF NewRemote, Blank, Remotes
  <2> QED
    BY <1>4, <2>1, CreateStep
<1>5. ASSUME NEW i \in Slots,
             app_remote_remove(i) \/ ChangeSettings(i) \/ OwnBondStore(i)
      PROVE  StoreInv'
  BY <1>5, RemoveStep, UpdateCalls
<1>6. ASSUME NEW i \in Slots, NEW k \in Keys,
             \/ \E code \in Recorded : app_remote_set_code(i, k, code)
             \/ \E binding \in Recorded \cup {NoCode} : app_remote_set_bt_binding(i, k, binding)
             \/ \E text \in Texts \cup {NoText} : app_remote_set_bt_text(i, k, text)
      PROVE  StoreInv'
  BY <1>6, UpdateCalls, TextStep, StartAssumption
<1>7. CASE UNCHANGED vars
  BY <1>7, SameStep DEF vars, StoreInv, TypeOK
<1> QED
  BY <1>1, <1>2, <1>3, <1>4, <1>5, <1>6, <1>7 DEF Next

(* Every reachable state has the invariant.                                *)
THEOREM StoreCorrect == Spec => []StoreInv
BY StoreInit, StoreStep, PTL DEF Spec

(* The variables keep their types.                                         *)
THEOREM StoreTypeCorrect == Spec => []TypeOK
<1>1. StoreInv => TypeOK
  BY DEF StoreInv
<1> QED
  BY <1>1, StoreCorrect, PTL

(* Between two calls RAM is what a restart would load, for every number of *)
(* remotes and keys and whatever saves failed.                             *)
THEOREM RamStaysDurable == Spec => []RamIsDurable
<1>1. StoreInv => RamIsDurable
  BY DEF StoreInv
<1> QED
  BY <1>1, StoreCorrect, PTL

(* A reader in another task finds the model whole at every moment.         *)
THEOREM ReadersAlwaysSeeWhole == Spec => []ReadersSeeWhole
<1>1. StoreInv => ReadersSeeWhole
  <2> SUFFICES ASSUME StoreInv PROVE ReadersSeeWhole
    OBVIOUS
  <2>1. TypeOK /\ CallInv /\ RamInv
    BY DEF StoreInv
  <2>2. CASE ram.count = 0 /\ ~Whole(ram) /\ ~Calling
    <3>1. \A i \in Slots : ~(i < 0)
      BY SlotFacts
    <3>2. storageError
      BY <2>1, <2>2 DEF RamInv
    <3> QED
      BY <2>2, <3>1, <3>2 DEF ReadersSeeWhole, Typing
  <2>3. CASE Whole(ram)
    BY <2>3 DEF ReadersSeeWhole, Whole, Typing
  <2>4. CASE call.pc \in {"texted", "untext"}
    <3> DEFINE i == call.index
               k == call.key
    <3>1. Undone = [ram EXCEPT !.text[i][k] = call.old] /\ Whole(Undone) /\ ~storageError
          /\ ram.remotes[i].kind = "text" /\ i < ram.count
      BY <2>1, <2>4 DEF CallInv, Undone, TextUndone, Calling
    <3>2. ram \in Models /\ i \in Slots /\ k \in Keys
      BY <2>1 DEF TypeOK, Calls
    <3>3. /\ Undone.count = ram.count /\ Undone.remotes = ram.remotes
          /\ \A j \in Slots : j # i => Undone.text[j] = ram.text[j]
          /\ \A l \in Keys : l # k => Undone.text[i][l] = ram.text[i][l]
      BY <3>1, <3>2 DEF Models, Rows
    <3>4. \A j \in Slots : j < ram.count => remote_valid(ram.remotes[j])
      BY <3>1, <3>3 DEF Whole
    <3>5. \A j \in Slots \ Typing(ram) : ram.text[j] = BlankRow
      BY <3>1, <3>2, <3>3 DEF Whole, Typing
    <3>6. ASSUME NEW j \in Typing(ram), NEW l \in Keys, ~(j = i /\ l = k)
          PROVE  l \in ram.remotes[j].assigned <=> ram.text[j][l] # NoText
      BY <3>1, <3>3, <3>6 DEF Whole, Typing
    <3> QED
      BY <2>4, <3>4, <3>5, <3>6 DEF ReadersSeeWhole
  <2> QED
    BY <2>1, <2>2, <2>3, <2>4 DEF RamInv, Calling
<1> QED
  BY <1>1, StoreCorrect, PTL

(* What each step does to the store: only a save changes it, what can be   *)
(* loaded stays loadable, and what cannot be loaded is left alone.         *)
LEMMA StepOnStore ==
    ASSUME StoreInv, [Next]_vars
    PROVE  \/ UNCHANGED <<flash, legacy>>
           \/ (Saved \/ MigrationSaved) /\ Readable(flash, legacy) /\ Readable(flash', legacy')
<1>1. CASE Saved \/ MigrationSaved
  <2>1. TypeOK /\ Whole(ram) /\ Readable(flash, legacy) /\ flash' = Serialized(ram)
    BY <1>1 DEF StoreInv, Saved, MigrationSaved, CallInv, RamInv, Calling
  <2> QED
    BY <1>1, <2>1, SerializedLoads DEF TypeOK
<1>2. CASE LoadFails \/ LoadRejects \/ Load \/ MigrationNotSaved \/ TextAssigned \/ Refused
           \/ NotSaved \/ Undo \/ UndoText \/ PowerLoss
  BY <1>2 DEF LoadFails, LoadRejects, Load, MigrationNotSaved, TextAssigned, Refused, NotSaved,
      Undo, UndoText, PowerLoss
<1>3. \A i, r : app_remote_update(i, r) => UNCHANGED <<flash, legacy>>
  BY DEF app_remote_update
<1>4. ASSUME NEW kind, app_remote_create(NewRemote(kind)) PROVE UNCHANGED <<flash, legacy>>
  BY <1>4 DEF app_remote_create
<1>5. ASSUME NEW i \in Slots, app_remote_remove(i) \/ ChangeSettings(i) \/ OwnBondStore(i)
      PROVE  UNCHANGED <<flash, legacy>>
  BY <1>3, <1>5 DEF app_remote_remove, ChangeSettings, OwnBondStore
<1>6. ASSUME NEW i \in Slots, NEW k \in Keys,
             \/ \E code \in Recorded : app_remote_set_code(i, k, code)
             \/ \E binding \in Recorded \cup {NoCode} : app_remote_set_bt_binding(i, k, binding)
             \/ \E text \in Texts \cup {NoText} : app_remote_set_bt_text(i, k, text)
      PROVE  UNCHANGED <<flash, legacy>>
  <2>1. CASE \E code \in Recorded : app_remote_set_code(i, k, code)
    BY <1>3, <2>1 DEF app_remote_set_code
  <2>2. CASE \E binding \in Recorded \cup {NoCode} : app_remote_set_bt_binding(i, k, binding)
    BY <1>3, <2>2 DEF app_remote_set_bt_binding
  <2>3. CASE \E text \in Texts \cup {NoText} : app_remote_set_bt_text(i, k, text)
    BY <2>3 DEF app_remote_set_bt_text
  <2> QED
    BY <1>6, <2>1, <2>2, <2>3
<1>7. CASE UNCHANGED vars
  BY <1>7 DEF vars
<1> QED
  BY <1>1, <1>2, <1>4, <1>5, <1>6, <1>7 DEF Next

(* A readable store stays readable; an unreadable one is not overwritten.  *)
THEOREM StoreStaysReadable == Spec => StoreKeptReadable
<1> DEFINE Kept == IF Readable(flash, legacy) THEN Readable(flash', legacy') ELSE UNCHANGED flash
<1>1. StoreInv /\ [Next]_vars => [Kept]_vars
  BY StepOnStore
<1> QED
  BY <1>1, StoreCorrect, PTL DEF Spec, StoreKeptReadable

-----------------------------------------------------------------------------
(* Refinement of DurableModel.                                             *)

(* The saved change of each call is one change of the abstract list.       *)
LEMMA SavedIsOneChange ==
    ASSUME StoreInv, call.pc = "saving"
    PROVE  \/ Abstract!Appended(Contents(Undone), Contents(ram))
           \/ Abstract!Replaced(Contents(Undone), Contents(ram))
           \/ Abstract!Removed(Contents(Undone), Contents(ram))
<1> DEFINE i == call.index
           old == Undone
<1>1. /\ TypeOK /\ ram \in Models /\ i \in Slots /\ call.op \in {"create", "update", "text", "remove"}
      /\ call.op = "create" => ram.count > 0
      /\ call.op = "remove" => i <= ram.count
      /\ call.op \in {"update", "text"} => i < ram.count
      /\ call \in Calls
  BY DEF StoreInv, CallInv, Calling, TypeOK, Calls
<1>2. /\ old \in Models /\ ram.count \in Nat /\ i \in Nat /\ \A j \in 0..(ram.count - 1) : j \in Slots
  <2>1. old \in Models
    BY <1>1, LoadedWhole DEF StoreInv, CallInv, Calling, TypeOK
  <2>2. ram.count \in Nat /\ ram.count <= MaxRemotes
    BY <1>1, StoreAssumption DEF Models
  <2>3. \A j \in 0..(ram.count - 1) : j \in Slots
    BY <2>2, StoreAssumption DEF Slots
  <2> QED
    BY <1>1, <2>1, <2>2, <2>3, SlotFacts
<1>3. CASE call.op = "create"
  <2>1. old = [ram EXCEPT !.count = @ - 1, !.remotes[ram.count - 1] = Blank]
    BY <1>3 DEF Undone, Restored
  <2>2. /\ old.count = ram.count - 1 /\ old.text = ram.text
        /\ \A j \in Slots : j # ram.count - 1 => old.remotes[j] = ram.remotes[j]
    BY <1>1, <2>1 DEF Models
  <2>3. \A j \in 0..(old.count - 1) : j \in 0..(ram.count - 1) /\ j # ram.count - 1
    BY <1>1, <1>2, <1>3, <2>2
  <2> HIDE DEF old
  <2>4. ram.count = old.count + 1
    BY <1>2, <2>2
  <2>5. \A j \in 0..(old.count - 1) :
           /\ j \in 0..(ram.count - 1)
           /\ old.remotes[j] = ram.remotes[j] /\ old.text[j] = ram.text[j]
    BY <1>2, <2>2, <2>3
  <2>6. Abstract!Appended(Contents(old), Contents(ram))
    BY <2>4, <2>5 DEF Abstract!Appended, Contents
  <2> QED
    BY <2>6 DEF old
<1>4. CASE call.op \in {"update", "text"}
  <2>1. /\ old.count = ram.count
        /\ \A j \in Slots : j # i => old.remotes[j] = ram.remotes[j] /\ old.text[j] = ram.text[j]
    <3>1. CASE call.op = "update"
      <4>1. old = [ram EXCEPT !.remotes[i] = call.previous]
        BY <3>1 DEF Undone, Restored
      <4> QED
        BY <1>1, <4>1 DEF Models
    <3>2. CASE call.op = "text"
      <4>1. old = TextUndone([ram EXCEPT !.remotes[i] = call.previous])
        BY <3>2 DEF Undone, Restored
      <4> QED
        BY <1>1, <4>1 DEF Models, TextUndone
    <3> QED
      BY <1>4, <3>1, <3>2
  <2> HIDE DEF old
  <2>2. i \in 0..(old.count - 1)
    BY <1>1, <1>2, <1>4, <2>1
  <2>3. Abstract!Replaced(Contents(old), Contents(ram))
    BY <1>2, <2>1, <2>2 DEF Abstract!Replaced, Contents
  <2> QED
    BY <2>3 DEF old
<1>5. CASE call.op = "remove"
  <2>1. /\ old = [ram EXCEPT !.count = @ + 1, !.remotes = With(@, i, call.previous),
                             !.text = With(@, i, call.row)]
    BY <1>5 DEF Undone, Restored
  <2>2. /\ old.count = ram.count + 1
        /\ old.remotes = With(ram.remotes, i, call.previous)
        /\ old.text = With(ram.text, i, call.row)
    BY <1>1, <2>1 DEF Models
  <2> HIDE DEF old
  <2>3. ASSUME NEW j \in 0..(ram.count - 1), NEW o, o = IF j < i THEN j ELSE j + 1
        PROVE  /\ o \in 0..(old.count - 1)
               /\ ram.remotes[j] = old.remotes[o] /\ ram.text[j] = old.text[o]
    <3>1. o \in 0..(old.count - 1) /\ j \in Slots /\ j \in Nat
      BY <1>2, <2>2, <2>3
    <3>2. old.count <= MaxRemotes
      BY <1>2, StoreAssumption DEF Models, old
    <3>3. o \in Slots
      BY <3>1, <3>2, <2>2, <1>2, StoreAssumption DEF Slots
    <3>4. CASE j < i
      BY <2>2, <2>3, <3>1, <3>3, <3>4 DEF With
    <3>5. CASE ~(j < i)
      <4>1. o = j + 1 /\ ~(o < i) /\ ~(o > ram.count) /\ o # i /\ o - 1 = j
        BY <1>2, <2>3, <3>1, <3>5
      <4> QED
        BY <2>2, <3>1, <3>3, <4>1 DEF With
    <3> QED
      BY <3>1, <3>4, <3>5
  <2>4. i \in 0..ram.count
    BY <1>1, <1>2, <1>5
  <2>5. Abstract!Removed(Contents(old), Contents(ram))
    <3>1. ASSUME NEW j \in 0..(ram.count - 1)
          PROVE  Contents(ram).entry[j] = Contents(old).entry[IF j < i THEN j ELSE j + 1]
      <4> DEFINE o == IF j < i THEN j ELSE j + 1
      <4>1. /\ o \in 0..(old.count - 1)
            /\ ram.remotes[j] = old.remotes[o] /\ ram.text[j] = old.text[o]
        BY <2>3
      <4> HIDE DEF o
      <4>2. Contents(ram).entry[j] = Contents(old).entry[o]
        BY <4>1 DEF Contents
      <4> QED
        BY <4>2 DEF o
    <3>2. /\ Contents(old).size = Contents(ram).size + 1
          /\ Contents(ram).size = ram.count
      BY <2>2 DEF Contents
    <3> QED
      BY <2>4, <3>1, <3>2 DEF Abstract!Removed
  <2> QED
    BY <2>5 DEF old
<1> QED
  BY <1>1, <1>3, <1>4, <1>5

LEMMA RefinesInit == Init => Abstract!Init
BY CallTypes DEF Init, Abstract!Init

(* Every step is a step of DurableModel, or one it does not see.           *)
LEMMA RefinesStep ==
    ASSUME StoreInv, [Next]_vars
    PROVE  [Abstract!Next]_(Abstract!vars)
<1> DEFINE list == Contents(Loaded(flash, legacy))
           busy == call.pc \in {"texted", "saving", "undo", "untext"}
<1>1. TypeOK /\ (busy => Readable(flash, legacy) /\ Undone = Loaded(flash, legacy))
  BY DEF StoreInv, CallInv, Calling
<1>2. CASE Saved
  <2>1. /\ call.pc = "saving" /\ call'.pc = "idle" /\ reply' = "ok" /\ flash' = Serialized(ram)
        /\ Whole(ram) /\ legacy' = legacy
    BY <1>2, CallTypes DEF Saved, StoreInv, RamInv
  <2>2. Readable(flash', legacy') /\ Loaded(flash', legacy') = ram
    BY <1>1, <2>1, SerializedLoads DEF TypeOK
  <2>3. Abstract!Apply
    BY <1>1, <2>1, <2>2, SavedIsOneChange DEF Abstract!Apply
  <2> QED
    BY <2>3 DEF Abstract!Next
<1>3. CASE MigrationSaved
  <2>1. /\ call.pc = "migrating" /\ call'.pc = "idle" /\ reply' = reply /\ flash' = Serialized(ram)
        /\ legacy' = legacy /\ Whole(ram) /\ ram = Loaded(flash, legacy) /\ Readable(flash, legacy)
    BY <1>3, CallTypes DEF MigrationSaved, StoreInv, RamInv, Calling
  <2>2. Readable(flash', legacy') /\ Loaded(flash', legacy') = ram
    BY <1>1, <2>1, SerializedLoads DEF TypeOK
  <2> QED
    BY <2>1, <2>2 DEF Abstract!vars
<1>4. CASE PowerLoss
  <2>1. call'.pc = "off" /\ reply' = "none" /\ UNCHANGED <<flash, legacy>>
    BY <1>4, CallTypes DEF PowerLoss
  <2>2. Abstract!Restart
    BY <2>1 DEF Abstract!Restart
  <2> QED
    BY <2>2 DEF Abstract!Next
<1>5. CASE Refused
  <2>1. Abstract!Refuse
    BY <1>5 DEF Refused, Abstract!Refuse
  <2> QED
    BY <2>1 DEF Abstract!Next
<1>6. CASE UndoText \/ (Undo /\ call.op # "text")
  <2>1. call'.pc = "idle" /\ reply' = "refused" /\ UNCHANGED <<flash, legacy>>
    BY <1>6, CallTypes DEF UndoText, Undo
  <2>2. Abstract!Refuse
    BY <2>1 DEF Abstract!Refuse
  <2> QED
    BY <2>2 DEF Abstract!Next
<1>7. CASE LoadFails \/ LoadRejects \/ Load \/ MigrationNotSaved \/ NotSaved
           \/ (Undo /\ call.op = "text") \/ TextAssigned \/ UNCHANGED vars
  <2>1. /\ UNCHANGED <<flash, legacy, reply>>
        /\ (call'.pc \in {"texted", "saving", "undo", "untext"}) = busy
    <3>1. CASE LoadFails \/ LoadRejects \/ Load \/ MigrationNotSaved
      BY <3>1, CallTypes DEF LoadFails, LoadRejects, Load, MigrationNotSaved
    <3>2. CASE NotSaved \/ (Undo /\ call.op = "text") \/ TextAssigned
      <4>1. UNCHANGED <<flash, legacy, reply>>
        BY <3>2 DEF NotSaved, Undo, TextAssigned
      <4>2. call.pc \in {"saving", "undo", "texted"}
        BY <3>2 DEF NotSaved, Undo, TextAssigned
      <4>3. call'.pc \in {"undo", "untext", "saving"}
        BY <1>1, <3>2 DEF NotSaved, Undo, TextAssigned, TypeOK, Calls
      <4> QED
        BY <4>1, <4>2, <4>3
    <3>3. CASE UNCHANGED vars
      BY <3>3 DEF vars
    <3> QED
      BY <1>7, <3>1, <3>2, <3>3
  <2> QED
    BY <2>1 DEF Abstract!vars
<1>8. \A i, r : app_remote_update(i, r) => Abstract!Begin
  BY CallTypes DEF app_remote_update, Abstract!Begin, StoreInv, RamIsDurable, Writable
<1>9. ASSUME NEW kind, app_remote_create(NewRemote(kind)) PROVE Abstract!Begin
  BY <1>9, CallTypes DEF app_remote_create, Abstract!Begin, StoreInv, RamIsDurable, Writable
<1>10. ASSUME NEW i \in Slots, app_remote_remove(i) \/ ChangeSettings(i) \/ OwnBondStore(i)
       PROVE  Abstract!Begin
  <2>1. CASE app_remote_remove(i)
    BY <2>1, CallTypes DEF app_remote_remove, Abstract!Begin, StoreInv, RamIsDurable, Writable
  <2>2. CASE ChangeSettings(i) \/ OwnBondStore(i)
    BY <1>8, <2>2 DEF ChangeSettings, OwnBondStore
  <2> QED
    BY <1>10, <2>1, <2>2
<1>11. ASSUME NEW i \in Slots, NEW k \in Keys,
             \/ \E code \in Recorded : app_remote_set_code(i, k, code)
             \/ \E binding \in Recorded \cup {NoCode} : app_remote_set_bt_binding(i, k, binding)
             \/ \E text \in Texts \cup {NoText} : app_remote_set_bt_text(i, k, text)
       PROVE  Abstract!Begin
  <2>1. CASE \E code \in Recorded : app_remote_set_code(i, k, code)
    BY <1>8, <2>1 DEF app_remote_set_code
  <2>2. CASE \E binding \in Recorded \cup {NoCode} : app_remote_set_bt_binding(i, k, binding)
    BY <1>8, <2>2 DEF app_remote_set_bt_binding
  <2>3. ASSUME NEW text \in Texts \cup {NoText}, app_remote_set_bt_text(i, k, text)
        PROVE  Abstract!Begin
    <3>1. call.pc = "idle" /\ call'.pc = "texted" /\ reply' = "none" /\ UNCHANGED <<flash, legacy>>
      BY <2>3 DEF app_remote_set_bt_text, At
    <3>2. i < ram.count /\ ram.remotes[i].kind = "text"
      BY <2>3 DEF app_remote_set_bt_text
    <3>3. ~storageError
      BY <3>2 DEF StoreInv, RamInv
    <3> QED
      BY <3>1, <3>3 DEF Abstract!Begin, StoreInv, RamIsDurable
  <2> QED
    BY <1>11, <2>1, <2>2, <2>3
<1> QED
  BY <1>2, <1>3, <1>4, <1>5, <1>6, <1>7, <1>9, <1>10, <1>11 DEF Next, Abstract!Next

(* The model and its storage implement DurableModel: every call makes one  *)
(* durable change and says so, or none.                                    *)
THEOREM StoreImplementsDurableModel == Spec => CallsAreAtomic
<1>1. StoreInv /\ [Next]_vars => [Abstract!Next]_(Abstract!vars)
  BY RefinesStep
<1> QED
  BY <1>1, RefinesInit, StoreCorrect, PTL DEF Spec, CallsAreAtomic, Abstract!Spec
-----------------------------------------------------------------------------
(* Migration.                                                              *)

(* The place of a key of a remote in the first firmware's store, counted   *)
(* without the MODE key.                                                   *)
Rank(k) == IF k < ModeKey THEN k - 1 ELSE k - 2
OldSlot(p) == p[1] * PerRemote + Rank(p[2])
Given(old) == {p \in Slots \X Assignable : OldSlot(p) < old.count}
Place(n) ==
    LET r == n % PerRemote IN <<n \div PerRemote, IF r + 1 < ModeKey THEN r + 1 ELSE r + 2>>

LEMMA Division ==
    ASSUME NEW n \in Nat, NEW d \in Nat \ {0}
    PROVE  n \div d \in Nat /\ n % d \in 0..(d - 1) /\ n = ((n \div d) * d) + (n % d)
OBVIOUS

LEMMA Multiples ==
    ASSUME NEW i \in Nat, NEW j \in Nat, NEW d \in Nat
    PROVE  i * d \in Nat /\ (i < j => i * d + d <= j * d)
<1>1. i * d \in Nat /\ j * d \in Nat
  OBVIOUS
<1>2. ASSUME i < j PROVE i * d + d <= j * d
  <2>1. PICK e \in Nat : j = i + 1 + e
    <3>1. j - i - 1 \in Nat /\ j = i + 1 + (j - i - 1)
      BY <1>2
    <3> QED
      BY <3>1
  <2>2. j * d = i * d + d + e * d /\ e * d \in Nat
    BY <2>1
  <2> QED
    BY <1>1, <2>2
<1> QED
  BY <1>1, <1>2

LEMMA RankFacts ==
    ASSUME NEW k \in Assignable
    PROVE  /\ PerRemote \in Nat \ {0}
           /\ Rank(k) \in 0..(PerRemote - 1)
           /\ \A l \in Assignable : Rank(l) < Rank(k) <=> l < k
<1>1. /\ KeyCount \in Nat /\ KeyCount >= 2 /\ ModeKey \in 1..KeyCount
      /\ \A l \in Assignable : l \in 1..KeyCount /\ l # ModeKey
  BY StoreAssumption DEF Assignable, Keys
<1> QED
  BY <1>1 DEF Rank, PerRemote

(* The order of the keys is the order of the old slots.                    *)
LEMMA SlotOrder ==
    ASSUME NEW p \in Slots \X Assignable, NEW q \in Slots \X Assignable
    PROVE  /\ OldSlot(p) \in Nat
           /\ OldSlot(q) < OldSlot(p) <=> q[1] < p[1] \/ (q[1] = p[1] /\ q[2] < p[2])
<1>1. p[1] \in Nat /\ q[1] \in Nat /\ p[2] \in Assignable /\ q[2] \in Assignable
  BY SlotFacts
<1>2. /\ PerRemote \in Nat /\ Rank(p[2]) \in 0..(PerRemote - 1) /\ Rank(q[2]) \in 0..(PerRemote - 1)
      /\ Rank(q[2]) < Rank(p[2]) <=> q[2] < p[2]
  BY <1>1, RankFacts
<1> DEFINE a == p[1] * PerRemote
           b == q[1] * PerRemote
<1>3. /\ a \in Nat /\ b \in Nat
      /\ p[1] < q[1] => a + PerRemote <= b
      /\ q[1] < p[1] => b + PerRemote <= a
      /\ p[1] = q[1] => a = b
  BY <1>1, <1>2, Multiples
<1>4. OldSlot(p) = a + Rank(p[2]) /\ OldSlot(q) = b + Rank(q[2])
  BY DEF OldSlot
<1> HIDE DEF a, b
<1> QED
  BY <1>1, <1>2, <1>3, <1>4

LEMMA DifferentSlots ==
    ASSUME NEW p \in Slots \X Assignable, NEW q \in Slots \X Assignable, OldSlot(p) = OldSlot(q)
    PROVE  p = q
<1>1. p[1] \in Nat /\ q[1] \in Nat /\ p[2] \in Nat /\ q[2] \in Nat
  BY SlotFacts, StoreAssumption DEF Assignable, Keys
<1>2. ~(q[1] < p[1] \/ (q[1] = p[1] /\ q[2] < p[2])) /\ ~(p[1] < q[1] \/ (q[1] = p[1] /\ p[2] < q[2]))
  <2>1. OldSlot(p) \in Nat /\ OldSlot(q) \in Nat
    BY SlotOrder
  <2> QED
    BY <2>1, SlotOrder
<1>3. p[1] = q[1] /\ p[2] = q[2]
  BY <1>1, <1>2
<1>4. p = <<p[1], p[2]>> /\ q = <<q[1], q[2]>>
  OBVIOUS
<1> QED
  BY <1>3, <1>4

(* Every old code has a place.                                             *)
LEMMA EveryCodePlaced ==
    ASSUME NEW old \in Legacies, NEW n \in Nat, n < old.count
    PROVE  Place(n) \in Given(old) /\ OldSlot(Place(n)) = n /\ Place(n)[1] < Migrated(old).count
<1> DEFINE i == n \div PerRemote
           r == n % PerRemote
           k == IF r + 1 < ModeKey THEN r + 1 ELSE r + 2
           count == (old.count + PerRemote - 1) \div PerRemote
           top == (old.count + PerRemote - 1) % PerRemote
<1>1. /\ old.count \in Nat /\ old.count \in 0..LegacyMax /\ LegacyMax \in Nat
      /\ PerRemote \in Nat \ {0} /\ PerRemote = KeyCount - 1
      /\ KeyCount \in Nat /\ ModeKey \in 1..KeyCount
  BY StoreAssumption DEF Legacies, PerRemote, Keys
<1>2. i \in Nat /\ r \in 0..(PerRemote - 1) /\ n = i * PerRemote + r
  BY <1>1, Division
<1>3. old.count + PerRemote - 1 \in Nat
  BY <1>1
<1>4. count \in Nat /\ top \in 0..(PerRemote - 1) /\ old.count + PerRemote - 1 = count * PerRemote + top
  BY <1>1, <1>3, Division
<1>5. count \in 0..MaxRemotes /\ MaxRemotes \in Nat
  BY <1>1, StoreAssumption
<1>6. Migrated(old).count = count
  BY DEF Migrated, Empty
<1> HIDE DEF i, r, count, top
<1>7. i < count
  <2>1. i * PerRemote \in Nat /\ count * PerRemote \in Nat /\ i * PerRemote < count * PerRemote
    <3>1. i * PerRemote \in Nat /\ count * PerRemote \in Nat
      BY <1>1, <1>2, <1>4, Multiples
    <3>2. i * PerRemote <= n
      BY <1>2, <3>1
    <3>3. old.count <= count * PerRemote
      BY <1>1, <1>4, <3>1
    <3> QED
      BY <1>1, <3>1, <3>2, <3>3
  <2>2. count < i => count * PerRemote + PerRemote <= i * PerRemote
    BY <1>1, <1>2, <1>4, Multiples
  <2> QED
    BY <1>1, <1>2, <1>4, <2>1, <2>2
<1>8. k \in Assignable /\ Rank(k) = r
  BY <1>1, <1>2 DEF Assignable, Keys, Rank
<1>9. i \in Slots
  BY <1>2, <1>5, <1>7 DEF Slots
<1>10. Place(n) = <<i, k>>
  BY DEF Place, i, r
<1> HIDE DEF k
<1>11. OldSlot(<<i, k>>) = n
  BY <1>2, <1>8 DEF OldSlot
<1> QED
  BY <1>6, <1>7, <1>8, <1>9, <1>10, <1>11 DEF Given

(* The places of the first n codes are n places.                           *)
LEMMA PlacesCount ==
    ASSUME NEW old \in Legacies, NEW n \in Nat, n <= old.count
    PROVE  Cardinality({p \in Given(old) : OldSlot(p) < n}) = n
<1> DEFINE S == {p \in Given(old) : OldSlot(p) < n}
           f == [x \in 1..n |-> Place(x - 1)]
<1>1. \A x \in 1..n : x - 1 \in Nat /\ x - 1 < n /\ x - 1 < old.count
  BY DEF Legacies
<1>2. \A x \in 1..n : Place(x - 1) \in S /\ OldSlot(Place(x - 1)) = x - 1
  BY <1>1, EveryCodePlaced
<1>3. \A p \in S : \E x \in 1..n : Place(x - 1) = p
  <2> SUFFICES ASSUME NEW p \in S PROVE \E x \in 1..n : Place(x - 1) = p
    OBVIOUS
  <2>1. p \in Slots \X Assignable /\ OldSlot(p) < n
    BY DEF Given
  <2>2. OldSlot(p) \in Nat
    BY <2>1, SlotOrder
  <2>3. OldSlot(p) + 1 \in 1..n /\ (OldSlot(p) + 1) - 1 = OldSlot(p)
    BY <2>1, <2>2
  <2>4. Place(OldSlot(p)) \in Slots \X Assignable /\ OldSlot(Place(OldSlot(p))) = OldSlot(p)
    BY <1>2, <2>3 DEF Given
  <2>5. Place(OldSlot(p)) = p
    BY <2>1, <2>4, DifferentSlots
  <2> QED
    BY <2>3, <2>5
<1> HIDE DEF S
<1>4. f \in Bijection(1..n, S)
  <2>1. f \in [1..n -> S]
    BY <1>2
  <2>2. \A x, y \in 1..n : f[x] = f[y] => x = y
    BY <1>2
  <2>3. \A p \in S : \E x \in 1..n : f[x] = p
    BY <1>3
  <2> HIDE DEF f
  <2> QED
    BY <2>1, <2>2, <2>3 DEF Bijection, Injection, Surjection, IsInjective
<1>5. ExistsBijection(1..n, S)
  BY <1>4 DEF ExistsBijection
<1>6. Cardinality(S) = n
  BY <1>5, FS_CountingElements
<1> QED
  BY <1>6 DEF S
(* What a migration leaves: a key that has a code, and its code.           *)
LEMMA MigratedCodes ==
    ASSUME NEW old \in Legacies
    PROVE  LET m == Migrated(old)
               used == {p \in Slots \X Keys : p[1] < m.count /\ p[2] \in m.remotes[p[1]].assigned}
           IN  /\ used = Given(old)
               /\ \A p \in used : m.remotes[p[1]].keys[p[2]] = old.code[OldSlot(p)]
<1> DEFINE slot(i, k) == i * PerRemote + (IF k < ModeKey THEN k - 1 ELSE k - 2)
           given(i) == {k \in Assignable : slot(i, k) < old.count}
           count == (old.count + PerRemote - 1) \div PerRemote
           keys(i) == [k \in Keys |-> IF k \in given(i) THEN old.code[slot(i, k)] ELSE NoCode]
           remote(i) == [Blank EXCEPT !.named = TRUE, !.assigned = given(i), !.keys = keys(i)]
           m == Migrated(old)
           used == {p \in Slots \X Keys : p[1] < m.count /\ p[2] \in m.remotes[p[1]].assigned}
<1>1. \A i, k : slot(i, k) = OldSlot(<<i, k>>)
  BY DEF OldSlot, Rank
<1>2. \A i : remote(i).assigned = given(i) /\ remote(i).keys = keys(i)
  BY DEF Blank
<1>3. m = [Empty EXCEPT !.count = count,
                        !.remotes = [i \in Slots |-> IF i < count THEN remote(i) ELSE Blank]]
  BY DEF Migrated
<1> HIDE DEF slot, count, remote
<1>4. m.count = count /\ \A i \in Slots : m.remotes[i] = IF i < count THEN remote(i) ELSE Blank
  BY <1>3 DEF Empty
<1> HIDE DEF m
<1>5. \A i \in Slots : i < m.count => m.remotes[i].assigned = given(i) /\ m.remotes[i].keys = keys(i)
  BY <1>2, <1>4
<1>6. Assignable \subseteq Keys
  BY DEF Assignable
<1>7. \A p \in Slots \X Keys : p = <<p[1], p[2]>>
  OBVIOUS
<1>8. ASSUME NEW p \in used PROVE p \in Given(old) /\ m.remotes[p[1]].keys[p[2]] = old.code[OldSlot(p)]
  <2>1. p[1] \in Slots /\ p[2] \in Keys /\ p = <<p[1], p[2]>> /\ p[1] < m.count /\ p[2] \in m.remotes[p[1]].assigned
    BY <1>7
  <2>2. p[2] \in given(p[1]) /\ m.remotes[p[1]].keys = keys(p[1])
    BY <1>5, <2>1
  <2>3. p[2] \in Assignable /\ OldSlot(p) < old.count /\ slot(p[1], p[2]) = OldSlot(p)
    BY <1>1, <2>1, <2>2
  <2> QED
    BY <2>1, <2>2, <2>3 DEF Given
<1>9. ASSUME NEW p \in Given(old) PROVE p \in used
  <2>1. p[1] \in Slots /\ p[2] \in Assignable /\ p = <<p[1], p[2]>> /\ OldSlot(p) < old.count
    BY DEF Given
  <2>2. OldSlot(p) \in Nat
    BY <2>1, SlotOrder
  <2>3. Place(OldSlot(p)) \in Given(old) /\ OldSlot(Place(OldSlot(p))) = OldSlot(p)
        /\ Place(OldSlot(p))[1] < m.count
    BY <2>1, <2>2, EveryCodePlaced DEF m
  <2>4. p = Place(OldSlot(p))
    BY <2>1, <2>3, DifferentSlots DEF Given
  <2>5. p[1] < m.count
    BY <2>3, <2>4
  <2>6. p[2] \in given(p[1])
    BY <1>1, <2>1
  <2> QED
    BY <1>5, <1>6, <2>1, <2>5, <2>6
<1> QED
  BY <1>8, <1>9 DEF m

(* Remotes that could not be saved after a migration stay as it made them. *)
MigratedInv ==
    storageError /\ flash.kind = "none" /\ legacy.kind = "slots" /\ ram.count > 0 => ram = Migrated(legacy)

LEMMA MigratedStep ==
    ASSUME StoreInv, MigratedInv, [Next]_vars
    PROVE  MigratedInv'
<1>1. TypeOK /\ CallInv /\ RamInv
  BY DEF StoreInv
<1>2. CASE LoadFails \/ LoadRejects \/ PowerLoss
  BY <1>2 DEF LoadFails, LoadRejects, PowerLoss, MigratedInv, Empty
<1>3. CASE Load
  BY <1>3 DEF Load, MigratedInv
<1>4. CASE MigrationSaved \/ Saved
  <2>1. Serialized(ram).kind = "blob"
    BY DEF Serialized
  <2>2. flash'.kind = "blob"
    BY <1>4, <2>1 DEF MigrationSaved, Saved
  <2> QED
    BY <2>2 DEF MigratedInv
<1>5. CASE MigrationNotSaved
  BY <1>1, <1>5 DEF MigrationNotSaved, MigratedInv, RamInv, Loaded
<1>6. CASE Refused \/ UNCHANGED vars
  BY <1>6 DEF Refused, vars, MigratedInv
<1>7. CASE TextAssigned \/ NotSaved \/ Undo \/ UndoText
  <2>1. ~storageError /\ storageError' = storageError
    BY <1>1, <1>7 DEF TextAssigned, NotSaved, Undo, UndoText, CallInv, Calling
  <2> QED
    BY <2>1 DEF MigratedInv
<1>8. ASSUME NEW kind, app_remote_create(NewRemote(kind)) PROVE MigratedInv'
  BY <1>8 DEF app_remote_create, Writable, MigratedInv
<1>9. \A i, r : app_remote_update(i, r) => MigratedInv'
  BY DEF app_remote_update, Writable, MigratedInv
<1>10. ASSUME NEW i \in Slots, app_remote_remove(i) \/ ChangeSettings(i) \/ OwnBondStore(i)
       PROVE  MigratedInv'
  BY <1>9, <1>10 DEF app_remote_remove, ChangeSettings, OwnBondStore, Writable, MigratedInv
<1>11. ASSUME NEW i \in Slots, NEW k \in Keys, NEW text, app_remote_set_bt_text(i, k, text)
       PROVE  MigratedInv'
  <2>1. i < ram.count /\ ram.remotes[i].kind = "text" /\ storageError' = storageError
    BY <1>11 DEF app_remote_set_bt_text
  <2>2. ~storageError
    BY <1>1, <2>1 DEF RamInv
  <2> QED
    BY <1>1, <2>1, <2>2 DEF MigratedInv, TypeOK
<1>12. ASSUME NEW i \in Slots, NEW k \in Keys, NEW code,
              app_remote_set_code(i, k, code) \/ app_remote_set_bt_binding(i, k, code)
       PROVE  MigratedInv'
  BY <1>9, <1>12 DEF app_remote_set_code, app_remote_set_bt_binding
<1> QED
  BY <1>2, <1>3, <1>4, <1>5, <1>6, <1>7, <1>8, <1>10, <1>11, <1>12 DEF Next

(* No code of the first firmware is lost, doubled or moved out of order by *)
(* the migration, for any number of them.                                  *)
THEOREM EveryCodeMigrates == Spec => []MigrationComplete
<1>1. StoreInv /\ MigratedInv => MigrationComplete
  <2> SUFFICES ASSUME StoreInv, MigratedInv, flash.kind = "none", legacy.kind = "slots",
                      storageError \/ call.pc = "migrating", ram.count > 0
               PROVE  MigrationComplete
    BY DEF MigrationComplete
  <2> DEFINE used == {p \in Slots \X Keys : p[1] < ram.count /\ p[2] \in ram.remotes[p[1]].assigned}
             before(p) == {q \in used : q[1] < p[1] \/ (q[1] = p[1] /\ q[2] < p[2])}
  <2>1. legacy \in Legacies /\ legacy.count \in Nat
    BY DEF StoreInv, TypeOK, Legacies
  <2>2. ram = Migrated(legacy)
    BY DEF StoreInv, MigratedInv, RamInv, Loaded
  <2>3. used = Given(legacy) /\ \A p \in used : ram.remotes[p[1]].keys[p[2]] = legacy.code[OldSlot(p)]
    BY <2>1, <2>2, MigratedCodes
  <2>4. Given(legacy) = {p \in Given(legacy) : OldSlot(p) < legacy.count}
    BY DEF Given
  <2>5. Cardinality(used) = legacy.count
    BY <2>1, <2>3, <2>4, PlacesCount
  <2>6. ASSUME NEW p \in used PROVE Cardinality(before(p)) = OldSlot(p)
    <3>1. p \in Slots \X Assignable /\ OldSlot(p) < legacy.count /\ OldSlot(p) \in Nat
      BY <2>3, SlotOrder DEF Given
    <3>2. \A q \in Given(legacy) : OldSlot(q) < OldSlot(p) <=> q[1] < p[1] \/ (q[1] = p[1] /\ q[2] < p[2])
      BY <3>1, SlotOrder DEF Given
    <3>3. before(p) = {q \in Given(legacy) : OldSlot(q) < OldSlot(p)}
      BY <2>3, <3>2
    <3> QED
      BY <2>1, <3>1, <3>3, PlacesCount
  <2>7. \A p \in used : ram.remotes[p[1]].keys[p[2]] = legacy.code[Cardinality(before(p))]
    BY <2>3, <2>6
  <2> QED
    BY <2>5, <2>7 DEF MigrationComplete
<1>2. Init => MigratedInv
  BY DEF Init, MigratedInv
<1>3. StoreInv /\ MigratedInv /\ [Next]_vars => MigratedInv'
  BY MigratedStep
<1> QED
  BY <1>1, <1>2, <1>3, StoreCorrect, PTL DEF Spec
=============================================================================
