----------------------------- MODULE MCAppStore -----------------------------
(* Bounds for TLC: three remotes, three keys of which one is MODE.         *)
EXTENDS AppStoreProperties, Sequences, TLC

NoBlob == [kind |-> "none", version |-> 3, model |-> Empty]

Remote(kind, keys, store) ==
    [Blank EXCEPT !.kind = kind, !.named = TRUE, !.store = store,
                  !.assigned = DOMAIN keys,
                  !.keys = [k \in Keys |-> IF k \in DOMAIN keys THEN keys[k] ELSE NoCode]]
Texting(row) == [Remote("text", << >>, "legacy") EXCEPT !.assigned = DOMAIN row]
RowOf(row) == [k \in Keys |-> IF k \in DOMAIN row THEN row[k] ELSE NoText]

Holding(remotes, rows) ==
    [count |-> Len(remotes),
     remotes |-> [i \in Slots |-> IF i < Len(remotes) THEN remotes[i + 1] ELSE Blank],
     text |-> [i \in Slots |-> IF i < Len(rows) THEN RowOf(rows[i + 1]) ELSE BlankRow]]

(* Blobs of each version, and ones with a valid checksum that must not be  *)
(* accepted: a text without its assignment, an assigned MODE key.          *)
McBlobs ==
    LET Blob(version, model) == [kind |-> "blob", version |-> version, model |-> model] IN
    {[NoBlob EXCEPT !.kind = "bad"],
     Blob(1, Holding(<<Remote("custom", 1 :> "c1", "profile")>>, << >>)),
     Blob(2, Holding(<<Texting(1 :> "t"), Remote("ir", 3 :> "c1", "legacy")>>, <<1 :> "t">>)),
     Blob(3, Holding(<<Texting(3 :> "t")>>, <<1 :> "t">>)),
     Blob(3, Holding(<<Remote("ir", 2 :> "c1", "legacy")>>, << >>))}

(* The first firmware's store: none, an unusable one, three codes.         *)
McOld(kind, count) ==
    [kind |-> kind, count |-> count, code |-> [n \in 0..(LegacyMax - 1) |-> <<"c1", "c2", "c3">>[n + 1]]]

McStarts ==
    [flash : McBlobs, legacy : {McOld("none", 0)}]
    \cup [flash : {NoBlob}, legacy : {McOld("none", 0), McOld("bad", 0), McOld("slots", LegacyMax)}]
=============================================================================
