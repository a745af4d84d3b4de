---------------------------- MODULE UiNavProofs ----------------------------
(***************************************************************************)
(* Theorems about navigation, for any remotes, queue lengths and numbers:  *)
(* the screens fit on the stack, neither worker goes on behind a screen    *)
(* that was left, the editor saves the remote it was opened on, and a hold *)
(* of BACK returns.                                                        *)
(*                                                                         *)
(* What a stack may hold is a property of the stack alone (Shaped); what a *)
(* screen on it says of the stored remotes is About.  Push, Leave, Replace *)
(* and Home are shown to keep both, once; each handler then only has to    *)
(* give the reason why the screen it opens is allowed there.               *)
(***************************************************************************)
EXTENDS UiNavProperties, SequenceTheorems, TLAPS

-----------------------------------------------------------------------------
(* Sequences                                                               *)

LEMMA PrefixFacts ==
    ASSUME NEW S, NEW s \in Seq(S), NEW n \in 0..Len(s)
    PROVE  /\ SubSeq(s, 1, n) \in Seq(S) /\ Len(SubSeq(s, 1, n)) = n
           /\ \A i \in 1..n : i \in 1..Len(s) /\ SubSeq(s, 1, n)[i] = s[i]
OBVIOUS

LEMMA AppendFacts ==
    ASSUME NEW S, NEW s \in Seq(S), NEW e \in S
    PROVE  /\ Append(s, e) \in Seq(S) /\ Len(Append(s, e)) = Len(s) + 1 /\ Len(s) \in Nat
           /\ Append(s, e)[Len(s) + 1] = e
           /\ \A i \in 1..Len(s) : Append(s, e)[i] = s[i]
OBVIOUS

LEMMA WithoutType ==
    ASSUME NEW list \in Seq(Remote), NEW i \in DOMAIN list
    PROVE  Without(list, i) \in Seq(Remote) /\ Len(Without(list, i)) = Len(list) - 1
<1>1. i \in 1..Len(list) /\ Len(list) \in Nat
    OBVIOUS
<1>2. SubSeq(list, 1, i - 1) \in Seq(Remote) /\ Len(SubSeq(list, 1, i - 1)) = i - 1
    BY <1>1
<1>3. SubSeq(list, i + 1, Len(list)) \in Seq(Remote)
      /\ Len(SubSeq(list, i + 1, Len(list))) = Len(list) - i
    BY <1>1
<1>4. /\ SubSeq(list, 1, i - 1) \o SubSeq(list, i + 1, Len(list)) \in Seq(Remote)
      /\ Len(SubSeq(list, 1, i - 1) \o SubSeq(list, i + 1, Len(list))) = (i - 1) + (Len(list) - i)
    BY <1>2, <1>3
<1>5. (i - 1) + (Len(list) - i) = Len(list) - 1
    BY <1>1
<1>6. Without(list, i) = SubSeq(list, 1, i - 1) \o SubSeq(list, i + 1, Len(list))
    BY DEF Without
<1> QED BY <1>4, <1>5, <1>6

-----------------------------------------------------------------------------
(* The shape of the stack.  A screen is only ever opened on a lower one, so *)
(* its height bounds its place; the second screen tells what the user is   *)
(* doing.                                                                  *)

Has(s, screens) == \E i \in 1..Len(s) : s[i] \in screens
Under(s, screens) == 1 < Len(s) /\ s[2] \in screens

Roots == {"SPLASH", "HOME"}
IrScreens == {"IR_KEYS", "IR_REPLACE", "IR_WAIT", "IR_RESULT"}
Height(screen) ==
    IF screen \in Roots THEN 1
    ELSE IF screen \in {"SETTINGS", "ADD_TYPE", "BT_DEVICE"} THEN 2
    ELSE IF screen \in {"ABOUT", "STORAGE", "BT_TYPE", "BT_CONFIRM", "BT_SPEED", "EDIT"} THEN 3
    ELSE IF screen \in {"REMOTE", "NAME", "REMOVE", "CONSTRUCTION", "BT_KEYS", "IR_KEYS"} THEN 4
    ELSE IF screen = "BT_PRESET" THEN 6 ELSE 5

Shaped(s) ==
    /\ Len(s) > 0 /\ s[1] \in Roots
    /\ \A i \in 1..Len(s) : i <= Height(s[i])
    /\ Has(s, {"BT_TYPE", "BT_PRESET"}) => Under(s, {"ADD_TYPE"})
    /\ Has(s, {"EDIT", "REMOVE"}) => Under(s, {"EDIT", "BT_DEVICE"})

\* the radio and the receiver have their screens
Serviced(u) ==
    /\ u.session # NoId <=> Under(u.stack, {"BT_DEVICE"})
    /\ u.pending => u.session # NoId
    /\ u.request # NoId => u.stack[Len(u.stack)] = "IR_WAIT"

\* the screens speak of a stored remote, and of the right kind
Shows(u, list, kinds) == u.active \in DOMAIN list /\ list[u.active].kind \in kinds
Edits(u, list) ==
    /\ u.editing /\ Shows(u, list, {u.draft.kind})
    /\ u.draft.kind \notin BtKinds => u.draft.bonded = list[u.active].bonded
About(u, list) ==
    /\ Under(u.stack, {"BT_DEVICE"}) => Shows(u, list, BtKinds)
    /\ Under(u.stack, {"EDIT"}) => Shows(u, list, {"ir", "wifi"})
    /\ Has(u.stack, IrScreens) => Shows(u, list, {"ir"})
    /\ Under(u.stack, {"ADD_TYPE"}) => ~u.editing
    /\ Has(u.stack, {"NAME", "ICON"}) /\ ~Under(u.stack, {"ADD_TYPE"}) => Edits(u, list)

Sound(u, list) == Shaped(u.stack) /\ Serviced(u) /\ About(u, list)
WantedShown == wanted # NoId => wanted = ui.session
NavInv == TypeOK /\ Sound(ui, remotes) /\ WantedShown

LEMMA HeightFacts ==
    ASSUME NEW s \in Seq(Screens), Shaped(s)
    PROVE  /\ Len(s) \in 1..6
           /\ \A i \in 1..Len(s) : s[i] \in Screens
           /\ \A i \in 1..Len(s) : s[i] \in Roots => i = 1
           /\ \A i \in 1..Len(s) : s[i] \in {"SETTINGS", "ADD_TYPE", "BT_DEVICE"} => i = 2
           /\ Has(s, {"BT_DEVICE"}) <=> Under(s, {"BT_DEVICE"})
           /\ Has(s, {"ADD_TYPE"}) <=> Under(s, {"ADD_TYPE"})
<1>1. Len(s) \in Nat /\ 1 <= Len(s) /\ \A i \in 1..Len(s) : s[i] \in Screens
    BY DEF Shaped
<1>2. \A i \in 1..Len(s) : s[i] \in Roots => i = 1
    BY DEF Shaped, Height
<1>3. \A i \in 1..Len(s) : s[i] \in {"SETTINGS", "ADD_TYPE", "BT_DEVICE"} => i = 2
    <2> TAKE i \in 1..Len(s)
    <2> HAVE s[i] \in {"SETTINGS", "ADD_TYPE", "BT_DEVICE"}
    <2>1. i <= 2
        BY DEF Shaped, Height, Roots
    <2>2. i # 1
        BY DEF Shaped, Roots
    <2> QED BY <2>1, <2>2
<1>4. Len(s) <= 6
    <2>1. \A screen : Height(screen) <= 6
        BY DEF Height
    <2>2. Len(s) <= Height(s[Len(s)])
        BY <1>1 DEF Shaped
    <2>3. Height(s[Len(s)]) \in Nat
        BY DEF Height
    <2> QED BY <1>1, <2>1, <2>2, <2>3
<1>5. ASSUME NEW screen \in {"ADD_TYPE", "BT_DEVICE"}
      PROVE  Has(s, {screen}) <=> Under(s, {screen})
    BY <1>1, <1>3 DEF Has, Under
<1>6. /\ Has(s, {"BT_DEVICE"}) <=> Under(s, {"BT_DEVICE"})
      /\ Has(s, {"ADD_TYPE"}) <=> Under(s, {"ADD_TYPE"})
    BY <1>5
<1>7. Len(s) \in 1..6
    <2>1. \A n \in Nat : 1 <= n /\ n <= 6 => n \in 1..6
        OBVIOUS
    <2> QED BY <1>1, <1>4, <2>1
<1> QED BY <1>1, <1>2, <1>3, <1>6, <1>7

\* what the lower part of a stack has, the stack has
LEMMA PrefixHas ==
    ASSUME NEW s \in Seq(Screens), NEW n \in 1..Len(s), NEW X
    PROVE  /\ Has(SubSeq(s, 1, n), X) => Has(s, X)
           /\ Under(SubSeq(s, 1, n), X) <=> (1 < n /\ Under(s, X))
<1>1. /\ SubSeq(s, 1, n) \in Seq(Screens) /\ Len(SubSeq(s, 1, n)) = n
      /\ \A i \in 1..n : i \in 1..Len(s) /\ SubSeq(s, 1, n)[i] = s[i]
    BY PrefixFacts
<1>2. 1 < n => 2 \in 1..n
    OBVIOUS
<1> QED BY <1>1, <1>2 DEF Has, Under

\* the second screen
LEMMA AppendUnder ==
    ASSUME NEW s \in Seq(Screens), Len(s) = 1, NEW screen \in Screens
    PROVE  /\ Under(Append(s, screen), {screen})
           /\ Append(s, screen) \in Seq(Screens) /\ Len(Append(s, screen)) = 2
<1>1. /\ Append(s, screen) \in Seq(Screens)
      /\ Len(Append(s, screen)) = 2 /\ Append(s, screen)[2] = screen
    <2>1. Len(s) + 1 = 2
        OBVIOUS
    <2>2. /\ Len(Append(s, screen)) = Len(s) + 1
          /\ Append(s, screen)[Len(s) + 1] = screen
          /\ Append(s, screen) \in Seq(Screens)
        BY AppendFacts
    <2> QED BY <2>1, <2>2
<1> QED BY <1>1 DEF Under

LEMMA AppendKeepsUnder ==
    ASSUME NEW s \in Seq(Screens), NEW screen \in Screens, NEW X, Under(s, X)
    PROVE  Under(Append(s, screen), X)
<1>1. /\ Len(Append(s, screen)) = Len(s) + 1 /\ Len(s) \in Nat
      /\ \A i \in 1..Len(s) : Append(s, screen)[i] = s[i]
    BY AppendFacts
<1> QED BY <1>1 DEF Under

LEMMA PrefixShaped ==
    ASSUME NEW s \in Seq(Screens), Shaped(s), NEW n \in 1..Len(s)
    PROVE  Shaped(SubSeq(s, 1, n))
<1> DEFINE p == SubSeq(s, 1, n)
<1>1. /\ p \in Seq(Screens) /\ Len(p) = n
      /\ \A i \in 1..n : i \in 1..Len(s) /\ p[i] = s[i]
    BY PrefixFacts
<1>2. ASSUME NEW X, NEW Y, Has(s, X) => Under(s, Y), X \cap Roots = {}, Has(p, X)
      PROVE  Under(p, Y)
    <2>1. PICK i \in 1..n : p[i] \in X
        BY <1>1, <1>2 DEF Has
    <2>2. s[i] \in X /\ s[1] \in Roots
        BY <1>1, <2>1 DEF Shaped
    <2>3. i # 1
        BY <1>2, <2>2
    <2>4. 1 < n
        BY <2>3
    <2> QED BY <1>2, <2>4, PrefixHas
<1>3. Has(p, {"BT_TYPE", "BT_PRESET"}) => Under(p, {"ADD_TYPE"})
    <2>1. {"BT_TYPE", "BT_PRESET"} \cap Roots = {}
        BY DEF Roots
    <2> QED BY <1>2, <2>1 DEF Shaped
<1>4. Has(p, {"EDIT", "REMOVE"}) => Under(p, {"EDIT", "BT_DEVICE"})
    <2>1. {"EDIT", "REMOVE"} \cap Roots = {}
        BY DEF Roots
    <2> QED BY <1>2, <2>1 DEF Shaped
<1>5. p[1] \in Roots /\ \A i \in 1..Len(p) : i <= Height(p[i])
    BY <1>1 DEF Shaped
<1> QED BY <1>1, <1>3, <1>4, <1>5 DEF Shaped

\* a screen above the top one
LEMMA AppendShaped ==
    ASSUME NEW s \in Seq(Screens), Shaped(s), NEW screen \in Screens,
           Len(s) < Height(screen),
           screen \in {"BT_TYPE", "BT_PRESET"} => Under(s, {"ADD_TYPE"}),
           screen \in {"EDIT", "REMOVE"} =>
               \/ Under(s, {"EDIT", "BT_DEVICE"})
               \/ screen = "EDIT" /\ Len(s) = 1
    PROVE  Shaped(Append(s, screen))
<1> DEFINE a == Append(s, screen)
<1>1. /\ a \in Seq(Screens) /\ Len(a) = Len(s) + 1 /\ Len(s) \in 1..6
      /\ a[Len(s) + 1] = screen /\ \A i \in 1..Len(s) : a[i] = s[i]
    BY AppendFacts, HeightFacts
<1>2. \A i \in 1..Len(a) : i <= Height(a[i])
    <2> TAKE i \in 1..Len(a)
    <2>1. CASE i \in 1..Len(s)
        BY <1>1, <2>1 DEF Shaped
    <2>2. CASE i = Len(s) + 1
        <3>1. Height(screen) \in Nat
            BY DEF Height
        <3> QED BY <1>1, <2>2, <3>1
    <2> QED BY <1>1, <2>1, <2>2
<1>3. \A X : Under(s, X) => Under(a, X)
    BY <1>1 DEF Under
<1>4. \A X : Has(a, X) => Has(s, X) \/ screen \in X
    BY <1>1 DEF Has
<1>5. Len(s) = 1 => Under(a, {screen})
    BY <1>1 DEF Under
<1> HIDE DEF a
<1>6. Has(a, {"BT_TYPE", "BT_PRESET"}) => Under(a, {"ADD_TYPE"})
    BY <1>3, <1>4 DEF Shaped
<1>7. Has(a, {"EDIT", "REMOVE"}) => Under(a, {"EDIT", "BT_DEVICE"})
    <2>1. Under(a, {"EDIT"}) => Under(a, {"EDIT", "BT_DEVICE"})
        BY DEF Under
    <2> QED BY <1>3, <1>4, <1>5, <2>1 DEF Shaped
<1>8. a[1] \in Roots /\ Len(a) > 0
    BY <1>1 DEF Shaped
<1> QED BY <1>2, <1>6, <1>7, <1>8 DEF Shaped, a

-----------------------------------------------------------------------------
(* Opening and leaving screens                                             *)

\* a screen may be opened on this stack
Opens(u, list, screen) ==
    /\ screen \in Screens
    /\ Len(u.stack) < Height(screen)
    /\ screen \in {"BT_TYPE", "BT_PRESET"} => Under(u.stack, {"ADD_TYPE"})
    /\ screen \in {"EDIT", "REMOVE"} =>
          \/ Under(u.stack, {"EDIT", "BT_DEVICE"})
          \/ screen = "EDIT" /\ Len(u.stack) = 1 /\ Shows(u, list, {"ir", "wifi"})
    /\ screen = "BT_DEVICE" => Shows(u, list, BtKinds)
    /\ screen \in IrScreens => Shows(u, list, {"ir"})
    /\ screen = "ADD_TYPE" => ~u.editing
    /\ screen \in {"NAME", "ICON"} => Under(u.stack, {"ADD_TYPE"}) \/ Edits(u, list)

LEMMA PushFacts ==
    ASSUME NEW u \in UiType, Shaped(u.stack), NEW screen \in Screens
    PROVE  /\ Push(u, screen) = [u EXCEPT !.stack = Append(u.stack, screen)]
           /\ Push(u, screen) \in UiType
<1>1. u.stack \in Seq(Screens)
    BY DEF UiType
<1>2. Len(u.stack) \in 1..6
    BY <1>1, HeightFacts
<1>3. Len(u.stack) < StackMax
    <2>1. \A n \in 1..6 : n < StackMax
        BY UiAssumption
    <2> QED BY <1>2, <2>1
<1>4. Append(u.stack, screen) \in Seq(Screens)
    BY <1>1, AppendFacts
<1>5. Push(u, screen) = [u EXCEPT !.stack = Append(u.stack, screen)]
    BY <1>3 DEF Push
<1> QED BY <1>4, <1>5 DEF UiType

LEMMA PushKeeps ==
    ASSUME NEW u \in UiType, NEW list, Shaped(u.stack), About(u, list),
           NEW screen, Opens(u, list, screen)
    PROVE  /\ Push(u, screen) \in UiType
           /\ Push(u, screen) = [u EXCEPT !.stack = Append(u.stack, screen)]
           /\ Shaped(Push(u, screen).stack) /\ About(Push(u, screen), list)
<1> DEFINE v == Push(u, screen)
           a == Append(u.stack, screen)
<1>1. u.stack \in Seq(Screens) /\ screen \in Screens
    BY DEF UiType, Opens
<1>2. /\ v \in UiType /\ v = [u EXCEPT !.stack = a]
    BY <1>1, PushFacts
<1>3. /\ v.stack = a /\ v.active = u.active /\ v.editing = u.editing /\ v.draft = u.draft
    BY <1>2 DEF UiType
<1>4. Shaped(a)
    BY <1>1, AppendShaped DEF Opens
<1>5. /\ Len(a) = Len(u.stack) + 1 /\ Len(u.stack) \in 1..6
      /\ a[Len(u.stack) + 1] = screen /\ \A i \in 1..Len(u.stack) : a[i] = u.stack[i]
    BY <1>1, AppendFacts, HeightFacts
<1>6. \A X : Under(a, X) => Under(u.stack, X) \/ (Len(u.stack) = 1 /\ screen \in X)
    BY <1>5 DEF Under
<1>7. \A X : Under(u.stack, X) => Under(a, X)
    BY <1>5 DEF Under
<1>8. \A X : Has(a, X) => Has(u.stack, X) \/ screen \in X
    BY <1>5 DEF Has
<1>9. \A kinds : Shows(v, list, kinds) <=> Shows(u, list, kinds)
    BY <1>3 DEF Shows
<1>10. Edits(u, list) => Edits(v, list)
    BY <1>3, <1>9 DEF Edits
<1> HIDE DEF v, a
<1>11. Under(a, {"BT_DEVICE"}) => Shows(v, list, BtKinds)
    BY <1>6, <1>9 DEF About, Opens
<1>12. Under(a, {"EDIT"}) => Shows(v, list, {"ir", "wifi"})
    <2>1. Len(u.stack) = 1 => ~Under(u.stack, {"EDIT", "BT_DEVICE"})
        BY DEF Under
    <2> QED BY <1>6, <1>9, <2>1 DEF About, Opens
<1>13. Has(a, IrScreens) => Shows(v, list, {"ir"})
    BY <1>8, <1>9 DEF About, Opens
<1>14. Under(a, {"ADD_TYPE"}) => ~v.editing
    BY <1>3, <1>6 DEF About, Opens
<1>15. Has(a, {"NAME", "ICON"}) /\ ~Under(a, {"ADD_TYPE"}) => Edits(v, list)
    BY <1>7, <1>8, <1>10 DEF About, Opens
<1>16. About(v, list)
    BY <1>3, <1>11, <1>12, <1>13, <1>14, <1>15 DEF About
<1> QED BY <1>2, <1>3, <1>4, <1>16 DEF v, a

LEMMA PushSound ==
    ASSUME NEW u \in UiType, NEW list, Sound(u, list), NEW screen, Opens(u, list, screen),
           screen # "BT_DEVICE", u.request = NoId
    PROVE  /\ Push(u, screen) \in UiType /\ Sound(Push(u, screen), list)
           /\ Push(u, screen) = [u EXCEPT !.stack = Append(u.stack, screen)]
           /\ Push(u, screen).session = u.session
<1> DEFINE v == Push(u, screen)
           a == Append(u.stack, screen)
<1>1. /\ v \in UiType /\ v = [u EXCEPT !.stack = a] /\ Shaped(v.stack) /\ About(v, list)
    BY PushKeeps DEF Sound
<1>2. /\ v.stack = a /\ v.session = u.session /\ v.pending = u.pending /\ v.request = u.request
    BY <1>1 DEF UiType
<1>3. u.stack \in Seq(Screens) /\ screen \in Screens
    BY DEF UiType, Opens
<1>4. /\ Len(a) = Len(u.stack) + 1 /\ Len(u.stack) \in 1..6
      /\ a[Len(u.stack) + 1] = screen /\ \A i \in 1..Len(u.stack) : a[i] = u.stack[i]
    BY <1>3, AppendFacts, HeightFacts DEF Sound
<1>5. Under(a, {"BT_DEVICE"}) <=> Under(u.stack, {"BT_DEVICE"})
    BY <1>4 DEF Under
<1> HIDE DEF v, a
<1>6. Serviced(v)
    BY <1>2, <1>5 DEF Serviced, Sound
<1> QED BY <1>1, <1>2, <1>6 DEF Sound, v, a

LEMMA LeaveFacts ==
    ASSUME NEW u \in UiType, NEW n \in 0..Len(u.stack)
    PROVE  /\ Leave(u, n) \in UiType
           /\ Leave(u, n).stack = SubSeq(u.stack, 1, n)
           /\ Leave(u, n).active = u.active /\ Leave(u, n).editing = u.editing
           /\ Leave(u, n).draft = u.draft /\ Leave(u, n).back = u.back
           /\ Leave(u, n).request = IF "IR_WAIT" \in Gone(u, n) THEN NoId ELSE u.request
           /\ "BT_DEVICE" \in Gone(u, n) /\ u.session # NoId =>
                 Leave(u, n).session = NoId /\ Leave(u, n).pending = FALSE
           /\ ~("BT_DEVICE" \in Gone(u, n) /\ u.session # NoId) =>
                 Leave(u, n).session = u.session /\ Leave(u, n).pending = u.pending
<1>1. PICK menu \in BOOLEAN : menu = ("BT_DEVICE" \in Gone(u, n) /\ u.session # NoId)
    OBVIOUS
<1>2. PICK pending \in BOOLEAN : pending = (u.pending /\ ~menu)
    OBVIOUS
<1>3. PICK failed \in BOOLEAN : failed = (u.failed /\ Gone(u, n) \cap {"IR_WAIT", "IR_RESULT"} = {})
    OBVIOUS
<1> DEFINE request == IF "IR_WAIT" \in Gone(u, n) THEN NoId ELSE u.request
           session == IF menu THEN NoId ELSE u.session
           status == IF menu THEN "other" ELSE u.status
           prefix == SubSeq(u.stack, 1, n)
<1>4. Leave(u, n) = [u EXCEPT !.stack = prefix, !.request = request, !.session = session,
                              !.pending = pending, !.status = status, !.failed = failed]
    BY <1>1, <1>2, <1>3 DEF Leave
<1>5. prefix \in Seq(Screens)
    BY PrefixFacts DEF UiType
<1>6. /\ request \in Ids \cup {NoId} /\ session \in Ids \cup {NoId} /\ status \in States
    BY DEF UiType, States
<1>7. /\ menu => session = NoId /\ pending = FALSE
      /\ ~menu => session = u.session /\ pending = u.pending
    BY <1>2 DEF UiType
<1>8. request = IF "IR_WAIT" \in Gone(u, n) THEN NoId ELSE u.request
    OBVIOUS
<1>9. prefix = SubSeq(u.stack, 1, n)
    OBVIOUS
<1> HIDE DEF request, session, status, prefix
<1>10. /\ Leave(u, n) \in UiType
       /\ Leave(u, n).stack = prefix /\ Leave(u, n).request = request
       /\ Leave(u, n).session = session /\ Leave(u, n).pending = pending
       /\ Leave(u, n).active = u.active /\ Leave(u, n).editing = u.editing
       /\ Leave(u, n).draft = u.draft /\ Leave(u, n).back = u.back
    BY <1>4, <1>5, <1>6 DEF UiType
<1> QED BY <1>1, <1>7, <1>8, <1>9, <1>10

LEMMA LeaveSound ==
    ASSUME NEW u \in UiType, NEW list, Sound(u, list), NEW n \in 1..Len(u.stack), n < Len(u.stack)
    PROVE  /\ Leave(u, n) \in UiType /\ Sound(Leave(u, n), list)
           /\ Leave(u, n).stack = SubSeq(u.stack, 1, n)
           /\ Leave(u, n).session \in {u.session, NoId} /\ Leave(u, n).request = NoId
           /\ Leave(u, n).active = u.active /\ Leave(u, n).editing = u.editing
           /\ Leave(u, n).draft = u.draft /\ Leave(u, n).back = u.back
<1> DEFINE v == Leave(u, n)
           p == SubSeq(u.stack, 1, n)
<1>0. u.stack \in Seq(Screens) /\ Len(u.stack) \in 1..6 /\ n \in 0..Len(u.stack)
    <2>1. u.stack \in Seq(Screens)
        BY DEF UiType
    <2>2. Len(u.stack) \in 1..6
        BY <2>1, HeightFacts DEF Sound
    <2> QED BY <2>1, <2>2
<1>1. /\ v \in UiType /\ v.stack = p
      /\ v.active = u.active /\ v.editing = u.editing /\ v.draft = u.draft /\ v.back = u.back
      /\ v.request = IF "IR_WAIT" \in Gone(u, n) THEN NoId ELSE u.request
      /\ "BT_DEVICE" \in Gone(u, n) /\ u.session # NoId => v.session = NoId /\ v.pending = FALSE
      /\ ~("BT_DEVICE" \in Gone(u, n) /\ u.session # NoId) =>
            v.session = u.session /\ v.pending = u.pending
    BY <1>0, LeaveFacts
<1>2. u.stack[Len(u.stack)] \in Gone(u, n)
    <2>1. Len(u.stack) \in (n + 1)..Len(u.stack)
        BY <1>0
    <2> QED BY <2>1 DEF Gone
<1>3. v.request = NoId
    BY <1>1, <1>2 DEF Sound, Serviced
<1>4. Shaped(p)
    BY <1>0, PrefixShaped DEF Sound
<1>5. \A X : /\ Has(p, X) => Has(u.stack, X)
             /\ Under(p, X) <=> (1 < n /\ Under(u.stack, X))
    BY <1>0, PrefixHas
<1>6. "BT_DEVICE" \in Gone(u, n) <=> ~(1 < n) /\ Under(u.stack, {"BT_DEVICE"})
    <2>1. \A i \in 1..Len(u.stack) : u.stack[i] = "BT_DEVICE" => i = 2
        BY <1>0, HeightFacts DEF Sound
    <2>2. "BT_DEVICE" \in Gone(u, n) <=> \E i \in (n + 1)..Len(u.stack) : u.stack[i] = "BT_DEVICE"
        BY DEF Gone
    <2>3. (n + 1)..Len(u.stack) \subseteq 1..Len(u.stack)
        BY <1>0
    <2>4. CASE 1 < n
        <3>1. ~(2 \in (n + 1)..Len(u.stack))
            BY <1>0, <2>4
        <3> QED BY <2>1, <2>2, <2>3, <2>4, <3>1
    <2>5. CASE ~(1 < n)
        <3>1. n = 1 /\ 2 \in (n + 1)..Len(u.stack) /\ 1 < Len(u.stack)
            BY <1>0, <2>5
        <3> QED BY <2>1, <2>2, <2>3, <2>5, <3>1 DEF Under
    <2> QED BY <2>4, <2>5
<1> HIDE DEF v, p
<1>7. Serviced(v)
    <2>1. CASE "BT_DEVICE" \in Gone(u, n) /\ u.session # NoId
        BY <1>1, <1>3, <1>5, <1>6, <2>1 DEF Serviced
    <2>2. CASE ~("BT_DEVICE" \in Gone(u, n) /\ u.session # NoId)
        BY <1>1, <1>3, <1>5, <1>6, <2>2 DEF Serviced, Sound
    <2> QED BY <2>1, <2>2
<1>8. About(v, list)
    <2>1. \A kinds : Shows(v, list, kinds) <=> Shows(u, list, kinds)
        BY <1>1 DEF Shows
    <2>2. Edits(u, list) => Edits(v, list)
        BY <1>1, <2>1 DEF Edits
    <2>3. Has(p, {"NAME", "ICON"}) => 1 < n
        <3>1. p \in Seq(Screens) /\ Len(p) = n /\ p[1] \in Roots
            BY <1>0, <1>4, PrefixFacts DEF p, Shaped
        <3>2. p[1] \notin {"NAME", "ICON"}
            BY <3>1 DEF Roots
        <3> QED BY <3>1, <3>2 DEF Has
    <2>4. Has(p, {"NAME", "ICON"}) /\ ~Under(p, {"ADD_TYPE"}) => Edits(v, list)
        BY <1>5, <2>2, <2>3 DEF Sound, About
    <2>5. Under(p, {"ADD_TYPE"}) => ~v.editing
        BY <1>1, <1>5 DEF Sound, About
    <2>6. Has(p, IrScreens) => Shows(v, list, {"ir"})
        BY <1>5, <2>1 DEF Sound, About
    <2>7. /\ Under(p, {"BT_DEVICE"}) => Shows(v, list, BtKinds)
          /\ Under(p, {"EDIT"}) => Shows(v, list, {"ir", "wifi"})
        BY <1>5, <2>1 DEF Sound, About
    <2> QED BY <1>1, <2>4, <2>5, <2>6, <2>7 DEF About
<1>9. v.session \in {u.session, NoId}
    BY <1>1
<1> QED BY <1>1, <1>3, <1>4, <1>7, <1>8, <1>9 DEF Sound, v, p

\* only the home screen is left
LEMMA HomeSound ==
    ASSUME NEW u \in UiType, Shaped(u.stack), Serviced(u)
    PROVE  /\ Home(u) \in UiType /\ Home(u).stack = <<"HOME">>
           /\ Home(u).session = NoId /\ Home(u).request = NoId /\ ~Home(u).editing
           /\ \A list : Sound(Home(u), list)
<1> DEFINE v == Leave(u, 0)
           w == [v EXCEPT !.editing = FALSE, !.draft = Blank]
<1>0. u.stack \in Seq(Screens) /\ Len(u.stack) \in 1..6 /\ 0 \in 0..Len(u.stack)
    <2>1. u.stack \in Seq(Screens)
        BY DEF UiType
    <2>2. Len(u.stack) \in 1..6
        BY <2>1, HeightFacts
    <2> QED BY <2>1, <2>2
<1>1. /\ v \in UiType /\ v.stack = SubSeq(u.stack, 1, 0)
      /\ v.request = IF "IR_WAIT" \in Gone(u, 0) THEN NoId ELSE u.request
      /\ "BT_DEVICE" \in Gone(u, 0) /\ u.session # NoId => v.session = NoId /\ v.pending = FALSE
      /\ ~("BT_DEVICE" \in Gone(u, 0) /\ u.session # NoId) =>
            v.session = u.session /\ v.pending = u.pending
    BY <1>0, LeaveFacts
<1>2. \A i \in 1..Len(u.stack) : u.stack[i] \in Gone(u, 0)
    <2>1. \A i \in 1..Len(u.stack) : i \in (0 + 1)..Len(u.stack)
        BY <1>0
    <2> QED BY <2>1 DEF Gone
<1>3. v.request = NoId
    <2>1. Len(u.stack) \in 1..Len(u.stack)
        <3>1. \A n \in 1..6 : n \in 1..n
            OBVIOUS
        <3> QED BY <1>0, <3>1
    <2>2. u.request # NoId => "IR_WAIT" \in Gone(u, 0)
        BY <1>2, <2>1 DEF Serviced
    <2> HIDE DEF v
    <2>3. CASE "IR_WAIT" \in Gone(u, 0)
        BY <1>1, <2>3
    <2>4. CASE ~("IR_WAIT" \in Gone(u, 0))
        BY <1>1, <2>2, <2>4
    <2> QED BY <2>3, <2>4
<1>4. v.session = NoId /\ v.pending = FALSE
    <2>1. CASE u.session # NoId
        <3>1. 1 < Len(u.stack) /\ u.stack[2] = "BT_DEVICE"
            BY <2>1 DEF Serviced, Under
        <3>2. 2 \in 1..Len(u.stack)
            BY <1>0, <3>1
        <3> QED BY <1>1, <1>2, <2>1, <3>1, <3>2
    <2>2. CASE u.session = NoId
        <3>1. u.pending = FALSE
            BY <2>2 DEF Serviced, UiType
        <3> QED BY <1>1, <2>2, <3>1
    <2> QED BY <2>1, <2>2
<1>5. v.stack = << >>
    <2>1. v.stack \in Seq(Screens) /\ Len(v.stack) = 0
        <3>1. v.stack = SubSeq(u.stack, 1, 0)
            BY <1>1
        <3> HIDE DEF v
        <3>2. SubSeq(u.stack, 1, 0) \in Seq(Screens) /\ Len(SubSeq(u.stack, 1, 0)) = 0
            BY <1>0, PrefixFacts
        <3> QED BY <3>1, <3>2
    <2> HIDE DEF v
    <2> QED BY <2>1, EmptySeq
<1> HIDE DEF v
<1>6. /\ w \in UiType /\ w.stack = << >> /\ w.session = NoId /\ w.request = NoId
      /\ w.pending = FALSE /\ w.editing = FALSE
    BY <1>1, <1>3, <1>4, <1>5 DEF UiType, Blank, Remote
<1>7. Home(u) = [w EXCEPT !.stack = <<"HOME">>]
    <2>1. Len(w.stack) < StackMax
        <3>1. Len(w.stack) = 0
            <4> HIDE DEF w
            <4> QED BY <1>6
        <3>2. 0 < StackMax
            BY UiAssumption
        <3> QED BY <3>1, <3>2
    <2>2. Append(w.stack, "HOME") = <<"HOME">>
        <3>1. Append(<< >>, "HOME") = <<"HOME">>
            OBVIOUS
        <3> HIDE DEF w
        <3> QED BY <1>6, <3>1
    <2> HIDE DEF w
    <2>3. Push(w, "HOME") = [w EXCEPT !.stack = Append(w.stack, "HOME")]
        BY <2>1 DEF Push
    <2> QED BY <2>2, <2>3 DEF Home, w, v
<1> HIDE DEF w
<1>8. <<"HOME">> \in Seq(Screens) /\ Len(<<"HOME">>) = 1 /\ <<"HOME">>[1] = "HOME"
    BY DEF Screens
<1>9. /\ Home(u) \in UiType /\ Home(u).stack = <<"HOME">> /\ Home(u).session = NoId
      /\ Home(u).request = NoId /\ Home(u).pending = FALSE /\ Home(u).editing = FALSE
    BY <1>6, <1>7, <1>8 DEF UiType
<1>10. \A X : /\ ~Under(<<"HOME">>, X)
              /\ "HOME" \notin X => ~Has(<<"HOME">>, X)
    BY <1>8 DEF Under, Has
<1>11. Shaped(<<"HOME">>)
    BY <1>8, <1>10 DEF Shaped, Roots, Height
<1>12. Serviced(Home(u))
    BY <1>9, <1>10 DEF Serviced
<1>13. \A list : About(Home(u), list)
    <2>1. "HOME" \notin IrScreens /\ "HOME" \notin {"NAME", "ICON"}
        BY DEF IrScreens
    <2> QED BY <1>9, <1>10, <2>1 DEF About
<1> QED BY <1>9, <1>11, <1>12, <1>13 DEF Sound

-----------------------------------------------------------------------------
(* What a handler finds, and what it leaves                                *)

Posts == [type : {"peer"} \cup Results, id : Ids, bonded : BOOLEAN]
Others == remotes \in Seq(Remote) /\ events \in Seq(Posts) /\ held \in Seq(Screens)

LEMMA TopFacts ==
    ASSUME NavInv
    PROVE  /\ ui \in UiType /\ Sound(ui, remotes) /\ Others
           /\ ui.stack \in Seq(Screens) /\ Len(ui.stack) \in 1..6
           /\ Len(ui.stack) \in 1..Len(ui.stack)
           /\ Top \in Screens /\ Len(ui.stack) <= Height(Top)
           /\ \A X : Top \in X => Has(ui.stack, X)
           /\ Top # "IR_WAIT" => ui.request = NoId
           /\ Top \in Roots <=> Len(ui.stack) = 1
           /\ Top \in {"ADD_TYPE", "BT_TYPE", "BT_PRESET"} => Under(ui.stack, {"ADD_TYPE"})
           /\ Top \in {"EDIT", "REMOVE"} => Under(ui.stack, {"EDIT", "BT_DEVICE"})
           /\ Top = "BT_DEVICE" => Under(ui.stack, {"BT_DEVICE"})
<1>1. ui \in UiType /\ Sound(ui, remotes) /\ Others /\ ui.stack \in Seq(Screens)
    BY DEF NavInv, TypeOK, UiType, Others, Posts
<1>2. Len(ui.stack) \in 1..6 /\ \A i \in 1..Len(ui.stack) : ui.stack[i] \in Screens
    BY <1>1, HeightFacts DEF Sound
<1>3. Len(ui.stack) \in 1..Len(ui.stack)
    <2>1. \A n \in 1..6 : n \in 1..n
        OBVIOUS
    <2> QED BY <1>2, <2>1
<1>4. Top \in Screens /\ Len(ui.stack) <= Height(Top) /\ Top = ui.stack[Len(ui.stack)]
    BY <1>1, <1>2, <1>3 DEF Top, Sound, Shaped
<1>5. \A X : Top \in X => Has(ui.stack, X)
    BY <1>3, <1>4 DEF Has
<1>6. Top # "IR_WAIT" => ui.request = NoId
    BY <1>1, <1>4 DEF Sound, Serviced
<1>7. Top \in Roots <=> Len(ui.stack) = 1
    BY <1>1, <1>3, <1>4, HeightFacts DEF Sound, Shaped
<1>8. /\ Top \in {"BT_TYPE", "BT_PRESET"} => Under(ui.stack, {"ADD_TYPE"})
      /\ Top \in {"EDIT", "REMOVE"} => Under(ui.stack, {"EDIT", "BT_DEVICE"})
    BY <1>1, <1>5 DEF Sound, Shaped
<1>9. /\ Top = "ADD_TYPE" => Under(ui.stack, {"ADD_TYPE"})
      /\ Top = "BT_DEVICE" => Under(ui.stack, {"BT_DEVICE"})
    <2>1. /\ Has(ui.stack, {"BT_DEVICE"}) <=> Under(ui.stack, {"BT_DEVICE"})
          /\ Has(ui.stack, {"ADD_TYPE"}) <=> Under(ui.stack, {"ADD_TYPE"})
        BY <1>1, HeightFacts DEF Sound
    <2> QED BY <1>5, <2>1
<1> QED BY <1>1, <1>2, <1>3, <1>4, <1>5, <1>6, <1>7, <1>8, <1>9

LEMMA KeyTyped ==
    ASSUME NavInv, NEW e, Key(e), remotes' \in Seq(Remote)
    PROVE  Others'
<1>1. held' \in Seq(Screens)
    <2>1. << >> \in Seq(Screens)
        OBVIOUS
    <2> QED BY <2>1, TopFacts DEF Key
<1>2. events' = events
    BY DEF Key
<1> QED BY <1>1, <1>2, TopFacts DEF Others

\* Sound does not look at the other fields
LEMMA SameSound ==
    ASSUME NEW u, NEW v, NEW list, Sound(u, list),
           v.stack = u.stack, v.session = u.session, v.request = u.request,
           v.pending => u.pending,
           v.active = u.active, v.editing = u.editing, v.draft = u.draft
    PROVE  Sound(v, list)
<1>1. Serviced(v)
    BY DEF Sound, Serviced
<1>2. \A kinds : Shows(v, list, kinds) <=> Shows(u, list, kinds)
    BY DEF Shows
<1>3. Edits(u, list) => Edits(v, list)
    BY <1>2 DEF Edits
<1>4. About(v, list)
    BY <1>2, <1>3 DEF Sound, About
<1> QED BY <1>1, <1>4 DEF Sound

\* on the home screen nothing is shown yet
LEMMA RootSound ==
    ASSUME NEW u \in UiType, Shaped(u.stack), Serviced(u), Len(u.stack) = 1, NEW list
    PROVE  Sound(u, list)
<1>1. \A X : ~Under(u.stack, X)
    BY DEF Under
<1>2. \A X : X \cap Roots = {} => ~Has(u.stack, X)
    BY DEF Has, Shaped
<1>3. IrScreens \cap Roots = {} /\ {"NAME", "ICON"} \cap Roots = {}
    BY DEF IrScreens, Roots
<1> QED BY <1>1, <1>2, <1>3 DEF Sound, About

\* the wizard may choose its draft
LEMMA WizardSound ==
    ASSUME NEW u, NEW v, NEW list, Sound(u, list), Under(u.stack, {"ADD_TYPE"}),
           v.stack = u.stack, v.session = u.session, v.request = u.request, v.pending = u.pending,
           v.active = u.active, v.editing = u.editing
    PROVE  Sound(v, list)
<1>1. Serviced(v)
    BY DEF Sound, Serviced
<1>2. \A kinds : Shows(v, list, kinds) <=> Shows(u, list, kinds)
    BY DEF Shows
<1>3. About(v, list)
    BY <1>2 DEF Sound, About
<1> QED BY <1>1, <1>3 DEF Sound

LEMMA NotedFacts ==
    ASSUME NavInv, NEW e
    PROVE  /\ Noted(e) \in UiType /\ Sound(Noted(e), remotes)
           /\ Noted(e).stack = ui.stack /\ Noted(e).session = ui.session
           /\ Noted(e).request = ui.request /\ Noted(e).pending = ui.pending
           /\ Noted(e).active = ui.active /\ Noted(e).editing = ui.editing
           /\ Noted(e).draft = ui.draft
           /\ Noted(e).back = IF e = "back" THEN (IF Learning THEN Len(ui.stack) - 1 ELSE 0)
                              ELSE ui.back
<1>1. ui \in UiType /\ Sound(ui, remotes) /\ Len(ui.stack) \in 1..6
    BY TopFacts
<1>2. CASE e = "back"
    <2> DEFINE back == IF Learning THEN Len(ui.stack) - 1 ELSE 0
    <2>1. back \in Nat
        <3>1. \A n \in 1..6 : n - 1 \in Nat
            OBVIOUS
        <3> QED BY <1>1, <3>1
    <2>2. Noted(e) = [ui EXCEPT !.back = back]
        BY <1>2 DEF Noted
    <2>3. back = IF Learning THEN Len(ui.stack) - 1 ELSE 0
        OBVIOUS
    <2> HIDE DEF back
    <2>4. /\ Noted(e) \in UiType
          /\ Noted(e).stack = ui.stack /\ Noted(e).session = ui.session
          /\ Noted(e).request = ui.request /\ Noted(e).pending = ui.pending
          /\ Noted(e).active = ui.active /\ Noted(e).editing = ui.editing
          /\ Noted(e).draft = ui.draft /\ Noted(e).back = back
        BY <1>1, <2>1, <2>2 DEF UiType
    <2>5. Sound(Noted(e), remotes)
        BY <1>1, <2>4, SameSound
    <2> QED BY <1>2, <2>3, <2>4, <2>5
<1>3. CASE e # "back"
    BY <1>1, <1>3 DEF Noted
<1> QED BY <1>2, <1>3

\* the end of a handler that opens no session
LEMMA ShowKeeps ==
    ASSUME NavInv, NEW u \in UiType, Sound(u, remotes'), u.session \in {ui.session, NoId},
           Show(u), Others'
    PROVE  NavInv'
<1>1. ui' = u
    BY DEF Show
<1>2. NoService \in [state : States, forgets : 0..ForgetMax]
    <2>1. 0 \in 0..ForgetMax
        BY UiAssumption
    <2> QED BY <2>1 DEF NoService, States
<1>3. /\ wanted' \in Ids \cup {NoId} /\ worker' \in [state : States, forgets : 0..ForgetMax]
    BY <1>2 DEF NavInv, TypeOK, Show
<1>4. TypeOK'
    BY <1>1, <1>3 DEF TypeOK, Others, Posts
<1>5. WantedShown'
    BY <1>1 DEF NavInv, WantedShown, Show
<1>6. Sound(ui, remotes)'
    BY <1>1
<1> QED BY <1>4, <1>5, <1>6 DEF NavInv

LEMMA MoveKeeps ==
    ASSUME NavInv, NEW e, Key(e), NEW u \in UiType, Sound(u, remotes),
           u.session \in {ui.session, NoId}, Move(u)
    PROVE  NavInv'
<1>1. Show(u) /\ remotes' = remotes
    BY DEF Move
<1>2. Others'
    BY <1>1, KeyTyped, TopFacts DEF Others
<1> QED BY <1>1, <1>2, ShowKeeps

LEMMA MovePush ==
    ASSUME NavInv, NEW e, Key(e), NEW u \in UiType, Sound(u, remotes),
           u.session = ui.session, u.request = NoId,
           NEW screen, Opens(u, remotes, screen), screen # "BT_DEVICE", Move(Push(u, screen))
    PROVE  NavInv'
<1>1. /\ Push(u, screen) \in UiType /\ Sound(Push(u, screen), remotes)
      /\ Push(u, screen).session = ui.session
    BY PushSound
<1> QED BY <1>1, MoveKeeps

LEMMA PopFacts ==
    ASSUME NEW u \in UiType, NEW list, Sound(u, list)
    PROVE  /\ Pop(u) \in UiType /\ Sound(Pop(u), list) /\ Pop(u).session \in {u.session, NoId}
           /\ Pop(u).active = u.active /\ Pop(u).editing = u.editing /\ Pop(u).draft = u.draft
<1>1. CASE Len(u.stack) > 1
    <2>1. u.stack \in Seq(Screens)
        BY DEF UiType
    <2>2. Len(u.stack) \in 1..6
        BY <2>1, HeightFacts DEF Sound
    <2>3. \A n \in 1..6 : n > 1 => n - 1 \in 1..n /\ n - 1 < n
        OBVIOUS
    <2>4. Len(u.stack) - 1 \in 1..Len(u.stack) /\ Len(u.stack) - 1 < Len(u.stack)
        BY <1>1, <2>2, <2>3
    <2> QED BY <1>1, <2>4, LeaveSound DEF Pop
<1>2. CASE ~(Len(u.stack) > 1)
    BY <1>2 DEF Pop
<1> QED BY <1>1, <1>2

LEMMA MovePop ==
    ASSUME NavInv, NEW e, Key(e), NEW u \in UiType, Sound(u, remotes),
           u.session = ui.session, Move(Pop(u))
    PROVE  NavInv'
<1>1. /\ Pop(u) \in UiType /\ Sound(Pop(u), remotes) /\ Pop(u).session \in {ui.session, NoId}
    BY PopFacts
<1> QED BY <1>1, MoveKeeps

\* About looks at the stack and at what is edited only
LEMMA SameAbout ==
    ASSUME NEW u, NEW v, NEW list, About(u, list),
           v.stack = u.stack, v.active = u.active, v.editing = u.editing, v.draft = u.draft
    PROVE  About(v, list)
<1>1. \A kinds : Shows(v, list, kinds) <=> Shows(u, list, kinds)
    BY DEF Shows
<1>2. Edits(u, list) => Edits(v, list)
    BY <1>1 DEF Edits
<1> QED BY <1>1, <1>2 DEF About

LEMMA Kept ==
    ASSUME ui' \in UiType, Sound(ui', remotes'), Others',
           wanted' \in Ids \cup {NoId}, wanted' # NoId => wanted' = ui'.session,
           worker' \in [state : States, forgets : 0..ForgetMax]
    PROVE  NavInv'
<1>1. TypeOK'
    BY DEF TypeOK, Others, Posts
<1>2. WantedShown'
    BY DEF WantedShown
<1>3. Sound(ui, remotes)'
    OBVIOUS
<1> QED BY <1>1, <1>2, <1>3 DEF NavInv

LEMMA ServiceTyped ==
    ASSUME NavInv
    PROVE  /\ wanted \in Ids \cup {NoId} /\ worker \in [state : States, forgets : 0..ForgetMax]
           /\ wanted # NoId => wanted = ui.session
           /\ NoService \in [state : States, forgets : 0..ForgetMax]
<1>1. 0 \in 0..ForgetMax
    BY UiAssumption
<1> QED BY <1>1 DEF NavInv, TypeOK, WantedShown, NoService, States

\* ui_open_bt, on a stack that has the Bluetooth menu
LEMMA OpensBtKeeps ==
    ASSUME NavInv, Others', NEW u \in UiType, Sound(u, remotes'), u.session \in {ui.session, NoId},
           NEW next \in UiType, Shaped(next.stack), About(next, remotes'),
           Under(next.stack, {"BT_DEVICE"}), next.request = NoId,
           OpensBt(u, next)
    PROVE  NavInv'
<1>1. CASE Show(u)
    BY <1>1, ShowKeeps
<1>2. ASSUME NEW id \in Fresh,
             ui' = [next EXCEPT !.session = id, !.status = "other", !.pending = FALSE],
             wanted' = id, worker' = NoService
      PROVE  NavInv'
    <2>1. id \in Ids /\ id # NoId
        BY UiAssumption DEF Fresh
    <2>2. /\ ui' \in UiType /\ ui'.stack = next.stack /\ ui'.session = id /\ ui'.pending = FALSE
          /\ ui'.request = NoId /\ ui'.active = next.active /\ ui'.editing = next.editing
          /\ ui'.draft = next.draft
        BY <1>2, <2>1 DEF UiType, States
    <2>3. Serviced(ui')
        BY <2>1, <2>2 DEF Serviced
    <2>4. About(ui', remotes')
        BY <2>2, SameAbout
    <2>5. Sound(ui', remotes')
        BY <2>2, <2>3, <2>4 DEF Sound
    <2> QED BY <1>2, <2>1, <2>2, <2>5, Kept, ServiceTyped
<1> QED BY <1>1, <1>2 DEF OpensBt

\* ui_learn_start, on the screen that waits
LEMMA RequestSound ==
    ASSUME NEW u \in UiType, NEW list, Sound(u, list), NEW id \in Ids \cup {NoId},
           id # NoId => u.stack[Len(u.stack)] = "IR_WAIT", NEW failed \in BOOLEAN
    PROVE  /\ [u EXCEPT !.request = id, !.failed = failed] \in UiType
           /\ Sound([u EXCEPT !.request = id, !.failed = failed], list)
           /\ [u EXCEPT !.request = id, !.failed = failed].session = u.session
<1> DEFINE v == [u EXCEPT !.request = id, !.failed = failed]
<1>1. /\ v \in UiType /\ v.stack = u.stack /\ v.session = u.session /\ v.pending = u.pending
      /\ v.request = id /\ v.active = u.active /\ v.editing = u.editing /\ v.draft = u.draft
    BY DEF UiType
<1> HIDE DEF v
<1>2. Serviced(v)
    BY <1>1 DEF Sound, Serviced
<1>3. About(v, list)
    BY <1>1, SameAbout DEF Sound
<1> QED BY <1>1, <1>2, <1>3 DEF Sound, v

LEMMA LearnsKeeps ==
    ASSUME NavInv, NEW e, Key(e), NEW u \in UiType, Sound(u, remotes), u.session = ui.session,
           u.stack[Len(u.stack)] = "IR_WAIT", Learns(u)
    PROVE  NavInv'
<1>1. \E id \in Ids \cup {NoId} : \E failed \in BOOLEAN :
         ui' = [u EXCEPT !.request = id, !.failed = failed]
    BY DEF Learns, Fresh
<1>2. PICK id \in Ids \cup {NoId} : \E failed \in BOOLEAN :
         ui' = [u EXCEPT !.request = id, !.failed = failed]
    BY <1>1
<1>3. PICK failed \in BOOLEAN : ui' = [u EXCEPT !.request = id, !.failed = failed]
    BY <1>2
<1>4. ui' \in UiType /\ Sound(ui', remotes) /\ ui'.session = ui.session
    BY <1>3, RequestSound
<1>5. remotes' = remotes /\ wanted' = wanted /\ worker' = worker
    BY DEF Learns
<1>6. Others'
    BY <1>5, KeyTyped, TopFacts DEF Others
<1> QED BY <1>4, <1>5, <1>6, Kept, ServiceTyped

\* one screen in place of the top one, on a stack of several
LEMMA ReplaceSound ==
    ASSUME NEW u \in UiType, NEW list, Sound(u, list), Len(u.stack) > 1,
           NEW screen, Opens(Leave(u, Len(u.stack) - 1), list, screen), screen # "BT_DEVICE"
    PROVE  /\ Replace(u, screen) \in UiType /\ Sound(Replace(u, screen), list)
           /\ Replace(u, screen).session \in {u.session, NoId}
           /\ Replace(u, screen).stack = Append(SubSeq(u.stack, 1, Len(u.stack) - 1), screen)
           /\ Replace(u, screen).stack[Len(Replace(u, screen).stack)] = screen
           /\ Replace(u, screen).back = u.back
<1> DEFINE left == Leave(u, Len(u.stack) - 1)
<1>1. u.stack \in Seq(Screens)
    BY DEF UiType
<1>2. Len(u.stack) \in 1..6
    BY <1>1, HeightFacts DEF Sound
<1>3. \A n \in 1..6 : n > 1 => n - 1 \in 1..n /\ n - 1 < n
    OBVIOUS
<1>4. Len(u.stack) - 1 \in 1..Len(u.stack) /\ Len(u.stack) - 1 < Len(u.stack)
    BY <1>2, <1>3
<1>5. /\ left \in UiType /\ Sound(left, list) /\ left.session \in {u.session, NoId}
      /\ left.request = NoId /\ left.stack = SubSeq(u.stack, 1, Len(u.stack) - 1)
      /\ left.back = u.back
    BY <1>4, LeaveSound
<1>6. Replace(u, screen) = [left EXCEPT !.stack = Append(left.stack, screen)]
    BY DEF Replace
<1> HIDE DEF left
<1>7. /\ Push(left, screen) \in UiType /\ Sound(Push(left, screen), list)
      /\ Push(left, screen) = [left EXCEPT !.stack = Append(left.stack, screen)]
      /\ Push(left, screen).session = left.session
    BY <1>5, PushSound DEF left
<1>8. Replace(u, screen).stack = Append(left.stack, screen) /\ Replace(u, screen).back = left.back
    BY <1>5, <1>6 DEF UiType
<1>9. screen \in Screens /\ left.stack \in Seq(Screens)
    BY <1>5 DEF Opens, UiType
<1>10. LET a == Append(left.stack, screen) IN a[Len(a)] = screen
    BY <1>9, AppendFacts
<1> QED BY <1>5, <1>6, <1>7, <1>8, <1>10

-----------------------------------------------------------------------------
(* One lemma for each handler: it keeps the invariant                      *)

LEMMA HomeKeeps ==
    ASSUME NavInv, NEW e, Key(e), Move(Home(Noted(e)))
    PROVE  NavInv'
<1>1. Noted(e) \in UiType /\ Shaped(Noted(e).stack) /\ Serviced(Noted(e))
    BY NotedFacts DEF Sound
<1>2. /\ Home(Noted(e)) \in UiType /\ Sound(Home(Noted(e)), remotes)
      /\ Home(Noted(e)).session = NoId
    BY <1>1, HomeSound
<1> QED BY <1>2, MoveKeeps

LEMMA GoHomeKeeps ==
    ASSUME NavInv, NEW e, GoHome(e)
    PROVE  NavInv'
BY HomeKeeps DEF GoHome

LEMMA ConstructionKeeps ==
    ASSUME NavInv, NEW e, Construction(e)
    PROVE  NavInv'
BY HomeKeeps DEF Construction, On

\* BACK noted, or its target forgotten: no screen and no worker is concerned
LEMMA BackSound ==
    ASSUME NEW u \in UiType, NEW list, Sound(u, list), NEW back \in Nat
    PROVE  /\ [u EXCEPT !.back = back] \in UiType /\ Sound([u EXCEPT !.back = back], list)
           /\ [u EXCEPT !.back = back].session = u.session
           /\ [u EXCEPT !.back = back].stack = u.stack
<1> DEFINE v == [u EXCEPT !.back = back]
<1>1. /\ v \in UiType /\ v.stack = u.stack /\ v.session = u.session /\ v.pending = u.pending
      /\ v.request = u.request /\ v.active = u.active /\ v.editing = u.editing /\ v.draft = u.draft
    BY DEF UiType
<1> HIDE DEF v
<1>2. Sound(v, list)
    BY <1>1, SameSound
<1> QED BY <1>1, <1>2 DEF v

LEMMA BackHeldKeeps ==
    ASSUME NavInv, BackHeld
    PROVE  NavInv'
<1> DEFINE left == IF Len(ui.stack) > ui.back THEN Leave(ui, ui.back) ELSE ui
<1>1. /\ ui \in UiType /\ Sound(ui, remotes) /\ Len(ui.stack) \in 1..6
      /\ ui.back > 0 /\ ui.back \in Nat
    BY TopFacts DEF BackHeld, Returns, UiType
<1>2. left \in UiType /\ Sound(left, remotes) /\ left.session \in {ui.session, NoId}
    <2>1. CASE Len(ui.stack) > ui.back
        <3>1. ui.back \in 1..Len(ui.stack) /\ ui.back < Len(ui.stack)
            BY <1>1, <2>1
        <3> QED BY <1>1, <2>1, <3>1, LeaveSound
    <2>2. CASE ~(Len(ui.stack) > ui.back)
        BY <1>1, <2>2
    <2> QED BY <2>1, <2>2
<1>3. Key("back_long") /\ Move([left EXCEPT !.back = 0])
    BY DEF BackHeld
<1> HIDE DEF left
<1>4. /\ [left EXCEPT !.back = 0] \in UiType /\ Sound([left EXCEPT !.back = 0], remotes)
      /\ [left EXCEPT !.back = 0].session = left.session
    <2>1. 0 \in Nat
        OBVIOUS
    <2> QED BY <1>2, <2>1, BackSound
<1> QED BY <1>2, <1>3, <1>4, MoveKeeps

LEMMA NotedKeeps ==
    ASSUME NavInv, NEW e, Key(e), Move(Noted(e))
    PROVE  NavInv'
BY NotedFacts, MoveKeeps

LEMMA BackWaitsKeeps ==
    ASSUME NavInv, BackWaits
    PROVE  NavInv'
BY NotedKeeps DEF BackWaits

LEMMA NotedPops ==
    ASSUME NavInv, NEW e, Key(e), Move(Pop(Noted(e)))
    PROVE  NavInv'
BY NotedFacts, MovePop

LEMMA BackPopsKeeps ==
    ASSUME NavInv, BackPops
    PROVE  NavInv'
BY NotedPops DEF BackPops, On

LEMMA SplashFacts ==
    ASSUME NavInv, Top = "SPLASH"
    PROVE  /\ Replace(ui, "HOME") \in UiType /\ Replace(ui, "HOME").stack = <<"HOME">>
           /\ Replace(ui, "HOME").session = NoId /\ Sound(Replace(ui, "HOME"), remotes)
<1> DEFINE left == Leave(ui, Len(ui.stack) - 1)
           u == Replace(ui, "HOME")
<1>1. /\ ui \in UiType /\ Sound(ui, remotes) /\ Others /\ Len(ui.stack) = 1
      /\ ui.stack \in Seq(Screens) /\ ui.request = NoId
    BY TopFacts DEF Roots
<1>2. ui.session = NoId /\ ui.pending = FALSE
    BY <1>1 DEF Sound, Serviced, Under, UiType
<1>3. Len(ui.stack) - 1 = 0 /\ 0 \in 0..Len(ui.stack)
    BY <1>1
<1>4. /\ left \in UiType /\ left.stack = SubSeq(ui.stack, 1, 0)
      /\ left.session = NoId /\ left.pending = FALSE /\ left.request = NoId
    BY <1>1, <1>2, <1>3, LeaveFacts
<1>5. left.stack = << >>
    <2>1. SubSeq(ui.stack, 1, 0) \in Seq(Screens) /\ Len(SubSeq(ui.stack, 1, 0)) = 0
        BY <1>1, <1>3, PrefixFacts
    <2> HIDE DEF left
    <2> QED BY <1>4, <2>1, EmptySeq
<1>6. Append(<< >>, "HOME") = <<"HOME">>
    OBVIOUS
<1>7. u = [left EXCEPT !.stack = <<"HOME">>]
    <2>1. u = [left EXCEPT !.stack = Append(left.stack, "HOME")]
        BY DEF Replace
    <2> HIDE DEF left, u
    <2> QED BY <1>5, <1>6, <2>1
<1>8. <<"HOME">> \in Seq(Screens) /\ Len(<<"HOME">>) = 1 /\ <<"HOME">>[1] = "HOME"
    BY DEF Screens
<1> HIDE DEF left, u
<1>9. /\ u \in UiType /\ u.stack = <<"HOME">>
      /\ u.session = NoId /\ u.pending = FALSE /\ u.request = NoId
    BY <1>4, <1>7, <1>8 DEF UiType
<1>10. Shaped(u.stack) /\ Serviced(u)
    BY <1>8, <1>9 DEF Shaped, Serviced, Has, Under, Roots, Height
<1>11. Sound(u, remotes) /\ Len(u.stack) = 1
    BY <1>8, <1>9, <1>10, RootSound
<1> QED BY <1>9, <1>11 DEF u

LEMMA SplashKeeps ==
    ASSUME NavInv, Splash
    PROVE  NavInv'
<1>1. Top = "SPLASH" /\ Show(Replace(ui, "HOME")) /\ remotes' = remotes /\ Others'
    BY TopFacts DEF Splash, Move, Others
<1> QED BY <1>1, SplashFacts, ShowKeeps

\* the home screen: nothing is shown, nothing is open
LEMMA AtHome ==
    ASSUME NavInv, Top = "HOME"
    PROVE  /\ ui \in UiType /\ Shaped(ui.stack) /\ Serviced(ui) /\ Len(ui.stack) = 1
           /\ ui.request = NoId /\ ui.stack \in Seq(Screens)
BY TopFacts DEF Sound, Roots

LEMMA HomeSettingsKeeps ==
    ASSUME NavInv, HomeSettings
    PROVE  NavInv'
<1>1. Key("key") /\ Top = "HOME" /\ Move(Push(ui, "SETTINGS"))
    BY DEF HomeSettings, On
<1>2. ui \in UiType /\ Sound(ui, remotes) /\ Len(ui.stack) = 1 /\ ui.request = NoId
    BY <1>1, AtHome, TopFacts
<1>3. Opens(ui, remotes, "SETTINGS")
    BY <1>2 DEF Opens, Height, Roots, IrScreens, Screens
<1> QED BY <1>1, <1>2, <1>3, MovePush

LEMMA HomeAddsKeeps ==
    ASSUME NavInv, HomeAdds
    PROVE  NavInv'
<1> DEFINE u == [ui EXCEPT !.draft = Blank, !.editing = FALSE]
<1>1. Key("ok") /\ Top = "HOME" /\ Move(Push(u, "ADD_TYPE"))
    BY DEF HomeAdds, On
<1>2. ui \in UiType /\ Shaped(ui.stack) /\ Serviced(ui) /\ Len(ui.stack) = 1 /\ ui.request = NoId
    BY <1>1, AtHome
<1>3. Blank \in Remote
    BY DEF Blank, Remote
<1>4. /\ u \in UiType /\ u.stack = ui.stack /\ u.session = ui.session /\ u.pending = ui.pending
      /\ u.request = ui.request /\ u.editing = FALSE
    BY <1>2, <1>3 DEF UiType
<1> HIDE DEF u
<1>5. Serviced(u)
    BY <1>2, <1>4 DEF Serviced
<1>6. Sound(u, remotes)
    BY <1>2, <1>4, <1>5, RootSound
<1>7. Opens(u, remotes, "ADD_TYPE")
    <2>1. Len(u.stack) = 1 /\ ~u.editing
        BY <1>2, <1>4
    <2> QED BY <2>1 DEF Opens, Height, Roots, IrScreens, Screens
<1> QED BY <1>1, <1>2, <1>4, <1>6, <1>7, MovePush

\* another remote is chosen
LEMMA Chosen ==
    ASSUME NavInv, Top = "HOME", NEW i \in DOMAIN remotes
    PROVE  LET u == [ui EXCEPT !.active = i] IN
           /\ u \in UiType /\ Sound(u, remotes) /\ u.session = ui.session /\ u.request = NoId
           /\ Len(u.stack) = 1 /\ \A kinds : Shows(u, remotes, kinds) <=> remotes[i].kind \in kinds
<1> DEFINE u == [ui EXCEPT !.active = i]
<1>1. ui \in UiType /\ Shaped(ui.stack) /\ Serviced(ui) /\ Len(ui.stack) = 1 /\ ui.request = NoId
    BY AtHome
<1>2. i \in Nat
    BY TopFacts DEF Others
<1>3. /\ u \in UiType /\ u.stack = ui.stack /\ u.session = ui.session /\ u.pending = ui.pending
      /\ u.request = ui.request /\ u.active = i
    BY <1>1, <1>2 DEF UiType
<1> HIDE DEF u
<1>4. Serviced(u)
    BY <1>1, <1>3 DEF Serviced
<1>5. Sound(u, remotes)
    BY <1>1, <1>3, <1>4, RootSound
<1>6. \A kinds : Shows(u, remotes, kinds) <=> remotes[i].kind \in kinds
    BY <1>3 DEF Shows
<1> QED BY <1>1, <1>3, <1>5, <1>6 DEF u

LEMMA HomeUsesKeeps ==
    ASSUME NavInv, NEW i \in DOMAIN remotes, HomeUses(i)
    PROVE  NavInv'
<1> DEFINE u == [ui EXCEPT !.active = i]
<1>1. Key("mode") /\ Top = "HOME" /\ Move(Push(u, "REMOTE"))
    BY DEF HomeUses, On
<1>2. /\ u \in UiType /\ Sound(u, remotes) /\ u.session = ui.session /\ u.request = NoId
      /\ Len(u.stack) = 1
    BY <1>1, Chosen
<1> HIDE DEF u
<1>3. Opens(u, remotes, "REMOTE")
    BY <1>2 DEF Opens, Height, Roots, IrScreens, Screens
<1> QED BY <1>1, <1>2, <1>3, MovePush

LEMMA HomeOpensKeeps ==
    ASSUME NavInv, NEW i \in DOMAIN remotes, HomeOpens(i)
    PROVE  NavInv'
<1> DEFINE u == [ui EXCEPT !.active = i]
<1>1. Key("ok") /\ Top = "HOME" /\ remotes' = remotes
    BY DEF HomeOpens, On
<1>2. /\ u \in UiType /\ Sound(u, remotes) /\ u.session = ui.session /\ u.request = NoId
      /\ Len(u.stack) = 1
      /\ \A kinds : Shows(u, remotes, kinds) <=> remotes[i].kind \in kinds
    BY <1>1, Chosen
<1>3. IF remotes[i].kind \in BtKinds THEN OpensBt(u, Push(u, "BT_DEVICE"))
      ELSE Show(Push(u, "EDIT"))
    BY DEF HomeOpens
<1>4. Others'
    BY <1>1, KeyTyped, TopFacts DEF Others
<1>5. remotes[i].kind \notin BtKinds => remotes[i].kind \in {"ir", "wifi"}
    <2>1. remotes[i] \in Remote
        BY TopFacts DEF Others
    <2> QED BY <2>1 DEF Remote
<1> HIDE DEF u
<1>6. CASE remotes[i].kind \in BtKinds
    <2>1. Opens(u, remotes, "BT_DEVICE")
        BY <1>2, <1>6 DEF Opens, Height, Roots, IrScreens, Screens
    <2>2. /\ Push(u, "BT_DEVICE") \in UiType
          /\ Push(u, "BT_DEVICE") = [u EXCEPT !.stack = Append(u.stack, "BT_DEVICE")]
          /\ Shaped(Push(u, "BT_DEVICE").stack) /\ About(Push(u, "BT_DEVICE"), remotes)
        BY <1>2, <2>1, PushKeeps DEF Sound
    <2>3. u.stack \in Seq(Screens) /\ "BT_DEVICE" \in Screens
        BY <1>2 DEF UiType, Screens
    <2>4. Under(Append(u.stack, "BT_DEVICE"), {"BT_DEVICE"})
        BY <1>2, <2>3, AppendUnder
    <2>5. /\ Push(u, "BT_DEVICE").stack = Append(u.stack, "BT_DEVICE")
          /\ Push(u, "BT_DEVICE").request = NoId
        BY <1>2, <2>2 DEF UiType
    <2> QED BY <1>1, <1>2, <1>3, <1>4, <1>6, <2>2, <2>4, <2>5, OpensBtKeeps
<1>7. CASE remotes[i].kind \notin BtKinds
    <2>1. Opens(u, remotes, "EDIT")
        BY <1>2, <1>5, <1>7 DEF Opens, Height, Roots, IrScreens, Screens
    <2>2. /\ Push(u, "EDIT") \in UiType /\ Sound(Push(u, "EDIT"), remotes)
          /\ Push(u, "EDIT").session = ui.session
        BY <1>2, <2>1, PushSound
    <2> QED BY <1>1, <1>3, <1>4, <1>7, <2>2, ShowKeeps
<1> QED BY <1>6, <1>7

\* a screen that a handler may open on the one the user sees
LEMMA OpenKeeps ==
    ASSUME NavInv, NEW e, Key(e), Top # "IR_WAIT", NEW screen \in Screens \ {"BT_DEVICE"},
           Opens(ui, remotes, screen), Move(Push(ui, screen))
    PROVE  NavInv'
BY TopFacts, MovePush

\* screens that speak of nothing in particular
Plain == {"SETTINGS", "ABOUT", "STORAGE", "REMOTE", "BT_CONFIRM", "BT_SPEED", "BT_KEYS",
          "BT_BINDING", "BT_TEXT", "CONSTRUCTION"}
LEMMA PlainOpens ==
    ASSUME NEW u, NEW list, NEW screen \in Plain, Len(u.stack) < Height(screen)
    PROVE  Opens(u, list, screen)
BY DEF Plain, Opens, Screens, IrScreens

LEMMA HeightNat == \A screen : Height(screen) \in 1..6
BY DEF Height

LEMMA PlainKeeps ==
    ASSUME NavInv, NEW e, Key(e), Top # "IR_WAIT", NEW screen \in Plain,
           Height(Top) < Height(screen), Move(Push(ui, screen))
    PROVE  NavInv'
<1>1. \A n, h, k \in 1..6 : n <= h /\ h < k => n < k
    OBVIOUS
<1>2. Len(ui.stack) < Height(screen)
    BY <1>1, TopFacts, HeightNat
<1>3. screen \in Screens \ {"BT_DEVICE"}
    BY DEF Plain, Screens
<1> QED BY <1>2, <1>3, PlainOpens, OpenKeeps

LEMMA SettingsKeeps ==
    ASSUME NavInv, Settings
    PROVE  NavInv'
<1>1. Key("ok") /\ Top = "SETTINGS"
    BY DEF Settings, On
<1>2. PICK page \in {"ABOUT", "STORAGE"} : Move(Push(ui, page))
    BY DEF Settings
<1>3. page \in Plain /\ Height(Top) < Height(page)
    BY <1>1 DEF Plain, Height, Roots
<1> QED BY <1>1, <1>2, <1>3, PlainKeeps

LEMMA RemoteModeKeeps ==
    ASSUME NavInv, NEW e, RemoteMode(e)
    PROVE  NavInv'
<1>1. Key(e) /\ ui \in UiType /\ Sound(ui, remotes)
    BY TopFacts DEF RemoteMode, On
<1>2. CASE e = "mode"
    BY <1>1, <1>2, MovePop DEF RemoteMode
<1>3. CASE e # "mode"
    BY <1>1, <1>3, NotedKeeps DEF RemoteMode
<1> QED BY <1>2, <1>3

LEMMA EditUsesKeeps ==
    ASSUME NavInv, EditUses
    PROVE  NavInv'
<1>1. Key("mode") /\ Top = "EDIT" /\ Move(Push(ui, "REMOTE"))
    BY DEF EditUses, On
<1>2. "REMOTE" \in Plain /\ Height(Top) < Height("REMOTE")
    BY <1>1 DEF Plain, Height, Roots
<1> QED BY <1>1, <1>2, PlainKeeps

LEMMA ActiveType ==
    ASSUME NavInv, Listed
    PROVE  /\ Active \in Remote /\ Active = remotes[ui.active]
           /\ ui.active \in DOMAIN remotes
           /\ \A kinds : Shows(ui, remotes, kinds) <=> Active.kind \in kinds
BY TopFacts DEF Others, Listed, Active, Shows

LEMMA EditKeeps ==
    ASSUME NavInv, Edit
    PROVE  NavInv'
<1> DEFINE u == [ui EXCEPT !.draft = Active, !.editing = TRUE]
           setup == IF Active.kind = "ir" THEN "IR_KEYS"
                    ELSE IF Active.kind \in BtKinds THEN "BT_KEYS" ELSE "CONSTRUCTION"
<1>1. Key("ok") /\ Top = "EDIT" /\ Listed
    BY DEF Edit, On
<1>2. PICK screen \in {setup, "NAME", "ICON", "REMOVE"} : Move(Push(u, screen))
    BY DEF Edit
<1>3. /\ ui \in UiType /\ Sound(ui, remotes) /\ Len(ui.stack) \in 1..6 /\ Len(ui.stack) <= 3
      /\ ui.request = NoId /\ Under(ui.stack, {"EDIT", "BT_DEVICE"})
    BY <1>1, TopFacts DEF Height, Roots
<1>4. /\ Active \in Remote /\ ui.active \in DOMAIN remotes /\ Active = remotes[ui.active]
    BY <1>1, ActiveType
<1>5. setup = "IR_KEYS" => Active.kind = "ir"
    OBVIOUS
<1>6. screen \in {"IR_KEYS", "BT_KEYS", "CONSTRUCTION", "NAME", "ICON", "REMOVE"}
      /\ (screen = "IR_KEYS" => Active.kind = "ir")
    OBVIOUS
<1> HIDE DEF setup
<1>7. /\ u \in UiType /\ u.stack = ui.stack /\ u.session = ui.session /\ u.pending = ui.pending
      /\ u.request = ui.request /\ u.active = ui.active /\ u.editing = TRUE /\ u.draft = Active
    BY <1>3, <1>4 DEF UiType
<1> HIDE DEF u
<1>8. \A kinds : /\ Shows(u, remotes, kinds) <=> Shows(ui, remotes, kinds)
                 /\ Shows(u, remotes, kinds) <=> Active.kind \in kinds
    BY <1>4, <1>7 DEF Shows
<1>9. Edits(u, remotes)
    BY <1>4, <1>7, <1>8 DEF Edits
<1>10. ~Under(u.stack, {"ADD_TYPE"})
    BY <1>3, <1>7 DEF Under
<1>11. Serviced(u)
    BY <1>3, <1>7 DEF Sound, Serviced
<1>12. About(u, remotes)
    BY <1>3, <1>7, <1>8, <1>9, <1>10 DEF Sound, About
<1>13. Sound(u, remotes)
    BY <1>3, <1>7, <1>11, <1>12 DEF Sound
<1>14. Opens(u, remotes, screen)
    <2>1. Len(u.stack) < Height(screen)
        <3>1. Height(screen) \in {4, 5}
            BY <1>6 DEF Height, Roots
        <3> QED BY <1>3, <1>7, <3>1
    <2>2. screen \in Screens
        BY <1>6 DEF Screens
    <2>3. Under(u.stack, {"EDIT", "BT_DEVICE"})
        BY <1>3, <1>7
    <2>4. screen \in IrScreens => Shows(u, remotes, {"ir"})
        BY <1>6, <1>8 DEF IrScreens
    <2> QED BY <1>6, <1>9, <2>1, <2>2, <2>3, <2>4 DEF Opens
<1>15. screen # "BT_DEVICE" /\ u.request = NoId
    BY <1>3, <1>6, <1>7
<1> QED BY <1>1, <1>2, <1>7, <1>13, <1>14, <1>15, MovePush

\* a remote is stored again: its kind stays, and only a worker changes its pairing
LEMMA StoredSound ==
    ASSUME NEW u, NEW list, Sound(u, list), NEW stored, DOMAIN stored = DOMAIN list,
           \A i \in DOMAIN list : stored[i].kind = list[i].kind,
           u.active \in DOMAIN list /\ u.draft.kind \notin BtKinds
              /\ list[u.active].kind = u.draft.kind =>
                    stored[u.active].bonded = list[u.active].bonded
    PROVE  Sound(u, stored)
<1>1. \A kinds : Shows(u, stored, kinds) <=> Shows(u, list, kinds)
    BY DEF Shows
<1>2. Edits(u, list) => Edits(u, stored)
    BY <1>1 DEF Edits, Shows
<1>3. About(u, stored)
    BY <1>1, <1>2 DEF Sound, About
<1> QED BY <1>3 DEF Sound

\* what the editor saves is the remote it was opened on
LEMMA EditedFacts ==
    ASSUME NavInv, Top \in {"NAME", "ICON"}, ui.editing
    PROVE  /\ ui.active \in DOMAIN remotes /\ Active = remotes[ui.active]
           /\ Active \in Remote /\ Edited \in Remote
           /\ Edited.kind = Active.kind /\ Edited.bonded = Active.bonded
<1>1. Top \in {"NAME", "ICON"} /\ ui.editing
    OBVIOUS
<1>2. /\ ui \in UiType /\ Sound(ui, remotes) /\ Has(ui.stack, {"NAME", "ICON"})
    BY <1>1, TopFacts
<1>3. ~Under(ui.stack, {"ADD_TYPE"}) /\ Edits(ui, remotes)
    BY <1>1, <1>2 DEF Sound, About
<1>4. Listed /\ Active.kind = ui.draft.kind
      /\ (ui.draft.kind \notin BtKinds => ui.draft.bonded = Active.bonded)
    BY <1>3 DEF Edits, Shows, Listed, Active
<1>5. Active \in Remote /\ ui.draft \in Remote /\ ui.active \in DOMAIN remotes
      /\ Active = remotes[ui.active]
    BY <1>2, <1>4, ActiveType DEF UiType
<1>6. Edited \in Remote /\ Edited.kind = Active.kind /\ Edited.bonded = Active.bonded
    <2>1. CASE ui.draft.kind \in BtKinds
        <3>1. Edited = [ui.draft EXCEPT !.bonded = Active.bonded]
            BY <1>4, <2>1 DEF Edited
        <3> QED BY <1>4, <1>5, <3>1 DEF Remote
    <2>2. CASE ui.draft.kind \notin BtKinds
        BY <1>4, <1>5, <2>2 DEF Edited
    <2> QED BY <2>1, <2>2
<1> QED BY <1>5, <1>6

LEMMA EditSavesKeeps ==
    ASSUME NavInv, EditSaves
    PROVE  NavInv'
<1> DEFINE u == [ui EXCEPT !.draft = Edited]
           stored == [remotes EXCEPT ![ui.active] = Edited]
<1>1. Key("ok") /\ Top \in {"NAME", "ICON"} /\ ui.editing
    BY DEF EditSaves, On
<1>2. /\ ui \in UiType /\ Sound(ui, remotes) /\ ui.request = NoId
      /\ remotes \in Seq(Remote) /\ Others
    BY <1>1, TopFacts DEF Others
<1>3. Active \in Remote /\ ui.active \in DOMAIN remotes /\ Active = remotes[ui.active]
    BY <1>1, EditedFacts
<1>4. Edited \in Remote /\ Edited.kind = Active.kind /\ Edited.bonded = Active.bonded
    BY <1>1, EditedFacts
<1>5. /\ u \in UiType /\ u.stack = ui.stack /\ u.session = ui.session /\ u.pending = ui.pending
      /\ u.request = ui.request /\ u.active = ui.active /\ u.editing = ui.editing
      /\ u.draft = Edited
    BY <1>2, <1>4 DEF UiType
<1> HIDE DEF u
<1>6. Sound(u, remotes)
    <2>1. Serviced(u)
        BY <1>2, <1>5 DEF Sound, Serviced
    <2>2. \A kinds : Shows(u, remotes, kinds) <=> Shows(ui, remotes, kinds)
        BY <1>5 DEF Shows
    <2>3. Edits(u, remotes)
        BY <1>1, <1>3, <1>4, <1>5 DEF Edits, Shows
    <2>4. About(u, remotes)
        BY <1>2, <1>5, <2>2, <2>3 DEF Sound, About
    <2> QED BY <1>2, <1>5, <2>1, <2>4 DEF Sound
<1>7. CASE remotes' = stored /\ Show(Pop(u))
    <2>1. stored \in Seq(Remote) /\ DOMAIN stored = DOMAIN remotes
        BY <1>2, <1>3, <1>4
    <2>2. \A i \in DOMAIN remotes : stored[i] = IF i = ui.active THEN Edited ELSE remotes[i]
        BY <1>2
    <2> HIDE DEF stored
    <2>3. \A i \in DOMAIN remotes : stored[i].kind = remotes[i].kind
        BY <1>3, <1>4, <2>2
    <2>4. stored[u.active].bonded = remotes[u.active].bonded
        BY <1>3, <1>4, <1>5, <2>2
    <2>5. Sound(u, stored)
        BY <1>6, <2>1, <2>3, <2>4, StoredSound
    <2>6. /\ Pop(u) \in UiType /\ Sound(Pop(u), stored) /\ Pop(u).session \in {ui.session, NoId}
        BY <1>5, <2>5, PopFacts
    <2>7. Others'
        BY <1>1, <1>7, <2>1, KeyTyped
    <2> QED BY <1>7, <2>6, <2>7, ShowKeeps
<1>8. CASE Move(u)
    BY <1>1, <1>5, <1>6, <1>8, MoveKeeps
<1> QED BY <1>7, <1>8 DEF EditSaves, u

LEMMA RemoveKeeps ==
    ASSUME NavInv, Remove
    PROVE  NavInv'
<1>1. Key("ok") /\ Listed /\ remotes' = Without(remotes, ui.active) /\ Show(Home(ui))
    BY DEF Remove, On
<1>2. ui \in UiType /\ Shaped(ui.stack) /\ Serviced(ui) /\ remotes \in Seq(Remote)
    BY TopFacts DEF Sound, Others
<1>3. remotes' \in Seq(Remote)
    BY <1>1, <1>2, WithoutType DEF Listed
<1>4. Others'
    BY <1>1, <1>3, KeyTyped
<1>5. /\ Home(ui) \in UiType /\ Sound(Home(ui), remotes') /\ Home(ui).session = NoId
    BY <1>2, HomeSound
<1> QED BY <1>1, <1>4, <1>5, ShowKeeps

LEMMA RemoveForgetsKeeps ==
    ASSUME NavInv, RemoveForgets
    PROVE  NavInv'
<1>1. /\ Key("ok") /\ ui.session # NoId /\ worker.forgets < ForgetMax
      /\ ui' = [ui EXCEPT !.pending = TRUE]
      /\ worker' = [worker EXCEPT !.forgets = @ + 1]
      /\ remotes' = remotes /\ wanted' = wanted
    BY DEF RemoveForgets, On, Unpairs
<1>2. ui \in UiType /\ Sound(ui, remotes) /\ Others
    BY TopFacts
<1>3. /\ ui' \in UiType /\ ui'.stack = ui.stack /\ ui'.session = ui.session
      /\ ui'.request = ui.request /\ ui'.active = ui.active /\ ui'.editing = ui.editing
      /\ ui'.draft = ui.draft
    BY <1>1, <1>2 DEF UiType
<1>4. Serviced(ui')
    BY <1>1, <1>2, <1>3 DEF Sound, Serviced
<1>5. Sound(ui', remotes')
    BY <1>1, <1>2, <1>3, <1>4, SameAbout DEF Sound
<1>6. worker' \in [state : States, forgets : 0..ForgetMax]
    <2>1. worker.forgets + 1 \in 0..ForgetMax
        BY <1>1, ServiceTyped, UiAssumption
    <2> QED BY <1>1, <2>1, ServiceTyped
<1>7. Others'
    BY <1>1, <1>2, KeyTyped DEF Others
<1> QED BY <1>1, <1>3, <1>5, <1>6, <1>7, ServiceTyped, Kept

LEMMA RemoveCancelledKeeps ==
    ASSUME NavInv, RemoveCancelled
    PROVE  NavInv'
BY TopFacts, MovePop DEF RemoveCancelled, On

\* the wizard's draft gets a kind
LEMMA DraftFacts ==
    ASSUME NavInv, Under(ui.stack, {"ADD_TYPE"}), NEW kind \in {"ir", "wifi"} \cup BtKinds
    PROVE  LET u == [ui EXCEPT !.draft.kind = kind] IN
           u \in UiType /\ Sound(u, remotes) /\ u.session = ui.session
           /\ u.request = ui.request /\ u.stack = ui.stack
<1> DEFINE draft == [ui.draft EXCEPT !.kind = kind]
           u == [ui EXCEPT !.draft = draft]
<1>1. ui \in UiType /\ Sound(ui, remotes)
    BY TopFacts
<1>2. draft \in Remote
    <2>1. ui.draft \in Remote
        BY <1>1 DEF UiType
    <2> QED BY <2>1 DEF Remote
<1>3. [ui EXCEPT !.draft.kind = kind] = u
    OBVIOUS
<1> HIDE DEF draft
<1>4. /\ u \in UiType /\ u.stack = ui.stack /\ u.session = ui.session /\ u.request = ui.request
      /\ u.pending = ui.pending /\ u.active = ui.active /\ u.editing = ui.editing
    BY <1>1, <1>2 DEF UiType
<1> HIDE DEF u
<1>5. Sound(u, remotes)
    BY <1>1, <1>4, WizardSound
<1> QED BY <1>3, <1>4, <1>5

\* the wizard asks for a name
LEMMA DraftKeeps ==
    ASSUME NavInv, NEW e, Key(e), Top \in {"ADD_TYPE", "BT_TYPE"},
           NEW kind \in {"ir", "wifi"} \cup BtKinds,
           Move(Push([ui EXCEPT !.draft.kind = kind], "NAME"))
    PROVE  NavInv'
<1> DEFINE u == [ui EXCEPT !.draft.kind = kind]
<1>1. /\ Under(ui.stack, {"ADD_TYPE"}) /\ ui.request = NoId
      /\ Len(ui.stack) \in 1..6 /\ Len(ui.stack) <= 3
    BY TopFacts DEF Height, Roots
<1>2. /\ u \in UiType /\ Sound(u, remotes) /\ u.session = ui.session
      /\ u.request = ui.request /\ u.stack = ui.stack
    BY <1>1, DraftFacts
<1>3. Move(Push(u, "NAME"))
    OBVIOUS
<1> HIDE DEF u
<1>4. Opens(u, remotes, "NAME")
    BY <1>1, <1>2 DEF Opens, Height, Roots, Screens, IrScreens
<1> QED BY <1>1, <1>2, <1>3, <1>4, MovePush

LEMMA AddTypeKeeps ==
    ASSUME NavInv, AddType
    PROVE  NavInv'
<1>1. Key("ok") /\ Top = "ADD_TYPE"
    BY DEF AddType, On
<1>2. ASSUME NEW kind \in {"ir", "wifi"}, Move(Push([ui EXCEPT !.draft.kind = kind], "NAME"))
      PROVE  NavInv'
    BY <1>1, <1>2, DraftKeeps
<1>3. CASE Move(Push(ui, "BT_TYPE"))
    <2>1. Under(ui.stack, {"ADD_TYPE"}) /\ Len(ui.stack) \in 1..6 /\ Len(ui.stack) <= 2
        BY <1>1, TopFacts DEF Height, Roots
    <2>2. Opens(ui, remotes, "BT_TYPE")
        BY <2>1 DEF Opens, Height, Roots, Screens, IrScreens
    <2>3. "BT_TYPE" \in Screens \ {"BT_DEVICE"}
        BY DEF Screens
    <2> QED BY <1>1, <1>3, <2>2, <2>3, OpenKeeps
<1> QED BY <1>2, <1>3 DEF AddType

LEMMA BtTypeKeeps ==
    ASSUME NavInv, BtType
    PROVE  NavInv'
<1>1. Key("ok") /\ Top = "BT_TYPE" /\ Move(Push([ui EXCEPT !.draft.kind = "fixed"], "NAME"))
    BY DEF BtType, On
<1>2. "fixed" \in {"ir", "wifi"} \cup BtKinds
    BY DEF BtKinds
<1> QED BY <1>1, <1>2, DraftKeeps

\* NAME and ICON that are not the editor's are the wizard's
LEMMA WizardUnder ==
    ASSUME NavInv, Top \in {"NAME", "ICON"}, ~ui.editing
    PROVE  Under(ui.stack, {"ADD_TYPE"})
BY TopFacts DEF Sound, About, Edits

LEMMA NameNextKeeps ==
    ASSUME NavInv, NameNext
    PROVE  NavInv'
<1>1. Key("ok") /\ Top = "NAME" /\ ~ui.editing /\ Move(Push(ui, "ICON"))
    BY DEF NameNext, On
<1>2. Under(ui.stack, {"ADD_TYPE"}) /\ Len(ui.stack) \in 1..6 /\ Len(ui.stack) <= 4
    BY <1>1, WizardUnder, TopFacts DEF Height, Roots
<1>3. Opens(ui, remotes, "ICON")
    BY <1>2 DEF Opens, Height, Roots, Screens, IrScreens
<1>4. "ICON" \in Screens \ {"BT_DEVICE"}
    BY DEF Screens
<1> QED BY <1>1, <1>3, <1>4, OpenKeeps

LEMMA IconNextKeeps ==
    ASSUME NavInv, IconNext
    PROVE  NavInv'
<1>1. Key("ok") /\ Top = "ICON" /\ ~ui.editing /\ Move(Push(ui, "BT_PRESET"))
    BY DEF IconNext, On
<1>2. Under(ui.stack, {"ADD_TYPE"}) /\ Len(ui.stack) \in 1..6 /\ Len(ui.stack) <= 5
    BY <1>1, WizardUnder, TopFacts DEF Height, Roots
<1>3. Opens(ui, remotes, "BT_PRESET")
    BY <1>2 DEF Opens, Height, Roots, Screens, IrScreens
<1>4. "BT_PRESET" \in Screens \ {"BT_DEVICE"}
    BY DEF Screens
<1> QED BY <1>1, <1>3, <1>4, OpenKeeps

\* create_remote: saved and opened, or the wizard stays
LEMMA CreateKeeps ==
    ASSUME NavInv, NEW e, Key(e), Under(ui.stack, {"ADD_TYPE"}), NEW draft \in Remote,
           create_remote(draft)
    PROVE  NavInv'
<1>1. ui \in UiType /\ Sound(ui, remotes) /\ remotes \in Seq(Remote)
    BY TopFacts DEF Others
<1>2. CASE Move([ui EXCEPT !.draft = draft])
    <2> DEFINE u == [ui EXCEPT !.draft = draft]
    <2>1. /\ u \in UiType /\ u.stack = ui.stack /\ u.session = ui.session
          /\ u.request = ui.request /\ u.pending = ui.pending /\ u.active = ui.active
          /\ u.editing = ui.editing
        BY <1>1 DEF UiType
    <2> HIDE DEF u
    <2>2. Sound(u, remotes)
        BY <1>1, <2>1, WizardSound
    <2> QED BY <1>2, <2>1, <2>2, MoveKeeps DEF u
<1> DEFINE home == [Home(ui) EXCEPT !.active = Len(remotes) + 1]
           device == Push(home, "BT_DEVICE")
           next == IF draft.kind = "keyed" THEN Push(device, "BT_KEYS") ELSE device
           screen == IF draft.kind = "ir" THEN "IR_KEYS" ELSE "CONSTRUCTION"
<1>3. CASE /\ remotes' = Append(remotes, draft)
           /\ IF draft.kind \in BtKinds THEN OpensBt(home, next) ELSE Show(Push(home, screen))
    <2>1. /\ Home(ui) \in UiType /\ Home(ui).stack = <<"HOME">> /\ Home(ui).session = NoId
          /\ Home(ui).request = NoId /\ ~Home(ui).editing /\ \A list : Sound(Home(ui), list)
        BY <1>1, HomeSound DEF Sound
    <2>2. /\ remotes' \in Seq(Remote) /\ Len(remotes) + 1 \in DOMAIN remotes'
          /\ remotes'[Len(remotes) + 1] = draft /\ Len(remotes) + 1 \in Nat
        BY <1>1, <1>3
    <2>3. Others'
        BY <2>2, KeyTyped
    <2>4. /\ home \in UiType /\ home.stack = <<"HOME">> /\ home.session = NoId
          /\ home.request = NoId /\ home.pending = Home(ui).pending /\ ~home.editing
          /\ home.active = Len(remotes) + 1
        BY <2>1, <2>2 DEF UiType
    <2>5. IF draft.kind \in BtKinds THEN OpensBt(home, next) ELSE Show(Push(home, screen))
        BY <1>3
    <2> HIDE DEF home
    <2>6. Len(<<"HOME">>) = 1 /\ Len(home.stack) = 1 /\ home.stack \in Seq(Screens)
        BY <2>4 DEF UiType
    <2>7. Shaped(home.stack) /\ Serviced(home)
        BY <2>1, <2>4 DEF Sound, Serviced
    <2>8. Sound(home, remotes')
        BY <2>4, <2>6, <2>7, RootSound
    <2>9. \A kinds : Shows(home, remotes', kinds) <=> draft.kind \in kinds
        BY <2>2, <2>4 DEF Shows
    <2>10. CASE draft.kind \in BtKinds
        <3>1. Opens(home, remotes', "BT_DEVICE")
            BY <2>6, <2>9, <2>10 DEF Opens, Height, Roots, Screens, IrScreens
        <3>2. /\ device \in UiType /\ device = [home EXCEPT !.stack = Append(home.stack, "BT_DEVICE")]
              /\ Shaped(device.stack) /\ About(device, remotes')
            BY <2>4, <2>8, <3>1, PushKeeps DEF Sound
        <3>3. "BT_DEVICE" \in Screens
            BY DEF Screens
        <3>4. /\ Under(Append(home.stack, "BT_DEVICE"), {"BT_DEVICE"})
              /\ Append(home.stack, "BT_DEVICE") \in Seq(Screens)
              /\ Len(Append(home.stack, "BT_DEVICE")) = 2
            <4>1. home.stack \in Seq(Screens) /\ Len(home.stack) = 1
                BY <2>6
            <4> QED BY <3>3, <4>1, AppendUnder
        <3>5. /\ device.stack = Append(home.stack, "BT_DEVICE") /\ device.request = NoId
            BY <2>4, <3>2 DEF UiType
        <3> HIDE DEF device
        <3>6. /\ next \in UiType /\ Shaped(next.stack) /\ About(next, remotes')
              /\ Under(next.stack, {"BT_DEVICE"}) /\ next.request = NoId
            <4>1. CASE draft.kind = "keyed"
                <5>1. "BT_KEYS" \in Plain /\ Len(device.stack) < Height("BT_KEYS")
                    BY <3>4, <3>5 DEF Plain, Height, Roots
                <5>2. Opens(device, remotes', "BT_KEYS")
                    BY <5>1, PlainOpens
                <5>3. /\ next \in UiType
                      /\ next = [device EXCEPT !.stack = Append(device.stack, "BT_KEYS")]
                      /\ Shaped(next.stack) /\ About(next, remotes')
                    BY <3>2, <4>1, <5>2, PushKeeps
                <5> HIDE DEF next
                <5>4. next.stack = Append(device.stack, "BT_KEYS") /\ next.request = NoId
                    BY <3>2, <3>5, <5>3 DEF UiType
                <5>5. "BT_KEYS" \in Screens
                    BY DEF Screens
                <5>6. Under(next.stack, {"BT_DEVICE"})
                    BY <3>4, <3>5, <5>4, <5>5, AppendKeepsUnder
                <5> QED BY <5>3, <5>4, <5>6
            <4>2. CASE draft.kind # "keyed"
                BY <3>2, <3>4, <3>5, <4>2
            <4> QED BY <4>1, <4>2
        <3> HIDE DEF next
        <3> QED BY <2>3, <2>4, <2>5, <2>8, <2>10, <3>6, OpensBtKeeps
    <2>11. CASE draft.kind \notin BtKinds
        <3>1. Opens(home, remotes', screen)
            BY <2>6, <2>9 DEF Opens, Height, Roots, Screens, IrScreens
        <3>2. screen # "BT_DEVICE"
            OBVIOUS
        <3> HIDE DEF screen
        <3>3. /\ Push(home, screen) \in UiType /\ Sound(Push(home, screen), remotes')
              /\ Push(home, screen).session = NoId
            BY <2>4, <2>8, <3>1, <3>2, PushSound
        <3> QED BY <2>3, <2>5, <2>11, <3>3, ShowKeeps
    <2> QED BY <2>10, <2>11
<1> QED BY <1>2, <1>3 DEF create_remote

LEMMA IconCreatesKeeps ==
    ASSUME NavInv, IconCreates
    PROVE  NavInv'
<1>1. Key("ok") /\ Top = "ICON" /\ ~ui.editing /\ create_remote(ui.draft)
    BY DEF IconCreates, On
<1>2. ui.draft \in Remote
    BY TopFacts DEF UiType
<1> QED BY <1>1, <1>2, WizardUnder, CreateKeeps

LEMMA PresetCreatesKeeps ==
    ASSUME NavInv, PresetCreates
    PROVE  NavInv'
<1>1. Key("ok") /\ Top = "BT_PRESET"
    BY DEF PresetCreates, On
<1>2. PICK kind \in BtKinds : create_remote([ui.draft EXCEPT !.kind = kind])
    BY DEF PresetCreates
<1>3. ui.draft \in Remote
    BY TopFacts DEF UiType
<1>4. [ui.draft EXCEPT !.kind = kind] \in Remote
    BY <1>3 DEF Remote
<1>5. Under(ui.stack, {"ADD_TYPE"})
    BY <1>1, TopFacts
<1> QED BY <1>1, <1>2, <1>4, <1>5, CreateKeeps

\* ui_open_bt on the menu itself
LEMMA BtReconnectsKeeps ==
    ASSUME NavInv, BtReconnects
    PROVE  NavInv'
<1>1. Key("ok") /\ Top = "BT_DEVICE" /\ OpensBt(ui, ui) /\ remotes' = remotes
    BY DEF BtReconnects, On
<1>2. ui \in UiType /\ Sound(ui, remotes) /\ ui.request = NoId /\ Under(ui.stack, {"BT_DEVICE"})
    BY <1>1, TopFacts
<1>3. Others'
    BY <1>1, KeyTyped, TopFacts DEF Others
<1>4. Shaped(ui.stack) /\ About(ui, remotes')
    BY <1>1, <1>2 DEF Sound
<1>5. Sound(ui, remotes')
    BY <1>1, <1>2
<1> QED BY <1>1, <1>2, <1>3, <1>4, <1>5, OpensBtKeeps

LEMMA BtUsesKeeps ==
    ASSUME NavInv, BtUses
    PROVE  NavInv'
<1>1. Key("mode") /\ Top = "BT_DEVICE" /\ Move(Push(ui, "REMOTE"))
    BY DEF BtUses, On
<1>2. "REMOTE" \in Plain /\ Height(Top) < Height("REMOTE")
    BY <1>1 DEF Plain, Height, Roots
<1> QED BY <1>1, <1>2, PlainKeeps

LEMMA BtMenuKeeps ==
    ASSUME NavInv, BtMenu
    PROVE  NavInv'
<1>1. Key("ok") /\ Top = "BT_DEVICE"
    BY DEF BtMenu, On
<1>2. PICK screen \in {"BT_CONFIRM", "BT_KEYS", "EDIT", "BT_SPEED"} : Move(Push(ui, screen))
    BY DEF BtMenu
<1>3. CASE screen # "EDIT"
    <2>1. screen \in Plain /\ Height(Top) < Height(screen)
        BY <1>1, <1>2, <1>3 DEF Plain, Height, Roots
    <2> QED BY <1>1, <1>2, <2>1, PlainKeeps
<1>4. CASE screen = "EDIT"
    <2>1. Under(ui.stack, {"BT_DEVICE"}) /\ Len(ui.stack) \in 1..6 /\ Len(ui.stack) <= 2
        BY <1>1, TopFacts DEF Height, Roots
    <2>2. Under(ui.stack, {"EDIT", "BT_DEVICE"})
        BY <2>1 DEF Under
    <2>3. Opens(ui, remotes, "EDIT")
        BY <2>1, <2>2 DEF Opens, Height, Roots, Screens, IrScreens
    <2>4. "EDIT" \in Screens \ {"BT_DEVICE"}
        BY DEF Screens
    <2> QED BY <1>1, <1>2, <1>4, <2>3, <2>4, OpenKeeps
<1> QED BY <1>3, <1>4

LEMMA BtConfirmKeeps ==
    ASSUME NavInv, BtConfirm
    PROVE  NavInv'
<1>1. Key("ok") /\ Top = "BT_CONFIRM" /\ ui' = Pop(ui) /\ remotes' = remotes /\ wanted' = wanted
    BY DEF BtConfirm, On
<1>2. ui \in UiType /\ Sound(ui, remotes) /\ Len(ui.stack) \in 1..6 /\ ui.stack \in Seq(Screens)
    BY TopFacts
<1>3. Pop(ui) \in UiType /\ Sound(Pop(ui), remotes)
    BY <1>2, PopFacts
<1>4. Pop(ui).session = ui.session
    <2>1. CASE ~(Len(ui.stack) > 1)
        BY <2>1 DEF Pop
    <2>2. CASE Len(ui.stack) > 1
        <3>1. Pop(ui) = Leave(ui, Len(ui.stack) - 1)
            BY <2>2 DEF Pop
        <3>2. \A n \in 1..6 : n - 1 \in 0..n /\ (n - 1) + 1 = n /\ n..n = {n}
            OBVIOUS
        <3>3. Len(ui.stack) - 1 \in 0..Len(ui.stack)
            BY <1>2, <3>2
        <3>4. Gone(ui, Len(ui.stack) - 1) = {Top}
            BY <1>2, <3>2 DEF Gone, Top
        <3>5. "BT_DEVICE" \notin Gone(ui, Len(ui.stack) - 1)
            BY <1>1, <3>4
        <3> QED BY <1>2, <3>1, <3>3, <3>5, LeaveFacts
    <2> QED BY <2>1, <2>2
<1>5. worker' \in [state : States, forgets : 0..ForgetMax]
    <2>1. CASE worker' = worker
        BY <2>1, ServiceTyped
    <2>2. CASE worker.forgets < ForgetMax /\ worker' = [worker EXCEPT !.forgets = @ + 1]
        <3>1. worker.forgets + 1 \in 0..ForgetMax
            BY <2>2, ServiceTyped, UiAssumption
        <3> QED BY <2>2, <3>1, ServiceTyped
    <2> QED BY <2>1, <2>2 DEF BtConfirm
<1>6. Others'
    BY <1>1, KeyTyped, TopFacts DEF Others
<1> QED BY <1>1, <1>3, <1>4, <1>5, <1>6, ServiceTyped, Kept

LEMMA BtSavesKeeps ==
    ASSUME NavInv, BtSaves
    PROVE  NavInv'
BY TopFacts, MovePop DEF BtSaves, On

LEMMA PickerDoneKeeps ==
    ASSUME NavInv, PickerDone
    PROVE  NavInv'
BY TopFacts, MovePop DEF PickerDone, On

\* the key is noted, and a screen opens
LEMMA NotedOpens ==
    ASSUME NavInv, NEW e, Key(e), Top # "IR_WAIT", NEW screen, screen # "BT_DEVICE",
           Opens(ui, remotes, screen)
    PROVE  /\ Push(Noted(e), screen) \in UiType /\ Sound(Push(Noted(e), screen), remotes)
           /\ Push(Noted(e), screen).session = ui.session
           /\ Push(Noted(e), screen).stack = Append(ui.stack, screen)
<1>1. /\ Noted(e) \in UiType /\ Sound(Noted(e), remotes)
      /\ Noted(e).stack = ui.stack /\ Noted(e).session = ui.session
      /\ Noted(e).request = ui.request /\ Noted(e).active = ui.active
      /\ Noted(e).editing = ui.editing /\ Noted(e).draft = ui.draft
    BY NotedFacts
<1>2. ui.request = NoId
    BY TopFacts
<1>3. Opens(Noted(e), remotes, screen)
    <2>1. \A kinds : Shows(Noted(e), remotes, kinds) <=> Shows(ui, remotes, kinds)
        BY <1>1 DEF Shows
    <2>2. Edits(ui, remotes) => Edits(Noted(e), remotes)
        BY <1>1, <2>1 DEF Edits
    <2> QED BY <1>1, <2>1, <2>2 DEF Opens
<1>4. /\ Push(Noted(e), screen) \in UiType /\ Sound(Push(Noted(e), screen), remotes)
      /\ Push(Noted(e), screen) = [Noted(e) EXCEPT !.stack = Append(Noted(e).stack, screen)]
      /\ Push(Noted(e), screen).session = Noted(e).session
    BY <1>1, <1>2, <1>3, PushSound
<1>5. Push(Noted(e), screen).stack = Append(Noted(e).stack, screen)
    BY <1>1, <1>4 DEF UiType
<1> QED BY <1>1, <1>4, <1>5

LEMMA PickerPicksKeeps ==
    ASSUME NavInv, NEW e, PickerPicks(e)
    PROVE  NavInv'
<1>1. Key(e) /\ Top = "BT_KEYS"
    BY DEF PickerPicks, On
<1>2. PICK screen \in {"BT_TEXT", "BT_BINDING"} : Move(Push(Noted(e), screen))
    BY DEF PickerPicks
<1>3. screen \in Plain /\ screen # "BT_DEVICE" /\ Len(ui.stack) < Height(screen)
    <2>1. Len(ui.stack) \in 1..6 /\ Len(ui.stack) <= 4 /\ Height(screen) = 5
        BY <1>1, TopFacts DEF Height, Roots
    <2> QED BY <2>1 DEF Plain
<1>4. Opens(ui, remotes, screen)
    BY <1>3, PlainOpens
<1>5. /\ Push(Noted(e), screen) \in UiType /\ Sound(Push(Noted(e), screen), remotes)
      /\ Push(Noted(e), screen).session = ui.session
    BY <1>1, <1>3, <1>4, NotedOpens
<1> QED BY <1>1, <1>2, <1>5, MoveKeeps

LEMMA IrKeyKeeps ==
    ASSUME NavInv, NEW e, IrKey(e)
    PROVE  NavInv'
<1>1. Key(e) /\ Top = "IR_KEYS"
    BY DEF IrKey, On
<1>2. /\ Len(ui.stack) \in 1..6 /\ Len(ui.stack) <= 4 /\ ui.stack \in Seq(Screens)
      /\ Shows(ui, remotes, {"ir"})
    <2>1. /\ Len(ui.stack) \in 1..6 /\ Len(ui.stack) <= 4 /\ ui.stack \in Seq(Screens)
          /\ Has(ui.stack, IrScreens) /\ Sound(ui, remotes)
        BY <1>1, TopFacts DEF Height, Roots, IrScreens
    <2> QED BY <2>1 DEF Sound, About
<1>3. ASSUME NEW screen \in {"IR_REPLACE", "IR_WAIT"}
      PROVE  /\ Push(Noted(e), screen) \in UiType /\ Sound(Push(Noted(e), screen), remotes)
             /\ Push(Noted(e), screen).session = ui.session
             /\ Push(Noted(e), screen).stack = Append(ui.stack, screen)
    <2>1. Opens(ui, remotes, screen)
        BY <1>2 DEF Opens, Height, Roots, Screens, IrScreens
    <2> QED BY <1>1, <2>1, NotedOpens
<1>4. CASE Move(Push(Noted(e), "IR_REPLACE"))
    BY <1>1, <1>3, <1>4, MoveKeeps
<1>5. CASE Learns(Push(Noted(e), "IR_WAIT"))
    <2>1. LET a == Append(ui.stack, "IR_WAIT") IN a[Len(a)] = "IR_WAIT"
        <3>1. "IR_WAIT" \in Screens
            BY DEF Screens
        <3> QED BY <1>2, <3>1, AppendFacts
    <2>2. LET s == Push(Noted(e), "IR_WAIT").stack IN s[Len(s)] = "IR_WAIT"
        BY <1>3, <2>1
    <2> QED BY <1>1, <1>3, <1>5, <2>2, LearnsKeeps
<1> QED BY <1>4, <1>5 DEF IrKey

\* a recording screen takes the place of another
LEMMA IrReplaced ==
    ASSUME NavInv, Top \in {"IR_REPLACE", "IR_WAIT"}, NEW screen \in {"IR_WAIT", "IR_RESULT"}
    PROVE  /\ Replace(ui, screen) \in UiType /\ Sound(Replace(ui, screen), remotes)
           /\ Replace(ui, screen).session = ui.session
           /\ LET s == Replace(ui, screen).stack IN s[Len(s)] = screen
           /\ Replace(ui, screen).back = ui.back
           /\ Len(Replace(ui, screen).stack) = Len(ui.stack)
           /\ \A i \in 1..(Len(ui.stack) - 1) : Replace(ui, screen).stack[i] = ui.stack[i]
<1>1. /\ Len(ui.stack) \in 1..6 /\ Len(ui.stack) <= 5 /\ ui.stack \in Seq(Screens)
      /\ ui \in UiType /\ Sound(ui, remotes) /\ Has(ui.stack, IrScreens)
      /\ Len(ui.stack) # 1
    BY TopFacts DEF Height, Roots, IrScreens
<1>2. Shows(ui, remotes, {"ir"})
    BY <1>1 DEF Sound, About
<1>3. ui.session = NoId
    BY <1>1, <1>2 DEF Sound, Serviced, About, Shows, BtKinds
<1>4. \A n \in 1..6 : n # 1 /\ n <= 5 => n > 1 /\ n - 1 \in 1..n /\ n - 1 < n /\ n - 1 < 5
    OBVIOUS
<1>5. /\ Len(ui.stack) > 1 /\ Len(ui.stack) - 1 \in 1..Len(ui.stack)
      /\ Len(ui.stack) - 1 < Len(ui.stack) /\ Len(ui.stack) - 1 < 5
    BY <1>1, <1>4
<1> DEFINE left == Leave(ui, Len(ui.stack) - 1)
<1>6. /\ left \in UiType /\ Sound(left, remotes) /\ left.active = ui.active
      /\ left.stack = SubSeq(ui.stack, 1, Len(ui.stack) - 1)
    BY <1>1, <1>5, LeaveSound
<1>7. Len(left.stack) = Len(ui.stack) - 1
    <2>1. Len(ui.stack) - 1 \in 0..Len(ui.stack)
        BY <1>1, <1>5
    <2>2. Len(SubSeq(ui.stack, 1, Len(ui.stack) - 1)) = Len(ui.stack) - 1
        BY <1>1, <2>1, PrefixFacts
    <2> QED BY <1>6, <2>2
<1> HIDE DEF left
<1>8. Shows(left, remotes, {"ir"})
    BY <1>2, <1>6 DEF Shows
<1>9. Opens(left, remotes, screen)
    <2>1. Len(left.stack) < Height(screen)
        BY <1>5, <1>7 DEF Height, Roots
    <2> QED BY <1>8, <2>1 DEF Opens, Screens
<1>10. /\ Replace(ui, screen) \in UiType /\ Sound(Replace(ui, screen), remotes)
       /\ Replace(ui, screen).session = ui.session /\ Replace(ui, screen).back = ui.back
       /\ Replace(ui, screen).stack = Append(SubSeq(ui.stack, 1, Len(ui.stack) - 1), screen)
       /\ LET s == Replace(ui, screen).stack IN s[Len(s)] = screen
    <2>1. screen # "BT_DEVICE"
        OBVIOUS
    <2> QED BY <1>1, <1>3, <1>5, <1>9, <2>1, ReplaceSound DEF left
<1>11. /\ SubSeq(ui.stack, 1, Len(ui.stack) - 1) \in Seq(Screens)
       /\ Len(SubSeq(ui.stack, 1, Len(ui.stack) - 1)) = Len(ui.stack) - 1
       /\ \A i \in 1..(Len(ui.stack) - 1) :
             SubSeq(ui.stack, 1, Len(ui.stack) - 1)[i] = ui.stack[i]
    <2>1. Len(ui.stack) - 1 \in 0..Len(ui.stack)
        BY <1>1, <1>5
    <2> QED BY <1>1, <2>1, PrefixFacts
<1> DEFINE under == SubSeq(ui.stack, 1, Len(ui.stack) - 1)
           n == Len(ui.stack) - 1
<1>12. under \in Seq(Screens) /\ Len(under) = n /\ \A i \in 1..n : under[i] = ui.stack[i]
    BY <1>11
<1>13. Replace(ui, screen).stack = Append(under, screen) /\ screen \in Screens
    BY <1>10 DEF Screens
<1>14. n \in Nat /\ n + 1 = Len(ui.stack)
    BY <1>1, <1>5
<1> HIDE DEF under, n
<1>15. /\ Len(Append(under, screen)) = n + 1
       /\ \A i \in 1..n : Append(under, screen)[i] = ui.stack[i]
    BY <1>12, <1>13, AppendFacts
<1>16. /\ Len(Replace(ui, screen).stack) = Len(ui.stack)
       /\ \A i \in 1..(Len(ui.stack) - 1) : Replace(ui, screen).stack[i] = ui.stack[i]
    BY <1>13, <1>14, <1>15 DEF n
<1> QED BY <1>10, <1>16

LEMMA IrReplaceKeeps ==
    ASSUME NavInv, IrReplace
    PROVE  NavInv'
<1>1. Key("ok") /\ Top = "IR_REPLACE" /\ Learns(Replace(ui, "IR_WAIT"))
    BY DEF IrReplace, On
<1> QED BY <1>1, IrReplaced, LearnsKeeps

LEMMA IrRetryKeeps ==
    ASSUME NavInv, IrRetry
    PROVE  NavInv'
<1>1. Key("ok") /\ Top = "IR_WAIT" /\ Learns(ui)
    BY DEF IrRetry, On
<1> QED BY <1>1, TopFacts, LearnsKeeps DEF Top

LEMMA IrResultKeeps ==
    ASSUME NavInv, IrResult
    PROVE  NavInv'
<1>1. Key("ok") /\ ui \in UiType /\ Sound(ui, remotes)
    BY TopFacts DEF IrResult, On
<1>2. CASE ui.failed
    <2> DEFINE u == [ui EXCEPT !.failed = FALSE]
    <2>1. /\ u \in UiType /\ u.stack = ui.stack /\ u.session = ui.session
          /\ u.request = ui.request /\ u.pending = ui.pending /\ u.active = ui.active
          /\ u.editing = ui.editing /\ u.draft = ui.draft
        BY <1>1 DEF UiType
    <2>2. Move(u)
        BY <1>2 DEF IrResult
    <2> HIDE DEF u
    <2>3. Sound(u, remotes)
        BY <1>1, <2>1, SameSound
    <2> QED BY <1>1, <2>1, <2>2, <2>3, MoveKeeps
<1>3. CASE ~ui.failed
    BY <1>1, <1>3, MovePop DEF IrResult
<1> QED BY <1>2, <1>3

LEMMA EventFacts ==
    ASSUME NavInv, Handles
    PROVE  /\ Event \in Posts /\ held' = held
           /\ remotes' \in Seq(Remote) => Others'
<1>1. events \in Seq(Posts) /\ events # << >> /\ events' = Tail(events) /\ held' = held
      /\ held \in Seq(Screens)
    BY TopFacts DEF Handles, Others
<1>2. Tail(events) \in Seq(Posts) /\ Head(events) \in Posts
    BY <1>1
<1> QED BY <1>1, <1>2 DEF Others, Event

LEMMA StaleEventKeeps ==
    ASSUME NavInv, StaleEvent
    PROVE  NavInv'
<1>1. /\ ui' = ui /\ remotes' = remotes /\ wanted' = wanted /\ worker' = worker
      /\ ui \in UiType /\ Sound(ui, remotes) /\ remotes \in Seq(Remote)
    BY TopFacts DEF StaleEvent, Others
<1>2. Others'
    BY <1>1, EventFacts DEF StaleEvent
<1> QED BY <1>1, <1>2, ServiceTyped, Kept

LEMMA TellsTyped ==
    ASSUME NavInv, TellsWorker
    PROVE  /\ wanted' \in Ids \cup {NoId} /\ worker' \in [state : States, forgets : 0..ForgetMax]
           /\ wanted' # NoId => wanted' = ui.session
BY ServiceTyped DEF TellsWorker

\* a removal stops waiting for its peer
LEMMA PendingSound ==
    ASSUME NEW u \in UiType, NEW list, Sound(u, list), NEW P
    PROVE  /\ [u EXCEPT !.pending = @ /\ P] \in UiType
           /\ Sound([u EXCEPT !.pending = @ /\ P], list)
           /\ [u EXCEPT !.pending = @ /\ P].session = u.session
           /\ [u EXCEPT !.pending = @ /\ P].stack = u.stack
           /\ [u EXCEPT !.pending = @ /\ P].back = u.back
<1>1. PICK pending \in BOOLEAN : pending = (u.pending /\ P)
    OBVIOUS
<1> DEFINE v == [u EXCEPT !.pending = pending]
<1>2. [u EXCEPT !.pending = @ /\ P] = v
    BY <1>1
<1>3. /\ v \in UiType /\ v.stack = u.stack /\ v.session = u.session /\ v.pending = pending
      /\ v.request = u.request /\ v.active = u.active /\ v.editing = u.editing
      /\ v.draft = u.draft /\ v.back = u.back
    BY DEF UiType
<1> HIDE DEF v
<1>4. v.pending => u.pending
    BY <1>1, <1>3
<1>5. Sound(v, list)
    BY <1>3, <1>4, SameSound
<1> QED BY <1>2, <1>3, <1>5

LEMMA PeerSavedKeeps ==
    ASSUME NavInv, PeerSaved
    PROVE  NavInv'
<1> DEFINE saved == [remotes EXCEPT ![ui.active].bonded = Event.bonded]
           ends == ~Event.bonded /\ ui.pending
<1>1. /\ ui \in UiType /\ Sound(ui, remotes) /\ remotes \in Seq(Remote) /\ Handles
      /\ Listed /\ Active.kind \in BtKinds /\ Event.bonded \in BOOLEAN
    BY TopFacts, EventFacts DEF PeerSaved, Current, Others, Posts
<1>2. /\ Active \in Remote /\ ui.active \in DOMAIN remotes /\ Active = remotes[ui.active]
    BY <1>1, ActiveType
<1>3. \/ ends /\ remotes' = Without(saved, ui.active) /\ Show(Home(ui))
      \/ remotes' = saved /\ ui' = [ui EXCEPT !.pending = @ /\ ~ends] /\ TellsWorker
    BY DEF PeerSaved
<1> HIDE DEF ends
<1>4. saved = [remotes EXCEPT ![ui.active] = [remotes[ui.active] EXCEPT !.bonded = Event.bonded]]
    OBVIOUS
<1>5. [remotes[ui.active] EXCEPT !.bonded = Event.bonded] \in Remote
      /\ [remotes[ui.active] EXCEPT !.bonded = Event.bonded].kind = remotes[ui.active].kind
    BY <1>1, <1>2 DEF Remote
<1> HIDE DEF saved
<1>6. /\ saved \in Seq(Remote) /\ DOMAIN saved = DOMAIN remotes
      /\ \A i \in DOMAIN remotes : saved[i].kind = remotes[i].kind
    BY <1>1, <1>2, <1>4, <1>5
<1>7. CASE remotes' = Without(saved, ui.active) /\ Show(Home(ui))
    <2>1. remotes' \in Seq(Remote)
        BY <1>2, <1>6, <1>7, WithoutType
    <2>2. /\ Home(ui) \in UiType /\ Sound(Home(ui), remotes') /\ Home(ui).session = NoId
        BY <1>1, HomeSound DEF Sound
    <2> QED BY <1>1, <1>7, <2>1, <2>2, EventFacts, ShowKeeps
<1>8. CASE remotes' = saved /\ ui' = [ui EXCEPT !.pending = @ /\ ~ends] /\ TellsWorker
    <2>1. Sound(ui, saved)
        <3>1. ~(ui.draft.kind \notin BtKinds /\ remotes[ui.active].kind = ui.draft.kind)
            BY <1>1, <1>2
        <3> QED BY <1>1, <1>6, <3>1, StoredSound
    <2>2. ui' \in UiType /\ Sound(ui', saved) /\ ui'.session = ui.session
        BY <1>1, <1>8, <2>1, PendingSound
    <2>3. Others'
        BY <1>1, <1>6, <1>8, EventFacts
    <2>4. Sound(ui', remotes')
        BY <1>8, <2>2
    <2> QED BY <1>8, <2>2, <2>3, <2>4, TellsTyped, Kept
<1> QED BY <1>3, <1>7, <1>8

LEMMA PeerNotSavedKeeps ==
    ASSUME NavInv, PeerNotSaved
    PROVE  NavInv'
<1>1. /\ ui \in UiType /\ Sound(ui, remotes) /\ remotes \in Seq(Remote) /\ Handles
      /\ ui' = [ui EXCEPT !.pending = FALSE] /\ TellsWorker /\ remotes' = remotes
    BY TopFacts DEF PeerNotSaved, Others
<1>2. /\ ui' \in UiType /\ ui'.stack = ui.stack /\ ui'.session = ui.session
      /\ ui'.pending = FALSE /\ ui'.request = ui.request /\ ui'.active = ui.active
      /\ ui'.editing = ui.editing /\ ui'.draft = ui.draft
    BY <1>1 DEF UiType
<1>3. Sound(ui', remotes')
    BY <1>1, <1>2, SameSound
<1> QED BY <1>1, <1>2, <1>3, EventFacts, TellsTyped, Kept

LEMMA LearnedKeeps ==
    ASSUME NavInv, Learned
    PROVE  NavInv'
<1>1. /\ ui \in UiType /\ Sound(ui, remotes) /\ remotes \in Seq(Remote) /\ Handles
      /\ remotes' = remotes /\ wanted' = wanted /\ worker' = worker /\ Top = "IR_WAIT"
    BY TopFacts DEF Learned, Others, Current
<1>2. ui' \in UiType /\ Sound(ui', remotes) /\ ui'.session = ui.session
    <2>1. CASE ui' = [ui EXCEPT !.request = NoId, !.failed = TRUE]
        BY <1>1, <2>1, RequestSound
    <2>2. CASE \E failed \in BOOLEAN :
                  ui' = [Replace(ui, "IR_RESULT") EXCEPT !.request = NoId, !.failed = failed]
        <3>1. PICK failed \in BOOLEAN :
                  ui' = [Replace(ui, "IR_RESULT") EXCEPT !.request = NoId, !.failed = failed]
            BY <2>2
        <3>2. /\ Replace(ui, "IR_RESULT") \in UiType /\ Sound(Replace(ui, "IR_RESULT"), remotes)
              /\ Replace(ui, "IR_RESULT").session = ui.session
            BY <1>1, IrReplaced
        <3> QED BY <3>1, <3>2, RequestSound
    <2> QED BY <2>1, <2>2 DEF Learned
<1> QED BY <1>1, <1>2, EventFacts, ServiceTyped, Kept

LEMMA SampledKeeps ==
    ASSUME NavInv, Sampled
    PROVE  NavInv'
<1>1. /\ ui \in UiType /\ Sound(ui, remotes) /\ Others
      /\ remotes' = remotes /\ wanted' = wanted /\ worker' = worker /\ events' = events
      /\ held' = held
      /\ ui' = [ui EXCEPT !.status = worker.state, !.pending = @ /\ worker.state # "error"]
    BY TopFacts DEF Sampled
<1>2. worker.state \in States
    BY ServiceTyped
<1>3. PICK pending \in BOOLEAN : pending = (ui.pending /\ worker.state # "error")
    OBVIOUS
<1>4. ui' = [ui EXCEPT !.status = worker.state, !.pending = pending]
    BY <1>1, <1>3
<1>5. /\ ui' \in UiType /\ ui'.stack = ui.stack /\ ui'.session = ui.session
      /\ ui'.pending = pending /\ ui'.request = ui.request /\ ui'.active = ui.active
      /\ ui'.editing = ui.editing /\ ui'.draft = ui.draft
    BY <1>1, <1>2, <1>4 DEF UiType
<1>6. Sound(ui', remotes')
    BY <1>1, <1>3, <1>5, SameSound
<1>7. Others'
    BY <1>1 DEF Others
<1> QED BY <1>1, <1>5, <1>6, <1>7, ServiceTyped, Kept

\* a worker's step: only its state and the event queue change
LEMMA TheirsKeeps ==
    ASSUME NavInv, Theirs, worker' \in [state : States, forgets : 0..ForgetMax],
           events' \in Seq(Posts)
    PROVE  NavInv'
<1>1. /\ ui' = ui /\ remotes' = remotes /\ wanted' = wanted /\ held' = held
      /\ ui \in UiType /\ Sound(ui, remotes) /\ Others
    BY TopFacts DEF Theirs
<1>2. Others'
    BY <1>1 DEF Others
<1> QED BY <1>1, <1>2, ServiceTyped, Kept

LEMMA PostedType ==
    ASSUME NavInv, NEW event \in Posts, Posted(event)
    PROVE  events' \in Seq(Posts)
<1>1. events \in Seq(Posts)
    BY TopFacts DEF Others
<1>2. Append(events, event) \in Seq(Posts)
    BY <1>1
<1> QED BY <1>1, <1>2 DEF Posted

LEMMA BtWorkerKeeps ==
    ASSUME NavInv, BtFails \/ BtPairs \/ BtForgets \/ BtForgetFails
    PROVE  NavInv'
<1>1. /\ worker \in [state : States, forgets : 0..ForgetMax] /\ wanted \in Ids /\ Theirs
      /\ events \in Seq(Posts)
    BY ServiceTyped, TopFacts DEF BtFails, BtPairs, BtForgets, BtForgetFails, Others
<1>2. \A bonded \in BOOLEAN : Peer(wanted, bonded) \in Posts
    BY <1>1 DEF Peer, Posts
<1>3. CASE BtFails
    <2>1. worker' \in [state : States, forgets : 0..ForgetMax]
        BY <1>1, <1>3 DEF BtFails, States
    <2> QED BY <1>1, <1>3, <2>1, TheirsKeeps DEF BtFails
<1>4. CASE BtPairs
    BY <1>1, <1>2, <1>4, PostedType, TheirsKeeps DEF BtPairs
<1>5. CASE BtForgets \/ BtForgetFails
    <2>1. worker.forgets - 1 \in 0..ForgetMax
        <3>1. worker.forgets > 0 /\ worker.forgets \in 0..ForgetMax
            BY <1>1, <1>5 DEF BtForgets, BtForgetFails
        <3> QED BY <3>1, UiAssumption
    <2>2. worker' \in [state : States, forgets : 0..ForgetMax]
        BY <1>1, <1>5, <2>1 DEF BtForgets, BtForgetFails, States
    <2>3. events' \in Seq(Posts)
        BY <1>1, <1>2, <1>5, PostedType DEF BtForgets, BtForgetFails
    <2> QED BY <1>1, <2>2, <2>3, TheirsKeeps
<1> QED BY <1>3, <1>4, <1>5

LEMMA IrAnswersKeeps ==
    ASSUME NavInv, NEW type \in Results, IrAnswers(type)
    PROVE  NavInv'
<1>1. /\ Theirs /\ worker' = worker /\ ui.request # NoId /\ Posted(Result(type, ui.request))
      /\ ui \in UiType
    BY TopFacts DEF IrAnswers
<1>2. Result(type, ui.request) \in Posts
    BY <1>1 DEF Result, Posts, UiType
<1> QED BY <1>1, <1>2, PostedType, ServiceTyped, TheirsKeeps

LEMMA IdleKeeps ==
    ASSUME NavInv, UNCHANGED vars
    PROVE  NavInv'
<1>1. Theirs /\ worker' = worker /\ events' = events
    BY DEF vars, Theirs
<1>2. events \in Seq(Posts)
    BY TopFacts DEF Others
<1> QED BY <1>1, <1>2, ServiceTyped, TheirsKeeps

LEMMA NavStarts ==
    ASSUME Init
    PROVE  NavInv
<1>1. Blank \in Remote
    BY DEF Blank, Remote
<1>2. <<"SPLASH">> \in Seq(Screens) /\ Len(<<"SPLASH">>) = 1 /\ <<"SPLASH">>[1] = "SPLASH"
    BY DEF Screens
<1>3. /\ ui \in UiType /\ ui.stack = <<"SPLASH">> /\ ui.session = NoId /\ ui.request = NoId
      /\ ui.pending = FALSE
    BY <1>1, <1>2 DEF Init, UiType, States
<1>4. Shaped(ui.stack) /\ Serviced(ui) /\ Len(ui.stack) = 1
    BY <1>2, <1>3 DEF Shaped, Serviced, Has, Under, Roots, Height
<1>5. Sound(ui, remotes)
    BY <1>3, <1>4, RootSound
<1>6. 0 \in 0..ForgetMax
    BY UiAssumption
<1>7. remotes \in Seq(Remote)
    BY UiAssumption DEF Init
<1>8. TypeOK
    <2>1. << >> \in Seq(Screens)
          /\ << >> \in Seq([type : {"peer"} \cup Results, id : Ids, bonded : BOOLEAN])
        OBVIOUS
    <2>2. wanted \in Ids \cup {NoId} /\ worker \in [state : States, forgets : 0..ForgetMax]
        BY <1>6 DEF Init, NoService, States
    <2> QED BY <1>3, <1>7, <2>1, <2>2 DEF Init, TypeOK
<1>9. WantedShown
    BY DEF Init, WantedShown
<1> QED BY <1>5, <1>8, <1>9 DEF NavInv

LEMMA NavKeeps ==
    ASSUME NavInv, [Next]_vars
    PROVE  NavInv'
<1>1. ASSUME NEW e \in Inputs,
             GoHome(e) \/ RemoteMode(e) \/ Construction(e) \/ PickerPicks(e) \/ IrKey(e)
      PROVE  NavInv'
    BY <1>1, GoHomeKeeps, RemoteModeKeeps, ConstructionKeeps, PickerPicksKeeps, IrKeyKeeps
<1>2. CASE BackHeld \/ BackWaits \/ BackPops \/ Splash \/ HomeSettings \/ HomeAdds \/ Settings
    BY <1>2, BackHeldKeeps, BackWaitsKeeps, BackPopsKeeps, SplashKeeps, HomeSettingsKeeps,
       HomeAddsKeeps, SettingsKeeps
<1>3. ASSUME NEW i \in DOMAIN remotes, HomeUses(i) \/ HomeOpens(i)
      PROVE  NavInv'
    BY <1>3, HomeUsesKeeps, HomeOpensKeeps
<1>4. CASE EditUses \/ Edit \/ EditSaves \/ Remove \/ RemoveForgets \/ RemoveCancelled
    BY <1>4, EditUsesKeeps, EditKeeps, EditSavesKeeps, RemoveKeeps, RemoveForgetsKeeps,
       RemoveCancelledKeeps
<1>5. CASE AddType \/ BtType \/ NameNext \/ IconNext \/ IconCreates \/ PresetCreates
    BY <1>5, AddTypeKeeps, BtTypeKeeps, NameNextKeeps, IconNextKeeps, IconCreatesKeeps,
       PresetCreatesKeeps
<1>6. CASE BtUses \/ BtReconnects \/ BtMenu \/ BtConfirm \/ BtSaves \/ PickerDone
    BY <1>6, BtUsesKeeps, BtReconnectsKeeps, BtMenuKeeps, BtConfirmKeeps, BtSavesKeeps,
       PickerDoneKeeps
<1>7. CASE IrReplace \/ IrRetry \/ IrResult
    BY <1>7, IrReplaceKeeps, IrRetryKeeps, IrResultKeeps
<1>8. CASE StaleEvent \/ PeerSaved \/ PeerNotSaved \/ Learned \/ Sampled
    BY <1>8, StaleEventKeeps, PeerSavedKeeps, PeerNotSavedKeeps, LearnedKeeps, SampledKeeps
<1>9. CASE BtFails \/ BtPairs \/ BtForgets \/ BtForgetFails
    BY <1>9, BtWorkerKeeps
<1>10. ASSUME NEW type \in Results, IrAnswers(type)
       PROVE  NavInv'
    BY <1>10, IrAnswersKeeps
<1>11. CASE UNCHANGED vars
    BY <1>11, IdleKeeps
<1> QED BY <1>1, <1>2, <1>3, <1>4, <1>5, <1>6, <1>7, <1>8, <1>9, <1>10, <1>11 DEF Next

-----------------------------------------------------------------------------
(* The theorems                                                            *)

LEMMA NavAlways == Spec => []NavInv
<1>1. Init => NavInv
    BY NavStarts
<1>2. NavInv /\ [Next]_vars => NavInv'
    BY NavKeeps
<1> QED BY <1>1, <1>2, PTL DEF Spec

(* The screen a handler pushes always fits on the stack, whatever keys and *)
(* events come: ui_nav_push, whose result nobody looks at, never fails.    *)
THEOREM StackHasRoom == Spec => []PushesFit
<1>1. NavInv => PushesFit
    <2>1. SUFFICES ASSUME NavInv PROVE Len(ui.stack) < StackMax
        BY DEF PushesFit, NavInv
    <2>2. \A n \in 1..6 : n < StackMax
        BY UiAssumption
    <2>3. Len(ui.stack) \in 1..6
        BY <2>1, TopFacts
    <2> QED BY <2>2, <2>3
<1> QED BY <1>1, NavAlways, PTL

LEMMA OnStackHas ==
    ASSUME NavInv, NEW screen
    PROVE  OnStack(screen) <=> Has(ui.stack, {screen})
<1>1. DOMAIN ui.stack = 1..Len(ui.stack)
    BY TopFacts
<1> QED BY <1>1 DEF OnStack, Has

(* The Bluetooth session of ui_ctx_t is open exactly under its menu and    *)
(* for a stored Bluetooth remote, no other session is desired, and a code  *)
(* is waited for only on the screen that shows it.                         *)
THEOREM ServicesHaveScreens == Spec => []WorkersHaveScreen
<1>1. NavInv => WorkersHaveScreen
    <2> SUFFICES ASSUME NavInv PROVE WorkersHaveScreen
        OBVIOUS
    <2>1. /\ Sound(ui, remotes) /\ ui.stack \in Seq(Screens)
          /\ wanted # NoId => wanted = ui.session
        BY TopFacts, ServiceTyped
    <2>2. OnStack("BT_DEVICE") <=> Under(ui.stack, {"BT_DEVICE"})
        BY <2>1, OnStackHas, HeightFacts DEF Sound
    <2>3. \A kinds : Shows(ui, remotes, kinds) => Listed /\ Active.kind \in kinds
        BY DEF Shows, Listed, Active
    <2>4. BluetoothHasScreen
        BY <2>1, <2>2, <2>3 DEF BluetoothHasScreen, Sound, Serviced, About
    <2>5. RecordingHasScreen
        <3>1. SUFFICES ASSUME ui.request # NoId
                       PROVE  Top = "IR_WAIT" /\ Listed /\ Active.kind = "ir"
            BY DEF RecordingHasScreen
        <3>2. Top = "IR_WAIT"
            BY <3>1, TopFacts
        <3>3. Has(ui.stack, IrScreens)
            BY <3>2, TopFacts DEF IrScreens
        <3> QED BY <2>1, <2>3, <3>2, <3>3 DEF Sound, About
    <2> QED BY <2>4, <2>5 DEF WorkersHaveScreen
<1> QED BY <1>1, NavAlways, PTL

(* The flag that tells the wizard from the editor is right wherever it is  *)
(* read, and the editor's draft has the kind of the remote it overwrites.  *)
THEOREM EditorSavesItsRemote == Spec => []EditorHasRemote
<1>1. NavInv => EditorHasRemote
    <2> SUFFICES ASSUME NavInv PROVE EditorHasRemote
        OBVIOUS
    <2>1. Sound(ui, remotes) /\ ui.stack \in Seq(Screens)
        BY TopFacts
    <2>2. OnStack("ADD_TYPE") <=> Under(ui.stack, {"ADD_TYPE"})
        BY <2>1, OnStackHas, HeightFacts DEF Sound
    <2>3. Top \in {"NAME", "ICON"} => Has(ui.stack, {"NAME", "ICON"})
        BY TopFacts
    <2>4. Edits(ui, remotes) => ui.editing /\ Listed /\ ui.draft.kind = Active.kind
        BY DEF Edits, Shows, Listed, Active
    <2> QED BY <2>1, <2>2, <2>3, <2>4 DEF EditorHasRemote, Sound, About
<1> QED BY <1>1, NavAlways, PTL

\* the handlers that store something
LEMMA RemotesStep ==
    ASSUME [Next]_vars
    PROVE  \/ remotes' = remotes
           \/ EditSaves \/ Remove \/ PeerSaved
           \/ remotes' = Append(remotes, ui.draft)
           \/ \E kind \in BtKinds : remotes' = Append(remotes, [ui.draft EXCEPT !.kind = kind])
<1>1. ASSUME NEW e \in Inputs,
             GoHome(e) \/ RemoteMode(e) \/ Construction(e) \/ PickerPicks(e) \/ IrKey(e)
      PROVE  remotes' = remotes
    BY <1>1 DEF GoHome, RemoteMode, Construction, PickerPicks, IrKey, Move, Learns
<1>2. CASE BackHeld \/ BackWaits \/ BackPops \/ Splash \/ HomeSettings \/ HomeAdds \/ Settings
    BY <1>2 DEF BackHeld, BackWaits, BackPops, Splash, HomeSettings, HomeAdds, Settings, Move
<1>3. ASSUME NEW i \in DOMAIN remotes, HomeUses(i) \/ HomeOpens(i)
      PROVE  remotes' = remotes
    BY <1>3 DEF HomeUses, HomeOpens, Move
<1>4. CASE EditUses \/ Edit \/ RemoveForgets \/ RemoveCancelled
    BY <1>4 DEF EditUses, Edit, RemoveForgets, RemoveCancelled, Move
<1>5. CASE AddType \/ BtType \/ NameNext \/ IconNext
    BY <1>5 DEF AddType, BtType, NameNext, IconNext, Move
<1>6. CASE IconCreates \/ PresetCreates
    BY <1>6 DEF IconCreates, PresetCreates, create_remote, Move
<1>7. CASE BtUses \/ BtReconnects \/ BtMenu \/ BtConfirm \/ BtSaves \/ PickerDone
    BY <1>7 DEF BtUses, BtReconnects, BtMenu, BtConfirm, BtSaves, PickerDone, Move
<1>8. CASE IrReplace \/ IrRetry \/ IrResult
    BY <1>8 DEF IrReplace, IrRetry, IrResult, Learns, Move
<1>9. CASE StaleEvent \/ PeerNotSaved \/ Learned \/ Sampled
    BY <1>9 DEF StaleEvent, PeerNotSaved, Learned, Sampled
<1>10. CASE BtFails \/ BtPairs \/ BtForgets \/ BtForgetFails
    BY <1>10 DEF BtFails, BtPairs, BtForgets, BtForgetFails, Theirs
<1>11. ASSUME NEW type \in Results, IrAnswers(type)
       PROVE  remotes' = remotes
    BY <1>11 DEF IrAnswers, Theirs
<1>12. CASE UNCHANGED vars
    BY <1>12 DEF vars
<1> QED BY <1>1, <1>2, <1>3, <1>4, <1>5, <1>6, <1>7, <1>8, <1>9, <1>10, <1>11, <1>12 DEF Next

(* Whether a stored remote is paired changes only when the worker says so: *)
(* the editor, which saves a whole remote, does not bring an old pairing   *)
(* back, and a new remote leaves the stored ones alone.                    *)
THEOREM PairingIsTheWorkers == Spec => PairingKept
<1> DEFINE Told(i) ==
        Len(remotes') >= Len(remotes) /\ remotes'[i].bonded # remotes[i].bonded =>
           /\ events # << >> /\ events' = Tail(events)
           /\ Event.type = "peer" /\ Event.bonded = remotes'[i].bonded
<1>1. ASSUME NavInv, [Next]_vars, NEW i \in DOMAIN remotes \cap DOMAIN remotes'
      PROVE  Told(i)
    <2>1. remotes \in Seq(Remote) /\ i \in 1..Len(remotes) /\ ui.draft \in Remote
        BY <1>1, TopFacts DEF Others, UiType
    <2>2. CASE remotes' = remotes
        BY <2>2
    <2>3. ASSUME NEW draft, remotes' = Append(remotes, draft)
          PROVE  Told(i)
        BY <2>1, <2>3
    <2>4. CASE EditSaves
        <3>1. Top \in {"NAME", "ICON"} /\ ui.editing
            BY <2>4 DEF EditSaves, On
        <3>2. /\ ui.active \in DOMAIN remotes /\ Active = remotes[ui.active]
              /\ Edited.bonded = Active.bonded
            BY <1>1, <3>1, EditedFacts
        <3>3. remotes' = remotes \/ remotes' = [remotes EXCEPT ![ui.active] = Edited]
            BY <2>4 DEF EditSaves, Move
        <3> QED BY <2>1, <3>2, <3>3
    <2>5. CASE Remove
        <3>1. remotes' = Without(remotes, ui.active) /\ ui.active \in DOMAIN remotes
            BY <2>5 DEF Remove, Listed
        <3>2. Len(remotes') = Len(remotes) - 1
            BY <2>1, <3>1, WithoutType
        <3> QED BY <2>1, <3>2
    <2>6. CASE PeerSaved
        <3> DEFINE saved == [remotes EXCEPT ![ui.active].bonded = Event.bonded]
        <3>1. /\ events # << >> /\ events' = Tail(events) /\ Event.type = "peer"
              /\ ui.active \in DOMAIN remotes
              /\ remotes' = saved \/ remotes' = Without(saved, ui.active)
            BY <2>6 DEF PeerSaved, Handles, Current, Listed
        <3>2. saved = [remotes EXCEPT ![ui.active] =
                                         [remotes[ui.active] EXCEPT !.bonded = Event.bonded]]
            OBVIOUS
        <3>3. [remotes[ui.active] EXCEPT !.bonded = Event.bonded] \in Remote
              /\ [remotes[ui.active] EXCEPT !.bonded = Event.bonded].bonded = Event.bonded
            <4>1. remotes[ui.active] \in Remote /\ Event.bonded \in BOOLEAN
                BY <1>1, <2>1, <2>6, <3>1, EventFacts DEF PeerSaved, Posts
            <4> QED BY <4>1 DEF Remote
        <3> HIDE DEF saved
        <3>4. /\ saved \in Seq(Remote) /\ Len(saved) = Len(remotes) /\ DOMAIN saved = DOMAIN remotes
              /\ i = ui.active => saved[i].bonded = Event.bonded
              /\ i # ui.active => saved[i] = remotes[i]
            BY <2>1, <3>1, <3>2, <3>3
        <3>5. CASE remotes' = saved
            BY <3>1, <3>4, <3>5
        <3>6. CASE remotes' = Without(saved, ui.active)
            <4>1. Len(remotes') = Len(saved) - 1
                BY <3>1, <3>4, <3>6, WithoutType
            <4> QED BY <2>1, <3>4, <4>1
        <3> QED BY <3>1, <3>5, <3>6
    <2> HIDE DEF Told
    <2> QED BY <1>1, <2>2, <2>3, <2>4, <2>5, <2>6, RemotesStep
<1>2. NavInv /\ [Next]_vars =>
         [\A i \in DOMAIN remotes \cap DOMAIN remotes' : Told(i)]_vars
    <2> HIDE DEF Told
    <2> QED BY <1>1
<1> QED BY <1>2, NavAlways, PTL DEF Spec, PairingKept, Told

(* A Bluetooth remote is deleted only in the step that learns from its own *)
(* session that its peer has been forgotten; the direct way is left to     *)
(* remotes without one, for REMOVE is never reached without a session.     *)
THEOREM PeerForgottenFirst == Spec => ForgottenBeforeRemoved
<1> DEFINE Deletes == Len(remotes') < Len(remotes) /\ Active.kind \in BtKinds
           Forgotten == /\ events # << >> /\ events' = Tail(events)
                        /\ Event.type = "peer" /\ ~Event.bonded /\ Event.id = ui.session
<1>1. ASSUME NavInv, [Next]_vars, Deletes
      PROVE  Forgotten
    <2>1. /\ remotes \in Seq(Remote) /\ ui \in UiType /\ Sound(ui, remotes)
          /\ Len(remotes') < Len(remotes) /\ Active.kind \in BtKinds
        BY <1>1, TopFacts DEF Others
    <2>2. ~(remotes' = remotes) /\ \A draft : remotes' # Append(remotes, draft)
        BY <2>1
    <2>3. ~EditSaves
        <3>1. EditSaves => remotes' = remotes \/ remotes' = [remotes EXCEPT ![ui.active] = Edited]
            BY DEF EditSaves, Move
        <3>2. remotes' = [remotes EXCEPT ![ui.active] = Edited] => Len(remotes') = Len(remotes)
            BY <2>1
        <3> QED BY <2>1, <3>1, <3>2
    <2>4. ~Remove
        <3>1. SUFFICES ASSUME Remove PROVE FALSE
            OBVIOUS
        <3>2. Top = "REMOVE" /\ Listed /\ ~Unpairs
            BY <3>1 DEF Remove, On
        <3>3. ui.session = NoId
            BY <2>1, <3>2 DEF Unpairs
        <3>4. Under(ui.stack, {"EDIT", "BT_DEVICE"}) /\ ~Under(ui.stack, {"BT_DEVICE"})
            BY <1>1, <2>1, <3>2, <3>3, TopFacts DEF Sound, Serviced
        <3>5. Under(ui.stack, {"EDIT"})
            BY <3>4 DEF Under
        <3>6. Shows(ui, remotes, {"ir", "wifi"})
            BY <2>1, <3>5 DEF Sound, About
        <3> QED BY <2>1, <3>6 DEF Shows, Active, BtKinds
    <2>5. PeerSaved
        BY <1>1, <2>2, <2>3, <2>4, RemotesStep
    <2> DEFINE saved == [remotes EXCEPT ![ui.active].bonded = Event.bonded]
    <2>6. /\ events # << >> /\ events' = Tail(events) /\ Event.type = "peer"
          /\ ui.session = Event.id
          /\ remotes' = saved \/ ~Event.bonded
        BY <2>5 DEF PeerSaved, Handles, Current
    <2>7. remotes' # saved
        <3>1. Len(saved) = Len(remotes)
            BY <2>1
        <3> QED BY <2>1, <3>1
    <2> QED BY <2>6, <2>7
<1>2. NavInv /\ [Next]_vars => [Deletes => Forgotten]_vars
    <2> HIDE DEF Deletes, Forgotten
    <2> QED BY <1>1
<1> QED BY <1>2, NavAlways, PTL DEF Spec, ForgottenBeforeRemoved, Deletes, Forgotten

\* while BACK is held: the screens below the one where it went down are still there
HeldOn(u, h) ==
    h # << >> =>
       \/ u.stack = <<"HOME">>
       \/ /\ u.back = Len(h) - 1 /\ Len(h) <= Len(u.stack)
          /\ \A i \in 1..u.back : u.stack[i] = h[i]
HeldInv == NavInv /\ HeldOn(ui, held)

LEMMA HeldDropped ==
    ASSUME NEW e, Key(e), ~(e = "back" /\ Learning)
    PROVE  HeldOn(ui', held')
BY DEF Key, HeldOn

LEMMA HeldSame ==
    ASSUME HeldInv, held' = held, ui'.stack = ui.stack, ui'.back = ui.back
    PROVE  HeldOn(ui', held')
BY DEF HeldInv, HeldOn

LEMMA NotLearning ==
    ASSUME Top \notin {"BT_KEYS", "IR_KEYS", "IR_REPLACE", "IR_WAIT", "IR_RESULT"}
    PROVE  ~Learning
BY DEF Learning, Picker

\* a recording, or a picker, opens a screen on the press
LEMMA HeldPush ==
    ASSUME NavInv, Key("back"), Learning,
           NEW screen \in Screens, ui'.stack = Append(ui.stack, screen),
           ui'.back = Noted("back").back
    PROVE  HeldOn(ui', held')
<1>1. ui.stack \in Seq(Screens) /\ Top \in Screens /\ Len(ui.stack) \in 1..6
    BY TopFacts
<1>2. /\ Len(ui'.stack) = Len(ui.stack) + 1
      /\ \A i \in 1..Len(ui.stack) : ui'.stack[i] = ui.stack[i]
    BY <1>1, AppendFacts
<1>3. held' = ui.stack
    BY DEF Key
<1>4. ui'.back = Len(ui.stack) - 1
    BY NotedFacts
<1>5. \A n \in 1..6 : n <= n + 1 /\ \A i \in 1..(n - 1) : i \in 1..n
    OBVIOUS
<1>6. /\ ui'.back = Len(held') - 1 /\ Len(held') <= Len(ui'.stack)
      /\ \A i \in 1..ui'.back : ui'.stack[i] = held'[i]
    BY <1>1, <1>2, <1>3, <1>4, <1>5
<1> QED BY <1>6 DEF HeldOn

LEMMA HeldKey ==
    ASSUME HeldInv, NEW e,
           GoHome(e) \/ RemoteMode(e) \/ Construction(e) \/ PickerPicks(e) \/ IrKey(e)
    PROVE  HeldOn(ui', held')
<1>1. NavInv /\ Key(e)
    BY DEF HeldInv, GoHome, RemoteMode, Construction, PickerPicks, IrKey, On
<1>2. CASE ~(e = "back" /\ Learning)
    BY <1>1, <1>2, HeldDropped
<1>3. CASE e = "back" /\ Learning
    <2>1. ~GoHome(e)
        BY <1>3 DEF GoHome, Exits
    <2>2. ~RemoteMode(e) /\ ~Construction(e)
        BY <1>3, NotLearning DEF RemoteMode, Construction, On
    <2>3. \/ PickerPicks(e) /\ Top = "BT_KEYS"
          \/ IrKey(e) /\ Top = "IR_KEYS" /\ Shows(ui, remotes, {"ir"})
        <3>1. IrKey(e) => Top = "IR_KEYS"
            BY DEF IrKey, On
        <3>2. Top = "IR_KEYS" => Has(ui.stack, IrScreens) /\ Sound(ui, remotes)
            BY <1>1, TopFacts DEF IrScreens
        <3>3. Top = "IR_KEYS" => Shows(ui, remotes, {"ir"})
            BY <3>2 DEF Sound, About
        <3>4. PickerPicks(e) => Top = "BT_KEYS"
            BY DEF PickerPicks, On
        <3> QED BY <2>1, <2>2, <3>1, <3>3, <3>4
    <2>4. Len(ui.stack) \in 1..6 /\ Len(ui.stack) <= 4
        BY <1>1, <2>3, TopFacts DEF Height, Roots
    <2>5. ASSUME NEW screen \in {"BT_TEXT", "BT_BINDING", "IR_REPLACE", "IR_WAIT"},
                 screen \in IrScreens => Shows(ui, remotes, {"ir"}),
                 \/ ui' = Push(Noted(e), screen)
                 \/ \E id, failed :
                       ui' = [Push(Noted(e), screen) EXCEPT !.request = id, !.failed = failed]
          PROVE  HeldOn(ui', held')
        <3>1. screen \in Screens /\ Shaped(Noted(e).stack) /\ Noted(e) \in UiType
            BY <1>1, NotedFacts DEF Screens, Sound
        <3>2. /\ Push(Noted(e), screen) \in UiType
              /\ Push(Noted(e), screen) = [Noted(e) EXCEPT !.stack = Append(Noted(e).stack, screen)]
            BY <3>1, PushFacts
        <3>3. /\ Push(Noted(e), screen).stack = Append(Noted(e).stack, screen)
              /\ Push(Noted(e), screen).back = Noted(e).back
            BY <3>1, <3>2 DEF UiType
        <3>4. /\ ui'.stack = Push(Noted(e), screen).stack /\ ui'.back = Push(Noted(e), screen).back
            BY <2>5, <3>2 DEF UiType
        <3>5. ui'.stack = Append(ui.stack, screen) /\ ui'.back = Noted("back").back
            BY <1>1, <1>3, <3>3, <3>4, NotedFacts
        <3> QED BY <1>1, <1>3, <3>1, <3>5, HeldPush
    <2>6. CASE PickerPicks(e)
        <3>1. PICK screen \in {"BT_TEXT", "BT_BINDING"} : ui' = Push(Noted(e), screen)
            BY <2>6 DEF PickerPicks, Move, Show
        <3> QED BY <2>5, <3>1 DEF IrScreens
    <2>7. CASE IrKey(e)
        <3>1. Shows(ui, remotes, {"ir"})
            <4>1. Top = "IR_KEYS"
                BY <2>7 DEF IrKey, On
            <4> QED BY <2>3, <4>1
        <3>2. CASE Move(Push(Noted(e), "IR_REPLACE"))
            BY <2>5, <3>1, <3>2 DEF Move, Show
        <3>3. CASE Learns(Push(Noted(e), "IR_WAIT"))
            BY <2>5, <3>1, <3>3 DEF Learns
        <3> QED BY <2>7, <3>2, <3>3 DEF IrKey
    <2> QED BY <2>3, <2>6, <2>7
<1> QED BY <1>2, <1>3

LEMMA HeldBack ==
    ASSUME HeldInv, BackHeld \/ BackWaits \/ BackPops
    PROVE  HeldOn(ui', held')
<1>1. CASE BackHeld
    BY <1>1, HeldDropped DEF BackHeld
<1>2. CASE BackWaits
    <2>1. NavInv /\ Key("back") /\ ui' = Noted("back")
        BY <1>2 DEF HeldInv, BackWaits, Move, Show
    <2>2. CASE ~Learning
        BY <2>1, <2>2, HeldDropped
    <2>3. CASE Learning
        <3>1. held' = ui.stack /\ ui'.stack = ui.stack /\ ui'.back = Len(ui.stack) - 1
            BY <2>1, <2>3, NotedFacts DEF Key
        <3>2. Len(ui.stack) \in 1..6
            BY <2>1, TopFacts
        <3>3. Len(held') <= Len(ui'.stack)
            BY <3>1, <3>2
        <3> QED BY <3>1, <3>3 DEF HeldOn
    <2> QED BY <2>2, <2>3
<1>3. CASE BackPops
    <2>1. Key("back")
        BY <1>3 DEF BackPops, On
    <2>2. ~Learning
        BY <1>3 DEF BackPops, Learning, Picker
    <2> QED BY <2>1, <2>2, HeldDropped
<1> QED BY <1>1, <1>2, <1>3

LEMMA HeldPressed ==
    ASSUME HeldInv, NEW e, e # "back", Key(e)
    PROVE  HeldOn(ui', held')
BY HeldDropped

LEMMA HeldEvents ==
    ASSUME HeldInv, Splash \/ StaleEvent \/ PeerSaved \/ PeerNotSaved \/ Learned \/ Sampled
    PROVE  HeldOn(ui', held')
<1>1. NavInv /\ ui \in UiType /\ Sound(ui, remotes) /\ ui.stack \in Seq(Screens)
    BY TopFacts DEF HeldInv
<1>2. held' = held
    BY DEF Splash, StaleEvent, PeerSaved, PeerNotSaved, Learned, Sampled, Handles
<1>3. CASE Splash
    <2>1. ui'.stack = <<"HOME">>
        BY <1>1, <1>3, SplashFacts DEF Splash, Move, Show
    <2> QED BY <2>1 DEF HeldOn
<1>4. CASE StaleEvent
    BY <1>2, <1>4, HeldSame DEF StaleEvent
<1>5. CASE PeerSaved
    <2>1. CASE Show(Home(ui))
        <3>1. ui'.stack = <<"HOME">>
            BY <1>1, <2>1, HomeSound DEF Show, Sound
        <3> QED BY <3>1 DEF HeldOn
    <2>2. CASE \E ends : ui' = [ui EXCEPT !.pending = @ /\ ~ends]
        <3>1. ui'.stack = ui.stack /\ ui'.back = ui.back
            BY <1>1, <2>2, PendingSound
        <3> QED BY <1>2, <3>1, HeldSame
    <2> QED BY <1>5, <2>1, <2>2 DEF PeerSaved
<1>6. CASE PeerNotSaved
    <2>1. ui'.stack = ui.stack /\ ui'.back = ui.back
        BY <1>1, <1>6 DEF PeerNotSaved, UiType
    <2> QED BY <1>2, <2>1, HeldSame
<1>7. CASE Learned
    <2>1. CASE ui' = [ui EXCEPT !.request = NoId, !.failed = TRUE]
        <3>1. ui'.stack = ui.stack /\ ui'.back = ui.back
            BY <1>1, <2>1 DEF UiType
        <3> QED BY <1>2, <3>1, HeldSame
    <2>2. CASE \E failed \in BOOLEAN :
                  ui' = [Replace(ui, "IR_RESULT") EXCEPT !.request = NoId, !.failed = failed]
        <3>1. Top = "IR_WAIT"
            BY <1>7 DEF Learned, Current
        <3>2. /\ Replace(ui, "IR_RESULT") \in UiType /\ Replace(ui, "IR_RESULT").back = ui.back
              /\ Len(Replace(ui, "IR_RESULT").stack) = Len(ui.stack)
              /\ \A i \in 1..(Len(ui.stack) - 1) :
                    Replace(ui, "IR_RESULT").stack[i] = ui.stack[i]
            BY <1>1, <3>1, IrReplaced
        <3>3. /\ ui'.stack = Replace(ui, "IR_RESULT").stack
              /\ ui'.back = Replace(ui, "IR_RESULT").back
            BY <2>2, <3>2 DEF UiType
        <3>4. ui.stack # <<"HOME">> /\ Len(ui.stack) \in 1..6
            BY <1>1, <3>1, TopFacts DEF Top
        <3>5. SUFFICES ASSUME held # << >>
                       PROVE  /\ ui'.back = Len(held) - 1 /\ Len(held) <= Len(ui'.stack)
                              /\ \A i \in 1..ui'.back : ui'.stack[i] = held[i]
            BY <1>2 DEF HeldOn
        <3>6. /\ ui.back = Len(held) - 1 /\ Len(held) <= Len(ui.stack)
              /\ \A i \in 1..ui.back : ui.stack[i] = held[i]
            BY <3>4, <3>5 DEF HeldInv, HeldOn
        <3>7. Len(held) \in Nat
            BY <1>1, TopFacts DEF Others
        <3>8. \A i \in 1..ui.back : i \in 1..(Len(ui.stack) - 1)
            BY <3>4, <3>6, <3>7
        <3> QED BY <3>2, <3>3, <3>6, <3>8
    <2> QED BY <1>7, <2>1, <2>2 DEF Learned
<1>8. CASE Sampled
    <2>1. PICK pending \in BOOLEAN : pending = (ui.pending /\ worker.state # "error")
        OBVIOUS
    <2>2. ui' = [ui EXCEPT !.status = worker.state, !.pending = pending]
        BY <1>8, <2>1 DEF Sampled
    <2>3. ui'.stack = ui.stack /\ ui'.back = ui.back
        BY <1>1, <2>2 DEF UiType
    <2> QED BY <1>2, <2>3, HeldSame
<1> QED BY <1>3, <1>4, <1>5, <1>6, <1>7, <1>8

LEMMA HeldKeeps ==
    ASSUME HeldInv, [Next]_vars
    PROVE  HeldInv'
<1> SUFFICES HeldOn(ui', held')
    BY NavKeeps DEF HeldInv
<1>1. ASSUME NEW e \in Inputs,
             GoHome(e) \/ RemoteMode(e) \/ Construction(e) \/ PickerPicks(e) \/ IrKey(e)
      PROVE  HeldOn(ui', held')
    BY <1>1, HeldKey
<1>2. CASE BackHeld \/ BackWaits \/ BackPops
    BY <1>2, HeldBack
<1>3. CASE HomeSettings \/ HomeAdds \/ Settings
    BY <1>3, HeldPressed DEF HomeSettings, HomeAdds, Settings, On
<1>4. ASSUME NEW i \in DOMAIN remotes, HomeUses(i) \/ HomeOpens(i)
      PROVE  HeldOn(ui', held')
    BY <1>4, HeldPressed DEF HomeUses, HomeOpens, On
<1>5. CASE EditUses \/ Edit \/ EditSaves \/ Remove \/ RemoveForgets \/ RemoveCancelled
    BY <1>5, HeldPressed DEF EditUses, Edit, EditSaves, Remove, RemoveForgets, RemoveCancelled, On
<1>6. CASE AddType \/ BtType \/ NameNext \/ IconNext \/ IconCreates \/ PresetCreates
    BY <1>6, HeldPressed DEF AddType, BtType, NameNext, IconNext, IconCreates, PresetCreates, On
<1>7. CASE BtUses \/ BtReconnects \/ BtMenu \/ BtConfirm \/ BtSaves \/ PickerDone
    BY <1>7, HeldPressed DEF BtUses, BtReconnects, BtMenu, BtConfirm, BtSaves, PickerDone, On
<1>8. CASE IrReplace \/ IrRetry \/ IrResult
    BY <1>8, HeldPressed DEF IrReplace, IrRetry, IrResult, On
<1>9. CASE Splash \/ StaleEvent \/ PeerSaved \/ PeerNotSaved \/ Learned \/ Sampled
    BY <1>9, HeldEvents
<1>10. CASE BtFails \/ BtPairs \/ BtForgets \/ BtForgetFails
    BY <1>10, HeldSame DEF BtFails, BtPairs, BtForgets, BtForgetFails, Theirs
<1>11. ASSUME NEW type \in Results, IrAnswers(type)
       PROVE  HeldOn(ui', held')
    BY <1>11, HeldSame DEF IrAnswers, Theirs
<1>12. CASE UNCHANGED vars
    BY <1>12, HeldSame DEF vars
<1> QED BY <1>1, <1>2, <1>3, <1>4, <1>5, <1>6, <1>7, <1>8, <1>9, <1>10, <1>11, <1>12 DEF Next

LEMMA HeldAlways == Spec => []HeldInv
<1>1. Init => HeldInv
    BY NavStarts DEF Init, HeldInv, HeldOn
<1> QED BY <1>1, HeldKeeps, PTL DEF Spec

(* A hold of BACK ends on the parent of the screen where BACK went down:   *)
(* a recording that the press opened is left, and so is the result that    *)
(* takes its place when a code arrives during the hold.                    *)
THEOREM HoldReturnsToParent == Spec => BackHoldReturns
<1> DEFINE Returned == ui'.stack = SubSeq(held, 1, Len(held) - 1)
<1>1. ASSUME HeldInv, BackHeld, held # << >>
      PROVE  Returned
    <2>1. NavInv /\ held \in Seq(Screens) /\ ui \in UiType /\ ui.stack \in Seq(Screens)
          /\ ui.back > 0 /\ ui.back \in Nat
        BY <1>1, TopFacts DEF HeldInv, Others, BackHeld, Returns, UiType
    <2>2. ui.stack # <<"HOME">>
        <3>1. Top # "HOME"
            BY <1>1 DEF BackHeld, Returns, Learning, Picker
        <3> QED BY <3>1 DEF Top
    <2>3. /\ ui.back = Len(held) - 1 /\ Len(held) <= Len(ui.stack)
          /\ \A i \in 1..ui.back : ui.stack[i] = held[i]
        BY <1>1, <2>2 DEF HeldInv, HeldOn
    <2>4. /\ Len(held) \in Nat /\ Len(ui.stack) \in Nat /\ Len(ui.stack) > ui.back
          /\ ui.back \in 0..Len(ui.stack) /\ ui.back \in 0..Len(held)
        BY <2>1, <2>3
    <2>5. ui' = [Leave(ui, ui.back) EXCEPT !.back = 0]
        BY <1>1, <2>4 DEF BackHeld, Move, Show
    <2>6. Leave(ui, ui.back) \in UiType /\ Leave(ui, ui.back).stack = SubSeq(ui.stack, 1, ui.back)
        BY <2>1, <2>4, LeaveFacts
    <2>7. ui'.stack = SubSeq(ui.stack, 1, ui.back)
        BY <2>5, <2>6 DEF UiType
    <2>8. /\ SubSeq(ui.stack, 1, ui.back) \in Seq(Screens) /\ Len(SubSeq(ui.stack, 1, ui.back)) = ui.back
          /\ \A i \in 1..ui.back : SubSeq(ui.stack, 1, ui.back)[i] = ui.stack[i]
        BY <2>1, <2>4, PrefixFacts
    <2>9. /\ SubSeq(held, 1, ui.back) \in Seq(Screens) /\ Len(SubSeq(held, 1, ui.back)) = ui.back
          /\ \A i \in 1..ui.back : SubSeq(held, 1, ui.back)[i] = held[i]
        BY <2>1, <2>4, PrefixFacts
    <2>10. SubSeq(ui.stack, 1, ui.back) = SubSeq(held, 1, ui.back)
        BY <2>3, <2>8, <2>9, SeqEqual
    <2> QED BY <2>3, <2>7, <2>10
<1>2. HeldInv => [BackHeld /\ held # << >> => Returned]_vars
    <2> HIDE DEF Returned
    <2> QED BY <1>1
<1> QED BY <1>2, HeldAlways, PTL DEF BackHoldReturns, Returned
=============================================================================
