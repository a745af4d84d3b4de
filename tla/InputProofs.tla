---------------------------- MODULE InputProofs -----------------------------
(***************************************************************************)
(* Theorems about the path of a key, for any clock, thresholds, queue      *)
(* lengths, texts and bounds: types, holds across the wrap of the clock,   *)
(* what one press of the power key sends, what the host believes is down,  *)
(* that a connection starts idle, what may move with no key down, and what *)
(* a long press leaves.                                                    *)
(***************************************************************************)
EXTENDS InputProperties, TLAPS

\* The clock shows the age of a press, modulo its wrap.
HoldInv ==
    /\ pad.key # NoKey => /\ pad.age <= LongestHold
                          /\ clock = (pad.start + pad.age) % Wrap
                          /\ pad.long <=> pad.age >= LongPress

\* What the worker may be in the middle of: only a text has characters left.
WorkerOK == worker \in WorkerType /\ (worker.left > 0 => profile = "text")
QueueOK == queue \in Seq(Message) /\ Len(queue) <= Cap
HostSideOK ==
    mouse \in Mouse /\ link \in [up : BOOLEAN, on : BOOLEAN] /\ host \subseteq Things /\ budget \in Nat

InputInv == InputTypeOK /\ HoldInv /\ WorkerOK

\* The UI queue is ordered by press; a press comes before what follows from it.
EventsOrdered ==
    \A i \in 1..Len(uiQ) :
        /\ uiQ[i].press <= pad.press
        /\ uiQ[i].press = pad.press /\ pad.key # NoKey => uiQ[i].key = pad.key
        /\ \A j \in 1..Len(uiQ) : i < j =>
              /\ uiQ[i].press <= uiQ[j].press
              /\ uiQ[j].kind = "press" => uiQ[i].press < uiQ[j].press
              /\ uiQ[i].press = uiQ[j].press => uiQ[i].key = uiQ[j].key
\* What was asked for came from presses no later than those still queued.
TapsPrecede ==
    \A t \in taps :
        /\ t.press <= pad.press
        /\ t.long => profile = "firetv"
        /\ t.long /\ t.press = pad.press /\ pad.key # NoKey => pad.key = "power"
        /\ \A i \in 1..Len(uiQ) :
              /\ t.press <= uiQ[i].press
              /\ uiQ[i].kind = "press" => t.press < uiQ[i].press
              /\ t.long /\ t.press = uiQ[i].press => uiQ[i].key = "power"
\* While the power key is pending, its press has asked for nothing.
PendingAskedNothing ==
    ui.bt_power_pending =>
        /\ profile = "firetv"
        /\ \A t \in taps :
              /\ pad.key = "power" => t.press # pad.press
              /\ \A i \in 1..Len(uiQ) : uiQ[i].key = "power" => t.press # uiQ[i].press
PowerInv == EventsOrdered /\ TapsPrecede /\ PendingAskedNothing /\ PowerSendsOne

-----------------------------------------------------------------------------
(* The keypad.                                                             *)

LEMMA ModWrap ==
    ASSUME NEW n \in 0..(2 * Wrap - 1)
    PROVE  n % Wrap = IF n < Wrap THEN n ELSE n - Wrap
  BY KeypadAssumption

LEMMA NextTick ==
    ASSUME NEW c \in 0..(Wrap - 1)
    PROVE  /\ (c + 1) % Wrap = IF c + 1 < Wrap THEN c + 1 ELSE c + 1 - Wrap
           /\ (c + 1) % Wrap \in 0..(Wrap - 1)
<1>1. Wrap \in Nat \ {0} /\ c + 1 \in 0..(2 * Wrap - 1)
  BY KeypadAssumption
<1>2. (c + 1) % Wrap = IF c + 1 < Wrap THEN c + 1 ELSE c + 1 - Wrap
  BY <1>1, ModWrap
<1> QED
  BY <1>1, <1>2

LEMMA AgeIsShown ==
    ASSUME NEW start \in 0..(Wrap - 1), NEW age \in Nat, age + 1 < Wrap, NEW c,
           c = (start + age) % Wrap
    PROVE  /\ (c + 1) % Wrap = (start + age + 1) % Wrap
           /\ (c + 1) % Wrap \in 0..(Wrap - 1)
           /\ Since((c + 1) % Wrap, start) = age + 1
<1>1. Wrap \in Nat \ {0}
  BY KeypadAssumption
<1>2. c = IF start + age < Wrap THEN start + age ELSE start + age - Wrap
  BY <1>1, ModWrap
<1>3. c \in 0..(Wrap - 1)
  BY <1>1, <1>2
<1>4. (c + 1) % Wrap = IF c + 1 < Wrap THEN c + 1 ELSE c + 1 - Wrap
  BY <1>3, NextTick
<1>5. (start + age + 1) % Wrap = IF start + age + 1 < Wrap THEN start + age + 1 ELSE start + age + 1 - Wrap
  BY <1>1, ModWrap
<1>6. (c + 1) % Wrap = (start + age + 1) % Wrap
  BY <1>1, <1>2, <1>4, <1>5
<1>7. ((c + 1) % Wrap) + Wrap - start \in 0..(2 * Wrap - 1)
  BY <1>1, <1>2, <1>4
<1>8. Since((c + 1) % Wrap, start) = age + 1
  <2> DEFINE n == ((c + 1) % Wrap) + Wrap - start
  <2>1. n % Wrap = IF n < Wrap THEN n ELSE n - Wrap
    BY <1>7, ModWrap
  <2>2. n = IF c + 1 < Wrap THEN c + 1 + Wrap - start ELSE c + 1 - start
    BY <1>1, <1>3, <1>4
  <2>3. n = age + 1 \/ n = age + 1 + Wrap
    BY <1>1, <1>2, <2>2
  <2>4. n % Wrap = age + 1
    BY <1>1, <2>1, <2>3
  <2> QED
    BY <2>4 DEF Since
<1> QED
  BY <1>3, <1>6, <1>8, NextTick

LEMMA EmitType ==
    ASSUME KeypadTypeOK, NEW events \in Seq(UiEvent), Emit(events)
    PROVE  uiQ' \in Seq(UiEvent) /\ Len(uiQ') <= UiCap /\ lost' \subseteq EventKinds
<1> DEFINE all == uiQ \o events
           fit == IF Len(all) < UiCap THEN Len(all) ELSE UiCap
<1>1. /\ all \in Seq(UiEvent) /\ Len(all) \in Nat
      /\ \A i \in 1..Len(all) : all[i] \in UiEvent
  BY DEF KeypadTypeOK
<1>2. fit \in 0..Len(all) /\ fit <= UiCap
  BY <1>1, KeypadAssumption
<1>3. uiQ' = SubSeq(all, 1, fit) /\ lost' = lost \cup {all[i].kind : i \in (fit + 1)..Len(all)}
  BY DEF Emit
<1> HIDE DEF all, fit
<1>4. SubSeq(all, 1, fit) \in Seq(UiEvent) /\ Len(SubSeq(all, 1, fit)) = fit
  BY <1>1, <1>2
<1>5. \A i \in (fit + 1)..Len(all) : all[i].kind \in EventKinds
  BY <1>1, <1>2 DEF UiEvent
<1> QED
  BY <1>2, <1>3, <1>4, <1>5 DEF KeypadTypeOK

LEMMA ChangedKeeps ==
    ASSUME KeypadTypeOK, NEW k \in Keys \cup {NoKey}, NEW now \in 0..(Wrap - 1), Changed(k, now),
           clock' = now
    PROVE  KeypadTypeOK' /\ HoldInv'
<1> DEFINE press == IF k = NoKey THEN pad.press ELSE pad.press + 1
           p == [key |-> k, start |-> now, repeated |-> now, long |-> FALSE, age |-> 0, press |-> press]
           Told(kind, key, age, n) ==
            IF key = NoKey THEN << >>
            ELSE <<[kind |-> kind, key |-> key, at |-> now, age |-> age, press |-> n]>>
           events == Told("release", pad.key, pad.age + 1, pad.press) \o Told("press", k, 0, p.press)
<1>1. pad \in PadType
  BY DEF KeypadTypeOK
<1>2. press \in Nat
  BY <1>1 DEF PadType
<1>3. p \in PadType
  BY <1>2 DEF PadType
<1>4. pad' = p /\ Emit(events)
  BY DEF Changed
<1>5. ASSUME NEW kind \in EventKinds, NEW key \in Keys \cup {NoKey}, NEW age \in Nat, NEW n \in Nat
      PROVE  Told(kind, key, age, n) \in Seq(UiEvent)
  <2>1. CASE key = NoKey
    BY <2>1
  <2>2. CASE key # NoKey
    <3>1. [kind |-> kind, key |-> key, at |-> now, age |-> age, press |-> n] \in UiEvent
      BY <1>5, <2>2 DEF UiEvent
    <3> QED
      BY <2>2, <3>1
  <2> QED
    BY <2>1, <2>2
<1>6. /\ Told("release", pad.key, pad.age + 1, pad.press) \in Seq(UiEvent)
      /\ Told("press", k, 0, p.press) \in Seq(UiEvent)
  BY <1>1, <1>2, <1>5 DEF PadType, EventKinds
<1>7. events \in Seq(UiEvent)
  BY <1>6
<1> HIDE DEF events
<1>8. KeypadTypeOK'
  BY <1>3, <1>4, <1>7, EmitType DEF KeypadTypeOK
<1>9. now % Wrap = now
  BY ModWrap, KeypadAssumption
<1> QED
  BY <1>4, <1>8, <1>9, KeypadAssumption DEF HoldInv

LEMMA HeldKeeps ==
    ASSUME KeypadTypeOK, HoldInv, pad.key # NoKey, NEW now, now = (clock + 1) % Wrap,
           clock' = now, Held(now)
    PROVE  KeypadTypeOK' /\ HoldInv'
<1> DEFINE Told(kind, age) == <<[kind |-> kind, key |-> pad.key, at |-> now, age |-> age, press |-> pad.press]>>
           hold == LongDue(pad, now)
           repeat == RepeatDue(pad, now)
           long == pad.long \/ hold
           repeated == IF repeat THEN now ELSE pad.repeated
           events == (IF hold /\ pad.key \in LongKeys THEN Told("hold", pad.age + 1) ELSE << >>)
                     \o (IF repeat THEN Told("repeat", pad.age + 1) ELSE << >>)
<1>1. /\ pad.key \in Keys /\ pad.start \in 0..(Wrap - 1) /\ pad.age \in Nat /\ pad.press \in Nat
      /\ pad.long \in BOOLEAN /\ pad.repeated \in 0..(Wrap - 1)
  BY DEF KeypadTypeOK, PadType
<1>2. /\ pad.age < LongestHold /\ Emit(events)
      /\ pad' = [pad EXCEPT !.age = @ + 1, !.long = long, !.repeated = repeated]
  BY DEF Held
<1>3. /\ pad.age + 1 < Wrap /\ pad.age + 1 <= LongestHold
      /\ {Wrap, LongPress, LongestHold} \subseteq Nat
  BY <1>1, <1>2, KeypadAssumption
<1>4. /\ now = (pad.start + pad.age + 1) % Wrap /\ now \in 0..(Wrap - 1)
      /\ Since(now, pad.start) = pad.age + 1
  BY <1>1, <1>3, AgeIsShown DEF HoldInv
<1>5. Told("hold", pad.age + 1) \in Seq(UiEvent) /\ Told("repeat", pad.age + 1) \in Seq(UiEvent)
  <2>1. \A kind \in EventKinds :
            [kind |-> kind, key |-> pad.key, at |-> now, age |-> pad.age + 1, press |-> pad.press] \in UiEvent
    BY <1>1, <1>4 DEF UiEvent
  <2> QED
    BY <2>1 DEF EventKinds
<1> HIDE DEF Told
<1>6. events \in Seq(UiEvent)
  BY <1>5
<1> HIDE DEF events
<1>7. long \in BOOLEAN /\ (long <=> pad.age + 1 >= LongPress)
  <2>1. hold <=> ~pad.long /\ pad.age + 1 >= LongPress
    BY <1>4 DEF LongDue
  <2>2. pad.long => pad.age + 1 >= LongPress
    BY <1>1, <1>3 DEF HoldInv
  <2> QED
    BY <2>1, <2>2
<1>8. repeated \in 0..(Wrap - 1)
  BY <1>1, <1>4
<1> HIDE DEF long, repeated
<1>9. PICK l \in BOOLEAN, r \in 0..(Wrap - 1), a \in Nat : l = long /\ r = repeated /\ a = pad.age + 1
  BY <1>1, <1>7, <1>8
<1>10. pad' = [pad EXCEPT !.age = a, !.long = l, !.repeated = r]
  BY <1>2, <1>9
<1>11. /\ pad' \in PadType
       /\ pad'.key = pad.key /\ pad'.start = pad.start /\ pad'.age = a /\ pad'.long = l
  BY <1>10 DEF KeypadTypeOK, PadType
<1>12. KeypadTypeOK'
  BY <1>2, <1>4, <1>6, <1>11, EmitType DEF KeypadTypeOK
<1>13. l <=> a >= LongPress
  BY <1>7, <1>9
<1> QED
  BY <1>1, <1>3, <1>4, <1>9, <1>11, <1>12, <1>13 DEF HoldInv

LEMMA ScanKeeps ==
    ASSUME KeypadTypeOK, HoldInv, NEW k \in Keys \cup {NoKey}, Scan(k)
    PROVE  KeypadTypeOK' /\ HoldInv'
<1> DEFINE now == IF pad.key = NoKey THEN Wrap - 1 ELSE (clock + 1) % Wrap
<1>1. clock' = now
  BY DEF Scan
<1>2. now \in 0..(Wrap - 1)
  <2>1. Wrap - 1 \in 0..(Wrap - 1) /\ clock \in 0..(Wrap - 1)
    BY KeypadAssumption DEF KeypadTypeOK
  <2>2. (clock + 1) % Wrap \in 0..(Wrap - 1)
    BY <2>1, NextTick
  <2> QED
    BY <2>1, <2>2
<1>3. CASE k # pad.key /\ Changed(k, now)
  BY <1>1, <1>2, <1>3, ChangedKeeps
<1>4. CASE k = pad.key /\ k # NoKey /\ Held(now)
  BY <1>1, <1>4, HeldKeeps
<1> QED
  BY <1>3, <1>4 DEF Scan

LEMMA KeypadStays ==
    ASSUME KeypadTypeOK, HoldInv, UNCHANGED keypadVars
    PROVE  KeypadTypeOK' /\ HoldInv'
  BY DEF KeypadTypeOK, HoldInv, keypadVars

LEMMA UiTakes ==
    ASSUME KeypadTypeOK, HoldInv, Takes
    PROVE  KeypadTypeOK' /\ HoldInv' /\ Event \in UiEvent
<1>1. uiQ \in Seq(UiEvent) /\ uiQ # << >> /\ Len(uiQ) <= UiCap /\ UiCap \in Nat
  BY KeypadAssumption DEF KeypadTypeOK, Takes
<1>2. Tail(uiQ) \in Seq(UiEvent) /\ Len(Tail(uiQ)) <= UiCap /\ Head(uiQ) \in UiEvent
  BY <1>1
<1> QED
  BY <1>2 DEF KeypadTypeOK, HoldInv, Takes, Event

-----------------------------------------------------------------------------
(* The mouse and the messages.                                             *)

LEMMA OneReport ==
    ASSUME NEW m \in Mouse, NEW button \in Buttons
    PROVE  /\ Silently(m).mouse \in Mouse /\ Silently(m).reports \in Seq(SUBSET Things)
           /\ Reporting(m).mouse \in Mouse /\ Reporting(m).reports \in Seq(SUBSET Things)
           /\ Click(m, button).mouse \in Mouse /\ Click(m, button).reports \in Seq(SUBSET Things)
<1>1. m.buttons \in SUBSET Things /\ m.buttons \cup {button} \in SUBSET Things
  BY DEF Mouse, Things
<1> QED
  BY <1>1 DEF Silently, Reporting, Click

LEMMA PatternType ==
    ASSUME NEW m \in Mouse, NEW key \in Keys, NEW input \in EventKinds, NEW at \in 0..(Wrap - 1)
    PROVE  /\ PatternInput(m, key, input, at).mouse \in Mouse
           /\ PatternInput(m, key, input, at).reports \in Seq(SUBSET Things)
<1> DEFINE pressed == IF "left" \in m.buttons THEN m.buttons \ {"left"} ELSE m.buttons \cup {"left"}
           stopped == IF EndsPattern(m, at) THEN None ELSE m.movement
<1>1. "left" \in Buttons
  BY DEF Buttons
<1>2. CASE key = "ok" /\ input = "press"
  <2>1. pressed \subseteq Buttons
    BY <1>1 DEF Mouse
  <2> HIDE DEF pressed
  <2>2. [m EXCEPT !.buttons = pressed] \in Mouse
    BY <2>1 DEF Mouse
  <2>3. PatternInput(m, key, input, at) = Reporting([m EXCEPT !.buttons = pressed])
    <3>1. [m EXCEPT !.buttons = IF "left" \in @ THEN @ \ {"left"} ELSE @ \cup {"left"}]
              = [m EXCEPT !.buttons = pressed]
      BY DEF pressed, Mouse
    <3>2. PatternInput(m, key, input, at)
              = Reporting([m EXCEPT !.buttons = IF "left" \in @ THEN @ \ {"left"} ELSE @ \cup {"left"}])
      BY <1>2 DEF PatternInput, PatternKeys, Directions
    <3> QED
      BY <3>1, <3>2
  <2> QED
    BY <1>1, <2>2, <2>3, OneReport
<1>3. CASE key \in PatternKeys /\ input = "press"
  <2>1. PICK same \in BOOLEAN : same = (m.movement = key)
    OBVIOUS
  <2>2. StartPattern(m, key, at) =
            [m EXCEPT !.pattern = key, !.at = at, !.same = same, !.momentary = FALSE,
                      !.movement = IF same THEN None ELSE key]
    BY <2>1 DEF StartPattern
  <2>3. StartPattern(m, key, at) \in Mouse
    BY <1>3, <2>2 DEF Mouse
  <2>4. PatternInput(m, key, input, at) = Silently(StartPattern(m, key, at))
    BY <1>3 DEF PatternInput, PatternKeys, Directions
  <2> QED
    BY <1>1, <2>3, <2>4, OneReport
<1>4. CASE key \in PatternKeys /\ key = m.pattern /\ input = "hold"
  <2>1. [m EXCEPT !.momentary = TRUE, !.movement = key] \in Mouse
    BY <1>4 DEF Mouse
  <2>2. PatternInput(m, key, input, at) = Silently([m EXCEPT !.momentary = TRUE, !.movement = key])
    BY <1>4 DEF PatternInput
  <2> QED
    BY <1>1, <2>1, <2>2, OneReport
<1>5. CASE key \in PatternKeys /\ key = m.pattern /\ input = "release"
  <2>1. stopped \in PatternKeys \cup {None}
    BY DEF Mouse
  <2> HIDE DEF stopped
  <2>2. [m EXCEPT !.pattern = None, !.movement = stopped] \in Mouse
    BY <2>1 DEF Mouse
  <2>3. PatternInput(m, key, input, at) = Silently([m EXCEPT !.pattern = None, !.movement = stopped])
    BY <1>5 DEF PatternInput, stopped
  <2> QED
    BY <1>1, <2>2, <2>3, OneReport
<1>6. CASE /\ ~(key = "ok" /\ input = "press") /\ ~(key \in PatternKeys /\ input = "press")
           /\ ~(key \in PatternKeys /\ key = m.pattern /\ input \in {"hold", "release"})
  <2>1. PatternInput(m, key, input, at) = Silently(m)
    BY <1>6 DEF PatternInput
  <2> QED
    BY <1>1, <2>1, OneReport
<1> QED
  BY <1>2, <1>3, <1>4, <1>5, <1>6

LEMMA OkType ==
    ASSUME NEW m \in Mouse, NEW input \in EventKinds
    PROVE  OkInput(m, input).mouse \in Mouse /\ OkInput(m, input).reports \in Seq(SUBSET Things)
<1>1. "left" \in Buttons
  BY DEF Buttons
<1>2. CASE input = "press"
  <2>1. [m EXCEPT !.okPending = TRUE, !.okLong = FALSE] \in Mouse
    BY DEF Mouse
  <2> QED
    BY <1>1, <1>2, <2>1, OneReport DEF OkInput
<1>3. CASE input = "hold" /\ m.okPending
  <2>1. m.buttons \cup {"left"} \subseteq Buttons
    BY <1>1 DEF Mouse
  <2>2. [m EXCEPT !.okLong = TRUE, !.buttons = m.buttons \cup {"left"}] \in Mouse
    BY <2>1 DEF Mouse
  <2> QED
    BY <1>1, <1>3, <2>2, OneReport DEF OkInput
<1>4. CASE input = "release" /\ m.okPending
  <2> DEFINE done == [m EXCEPT !.okPending = FALSE]
             dropped == [done EXCEPT !.buttons = m.buttons \ {"left"}]
  <2>1. done \in Mouse /\ done.buttons = m.buttons
    BY DEF Mouse
  <2>2. m.buttons \ {"left"} \subseteq Buttons
    BY DEF Mouse
  <2>3. dropped \in Mouse
    BY <2>1, <2>2 DEF Mouse
  <2>4. OkInput(m, input) \in {Silently(done), Reporting(dropped), Click(done, "left")}
    BY <1>4, <2>1 DEF OkInput
  <2> HIDE DEF done, dropped
  <2> QED
    BY <1>1, <2>1, <2>3, <2>4, OneReport
<1>5. CASE ~(input = "press") /\ ~(input \in {"hold", "release"} /\ m.okPending)
  <2>1. OkInput(m, input) = Silently(m)
    BY <1>5 DEF OkInput
  <2> QED
    BY <1>1, <2>1, OneReport
<1> QED
  BY <1>2, <1>3, <1>4, <1>5

LEMMA MappedType ==
    ASSUME NEW m \in Mouse, NEW key \in Keys, NEW input \in EventKinds
    PROVE  /\ MappedInput(m, key, input).mouse \in Mouse
           /\ MappedInput(m, key, input).reports \in Seq(SUBSET Things)
<1>1. "middle" \in Buttons
  BY DEF Buttons
<1>2. CASE key = "ok"
  <2>1. MappedInput(m, key, input) = OkInput(m, input)
    BY <1>2 DEF MappedInput, Directions
  <2> QED
    BY <2>1, OkType
<1>3. CASE key \in Directions
  <2>1. [m EXCEPT !.movement = key] \in Mouse /\ [m EXCEPT !.movement = None] \in Mouse
    BY <1>3 DEF Mouse, PatternKeys
  <2>2. DirectionInput(m, key, input) \in
            {Silently([m EXCEPT !.movement = key]), Silently([m EXCEPT !.movement = None]), Silently(m)}
    BY DEF DirectionInput
  <2>3. MappedInput(m, key, input) = DirectionInput(m, key, input)
    BY <1>3 DEF MappedInput, Directions
  <2> QED
    BY <1>1, <2>1, <2>2, <2>3, OneReport
<1>4. CASE key # "ok" /\ key \notin Directions
  <2>1. MappedInput(m, key, input) \in {Reporting(m), Click(m, "middle"), Silently(m)}
    BY <1>4 DEF MappedInput
  <2> QED
    BY <1>1, <2>1, OneReport
<1> QED
  BY <1>2, <1>3, <1>4

LEMMA IdleType == Idle \in Mouse
  BY KeypadAssumption DEF Idle, Mouse

LEMMA MsgType ==
    ASSUME InputTypeOK, NEW type, NEW input, NEW flag \in BOOLEAN,
           \/ type \in {"MOUSE", "TAP"} /\ input \in Input
           \/ type \in MessageTypes \ {"MOUSE", "TAP"} /\ input = None
    PROVE  Msg(type, input, flag) \in Message
<1>1. generation \in Nat /\ worker.run \in Nat
  BY DEF InputTypeOK, WorkerType
<1> QED
  BY <1>1 DEF Msg, Message

LEMMA NoMessageType == NoMessage \in Message
  BY DEF NoMessage, Message, MessageTypes

LEMMA FlagType == \A m \in Message : \E flag \in BOOLEAN : flag = m.flag
  BY DEF Message

LEMMA CarriedType ==
    ASSUME NEW e \in UiEvent
    PROVE  Carried(e) \in Input
<1>1. 0 \in 0..(Wrap - 1)
  BY KeypadAssumption
<1> QED
  BY <1>1 DEF Carried, Input, UiEvent

LEMMA Queued ==
    ASSUME InputTypeOK, NEW m \in Message, Room
    PROVE  Append(queue, m) \in Seq(Message) /\ Len(Append(queue, m)) <= Cap
  BY InputAssumption DEF InputTypeOK, Room

LEMMA Receiving ==
    ASSUME InputTypeOK, Receives
    PROVE  Received \in Message /\ QueueOK'
<1>1. queue \in Seq(Message) /\ queue # << >> /\ Len(queue) <= Cap /\ Cap \in Nat
  BY InputAssumption DEF InputTypeOK, Receives
<1>2. Tail(queue) \in Seq(Message) /\ Len(Tail(queue)) <= Cap /\ Head(queue) \in Message
  BY <1>1
<1> QED
  BY <1>2 DEF Receives, Received, QueueOK

LEMMA InputOfMouse ==
    ASSUME NEW m \in Message, m.type \in {"MOUSE", "TAP"}
    PROVE  m.input \in Input /\ m.input.key \in Keys /\ m.input.kind \in EventKinds /\ m.input.at \in 0..(Wrap - 1)
  BY DEF Message, Input

-----------------------------------------------------------------------------
(* The keypad, the screen and the host.                                    *)

LEMMA Spent ==
    ASSUME budget \in Nat, Spend \/ UNCHANGED budget
    PROVE  budget' \in Nat
  BY DEF Spend

LEMMA KeyKeeps == InputInv /\ Key => InputInv'
<1> SUFFICES ASSUME InputInv, Key PROVE InputInv'
  OBVIOUS
<1>1. PICK k \in Used[profile] \cup {NoKey} : Scan(k)
  BY DEF Key
<1>2. Used[profile] \subseteq Keys
  BY InputAssumption DEF InputInv, InputTypeOK
<1>3. KeypadTypeOK' /\ HoldInv'
  BY <1>1, <1>2, ScanKeeps DEF InputInv, InputTypeOK
<1>4. budget' \in Nat
  BY Spent DEF Key, InputInv, InputTypeOK
<1>5. UNCHANGED <<profile, ui, generation, queue, worker, mouse, link, host, deaf, taps>>
  BY DEF Key
<1> QED
  BY <1>3, <1>4, <1>5 DEF InputInv, InputTypeOK, WorkerOK

LEMMA UiKeeps ==
    ASSUME InputInv, KeypadTypeOK', HoldInv', ui' \in UiType, generation' \in Nat, QueueOK',
           taps' \subseteq [press : Nat, long : BOOLEAN],
           UNCHANGED <<profile, worker, mouse, link, host, deaf, budget>>
    PROVE  InputInv'
  BY DEF InputInv, InputTypeOK, WorkerOK, QueueOK

LEMMA TapKeeps ==
    ASSUME InputInv, Takes, NEW long \in BOOLEAN, NEW u \in UiType, Tap(long, u)
    PROVE  InputInv'
<1>1. KeypadTypeOK' /\ HoldInv' /\ Event \in UiEvent
  BY UiTakes DEF InputInv, InputTypeOK
<1>2. Msg("TAP", Carried(Event), long) \in Message
  BY <1>1, CarriedType, MsgType DEF InputInv
<1>3. QueueOK'
  <2>1. CASE Reports /\ Room
    BY <1>2, <2>1, Queued DEF Tap, QueueOK, InputInv
  <2>2. CASE ~(Reports /\ Room)
    BY <2>2 DEF Tap, QueueOK, InputInv, InputTypeOK
  <2> QED
    BY <2>1, <2>2
<1>4. taps' \subseteq [press : Nat, long : BOOLEAN]
  BY <1>1 DEF Tap, InputInv, InputTypeOK, UiEvent
<1> QED
  BY <1>1, <1>3, <1>4, UiKeeps DEF Tap, InputInv, InputTypeOK

LEMMA UiTurnKeeps == InputInv /\ UiTurn => InputInv'
<1> SUFFICES ASSUME InputInv, UiTurn PROVE InputInv'
  OBVIOUS
<1>1. /\ QueueOK /\ ui \in UiType /\ generation \in Nat /\ KeypadTypeOK /\ HoldInv
      /\ taps \subseteq [press : Nat, long : BOOLEAN] /\ InputTypeOK
  BY DEF InputInv, InputTypeOK, QueueOK
<1>2. ASSUME UNCHANGED queue PROVE QueueOK'
  BY <1>1, <1>2 DEF QueueOK
<1>3. NextGeneration \in Nat
  BY <1>1 DEF NextGeneration
<1>4. /\ [ui EXCEPT !.screen = "remote", !.bt_power_pending = FALSE] \in UiType
      /\ [ui EXCEPT !.screen = "menu", !.bt_power_pending = FALSE, !.releasing = TRUE] \in UiType
      /\ [ui EXCEPT !.releasing = FALSE] \in UiType /\ [ui EXCEPT !.releasing = TRUE] \in UiType
      /\ [ui EXCEPT !.bt_power_pending = TRUE] \in UiType /\ [ui EXCEPT !.bt_power_pending = FALSE] \in UiType
  BY <1>1 DEF UiType
<1>5. ASSUME Takes PROVE KeypadTypeOK' /\ HoldInv' /\ Event \in UiEvent
  BY <1>1, <1>5, UiTakes
<1>6. CASE EnterRemote
  BY <1>1, <1>2, <1>4, <1>5, <1>6, UiKeeps DEF EnterRemote, Mode
<1>7. CASE LeaveRemote
  BY <1>1, <1>2, <1>3, <1>4, <1>5, <1>7, UiKeeps DEF LeaveRemote, Mode
<1>8. CASE QueueRelease
  <2>1. KeypadTypeOK' /\ HoldInv'
    BY <1>1, <1>8, KeypadStays DEF QueueRelease, keypadVars
  <2>2. Msg("RELEASE", None, FALSE) \in Message
    BY <1>1, MsgType DEF MessageTypes
  <2>3. QueueOK'
    BY <1>1, <1>2, <1>8, <2>2, Queued DEF QueueRelease, QueueOK
  <2> QED
    BY <1>1, <1>4, <1>8, <2>1, <2>3, UiKeeps DEF QueueRelease
<1>9. CASE MouseInput
  <2>1. Takes
    BY <1>9 DEF MouseInput
  <2>2. Msg("MOUSE", Carried(Event), FALSE) \in Message
    BY <1>1, <1>5, <2>1, CarriedType, MsgType
  <2>3. CASE Room
    <3>1. QueueOK' /\ UNCHANGED <<ui, generation>>
      BY <1>1, <1>9, <2>2, <2>3, Queued DEF MouseInput, QueueOK
    <3> QED
      BY <1>1, <1>5, <1>9, <2>1, <3>1, UiKeeps DEF MouseInput
  <2>4. CASE ~Room
    <3>1. QueueOK' /\ ui' \in UiType /\ generation' \in Nat
      BY <1>2, <1>3, <1>4, <1>9, <2>4 DEF MouseInput
    <3> QED
      BY <1>1, <1>5, <1>9, <2>1, <3>1, UiKeeps DEF MouseInput
  <2> QED
    BY <2>3, <2>4
<1>10. CASE IgnoredEvent
  BY <1>1, <1>2, <1>5, <1>10, UiKeeps DEF IgnoredEvent, inputVars
<1>11. CASE PowerPressed
  BY <1>1, <1>2, <1>4, <1>5, <1>11, UiKeeps DEF PowerPressed, TypesKey
<1>12. CASE PowerTapped
  <2>1. PICK long \in BOOLEAN : long = (Event.kind = "hold")
    OBVIOUS
  <2>2. Takes /\ Tap(long, PowerSent) /\ PowerSent \in UiType
    BY <1>4, <1>12, <2>1 DEF PowerTapped, TypesKey, PowerSent
  <2> QED
    BY <2>2, TapKeeps
<1>13. CASE KeyTapped
  BY <1>1, <1>13, TapKeeps DEF KeyTapped, TypesKey
<1> QED
  BY <1>6, <1>7, <1>8, <1>9, <1>10, <1>11, <1>12, <1>13 DEF UiTurn

LEMMA HostKeeps == InputInv /\ Host => InputInv'
<1> SUFFICES ASSUME InputInv, Host PROVE InputInv'
  OBVIOUS
<1>1. /\ InputTypeOK /\ KeypadTypeOK /\ HoldInv /\ WorkerOK /\ QueueOK
      /\ link \in [up : BOOLEAN, on : BOOLEAN] /\ host \subseteq Things /\ deaf \in BOOLEAN /\ budget \in Nat
  BY DEF InputInv, InputTypeOK, QueueOK
<1>2. ASSUME Around, QueueOK', link' \in [up : BOOLEAN, on : BOOLEAN], host' \subseteq Things,
             deaf' \in BOOLEAN, Spend \/ UNCHANGED budget
      PROVE  InputInv'
  <2>1. KeypadTypeOK' /\ HoldInv'
    BY <1>1, <1>2, KeypadStays DEF Around
  <2>2. budget' \in Nat
    BY <1>1, <1>2, Spent
  <2>3. UNCHANGED <<profile, ui, generation, worker, mouse, taps>>
    BY <1>2 DEF Around
  <2> QED
    BY <1>2, <2>1, <2>2, <2>3 DEF InputInv, InputTypeOK, WorkerOK, QueueOK
<1>3. ASSUME NEW type \in {"READY", "WRITE", "SUSPEND", "DISCONNECTED"}, NEW flag \in BOOLEAN, Tells(type, flag)
      PROVE  QueueOK'
  <2>1. Msg(type, None, flag) \in Message
    BY <1>1, <1>3, MsgType DEF MessageTypes
  <2> QED
    BY <1>1, <1>3, <2>1, Queued DEF Tells, QueueOK
<1>4. CASE LinkLost
  <2>1. QueueOK'
    BY <1>3, <1>4 DEF LinkLost
  <2> QED
    BY <1>1, <1>2, <1>4, <2>1 DEF LinkLost
<1>5. CASE HostReturns
  <2>1. QueueOK'
    BY <1>3, <1>5 DEF HostReturns
  <2> QED
    BY <1>1, <1>2, <1>5, <2>1 DEF HostReturns
<1>6. CASE Subscribes
  <2>1. QueueOK'
    BY <1>3, <1>6 DEF Subscribes
  <2>2. link' \in [up : BOOLEAN, on : BOOLEAN]
    BY <1>1, <1>6 DEF Subscribes
  <2>3. deaf' \in BOOLEAN
    BY <1>1, <1>6 DEF Subscribes
  <2> QED
    BY <1>1, <1>2, <1>6, <2>1, <2>2, <2>3 DEF Subscribes
<1>7. CASE Suspends
  <2>1. QueueOK'
    BY <1>3, <1>7 DEF Suspends
  <2> QED
    BY <1>1, <1>2, <1>7, <2>1 DEF Suspends
<1> QED
  BY <1>4, <1>5, <1>6, <1>7 DEF Host

-----------------------------------------------------------------------------
(* The worker.                                                             *)

\* What a step of the worker may leave behind.
StepOK == QueueOK' /\ WorkerOK' /\ HostSideOK'

LEMMA WorkerKeeps ==
    ASSUME InputInv, Calls, StepOK
    PROVE  InputInv'
<1>1. KeypadTypeOK' /\ HoldInv'
  BY KeypadStays DEF Calls, InputInv, InputTypeOK
<1>2. UNCHANGED <<profile, ui, generation, deaf, taps>>
  BY DEF Calls
<1> QED
  BY <1>1, <1>2 DEF InputInv, InputTypeOK, StepOK, QueueOK, WorkerOK, HostSideOK

LEMMA Parts ==
    ASSUME InputInv
    PROVE  /\ QueueOK /\ WorkerOK /\ HostSideOK /\ InputTypeOK
           /\ worker \in WorkerType /\ mouse \in Mouse /\ host \subseteq Things /\ budget \in Nat /\ generation \in Nat
           /\ UNCHANGED queue => QueueOK'
           /\ UNCHANGED <<mouse, link, host, budget>> => HostSideOK'
  BY DEF InputInv, InputTypeOK, QueueOK, WorkerOK, HostSideOK

LEMMA RestartType ==
    ASSUME InputInv, NEW next \in {"receive", "tail"}, Restart(next)
    PROVE  /\ worker' \in WorkerType /\ worker'.left = 0
           /\ mouse' \in Mouse /\ link' \in [up : BOOLEAN, on : BOOLEAN]
<1>1. /\ worker \in WorkerType /\ generation \in Nat /\ NoMessage \in Message
      /\ link \in [up : BOOLEAN, on : BOOLEAN] /\ TextLength \in Nat
  BY NoMessageType, InputAssumption DEF InputInv, InputTypeOK
<1>2. PICK state \in {"RECONNECTING", "ERROR"} :
        worker' = [worker EXCEPT !.at = next, !.out = << >>, !.failed = FALSE, !.left = 0, !.message = NoMessage,
                            !.run = @ + 1, !.connected = FALSE, !.subscribed = FALSE, !.suspended = FALSE,
                            !.mouse_generation = generation, !.state = state]
  BY DEF Restart
<1>3. worker.run + 1 \in Nat /\ << >> \in Seq(SUBSET Things) /\ 0 \in 0..TextLength
  BY <1>1 DEF WorkerType
<1>4. worker' \in WorkerType /\ worker'.left = 0
  BY <1>1, <1>2, <1>3 DEF WorkerType, States
<1> QED
  BY <1>1, <1>4, IdleType DEF Restart

LEMMA HostTold ==
    ASSUME InputInv, NEW report \in SUBSET Things, Delivered(report) \/ Failing \/ UNCHANGED <<host, budget>>
    PROVE  host' \subseteq Things /\ budget' \in Nat
<1>1. host \subseteq Things /\ budget \in Nat
  BY DEF InputInv, InputTypeOK
<1> QED
  BY <1>1, Spent DEF Delivered, Failing

LEMMA ReleasedType ==
    ASSUME InputInv, NEW w \in WorkerType, w.left > 0 => profile = "text", Released(w), UNCHANGED profile
    PROVE  WorkerOK' /\ HostSideOK'
<1>1. generation \in Nat /\ link \in [up : BOOLEAN, on : BOOLEAN]
  BY DEF InputInv, InputTypeOK
<1>2. worker' \in WorkerType /\ worker'.left = w.left
  BY <1>1 DEF Released, WorkerType
<1>3. host' \subseteq Things /\ budget' \in Nat
  BY HostTold DEF Released, ToldReleased
<1> QED
  BY <1>1, <1>2, <1>3, IdleType DEF Released, WorkerOK, HostSideOK

LEMMA RestartKeeps ==
    ASSUME InputInv, NEW next \in {"receive", "tail"}, Restart(next), UNCHANGED profile,
           host' \subseteq Things, budget' \in Nat
    PROVE  WorkerOK' /\ HostSideOK'
  BY RestartType DEF WorkerOK, HostSideOK

LEMMA ReleaseFailsType ==
    ASSUME InputInv, NEW next \in {"receive", "tail"}, ReleaseFails(next), UNCHANGED profile
    PROVE  WorkerOK' /\ HostSideOK'
<1>1. host' \subseteq Things /\ budget' \in Nat
  BY Spent DEF ReleaseFails, InputInv, InputTypeOK
<1> QED
  BY <1>1, RestartKeeps DEF ReleaseFails

LEMMA ReadyType ==
    ASSUME InputInv, NEW w \in WorkerType, w.left > 0 => profile = "text", Ready(w), UNCHANGED profile
    PROVE  WorkerOK' /\ HostSideOK'
<1>1. /\ generation \in Nat /\ link \in [up : BOOLEAN, on : BOOLEAN] /\ mouse \in Mouse
      /\ host \subseteq Things /\ budget \in Nat /\ w.run + 1 \in Nat
  BY DEF InputInv, InputTypeOK, WorkerType
<1>2. CASE /\ worker' = [w EXCEPT !.at = "tail", !.subscribed = link.on,
                              !.state = IF link.on THEN IF w.suspended THEN "SUSPENDED" ELSE "CONNECTED"
                                        ELSE "CONNECTING"]
           /\ mouse' = IF link.on THEN mouse ELSE Idle
           /\ UNCHANGED <<link, host, budget>>
  <2>1. worker' \in WorkerType /\ worker'.left = w.left
    BY <1>1, <1>2 DEF WorkerType, States
  <2> QED
    BY <1>1, <1>2, <2>1, IdleType DEF WorkerOK, HostSideOK
<1>3. CASE /\ Spend
           /\ worker' = [w EXCEPT !.at = "tail", !.run = @ + 1, !.connected = FALSE, !.subscribed = FALSE,
                              !.mouse_generation = generation, !.state = "ERROR"]
           /\ mouse' = Idle /\ link' = [link EXCEPT !.up = FALSE] /\ host' = {}
  <2>1. worker' \in WorkerType /\ worker'.left = w.left
    BY <1>1, <1>3 DEF WorkerType, States
  <2>2. budget' \in Nat
    BY <1>1, <1>3, Spent
  <2> QED
    BY <1>1, <1>3, <2>1, <2>2, IdleType DEF WorkerOK, HostSideOK
<1> QED
  BY <1>2, <1>3 DEF Ready

LEMMA DoneType ==
    ASSUME InputInv, NEW w \in WorkerType, w.left > 0 => profile = "text", UNCHANGED profile,
           \/ worker' = Done(w) \/ worker' = Waiting(w)
    PROVE  WorkerOK'
<1>1. /\ Done(w) \in WorkerType /\ Done(w).left = w.left
      /\ Waiting(w) \in WorkerType /\ Waiting(w).left = w.left
  BY NoMessageType DEF Done, Waiting, WorkerType
<1> QED
  BY <1>1 DEF WorkerOK

LEMMA TakeMouseKeeps == ASSUME InputInv, TakeMouse PROVE StepOK
<1> DEFINE e == Received.input
           step == IF profile = "patterns" THEN PatternInput(mouse, e.key, e.kind, e.at)
                   ELSE MappedInput(mouse, e.key, e.kind)
<1>1. /\ Received \in Message /\ Received.type = "MOUSE" /\ QueueOK'
      /\ WorkerOK /\ HostSideOK /\ UNCHANGED <<profile, link, host, budget>>
  BY Receiving, Parts DEF TakeMouse, Calls
<1>2. e.key \in Keys /\ e.kind \in EventKinds /\ e.at \in 0..(Wrap - 1)
  BY <1>1, InputOfMouse
<1>3. mouse \in Mouse
  BY <1>1 DEF HostSideOK
<1>4. step.mouse \in Mouse /\ step.reports \in Seq(SUBSET Things)
  BY <1>2, <1>3, PatternType, MappedType
<1>5. /\ worker' \in {Done(worker), [worker EXCEPT !.at = "send", !.out = step.reports, !.message = Received]}
      /\ mouse' \in {mouse, step.mouse}
  BY DEF TakeMouse
<1> HIDE DEF step, e
<1>6. WorkerOK'
  <2>1. CASE worker' = Done(worker)
    BY <1>1, <2>1, DoneType DEF WorkerOK
  <2>2. CASE worker' = [worker EXCEPT !.at = "send", !.out = step.reports, !.message = Received]
    <3>1. worker' \in WorkerType /\ worker'.left = worker.left
      BY <1>1, <1>4, <2>2 DEF WorkerOK, WorkerType
    <3> QED
      BY <1>1, <3>1 DEF WorkerOK
  <2> QED
    BY <1>5, <2>1, <2>2
<1>7. HostSideOK'
  BY <1>1, <1>4, <1>5 DEF HostSideOK
<1> QED
  BY <1>1, <1>6, <1>7 DEF StepOK

LEMMA TapReportType ==
    ASSUME NEW m \in Message, profile = "text" \/ m.type = "TAP"
    PROVE  TapReport(m) \in SUBSET Things /\ <<TapReport(m), {}>> \in Seq(SUBSET Things)
<1>1. profile # "text" => m.input.key \in Keys
  BY InputOfMouse
<1>2. TapReport(m) \in SUBSET Things
  BY <1>1 DEF TapReport, Things
<1> QED
  BY <1>2

LEMMA TakeTapKeeps == ASSUME InputInv, TakeTap PROVE StepOK
<1>1. /\ Received \in Message /\ Received.type = "TAP" /\ QueueOK'
      /\ WorkerOK /\ HostSideOK /\ UNCHANGED <<profile, mouse, link, host, budget>>
  BY Receiving, Parts DEF TakeTap, Calls
<1>2. <<TapReport(Received), {}>> \in Seq(SUBSET Things)
  BY <1>1, TapReportType
<1>3. (IF profile = "text" THEN TextLength - 1 ELSE 0) \in 0..TextLength
  BY InputAssumption
<1>4. CASE Active(Received)
  <2> DEFINE left == IF profile = "text" THEN TextLength - 1 ELSE 0
  <2>1. /\ worker' = [worker EXCEPT !.at = "send", !.out = <<TapReport(Received), {}>>, !.message = Received,
                                     !.left = left]
        /\ left \in 0..TextLength /\ (left > 0 => profile = "text")
    BY <1>3, <1>4 DEF TakeTap
  <2> HIDE DEF left
  <2>2. worker' \in WorkerType /\ worker'.left = left
    BY <1>1, <1>2, <2>1 DEF WorkerOK, WorkerType
  <2> QED
    BY <1>1, <2>1, <2>2 DEF WorkerOK, HostSideOK, StepOK
<1>5. CASE ~Active(Received)
  <2>1. WorkerOK'
    BY <1>1, <1>5, DoneType DEF TakeTap, WorkerOK
  <2> QED
    BY <1>1, <2>1 DEF HostSideOK, StepOK
<1> QED
  BY <1>4, <1>5

LEMMA OutputKeeps ==
    ASSUME InputInv, SendReport \/ NextCharacter \/ OutputDone \/ OutputFailed
    PROVE  StepOK
<1>1. /\ QueueOK' /\ WorkerOK /\ HostSideOK /\ worker \in WorkerType
      /\ UNCHANGED profile
  BY Parts DEF SendReport, NextCharacter, OutputDone, OutputFailed, Calls
<1>2. AfterOutput \in {"receive", "tail"}
  BY DEF AfterOutput
<1>3. CASE SendReport
  <2>1. worker.out \in Seq(SUBSET Things) /\ worker.out # << >>
    BY <1>1, <1>3 DEF SendReport, WorkerType
  <2>2. Head(worker.out) \in SUBSET Things /\ Tail(worker.out) \in Seq(SUBSET Things)
    BY <2>1
  <2>3. HostSideOK'
    BY <1>1, <1>3, <2>2, HostTold DEF SendReport, HostSideOK
  <2>4. worker' \in WorkerType /\ worker'.left = worker.left
    BY <1>1, <1>3, <2>2 DEF SendReport, WorkerType
  <2> QED
    BY <1>1, <2>3, <2>4 DEF WorkerOK, StepOK
<1>4. CASE NextCharacter
  <2>1. profile = "text" /\ worker.message \in Message /\ worker.left - 1 \in 0..TextLength
    BY <1>1, <1>4, InputAssumption DEF NextCharacter, WorkerOK, WorkerType
  <2>2. <<TapReport(worker.message), {}>> \in Seq(SUBSET Things)
    BY <2>1, TapReportType
  <2>3. worker' \in WorkerType
    BY <1>1, <1>4, <2>1, <2>2 DEF NextCharacter, WorkerType
  <2> QED
    BY <1>1, <1>4, <2>1, <2>3 DEF NextCharacter, WorkerOK, HostSideOK, StepOK
<1>5. CASE OutputDone
  <2>1. 0 \in 0..TextLength
    BY InputAssumption
  <2>2. worker' \in WorkerType /\ worker'.left = 0
    BY <1>1, <1>2, <1>5, <2>1, NoMessageType DEF OutputDone, WorkerType
  <2> QED
    BY <1>1, <1>5, <2>2 DEF OutputDone, WorkerOK, HostSideOK, StepOK
<1>6. CASE OutputFailed
  <2>1. Restart(AfterOutput) /\ host' = {} /\ UNCHANGED budget
    BY <1>6 DEF OutputFailed, OutputRestarts
  <2> QED
    BY <1>1, <1>2, <2>1, RestartKeeps DEF HostSideOK, StepOK
<1> QED
  BY <1>3, <1>4, <1>5, <1>6

LEMMA TakeReleaseKeeps == ASSUME InputInv, TakeRelease PROVE StepOK
<1>1. QueueOK' /\ worker \in WorkerType /\ WorkerOK /\ UNCHANGED profile
  BY Receiving, Parts DEF TakeRelease, Calls
<1>2. Done(worker) \in WorkerType /\ Done(worker).left = worker.left
  BY <1>1, NoMessageType DEF Done, WorkerType
<1> QED
  BY <1>1, <1>2, ReleasedType, ReleaseFailsType DEF TakeRelease, WorkerOK, StepOK

LEMMA LinkMessageKeeps ==
    ASSUME InputInv, TakeReady \/ TakeWrite \/ TakeSuspend \/ SuspendShown \/ TakeDisconnected \/ TakeStale
    PROVE  StepOK
<1>1. /\ QueueOK' /\ WorkerOK /\ HostSideOK /\ worker \in WorkerType /\ UNCHANGED profile
      /\ mouse \in Mouse /\ host \subseteq Things /\ budget \in Nat
  BY Receiving, Parts DEF TakeReady, TakeWrite, TakeSuspend, SuspendShown, TakeDisconnected, TakeStale, FromLink, Calls
<1>2. worker.left > 0 => profile = "text"
  BY <1>1 DEF WorkerOK
<1>3. ASSUME worker' = Done(worker), UNCHANGED <<mouse, link, host, budget>> PROVE StepOK
  BY <1>1, <1>2, <1>3, DoneType DEF HostSideOK, StepOK
<1>4. ASSUME Ready(worker) PROVE StepOK
  BY <1>1, <1>2, <1>4, ReadyType DEF StepOK
<1>5. CASE TakeReady
  <2>1. [worker EXCEPT !.connected = TRUE] \in WorkerType /\ [worker EXCEPT !.connected = TRUE].left = worker.left
    BY <1>1 DEF WorkerType
  <2> QED
    BY <1>1, <1>2, <1>5, <2>1, ReadyType DEF TakeReady, StepOK
<1>6. CASE TakeWrite
  BY <1>3, <1>4, <1>6 DEF TakeWrite
<1>7. CASE TakeSuspend
  <2> DEFINE w == [worker EXCEPT !.at = "ready", !.suspended = Received.flag]
  <2>1. PICK flag \in BOOLEAN : flag = Received.flag
    <3>1. Received \in Message
      BY <1>7, Receiving, Parts DEF TakeSuspend, FromLink
    <3> QED
      BY <3>1, FlagType
  <2>2. w \in WorkerType /\ w.left = worker.left
    <3>1. w = [worker EXCEPT !.at = "ready", !.suspended = flag]
      BY <2>1
    <3> QED
      BY <1>1, <3>1 DEF WorkerType
  <2>3. \/ Released(w)
        \/ ReleaseFails("tail")
        \/ worker' = w /\ UNCHANGED <<mouse, link, host, budget>>
    BY <1>7 DEF TakeSuspend
  <2> HIDE DEF w
  <2>4. CASE Released(w)
    BY <1>1, <1>2, <2>2, <2>4, ReleasedType DEF StepOK
  <2>5. CASE ReleaseFails("tail")
    BY <1>1, <2>5, ReleaseFailsType DEF StepOK
  <2>6. CASE worker' = w /\ UNCHANGED <<mouse, link, host, budget>>
    BY <1>1, <1>2, <2>2, <2>6 DEF WorkerOK, HostSideOK, StepOK
  <2> QED
    BY <2>3, <2>4, <2>5, <2>6
<1>8. CASE SuspendShown
  BY <1>3, <1>4, <1>8 DEF SuspendShown
<1>9. CASE TakeDisconnected
  <2>1. CASE worker.connected
    BY <1>1, <1>9, <2>1, RestartKeeps DEF TakeDisconnected, StepOK
  <2>2. CASE ~worker.connected
    BY <1>1, <1>2, <1>9, <2>2, DoneType, IdleType DEF TakeDisconnected, HostSideOK, StepOK
  <2> QED
    BY <2>1, <2>2
<1>10. CASE TakeStale
  BY <1>3, <1>10 DEF TakeStale
<1> QED
  BY <1>5, <1>6, <1>7, <1>8, <1>9, <1>10

LEMMA IterationKeeps == ASSUME InputInv, NothingReceived \/ EndIteration \/ Tick PROVE StepOK
<1>1. /\ QueueOK' /\ WorkerOK /\ HostSideOK /\ worker \in WorkerType /\ mouse \in Mouse /\ UNCHANGED profile
  BY Parts DEF NothingReceived, EndIteration, Tick, Calls
<1>2. worker.left > 0 => profile = "text"
  BY <1>1 DEF WorkerOK
<1>3. /\ Waiting(worker) \in WorkerType /\ Waiting(worker).left = worker.left
      /\ Done(worker) \in WorkerType /\ Done(worker).left = worker.left
  BY <1>1, NoMessageType DEF Waiting, Done, WorkerType
<1>4. Ticking(worker) \in WorkerType /\ Ticking(worker).left = worker.left
  <2>1. Msg("TICK", None, FALSE) \in Message
    BY Parts, MsgType DEF MessageTypes
  <2> QED
    BY <1>1, <2>1 DEF Ticking, WorkerType
<1>5. ASSUME worker' \in {Waiting(worker), Done(worker), Ticking(worker)}, UNCHANGED <<mouse, link, host, budget>>
      PROVE  StepOK
  BY <1>1, <1>2, <1>3, <1>4, <1>5 DEF WorkerOK, HostSideOK, StepOK
<1>6. CASE NothingReceived
  BY <1>5, <1>6 DEF NothingReceived
<1>7. CASE EndIteration
  <2>1. CASE Released(Waiting(worker))
    BY <1>1, <1>2, <1>3, <2>1, ReleasedType DEF StepOK
  <2>2. CASE ReleaseFails("receive")
    BY <1>1, <2>2, ReleaseFailsType DEF StepOK
  <2>3. CASE ~Released(Waiting(worker)) /\ ~ReleaseFails("receive")
    BY <1>5, <1>7, <2>3 DEF EndIteration
  <2> QED
    BY <2>1, <2>2, <2>3
<1>8. CASE Tick
  <2>1. CASE worker' = Waiting(worker)
    BY <1>5, <1>8, <2>1 DEF Tick
  <2>2. CASE worker' = [worker EXCEPT !.at = "send", !.out = <<mouse.buttons>>]
    <3>1. mouse.buttons \in SUBSET Things
      BY <1>1 DEF Mouse, Things
    <3>2. <<mouse.buttons>> \in Seq(SUBSET Things)
      BY <3>1
    <3>3. worker' \in WorkerType /\ worker'.left = worker.left
      BY <1>1, <2>2, <3>2 DEF WorkerType
    <3> QED
      BY <1>1, <1>2, <1>8, <3>3 DEF Tick, WorkerOK, HostSideOK, StepOK
  <2> QED
    BY <1>8, <2>1, <2>2 DEF Tick
<1> QED
  BY <1>6, <1>7, <1>8

LEMMA WorkerCalls == Worker => Calls
  BY DEF Worker, TakeMouse, TakeTap, SendReport, NextCharacter, OutputDone, OutputFailed, TakeRelease,
         TakeReady, TakeWrite, TakeSuspend, SuspendShown, TakeDisconnected, TakeStale,
         NothingReceived, EndIteration, Tick

LEMMA WorkerStepKeeps == InputInv /\ Worker => InputInv'
<1> SUFFICES ASSUME InputInv, Worker PROVE InputInv'
  OBVIOUS
<1>1. StepOK
  BY TakeMouseKeeps, TakeTapKeeps, OutputKeeps, TakeReleaseKeeps, LinkMessageKeeps, IterationKeeps DEF Worker
<1>2. Calls
  BY WorkerCalls
<1> QED
  BY <1>1, <1>2, WorkerKeeps

-----------------------------------------------------------------------------
(* The power key.                                                          *)

\* The i-th event a scan posts: of the press that was, or the press that begins.
OfOldPress(e) == pad.key # NoKey /\ e.kind # "press" /\ e.key = pad.key /\ e.press = pad.press
OfNewPress(e) ==
    e.kind = "press" /\ e.key = pad'.key /\ e.press = pad'.press /\ pad'.press = pad.press + 1

LEMMA Posted ==
    ASSUME KeypadTypeOK, NEW events \in Seq(UiEvent), Emit(events)
    PROVE  /\ Len(uiQ') <= Len(uiQ) + Len(events)
           /\ \A i \in 1..Len(uiQ') : uiQ'[i] = IF i <= Len(uiQ) THEN uiQ[i] ELSE events[i - Len(uiQ)]
<1> DEFINE all == uiQ \o events
           fit == IF Len(all) < UiCap THEN Len(all) ELSE UiCap
<1>1. /\ all \in Seq(UiEvent) /\ Len(all) = Len(uiQ) + Len(events) /\ Len(all) \in Nat
      /\ \A i \in 1..Len(all) : all[i] = IF i <= Len(uiQ) THEN uiQ[i] ELSE events[i - Len(uiQ)]
  BY DEF KeypadTypeOK
<1>2. fit \in 0..Len(all)
  BY <1>1, KeypadAssumption
<1>3. uiQ' = SubSeq(all, 1, fit)
  BY DEF Emit
<1> HIDE DEF all, fit
<1>4. Len(uiQ') = fit /\ \A i \in 1..fit : uiQ'[i] = all[i]
  BY <1>1, <1>2, <1>3
<1> QED
  BY <1>1, <1>2, <1>4

LEMMA Joined ==
    ASSUME NEW a \in Seq(UiEvent), NEW b \in Seq(UiEvent), Len(a) <= 1, Len(b) <= 1
    PROVE  /\ a \o b \in Seq(UiEvent) /\ Len(a \o b) = Len(a) + Len(b)
           /\ Len(a) \in 0..1 /\ Len(b) \in 0..1
           /\ \A j \in 1..Len(a \o b) : (a \o b)[j] = IF j <= Len(a) THEN a[j] ELSE b[j - Len(a)]
<1>1. Len(a) \in Nat /\ Len(b) \in Nat
  OBVIOUS
<1>2. Len(a) \in 0..1 /\ Len(b) \in 0..1
  <2>1. \A n \in Nat : n <= 1 => n \in 0..1
    OBVIOUS
  <2> QED
    BY <1>1, <2>1
<1>3. a \o b \in Seq(UiEvent) /\ Len(a \o b) = Len(a) + Len(b)
  OBVIOUS
<1>4. ASSUME NEW j \in 1..Len(a \o b)
      PROVE  (a \o b)[j] = IF j <= Len(a) THEN a[j] ELSE b[j - Len(a)]
  <2>1. j \in 1..(Len(a) + Len(b))
    BY <1>3
  <2> QED
    BY <2>1
<1> QED
  BY <1>2, <1>3, <1>4

LEMMA ScanPosts ==
    ASSUME KeypadTypeOK, NEW k \in Keys \cup {NoKey}, Scan(k)
    PROVE  /\ \/ pad'.press = pad.press /\ pad'.key \in {pad.key, NoKey}
              \/ pad'.press = pad.press + 1
           /\ \A i \in 1..Len(uiQ') :
                 IF i <= Len(uiQ) THEN uiQ'[i] = uiQ[i]
                 ELSE OfOldPress(uiQ'[i]) \/ (i = Len(uiQ') /\ OfNewPress(uiQ'[i]))
<1> DEFINE now == IF pad.key = NoKey THEN Wrap - 1 ELSE (clock + 1) % Wrap
<1>1. pad \in PadType /\ now \in 0..(Wrap - 1) /\ pad.age + 1 \in Nat /\ Len(uiQ) \in Nat
  <2>1. Wrap - 1 \in 0..(Wrap - 1) /\ clock \in 0..(Wrap - 1)
    BY KeypadAssumption DEF KeypadTypeOK
  <2>2. (clock + 1) % Wrap \in 0..(Wrap - 1)
    BY <2>1, NextTick
  <2> QED
    BY <2>1, <2>2 DEF KeypadTypeOK, PadType
<1> HIDE DEF now
<1>2. CASE k # pad.key /\ Changed(k, now)
  <2> DEFINE press == IF k = NoKey THEN pad.press ELSE pad.press + 1
             Told(kind, key, age, n) ==
                IF key = NoKey THEN << >>
                ELSE <<[kind |-> kind, key |-> key, at |-> now, age |-> age, press |-> n]>>
             old == Told("release", pad.key, pad.age + 1, pad.press)
             new == Told("press", k, 0, press)
  <2>1. Emit(old \o new) /\ pad'.key = k /\ pad'.press = press /\ press \in Nat
    BY <1>1, <1>2 DEF Changed, PadType
  <2>2. /\ old \in Seq(UiEvent) /\ Len(old) <= 1
        /\ Len(old) = 1 => OfOldPress(old[1])
    <3>1. CASE pad.key = NoKey
      BY <3>1
    <3>2. CASE pad.key # NoKey
      <4>1. [kind |-> "release", key |-> pad.key, at |-> now, age |-> pad.age + 1, press |-> pad.press] \in UiEvent
        BY <1>1, <3>2 DEF UiEvent, PadType, EventKinds
      <4> QED
        BY <3>2, <4>1 DEF OfOldPress
    <3> QED
      BY <3>1, <3>2
  <2>3. /\ new \in Seq(UiEvent) /\ Len(new) <= 1
        /\ Len(new) = 1 => OfNewPress(new[1])
    <3>1. CASE k = NoKey
      BY <3>1
    <3>2. CASE k # NoKey
      <4>1. [kind |-> "press", key |-> k, at |-> now, age |-> 0, press |-> press] \in UiEvent
        BY <1>1, <2>1, <3>2 DEF UiEvent, EventKinds
      <4> QED
        BY <2>1, <3>2, <4>1 DEF OfNewPress
    <3> QED
      BY <3>1, <3>2
  <2>4. (press = pad.press /\ k = NoKey) \/ press = pad.press + 1
    OBVIOUS
  <2> HIDE DEF old, new, press
  <2>5. /\ old \o new \in Seq(UiEvent) /\ Len(old \o new) = Len(old) + Len(new)
        /\ Len(old) \in 0..1 /\ Len(new) \in 0..1
        /\ \A j \in 1..Len(old \o new) : (old \o new)[j] = IF j <= Len(old) THEN old[j] ELSE new[j - Len(old)]
    BY <2>2, <2>3, Joined
  <2>6. \A j \in 1..Len(old \o new) :
            OfOldPress((old \o new)[j]) \/ (j = Len(old \o new) /\ OfNewPress((old \o new)[j]))
    BY <2>2, <2>3, <2>5
  <2> DEFINE events == old \o new
  <2>7. /\ events \in Seq(UiEvent) /\ Emit(events) /\ Len(events) \in 0..2
        /\ \A j \in 1..Len(events) : OfOldPress(events[j]) \/ (j = Len(events) /\ OfNewPress(events[j]))
    BY <2>1, <2>5, <2>6
  <2> HIDE DEF events
  <2>8. /\ Len(uiQ') <= Len(uiQ) + Len(events)
        /\ \A i \in 1..Len(uiQ') : uiQ'[i] = IF i <= Len(uiQ) THEN uiQ[i] ELSE events[i - Len(uiQ)]
    BY <2>7, Posted
  <2>9. Len(uiQ') \in Nat
    BY <2>7, EmitType
  <2>10. ASSUME NEW i \in 1..Len(uiQ'), ~(i <= Len(uiQ))
         PROVE  OfOldPress(uiQ'[i]) \/ (i = Len(uiQ') /\ OfNewPress(uiQ'[i]))
    <3>1. i - Len(uiQ) \in 1..Len(events) /\ uiQ'[i] = events[i - Len(uiQ)]
      BY <1>1, <2>7, <2>8, <2>9, <2>10
    <3>2. i - Len(uiQ) = Len(events) => i = Len(uiQ')
      BY <1>1, <2>7, <2>8, <2>9, <2>10
    <3> QED
      BY <2>7, <3>1, <3>2
  <2> QED
    BY <2>1, <2>4, <2>8, <2>10
<1>3. CASE k = pad.key /\ k # NoKey /\ Held(now)
  <2> DEFINE Told(kind, age) ==
                <<[kind |-> kind, key |-> pad.key, at |-> now, age |-> age, press |-> pad.press]>>
             hold == IF LongDue(pad, now) /\ pad.key \in LongKeys THEN Told("hold", pad.age + 1) ELSE << >>
             repeat == IF RepeatDue(pad, now) THEN Told("repeat", pad.age + 1) ELSE << >>
  <2>1. Emit(hold \o repeat) /\ pad'.key = pad.key /\ pad'.press = pad.press
    BY <1>1, <1>3 DEF Held, PadType
  <2>2. \A kind \in {"hold", "repeat"} :
            LET e == [kind |-> kind, key |-> pad.key, at |-> now, age |-> pad.age + 1, press |-> pad.press]
            IN  e \in UiEvent /\ OfOldPress(e)
    BY <1>1, <1>3 DEF UiEvent, PadType, EventKinds, OfOldPress
  <2>3. hold \in Seq(UiEvent) /\ Len(hold) <= 1 /\ (Len(hold) = 1 => OfOldPress(hold[1]))
    BY <2>2
  <2>4. repeat \in Seq(UiEvent) /\ Len(repeat) <= 1 /\ (Len(repeat) = 1 => OfOldPress(repeat[1]))
    BY <2>2
  <2> HIDE DEF hold, repeat
  <2>5. /\ hold \o repeat \in Seq(UiEvent) /\ Len(hold \o repeat) = Len(hold) + Len(repeat)
        /\ Len(hold) \in 0..1 /\ Len(repeat) \in 0..1
        /\ \A j \in 1..Len(hold \o repeat) :
              (hold \o repeat)[j] = IF j <= Len(hold) THEN hold[j] ELSE repeat[j - Len(hold)]
    BY <2>3, <2>4, Joined
  <2>6. \A j \in 1..Len(hold \o repeat) : OfOldPress((hold \o repeat)[j])
    BY <2>3, <2>4, <2>5
  <2> DEFINE events == hold \o repeat
  <2>7. /\ events \in Seq(UiEvent) /\ Emit(events) /\ Len(events) \in 0..2
        /\ \A j \in 1..Len(events) : OfOldPress(events[j])
    BY <2>1, <2>5, <2>6
  <2> HIDE DEF events
  <2>8. /\ Len(uiQ') <= Len(uiQ) + Len(events)
        /\ \A i \in 1..Len(uiQ') : uiQ'[i] = IF i <= Len(uiQ) THEN uiQ[i] ELSE events[i - Len(uiQ)]
    BY <2>7, Posted
  <2>9. Len(uiQ') \in Nat
    BY <2>7, EmitType
  <2>10. ASSUME NEW i \in 1..Len(uiQ'), ~(i <= Len(uiQ)) PROVE OfOldPress(uiQ'[i])
    <3>1. i - Len(uiQ) \in 1..Len(events) /\ uiQ'[i] = events[i - Len(uiQ)]
      BY <1>1, <2>7, <2>8, <2>9, <2>10
    <3> QED
      BY <2>7, <3>1
  <2> QED
    BY <2>1, <2>8, <2>10
<1> QED
  BY <1>2, <1>3 DEF Scan, now

LEMMA PressNumbers ==
    ASSUME NEW p \in PadType, NEW q \in Seq(UiEvent)
    PROVE  /\ p.press \in Nat /\ p.key \in Keys \cup {NoKey} /\ Len(q) \in Nat
           /\ \A i \in 1..Len(q) : q[i].press \in Nat /\ q[i].key \in Keys
<1>1. p.press \in Nat /\ p.key \in Keys \cup {NoKey} /\ Len(q) \in Nat
  BY DEF PadType
<1>2. ASSUME NEW i \in 1..Len(q) PROVE q[i].press \in Nat /\ q[i].key \in Keys
  <2>1. q[i] \in UiEvent
    OBVIOUS
  <2> QED
    BY <2>1 DEF UiEvent
<1> QED
  BY <1>1, <1>2

LEMMA KeyKeepsPower == ASSUME InputInv, PowerInv, Key PROVE PowerInv'
<1>1. PICK k \in Keys \cup {NoKey} : Scan(k)
  BY InputAssumption DEF Key, InputInv, InputTypeOK
<1>2. /\ KeypadTypeOK /\ KeypadTypeOK' /\ UNCHANGED <<profile, ui, taps>>
      /\ taps \subseteq [press : Nat, long : BOOLEAN]
  BY KeyKeeps DEF InputInv, InputTypeOK, Key
<1>3. /\ \/ pad'.press = pad.press /\ pad'.key \in {pad.key, NoKey}
         \/ pad'.press = pad.press + 1
      /\ \A i \in 1..Len(uiQ') :
            IF i <= Len(uiQ) THEN uiQ'[i] = uiQ[i]
            ELSE OfOldPress(uiQ'[i]) \/ (i = Len(uiQ') /\ OfNewPress(uiQ'[i]))
  BY <1>1, <1>2, ScanPosts
<1>4. /\ pad.press \in Nat /\ Len(uiQ) \in Nat /\ \A i \in 1..Len(uiQ) : uiQ[i].press \in Nat /\ uiQ[i].key \in Keys
      /\ pad'.press \in Nat /\ Len(uiQ') \in Nat
      /\ \A i \in 1..Len(uiQ') : uiQ'[i].press \in Nat /\ uiQ'[i].key \in Keys
  BY <1>2, PressNumbers DEF KeypadTypeOK
<1>5. \A i \in 1..Len(uiQ') :
          \/ i \in 1..Len(uiQ) /\ uiQ'[i] = uiQ[i]
          \/ i > Len(uiQ) /\ OfOldPress(uiQ'[i])
          \/ i > Len(uiQ) /\ i = Len(uiQ') /\ OfNewPress(uiQ'[i])
  BY <1>3, <1>4
<1>6. NoKey # "power" /\ NoKey \notin Keys
  BY KeypadAssumption DEF Keys
<1>7. EventsOrdered'
  <2> SUFFICES ASSUME NEW i \in 1..Len(uiQ')
               PROVE  /\ uiQ'[i].press <= pad'.press
                      /\ uiQ'[i].press = pad'.press /\ pad'.key # NoKey => uiQ'[i].key = pad'.key
                      /\ \A j \in 1..Len(uiQ') : i < j =>
                            /\ uiQ'[i].press <= uiQ'[j].press
                            /\ uiQ'[j].kind = "press" => uiQ'[i].press < uiQ'[j].press
                            /\ uiQ'[i].press = uiQ'[j].press => uiQ'[i].key = uiQ'[j].key
    BY DEF EventsOrdered
  <2>1. ASSUME NEW n \in 1..Len(uiQ)
        PROVE  uiQ[n].press <= pad.press /\ (uiQ[n].press = pad.press /\ pad.key # NoKey => uiQ[n].key = pad.key)
    BY DEF PowerInv, EventsOrdered
  <2>2. /\ uiQ'[i].press <= pad'.press
        /\ uiQ'[i].press = pad'.press /\ pad'.key # NoKey => uiQ'[i].key = pad'.key
    BY <1>3, <1>4, <1>5, <2>1 DEF OfOldPress, OfNewPress
  <2>3. ASSUME NEW j \in 1..Len(uiQ'), i < j
        PROVE  /\ uiQ'[i].press <= uiQ'[j].press
               /\ uiQ'[j].kind = "press" => uiQ'[i].press < uiQ'[j].press
               /\ uiQ'[i].press = uiQ'[j].press => uiQ'[i].key = uiQ'[j].key
    <3>1. CASE j \in 1..Len(uiQ) /\ uiQ'[j] = uiQ[j]
      <4>1. i \in 1..Len(uiQ) /\ uiQ'[i] = uiQ[i]
        BY <1>3, <1>4, <2>3, <3>1
      <4> QED
        BY <2>3, <3>1, <4>1 DEF PowerInv, EventsOrdered
    <3>2. CASE j > Len(uiQ) /\ OfOldPress(uiQ'[j])
      <4>1. \/ i \in 1..Len(uiQ) /\ uiQ'[i] = uiQ[i]
            \/ OfOldPress(uiQ'[i])
        BY <1>4, <1>5, <2>3
      <4> QED
        BY <1>4, <2>1, <3>2, <4>1 DEF OfOldPress
    <3>3. CASE j = Len(uiQ') /\ OfNewPress(uiQ'[j])
      <4>1. \/ i \in 1..Len(uiQ) /\ uiQ'[i] = uiQ[i]
            \/ OfOldPress(uiQ'[i])
        BY <1>4, <1>5, <2>3, <3>3
      <4> QED
        BY <1>4, <2>1, <3>3, <4>1 DEF OfOldPress, OfNewPress
    <3> QED
      BY <1>5, <3>1, <3>2, <3>3
  <2> QED
    BY <2>2, <2>3
<1>8. TapsPrecede'
  <2> SUFFICES ASSUME NEW t \in taps
               PROVE  /\ t.press <= pad'.press
                      /\ t.long => profile = "firetv"
                      /\ t.long /\ t.press = pad'.press /\ pad'.key # NoKey => pad'.key = "power"
                      /\ \A i \in 1..Len(uiQ') :
                            /\ t.press <= uiQ'[i].press
                            /\ uiQ'[i].kind = "press" => t.press < uiQ'[i].press
                            /\ t.long /\ t.press = uiQ'[i].press => uiQ'[i].key = "power"
    BY <1>2 DEF TapsPrecede
  <2>1. /\ t.press \in Nat /\ t.press <= pad.press /\ (t.long => profile = "firetv")
        /\ t.long /\ t.press = pad.press /\ pad.key # NoKey => pad.key = "power"
    BY <1>2 DEF PowerInv, TapsPrecede
  <2>2. t.press <= pad'.press /\ (t.long /\ t.press = pad'.press /\ pad'.key # NoKey => pad'.key = "power")
    BY <1>3, <1>4, <2>1
  <2>3. ASSUME NEW i \in 1..Len(uiQ')
        PROVE  /\ t.press <= uiQ'[i].press
               /\ uiQ'[i].kind = "press" => t.press < uiQ'[i].press
               /\ t.long /\ t.press = uiQ'[i].press => uiQ'[i].key = "power"
    <3>1. CASE i \in 1..Len(uiQ) /\ uiQ'[i] = uiQ[i]
      BY <3>1 DEF PowerInv, TapsPrecede
    <3>2. CASE OfOldPress(uiQ'[i])
      BY <2>1, <3>2 DEF OfOldPress
    <3>3. CASE OfNewPress(uiQ'[i])
      BY <1>4, <2>1, <3>3 DEF OfNewPress
    <3> QED
      BY <1>5, <3>1, <3>2, <3>3
  <2> QED
    BY <2>1, <2>2, <2>3
<1>9. PendingAskedNothing'
  <2> SUFFICES ASSUME ui.bt_power_pending, NEW t \in taps
               PROVE  /\ pad'.key = "power" => t.press # pad'.press
                      /\ \A i \in 1..Len(uiQ') : uiQ'[i].key = "power" => t.press # uiQ'[i].press
    BY <1>2 DEF PowerInv, PendingAskedNothing
  <2>1. t.press \in Nat /\ t.press <= pad.press /\ (pad.key = "power" => t.press # pad.press)
    BY <1>2 DEF PowerInv, TapsPrecede, PendingAskedNothing
  <2>2. pad'.key = "power" => t.press # pad'.press
    BY <1>3, <1>4, <1>6, <2>1
  <2>3. ASSUME NEW i \in 1..Len(uiQ'), uiQ'[i].key = "power" PROVE t.press # uiQ'[i].press
    <3>1. CASE i \in 1..Len(uiQ) /\ uiQ'[i] = uiQ[i]
      BY <2>3, <3>1 DEF PowerInv, PendingAskedNothing
    <3>2. CASE OfOldPress(uiQ'[i])
      BY <2>1, <2>3, <3>2 DEF OfOldPress
    <3>3. CASE OfNewPress(uiQ'[i])
      BY <1>4, <2>1, <3>3 DEF OfNewPress
    <3> QED
      BY <1>5, <3>1, <3>2, <3>3
  <2> QED
    BY <2>2, <2>3
<1> QED
  BY <1>2, <1>7, <1>8, <1>9 DEF PowerInv, PowerSendsOne

\* The events that are left, once the first is taken.
LEMMA Taken ==
    ASSUME KeypadTypeOK, Takes
    PROVE  /\ UNCHANGED pad /\ 1 \in 1..Len(uiQ) /\ Event = uiQ[1] /\ Event \in UiEvent
           /\ \A i \in 1..Len(uiQ') : i + 1 \in 1..Len(uiQ) /\ uiQ'[i] = uiQ[i + 1] /\ 1 < i + 1
<1>1. uiQ \in Seq(UiEvent) /\ uiQ # << >> /\ uiQ' = Tail(uiQ) /\ UNCHANGED pad
  BY DEF KeypadTypeOK, Takes
<1>2. /\ Len(uiQ) \in Nat /\ Len(uiQ) >= 1 /\ Len(Tail(uiQ)) = Len(uiQ) - 1
      /\ \A i \in 1..(Len(uiQ) - 1) : Tail(uiQ)[i] = uiQ[i + 1]
      /\ Head(uiQ) = uiQ[1] /\ Head(uiQ) \in UiEvent
  BY <1>1
<1> QED
  BY <1>1, <1>2 DEF Event

LEMMA TakenKeepsOrder == ASSUME KeypadTypeOK, EventsOrdered, Takes PROVE EventsOrdered'
<1>1. /\ UNCHANGED pad /\ Len(uiQ') \in Nat
      /\ \A i \in 1..Len(uiQ') : i + 1 \in 1..Len(uiQ) /\ uiQ'[i] = uiQ[i + 1]
  BY Taken DEF KeypadTypeOK, Takes
<1> SUFFICES ASSUME NEW i \in 1..Len(uiQ')
             PROVE  /\ uiQ'[i].press <= pad.press
                    /\ uiQ'[i].press = pad.press /\ pad.key # NoKey => uiQ'[i].key = pad.key
                    /\ \A j \in 1..Len(uiQ') : i < j =>
                          /\ uiQ'[i].press <= uiQ'[j].press
                          /\ uiQ'[j].kind = "press" => uiQ'[i].press < uiQ'[j].press
                          /\ uiQ'[i].press = uiQ'[j].press => uiQ'[i].key = uiQ'[j].key
  BY <1>1 DEF EventsOrdered
<1>2. i + 1 \in 1..Len(uiQ) /\ uiQ'[i] = uiQ[i + 1]
  BY <1>1
<1>3. ASSUME NEW j \in 1..Len(uiQ'), i < j PROVE j + 1 \in 1..Len(uiQ) /\ uiQ'[j] = uiQ[j + 1] /\ i + 1 < j + 1
  BY <1>1, <1>3
<1> QED
  BY <1>2, <1>3 DEF EventsOrdered

\* An event that asks for nothing, and does not make the power key pending.
LEMMA IgnoredKeepsPower ==
    ASSUME InputInv, PowerInv, Takes, UNCHANGED <<profile, taps>>,
           ui'.bt_power_pending => ui.bt_power_pending
    PROVE  PowerInv'
<1>1. /\ UNCHANGED pad /\ \A i \in 1..Len(uiQ') : i + 1 \in 1..Len(uiQ) /\ uiQ'[i] = uiQ[i + 1]
  BY Taken DEF InputInv, InputTypeOK
<1>2. EventsOrdered'
  BY TakenKeepsOrder DEF InputInv, InputTypeOK, PowerInv
<1>3. TapsPrecede'
  BY <1>1 DEF PowerInv, TapsPrecede
<1>4. PendingAskedNothing'
  BY <1>1 DEF PowerInv, PendingAskedNothing
<1> QED
  BY <1>2, <1>3, <1>4 DEF PowerInv, PowerSendsOne

LEMMA PressedKeepsPower == ASSUME InputInv, PowerInv, PowerPressed PROVE PowerInv'
<1>1. /\ KeypadTypeOK /\ Takes /\ Event.kind = "press" /\ profile = "firetv" /\ UNCHANGED <<profile, taps>>
      /\ taps \subseteq [press : Nat, long : BOOLEAN]
  BY DEF InputInv, InputTypeOK, PowerPressed, TypesKey, IsPower
<1>2. /\ UNCHANGED pad /\ 1 \in 1..Len(uiQ) /\ Event = uiQ[1]
      /\ \A i \in 1..Len(uiQ') : i + 1 \in 1..Len(uiQ) /\ uiQ'[i] = uiQ[i + 1] /\ 1 < i + 1
  BY <1>1, Taken
<1>3. pad.press \in Nat /\ Event.press \in Nat /\ \A i \in 1..Len(uiQ') : uiQ'[i].press \in Nat
  BY <1>1, <1>2, PressNumbers DEF KeypadTypeOK
<1>4. EventsOrdered'
  BY <1>1, TakenKeepsOrder DEF PowerInv
<1>5. TapsPrecede'
  BY <1>1, <1>2 DEF PowerInv, TapsPrecede
<1>6. \A t \in taps : t.press \in Nat /\ t.press < Event.press
  BY <1>1, <1>2 DEF PowerInv, TapsPrecede
<1>7. Event.press <= pad.press /\ \A i \in 1..Len(uiQ') : Event.press <= uiQ'[i].press
  BY <1>2 DEF PowerInv, EventsOrdered
<1>8. \A t \in taps : t.press < pad.press /\ \A i \in 1..Len(uiQ') : t.press < uiQ'[i].press
  BY <1>3, <1>6, <1>7
<1>9. PendingAskedNothing'
  BY <1>1, <1>2, <1>3, <1>6, <1>8 DEF PendingAskedNothing
<1> QED
  BY <1>1, <1>4, <1>5, <1>9 DEF PowerInv, PowerSendsOne

\* What an event asks for keeps to its press.
LEMMA AskedKeepsPower ==
    ASSUME InputInv, PowerInv, Takes, UNCHANGED profile, NEW long \in BOOLEAN,
           taps' \in {taps, taps \cup {[press |-> Event.press, long |-> long]}},
           long => profile = "firetv" /\ Event.key = "power",
           ui'.bt_power_pending => ui.bt_power_pending /\ Event.key # "power",
           \A t \in taps : t.press = Event.press => t.long = long
    PROVE  PowerInv'
<1> DEFINE asked == [press |-> Event.press, long |-> long]
<1>1. KeypadTypeOK /\ pad \in PadType /\ uiQ \in Seq(UiEvent) /\ uiQ' \in Seq(UiEvent)
      /\ taps \subseteq [press : Nat, long : BOOLEAN]
  BY UiTakes DEF InputInv, InputTypeOK, KeypadTypeOK
<1>2. /\ UNCHANGED pad /\ 1 \in 1..Len(uiQ) /\ Event = uiQ[1]
      /\ \A i \in 1..Len(uiQ') : i + 1 \in 1..Len(uiQ) /\ uiQ'[i] = uiQ[i + 1] /\ 1 < i + 1
  BY <1>1, Taken
<1>3. asked.press = Event.press /\ asked.long = long
  OBVIOUS
<1> HIDE DEF asked
<1>4. taps' \subseteq taps \cup {asked}
  BY DEF asked
<1>5. EventsOrdered'
  BY <1>1, TakenKeepsOrder DEF PowerInv
<1>6. /\ Event.press <= pad.press
      /\ Event.press = pad.press /\ pad.key # NoKey => Event.key = pad.key
      /\ \A i \in 1..Len(uiQ') :
            /\ Event.press <= uiQ'[i].press
            /\ uiQ'[i].kind = "press" => Event.press < uiQ'[i].press
            /\ Event.press = uiQ'[i].press => Event.key = uiQ'[i].key
  BY <1>2 DEF PowerInv, EventsOrdered
<1>7. TapsPrecede'
  <2> SUFFICES ASSUME NEW t \in taps'
               PROVE  /\ t.press <= pad.press
                      /\ t.long => profile = "firetv"
                      /\ t.long /\ t.press = pad.press /\ pad.key # NoKey => pad.key = "power"
                      /\ \A i \in 1..Len(uiQ') :
                            /\ t.press <= uiQ'[i].press
                            /\ uiQ'[i].kind = "press" => t.press < uiQ'[i].press
                            /\ t.long /\ t.press = uiQ'[i].press => uiQ'[i].key = "power"
    BY <1>2 DEF TapsPrecede
  <2>1. CASE t \in taps
    BY <1>2, <2>1 DEF PowerInv, TapsPrecede
  <2>2. CASE t = asked
    BY <1>3, <1>6, <2>2
  <2> QED
    BY <1>4, <2>1, <2>2
<1>8. PendingAskedNothing'
  <2> SUFFICES ASSUME ui'.bt_power_pending, NEW t \in taps'
               PROVE  /\ pad.key = "power" => t.press # pad.press
                      /\ \A i \in 1..Len(uiQ') : uiQ'[i].key = "power" => t.press # uiQ'[i].press
    BY <1>2 DEF PowerInv, PendingAskedNothing
  <2>1. CASE t \in taps
    BY <1>2, <2>1 DEF PowerInv, PendingAskedNothing
  <2>2. CASE t = asked
    <3>1. "power" # NoKey
      BY KeypadAssumption
    <3> QED
      BY <1>3, <1>6, <2>2, <3>1
  <2> QED
    BY <1>4, <2>1, <2>2
<1>9. PowerSendsOne'
  <2> SUFFICES ASSUME NEW t \in taps', t.long, [t EXCEPT !.long = FALSE] \in taps' PROVE FALSE
    BY DEF PowerSendsOne
  <2> DEFINE short == [t EXCEPT !.long = FALSE]
  <2>1. asked \in [press : Nat, long : BOOLEAN]
    BY <1>1, <1>2, PressNumbers DEF asked
  <2>2. t \in [press : Nat, long : BOOLEAN]
    BY <1>1, <1>4, <2>1
  <2>3. short \in taps' /\ short.press = t.press /\ short.long = FALSE
    BY <2>2
  <2> HIDE DEF short
  <2>4. CASE t \in taps /\ short \in taps
    BY <2>4 DEF PowerInv, PowerSendsOne, short
  <2>5. CASE t = asked /\ short \in taps
    BY <1>3, <2>3, <2>5
  <2>6. CASE t \in taps /\ short = asked
    BY <1>3, <2>3, <2>6
  <2>7. CASE t = asked /\ short = asked
    BY <2>3, <2>7
  <2> QED
    BY <1>4, <2>3, <2>4, <2>5, <2>6, <2>7
<1> QED
  BY <1>5, <1>7, <1>8, <1>9 DEF PowerInv

LEMMA KeyTappedKeepsPower == ASSUME InputInv, PowerInv, KeyTapped PROVE PowerInv'
<1>1. /\ KeypadTypeOK /\ Takes /\ Tap(FALSE, ui) /\ ~(profile = "firetv" /\ Event.key = "power")
      /\ taps \subseteq [press : Nat, long : BOOLEAN]
  BY DEF InputInv, InputTypeOK, KeyTapped, TypesKey, IsPower
<1>2. 1 \in 1..Len(uiQ) /\ Event = uiQ[1]
  BY <1>1, Taken
<1>3. \A t \in taps : t.press = Event.press => t.long = FALSE
  BY <1>1, <1>2 DEF PowerInv, TapsPrecede
<1>4. ui.bt_power_pending => Event.key # "power"
  BY <1>1 DEF PowerInv, PendingAskedNothing
<1>5. /\ UNCHANGED <<profile, ui>>
      /\ taps' \in {taps, taps \cup {[press |-> Event.press, long |-> FALSE]}}
  BY <1>1 DEF Tap
<1> QED
  BY <1>1, <1>3, <1>4, <1>5, AskedKeepsPower

LEMMA PowerTappedKeepsPower == ASSUME InputInv, PowerInv, PowerTapped PROVE PowerInv'
<1>1. PICK long \in BOOLEAN : long = (Event.kind = "hold")
  OBVIOUS
<1>2. /\ KeypadTypeOK /\ Takes /\ Tap(long, PowerSent) /\ profile = "firetv" /\ Event.key = "power"
      /\ ui \in UiType
  BY <1>1 DEF InputInv, InputTypeOK, PowerTapped, TypesKey, IsPower
<1>3. 1 \in 1..Len(uiQ) /\ Event = uiQ[1]
  BY <1>2, Taken
<1>4. ui.bt_power_pending
  BY DEF PowerTapped, TypesKey, Wanted, IsPower, IsMouse
<1>5. \A t \in taps : t.press # Event.press
  BY <1>2, <1>3, <1>4 DEF PowerInv, PendingAskedNothing
<1>6. /\ UNCHANGED profile /\ ~ui'.bt_power_pending
      /\ taps' \in {taps, taps \cup {[press |-> Event.press, long |-> long]}}
  BY <1>2 DEF Tap, PowerSent, UiType
<1> QED
  BY <1>2, <1>5, <1>6, AskedKeepsPower

LEMMA PowerSteps == InputInv /\ PowerInv /\ [Next]_vars => PowerInv'
<1> SUFFICES ASSUME InputInv, PowerInv, [Next]_vars PROVE PowerInv'
  OBVIOUS
<1>1. ASSUME UNCHANGED <<pad, uiQ, taps, profile, ui>> PROVE PowerInv'
  BY <1>1 DEF PowerInv, EventsOrdered, TapsPrecede, PendingAskedNothing, PowerSendsOne
<1>2. CASE UNCHANGED vars
  BY <1>1, <1>2 DEF vars, keypadVars, inputVars
<1>3. CASE Key
  BY <1>3, KeyKeepsPower
<1>4. CASE UiTurn
  <2>1. ui \in UiType
    BY DEF InputInv, InputTypeOK
  <2>2. CASE EnterRemote \/ LeaveRemote
    <3>1. Takes /\ UNCHANGED <<profile, taps>> /\ ~ui'.bt_power_pending
      BY <2>1, <2>2 DEF EnterRemote, LeaveRemote, Mode, UiType
    <3> QED
      BY <3>1, IgnoredKeepsPower
  <2>3. CASE MouseInput \/ IgnoredEvent
    <3>1. /\ Takes /\ UNCHANGED <<profile, taps>>
          /\ ui'.bt_power_pending = ui.bt_power_pending
      BY <2>1, <2>3 DEF MouseInput, IgnoredEvent, inputVars, UiType
    <3> QED
      BY <3>1, IgnoredKeepsPower
  <2>4. CASE QueueRelease
    <3>1. UNCHANGED <<pad, uiQ, taps, profile>> /\ ui'.bt_power_pending = ui.bt_power_pending
      BY <2>1, <2>4 DEF QueueRelease, keypadVars, UiType
    <3> QED
      BY <3>1 DEF PowerInv, EventsOrdered, TapsPrecede, PendingAskedNothing, PowerSendsOne
  <2> QED
    BY <1>4, <2>2, <2>3, <2>4, PressedKeepsPower, PowerTappedKeepsPower, KeyTappedKeepsPower DEF UiTurn
<1>5. CASE Worker
  <2>1. Calls
    BY <1>5, WorkerCalls
  <2> QED
    BY <1>1, <2>1 DEF Calls, keypadVars
<1>6. CASE Host
  BY <1>1, <1>6 DEF Host, LinkLost, HostReturns, Subscribes, Suspends, Around, keypadVars
<1> QED
  BY <1>2, <1>3, <1>4, <1>5, <1>6 DEF Next

-----------------------------------------------------------------------------
(* The theorems.                                                           *)

LEMMA InputStarts == Init => InputInv
<1> SUFFICES ASSUME Init PROVE InputInv
  OBVIOUS
<1>1. KeypadTypeOK /\ HoldInv
  BY KeypadAssumption DEF Init, KeypadInit, KeypadTypeOK, HoldInv, PadType
<1>2. worker \in WorkerType /\ worker.left = 0
  BY NoMessageType, InputAssumption DEF Init, InputInit, WorkerType, States
<1>3. budget \in Nat /\ profile \in Profiles
  BY InputAssumption DEF Init, InputInit
<1>4. ui \in UiType /\ generation \in Nat /\ queue \in Seq(Message) /\ Len(queue) <= Cap /\ mouse \in Mouse
  BY IdleType, InputAssumption DEF Init, InputInit, UiType
<1>5. InputTypeOK
  BY <1>1, <1>2, <1>3, <1>4 DEF Init, InputInit, InputTypeOK
<1>6. WorkerOK
  BY <1>2 DEF WorkerOK
<1> QED
  BY <1>1, <1>5, <1>6 DEF InputInv

LEMMA InputSteps == InputInv /\ [Next]_vars => InputInv'
<1> SUFFICES ASSUME InputInv, [Next]_vars PROVE InputInv'
  OBVIOUS
<1>1. CASE UNCHANGED vars
  BY <1>1, KeypadStays DEF vars, keypadVars, inputVars, InputInv, InputTypeOK, WorkerOK
<1> QED
  BY <1>1, KeyKeeps, UiTurnKeeps, WorkerStepKeeps, HostKeeps DEF Next

(* Holds are timed: for any clock, any thresholds in the order of the code *)
(* and any queue lengths, the state is well typed and the scan takes a key *)
(* for held exactly when it has been down for LongPress scans, although    *)
(* the counter it reads (keypad.c) may wrap in the middle of the press.    *)
THEOREM HoldsAreTimed == Spec => []HoldIsTimed
<1>1. InputInv => HoldIsTimed
  BY DEF InputInv, HoldInv, HoldIsTimed
<1> QED
  BY <1>1, InputStarts, InputSteps, PTL DEF Spec

(* "Short power is sent on release; a hold sends only Ctrl+Alt+Del"        *)
(* (ui_remote.c 79), for any length of the UI queue and any events it      *)
(* dropped: the presses stay in order, and a press whose tap was sent is   *)
(* no longer pending, so its release asks for nothing.                     *)
THEOREM OnePressSendsOne == Spec => []PowerSendsOne
<1>1. Init => PowerInv
  <2> SUFFICES ASSUME Init PROVE PowerInv
    OBVIOUS
  <2>1. Len(uiQ) = 0 /\ taps = {}
    BY DEF Init, KeypadInit, InputInit
  <2> QED
    BY <2>1 DEF PowerInv, EventsOrdered, TapsPrecede, PendingAskedNothing, PowerSendsOne, Init, InputInit
<1>2. PowerInv => PowerSendsOne
  BY DEF PowerInv
<1> QED
  BY <1>1, <1>2, InputStarts, InputSteps, PowerSteps, PTL DEF Spec

-----------------------------------------------------------------------------
(* Connections and the host.                                               *)

Entered(m) == m.type \in {"MOUSE", "TAP"}
Current(m, type) == m.type = type /\ m.run = worker.run

\* Which connection a queued message is of. No input of an earlier connection is
\* queued while one is in use: its READY came behind them.
RunsOrdered ==
    /\ \A i \in 1..Len(queue) :
          /\ queue[i].run <= worker.run
          /\ queue[i].type = "MOUSE" => IsMouse
          /\ queue[i].type = "TAP" => ~IsMouse
          /\ worker.connected /\ Entered(queue[i]) => queue[i].run = worker.run
          /\ worker.state = "RECONNECTING" /\ Entered(queue[i]) => queue[i].run < worker.run
    /\ \A i, j \in 1..Len(queue) :
          i < j /\ Current(queue[i], "READY") /\ Entered(queue[j]) => queue[j].run = worker.run

\* Out of use, the mouse is idle and nothing is being sent.
IdleUnlessUsed ==
    /\ worker.state = "RECONNECTING" => ~worker.connected
    /\ ~(worker.connected /\ worker.subscribed) =>
          mouse.buttons = {} /\ mouse.movement = None /\ worker.at # "send"

\* A link that is up although its end is still queued is a new one, and unused.
UnusedBehindEnd ==
    link.up =>
        \A i \in 1..Len(queue) : Current(queue[i], "DISCONNECTED") =>
            /\ host = {} /\ mouse.buttons = {} /\ mouse.movement = None /\ worker.at # "send"
            /\ \A j \in 1..(i - 1) : Entered(queue[j]) => queue[j].run # worker.run

\* What the host believes, between two outputs and in the middle of one.
Down == IF IsMouse THEN mouse.buttons ELSE {}
HostTracks ==
    /\ ~link.up => host = {}
    /\ link.up /\ ~link.on /\ ~deaf => host = {}
    /\ worker.at # "send" /\ link.up /\ ~deaf => host = Down
    /\ worker.at = "send" =>
          /\ worker.out # << >> => worker.out[Len(worker.out)] = Down
          /\ worker.out = << >> /\ ~worker.failed /\ link.up /\ ~deaf => host = Down

HostInv == RunsOrdered /\ IdleUnlessUsed /\ UnusedBehindEnd /\ HostTracks

-----------------------------------------------------------------------------
(* Steps of the worker.                                                    *)

Quiet == host = {} /\ mouse.buttons = {} /\ mouse.movement = None /\ worker.at # "send"
Resting == worker.at # "send" \/ (worker.out = << >> /\ ~worker.failed)
Alike(w) ==
    w.run = worker.run /\ w.connected = worker.connected /\ w.subscribed = worker.subscribed /\ w.state = worker.state

Turn == queue # << >> /\ queue' = Tail(queue)
EntersUse == Turn /\ Current(queue[1], "READY")
UsesInput == queue # << >> /\ Entered(queue[1]) /\ queue[1].run = worker.run

\* A step stays with its connection, or stops it.
Flows ==
    \/ worker'.run = worker.run + 1 /\ worker'.connected = FALSE
    \/ /\ worker'.run = worker.run
       /\ worker'.connected => worker.connected \/ EntersUse
       /\ worker'.state = "RECONNECTING" => worker.state = "RECONNECTING"
       /\ Quiet => Quiet' \/ UsesInput
Onward == IdleUnlessUsed' /\ HostTracks' /\ Flows /\ (link'.up => link.up)

LEMMA IdleIsDown == Idle.buttons = {} /\ Idle.movement = None
  BY DEF Idle

LEMMA FirstReceived ==
    ASSUME InputTypeOK, Receives
    PROVE  /\ queue \in Seq(Message) /\ queue # << >> /\ queue' = Tail(queue) /\ Turn
           /\ Received = queue[1] /\ 1 \in 1..Len(queue)
  BY DEF InputTypeOK, Receives, Received, Turn

\* Nothing the host is told of, and no other connection.
LEMMA RestingOn ==
    ASSUME HostInv, Resting, Alike(worker'), worker'.at # "send", UNCHANGED <<profile, link, host, deaf>>,
           mouse'.buttons = mouse.buttons, mouse'.movement \in {mouse.movement, None}
    PROVE  Onward
<1>1. IdleUnlessUsed'
  BY DEF HostInv, IdleUnlessUsed, Alike
<1>2. Down' = Down
  BY DEF Down, IsMouse
<1>3. HostTracks'
  BY <1>2 DEF HostInv, HostTracks, Resting
<1>4. Flows
  BY DEF Flows, Alike, Quiet
<1> QED
  BY <1>1, <1>3, <1>4 DEF Onward

\* The link goes, and the next connection starts with nothing down.
LEMMA RestartOn ==
    ASSUME InputInv, NEW next \in {"receive", "tail"}, Restart(next), host' = {}, UNCHANGED <<profile, deaf>>
    PROVE  Onward
<1>1. worker \in WorkerType /\ link \in [up : BOOLEAN, on : BOOLEAN]
  BY Parts DEF InputTypeOK
<1>2. PICK state \in {"RECONNECTING", "ERROR"} :
        worker' = [worker EXCEPT !.at = next, !.out = << >>, !.failed = FALSE, !.left = 0, !.message = NoMessage,
                            !.run = @ + 1, !.connected = FALSE, !.subscribed = FALSE, !.suspended = FALSE,
                            !.mouse_generation = generation, !.state = state]
  BY DEF Restart
<1>3. worker'.at = next /\ worker'.run = worker.run + 1 /\ worker'.connected = FALSE /\ worker'.subscribed = FALSE
  BY <1>1, <1>2 DEF WorkerType
<1>4. mouse' = Idle /\ link' = [link EXCEPT !.up = FALSE]
  BY DEF Restart
<1>5. link'.up = FALSE
  BY <1>1, <1>4
<1>6. IdleUnlessUsed'
  BY <1>3, <1>4, IdleIsDown DEF IdleUnlessUsed
<1>7. HostTracks'
  BY <1>3, <1>5 DEF HostTracks
<1> QED
  BY <1>3, <1>5, <1>6, <1>7 DEF Onward, Flows

LEMMA ReleasedOn ==
    ASSUME InputInv, HostInv, worker.at # "send", NEW w \in WorkerType, Alike(w), w.at # "send", Released(w),
           UNCHANGED <<profile, deaf>>
    PROVE  Onward
<1>1. worker' = [w EXCEPT !.mouse_generation = generation] /\ mouse' = Idle /\ link' = link
  BY DEF Released
<1>2. Alike(worker') /\ worker'.at # "send"
  BY <1>1 DEF Alike, WorkerType
<1>3. mouse'.buttons = {} /\ mouse'.movement = None /\ Down' = {}
  BY <1>1, IdleIsDown DEF Down
<1>4. host' = {} \/ (host' = host /\ (~IsMouse \/ ~(worker.connected /\ worker.subscribed /\ link.up)))
  BY DEF Released, ToldReleased, Delivered, Failing
<1>5. IdleUnlessUsed'
  BY <1>2, <1>3 DEF HostInv, IdleUnlessUsed, Alike
<1>6. ~IsMouse => Down = {}
  BY DEF Down
<1>7. ~(worker.connected /\ worker.subscribed) => Down = {}
  BY DEF HostInv, IdleUnlessUsed, Down
<1>8. HostTracks'
  BY <1>1, <1>2, <1>3, <1>4, <1>6, <1>7 DEF HostInv, HostTracks
<1>9. Flows
  BY <1>2, <1>3, <1>4 DEF Flows, Alike, Quiet
<1> QED
  BY <1>1, <1>5, <1>8, <1>9 DEF Onward

LEMMA ReleaseFailsOn ==
    ASSUME InputInv, NEW next \in {"receive", "tail"}, ReleaseFails(next), UNCHANGED <<profile, deaf>>
    PROVE  Onward
  BY RestartOn DEF ReleaseFails

\* The subscription is looked at: w is in use only if it was, or its READY came.
LEMMA ReadyOn ==
    ASSUME InputInv, HostInv, worker.at # "send", NEW w \in WorkerType, w.run = worker.run, w.at # "send",
           w.connected, worker.connected \/ EntersUse, Ready(w), UNCHANGED <<profile, deaf>>
    PROVE  Onward
<1>1. link \in [up : BOOLEAN, on : BOOLEAN]
  BY Parts DEF InputTypeOK
<1>2. CASE /\ worker' = [w EXCEPT !.at = "tail", !.subscribed = link.on,
                              !.state = IF link.on THEN IF w.suspended THEN "SUSPENDED" ELSE "CONNECTED"
                                        ELSE "CONNECTING"]
           /\ mouse' = IF link.on THEN mouse ELSE Idle
           /\ UNCHANGED <<link, host, budget>>
  <2>1. /\ worker'.at = "tail" /\ worker'.run = worker.run /\ worker'.subscribed = link.on
        /\ worker'.state # "RECONNECTING"
    BY <1>2 DEF WorkerType
  <2>2. mouse' = mouse \/ (~link.on /\ mouse' = Idle)
    BY <1>2
  <2>3. IdleUnlessUsed'
    <3>1. CASE link.on
      <4>1. worker'.connected /\ worker'.subscribed
        BY <1>2, <2>1, <3>1 DEF WorkerType
      <4> QED
        BY <2>1, <4>1 DEF IdleUnlessUsed
    <3>2. CASE ~link.on
      BY <1>2, <2>1, <3>2, IdleIsDown DEF IdleUnlessUsed
    <3> QED
      BY <3>1, <3>2
  <2>4. HostTracks'
    <3>1. mouse' = mouse => Down' = Down
      BY DEF Down, IsMouse
    <3>2. mouse' = Idle => Down' = {}
      BY IdleIsDown DEF Down
    <3> QED
      BY <1>2, <2>1, <2>2, <3>1, <3>2 DEF HostInv, HostTracks
  <2>5. Flows
    BY <1>2, <2>1, <2>2, IdleIsDown DEF Flows, Quiet
  <2> QED
    BY <1>2, <2>3, <2>4, <2>5 DEF Onward
<1>3. CASE /\ Spend
           /\ worker' = [w EXCEPT !.at = "tail", !.run = @ + 1, !.connected = FALSE, !.subscribed = FALSE,
                              !.mouse_generation = generation, !.state = "ERROR"]
           /\ mouse' = Idle /\ link' = [link EXCEPT !.up = FALSE] /\ host' = {}
  <2>1. /\ worker'.at = "tail" /\ worker'.run = worker.run + 1 /\ worker'.connected = FALSE
        /\ worker'.subscribed = FALSE
    BY <1>3 DEF WorkerType
  <2>2. link'.up = FALSE
    BY <1>1, <1>3
  <2>3. IdleUnlessUsed' /\ HostTracks'
    BY <1>3, <2>1, <2>2, IdleIsDown DEF IdleUnlessUsed, HostTracks
  <2> QED
    BY <2>1, <2>2, <2>3 DEF Onward, Flows
<1> QED
  BY <1>2, <1>3 DEF Ready

\* The last report of an input says what the mouse has down then.
Shows(step, m) ==
    /\ step.reports = << >> => step.mouse.buttons = m.buttons
    /\ step.reports # << >> => step.reports[Len(step.reports)] = step.mouse.buttons

LEMMA ReportsShow ==
    ASSUME NEW m, NEW before, NEW button
    PROVE  /\ m.buttons = before.buttons => Shows(Silently(m), before)
           /\ Shows(Reporting(m), before) /\ Shows(Click(m, button), before)
  BY DEF Shows, Silently, Reporting, Click

LEMMA PatternShows ==
    ASSUME NEW m \in Mouse, NEW key, NEW input, NEW at
    PROVE  Shows(PatternInput(m, key, input, at), m)
<1>1. StartPattern(m, key, at).buttons = m.buttons
  BY DEF StartPattern, Mouse
<1>2. [m EXCEPT !.momentary = TRUE, !.movement = key].buttons = m.buttons
  BY DEF Mouse
<1>3. [m EXCEPT !.pattern = None, !.movement = IF EndsPattern(m, at) THEN None ELSE @].buttons = m.buttons
  BY DEF Mouse
<1>4. \/ PatternInput(m, key, input, at)
             = Reporting([m EXCEPT !.buttons = IF "left" \in @ THEN @ \ {"left"} ELSE @ \cup {"left"}])
      \/ PatternInput(m, key, input, at) \in
             {Silently(StartPattern(m, key, at)), Silently([m EXCEPT !.momentary = TRUE, !.movement = key]),
              Silently([m EXCEPT !.pattern = None, !.movement = IF EndsPattern(m, at) THEN None ELSE @]),
              Silently(m)}
  BY DEF PatternInput
<1> QED
  BY <1>1, <1>2, <1>3, <1>4, ReportsShow

LEMMA MappedShows ==
    ASSUME NEW m \in Mouse, NEW key, NEW input
    PROVE  Shows(MappedInput(m, key, input), m)
<1>1. Shows(OkInput(m, input), m)
  <2> DEFINE pressed == [m EXCEPT !.okPending = TRUE, !.okLong = FALSE]
             done == [m EXCEPT !.okPending = FALSE]
  <2>1. pressed.buttons = m.buttons /\ done.buttons = m.buttons
    BY DEF Mouse
  <2>2. \/ OkInput(m, input) \in {Silently(pressed), Silently(done), Silently(m), Click(done, "left")}
        \/ OkInput(m, input) = Reporting([m EXCEPT !.okLong = TRUE, !.buttons = @ \cup {"left"}])
        \/ OkInput(m, input) = Reporting([done EXCEPT !.buttons = @ \ {"left"}])
    BY DEF OkInput
  <2> HIDE DEF pressed, done
  <2> QED
    BY <2>1, <2>2, ReportsShow
<1>2. Shows(DirectionInput(m, key, input), m)
  <2>1. [m EXCEPT !.movement = key].buttons = m.buttons /\ [m EXCEPT !.movement = None].buttons = m.buttons
    BY DEF Mouse
  <2>2. DirectionInput(m, key, input) \in
            {Silently([m EXCEPT !.movement = key]), Silently([m EXCEPT !.movement = None]), Silently(m)}
    BY DEF DirectionInput
  <2> QED
    BY <2>1, <2>2, ReportsShow
<1>3. MappedInput(m, key, input) \in
          {OkInput(m, input), DirectionInput(m, key, input), Reporting(m), Click(m, "middle"), Silently(m)}
  BY DEF MappedInput
<1> QED
  BY <1>1, <1>2, <1>3, ReportsShow

LEMMA InputIsCurrent ==
    ASSUME InputTypeOK, HostInv, Receives, Entered(Received), Active(Received)
    PROVE  UsesInput
<1>1. queue # << >> /\ Received = queue[1] /\ 1 \in 1..Len(queue)
  BY FirstReceived
<1> QED
  BY <1>1 DEF HostInv, RunsOrdered, Active, UsesInput

LEMMA TakeMouseOn == ASSUME InputInv, HostInv, TakeMouse PROVE Onward
<1> DEFINE e == Received.input
           step == IF profile = "patterns" THEN PatternInput(mouse, e.key, e.kind, e.at)
                   ELSE MappedInput(mouse, e.key, e.kind)
<1>1. /\ InputTypeOK /\ worker \in WorkerType /\ mouse \in Mouse /\ worker.at = "receive"
      /\ UNCHANGED <<profile, link, host, deaf>> /\ Receives /\ Received.type = "MOUSE"
  BY Parts DEF TakeMouse, Receives, Calls
<1>2. Shows(step, mouse)
  BY <1>1, PatternShows, MappedShows
<1>3. \/ mouse' = mouse /\ worker' = Done(worker)
      \/ /\ Active(Received) /\ mouse' = step.mouse
         /\ worker' = IF step.reports = << >> THEN Done(worker)
                      ELSE [worker EXCEPT !.at = "send", !.out = step.reports, !.message = Received]
  BY DEF TakeMouse
<1> HIDE DEF step, e
<1>4. Alike(Done(worker)) /\ Done(worker).at = "tail"
  BY <1>1 DEF Done, Alike, WorkerType
<1>5. CASE mouse' = mouse /\ worker' = Done(worker)
  BY <1>1, <1>4, <1>5, RestingOn DEF Resting
<1>6. CASE /\ Active(Received) /\ mouse' = step.mouse
           /\ worker' = IF step.reports = << >> THEN Done(worker)
                        ELSE [worker EXCEPT !.at = "send", !.out = step.reports, !.message = Received]
  <2>1. IsMouse /\ worker.connected /\ worker.subscribed /\ UsesInput
    <3>1. 1 \in 1..Len(queue) /\ Received = queue[1]
      BY <1>1, FirstReceived
    <3>2. UsesInput
      BY <1>1, <1>6, InputIsCurrent DEF Entered
    <3> QED
      BY <1>1, <1>6, <3>1, <3>2 DEF HostInv, RunsOrdered, Active
  <2>2. Alike(worker')
    BY <1>1, <1>4, <1>6 DEF Alike, WorkerType
  <2>3. IdleUnlessUsed'
    BY <1>1, <2>1, <2>2 DEF HostInv, IdleUnlessUsed, Alike
  <2>4. Down = mouse.buttons /\ Down' = step.mouse.buttons
    BY <1>1, <1>6, <2>1 DEF Down, IsMouse
  <2>5. HostTracks'
    <3>1. CASE step.reports = << >>
      BY <1>1, <1>2, <1>4, <1>6, <2>4, <3>1 DEF HostInv, HostTracks, Shows
    <3>2. CASE step.reports # << >>
      <4>1. worker'.at = "send" /\ worker'.out = step.reports
        BY <1>1, <1>6, <3>2 DEF WorkerType
      <4> QED
        BY <1>1, <1>2, <2>4, <3>2, <4>1 DEF HostInv, HostTracks, Shows
    <3> QED
      BY <3>1, <3>2
  <2> QED
    BY <1>1, <2>1, <2>2, <2>3, <2>5 DEF Onward, Flows, Alike
<1> QED
  BY <1>3, <1>5, <1>6

\* A key, and the nothing that follows it, are on the way out.
LEMMA TypingOn ==
    ASSUME InputInv, HostInv, ~IsMouse, worker.connected, worker.subscribed, Alike(worker'), worker'.at = "send",
           NEW report, worker'.out = <<report, {}>>, UNCHANGED <<profile, mouse, link, host, deaf>>,
           UsesInput \/ worker.at = "send"
    PROVE  Onward
<1>1. IdleUnlessUsed'
  BY DEF HostInv, IdleUnlessUsed, Alike
<1>2. Down' = {}
  BY DEF Down, IsMouse
<1>3. worker'.out # << >> /\ worker'.out[Len(worker'.out)] = {}
  OBVIOUS
<1>4. HostTracks'
  BY <1>2, <1>3 DEF HostInv, HostTracks
<1> QED
  BY <1>1, <1>4 DEF Onward, Flows, Alike, Quiet

LEMMA TakeTapOn == ASSUME InputInv, HostInv, TakeTap PROVE Onward
<1>1. /\ InputTypeOK /\ worker \in WorkerType /\ worker.at = "receive"
      /\ UNCHANGED <<profile, mouse, link, host, deaf>> /\ Receives /\ Received.type = "TAP"
  BY Parts DEF TakeTap, Receives, Calls
<1>2. CASE Active(Received)
  <2>1. 1 \in 1..Len(queue) /\ Received = queue[1] /\ UsesInput
    BY <1>1, <1>2, FirstReceived, InputIsCurrent DEF Entered
  <2>2. ~IsMouse /\ worker.connected /\ worker.subscribed
    BY <1>1, <1>2, <2>1 DEF HostInv, RunsOrdered, Active
  <2>3. Alike(worker') /\ worker'.at = "send" /\ worker'.out = <<TapReport(Received), {}>>
    BY <1>1, <1>2 DEF TakeTap, Alike, WorkerType
  <2> QED
    BY <1>1, <2>1, <2>2, <2>3, TypingOn
<1>3. CASE ~Active(Received)
  <2>1. Alike(worker') /\ worker'.at # "send"
    BY <1>1, <1>3 DEF TakeTap, Done, Alike, WorkerType
  <2> QED
    BY <1>1, <2>1, RestingOn DEF Resting
<1> QED
  BY <1>2, <1>3

LEMMA LastOfTail ==
    ASSUME NEW S, NEW s \in Seq(S), s # << >>
    PROVE  /\ Tail(s) # << >> => Tail(s)[Len(Tail(s))] = s[Len(s)]
           /\ Tail(s) = << >> => Head(s) = s[Len(s)]
<1>1. Len(s) \in Nat \ {0} /\ Head(s) = s[1] /\ Len(Tail(s)) = Len(s) - 1
  OBVIOUS
<1>2. \A i \in 1..(Len(s) - 1) : Tail(s)[i] = s[i + 1]
  OBVIOUS
<1>3. Tail(s) = << >> <=> Len(Tail(s)) = 0
  <2>1. Tail(s) \in Seq(S)
    OBVIOUS
  <2>2. \A t \in Seq(S) : t = << >> <=> Len(t) = 0
    OBVIOUS
  <2> QED
    BY <2>1, <2>2
<1> QED
  <2>1. CASE Len(s) = 1
    BY <1>1, <1>3, <2>1
  <2>2. CASE Len(s) # 1
    <3>1. Len(s) - 1 \in 1..(Len(s) - 1)
      BY <1>1, <2>2
    <3> QED
      BY <1>1, <1>2, <1>3, <3>1
  <2> QED
    BY <2>1, <2>2

LEMMA OutputOn ==
    ASSUME InputInv, HostInv, SendReport \/ NextCharacter \/ OutputDone \/ OutputFailed
    PROVE  Onward
<1>1. /\ worker \in WorkerType /\ worker.at = "send" /\ UNCHANGED <<profile, deaf>>
      /\ AfterOutput \in {"receive", "tail"}
  BY Parts DEF SendReport, NextCharacter, OutputDone, OutputFailed, Calls, AfterOutput
<1>2. worker.connected /\ worker.subscribed /\ ~Quiet
  BY <1>1 DEF HostInv, IdleUnlessUsed, Quiet
<1>3. CASE SendReport
  <2>1. /\ worker.out \in Seq(SUBSET Things) /\ worker.out # << >> /\ UNCHANGED <<link, mouse>>
        /\ worker.out[Len(worker.out)] = Down
    BY <1>1, <1>3 DEF SendReport, WorkerType, HostInv, HostTracks
  <2>2. Alike(worker') /\ worker'.at = "send" /\ worker'.out = Tail(worker.out)
    BY <1>1, <1>3 DEF SendReport, Alike, WorkerType
  <2>3. \/ link.up /\ link.on /\ host' = Head(worker.out)
        \/ worker'.failed /\ host' = host
    BY <1>1, <1>3 DEF SendReport, Delivered, Failing, WorkerType
  <2>4. /\ Tail(worker.out) # << >> =>
               Tail(worker.out)[Len(Tail(worker.out))] = worker.out[Len(worker.out)]
        /\ Tail(worker.out) = << >> => Head(worker.out) = worker.out[Len(worker.out)]
    BY <2>1, LastOfTail
  <2>5. Down' = Down
    BY <1>1, <2>1 DEF Down, IsMouse
  <2>6. IdleUnlessUsed'
    BY <1>2, <2>1, <2>2 DEF HostInv, IdleUnlessUsed, Alike
  <2>7. HostTracks'
    BY <1>1, <2>1, <2>2, <2>3, <2>4, <2>5 DEF HostInv, HostTracks
  <2> QED
    BY <1>2, <2>1, <2>2, <2>6, <2>7 DEF Onward, Flows, Alike
<1>4. CASE NextCharacter
  <2>1. /\ Alike(worker') /\ worker'.at = "send" /\ worker'.out = <<TapReport(worker.message), {}>>
        /\ UNCHANGED <<mouse, link, host>>
    BY <1>1, <1>4 DEF NextCharacter, Alike, WorkerType
  <2>2. ~IsMouse
    BY <1>4, Parts DEF NextCharacter, WorkerOK, IsMouse, WorkerType
  <2> QED
    BY <1>1, <1>2, <2>1, <2>2, TypingOn
<1>5. CASE OutputDone
  <2>1. /\ Alike(worker') /\ worker'.at # "send" /\ UNCHANGED <<mouse, link, host>> /\ Resting
    BY <1>1, <1>5 DEF OutputDone, Alike, WorkerType, Resting
  <2> QED
    BY <1>1, <2>1, RestingOn
<1>6. CASE OutputFailed
  BY <1>1, <1>6, RestartOn DEF OutputFailed, OutputRestarts
<1> QED
  BY <1>3, <1>4, <1>5, <1>6

LEMMA TakeReleaseOn == ASSUME InputInv, HostInv, TakeRelease PROVE Onward
<1>1. worker \in WorkerType /\ worker.at = "receive" /\ UNCHANGED <<profile, deaf>>
  BY Parts DEF TakeRelease, Receives, Calls
<1>2. Done(worker) \in WorkerType /\ Alike(Done(worker)) /\ Done(worker).at # "send"
  BY <1>1, NoMessageType DEF Done, Alike, WorkerType
<1> QED
  BY <1>1, <1>2, ReleasedOn, ReleaseFailsOn DEF TakeRelease

LEMMA LinkMessageOn ==
    ASSUME InputInv, HostInv,
           TakeReady \/ TakeWrite \/ TakeSuspend \/ SuspendShown \/ TakeDisconnected \/ TakeStale
    PROVE  Onward
<1>1. worker \in WorkerType /\ worker.at \in {"receive", "ready"} /\ UNCHANGED <<profile, deaf>> /\ InputTypeOK
  BY Parts DEF TakeReady, TakeWrite, TakeSuspend, SuspendShown, TakeDisconnected, TakeStale, FromLink,
               Receives, Calls
<1>2. Done(worker) \in WorkerType /\ Alike(Done(worker)) /\ Done(worker).at # "send"
  BY <1>1, NoMessageType DEF Done, Alike, WorkerType
<1>3. ASSUME worker' = Done(worker), UNCHANGED <<mouse, link, host>> PROVE Onward
  BY <1>1, <1>2, <1>3, RestingOn DEF Resting
<1>4. CASE TakeReady
  <2> DEFINE w == [worker EXCEPT !.connected = TRUE]
  <2>1. w \in WorkerType /\ w.run = worker.run /\ w.at # "send" /\ w.connected
    BY <1>1 DEF WorkerType
  <2>2. EntersUse
    BY <1>1, <1>4, FirstReceived DEF TakeReady, FromLink, EntersUse, Current
  <2>3. Ready(w)
    BY <1>4 DEF TakeReady
  <2> HIDE DEF w
  <2> QED
    BY <1>1, <2>1, <2>2, <2>3, ReadyOn
<1>5. ASSUME Ready(worker), worker.connected PROVE Onward
  BY <1>1, <1>5, ReadyOn
<1>6. CASE TakeWrite
  BY <1>3, <1>5, <1>6 DEF TakeWrite
<1>7. CASE TakeSuspend
  <2> DEFINE w == [worker EXCEPT !.at = "ready", !.suspended = Received.flag]
  <2>1. PICK flag \in BOOLEAN : flag = Received.flag
    <3>1. Received \in Message
      BY <1>7, Receiving, Parts DEF TakeSuspend, FromLink
    <3> QED
      BY <3>1, FlagType
  <2>2. w \in WorkerType /\ Alike(w) /\ w.at # "send"
    <3>1. w = [worker EXCEPT !.at = "ready", !.suspended = flag]
      BY <2>1
    <3> QED
      BY <1>1, <3>1 DEF WorkerType, Alike
  <2>3. \/ Released(w)
        \/ ReleaseFails("tail")
        \/ worker' = w /\ UNCHANGED <<mouse, link, host>>
    BY <1>7 DEF TakeSuspend
  <2> HIDE DEF w
  <2>4. CASE worker' = w /\ UNCHANGED <<mouse, link, host>>
    BY <1>1, <2>2, <2>4, RestingOn DEF Resting
  <2> QED
    BY <1>1, <2>2, <2>3, <2>4, ReleasedOn, ReleaseFailsOn
<1>8. CASE SuspendShown
  BY <1>3, <1>5, <1>8 DEF SuspendShown
<1>9. CASE TakeDisconnected
  <2>1. CASE worker.connected
    <3>1. 1 \in 1..Len(queue) /\ Received = queue[1] /\ Current(queue[1], "DISCONNECTED")
      BY <1>1, <1>9, FirstReceived DEF TakeDisconnected, FromLink, Current
    <3>2. host = {}
      BY <3>1 DEF HostInv, UnusedBehindEnd, HostTracks
    <3>3. Restart("tail") /\ host' = {}
      BY <1>9, <2>1, <3>2 DEF TakeDisconnected
    <3> QED
      BY <1>1, <3>3, RestartOn
  <2>2. CASE ~worker.connected
    <3>1. mouse.buttons = {}
      BY <2>2 DEF HostInv, IdleUnlessUsed
    <3>2. worker' = Done(worker) /\ mouse' = Idle /\ UNCHANGED <<link, host>>
      BY <1>9, <2>2 DEF TakeDisconnected
    <3> QED
      BY <1>1, <1>2, <3>1, <3>2, RestingOn, IdleIsDown DEF Resting
  <2> QED
    BY <2>1, <2>2
<1>10. CASE TakeStale
  BY <1>3, <1>10 DEF TakeStale
<1> QED
  BY <1>4, <1>6, <1>7, <1>8, <1>9, <1>10

LEMMA IterationOn == ASSUME InputInv, HostInv, NothingReceived \/ EndIteration \/ Tick PROVE Onward
<1>1. worker \in WorkerType /\ worker.at # "send" /\ UNCHANGED <<profile, deaf>>
  BY Parts DEF NothingReceived, EndIteration, Tick, Calls
<1>2. \A w \in {Waiting(worker), Done(worker), Ticking(worker)} : Alike(w) /\ w.at # "send"
  BY <1>1 DEF Waiting, Done, Ticking, Alike, WorkerType
<1>3. Waiting(worker) \in WorkerType
  BY <1>1, NoMessageType DEF Waiting, WorkerType
<1>4. ASSUME worker' \in {Waiting(worker), Done(worker), Ticking(worker)}, UNCHANGED <<mouse, link, host>>
      PROVE  Onward
  BY <1>1, <1>2, <1>4, RestingOn DEF Resting
<1>5. CASE NothingReceived
  BY <1>4, <1>5 DEF NothingReceived
<1>6. CASE EndIteration
  <2>1. CASE Released(Waiting(worker))
    BY <1>1, <1>2, <1>3, <2>1, ReleasedOn
  <2>2. CASE ReleaseFails("receive")
    BY <1>1, <2>2, ReleaseFailsOn
  <2> QED
    BY <1>4, <1>6, <2>1, <2>2 DEF EndIteration
<1>7. CASE Tick
  <2>1. CASE worker' = Waiting(worker)
    BY <1>4, <1>7, <2>1 DEF Tick
  <2>2. CASE /\ IsMouse /\ Active(worker.message) /\ mouse.movement # None
             /\ worker' = [worker EXCEPT !.at = "send", !.out = <<mouse.buttons>>]
    <3>1. Alike(worker') /\ worker'.at = "send" /\ worker'.out = <<mouse.buttons>>
          /\ UNCHANGED <<mouse, link, host>>
      BY <1>1, <1>7, <2>2 DEF Alike, WorkerType, Tick
    <3>2. worker'.out # << >> /\ worker'.out[Len(worker'.out)] = mouse.buttons
      BY <3>1
    <3>3. Down' = mouse.buttons
      BY <1>1, <2>2, <3>1 DEF Down, IsMouse
    <3>4. IdleUnlessUsed'
      BY <2>2, <3>1 DEF HostInv, IdleUnlessUsed, Alike, Active
    <3>5. HostTracks'
      BY <1>1, <3>1, <3>2, <3>3 DEF HostInv, HostTracks
    <3> QED
      BY <2>2, <3>1, <3>4, <3>5 DEF Onward, Flows, Alike, Quiet
  <2> QED
    BY <1>7, <2>1, <2>2 DEF Tick
<1> QED
  BY <1>5, <1>6, <1>7

LEMMA WorkerOn == ASSUME InputInv, HostInv, Worker PROVE Onward
  BY TakeMouseOn, TakeTapOn, OutputOn, TakeReleaseOn, LinkMessageOn, IterationOn DEF Worker

LEMMA WorkerTakes == Worker => queue' = queue \/ Turn
  BY DEF Worker, TakeMouse, TakeTap, SendReport, NextCharacter, OutputDone, OutputFailed, TakeRelease,
         TakeReady, TakeWrite, TakeSuspend, SuspendShown, TakeDisconnected, TakeStale, FromLink, Receives, Turn,
         NothingReceived, EndIteration, Tick

LEMMA WorkerHost == ASSUME InputInv, InputInv', HostInv, Worker PROVE HostInv'
<1>1. /\ Onward /\ (queue' = queue \/ Turn) /\ queue \in Seq(Message) /\ profile' = profile
      /\ worker.run \in Nat /\ worker'.run \in Nat
  BY WorkerOn, WorkerTakes, WorkerCalls DEF Calls, InputInv, InputTypeOK, WorkerType
<1>2. PICK d \in {0, 1} : /\ \A i \in 1..Len(queue') : i + d \in 1..Len(queue) /\ queue'[i] = queue[i + d]
                          /\ d = 0 => queue' = queue
                          /\ d = 1 => Turn
  <2>1. CASE queue' = queue
    <3>1. \A i \in 1..Len(queue') : i + 0 \in 1..Len(queue) /\ queue'[i] = queue[i + 0]
      BY <1>1, <2>1
    <3> QED
      BY <2>1, <3>1
  <2>2. CASE Turn
    <3>1. \A i \in 1..Len(queue') : i + 1 \in 1..Len(queue) /\ queue'[i] = queue[i + 1]
      BY <1>1, <2>2 DEF Turn
    <3> QED
      BY <2>2, <3>1
  <2> QED
    BY <1>1, <2>1, <2>2
<1>3. \A i \in 1..Len(queue) : queue[i].run \in Nat
  BY <1>1 DEF Message
<1>4. \A i \in 1..Len(queue') : i \in Nat
  OBVIOUS
<1>5. EntersUse => d = 1 \/ Len(queue') = 0
  BY <1>1, <1>2 DEF EntersUse, Turn
<1>6. RunsOrdered'
  <2>1. IsMouse' = IsMouse
    BY <1>1 DEF IsMouse
  <2>2. CASE worker'.run = worker.run + 1 /\ worker'.connected = FALSE
    <3>1. \A i \in 1..Len(queue') : queue'[i].run < worker'.run
      BY <1>1, <1>2, <1>3, <2>2 DEF HostInv, RunsOrdered
    <3>2. \A i \in 1..Len(queue') :
             (queue'[i].type = "MOUSE" => IsMouse) /\ (queue'[i].type = "TAP" => ~IsMouse)
      BY <1>2 DEF HostInv, RunsOrdered
    <3>3. \A i \in 1..Len(queue') : queue'[i].run \in Nat
      BY <1>2, <1>3
    <3> QED
      BY <1>1, <2>1, <2>2, <3>1, <3>2, <3>3 DEF RunsOrdered, Current
  <2>3. CASE /\ worker'.run = worker.run
             /\ worker'.connected => worker.connected \/ EntersUse
             /\ worker'.state = "RECONNECTING" => worker.state = "RECONNECTING"
    <3>1. \A i \in 1..Len(queue') : queue'[i].run <= worker'.run
      BY <1>1, <1>2, <2>3 DEF HostInv, RunsOrdered
    <3>2. \A i \in 1..Len(queue') :
             (queue'[i].type = "MOUSE" => IsMouse) /\ (queue'[i].type = "TAP" => ~IsMouse)
      BY <1>2 DEF HostInv, RunsOrdered
    <3>3. ASSUME NEW i \in 1..Len(queue'), worker'.connected, Entered(queue'[i])
          PROVE  queue'[i].run = worker'.run
      <4>1. CASE worker.connected
        BY <1>2, <2>3, <3>3, <4>1 DEF HostInv, RunsOrdered
      <4>2. CASE EntersUse
        <5>1. d = 1 /\ 1 \in 1..Len(queue) /\ i + 1 \in 1..Len(queue) /\ 1 < i + 1
          <6>1. Len(queue') # 0
            OBVIOUS
          <6>2. d = 1
            BY <1>5, <4>2, <6>1
          <6>3. queue # << >> /\ Len(queue) \in Nat /\ i \in Nat /\ i > 0
            BY <1>1, <4>2 DEF EntersUse, Turn
          <6>4. i + 1 \in 1..Len(queue)
            BY <1>2, <6>2
          <6> QED
            BY <6>2, <6>3, <6>4
        <5>2. Current(queue[1], "READY") /\ Entered(queue[i + 1])
          BY <1>2, <3>3, <4>2, <5>1 DEF EntersUse
        <5> QED
          BY <1>2, <2>3, <5>1, <5>2 DEF HostInv, RunsOrdered
      <4> QED
        BY <2>3, <3>3, <4>1, <4>2
    <3>4. \A i \in 1..Len(queue') :
             worker'.state = "RECONNECTING" /\ Entered(queue'[i]) => queue'[i].run < worker'.run
      BY <1>2, <2>3 DEF HostInv, RunsOrdered
    <3>5. \A i, j \in 1..Len(queue') :
             /\ i < j /\ queue'[i].type = "READY" /\ queue'[i].run = worker'.run
             /\ Entered(queue'[j])
             => queue'[j].run = worker'.run
      <4> SUFFICES ASSUME NEW i \in 1..Len(queue'), NEW j \in 1..Len(queue'), i < j,
                          queue'[i].type = "READY", queue'[i].run = worker'.run, Entered(queue'[j])
                   PROVE  queue'[j].run = worker'.run
        OBVIOUS
      <4>1. i + d < j + d
        OBVIOUS
      <4> QED
        BY <1>2, <2>3, <4>1 DEF HostInv, RunsOrdered, Current
    <3> QED
      BY <2>1, <3>1, <3>2, <3>3, <3>4, <3>5 DEF RunsOrdered, Current, Entered
  <2> QED
    BY <1>1, <2>2, <2>3 DEF Onward, Flows
<1>7. UnusedBehindEnd'
  <2> SUFFICES ASSUME link'.up, NEW i \in 1..Len(queue'),
                      queue'[i].type = "DISCONNECTED", queue'[i].run = worker'.run
               PROVE  /\ host' = {} /\ mouse'.buttons = {} /\ mouse'.movement = None /\ worker'.at # "send"
                      /\ \A j \in 1..(i - 1) : Entered(queue'[j]) => queue'[j].run # worker'.run
    BY DEF UnusedBehindEnd, Current, Entered
  <2>1. worker'.run = worker.run /\ (Quiet => Quiet' \/ UsesInput) /\ link.up
    <3>1. queue[i + d].run <= worker.run
      BY <1>2 DEF HostInv, RunsOrdered
    <3> QED
      BY <1>1, <1>2, <3>1 DEF Onward, Flows
  <2>2. i + d \in 1..Len(queue) /\ Current(queue[i + d], "DISCONNECTED")
    BY <1>2, <2>1 DEF Current
  <2>3. Quiet /\ \A j \in 1..((i + d) - 1) : Entered(queue[j]) => queue[j].run # worker.run
    BY <2>1, <2>2 DEF HostInv, UnusedBehindEnd, Quiet
  <2>4. \A j \in 1..(i - 1) : j + d \in 1..((i + d) - 1) /\ j \in 1..Len(queue')
    OBVIOUS
  <2>5. ~UsesInput \/ Quiet'
    <3>1. CASE UsesInput
      <4>1. i + d = 1
        <5>1. 1 \notin 1..((i + d) - 1)
          BY <2>3, <3>1 DEF UsesInput
        <5> QED
          BY <5>1
      <4>2. queue[1].type = "DISCONNECTED"
        BY <2>2, <4>1 DEF Current
      <4> QED
        BY <3>1, <4>2 DEF UsesInput, Entered
    <3> QED
      BY <3>1
  <2>6. Quiet'
    BY <2>1, <2>3, <2>5
  <2> QED
    BY <1>2, <2>1, <2>3, <2>4, <2>6 DEF Quiet
<1> QED
  BY <1>1, <1>6, <1>7 DEF HostInv, Onward

-----------------------------------------------------------------------------
(* Steps of the other tasks: they change no connection, and queue behind   *)
(* what is there.                                                          *)

LEMMA UnmovedKeepsHost ==
    ASSUME HostInv, UNCHANGED <<profile, queue, worker, mouse, link, host, deaf>>
    PROVE  HostInv'
<1>1. IsMouse' = IsMouse
  BY DEF IsMouse
<1>2. RunsOrdered'
  BY <1>1 DEF HostInv, RunsOrdered, Current, Entered
<1>3. UnusedBehindEnd'
  BY DEF HostInv, UnusedBehindEnd, Current, Entered
<1>4. IdleUnlessUsed' /\ HostTracks'
  BY <1>1 DEF HostInv, IdleUnlessUsed, HostTracks, Down
<1> QED
  BY <1>2, <1>3, <1>4 DEF HostInv

LEMMA Appended ==
    ASSUME InputTypeOK, NEW m, queue' = Append(queue, m)
    PROVE  /\ Len(queue) \in Nat
           /\ \A i \in 1..Len(queue) : i \in 1..Len(queue') /\ queue'[i] = queue[i]
           /\ \A i \in 1..Len(queue') :
                 \/ i \in 1..Len(queue) /\ queue'[i] = queue[i]
                 \/ i = Len(queue) + 1 /\ queue'[i] = m
<1>1. queue \in Seq(Message) /\ Len(queue) \in Nat
  BY DEF InputTypeOK
<1>2. Len(queue') = Len(queue) + 1
  BY <1>1
<1>3. queue'[Len(queue) + 1] = m /\ \A i \in 1..Len(queue) : queue'[i] = queue[i]
  BY <1>1
<1>4. \A i \in 1..Len(queue') : i \in 1..Len(queue) \/ i = Len(queue) + 1
  BY <1>1, <1>2
<1>5. \A i \in 1..Len(queue) : i \in 1..Len(queue')
  BY <1>1, <1>2
<1> QED
  BY <1>1, <1>3, <1>4, <1>5

LEMMA QueuedKeepsRuns ==
    ASSUME InputTypeOK, RunsOrdered, NEW m, queue' = Append(queue, m), UNCHANGED <<profile, worker>>,
           m.run = worker.run, m.type = "MOUSE" => IsMouse, m.type = "TAP" => ~IsMouse,
           Entered(m) => worker.state # "RECONNECTING"
    PROVE  RunsOrdered'
<1>1. IsMouse' = IsMouse /\ worker.run \in Nat
  BY DEF IsMouse, InputTypeOK, WorkerType
<1>2. /\ \A i \in 1..Len(queue') : (i \in 1..Len(queue) /\ queue'[i] = queue[i]) \/ (i = Len(queue) + 1 /\ queue'[i] = m)
      /\ Len(queue) \in Nat
  BY Appended
<1>3. ASSUME NEW i \in 1..Len(queue')
      PROVE  /\ queue'[i].run <= worker.run
             /\ queue'[i].type = "MOUSE" => IsMouse
             /\ queue'[i].type = "TAP" => ~IsMouse
             /\ worker.connected /\ Entered(queue'[i]) => queue'[i].run = worker.run
             /\ worker.state = "RECONNECTING" /\ Entered(queue'[i]) => queue'[i].run < worker.run
  BY <1>1, <1>2, <1>3 DEF RunsOrdered
<1>4. ASSUME NEW i \in 1..Len(queue'), NEW j \in 1..Len(queue'), i < j,
             queue'[i].type = "READY", queue'[i].run = worker.run, Entered(queue'[j])
      PROVE  queue'[j].run = worker.run
  <2>1. CASE queue'[j] = m
    BY <2>1
  <2>2. CASE j \in 1..Len(queue) /\ queue'[j] = queue[j]
    <3>1. i \in 1..Len(queue) /\ queue'[i] = queue[i]
      BY <1>2, <1>4, <2>2
    <3> QED
      BY <1>4, <2>2, <3>1 DEF RunsOrdered, Current
  <2> QED
    BY <1>2, <2>1, <2>2
<1> QED
  BY <1>1, <1>3, <1>4 DEF RunsOrdered, Current, Entered

LEMMA QueuedKeepsEnd ==
    ASSUME InputTypeOK, UnusedBehindEnd, NEW m, queue' = Append(queue, m), m.type # "DISCONNECTED", link.up,
           UNCHANGED <<worker, mouse, host>>
    PROVE  UnusedBehindEnd'
<1>1. /\ \A i \in 1..Len(queue') : (i \in 1..Len(queue) /\ queue'[i] = queue[i]) \/ (i = Len(queue) + 1 /\ queue'[i] = m)
      /\ Len(queue) \in Nat /\ \A i \in 1..Len(queue) : queue'[i] = queue[i]
  BY Appended
<1> SUFFICES ASSUME NEW i \in 1..Len(queue'), queue'[i].type = "DISCONNECTED", queue'[i].run = worker.run
             PROVE  /\ host = {} /\ mouse.buttons = {} /\ mouse.movement = None /\ worker.at # "send"
                    /\ \A j \in 1..(i - 1) : Entered(queue'[j]) => queue'[j].run # worker.run
  BY DEF UnusedBehindEnd, Current, Entered
<1>2. i \in 1..Len(queue) /\ Current(queue[i], "DISCONNECTED")
  BY <1>1 DEF Current
<1>3. \A j \in 1..(i - 1) : j \in 1..Len(queue) /\ queue'[j] = queue[j]
  BY <1>1, <1>2
<1> QED
  BY <1>2, <1>3 DEF UnusedBehindEnd

\* What the screen asks for, and what the host does with a link that stays.
LEMMA QueuedKeepsHost ==
    ASSUME InputInv, HostInv, NEW m, queue' \in {queue, Append(queue, m)},
           m.run = worker.run, m.type # "DISCONNECTED", m.type = "MOUSE" => IsMouse, m.type = "TAP" => ~IsMouse,
           Entered(m) => worker.state # "RECONNECTING",
           UNCHANGED <<profile, worker, mouse, link, host, deaf>>
    PROVE  HostInv'
<1>1. CASE queue' = queue
  BY <1>1, UnmovedKeepsHost
<1>2. CASE queue' = Append(queue, m)
  <2>1. RunsOrdered'
    BY <1>2, QueuedKeepsRuns DEF HostInv, InputInv
  <2>2. UnusedBehindEnd'
    <3>1. CASE link.up
      BY <1>2, <3>1, QueuedKeepsEnd DEF HostInv, InputInv
    <3>2. CASE ~link.up
      BY <3>2 DEF UnusedBehindEnd
    <3> QED
      BY <3>1, <3>2
  <2>3. IdleUnlessUsed' /\ HostTracks'
    BY DEF HostInv, IdleUnlessUsed, HostTracks, Down, IsMouse
  <2> QED
    BY <2>1, <2>2, <2>3 DEF HostInv
<1> QED
  BY <1>1, <1>2

LEMMA MsgFields ==
    ASSUME NEW type, NEW input, NEW flag
    PROVE  Msg(type, input, flag).type = type /\ Msg(type, input, flag).run = worker.run
  BY DEF Msg

LEMMA UiTurnKeepsHost == ASSUME InputInv, HostInv, UiTurn PROVE HostInv'
<1>1. ASSUME NEW long, NEW u, TypesKey, Tap(long, u) PROVE HostInv'
  <2> DEFINE m == Msg("TAP", Carried(Event), long)
  <2>1. m.type = "TAP" /\ m.run = worker.run
    BY DEF Msg
  <2>2. /\ ~IsMouse /\ (queue' = queue \/ (Reports /\ queue' = Append(queue, m)))
        /\ UNCHANGED <<profile, worker, mouse, link, host, deaf>>
    BY <1>1 DEF Tap, TypesKey
  <2> HIDE DEF m
  <2>3. CASE queue' = queue
    BY <2>2, <2>3, UnmovedKeepsHost
  <2>4. CASE Reports /\ queue' = Append(queue, m)
    BY <2>1, <2>2, <2>4, QueuedKeepsHost DEF Reports
  <2> QED
    BY <2>2, <2>3, <2>4
<1>2. CASE QueueRelease
  <2> DEFINE m == Msg("RELEASE", None, FALSE)
  <2>1. m.type = "RELEASE" /\ m.run = worker.run
    BY DEF Msg
  <2>2. queue' \in {queue, Append(queue, m)} /\ UNCHANGED <<profile, worker, mouse, link, host, deaf>>
    BY <1>2 DEF QueueRelease
  <2> HIDE DEF m
  <2> QED
    BY <2>1, <2>2, QueuedKeepsHost DEF Entered
<1>3. CASE MouseInput
  <2> DEFINE m == Msg("MOUSE", Carried(Event), FALSE)
  <2>1. m.type = "MOUSE" /\ m.run = worker.run
    BY DEF Msg
  <2>2. queue' \in {queue, Append(queue, m)} /\ IsMouse /\ UNCHANGED <<profile, worker, mouse, link, host, deaf>>
    BY <1>3 DEF MouseInput
  <2>3. Reports
    BY <1>3 DEF MouseInput, Wanted, IsMouse
  <2> HIDE DEF m
  <2> QED
    BY <2>1, <2>2, <2>3, QueuedKeepsHost DEF Reports
<1>4. CASE EnterRemote \/ LeaveRemote \/ IgnoredEvent \/ PowerPressed
  BY <1>4, UnmovedKeepsHost DEF EnterRemote, LeaveRemote, IgnoredEvent, PowerPressed, inputVars
<1>5. CASE PowerTapped
  BY <1>1, <1>5 DEF PowerTapped
<1>6. CASE KeyTapped
  BY <1>1, <1>6 DEF KeyTapped
<1> QED
  BY <1>2, <1>3, <1>4, <1>5, <1>6 DEF UiTurn

LEMMA HostStepKeepsHost == ASSUME InputInv, HostInv, Host PROVE HostInv'
<1>1. InputTypeOK /\ worker \in WorkerType /\ link \in [up : BOOLEAN, on : BOOLEAN] /\ deaf \in BOOLEAN
  BY Parts DEF InputTypeOK
<1>2. UNCHANGED <<profile, worker, mouse>>
  BY DEF Host, LinkLost, HostReturns, Subscribes, Suspends, Around
<1>3. IdleUnlessUsed' /\ Down' = Down
  BY <1>2 DEF HostInv, IdleUnlessUsed, Down, IsMouse
<1>4. ASSUME NEW type \in {"READY", "WRITE", "SUSPEND", "DISCONNECTED"}, NEW flag, Tells(type, flag)
      PROVE  RunsOrdered' /\ (link.up /\ type # "DISCONNECTED" /\ UNCHANGED host => UnusedBehindEnd')
  <2> DEFINE m == Msg(type, None, flag)
  <2>1. m.type = type /\ m.run = worker.run
    BY DEF Msg
  <2>2. queue' \in {queue, Append(queue, m)}
    BY <1>4 DEF Tells
  <2> HIDE DEF m
  <2>3. CASE queue' = queue
    BY <1>2, <2>3 DEF HostInv, RunsOrdered, UnusedBehindEnd, Current, Entered, IsMouse
  <2>4. CASE queue' = Append(queue, m)
    <3>1. RunsOrdered'
      BY <1>1, <1>2, <2>1, <2>4, QueuedKeepsRuns DEF HostInv, Entered
    <3>2. link.up /\ type # "DISCONNECTED" /\ UNCHANGED host => UnusedBehindEnd'
      BY <1>1, <1>2, <2>1, <2>4, QueuedKeepsEnd DEF HostInv
    <3> QED
      BY <3>1, <3>2
  <2> QED
    BY <2>2, <2>3, <2>4
<1>5. CASE LinkLost
  <2>1. link' = [link EXCEPT !.up = FALSE] /\ host' = {}
    BY <1>5 DEF LinkLost
  <2>2. link'.up = FALSE
    BY <1>1, <2>1
  <2>3. RunsOrdered'
    BY <1>4, <1>5 DEF LinkLost
  <2>4. UnusedBehindEnd'
    BY <2>2 DEF UnusedBehindEnd
  <2>5. HostTracks'
    BY <1>2, <1>3, <2>1, <2>2 DEF HostInv, HostTracks
  <2> QED
    BY <1>3, <2>3, <2>4, <2>5 DEF HostInv
<1>6. CASE HostReturns
  <2>1. /\ ~link.up /\ worker.state = "RECONNECTING" /\ link' = [up |-> TRUE, on |-> TRUE] /\ host' = host
        /\ Tells("READY", FALSE)
    BY <1>6 DEF HostReturns
  <2>2. link'.on
    BY <2>1
  <2>3. host = {} /\ mouse.buttons = {} /\ mouse.movement = None /\ worker.at # "send" /\ Down = {}
    BY <2>1 DEF HostInv, HostTracks, IdleUnlessUsed, Down
  <2>4. RunsOrdered'
    BY <1>4, <2>1
  <2>5. UnusedBehindEnd'
    <3>1. \A i \in 1..Len(queue') : Entered(queue'[i]) => queue'[i].run # worker.run
      <4> DEFINE m == Msg("READY", None, FALSE)
      <4>1. m.type = "READY"
        BY MsgFields
      <4>2. queue' \in {queue, Append(queue, m)}
        BY <2>1 DEF Tells
      <4> HIDE DEF m
      <4>3. \A i \in 1..Len(queue) : Entered(queue[i]) => queue[i].run # worker.run
        <5>1. worker.run \in Nat
          BY <1>1 DEF WorkerType
        <5>2. \A i \in 1..Len(queue) : Entered(queue[i]) => queue[i].run < worker.run
          BY <2>1 DEF HostInv, RunsOrdered
        <5>3. ~(worker.run < worker.run)
          BY <5>1
        <5> QED
          BY <5>2, <5>3
      <4>4. CASE queue' = queue
        BY <4>3, <4>4
      <4>5. CASE queue' = Append(queue, m)
        BY <1>1, <4>1, <4>3, <4>5, Appended DEF Entered
      <4> QED
        BY <4>2, <4>4, <4>5
    <3>2. Len(queue') \in Nat
      <4>1. queue \in Seq(Message) /\ Len(queue) \in Nat
        BY <1>1 DEF InputTypeOK
      <4> QED
        BY <2>1, <4>1 DEF Tells
    <3>3. \A i \in 1..Len(queue') : \A j \in 1..(i - 1) : j \in 1..Len(queue')
      BY <3>2
    <3> QED
      BY <1>2, <2>1, <2>3, <3>1, <3>3 DEF UnusedBehindEnd, Entered
  <2>6. HostTracks'
    BY <1>2, <1>3, <2>1, <2>2, <2>3 DEF HostInv, HostTracks
  <2> QED
    BY <1>3, <2>4, <2>5, <2>6 DEF HostInv
<1>7. CASE Subscribes
  <2>1. /\ link.up /\ link' = [link EXCEPT !.on = ~@] /\ deaf' = (deaf \/ host # {}) /\ host' = host
        /\ Tells("WRITE", FALSE)
    BY <1>7 DEF Subscribes
  <2>2. link'.up
    BY <1>1, <2>1
  <2>3. ~deaf' => ~deaf /\ host = {}
    BY <2>1
  <2>4. RunsOrdered' /\ UnusedBehindEnd'
    BY <1>4, <2>1
  <2>5. HostTracks'
    BY <1>2, <1>3, <2>1, <2>2, <2>3 DEF HostInv, HostTracks
  <2> QED
    BY <1>3, <2>4, <2>5 DEF HostInv
<1>8. CASE Suspends
  <2>1. link.up /\ UNCHANGED <<link, host, deaf>>
    BY <1>8 DEF Suspends
  <2>2. PICK flag \in BOOLEAN : Tells("SUSPEND", flag)
    BY <1>8 DEF Suspends
  <2>3. RunsOrdered' /\ UnusedBehindEnd'
    BY <1>4, <2>1, <2>2
  <2>4. HostTracks'
    BY <1>2, <1>3, <2>1 DEF HostInv, HostTracks
  <2> QED
    BY <1>3, <2>3, <2>4 DEF HostInv
<1> QED
  BY <1>5, <1>6, <1>7, <1>8 DEF Host

LEMMA HostStarts == Init => HostInv
<1> SUFFICES ASSUME Init PROVE HostInv
  OBVIOUS
<1>1. Len(queue) = 0 /\ worker.at = "receive" /\ worker.state = "CONNECTED" /\ worker.connected /\ worker.subscribed
  BY DEF Init, InputInit
<1>2. mouse.buttons = {} /\ host = {} /\ link.up /\ link.on
  BY IdleIsDown DEF Init, InputInit
<1> QED
  BY <1>1, <1>2 DEF HostInv, RunsOrdered, IdleUnlessUsed, UnusedBehindEnd, HostTracks, Down

LEMMA HostSteps == InputInv /\ HostInv /\ [Next]_vars => HostInv'
<1> SUFFICES ASSUME InputInv, HostInv, [Next]_vars PROVE HostInv'
  OBVIOUS
<1>1. CASE UNCHANGED vars
  BY <1>1, UnmovedKeepsHost DEF vars, inputVars
<1>2. CASE Key
  BY <1>2, UnmovedKeepsHost DEF Key
<1>3. CASE UiTurn
  BY <1>3, UiTurnKeepsHost
<1>4. CASE Worker
  <2>1. InputInv'
    BY <1>4, WorkerStepKeeps
  <2> QED
    BY <1>4, <2>1, WorkerHost
<1>5. CASE Host
  BY <1>5, HostStepKeepsHost
<1> QED
  BY <1>1, <1>2, <1>3, <1>4, <1>5 DEF Next

\* Only an input that counts moves the pointer or presses a button.
LEMMA OnlyInputMoves == ASSUME Worker, ~TakeMouse PROVE mouse' \in {mouse, Idle}
<1>1. \A next : Restart(next) => mouse' = Idle
  BY DEF Restart
<1>2. \A next : ReleaseFails(next) => mouse' = Idle
  BY <1>1 DEF ReleaseFails
<1>3. \A w : Released(w) => mouse' = Idle
  BY DEF Released
<1>4. \A w : Ready(w) => mouse' \in {mouse, Idle}
  BY DEF Ready
<1>5. CASE TakeTap \/ SendReport \/ NextCharacter \/ OutputDone \/ TakeStale \/ NothingReceived \/ Tick
  BY <1>5 DEF TakeTap, SendReport, NextCharacter, OutputDone, TakeStale, NothingReceived, Tick
<1>6. CASE OutputFailed \/ TakeRelease \/ TakeReady \/ TakeWrite
  BY <1>1, <1>2, <1>3, <1>4, <1>6 DEF OutputFailed, OutputRestarts, TakeRelease, TakeReady, TakeWrite
<1>7. CASE TakeSuspend \/ SuspendShown \/ TakeDisconnected \/ EndIteration
  BY <1>1, <1>2, <1>3, <1>4, <1>7 DEF TakeSuspend, SuspendShown, TakeDisconnected, EndIteration
<1> QED
  BY <1>5, <1>6, <1>7 DEF Worker

\* A movement begins, or a button goes down.
Starts ==
    \/ mouse'.movement # None /\ mouse'.movement # mouse.movement
    \/ mouse'.buttons \ mouse.buttons # {}

LEMMA StartsWithInput == InputInv /\ HostInv /\ [Next]_vars /\ Starts => Received.run = worker.run
<1> SUFFICES ASSUME InputInv, HostInv, [Next]_vars, Starts PROVE Received.run = worker.run
  OBVIOUS
<1>1. mouse' # mouse /\ mouse' # Idle
  BY IdleIsDown DEF Starts
<1>2. Worker
  BY <1>1 DEF Next, vars, inputVars, Key, UiTurn, EnterRemote, LeaveRemote, QueueRelease, IgnoredEvent, MouseInput,
              PowerPressed, PowerTapped, KeyTapped, Tap, Host, LinkLost, HostReturns, Subscribes, Suspends, Around
<1>3. TakeMouse
  BY <1>1, <1>2, OnlyInputMoves
<1>4. Receives /\ Entered(Received) /\ Active(Received)
  BY <1>1, <1>3 DEF TakeMouse, Entered
<1>5. InputTypeOK
  BY DEF InputInv
<1> QED
  BY <1>4, <1>5, InputIsCurrent, FirstReceived DEF UsesInput

(* The host is right: whenever the worker waits, a host that is connected  *)
(* and listens believes down exactly the buttons the mouse (bt_mouse.c)    *)
(* has down, and no key of a keyboard, unless it once stopped listening    *)
(* with something down. For any queue length and any number of failing     *)
(* reports, lost links, returns, suspensions and subscriptions, in any     *)
(* order: a failed send drops the link (bt_runtime.c 600), and a link that *)
(* comes back before its end is taken from the queue carries nothing yet.  *)
THEOREM HostIsRight == Spec => []HostAgrees
<1>1. HostInv => HostAgrees
  BY DEF HostInv, HostTracks, HostAgrees, Down
<1> QED
  BY <1>1, InputStarts, InputSteps, HostStarts, HostSteps, PTL DEF Spec

(* "Reconnection starts idle; explicitly start movement and button hold    *)
(* again" (docs/bluetooth-mouse.md 85), for any queue length: the READY of *)
(* a connection is queued behind every input of the ones before it, and    *)
(* output_active (bt_runtime.c) refuses them until it is taken.            *)
THEOREM ConnectionsStartIdle == Spec => ReconnectsIdle
<1>1. InputInv /\ HostInv /\ [Next]_vars =>
        [\/ mouse'.movement # None /\ mouse'.movement # mouse.movement
         \/ mouse'.buttons \ mouse.buttons # {}
         => Received.run = worker.run]_vars
  BY StartsWithInput DEF Starts
<1> QED
  BY <1>1, InputStarts, InputSteps, HostStarts, HostSteps, PTL DEF Spec, ReconnectsIdle

-----------------------------------------------------------------------------
(* What moves, and the release that will stop it.                          *)

\* An input that will be accepted if the connection stays in use.
Counts(m) == m.type = "MOUSE" /\ m.generation = generation /\ m.run = worker.run
Begins(e) == e.kind \in {"press", "hold"}

\* Key k is down, or the screen has its release before it, or it was dropped.
EndsAhead(k) ==
    \/ pad.key = k
    \/ \E j \in 1..Len(uiQ) : IsRelease(uiQ[j], k)
    \/ "release" \in lost

\* Behind an event that begins something comes the one that ends it, wherever it is.
EventsEnd ==
    \A i \in 1..Len(uiQ) : Begins(uiQ[i]) =>
        \/ pad.key = uiQ[i].key
        \/ \E j \in 1..Len(uiQ) : i < j /\ IsRelease(uiQ[j], uiQ[i].key)
        \/ "release" \in lost
InputsEnd ==
    \A i \in 1..Len(queue) : Counts(queue[i]) /\ Begins(queue[i].input) =>
        /\ queue[i].input.key \in Assigned(profile)
        /\ \/ EndsAhead(queue[i].input.key)
           \/ \E j \in 1..Len(queue) :
                 i < j /\ queue[j].type = "MOUSE" /\ IsRelease(queue[j].input, queue[i].input.key)
MovementEnds ==
    mouse.movement # None /\ FollowsKey /\ worker.mouse_generation = generation =>
        \/ EndsAhead(mouse.movement)
        \/ \E j \in 1..Len(queue) : queue[j].type = "MOUSE" /\ IsRelease(queue[j].input, mouse.movement)

\* What is queued is numbered in its order; the mouse never runs ahead of it.
Generations ==
    /\ worker.mouse_generation <= generation
    /\ \A i \in 1..Len(queue) :
          /\ queue[i].generation <= generation
          /\ \A j \in 1..Len(queue) : i < j => queue[i].generation <= queue[j].generation
          /\ mouse.movement # None /\ worker.mouse_generation = generation => queue[i].generation = generation

\* Nothing counts on the menu; on the remote screen, what counts is listened to.
Listened ==
    /\ ui.screen = "menu" =>
          /\ mouse.movement = None \/ worker.mouse_generation # generation
          /\ \A i \in 1..Len(queue) : ~Counts(queue[i])
    /\ worker.connected /\ worker.subscribed => Reports
    /\ worker.state \in {"RECONNECTING", "ERROR"} => \A i \in 1..Len(queue) : ~Counts(queue[i])

MovementKnown ==
    mouse.movement # None =>
        /\ IsMouse /\ mouse.movement \in Assigned(profile)
        /\ profile = "patterns" /\ mouse.momentary => mouse.pattern = mouse.movement

FingerInv == EventsEnd /\ InputsEnd /\ MovementEnds /\ Generations /\ Listened /\ MovementKnown

\* No input that counts is queued while the worker shows a host that does not listen.
NoneWaits == worker.state = "CONNECTING" => \A i \in 1..Len(queue) : ~Counts(queue[i])

\* Events reach the screen in the order they were posted, or are counted as lost.
LEMMA Emitted ==
    ASSUME KeypadTypeOK, NEW events \in Seq(UiEvent), Emit(events)
    PROVE  /\ Len(uiQ) \in Nat /\ lost \subseteq lost'
           /\ \A i \in 1..Len(uiQ) : i \in 1..Len(uiQ') /\ uiQ'[i] = uiQ[i]
           /\ \A i \in 1..Len(uiQ') : \/ i \in 1..Len(uiQ)
                                      \/ Len(uiQ) < i /\ \E j \in 1..Len(events) : uiQ'[i] = events[j]
           /\ \A j \in 1..Len(events) :
                 \/ events[j].kind \in lost'
                 \/ \E i \in 1..Len(uiQ') : Len(uiQ) < i /\ uiQ'[i] = events[j]
<1> DEFINE all == uiQ \o events
           fit == IF Len(all) < UiCap THEN Len(all) ELSE UiCap
<1>1. /\ all \in Seq(UiEvent) /\ Len(all) = Len(uiQ) + Len(events) /\ Len(all) \in Nat
      /\ \A i \in 1..Len(all) : all[i] = IF i <= Len(uiQ) THEN uiQ[i] ELSE events[i - Len(uiQ)]
  BY DEF KeypadTypeOK
<1>2. Len(uiQ) \in Nat /\ Len(events) \in Nat /\ Len(uiQ) <= UiCap /\ UiCap \in Nat
  BY KeypadAssumption DEF KeypadTypeOK
<1>3. fit \in 0..Len(all) /\ Len(uiQ) <= fit
  BY <1>1, <1>2
<1>4. uiQ' = SubSeq(all, 1, fit) /\ lost' = lost \cup {all[i].kind : i \in (fit + 1)..Len(all)}
  BY DEF Emit
<1> HIDE DEF all, fit
<1>5. Len(uiQ') = fit /\ \A i \in 1..fit : uiQ'[i] = all[i]
  BY <1>1, <1>3, <1>4
<1>6. \A i \in 1..Len(uiQ) : i \in 1..Len(uiQ') /\ uiQ'[i] = uiQ[i]
  BY <1>1, <1>2, <1>3, <1>5
<1>7. ASSUME NEW i \in 1..Len(uiQ'), i \notin 1..Len(uiQ)
      PROVE  Len(uiQ) < i /\ \E j \in 1..Len(events) : uiQ'[i] = events[j]
  <2>1. i \in Nat /\ Len(uiQ) < i /\ i - Len(uiQ) \in 1..Len(events)
    BY <1>1, <1>2, <1>3, <1>5, <1>7
  <2>2. uiQ'[i] = events[i - Len(uiQ)]
    BY <1>1, <1>2, <1>3, <1>5, <2>1
  <2> QED
    BY <2>1, <2>2
<1>8. ASSUME NEW j \in 1..Len(events)
      PROVE  \/ events[j].kind \in lost'
             \/ \E i \in 1..Len(uiQ') : Len(uiQ) < i /\ uiQ'[i] = events[j]
  <2>1. Len(uiQ) + j \in 1..Len(all) /\ all[Len(uiQ) + j] = events[j] /\ Len(uiQ) < Len(uiQ) + j
    BY <1>1, <1>2
  <2>2. CASE Len(uiQ) + j <= fit
    <3>1. Len(uiQ) + j \in 1..Len(uiQ') /\ uiQ'[Len(uiQ) + j] = events[j]
      BY <1>2, <1>3, <1>5, <2>1, <2>2
    <3> QED
      BY <2>1, <3>1
  <2>3. CASE ~(Len(uiQ) + j <= fit)
    <3>1. Len(uiQ) + j \in (fit + 1)..Len(all)
      BY <1>1, <1>2, <1>3, <2>1, <2>3
    <3> QED
      BY <1>4, <2>1, <3>1
  <2> QED
    BY <2>2, <2>3
<1> QED
  BY <1>2, <1>4, <1>6, <1>7, <1>8

\* What a scan posts begins the key that is down, and ends the one that was.
LEMMA ScanEnds ==
    ASSUME KeypadTypeOK, NEW k \in Keys \cup {NoKey}, Scan(k)
    PROVE  /\ Len(uiQ) \in Nat /\ lost \subseteq lost'
           /\ \A i \in 1..Len(uiQ) : i \in 1..Len(uiQ') /\ uiQ'[i] = uiQ[i]
           /\ \A i \in 1..Len(uiQ') : i \in 1..Len(uiQ) \/ (Begins(uiQ'[i]) => uiQ'[i].key = pad'.key)
           /\ pad.key # NoKey /\ pad'.key # pad.key =>
                 \/ "release" \in lost'
                 \/ \E j \in 1..Len(uiQ') : Len(uiQ) < j /\ IsRelease(uiQ'[j], pad.key)
<1> DEFINE now == IF pad.key = NoKey THEN Wrap - 1 ELSE (clock + 1) % Wrap
<1>1. pad \in PadType /\ now \in 0..(Wrap - 1) /\ pad.age + 1 \in Nat
  <2>1. Wrap - 1 \in 0..(Wrap - 1) /\ clock \in 0..(Wrap - 1)
    BY KeypadAssumption DEF KeypadTypeOK
  <2>2. (clock + 1) % Wrap \in 0..(Wrap - 1)
    BY <2>1, NextTick
  <2> QED
    BY <2>1, <2>2 DEF KeypadTypeOK, PadType
<1> HIDE DEF now
<1>2. CASE k # pad.key /\ Changed(k, now)
  <2> DEFINE press == IF k = NoKey THEN pad.press ELSE pad.press + 1
             Told(kind, key, age, n) ==
                IF key = NoKey THEN << >>
                ELSE <<[kind |-> kind, key |-> key, at |-> now, age |-> age, press |-> n]>>
             old == Told("release", pad.key, pad.age + 1, pad.press)
             new == Told("press", k, 0, press)
  <2>1. Emit(old \o new) /\ pad'.key = k /\ press \in Nat
    BY <1>1, <1>2 DEF Changed, PadType
  <2>2. /\ old \in Seq(UiEvent) /\ Len(old) <= 1
        /\ Len(old) = 1 => IsRelease(old[1], pad.key)
        /\ pad.key # NoKey => Len(old) = 1
    <3>1. CASE pad.key = NoKey
      BY <3>1
    <3>2. CASE pad.key # NoKey
      <4>1. [kind |-> "release", key |-> pad.key, at |-> now, age |-> pad.age + 1, press |-> pad.press] \in UiEvent
        BY <1>1, <3>2 DEF UiEvent, PadType, EventKinds
      <4> QED
        BY <3>2, <4>1 DEF IsRelease
    <3> QED
      BY <3>1, <3>2
  <2>3. /\ new \in Seq(UiEvent) /\ Len(new) <= 1
        /\ Len(new) = 1 => new[1].key = k
    <3>1. CASE k = NoKey
      BY <3>1
    <3>2. CASE k # NoKey
      <4>1. [kind |-> "press", key |-> k, at |-> now, age |-> 0, press |-> press] \in UiEvent
        BY <1>1, <2>1, <3>2 DEF UiEvent, EventKinds
      <4> QED
        BY <3>2, <4>1
    <3> QED
      BY <3>1, <3>2
  <2> HIDE DEF old, new, press
  <2>4. /\ old \o new \in Seq(UiEvent) /\ Len(old \o new) = Len(old) + Len(new)
        /\ Len(old) \in 0..1 /\ Len(new) \in 0..1
        /\ \A j \in 1..Len(old \o new) : (old \o new)[j] = IF j <= Len(old) THEN old[j] ELSE new[j - Len(old)]
    BY <2>2, <2>3, Joined
  <2> DEFINE events == old \o new
  <2>5. \A j \in 1..Len(events) : Begins(events[j]) => events[j].key = k
    BY <2>2, <2>3, <2>4 DEF Begins, IsRelease
  <2>6. pad.key # NoKey => 1 \in 1..Len(events) /\ IsRelease(events[1], pad.key)
    BY <2>2, <2>4
  <2>7. events \in Seq(UiEvent) /\ Emit(events)
    BY <2>1, <2>4
  <2> HIDE DEF events
  <2>8. /\ Len(uiQ) \in Nat /\ lost \subseteq lost'
        /\ \A i \in 1..Len(uiQ) : i \in 1..Len(uiQ') /\ uiQ'[i] = uiQ[i]
        /\ \A i \in 1..Len(uiQ') : i \in 1..Len(uiQ) \/ \E j \in 1..Len(events) : uiQ'[i] = events[j]
        /\ \A j \in 1..Len(events) :
              events[j].kind \in lost' \/ \E i \in 1..Len(uiQ') : Len(uiQ) < i /\ uiQ'[i] = events[j]
    BY <2>7, Emitted
  <2>9. \A i \in 1..Len(uiQ') : i \in 1..Len(uiQ) \/ (Begins(uiQ'[i]) => uiQ'[i].key = pad'.key)
    BY <2>1, <2>5, <2>8
  <2>10. pad.key # NoKey => \/ "release" \in lost'
                            \/ \E j \in 1..Len(uiQ') : Len(uiQ) < j /\ IsRelease(uiQ'[j], pad.key)
    BY <2>6, <2>8 DEF IsRelease
  <2> QED
    BY <2>8, <2>9, <2>10
<1>3. CASE k = pad.key /\ k # NoKey /\ Held(now)
  <2> DEFINE Told(kind, age) ==
                <<[kind |-> kind, key |-> pad.key, at |-> now, age |-> age, press |-> pad.press]>>
             hold == IF LongDue(pad, now) /\ pad.key \in LongKeys THEN Told("hold", pad.age + 1) ELSE << >>
             repeat == IF RepeatDue(pad, now) THEN Told("repeat", pad.age + 1) ELSE << >>
  <2>1. Emit(hold \o repeat) /\ pad'.key = pad.key
    BY <1>1, <1>3 DEF Held, PadType
  <2>2. \A kind \in {"hold", "repeat"} :
            LET e == [kind |-> kind, key |-> pad.key, at |-> now, age |-> pad.age + 1, press |-> pad.press]
            IN  e \in UiEvent /\ e.key = pad.key
    BY <1>1, <1>3 DEF UiEvent, PadType, EventKinds
  <2>3. hold \in Seq(UiEvent) /\ Len(hold) <= 1 /\ (Len(hold) = 1 => hold[1].key = pad.key)
    BY <2>2
  <2>4. repeat \in Seq(UiEvent) /\ Len(repeat) <= 1 /\ (Len(repeat) = 1 => repeat[1].key = pad.key)
    BY <2>2
  <2> HIDE DEF hold, repeat
  <2>5. /\ hold \o repeat \in Seq(UiEvent) /\ Len(hold \o repeat) = Len(hold) + Len(repeat)
        /\ Len(hold) \in 0..1 /\ Len(repeat) \in 0..1
        /\ \A j \in 1..Len(hold \o repeat) :
              (hold \o repeat)[j] = IF j <= Len(hold) THEN hold[j] ELSE repeat[j - Len(hold)]
    BY <2>3, <2>4, Joined
  <2> DEFINE events == hold \o repeat
  <2>6. \A j \in 1..Len(events) : events[j].key = pad.key
    BY <2>3, <2>4, <2>5
  <2>7. events \in Seq(UiEvent) /\ Emit(events)
    BY <2>1, <2>5
  <2> HIDE DEF events
  <2>8. /\ Len(uiQ) \in Nat /\ lost \subseteq lost'
        /\ \A i \in 1..Len(uiQ) : i \in 1..Len(uiQ') /\ uiQ'[i] = uiQ[i]
        /\ \A i \in 1..Len(uiQ') : i \in 1..Len(uiQ) \/ \E j \in 1..Len(events) : uiQ'[i] = events[j]
    BY <2>7, Emitted
  <2> QED
    BY <2>1, <2>6, <2>8
<1> QED
  BY <1>2, <1>3 DEF Scan, now

LEMMA ScanKeepsAhead ==
    ASSUME KeypadTypeOK, NEW k \in Keys \cup {NoKey}, Scan(k), NEW key \in Keys, EndsAhead(key)
    PROVE  EndsAhead(key)'
<1>1. key # NoKey
  BY KeypadAssumption DEF Keys
<1> QED
  BY <1>1, ScanEnds DEF EndsAhead

LEMMA ScanKeepsEvents ==
    ASSUME KeypadTypeOK, NEW k \in Keys \cup {NoKey}, Scan(k), EventsEnd
    PROVE  EventsEnd'
<1> SUFFICES ASSUME NEW i \in 1..Len(uiQ'), Begins(uiQ'[i])
             PROVE  \/ pad'.key = uiQ'[i].key
                    \/ \E j \in 1..Len(uiQ') : i < j /\ IsRelease(uiQ'[j], uiQ'[i].key)
                    \/ "release" \in lost'
  BY DEF EventsEnd, Begins, IsRelease
<1>1. CASE i \in 1..Len(uiQ)
  <2>1. uiQ'[i] = uiQ[i] /\ i \in Nat /\ Len(uiQ) \in Nat /\ i <= Len(uiQ)
    BY <1>1, ScanEnds
  <2>2. uiQ[i].key \in Keys /\ uiQ[i].key # NoKey
    <3>1. uiQ[i] \in UiEvent
      BY <1>1 DEF KeypadTypeOK
    <3> QED
      BY <3>1, KeypadAssumption DEF UiEvent, Keys
  <2>3. CASE pad.key = uiQ[i].key
    <3>1. ASSUME NEW j \in 1..Len(uiQ'), Len(uiQ) < j PROVE i < j
      BY <2>1, <3>1
    <3> QED
      BY <2>1, <2>2, <2>3, <3>1, ScanEnds
  <2>4. CASE "release" \in lost
    BY <2>4, ScanEnds
  <2>5. ASSUME NEW j \in 1..Len(uiQ), i < j, IsRelease(uiQ[j], uiQ[i].key)
        PROVE  j \in 1..Len(uiQ') /\ i < j /\ IsRelease(uiQ'[j], uiQ'[i].key)
    BY <2>1, <2>5, ScanEnds
  <2> QED
    BY <1>1, <2>1, <2>3, <2>4, <2>5 DEF EventsEnd
<1>2. CASE i \notin 1..Len(uiQ)
  BY <1>2, ScanEnds
<1> QED
  BY <1>1, <1>2

LEMMA StillQueued ==
    ASSUME KeypadTypeOK, Takes, NEW j \in 1..Len(uiQ), j # 1
    PROVE  j - 1 \in 1..Len(uiQ') /\ uiQ'[j - 1] = uiQ[j]
<1>1. uiQ \in Seq(UiEvent) /\ uiQ # << >> /\ uiQ' = Tail(uiQ)
  BY DEF KeypadTypeOK, Takes
<1>2. Len(uiQ) \in Nat /\ Len(Tail(uiQ)) = Len(uiQ) - 1 /\ \A i \in 1..(Len(uiQ) - 1) : Tail(uiQ)[i] = uiQ[i + 1]
  BY <1>1
<1>3. j - 1 \in 1..(Len(uiQ) - 1) /\ (j - 1) + 1 = j
  BY <1>2
<1> QED
  BY <1>1, <1>2, <1>3

\* An event that is taken is no longer ahead.
LEMMA TakenKeepsAhead ==
    ASSUME KeypadTypeOK, Takes, NEW key, EndsAhead(key)
    PROVE  EndsAhead(key)' \/ IsRelease(Event, key)
<1>1. UNCHANGED <<pad, lost>> /\ Event = uiQ[1]
  BY Taken DEF Takes
<1>2. ASSUME NEW j \in 1..Len(uiQ), j # 1 PROVE \E i \in 1..Len(uiQ') : uiQ'[i] = uiQ[j]
  BY <1>2, StillQueued
<1> QED
  BY <1>1, <1>2 DEF EndsAhead

LEMMA TakenKeepsEvents ==
    ASSUME KeypadTypeOK, Takes, EventsEnd
    PROVE  EventsEnd' /\ \A key : Begins(Event) /\ Event.key = key => EndsAhead(key)'
<1>1. /\ UNCHANGED <<pad, lost>> /\ Event = uiQ[1] /\ 1 \in 1..Len(uiQ) /\ Len(uiQ) \in Nat
      /\ \A i \in 1..Len(uiQ') : i + 1 \in 1..Len(uiQ) /\ uiQ'[i] = uiQ[i + 1]
  BY Taken DEF Takes, KeypadTypeOK
<1>2. ASSUME NEW j \in 1..Len(uiQ), 1 < j PROVE j - 1 \in 1..Len(uiQ') /\ uiQ'[j - 1] = uiQ[j]
  BY <1>2, StillQueued
<1>3. ASSUME NEW i \in 1..Len(uiQ'), Begins(uiQ'[i])
      PROVE  \/ pad'.key = uiQ'[i].key
             \/ \E j \in 1..Len(uiQ') : i < j /\ IsRelease(uiQ'[j], uiQ'[i].key)
             \/ "release" \in lost'
  <2>1. i + 1 \in 1..Len(uiQ) /\ uiQ'[i] = uiQ[i + 1] /\ i \in Nat /\ i > 0
    BY <1>1
  <2>2. ASSUME NEW j \in 1..Len(uiQ), i + 1 < j PROVE 1 < j /\ i < j - 1
    BY <2>1, <2>2
  <2> QED
    BY <1>1, <1>2, <1>3, <2>1, <2>2 DEF EventsEnd
<1>4. EventsEnd'
  BY <1>3 DEF EventsEnd, Begins, IsRelease
<1>5. ASSUME NEW key, Begins(Event), Event.key = key PROVE EndsAhead(key)'
  BY <1>5, <1>1, <1>2 DEF EventsEnd, EndsAhead
<1> QED
  BY <1>4, <1>5

\* Nothing moves, and nothing queued will.
NothingCounts ==
    /\ \A i \in 1..Len(queue) : ~Counts(queue[i])
    /\ mouse.movement = None \/ worker.mouse_generation # generation

LEMMA AssignedKeys == \A p : Assigned(p) \subseteq Keys /\ "mode" \notin Assigned(p)
  BY DEF Assigned, PatternKeys, Directions, Keys

LEMMA QueuedKeepsGenerations ==
    ASSUME InputInv, Generations, NEW m, queue' \in {queue, Append(queue, m)}, m.generation = generation,
           UNCHANGED <<generation, worker, mouse>>
    PROVE  Generations'
<1>1. Len(queue) \in Nat /\ generation \in Nat
  BY DEF InputInv, InputTypeOK
<1>2. CASE queue' = queue
  BY <1>2 DEF Generations
<1>3. CASE queue' = Append(queue, m)
  <2>1. \A i \in 1..Len(queue') :
            (i \in 1..Len(queue) /\ queue'[i] = queue[i]) \/ (i = Len(queue) + 1 /\ queue'[i] = m)
    BY <1>3, Appended DEF InputInv
  <2>2. ASSUME NEW i \in 1..Len(queue')
        PROVE  /\ queue'[i].generation <= generation
               /\ mouse.movement # None /\ worker.mouse_generation = generation => queue'[i].generation = generation
    BY <1>1, <2>1 DEF Generations
  <2>3. ASSUME NEW i \in 1..Len(queue'), NEW j \in 1..Len(queue'), i < j
        PROVE  queue'[i].generation <= queue'[j].generation
    <3>1. CASE queue'[j] = m
      BY <2>2, <3>1
    <3>2. CASE j \in 1..Len(queue) /\ queue'[j] = queue[j]
      <4>1. i \in 1..Len(queue) /\ queue'[i] = queue[i]
        BY <1>1, <2>1, <2>3, <3>2
      <4> QED
        BY <2>3, <3>2, <4>1 DEF Generations
    <3> QED
      BY <2>1, <3>1, <3>2
  <2> QED
    BY <2>2, <2>3 DEF Generations
<1> QED
  BY <1>2, <1>3

\* Steps that leave worker and mouse alone, and queue nothing that counts.
LEMMA QueuedKeepsFinger ==
    ASSUME InputInv, FingerInv, NEW m, queue' \in {queue, Append(queue, m)}, m.generation = generation,
           m.type # "MOUSE", UNCHANGED <<profile, generation, worker, mouse>>, EventsEnd',
           ui'.screen = "menu" => ui.screen = "menu",
           NothingCounts \/ \A k \in Assigned(profile) : EndsAhead(k) => EndsAhead(k)'
    PROVE  FingerInv'
<1>1. InputTypeOK /\ Len(queue) \in Nat /\ generation \in Nat
  BY DEF InputInv, InputTypeOK
<1>2. /\ \A i \in 1..Len(queue) : i \in 1..Len(queue') /\ queue'[i] = queue[i]
      /\ \A i \in 1..Len(queue') :
            (i \in 1..Len(queue) /\ queue'[i] = queue[i]) \/ (i = Len(queue) + 1 /\ queue'[i] = m)
  <2>1. CASE queue' = queue
    BY <2>1
  <2>2. CASE queue' = Append(queue, m)
    BY <1>1, <2>2, Appended
  <2> QED
    BY <2>1, <2>2
<1>3. \A i \in 1..Len(queue') : Counts(queue'[i]) => i \in 1..Len(queue) /\ Counts(queue[i])
  BY <1>2 DEF Counts
<1>4. InputsEnd'
  <2> SUFFICES ASSUME NEW i \in 1..Len(queue'), Counts(queue[i]), i \in 1..Len(queue), Begins(queue[i].input),
                      NEW k, k = queue[i].input.key
               PROVE  /\ k \in Assigned(profile)
                      /\ \/ EndsAhead(k)'
                         \/ \E j \in 1..Len(queue') : i < j /\ queue'[j].type = "MOUSE" /\ IsRelease(queue'[j].input, k)
    BY <1>2, <1>3 DEF InputsEnd, Begins, IsRelease, Counts, EndsAhead
  <2>1. ~NothingCounts
    BY DEF NothingCounts
  <2> QED
    BY <1>2, <2>1 DEF FingerInv, InputsEnd
<1>5. MovementEnds'
  <2> SUFFICES ASSUME mouse.movement # None, FollowsKey, worker.mouse_generation = generation,
                      NEW k, k = mouse.movement
               PROVE  \/ EndsAhead(k)'
                      \/ \E j \in 1..Len(queue') : queue'[j].type = "MOUSE" /\ IsRelease(queue'[j].input, k)
    BY DEF MovementEnds, FollowsKey, IsMouse, IsRelease, EndsAhead
  <2>1. ~NothingCounts /\ k \in Assigned(profile)
    BY DEF NothingCounts, FingerInv, MovementKnown
  <2> QED
    BY <1>2, <2>1 DEF FingerInv, MovementEnds
<1>6. Generations'
  BY QueuedKeepsGenerations DEF FingerInv
<1>7. Listened'
  BY <1>2, <1>3 DEF FingerInv, Listened, Reports, Counts
<1>8. MovementKnown'
  BY DEF FingerInv, MovementKnown, IsMouse
<1> QED
  BY <1>4, <1>5, <1>6, <1>7, <1>8 DEF FingerInv

LEMMA UnqueuedKeepsFinger ==
    ASSUME InputInv, FingerInv, UNCHANGED <<profile, generation, queue, worker, mouse>>, EventsEnd',
           ui'.screen = "menu" => ui.screen = "menu",
           NothingCounts \/ \A k \in Assigned(profile) : EndsAhead(k) => EndsAhead(k)'
    PROVE  FingerInv'
<1> DEFINE m == Msg("RELEASE", None, FALSE)
<1>1. m.generation = generation /\ m.type # "MOUSE" /\ queue' \in {queue, Append(queue, m)}
  BY DEF Msg
<1> HIDE DEF m
<1> QED
  BY <1>1, QueuedKeepsFinger

\* No input queued so far counts any more.
LEMMA NewGenerationKeepsFinger ==
    ASSUME InputInv, FingerInv, UNCHANGED <<profile, queue, worker, mouse>>, generation' = generation + 1, EventsEnd'
    PROVE  FingerInv'
<1>1. generation \in Nat /\ worker.mouse_generation \in Nat /\ \A i \in 1..Len(queue) : queue[i].generation \in Nat
  <2>1. queue \in Seq(Message) /\ worker \in WorkerType /\ generation \in Nat
    BY DEF InputInv, InputTypeOK
  <2> QED
    BY <2>1 DEF Message, WorkerType
<1>2. /\ worker.mouse_generation < generation'
      /\ \A i \in 1..Len(queue) : queue[i].generation < generation'
      /\ worker.mouse_generation # generation' /\ \A i \in 1..Len(queue) : queue[i].generation # generation'
  BY <1>1 DEF FingerInv, Generations
<1>3. InputsEnd' /\ MovementEnds'
  BY <1>2 DEF InputsEnd, MovementEnds, Counts
<1>4. Generations'
  BY <1>1, <1>2 DEF FingerInv, Generations
<1>5. Listened'
  BY <1>2 DEF FingerInv, Listened, Reports, Counts
<1>6. MovementKnown'
  BY DEF FingerInv, MovementKnown, IsMouse
<1> QED
  BY <1>3, <1>4, <1>5, <1>6 DEF FingerInv

LEMMA KeyKeepsFinger == ASSUME InputInv, FingerInv, Key PROVE FingerInv'
<1>1. PICK k \in Used[profile] \cup {NoKey} : Scan(k)
  BY DEF Key
<1>2. k \in Keys \cup {NoKey} /\ KeypadTypeOK
  BY InputAssumption DEF InputInv, InputTypeOK
<1>3. EventsEnd'
  BY <1>1, <1>2, ScanKeepsEvents DEF FingerInv
<1>4. \A key \in Assigned(profile) : EndsAhead(key) => EndsAhead(key)'
  BY <1>1, <1>2, ScanKeepsAhead, AssignedKeys
<1> QED
  BY <1>3, <1>4, UnqueuedKeepsFinger DEF Key

LEMMA StillAhead ==
    ASSUME UNCHANGED <<pad, uiQ, lost>>
    PROVE  /\ EventsEnd => EventsEnd'
           /\ \A k : EndsAhead(k) => EndsAhead(k)'
  BY DEF EventsEnd, EndsAhead, Begins, IsRelease

LEMMA HostKeepsFinger == ASSUME InputInv, FingerInv, Host PROVE FingerInv'
<1>1. PICK type \in {"READY", "WRITE", "SUSPEND", "DISCONNECTED"} : \E flag : Tells(type, flag)
  BY DEF Host, LinkLost, HostReturns, Subscribes, Suspends
<1>2. PICK flag : Tells(type, flag)
  BY <1>1
<1> DEFINE m == Msg(type, None, flag)
<1>3. m.generation = generation /\ m.type # "MOUSE"
  BY DEF Msg
<1>4. queue' \in {queue, Append(queue, m)}
  BY <1>2 DEF Tells
<1> HIDE DEF m
<1>5. UNCHANGED <<profile, generation, worker, mouse, ui, pad, uiQ, lost>>
  BY DEF Host, LinkLost, HostReturns, Subscribes, Suspends, Around, keypadVars
<1> QED
  BY <1>3, <1>4, <1>5, StillAhead, QueuedKeepsFinger DEF FingerInv

\* The release of what moves, or of what is queued, is not passed over.
LEMMA ReleaseIsWanted ==
    ASSUME InputInv, HostInv, FingerInv, NoneWaits, NEW k \in Assigned(profile), IsRelease(Event, k)
    PROVE  NothingCounts \/ (IsMouse /\ ui.screen = "remote" /\ Wanted /\ Event.key # "mode")
<1> SUFFICES ASSUME ~NothingCounts PROVE IsMouse /\ ui.screen = "remote" /\ Wanted /\ Event.key # "mode"
  OBVIOUS
<1>1. ui.screen = "remote"
  <2>1. ui.screen \in {"menu", "remote"}
    BY DEF InputInv, InputTypeOK, UiType
  <2> QED
    BY <2>1 DEF FingerInv, Listened, NothingCounts
<1>2. IsMouse
  BY DEF NothingCounts, Counts, HostInv, RunsOrdered, FingerInv, MovementKnown
<1>3. worker.state \in States
  BY DEF InputInv, InputTypeOK, WorkerType
<1>4. worker.state \notin {"RECONNECTING", "ERROR"}
  <2>1. mouse.movement # None => Reports
    BY DEF HostInv, IdleUnlessUsed, FingerInv, Listened
  <2> QED
    BY <2>1 DEF NothingCounts, FingerInv, Listened, Reports
<1>5. Reports
  <2>1. worker.state = "CONNECTING" => NothingCounts
    BY DEF HostInv, IdleUnlessUsed, FingerInv, Listened, Reports, NoneWaits, NothingCounts
  <2> QED
    BY <1>3, <1>4, <2>1 DEF States, Reports
<1>6. Event.key = k /\ k # "mode"
  BY AssignedKeys DEF IsRelease
<1>7. Wanted
  BY <1>1, <1>2, <1>5, <1>6 DEF Wanted, IsMouse
<1> QED
  BY <1>1, <1>2, <1>6, <1>7

LEMMA PassedOver ==
    ASSUME InputInv, HostInv, FingerInv, NoneWaits, Takes,
           ~(IsMouse /\ ui.screen = "remote" /\ Wanted /\ Event.key # "mode")
    PROVE  EventsEnd' /\ (NothingCounts \/ \A k \in Assigned(profile) : EndsAhead(k) => EndsAhead(k)')
<1>1. KeypadTypeOK /\ EventsEnd
  BY DEF InputInv, InputTypeOK, FingerInv
<1>2. EventsEnd'
  BY <1>1, TakenKeepsEvents
<1>3. ASSUME ~NothingCounts, NEW k \in Assigned(profile), EndsAhead(k) PROVE EndsAhead(k)'
  BY <1>1, <1>3, TakenKeepsAhead, ReleaseIsWanted
<1> QED
  BY <1>2, <1>3

LEMMA QueuedInputKeepsFinger ==
    ASSUME InputInv, HostInv, FingerInv, NoneWaits, MouseInput, Room
    PROVE  FingerInv'
<1> DEFINE m == Msg("MOUSE", Carried(Event), FALSE)
<1>1. /\ m.type = "MOUSE" /\ m.generation = generation
      /\ m.input.kind = Event.kind /\ m.input.key = Event.key
  BY DEF Msg, Carried
<1>2. queue' = Append(queue, m) /\ UNCHANGED <<profile, ui, generation, worker, mouse>>
  BY DEF MouseInput
<1>3. Takes /\ Wanted /\ ui.screen = "remote" /\ IsMouse /\ Event.key # "mode"
  BY DEF MouseInput
<1> HIDE DEF m
<1>4. Event.key \in Assigned(profile) /\ Reports
  BY <1>3 DEF Wanted, IsMouse
<1>5. KeypadTypeOK /\ InputTypeOK
  BY DEF InputInv, InputTypeOK
<1>6. EventsEnd' /\ \A k : Begins(Event) /\ Event.key = k => EndsAhead(k)'
  BY <1>3, <1>5, TakenKeepsEvents DEF FingerInv
<1>7. \A k : EndsAhead(k) => EndsAhead(k)' \/ IsRelease(Event, k)
  BY <1>3, <1>5, TakenKeepsAhead
<1>8. /\ Len(queue) \in Nat /\ Len(queue) + 1 \in 1..Len(queue') /\ queue'[Len(queue) + 1] = m
      /\ \A i \in 1..Len(queue) : i \in 1..Len(queue') /\ queue'[i] = queue[i] /\ i < Len(queue) + 1
      /\ \A i \in 1..Len(queue') :
            (i \in 1..Len(queue) /\ queue'[i] = queue[i]) \/ (i = Len(queue) + 1 /\ queue'[i] = m)
  <2>1. queue \in Seq(Message) /\ Len(queue) \in Nat
    BY <1>5 DEF InputTypeOK
  <2>2. Len(queue) + 1 \in 1..Len(queue') /\ queue'[Len(queue) + 1] = m
    BY <1>2, <2>1
  <2> QED
    BY <1>2, <1>5, <2>1, <2>2, Appended
<1>9. InputsEnd'
  <2> SUFFICES ASSUME NEW i \in 1..Len(queue'), Counts(queue'[i]), Begins(queue'[i].input),
                      NEW k, k = queue'[i].input.key
               PROVE  /\ k \in Assigned(profile)
                      /\ \/ EndsAhead(k)'
                         \/ \E j \in 1..Len(queue') : i < j /\ queue'[j].type = "MOUSE" /\ IsRelease(queue'[j].input, k)
    BY <1>2 DEF InputsEnd, Begins, IsRelease, Counts, EndsAhead
  <2>1. CASE i \in 1..Len(queue) /\ queue'[i] = queue[i]
    <3>1. /\ k \in Assigned(profile)
          /\ \/ EndsAhead(k)
             \/ \E j \in 1..Len(queue) : i < j /\ queue[j].type = "MOUSE" /\ IsRelease(queue[j].input, k)
      BY <2>1 DEF FingerInv, InputsEnd
    <3>2. IsRelease(Event, k) => IsRelease(m.input, k)
      BY <1>1 DEF IsRelease
    <3> QED
      BY <1>1, <1>7, <1>8, <2>1, <3>1, <3>2
  <2>2. CASE queue'[i] = m
    BY <1>1, <1>4, <1>6, <2>2 DEF Begins
  <2> QED
    BY <1>8, <2>1, <2>2
<1>10. MovementEnds'
  <2> SUFFICES ASSUME mouse.movement # None, FollowsKey, worker.mouse_generation = generation,
                      NEW k, k = mouse.movement
               PROVE  \/ EndsAhead(k)'
                      \/ \E j \in 1..Len(queue') : queue'[j].type = "MOUSE" /\ IsRelease(queue'[j].input, k)
    BY <1>2 DEF MovementEnds, FollowsKey, IsMouse, IsRelease, EndsAhead
  <2>1. \/ EndsAhead(k)
        \/ \E j \in 1..Len(queue) : queue[j].type = "MOUSE" /\ IsRelease(queue[j].input, k)
    BY DEF FingerInv, MovementEnds
  <2>2. IsRelease(Event, k) => IsRelease(m.input, k)
    BY <1>1 DEF IsRelease
  <2> QED
    BY <1>1, <1>7, <1>8, <2>1, <2>2
<1>11. Generations'
  BY <1>1, <1>2, QueuedKeepsGenerations DEF FingerInv
<1>12. Listened'
  <2>1. worker.state \notin {"RECONNECTING", "ERROR"}
    BY <1>4 DEF Reports
  <2> QED
    BY <1>2, <1>3, <2>1 DEF FingerInv, Listened, Reports
<1>13. MovementKnown'
  BY <1>2 DEF FingerInv, MovementKnown, IsMouse
<1> QED
  BY <1>6, <1>9, <1>10, <1>11, <1>12, <1>13 DEF FingerInv

LEMMA UiTurnKeepsFinger ==
    ASSUME InputInv, HostInv, FingerInv, NoneWaits, UiTurn
    PROVE  FingerInv'
<1>1. ui \in UiType /\ KeypadTypeOK /\ EventsEnd
  BY DEF InputInv, InputTypeOK, FingerInv
<1>2. ASSUME Takes PROVE EventsEnd'
  BY <1>1, <1>2, TakenKeepsEvents
<1>3. ASSUME Takes, ~(IsMouse /\ ui.screen = "remote" /\ Wanted /\ Event.key # "mode"),
             UNCHANGED <<profile, generation, queue, worker, mouse>>, ui'.screen = "menu" => ui.screen = "menu"
      PROVE  FingerInv'
  BY <1>3, PassedOver, UnqueuedKeepsFinger
<1>4. ASSUME NEW long, NEW u, TypesKey, Tap(long, u), u.screen = ui.screen PROVE FingerInv'
  <2> DEFINE m == Msg("TAP", Carried(Event), long)
  <2>1. m.generation = generation /\ m.type # "MOUSE"
    BY DEF Msg
  <2>2. queue' \in {queue, Append(queue, m)} /\ UNCHANGED <<profile, generation, worker, mouse>> /\ ui' = u
    BY <1>4 DEF Tap
  <2>3. Takes /\ ~IsMouse
    BY <1>4 DEF TypesKey
  <2> HIDE DEF m
  <2>4. EventsEnd' /\ (NothingCounts \/ \A k \in Assigned(profile) : EndsAhead(k) => EndsAhead(k)')
    BY <2>3, PassedOver
  <2> QED
    BY <1>4, <2>1, <2>2, <2>4, QueuedKeepsFinger
<1>5. CASE EnterRemote
  <2>1. ui'.screen = "remote"
    BY <1>1, <1>5 DEF EnterRemote, UiType
  <2> QED
    BY <1>3, <1>5, <2>1 DEF EnterRemote, Mode
<1>6. CASE LeaveRemote
  BY <1>2, <1>6, NewGenerationKeepsFinger DEF LeaveRemote, Mode, NextGeneration
<1>7. CASE QueueRelease
  <2> DEFINE m == Msg("RELEASE", None, FALSE)
  <2>1. m.generation = generation /\ m.type # "MOUSE"
    BY DEF Msg
  <2>2. queue' \in {queue, Append(queue, m)} /\ UNCHANGED <<profile, generation, worker, mouse, pad, uiQ, lost>>
    BY <1>7 DEF QueueRelease, keypadVars
  <2>3. ui'.screen = ui.screen
    BY <1>1, <1>7 DEF QueueRelease, UiType
  <2> HIDE DEF m
  <2> QED
    BY <1>1, <2>1, <2>2, <2>3, StillAhead, QueuedKeepsFinger
<1>8. CASE MouseInput
  <2>1. CASE Room
    BY <1>8, <2>1, QueuedInputKeepsFinger
  <2>2. CASE ~Room
    BY <1>2, <1>8, <2>2, NewGenerationKeepsFinger DEF MouseInput, NextGeneration
  <2> QED
    BY <2>1, <2>2
<1>9. CASE IgnoredEvent
  BY <1>3, <1>9 DEF IgnoredEvent, inputVars
<1>10. CASE PowerPressed
  <2>1. ui'.screen = ui.screen
    BY <1>1, <1>10 DEF PowerPressed, UiType
  <2> QED
    BY <1>3, <1>10, <2>1 DEF PowerPressed, TypesKey
<1>11. CASE PowerTapped
  <2>1. PowerSent.screen = ui.screen
    BY <1>1 DEF PowerSent, UiType
  <2> QED
    BY <1>4, <1>11, <2>1 DEF PowerTapped
<1>12. CASE KeyTapped
  BY <1>4, <1>12 DEF KeyTapped
<1> QED
  BY <1>5, <1>6, <1>7, <1>8, <1>9, <1>10, <1>11, <1>12 DEF UiTurn

-----------------------------------------------------------------------------
(* What one input does to the movement.                                    *)

\* Whether a mouse follows its key (FollowsKey, of any mouse).
Follows(m) == profile = "mapped" \/ m.momentary
\* The mouse after an input, as the mode takes it.
Moved(e) ==
    IF profile = "patterns" THEN PatternInput(mouse, e.key, e.kind, e.at).mouse
    ELSE MappedInput(mouse, e.key, e.kind).mouse

LEMMA PatternMoves ==
    ASSUME NEW m \in Mouse, NEW key, NEW input, NEW at, NEW n, n = PatternInput(m, key, input, at).mouse
    PROVE  \/ n.movement = None
           \/ /\ n.movement = m.movement /\ (n.momentary => m.momentary) /\ n.pattern = m.pattern
              /\ ~(input = "release" /\ key = m.pattern /\ key \in PatternKeys)
           \/ input = "press" /\ n.movement = key /\ ~n.momentary
           \/ input = "hold" /\ n.movement = key /\ n.pattern = key
           \/ n.movement = m.movement /\ ~n.momentary
<1>1. CASE key = "ok" /\ input = "press"
  <2>1. PatternInput(m, key, input, at)
            = Reporting([m EXCEPT !.buttons = IF "left" \in @ THEN @ \ {"left"} ELSE @ \cup {"left"}])
    BY <1>1 DEF PatternInput, PatternKeys, Directions
  <2>2. n = [m EXCEPT !.buttons = IF "left" \in @ THEN @ \ {"left"} ELSE @ \cup {"left"}]
    BY <2>1 DEF Reporting
  <2>3. n.movement = m.movement /\ n.momentary = m.momentary /\ n.pattern = m.pattern
    BY <2>2 DEF Mouse
  <2> QED
    BY <1>1, <2>3
<1>2. CASE key \in PatternKeys /\ input = "press"
  <2>1. PatternInput(m, key, input, at) = Silently(StartPattern(m, key, at))
    BY <1>2 DEF PatternInput, PatternKeys, Directions
  <2>2. n = StartPattern(m, key, at)
    BY <2>1 DEF Silently
  <2>3. n.momentary = FALSE /\ n.movement \in {None, key}
    BY <2>2 DEF StartPattern, Mouse
  <2> QED
    BY <1>2, <2>3
<1>3. CASE key \in PatternKeys /\ key = m.pattern /\ input = "hold"
  <2>1. n = [m EXCEPT !.momentary = TRUE, !.movement = key]
    BY <1>3 DEF PatternInput, Silently
  <2>2. n.movement = key /\ n.pattern = key
    BY <1>3, <2>1 DEF Mouse
  <2> QED
    BY <1>3, <2>2
<1>4. CASE key \in PatternKeys /\ key = m.pattern /\ input = "release"
  <2>1. n = [m EXCEPT !.pattern = None, !.movement = IF EndsPattern(m, at) THEN None ELSE @]
    BY <1>4 DEF PatternInput, Silently
  <2>2. CASE EndsPattern(m, at)
    <3>1. n.movement = None
      BY <2>1, <2>2 DEF Mouse
    <3> QED
      BY <3>1
  <2>3. CASE ~EndsPattern(m, at)
    <3>1. m.momentary \in BOOLEAN
      BY DEF Mouse
    <3>2. m.momentary = FALSE
      BY <2>3, <3>1 DEF EndsPattern
    <3>3. n.movement = m.movement /\ n.momentary = m.momentary
      BY <2>1, <2>3 DEF Mouse
    <3> QED
      BY <3>2, <3>3
  <2> QED
    BY <2>2, <2>3
<1>5. CASE /\ ~(key = "ok" /\ input = "press") /\ ~(key \in PatternKeys /\ input = "press")
           /\ ~(key \in PatternKeys /\ key = m.pattern /\ input \in {"hold", "release"})
  <2>1. PatternInput(m, key, input, at) = Silently(m)
    BY <1>5 DEF PatternInput
  <2>2. n = m
    BY <2>1 DEF Silently
  <2> QED
    BY <1>5, <2>2
<1> QED
  BY <1>1, <1>2, <1>3, <1>4, <1>5

LEMMA MappedMoves ==
    ASSUME NEW m \in Mouse, NEW key, NEW input, NEW n, n = MappedInput(m, key, input).mouse
    PROVE  \/ n.movement = None
           \/ n.movement = m.movement /\ ~(input = "release" /\ key = m.movement /\ key \in Directions)
           \/ input = "press" /\ n.movement = key
<1>1. CASE key = "ok"
  <2> DEFINE pressed == [m EXCEPT !.okPending = TRUE, !.okLong = FALSE]
             done == [m EXCEPT !.okPending = FALSE]
             held == [m EXCEPT !.okLong = TRUE, !.buttons = @ \cup {"left"}]
             dropped == [done EXCEPT !.buttons = @ \ {"left"}]
  <2>1. /\ pressed.movement = m.movement /\ done.movement = m.movement /\ held.movement = m.movement
        /\ dropped.movement = m.movement
    BY DEF Mouse
  <2>2. OkInput(m, input) \in
            {Silently(pressed), Silently(done), Silently(m), Click(done, "left"), Reporting(held), Reporting(dropped)}
    BY DEF OkInput
  <2> HIDE DEF pressed, done, held, dropped
  <2>3. OkInput(m, input).mouse \in {pressed, done, m, held, dropped}
    BY <2>2 DEF Silently, Click, Reporting
  <2>4. n = OkInput(m, input).mouse
    BY <1>1 DEF MappedInput, Directions
  <2>5. key \notin Directions
    BY <1>1 DEF Directions
  <2> QED
    BY <2>1, <2>3, <2>4, <2>5
<1>2. CASE key \in Directions
  <2>1. [m EXCEPT !.movement = key].movement = key /\ [m EXCEPT !.movement = None].movement = None
    BY DEF Mouse
  <2>2. n = DirectionInput(m, key, input).mouse
    BY <1>2 DEF MappedInput, Directions
  <2>3. \/ input = "press" /\ DirectionInput(m, key, input) = Silently([m EXCEPT !.movement = key])
        \/ DirectionInput(m, key, input) = Silently([m EXCEPT !.movement = None])
        \/ DirectionInput(m, key, input) = Silently(m) /\ ~(input = "release" /\ key = m.movement)
    BY DEF DirectionInput
  <2>4. \/ input = "press" /\ n = [m EXCEPT !.movement = key]
        \/ n = [m EXCEPT !.movement = None]
        \/ n = m /\ ~(input = "release" /\ key = m.movement)
    BY <2>2, <2>3 DEF Silently
  <2> QED
    BY <2>1, <2>4
<1>3. CASE key # "ok" /\ key \notin Directions
  <2>1. MappedInput(m, key, input) \in {Reporting(m), Click(m, "middle"), Silently(m)}
    BY <1>3 DEF MappedInput
  <2>2. n = m
    BY <2>1 DEF Silently, Click, Reporting
  <2> QED
    BY <1>3, <2>2
<1> QED
  BY <1>1, <1>2, <1>3

\* What moves after an input moved before, or is what the input began.
LEMMA InputMoves ==
    ASSUME InputInv, IsMouse, MovementKnown, NEW e, NEW n, n = Moved(e)
    PROVE  \/ n.movement = None
           \/ /\ Begins(e) /\ n.movement = e.key
              /\ profile = "patterns" /\ n.momentary => n.pattern = n.movement
           \/ /\ n.movement = mouse.movement
              /\ Follows(n) => Follows(mouse) /\ ~IsRelease(e, mouse.movement)
              /\ profile = "patterns" /\ n.momentary => n.pattern = n.movement
<1>1. mouse \in Mouse
  BY DEF InputInv, InputTypeOK
<1> SUFFICES ASSUME n.movement # None
             PROVE  \/ /\ Begins(e) /\ n.movement = e.key
                       /\ profile = "patterns" /\ n.momentary => n.pattern = n.movement
                    \/ /\ n.movement = mouse.movement
                       /\ Follows(n) => Follows(mouse) /\ ~IsRelease(e, mouse.movement)
                       /\ profile = "patterns" /\ n.momentary => n.pattern = n.movement
  OBVIOUS
<1>2. CASE profile = "patterns"
  <2>1. n = PatternInput(mouse, e.key, e.kind, e.at).mouse
    BY <1>2 DEF Moved
  <2>2. \/ /\ n.movement = mouse.movement /\ (n.momentary => mouse.momentary) /\ n.pattern = mouse.pattern
           /\ ~(e.kind = "release" /\ e.key = mouse.pattern /\ e.key \in PatternKeys)
        \/ e.kind = "press" /\ n.movement = e.key /\ ~n.momentary
        \/ e.kind = "hold" /\ n.movement = e.key /\ n.pattern = e.key
        \/ n.movement = mouse.movement /\ ~n.momentary
    BY <1>1, <2>1, PatternMoves
  <2>3. mouse.movement # None /\ mouse.momentary =>
            mouse.pattern = mouse.movement /\ mouse.movement \in PatternKeys
    BY <1>1, <1>2 DEF MovementKnown, Mouse
  <2> QED
    BY <1>2, <2>2, <2>3 DEF Follows, Begins, IsRelease
<1>3. CASE profile = "mapped"
  <2>1. n = MappedInput(mouse, e.key, e.kind).mouse
    BY <1>3 DEF Moved
  <2>2. \/ n.movement = mouse.movement /\ ~(e.kind = "release" /\ e.key = mouse.movement /\ e.key \in Directions)
        \/ e.kind = "press" /\ n.movement = e.key
    BY <1>1, <2>1, MappedMoves
  <2>3. mouse.movement # None => mouse.movement \in Directions
    BY <1>1, <1>3 DEF MovementKnown, Mouse, Assigned, Directions, PatternKeys
  <2> QED
    BY <1>3, <2>2, <2>3 DEF Follows, Begins, IsRelease
<1> QED
  BY <1>2, <1>3 DEF IsMouse

-----------------------------------------------------------------------------
(* What a step of the worker does to the movement.                         *)

Unusable == {"RECONNECTING", "ERROR"}
WorkerMoves ==
    /\ \/ worker'.run = worker.run /\ (worker'.state \in Unusable => worker.state \in Unusable)
       \/ worker'.run = worker.run + 1
    /\ worker'.connected /\ worker'.subscribed => worker'.state \in {"CONNECTED", "SUSPENDED"}
    /\ \/ mouse' = mouse /\ worker'.mouse_generation = worker.mouse_generation
       \/ mouse' = Idle /\ worker'.mouse_generation \in {worker.mouse_generation, generation}
       \/ /\ TakeMouse /\ Active(Received) /\ mouse' = Moved(Received.input)
          /\ worker'.mouse_generation = worker.mouse_generation

Kept(w) == Alike(w) /\ w.mouse_generation = worker.mouse_generation

LEMMA KeptMoves == ASSUME FingerInv, Kept(worker'), mouse' \in {mouse, Idle} PROVE WorkerMoves
  BY DEF FingerInv, Listened, Reports, Kept, Alike, WorkerMoves

LEMMA RestartMoves == ASSUME InputInv, NEW next, Restart(next) PROVE WorkerMoves
<1>1. worker \in WorkerType
  BY Parts
<1>2. PICK state \in {"RECONNECTING", "ERROR"} :
        worker' = [worker EXCEPT !.at = next, !.out = << >>, !.failed = FALSE, !.left = 0, !.message = NoMessage,
                            !.run = @ + 1, !.connected = FALSE, !.subscribed = FALSE, !.suspended = FALSE,
                            !.mouse_generation = generation, !.state = state]
  BY DEF Restart
<1>3. worker'.run = worker.run + 1 /\ worker'.connected = FALSE /\ worker'.mouse_generation = generation
  BY <1>1, <1>2 DEF WorkerType
<1> QED
  BY <1>3 DEF Restart, WorkerMoves

LEMMA ReleasedMoves ==
    ASSUME FingerInv, NEW w \in WorkerType, Alike(w), Released(w)
    PROVE  WorkerMoves
<1>1. worker' = [w EXCEPT !.mouse_generation = generation] /\ mouse' = Idle
  BY DEF Released
<1>2. Alike(worker') /\ worker'.mouse_generation = generation
  BY <1>1 DEF Alike, WorkerType
<1> QED
  BY <1>1, <1>2 DEF FingerInv, Listened, Reports, Alike, WorkerMoves

LEMMA ReleaseFailsMoves == ASSUME InputInv, NEW next, ReleaseFails(next) PROVE WorkerMoves
  BY RestartMoves DEF ReleaseFails

LEMMA ReadyMoves ==
    ASSUME InputInv, NEW w \in WorkerType, w.run = worker.run, w.mouse_generation = worker.mouse_generation, Ready(w)
    PROVE  WorkerMoves
<1>1. link \in [up : BOOLEAN, on : BOOLEAN]
  BY Parts DEF InputTypeOK
<1>2. CASE /\ worker' = [w EXCEPT !.at = "tail", !.subscribed = link.on,
                              !.state = IF link.on THEN IF w.suspended THEN "SUSPENDED" ELSE "CONNECTED"
                                        ELSE "CONNECTING"]
           /\ mouse' = IF link.on THEN mouse ELSE Idle
  <2>1. /\ worker'.run = worker.run /\ worker'.subscribed = link.on
        /\ worker'.mouse_generation = worker.mouse_generation
        /\ worker'.state \in {"CONNECTED", "SUSPENDED", "CONNECTING"}
        /\ link.on => worker'.state \in {"CONNECTED", "SUSPENDED"}
    BY <1>2 DEF WorkerType
  <2> QED
    BY <1>2, <2>1 DEF WorkerMoves, Unusable
<1>3. CASE /\ worker' = [w EXCEPT !.at = "tail", !.run = @ + 1, !.connected = FALSE, !.subscribed = FALSE,
                              !.mouse_generation = generation, !.state = "ERROR"]
           /\ mouse' = Idle
  <2>1. worker'.run = worker.run + 1 /\ worker'.connected = FALSE /\ worker'.mouse_generation = generation
    BY <1>3 DEF WorkerType
  <2> QED
    BY <1>3, <2>1 DEF WorkerMoves
<1> QED
  BY <1>2, <1>3 DEF Ready

LEMMA InputMovesWorker == ASSUME InputInv, FingerInv, TakeMouse PROVE WorkerMoves
<1> DEFINE e == Received.input
           step == IF profile = "patterns" THEN PatternInput(mouse, e.key, e.kind, e.at)
                   ELSE MappedInput(mouse, e.key, e.kind)
<1>1. worker \in WorkerType
  BY Parts
<1>2. step.mouse = Moved(e)
  BY DEF Moved
<1>3. \/ mouse' = mouse /\ worker' = Done(worker)
      \/ /\ Active(Received) /\ mouse' = step.mouse
         /\ worker' = IF step.reports = << >> THEN Done(worker)
                      ELSE [worker EXCEPT !.at = "send", !.out = step.reports, !.message = Received]
  BY DEF TakeMouse
<1> HIDE DEF step
<1>4. Kept(worker')
  BY <1>1, <1>3 DEF Kept, Done, Alike, WorkerType
<1> QED
  BY <1>2, <1>3, <1>4 DEF FingerInv, Listened, Reports, Kept, Alike, WorkerMoves

LEMMA EveryStepMoves == ASSUME InputInv, FingerInv, Worker PROVE WorkerMoves
<1>1. worker \in WorkerType
  BY Parts
<1>2. Done(worker) \in WorkerType /\ Kept(Done(worker))
  BY <1>1, NoMessageType DEF Done, Kept, Alike, WorkerType
<1>3. Waiting(worker) \in WorkerType /\ Kept(Waiting(worker)) /\ Kept(Ticking(worker))
  BY <1>1, NoMessageType DEF Waiting, Ticking, Kept, Alike, WorkerType
<1>4. ASSUME Ready(worker) PROVE WorkerMoves
  BY <1>1, <1>4, ReadyMoves
<1>5. CASE TakeMouse
  BY <1>5, InputMovesWorker
<1>6. CASE TakeTap \/ SendReport \/ NextCharacter \/ OutputDone \/ Tick
  <2>1. mouse' = mouse
    BY <1>6 DEF TakeTap, SendReport, NextCharacter, OutputDone, Tick
  <2>2. Kept(worker')
    <3>1. CASE TakeTap
      BY <1>1, <3>1 DEF TakeTap, Done, Kept, Alike, WorkerType
    <3>2. CASE SendReport \/ NextCharacter \/ OutputDone
      BY <1>1, <3>2 DEF SendReport, NextCharacter, OutputDone, Kept, Alike, WorkerType
    <3>3. CASE Tick
      BY <1>1, <1>3, <3>3 DEF Tick, Kept, Alike, WorkerType
    <3> QED
      BY <1>6, <3>1, <3>2, <3>3
  <2> QED
    BY <2>1, <2>2, KeptMoves
<1>7. CASE OutputFailed
  BY <1>7, RestartMoves DEF OutputFailed, OutputRestarts
<1>8. CASE TakeRelease
  BY <1>2, <1>8, ReleasedMoves, ReleaseFailsMoves DEF TakeRelease, Kept
<1>9. CASE TakeReady
  <2> DEFINE w == [worker EXCEPT !.connected = TRUE]
  <2>1. w \in WorkerType /\ w.run = worker.run /\ w.mouse_generation = worker.mouse_generation
    BY <1>1 DEF WorkerType
  <2>2. Ready(w)
    BY <1>9 DEF TakeReady
  <2> HIDE DEF w
  <2> QED
    BY <2>1, <2>2, ReadyMoves
<1>10. CASE TakeWrite \/ SuspendShown
  BY <1>2, <1>4, <1>10, KeptMoves DEF TakeWrite, SuspendShown
<1>11. CASE TakeSuspend
  <2> DEFINE w == [worker EXCEPT !.at = "ready", !.suspended = Received.flag]
  <2>1. PICK flag \in BOOLEAN : flag = Received.flag
    <3>1. Received \in Message
      BY <1>11, Receiving, Parts DEF TakeSuspend, FromLink
    <3> QED
      BY <3>1, FlagType
  <2>2. w \in WorkerType /\ Kept(w)
    <3>1. w = [worker EXCEPT !.at = "ready", !.suspended = flag]
      BY <2>1
    <3> QED
      BY <1>1, <3>1 DEF WorkerType, Alike, Kept
  <2>3. \/ Released(w)
        \/ ReleaseFails("tail")
        \/ worker' = w /\ mouse' = mouse
    BY <1>11 DEF TakeSuspend
  <2> HIDE DEF w
  <2> QED
    BY <2>2, <2>3, ReleasedMoves, ReleaseFailsMoves, KeptMoves DEF Kept
<1>12. CASE TakeDisconnected
  BY <1>2, <1>12, RestartMoves, KeptMoves DEF TakeDisconnected
<1>13. CASE TakeStale \/ NothingReceived
  BY <1>2, <1>13, KeptMoves DEF TakeStale, NothingReceived
<1>14. CASE EndIteration
  BY <1>3, <1>14, ReleasedMoves, ReleaseFailsMoves, KeptMoves DEF EndIteration, Kept
<1> QED
  BY <1>5, <1>6, <1>7, <1>8, <1>9, <1>10, <1>11, <1>12, <1>13, <1>14 DEF Worker

\* What is queued after a step of the worker was queued before it.
LEMMA QueueLeft ==
    ASSUME InputTypeOK, Worker
    PROVE  \E d \in {0, 1} :
              /\ \A i \in 1..Len(queue') : i + d \in 1..Len(queue) /\ queue'[i] = queue[i + d] /\ i \in Nat
              /\ \A j \in 1..Len(queue) : d < j => j - d \in 1..Len(queue') /\ queue'[j - d] = queue[j]
              /\ d = 1 => queue # << >> /\ Received = queue[1] /\ 1 \in 1..Len(queue)
              /\ d = 0 => ~TakeMouse
<1>1. queue \in Seq(Message) /\ Len(queue) \in Nat
  BY DEF InputTypeOK
<1>2. CASE Turn
  <2>1. /\ queue # << >> /\ Len(Tail(queue)) = Len(queue) - 1 /\ Len(queue) >= 1 /\ Head(queue) = queue[1]
        /\ \A i \in 1..(Len(queue) - 1) : Tail(queue)[i] = queue[i + 1]
    BY <1>1, <1>2 DEF Turn
  <2>2. queue' = Tail(queue)
    BY <1>2 DEF Turn
  <2>3. \A i \in 1..Len(queue') : i + 1 \in 1..Len(queue) /\ queue'[i] = queue[i + 1] /\ i \in Nat
    BY <1>1, <2>1, <2>2
  <2>4. ASSUME NEW j \in 1..Len(queue), 1 < j PROVE j - 1 \in 1..Len(queue') /\ queue'[j - 1] = queue[j]
    <3>1. j - 1 \in 1..(Len(queue) - 1) /\ (j - 1) + 1 = j
      BY <1>1, <2>4
    <3> QED
      BY <2>1, <2>2, <3>1
  <2>5. 1 \in 1..Len(queue) /\ Received = queue[1]
    BY <1>1, <2>1 DEF Received
  <2> QED
    BY <2>1, <2>3, <2>4, <2>5
<1>3. CASE queue' = queue /\ ~Turn
  <2>1. ~TakeMouse
    BY <1>3 DEF TakeMouse, Receives, Turn
  <2>2. \A i \in 1..Len(queue') : i + 0 \in 1..Len(queue) /\ queue'[i] = queue[i + 0] /\ i \in Nat
    BY <1>1, <1>3
  <2>3. \A j \in 1..Len(queue) : j - 0 \in 1..Len(queue') /\ queue'[j - 0] = queue[j]
    BY <1>1, <1>3
  <2> QED
    BY <2>1, <2>2, <2>3
<1> QED
  BY <1>2, <1>3, WorkerTakes

LEMMA ActiveInput ==
    ASSUME InputInv, HostInv, TakeMouse, Active(Received)
    PROVE  /\ mouse' = Moved(Received.input) /\ worker'.mouse_generation = worker.mouse_generation
           /\ IsMouse /\ Counts(Received) /\ Received = queue[1] /\ 1 \in 1..Len(queue)
<1>1. worker \in WorkerType /\ InputTypeOK
  BY Parts
<1>2. Receives /\ Received.type = "MOUSE"
  BY DEF TakeMouse
<1> DEFINE e == Received.input
           step == IF profile = "patterns" THEN PatternInput(mouse, e.key, e.kind, e.at)
                   ELSE MappedInput(mouse, e.key, e.kind)
<1>3. step.mouse = Moved(e)
  BY DEF Moved
<1>4. /\ mouse' = step.mouse
      /\ worker' = IF step.reports = << >> THEN Done(worker)
                   ELSE [worker EXCEPT !.at = "send", !.out = step.reports, !.message = Received]
  BY DEF TakeMouse
<1> HIDE DEF step
<1>5. worker'.mouse_generation = worker.mouse_generation
  BY <1>1, <1>4 DEF Done, WorkerType
<1>6. Received = queue[1] /\ 1 \in 1..Len(queue)
  BY <1>1, <1>2, FirstReceived
<1>7. Entered(Received)
  BY <1>2 DEF Entered
<1>8. UsesInput
  BY <1>1, <1>2, <1>7, InputIsCurrent
<1>9. IsMouse
  BY <1>2, <1>6 DEF HostInv, RunsOrdered
<1>10. Counts(Received)
  BY <1>2, <1>6, <1>8 DEF Counts, Active, UsesInput
<1> QED
  BY <1>3, <1>4, <1>5, <1>6, <1>9, <1>10

\* Without an input that counts, nothing begins to move.
LEMMA OtherwiseStill ==
    ASSUME InputInv, FingerInv, Worker, ~(TakeMouse /\ Active(Received)), mouse'.movement # None
    PROVE  mouse' = mouse /\ worker'.mouse_generation = worker.mouse_generation
  BY EveryStepMoves, IdleIsDown DEF WorkerMoves

\* Only TakeMouse takes an input of the mouse.
LEMMA MouseTaken == ASSUME Worker, queue' # queue, Received.type = "MOUSE" PROVE TakeMouse
  BY DEF Worker, TakeTap, SendReport, NextCharacter, OutputDone, OutputFailed, TakeRelease, TakeReady, TakeWrite,
         TakeSuspend, SuspendShown, TakeDisconnected, TakeStale, FromLink, NothingReceived, EndIteration, Tick

\* What counts after a step of the worker counted before it.
LEMMA CountedBefore ==
    ASSUME InputInv, HostInv, FingerInv, Worker, NEW i \in 1..Len(queue),
           queue[i].type = "MOUSE", queue[i].generation = generation, queue[i].run = worker'.run
    PROVE  Counts(queue[i]) /\ (worker'.state \in Unusable => worker.state \in Unusable)
<1>1. queue[i].run \in Nat /\ worker.run \in Nat
  <2>1. queue[i] \in Message /\ worker \in WorkerType
    BY DEF InputInv, InputTypeOK
  <2> QED
    BY <2>1 DEF Message, WorkerType
<1>2. queue[i].run <= worker.run
  BY DEF HostInv, RunsOrdered
<1>3. worker'.run # worker.run + 1
  BY <1>1, <1>2
<1> QED
  BY <1>3, EveryStepMoves DEF WorkerMoves, Counts

LEMMA WorkerKeepsMovement ==
    ASSUME InputInv, HostInv, FingerInv, Worker, mouse'.movement # None
    PROVE  /\ IsMouse /\ mouse'.movement \in Assigned(profile)
           /\ profile = "patterns" /\ mouse'.momentary => mouse'.pattern = mouse'.movement
           /\ Follows(mouse') /\ worker'.mouse_generation = generation =>
                 \/ EndsAhead(mouse'.movement)
                 \/ \E j \in 1..Len(queue') :
                       queue'[j].type = "MOUSE" /\ IsRelease(queue'[j].input, mouse'.movement)
<1>1. InputTypeOK /\ queue \in Seq(Message) /\ Len(queue) \in Nat
  BY DEF InputInv, InputTypeOK
<1>2. PICK d \in {0, 1} :
        /\ \A i \in 1..Len(queue') : i + d \in 1..Len(queue) /\ queue'[i] = queue[i + d] /\ i \in Nat
        /\ \A j \in 1..Len(queue) : d < j => j - d \in 1..Len(queue') /\ queue'[j - d] = queue[j]
        /\ d = 1 => queue # << >> /\ Received = queue[1] /\ 1 \in 1..Len(queue)
        /\ d = 0 => ~TakeMouse
  BY <1>1, QueueLeft
<1>3. ASSUME NEW k, NEW j \in 1..Len(queue), queue[j].type = "MOUSE", IsRelease(queue[j].input, k)
      PROVE  \/ \E l \in 1..Len(queue') : queue'[l].type = "MOUSE" /\ IsRelease(queue'[l].input, k)
             \/ d = 1 /\ j = 1
  <2>1. d < j \/ (d = 1 /\ j = 1)
    BY <1>3
  <2> QED
    BY <1>2, <1>3, <2>1
<1>4. CASE TakeMouse /\ Active(Received)
  <2> DEFINE e == Received.input
  <2>1. /\ mouse' = Moved(e) /\ worker'.mouse_generation = worker.mouse_generation
        /\ IsMouse /\ Counts(Received) /\ Received = queue[1] /\ 1 \in 1..Len(queue)
    BY <1>4, ActiveInput
  <2>2. \/ /\ Begins(e) /\ mouse'.movement = e.key
           /\ profile = "patterns" /\ mouse'.momentary => mouse'.pattern = mouse'.movement
        \/ /\ mouse'.movement = mouse.movement
           /\ Follows(mouse') => Follows(mouse) /\ ~IsRelease(e, mouse.movement)
           /\ profile = "patterns" /\ mouse'.momentary => mouse'.pattern = mouse'.movement
    BY <2>1, InputMoves DEF FingerInv
  <2>3. CASE Begins(e) /\ mouse'.movement = e.key
    <3>1. /\ e.key \in Assigned(profile)
          /\ \/ EndsAhead(e.key)
             \/ \E j \in 1..Len(queue) : 1 < j /\ queue[j].type = "MOUSE" /\ IsRelease(queue[j].input, e.key)
      BY <2>1, <2>3 DEF FingerInv, InputsEnd
    <3>2. \/ EndsAhead(e.key)
          \/ \E l \in 1..Len(queue') : queue'[l].type = "MOUSE" /\ IsRelease(queue'[l].input, e.key)
      BY <1>3, <3>1
    <3>3. profile = "patterns" /\ mouse'.momentary => mouse'.pattern = mouse'.movement
      BY <2>2
    <3> QED
      BY <2>1, <2>3, <3>1, <3>2, <3>3
  <2>4. CASE mouse'.movement = mouse.movement /\ (Follows(mouse') => Follows(mouse) /\ ~IsRelease(e, mouse.movement))
    <3>1. mouse.movement # None /\ mouse.movement \in Assigned(profile)
      BY <2>4 DEF FingerInv, MovementKnown
    <3>2. ASSUME Follows(mouse'), worker'.mouse_generation = generation
          PROVE  \/ EndsAhead(mouse.movement)
                 \/ \E l \in 1..Len(queue') : queue'[l].type = "MOUSE" /\ IsRelease(queue'[l].input, mouse.movement)
      <4>1. FollowsKey /\ ~IsRelease(queue[1].input, mouse.movement)
        BY <2>1, <2>4, <3>1, <3>2 DEF Follows, FollowsKey
      <4>2. \/ EndsAhead(mouse.movement)
            \/ \E j \in 1..Len(queue) : queue[j].type = "MOUSE" /\ IsRelease(queue[j].input, mouse.movement)
        BY <2>1, <3>1, <3>2, <4>1 DEF FingerInv, MovementEnds
      <4> QED
        BY <1>3, <4>1, <4>2
    <3>3. profile = "patterns" /\ mouse'.momentary => mouse'.pattern = mouse'.movement
      BY <2>2
    <3> QED
      BY <2>1, <2>4, <3>1, <3>2, <3>3
  <2> QED
    BY <2>2, <2>3, <2>4
<1>5. CASE ~(TakeMouse /\ Active(Received))
  <2>1. mouse' = mouse /\ worker'.mouse_generation = worker.mouse_generation
    BY <1>5, OtherwiseStill
  <2>2. /\ IsMouse /\ mouse.movement \in Assigned(profile)
        /\ profile = "patterns" /\ mouse.momentary => mouse.pattern = mouse.movement
    BY <2>1 DEF FingerInv, MovementKnown
  <2>3. ASSUME Follows(mouse), worker.mouse_generation = generation
        PROVE  \/ EndsAhead(mouse.movement)
               \/ \E l \in 1..Len(queue') : queue'[l].type = "MOUSE" /\ IsRelease(queue'[l].input, mouse.movement)
    <3>1. FollowsKey
      BY <2>1, <2>2, <2>3 DEF Follows, FollowsKey
    <3>2. \/ EndsAhead(mouse.movement)
          \/ \E j \in 1..Len(queue) : queue[j].type = "MOUSE" /\ IsRelease(queue[j].input, mouse.movement)
      BY <2>1, <2>3, <3>1 DEF FingerInv, MovementEnds
    <3>3. ~(d = 1 /\ queue[1].type = "MOUSE")
      <4> SUFFICES ASSUME d = 1, queue[1].type = "MOUSE" PROVE FALSE
        OBVIOUS
      <4>1. 1 \in 1..Len(queue) /\ Received = queue[1]
        BY <1>2
      <4>2. queue' # queue
        <5> SUFFICES ASSUME queue' = queue PROVE FALSE
          OBVIOUS
        <5>1. Len(queue) \in 1..Len(queue') /\ Len(queue) + 1 \notin 1..Len(queue)
          BY <1>1, <4>1
        <5> QED
          BY <1>2, <5>1
      <4>3. ~Active(Received)
        BY <1>5, <4>1, <4>2, MouseTaken
      <4>4. worker.connected /\ worker.subscribed
        BY <2>1 DEF HostInv, IdleUnlessUsed
      <4>5. Received.generation = generation
        BY <2>1, <2>3, <4>1 DEF FingerInv, Generations
      <4> QED
        BY <4>3, <4>4, <4>5 DEF Active
    <3> QED
      BY <1>3, <3>2, <3>3
  <2> QED
    BY <2>1, <2>2, <2>3
<1> QED
  BY <1>4, <1>5

LEMMA WorkerKeepsGenerations ==
    ASSUME InputInv, HostInv, FingerInv, Worker
    PROVE  Generations'
<1>1. InputTypeOK /\ Len(queue) \in Nat /\ generation \in Nat /\ generation' = generation
  BY WorkerCalls DEF InputInv, InputTypeOK, Calls
<1>2. PICK d \in {0, 1} :
        /\ \A i \in 1..Len(queue') : i + d \in 1..Len(queue) /\ queue'[i] = queue[i + d] /\ i \in Nat
        /\ \A j \in 1..Len(queue) : d < j => j - d \in 1..Len(queue') /\ queue'[j - d] = queue[j]
        /\ d = 1 => queue # << >> /\ Received = queue[1] /\ 1 \in 1..Len(queue)
        /\ d = 0 => ~TakeMouse
  BY <1>1, QueueLeft
<1>3. worker'.mouse_generation <= generation
  <2>1. worker'.mouse_generation \in {worker.mouse_generation, generation}
    BY EveryStepMoves DEF WorkerMoves
  <2> QED
    BY <1>1, <2>1 DEF FingerInv, Generations
<1>4. ASSUME NEW i \in 1..Len(queue'), NEW j \in 1..Len(queue'), i < j
      PROVE  queue'[i].generation <= queue'[j].generation
  <2>1. i + d < j + d
    BY <1>2, <1>4
  <2> QED
    BY <1>2, <2>1 DEF FingerInv, Generations
<1>5. ASSUME NEW i \in 1..Len(queue') PROVE queue'[i].generation <= generation
  BY <1>2 DEF FingerInv, Generations
<1>6. ASSUME NEW i \in 1..Len(queue'), mouse'.movement # None, worker'.mouse_generation = generation
      PROVE  queue'[i].generation = generation
  <2>1. CASE TakeMouse /\ Active(Received)
    <3>1. d = 1 /\ queue[1].generation = generation /\ 1 < i + d /\ 1 \in 1..Len(queue)
      BY <1>2, <2>1 DEF Active
    <3>2. i + d \in 1..Len(queue) /\ queue'[i] = queue[i + d]
      BY <1>2
    <3>3. queue[i + d].generation \in Nat
      <4>1. queue[i + d] \in Message
        BY <3>2 DEF InputInv, InputTypeOK
      <4> QED
        BY <4>1 DEF Message
    <3>4. generation <= queue[i + d].generation /\ queue[i + d].generation <= generation
      BY <3>1, <3>2 DEF FingerInv, Generations
    <3> QED
      BY <1>1, <3>2, <3>3, <3>4
  <2>2. CASE ~(TakeMouse /\ Active(Received))
    <3>1. mouse.movement # None /\ worker.mouse_generation = generation
      BY <1>6, <2>2, OtherwiseStill
    <3> QED
      BY <1>2, <3>1 DEF FingerInv, Generations
  <2> QED
    BY <2>1, <2>2
<1> QED
  BY <1>1, <1>3, <1>4, <1>5, <1>6 DEF Generations

LEMMA WorkerKeepsFinger == ASSUME InputInv, HostInv, FingerInv, Worker PROVE FingerInv'
<1>1. InputTypeOK /\ Len(queue) \in Nat
  BY DEF InputInv, InputTypeOK
<1>2. UNCHANGED <<pad, uiQ, lost, profile, ui, generation>>
  BY WorkerCalls DEF Calls, keypadVars
<1>3. EventsEnd' /\ \A k : EndsAhead(k) => EndsAhead(k)'
  BY <1>2, StillAhead DEF FingerInv
<1>4. PICK d \in {0, 1} :
        /\ \A i \in 1..Len(queue') : i + d \in 1..Len(queue) /\ queue'[i] = queue[i + d] /\ i \in Nat
        /\ \A j \in 1..Len(queue) : d < j => j - d \in 1..Len(queue') /\ queue'[j - d] = queue[j]
        /\ d = 1 => queue # << >> /\ Received = queue[1] /\ 1 \in 1..Len(queue)
        /\ d = 0 => ~TakeMouse
  BY <1>1, QueueLeft
<1>5. ASSUME NEW i \in 1..Len(queue'), queue'[i].type = "MOUSE", queue'[i].generation = generation,
             queue'[i].run = worker'.run
      PROVE  /\ Counts(queue[i + d]) /\ (worker'.state \in Unusable => worker.state \in Unusable)
             /\ i + d \in 1..Len(queue) /\ queue'[i] = queue[i + d]
  <2>1. i + d \in 1..Len(queue) /\ queue'[i] = queue[i + d]
    BY <1>4
  <2> QED
    BY <1>5, <2>1, CountedBefore
<1>6. InputsEnd'
  <2> SUFFICES ASSUME NEW i \in 1..Len(queue'), queue'[i].type = "MOUSE", queue'[i].generation = generation,
                      queue'[i].run = worker'.run, Begins(queue'[i].input), NEW k, k = queue'[i].input.key
               PROVE  /\ k \in Assigned(profile)
                      /\ \/ EndsAhead(k)'
                         \/ \E j \in 1..Len(queue') : i < j /\ queue'[j].type = "MOUSE" /\ IsRelease(queue'[j].input, k)
    BY <1>2 DEF InputsEnd, Begins, IsRelease, Counts, EndsAhead
  <2>1. Counts(queue[i + d]) /\ i + d \in 1..Len(queue) /\ queue'[i] = queue[i + d]
    BY <1>5
  <2>2. /\ k \in Assigned(profile)
        /\ \/ EndsAhead(k)
           \/ \E j \in 1..Len(queue) : i + d < j /\ queue[j].type = "MOUSE" /\ IsRelease(queue[j].input, k)
    BY <2>1 DEF FingerInv, InputsEnd
  <2>3. ASSUME NEW j \in 1..Len(queue), i + d < j PROVE j - d \in 1..Len(queue') /\ queue'[j - d] = queue[j] /\ i < j - d
    <3>1. i \in Nat /\ d < j /\ i < j - d
      BY <1>4, <2>3
    <3> QED
      BY <1>4, <3>1
  <2> QED
    BY <1>3, <2>2, <2>3
<1>7. MovementEnds'
  <2> SUFFICES ASSUME mouse'.movement # None, Follows(mouse'), worker'.mouse_generation = generation,
                      NEW k, k = mouse'.movement
               PROVE  \/ EndsAhead(k)'
                      \/ \E j \in 1..Len(queue') : queue'[j].type = "MOUSE" /\ IsRelease(queue'[j].input, k)
    BY <1>2 DEF MovementEnds, FollowsKey, Follows, IsMouse, IsRelease, EndsAhead
  <2> QED
    BY <1>3, WorkerKeepsMovement
<1>8. Generations'
  BY WorkerKeepsGenerations
<1>9. Listened'
  <2>1. ASSUME ui.screen = "menu", mouse'.movement # None PROVE worker'.mouse_generation # generation
    <3>1. ~(TakeMouse /\ Active(Received))
      BY <2>1, ActiveInput DEF FingerInv, Listened
    <3>2. mouse' = mouse /\ worker'.mouse_generation = worker.mouse_generation
      BY <2>1, <3>1, OtherwiseStill
    <3> QED
      BY <2>1, <3>2 DEF FingerInv, Listened
  <2>2. ASSUME ui.screen = "menu" \/ worker'.state \in Unusable, NEW i \in 1..Len(queue')
        PROVE  ~(queue'[i].type = "MOUSE" /\ queue'[i].generation = generation /\ queue'[i].run = worker'.run)
    BY <1>5, <2>2 DEF FingerInv, Listened, Unusable
  <2>3. worker'.connected /\ worker'.subscribed => worker'.state \in {"CONNECTED", "SUSPENDED"}
    BY EveryStepMoves DEF WorkerMoves
  <2> QED
    BY <1>2, <2>1, <2>2, <2>3 DEF Listened, Reports, Counts, Unusable
<1>10. MovementKnown'
  BY <1>2, WorkerKeepsMovement DEF MovementKnown, IsMouse
<1> QED
  BY <1>3, <1>6, <1>7, <1>8, <1>9, <1>10 DEF FingerInv

LEMMA FingerStarts == Init => FingerInv
<1> SUFFICES ASSUME Init PROVE FingerInv
  OBVIOUS
<1>1. /\ mouse.movement = None /\ worker.mouse_generation = generation /\ generation = 0
      /\ worker.state = "CONNECTED" /\ ui.screen = "remote" /\ uiQ = << >> /\ queue = << >>
  BY IdleIsDown DEF Init, InputInit, KeypadInit
<1>2. 1..Len(uiQ) = {} /\ 1..Len(queue) = {}
  BY <1>1
<1> QED
  BY <1>1, <1>2 DEF FingerInv, EventsEnd, InputsEnd, MovementEnds, Generations, Listened, Reports, MovementKnown

LEMMA FingerSteps ==
    InputInv /\ HostInv /\ FingerInv /\ NoneWaits /\ [Next]_vars => FingerInv'
<1> SUFFICES ASSUME InputInv, HostInv, FingerInv, NoneWaits, [Next]_vars PROVE FingerInv'
  OBVIOUS
<1>1. CASE UNCHANGED vars
  <2>1. UNCHANGED <<pad, uiQ, lost, profile, ui, generation, queue, worker, mouse>>
    BY <1>1 DEF vars, inputVars, keypadVars
  <2> QED
    BY <2>1, StillAhead, UnqueuedKeepsFinger DEF FingerInv
<1>2. CASE Key
  BY <1>2, KeyKeepsFinger
<1>3. CASE UiTurn
  BY <1>3, UiTurnKeepsFinger
<1>4. CASE Worker
  BY <1>4, WorkerKeepsFinger
<1>5. CASE Host
  BY <1>5, HostKeepsFinger
<1> QED
  BY <1>1, <1>2, <1>3, <1>4, <1>5 DEF Next

(* "Move while held; release to stop" (docs/bluetooth-mouse.md 29), for    *)
(* any queue length and any failures, lost links, returns, suspensions and *)
(* subscriptions, unless an input waits in the queue while the worker      *)
(* shows CONNECTING, the host there but not listening: ui_remote.c passes  *)
(* over what comes then, the release too, and a host that listens again    *)
(* before the worker takes that input is moved by it with no key down.     *)
THEOREM MovementFollowsFinger == Spec /\ []NoneWaits => []MovementHasFinger
<1>1. InputInv /\ FingerInv => MovementHasFinger
  <2> SUFFICES ASSUME InputInv, FingerInv, FollowsKey, worker.mouse_generation = generation
               PROVE  \/ pad.key = mouse.movement
                      \/ ReleaseOnItsWay(mouse.movement)
                      \/ "release" \in lost
    BY DEF MovementHasFinger
  <2>1. uiQ \in Seq(UiEvent) /\ queue \in Seq(Message)
    BY DEF InputInv, InputTypeOK, KeypadTypeOK
  <2>2. DOMAIN uiQ = 1..Len(uiQ) /\ DOMAIN queue = 1..Len(queue)
    BY <2>1
  <2>3. mouse.movement # None
    BY DEF FollowsKey
  <2> QED
    BY <2>2, <2>3 DEF FingerInv, MovementEnds, EndsAhead, ReleaseOnItsWay
<1> QED
  BY <1>1, InputStarts, InputSteps, HostStarts, HostSteps, FingerStarts, FingerSteps, PTL DEF Spec

-----------------------------------------------------------------------------
(* A press is followed from the keypad, through both queues, to the mouse. *)

\* No movement, and no pattern whose key could be held.
AtRest == mouse.movement = None /\ mouse.pattern = None
InUse == worker.connected /\ worker.subscribed
\* Out of use, and on the menu once the worker has seen that, the mouse rests.
RestsUnlessUsed ==
    /\ ~InUse => AtRest
    /\ ui.screen = "menu" => AtRest \/ worker.mouse_generation # generation
\* The worker looks at the generation before it takes another message, or what it
\* takes next does not count: no input of a generation is taken by an older mouse.
LooksAgain == worker.at \in {"ready", "tail"} \/ (worker.at = "send" /\ worker.message.type # "TICK")
NoneCounts == \A i \in 1..Len(queue) : ~Counts(queue[i])
LooksFirst ==
    worker.mouse_generation # generation /\ ~LooksAgain =>
        (ui.releasing /\ NoneCounts) \/ (queue # << >> /\ ~Counts(queue[1]))

\* The press of key k at time s is the last that counts of the first p - 1 messages,
\* or it was taken, or nothing came of it and the mouse rests.
Continues(e) == e.kind \in {"hold", "repeat"}
IsPress(e, k, s) == e.kind = "press" /\ e.key = k /\ e.at = s
OnlyContinue(lo, hi) == \A j \in lo..hi : Counts(queue[j]) => Continues(queue[j].input)
Tracked(p, k, s) ==
    \/ \E i \in 1..(p - 1) : Counts(queue[i]) /\ IsPress(queue[i].input, k, s) /\ OnlyContinue(i + 1, p - 1)
    \/ /\ OnlyContinue(1, p - 1)
       /\ worker.mouse_generation = generation => AtRest \/ (mouse.pattern = k /\ mouse.at = s)
AllTracked(k, s) == Tracked(Len(queue) + 1, k, s)
\* The same of the first p - 1 events of the screen, and of the queue if it has none.
Traced(p, k, s) ==
    \/ \E j \in 1..(p - 1) : IsPress(uiQ[j], k, s) /\ \A l \in (j + 1)..(p - 1) : Continues(uiQ[l])
    \/ (\A l \in 1..(p - 1) : Continues(uiQ[l])) /\ (k \in PatternKeys => AllTracked(k, s))

\* The release e ends a press that began at time s.
Ended(e, s) == e.age <= LongestHold + 1 /\ e.at = (s + e.age) % Wrap
PadKnown == pad.key # NoKey => Traced(Len(uiQ) + 1, pad.key, pad.start)
EventsKnown ==
    \A p \in 1..Len(uiQ) : uiQ[p].kind = "release" =>
        \E s \in 0..(Wrap - 1) : Ended(uiQ[p], s) /\ Traced(p, uiQ[p].key, s)
InputsKnown ==
    \A p \in 1..Len(queue) : Counts(queue[p]) /\ IsRelease(queue[p].input, queue[p].input.key)
                             /\ queue[p].input.key \in PatternKeys =>
        \E s \in 0..(Wrap - 1) : Ended(queue[p].input, s) /\ Tracked(p, queue[p].input.key, s)
PressesKnown == PadKnown /\ EventsKnown /\ InputsKnown

NoPressLost == lost \subseteq {"hold", "repeat"}
PressInv == profile = "patterns" => RestsUnlessUsed /\ LooksFirst /\ (NoPressLost => PressesKnown)

-----------------------------------------------------------------------------
\* What a step of the worker leaves to be looked at, and of the mouse.
Iterates ==
    /\ worker'.mouse_generation # generation => LooksAgain' \/ (~LooksAgain /\ queue' = queue)
    /\ InUse' \/ mouse' = Idle \/ (mouse' = mouse /\ ~InUse)

LEMMA RestartIterates == ASSUME InputInv, NEW next, Restart(next) PROVE Iterates
<1>1. worker \in WorkerType
  BY Parts
<1>2. PICK state \in {"RECONNECTING", "ERROR"} :
        worker' = [worker EXCEPT !.at = next, !.out = << >>, !.failed = FALSE, !.left = 0, !.message = NoMessage,
                            !.run = @ + 1, !.connected = FALSE, !.subscribed = FALSE, !.suspended = FALSE,
                            !.mouse_generation = generation, !.state = state]
  BY DEF Restart
<1>3. worker'.mouse_generation = generation /\ mouse' = Idle
  BY <1>1, <1>2 DEF WorkerType, Restart
<1> QED
  BY <1>3 DEF Iterates

LEMMA ReleasedIterates == ASSUME NEW w \in WorkerType, Released(w) PROVE Iterates
<1>1. worker'.mouse_generation = generation /\ mouse' = Idle
  BY DEF Released, WorkerType
<1> QED
  BY <1>1 DEF Iterates

LEMMA ReleaseFailsIterates == ASSUME InputInv, NEW next, ReleaseFails(next) PROVE Iterates
  BY RestartIterates DEF ReleaseFails

LEMMA ReadyIterates ==
    ASSUME InputInv, NEW w \in WorkerType, w.connected, w.subscribed = worker.subscribed, Ready(w)
    PROVE  Iterates
<1>1. link \in [up : BOOLEAN, on : BOOLEAN]
  BY Parts DEF InputTypeOK
<1>2. CASE /\ worker' = [w EXCEPT !.at = "tail", !.subscribed = link.on,
                              !.state = IF link.on THEN IF w.suspended THEN "SUSPENDED" ELSE "CONNECTED"
                                        ELSE "CONNECTING"]
           /\ mouse' = IF link.on THEN mouse ELSE Idle
  <2>1. worker'.at = "tail" /\ worker'.connected /\ worker'.subscribed = link.on
    BY <1>2 DEF WorkerType
  <2> QED
    BY <1>2, <2>1 DEF Iterates, LooksAgain, InUse
<1>3. CASE /\ worker' = [w EXCEPT !.at = "tail", !.run = @ + 1, !.connected = FALSE, !.subscribed = FALSE,
                              !.mouse_generation = generation, !.state = "ERROR"]
           /\ mouse' = Idle
  <2>1. worker'.mouse_generation = generation
    BY <1>3 DEF WorkerType
  <2> QED
    BY <1>3, <2>1 DEF Iterates
<1> QED
  BY <1>2, <1>3 DEF Ready

\* A step that looks again, or is not in an iteration, and keeps the mouse.
LEMMA KeptIterates ==
    ASSUME worker'.connected = worker.connected, worker'.subscribed = worker.subscribed,
           mouse' = mouse, LooksAgain' \/ (~LooksAgain /\ queue' = queue)
    PROVE  Iterates
  BY DEF Iterates, InUse

LEMMA TakeMouseIterates == ASSUME InputInv, TakeMouse PROVE Iterates
<1> DEFINE e == Received.input
           step == IF profile = "patterns" THEN PatternInput(mouse, e.key, e.kind, e.at)
                   ELSE MappedInput(mouse, e.key, e.kind)
<1>1. worker \in WorkerType /\ Received.type = "MOUSE"
  BY Parts DEF TakeMouse
<1>2. \/ mouse' = mouse /\ worker' = Done(worker)
      \/ /\ Active(Received)
         /\ worker' = IF step.reports = << >> THEN Done(worker)
                      ELSE [worker EXCEPT !.at = "send", !.out = step.reports, !.message = Received]
  BY DEF TakeMouse
<1> HIDE DEF step
<1>3. /\ LooksAgain'
      /\ worker'.connected = worker.connected /\ worker'.subscribed = worker.subscribed
  BY <1>1, <1>2 DEF Done, WorkerType, LooksAgain
<1> QED
  BY <1>2, <1>3 DEF Iterates, InUse, Active

LEMMA WorkerIterates == ASSUME InputInv, IsMouse, Worker PROVE Iterates
<1>1. worker \in WorkerType
  BY Parts
<1>2. /\ Done(worker) \in WorkerType /\ Waiting(worker) \in WorkerType
      /\ Done(worker).at = "tail"
      /\ \A w \in {Done(worker), Waiting(worker), Ticking(worker)} :
            w.connected = worker.connected /\ w.subscribed = worker.subscribed
      /\ Waiting(worker).mouse_generation = worker.mouse_generation
      /\ Ticking(worker).mouse_generation = worker.mouse_generation
      /\ Waiting(worker).at = "receive"
  BY <1>1, NoMessageType DEF Done, Waiting, Ticking, WorkerType
<1>3. ASSUME worker' = Done(worker), mouse' \in {mouse, Idle} PROVE Iterates
  BY <1>2, <1>3 DEF Iterates, InUse, LooksAgain
<1>4. CASE TakeMouse
  BY <1>4, TakeMouseIterates
<1>5. CASE TakeTap
  <2>1. LooksAgain' /\ worker'.connected = worker.connected /\ worker'.subscribed = worker.subscribed /\ mouse' = mouse
    BY <1>1, <1>5 DEF TakeTap, Done, WorkerType, LooksAgain
  <2> QED
    BY <2>1, KeptIterates
<1>6. CASE SendReport \/ NextCharacter
  <2>1. /\ worker.at = "send" /\ worker'.at = "send" /\ worker'.message = worker.message
        /\ worker'.connected = worker.connected /\ worker'.subscribed = worker.subscribed
        /\ mouse' = mouse /\ queue' = queue
    BY <1>1, <1>6 DEF SendReport, NextCharacter, WorkerType
  <2> QED
    BY <2>1, KeptIterates DEF LooksAgain
<1>7. CASE OutputDone
  <2>1. /\ worker.at = "send" /\ worker'.at = AfterOutput
        /\ worker'.connected = worker.connected /\ worker'.subscribed = worker.subscribed
        /\ mouse' = mouse /\ queue' = queue
    BY <1>1, <1>7 DEF OutputDone, WorkerType
  <2> QED
    BY <2>1, KeptIterates DEF LooksAgain, AfterOutput
<1>8. CASE OutputFailed
  BY <1>8, RestartIterates DEF OutputFailed, OutputRestarts
<1>9. CASE TakeRelease
  BY <1>2, <1>9, ReleasedIterates, ReleaseFailsIterates DEF TakeRelease
<1>10. CASE TakeReady
  <2> DEFINE w == [worker EXCEPT !.connected = TRUE]
  <2>1. w \in WorkerType /\ w.connected /\ w.subscribed = worker.subscribed
    BY <1>1 DEF WorkerType
  <2>2. Ready(w)
    BY <1>10 DEF TakeReady
  <2> HIDE DEF w
  <2> QED
    BY <2>1, <2>2, ReadyIterates
<1>11. CASE TakeWrite \/ SuspendShown
  BY <1>1, <1>3, <1>11, ReadyIterates DEF TakeWrite, SuspendShown
<1>12. CASE TakeSuspend
  <2> DEFINE w == [worker EXCEPT !.at = "ready", !.suspended = Received.flag]
  <2>1. Received \in Message
    BY <1>1, <1>12, Parts, Receiving DEF TakeSuspend, FromLink
  <2>2. w \in WorkerType /\ w.at = "ready" /\ w.connected = worker.connected /\ w.subscribed = worker.subscribed
    BY <1>1, <2>1, FlagType DEF WorkerType
  <2>3. Released(w) \/ ReleaseFails("tail") \/ (worker' = w /\ mouse' = mouse)
    BY <1>12 DEF TakeSuspend
  <2> HIDE DEF w
  <2> QED
    BY <2>2, <2>3, ReleasedIterates, ReleaseFailsIterates, KeptIterates DEF LooksAgain
<1>13. CASE TakeDisconnected
  BY <1>3, <1>13, RestartIterates DEF TakeDisconnected
<1>14. CASE TakeStale \/ NothingReceived
  BY <1>3, <1>14 DEF TakeStale, NothingReceived
<1>15. CASE EndIteration
  <2>1. CASE Cancelled
    BY <1>2, <1>15, <2>1, ReleasedIterates, ReleaseFailsIterates DEF EndIteration
  <2>2. CASE ~Cancelled
    <3>1. worker.mouse_generation = generation
      BY <2>2 DEF Cancelled
    <3>2. worker' \in {Waiting(worker), Ticking(worker)} /\ mouse' = mouse
      BY <1>15, <2>2 DEF EndIteration
    <3> QED
      BY <1>2, <3>1, <3>2 DEF Iterates, InUse
  <2> QED
    BY <2>1, <2>2
<1>16. CASE Tick
  <2>1. /\ ~LooksAgain /\ queue' = queue /\ mouse' = mouse
        /\ worker'.connected = worker.connected /\ worker'.subscribed = worker.subscribed
    BY <1>1, <1>2, <1>16 DEF Tick, LooksAgain, WorkerType
  <2> QED
    BY <2>1, KeptIterates
<1> QED
  BY <1>4, <1>5, <1>6, <1>7, <1>8, <1>9, <1>10, <1>11, <1>12, <1>13, <1>14, <1>15, <1>16 DEF Worker

LEMMA IdleRests == Idle.movement = None /\ Idle.pattern = None
  BY DEF Idle

LEMMA WorkerRests ==
    ASSUME InputInv, HostInv, FingerInv, RestsUnlessUsed, IsMouse, Worker
    PROVE  RestsUnlessUsed'
<1>1. Iterates /\ WorkerMoves /\ UNCHANGED <<ui, generation>>
  BY WorkerIterates, EveryStepMoves, WorkerCalls DEF Calls
<1>2. ~InUse' => AtRest'
  BY <1>1, IdleRests DEF Iterates, RestsUnlessUsed, AtRest
<1>3. ASSUME ui.screen = "menu" PROVE AtRest' \/ worker'.mouse_generation # generation
  <2>1. ~(TakeMouse /\ Active(Received))
    BY <1>3, ActiveInput DEF FingerInv, Listened
  <2>2. (mouse' = mouse /\ worker'.mouse_generation = worker.mouse_generation) \/ mouse' = Idle
    BY <1>1, <2>1 DEF WorkerMoves
  <2> QED
    BY <1>3, <2>2, IdleRests DEF RestsUnlessUsed, AtRest
<1> QED
  BY <1>1, <1>2, <1>3 DEF RestsUnlessUsed

LEMMA WorkerLooks ==
    ASSUME InputInv, HostInv, FingerInv, LooksFirst, IsMouse, Worker
    PROVE  LooksFirst'
<1>1. UNCHANGED <<ui, generation, profile>>
  BY WorkerCalls DEF Calls
<1> SUFFICES ASSUME worker'.mouse_generation # generation, ~LooksAgain'
             PROVE  (ui.releasing /\ NoneCounts') \/ (queue' # << >> /\ ~Counts(queue[1])')
  BY <1>1 DEF LooksFirst
<1>2. ~LooksAgain /\ queue' = queue /\ worker'.mouse_generation = worker.mouse_generation
  BY WorkerIterates, EveryStepMoves DEF Iterates, WorkerMoves
<1>3. \A i \in 1..Len(queue) : Counts(queue[i])' => Counts(queue[i])
  BY <1>1, <1>2, CountedBefore DEF Counts
<1>4. (ui.releasing /\ NoneCounts) \/ (queue # << >> /\ ~Counts(queue[1]))
  BY <1>2 DEF LooksFirst
<1>5. queue # << >> => 1 \in 1..Len(queue)
  <2>1. queue \in Seq(Message)
    BY DEF InputInv, InputTypeOK
  <2> QED
    BY <2>1
<1> QED
  BY <1>2, <1>3, <1>4, <1>5 DEF NoneCounts

\* Steps of the other tasks: nothing is queued that counts but behind something else.
LEMMA OthersLook ==
    ASSUME InputInv, LooksFirst, UNCHANGED <<profile, generation, worker>>, NEW m, queue' \in {queue, Append(queue, m)},
           \/ UNCHANGED ui /\ (Counts(m) => ~ui.releasing)
           \/ ~Counts(m) /\ (queue' = queue => queue # << >>)
           \/ ~ui.releasing /\ queue' = queue
    PROVE  LooksFirst'
<1> SUFFICES ASSUME worker.mouse_generation # generation, ~LooksAgain
             PROVE  (ui'.releasing /\ NoneCounts') \/ (queue' # << >> /\ ~Counts(queue'[1]))
  BY DEF LooksFirst, LooksAgain, Counts
<1>1. (ui.releasing /\ NoneCounts) \/ (queue # << >> /\ ~Counts(queue[1]))
  BY DEF LooksFirst
<1>2. queue \in Seq(Message) /\ Len(queue) \in Nat /\ InputTypeOK
  BY DEF InputInv, InputTypeOK
<1>3. \A e : Counts(e)' <=> Counts(e)
  BY DEF Counts
<1>4. CASE queue # << >> /\ ~Counts(queue[1])
  <2>1. 1 \in 1..Len(queue)
    BY <1>2, <1>4
  <2>2. queue' # << >> /\ queue'[1] = queue[1]
    BY <1>2, <1>4, <2>1
  <2> QED
    BY <1>4, <2>2
<1>5. CASE ui.releasing /\ NoneCounts
  <2>1. CASE queue' = queue
    <3>1. CASE UNCHANGED ui
      BY <1>3, <1>5, <2>1, <3>1 DEF NoneCounts
    <3>2. CASE queue # << >>
      <4>1. 1 \in 1..Len(queue)
        BY <1>2, <3>2
      <4> QED
        BY <1>5, <2>1, <3>2, <4>1 DEF NoneCounts
    <3> QED
      BY <1>5, <2>1, <3>1, <3>2
  <2>2. CASE queue' = Append(queue, m) /\ queue' # queue
    <3>1. ~Counts(m)
      BY <1>5, <2>2
    <3>2. \A i \in 1..Len(queue') : ~Counts(queue'[i])
      BY <1>2, <1>5, <2>2, <3>1, Appended DEF NoneCounts
    <3>3. queue' # << >> /\ 1 \in 1..Len(queue')
      BY <1>2, <2>2
    <3> QED
      BY <3>2, <3>3
  <2> QED
    BY <2>1, <2>2
<1> QED
  BY <1>1, <1>4, <1>5

\* No input queued so far counts any more, and the mouse is of an older generation.
LEMMA NewGenerationForgets ==
    ASSUME InputInv, FingerInv, UNCHANGED <<profile, queue, worker, mouse>>, generation' = generation + 1
    PROVE  NoneCounts' /\ worker'.mouse_generation # generation'
<1>1. generation \in Nat /\ worker.mouse_generation \in Nat /\ queue \in Seq(Message)
  BY DEF InputInv, InputTypeOK, WorkerType
<1>2. worker.mouse_generation <= generation /\ \A i \in 1..Len(queue) : queue[i].generation <= generation
  BY DEF FingerInv, Generations
<1>3. \A i \in 1..Len(queue) : queue[i].generation \in Nat
  <2>1. \A i \in 1..Len(queue) : queue[i] \in Message
    BY <1>1
  <2> QED
    BY <2>1 DEF Message
<1>4. \A i \in 1..Len(queue) : queue[i].generation # generation + 1
  BY <1>1, <1>2, <1>3
<1> QED
  BY <1>1, <1>2, <1>4 DEF NoneCounts, Counts

\* What the screen does with an event, seen from the mouse.
Quietly(m) == queue' \in {queue, Append(queue, m)} /\ ~Counts(m) /\ UNCHANGED <<profile, generation, worker, mouse>>
Forgets ==
    /\ generation' = generation + 1 /\ ui'.releasing /\ queue' = queue
    /\ UNCHANGED <<profile, worker, mouse>>
Passes == Takes /\ MouseInput /\ Room

\* A turn of the screen passes an event on, forgets all, or queues nothing that counts.
LEMMA UiTurnDoes ==
    ASSUME InputInv, UiTurn
    PROVE  \/ Passes
           \/ Forgets /\ (Takes \/ UNCHANGED <<pad, uiQ, lost>>)
           \/ /\ \E m : Quietly(m) /\ (~ui.releasing \/ (queue' = queue => queue # << >>))
              /\ ui'.screen = "menu" => ui.screen = "menu"
              /\ \/ UNCHANGED <<pad, uiQ, lost>>
                 \/ Takes /\ ~(IsMouse /\ ui.screen = "remote" /\ Wanted /\ Event.key # "mode")
<1>1. ui \in UiType /\ queue \in Seq(Message) /\ Cap \in Nat \ {0}
  BY InputAssumption DEF InputInv, InputTypeOK
<1>2. \A type : type # "MOUSE" => \A input, flag : ~Counts(Msg(type, input, flag))
  BY DEF Counts, Msg
<1>3. ASSUME UNCHANGED <<profile, generation, queue, worker, mouse>> PROVE Quietly(Msg("RELEASE", None, FALSE))
  BY <1>2, <1>3 DEF Quietly
<1>4. ASSUME NEW long, NEW u, TypesKey, Tap(long, u)
      PROVE  Quietly(Msg("TAP", Carried(Event), long)) /\ ui' = u /\ ~IsMouse /\ Takes /\ ~ui.releasing
  BY <1>2, <1>4 DEF Tap, TypesKey, Takes, Quietly
<1>5. CASE EnterRemote
  <2>1. ui'.screen = "remote"
    BY <1>1, <1>5 DEF EnterRemote, UiType
  <2>2. Takes /\ Event.key = "mode" /\ ~ui.releasing
    BY <1>5 DEF EnterRemote, Mode, Takes
  <2>3. Quietly(Msg("RELEASE", None, FALSE))
    BY <1>3, <1>5 DEF EnterRemote
  <2> QED
    BY <2>1, <2>2, <2>3
<1>6. CASE LeaveRemote
  <2>1. ui'.releasing
    BY <1>1, <1>6 DEF LeaveRemote, UiType
  <2> QED
    BY <1>6, <2>1 DEF LeaveRemote, Mode, NextGeneration, Forgets
<1>7. CASE QueueRelease
  <2>1. Quietly(Msg("RELEASE", None, FALSE)) /\ UNCHANGED <<pad, uiQ, lost>>
    BY <1>2, <1>7 DEF QueueRelease, Quietly, keypadVars
  <2>2. ui'.screen = ui.screen
    BY <1>1, <1>7 DEF QueueRelease, UiType
  <2>3. ~Room => queue # << >>
    BY <1>1 DEF Room
  <2>4. Room => queue' # queue
    <3>1. Len(Append(queue, Msg("RELEASE", None, FALSE))) = Len(queue) + 1
      BY <1>1
    <3>2. Len(queue) \in Nat
      BY <1>1
    <3>3. Room => queue' = Append(queue, Msg("RELEASE", None, FALSE))
      BY <1>7 DEF QueueRelease
    <3> QED
      BY <3>1, <3>2, <3>3
  <2> QED
    BY <2>1, <2>2, <2>3, <2>4
<1>8. CASE MouseInput
  <2>1. CASE ~Room
    <3>1. ui'.releasing
      BY <1>1, <1>8, <2>1 DEF MouseInput, UiType
    <3> QED
      BY <1>8, <2>1, <3>1 DEF MouseInput, NextGeneration, Forgets
  <2> QED
    BY <1>8, <2>1 DEF Passes, MouseInput
<1>9. CASE IgnoredEvent
  <2>1. Takes /\ ~Wanted /\ ~ui.releasing /\ ui' = ui
    BY <1>9 DEF IgnoredEvent, Takes, inputVars
  <2>2. Quietly(Msg("RELEASE", None, FALSE))
    BY <1>3, <1>9 DEF IgnoredEvent, inputVars
  <2> QED
    BY <2>1, <2>2
<1>10. CASE PowerPressed
  <2>1. ui'.screen = ui.screen
    BY <1>1, <1>10 DEF PowerPressed, UiType
  <2>2. Takes /\ ~IsMouse /\ ~ui.releasing
    BY <1>10 DEF PowerPressed, TypesKey, Takes
  <2>3. Quietly(Msg("RELEASE", None, FALSE))
    BY <1>3, <1>10 DEF PowerPressed
  <2> QED
    BY <2>1, <2>2, <2>3
<1>11. CASE PowerTapped
  <2>1. PowerSent.screen = ui.screen
    BY <1>1 DEF PowerSent, UiType
  <2>2. TypesKey /\ Tap(Event.kind = "hold", PowerSent)
    BY <1>11 DEF PowerTapped
  <2>3. Quietly(Msg("TAP", Carried(Event), Event.kind = "hold")) /\ ui' = PowerSent /\ ~IsMouse /\ Takes /\ ~ui.releasing
    BY <1>4, <2>2
  <2> QED
    BY <2>1, <2>3
<1>12. CASE KeyTapped
  <2>1. TypesKey /\ Tap(FALSE, ui)
    BY <1>12 DEF KeyTapped
  <2>2. Quietly(Msg("TAP", Carried(Event), FALSE)) /\ ui' = ui /\ ~IsMouse /\ Takes /\ ~ui.releasing
    BY <1>4, <2>1
  <2> QED
    BY <2>2
<1> QED
  BY <1>5, <1>6, <1>7, <1>8, <1>9, <1>10, <1>11, <1>12 DEF UiTurn

LEMMA UiTurnRests ==
    ASSUME InputInv, FingerInv, RestsUnlessUsed, LooksFirst, UiTurn
    PROVE  RestsUnlessUsed' /\ LooksFirst'
<1>1. CASE Passes
  <2> DEFINE m == Msg("MOUSE", Carried(Event), FALSE)
  <2>1. queue' = Append(queue, m) /\ UNCHANGED <<profile, ui, generation, worker, mouse>>
    BY <1>1 DEF Passes, MouseInput
  <2> HIDE DEF m
  <2>2. ~ui.releasing
    BY <1>1 DEF Passes, Takes
  <2>3. LooksFirst'
    BY <2>1, <2>2, OthersLook
  <2> QED
    BY <2>1, <2>3 DEF RestsUnlessUsed, AtRest, InUse
<1>2. CASE Forgets
  <2>1. NoneCounts' /\ worker'.mouse_generation # generation'
    BY <1>2, NewGenerationForgets DEF Forgets
  <2> QED
    BY <1>2, <2>1 DEF Forgets, RestsUnlessUsed, AtRest, InUse, LooksFirst
<1>3. ASSUME NEW m, Quietly(m), ~ui.releasing \/ (queue' = queue => queue # << >>),
             ui'.screen = "menu" => ui.screen = "menu"
      PROVE  RestsUnlessUsed' /\ LooksFirst'
  <2>1. LooksFirst'
    BY <1>3, OthersLook DEF Quietly
  <2> QED
    BY <1>3, <2>1 DEF Quietly, RestsUnlessUsed, AtRest, InUse
<1> QED
  BY <1>1, <1>2, <1>3, UiTurnDoes

-----------------------------------------------------------------------------
\* What is tracked stays tracked.
LEMMA StillTracked ==
    ASSUME InputInv, UNCHANGED <<generation, worker, mouse>>, NEW m, queue' \in {queue, Append(queue, m)},
           NEW p \in 1..(Len(queue) + 1), NEW k, NEW s, Tracked(p, k, s)
    PROVE  Tracked(p, k, s)'
<1>1. queue \in Seq(Message) /\ Len(queue) \in Nat /\ InputTypeOK
  BY DEF InputInv, InputTypeOK
<1>2. \A i \in 1..Len(queue) : i \in 1..Len(queue') /\ queue'[i] = queue[i]
  BY <1>1, Appended
<1>3. \A i \in 1..(p - 1) : i \in 1..Len(queue) /\ queue'[i] = queue[i]
  BY <1>1, <1>2
<1>4. \A e : Counts(e)' <=> Counts(e)
  BY DEF Counts
<1>5. ASSUME NEW lo \in 1..p, OnlyContinue(lo, p - 1) PROVE OnlyContinue(lo, p - 1)'
  <2>1. \A j \in lo..(p - 1) : j \in 1..(p - 1)
    OBVIOUS
  <2> QED
    BY <1>3, <1>4, <1>5, <2>1 DEF OnlyContinue, Continues, Counts
<1>6. \A i \in 1..(p - 1) : i + 1 \in 1..p
  OBVIOUS
<1>7. 1 \in 1..p
  OBVIOUS
<1> QED
  BY <1>3, <1>4, <1>5, <1>6, <1>7 DEF Tracked, AtRest, IsPress, Counts

LEMMA StillAllTracked ==
    ASSUME InputInv, UNCHANGED <<generation, worker, mouse>>, NEW m, queue' \in {queue, Append(queue, m)},
           queue' = queue \/ (Counts(m) => Continues(m.input)), NEW k, NEW s, AllTracked(k, s)
    PROVE  AllTracked(k, s)'
<1>1. queue \in Seq(Message) /\ Len(queue) \in Nat /\ InputTypeOK
  BY DEF InputInv, InputTypeOK
<1>2. PICK n \in Nat : n = Len(queue)
  BY <1>1
<1>3. \A e : Counts(e)' <=> Counts(e)
  BY DEF Counts
<1>4. CASE queue' = queue
  BY <1>3, <1>4 DEF AllTracked, Tracked, OnlyContinue, Continues, IsPress, Counts, AtRest
<1>5. CASE queue' = Append(queue, m) /\ (Counts(m) => Continues(m.input))
  <2>1. Len(queue') = n + 1 /\ queue'[n + 1] = m /\ \A i \in 1..n : queue'[i] = queue[i]
    BY <1>1, <1>2, <1>5
  <2>2. ASSUME NEW lo \in 1..(n + 1), OnlyContinue(lo, n) PROVE OnlyContinue(lo, n + 1)'
    <3> SUFFICES ASSUME NEW j \in lo..(n + 1), Counts(queue'[j]) PROVE Continues(queue'[j].input)
      BY <1>3 DEF OnlyContinue, Continues, Counts
    <3>1. CASE j = n + 1
      BY <1>5, <2>1, <3>1
    <3>2. CASE j # n + 1
      <4>1. j \in lo..n /\ j \in 1..n
        BY <3>2
      <4> QED
        BY <2>1, <2>2, <4>1 DEF OnlyContinue
    <3> QED
      BY <3>1, <3>2
  <2>3. Tracked(n + 1, k, s) /\ (n + 1) - 1 = n /\ Len(queue') + 1 - 1 = n + 1
    BY <1>2, <2>1 DEF AllTracked
  <2>4. CASE \E i \in 1..n : Counts(queue[i]) /\ IsPress(queue[i].input, k, s) /\ OnlyContinue(i + 1, n)
    <3>1. PICK i \in 1..n : Counts(queue[i]) /\ IsPress(queue[i].input, k, s) /\ OnlyContinue(i + 1, n)
      BY <2>4
    <3>2. i \in 1..(n + 1) /\ i + 1 \in 1..(n + 1) /\ queue'[i] = queue[i]
      BY <2>1
    <3>3. Counts(queue[i])' /\ IsPress(queue[i].input, k, s)' /\ OnlyContinue(i + 1, n + 1)'
      BY <1>3, <2>2, <3>1, <3>2 DEF IsPress, Counts
    <3> QED
      BY <2>3, <3>2, <3>3 DEF AllTracked, Tracked, OnlyContinue
  <2>5. CASE /\ OnlyContinue(1, n)
             /\ worker.mouse_generation = generation => AtRest \/ (mouse.pattern = k /\ mouse.at = s)
    <3>1. OnlyContinue(1, n + 1)'
      BY <2>2, <2>5
    <3> QED
      BY <2>3, <2>5, <3>1 DEF AllTracked, Tracked, OnlyContinue, AtRest
  <2> QED
    BY <2>3, <2>4, <2>5 DEF Tracked
<1> QED
  BY <1>4, <1>5

\* A press is tracked from the moment it is passed on.
LEMMA PassedTracked ==
    ASSUME InputInv, UNCHANGED <<generation, worker>>, NEW m, queue' = Append(queue, m), NEW k, NEW s,
           Counts(m), IsPress(m.input, k, s)
    PROVE  AllTracked(k, s)'
<1>1. queue \in Seq(Message) /\ Len(queue) \in Nat
  BY DEF InputInv, InputTypeOK
<1>2. Len(queue') = Len(queue) + 1 /\ queue'[Len(queue) + 1] = m
  BY <1>1
<1>3. Len(queue') \in 1..(Len(queue') + 1 - 1) /\ (Len(queue') + 1)..(Len(queue') + 1 - 1) = {}
  BY <1>1, <1>2
<1>4. Counts(queue[Len(queue)])' /\ IsPress(queue'[Len(queue')].input, k, s)
  BY <1>2 DEF Counts
<1>5. OnlyContinue(Len(queue) + 1, Len(queue) + 1 - 1)'
  BY <1>3 DEF OnlyContinue
<1> QED
  BY <1>3, <1>4, <1>5 DEF AllTracked, Tracked, IsPress, Counts

\* Where nothing counts and the mouse rests, or is older, any press is.
Forgotten == NoneCounts /\ (worker.mouse_generation = generation => AtRest)

LEMMA ForgottenTracked ==
    ASSUME queue \in Seq(Message), Forgotten
    PROVE  InputsKnown /\ \A k, s : AllTracked(k, s)
<1>1. \A j \in 1..(Len(queue) + 1 - 1) : j \in 1..Len(queue)
  <2>1. Len(queue) \in Nat
    OBVIOUS
  <2> QED
    BY <2>1
<1> QED
  BY <1>1 DEF Forgotten, NoneCounts, InputsKnown, AllTracked, Tracked, OnlyContinue

-----------------------------------------------------------------------------
LEMMA NoneIsNoPattern == None \notin PatternKeys
  BY MouseAssumption DEF PatternKeys, Directions, Keys

\* What a step of the worker leaves of the track.
LEMMA PatternContinues ==
    ASSUME NEW m \in Mouse, NEW key, NEW input \in {"hold", "repeat"}, NEW at,
           NEW n, n = PatternInput(m, key, input, at).mouse
    PROVE  /\ n.pattern = m.pattern /\ n.at = m.at
           /\ m.pattern = None => n.movement = m.movement
<1>1. CASE key \in PatternKeys /\ key = m.pattern /\ input = "hold"
  <2>1. PatternInput(m, key, input, at) = Silently([m EXCEPT !.momentary = TRUE, !.movement = key])
    BY <1>1 DEF PatternInput
  <2>2. m.pattern # None
    BY <1>1, NoneIsNoPattern
  <2>3. n = [m EXCEPT !.momentary = TRUE, !.movement = key]
    BY <2>1 DEF Silently
  <2> QED
    BY <2>2, <2>3 DEF Mouse
<1>2. CASE ~(key \in PatternKeys /\ key = m.pattern /\ input = "hold")
  <2>1. PatternInput(m, key, input, at) = Silently(m)
    BY <1>2 DEF PatternInput
  <2> QED
    BY <2>1 DEF Silently
<1> QED
  BY <1>1, <1>2

LEMMA PatternPressed ==
    ASSUME NEW m \in Mouse, NEW key \in PatternKeys, NEW at, NEW n, n = PatternInput(m, key, "press", at).mouse
    PROVE  n.pattern = key /\ n.at = at
<1>1. key # "ok"
  BY DEF PatternKeys, Directions
<1>2. PatternInput(m, key, "press", at) = Silently(StartPattern(m, key, at))
  BY <1>1 DEF PatternInput
<1>3. n = StartPattern(m, key, at)
  BY <1>2 DEF Silently
<1> QED
  BY <1>3 DEF StartPattern, Mouse

\* An input that counts is not taken by a mouse of an older generation.
LEMMA TakenInTime ==
    ASSUME InputInv, HostInv, LooksFirst, TakeMouse, Active(Received)
    PROVE  worker.mouse_generation = generation
<1>1. IsMouse /\ Counts(queue[1])
  BY ActiveInput
<1>2. ~LooksAgain
  BY DEF TakeMouse, Receives, LooksAgain
<1>3. 1 \in 1..Len(queue)
  BY ActiveInput
<1> QED
  BY <1>1, <1>2, <1>3 DEF LooksFirst, NoneCounts

\* What continues a press leaves the mouse with it, or at rest.
LEMMA WorkerKeepsPress ==
    ASSUME InputInv, HostInv, FingerInv, LooksFirst, profile = "patterns", Worker,
           TakeMouse /\ Active(Received) => Continues(Received.input), NEW k, NEW s,
           worker.mouse_generation = generation => AtRest \/ (mouse.pattern = k /\ mouse.at = s)
    PROVE  worker'.mouse_generation = generation' => AtRest' \/ (mouse'.pattern = k /\ mouse'.at = s)
<1>1. WorkerMoves /\ generation' = generation
  BY EveryStepMoves, WorkerCalls DEF Calls
<1>2. CASE TakeMouse /\ Active(Received)
  <2>1. worker.mouse_generation = generation /\ mouse' = Moved(Received.input) /\ Received = queue[1] /\ 1 \in 1..Len(queue)
    BY <1>2, TakenInTime, ActiveInput
  <2>2. mouse \in Mouse
    BY Parts
  <2>3. /\ mouse'.pattern = mouse.pattern /\ mouse'.at = mouse.at
        /\ mouse.pattern = None => mouse'.movement = mouse.movement
    BY <1>2, <2>1, <2>2, PatternContinues DEF Moved, Continues
  <2> QED
    BY <2>1, <2>3 DEF AtRest
<1>3. CASE ~(TakeMouse /\ Active(Received))
  BY <1>1, <1>3, IdleRests DEF WorkerMoves, AtRest
<1> QED
  BY <1>2, <1>3

LEMMA WorkerTracks ==
    ASSUME InputInv, HostInv, FingerInv, RestsUnlessUsed, RestsUnlessUsed', LooksFirst, profile = "patterns", Worker,
           NEW d \in {0, 1},
           \A i \in 1..Len(queue') : i + d \in 1..Len(queue) /\ queue'[i] = queue[i + d] /\ i \in Nat,
           \A j \in 1..Len(queue) : d < j => j - d \in 1..Len(queue') /\ queue'[j - d] = queue[j],
           d = 1 => queue # << >> /\ Received = queue[1] /\ 1 \in 1..Len(queue),
           d = 0 => ~TakeMouse,
           NEW p \in (d + 1)..(Len(queue) + 1), NEW k \in PatternKeys, NEW s, Tracked(p, k, s)
    PROVE  Tracked(p - d, k, s)'
<1>1. InputTypeOK /\ queue \in Seq(Message) /\ Len(queue) \in Nat /\ generation' = generation
  BY WorkerCalls DEF InputInv, InputTypeOK, Calls
<1>2. p \in Nat /\ p - d - 1 = p - 1 - d
  BY <1>1
<1>3. \A j \in 1..(p - 1) : j \in 1..Len(queue)
  BY <1>1
<1>4. ASSUME NEW lo \in Nat, NEW low \in Nat, 1 <= lo, lo <= low + d, 1 <= low, OnlyContinue(lo, p - 1)
      PROVE  OnlyContinue(low, p - d - 1)'
  <2> SUFFICES ASSUME NEW j \in low..(p - d - 1), queue'[j].type = "MOUSE", queue'[j].generation = generation,
                      queue'[j].run = worker'.run
               PROVE  Continues(queue'[j].input)
    BY <1>1 DEF OnlyContinue, Continues, Counts
  <2>1. j + d \in lo..(p - 1) /\ j + d \in 1..Len(queue) /\ d < j + d /\ (j + d) - d = j
    BY <1>1, <1>2, <1>4
  <2>2. queue'[j] = queue[j + d]
    BY <2>1
  <2>3. Counts(queue[j + d])
    BY <2>1, <2>2, CountedBefore
  <2> QED
    BY <1>4, <2>1, <2>2, <2>3 DEF OnlyContinue
<1>5. CASE worker'.run = worker.run /\ \E i \in 1..(p - 1) : Counts(queue[i]) /\ IsPress(queue[i].input, k, s) /\ OnlyContinue(i + 1, p - 1)
  <2>1. PICK i \in 1..(p - 1) : Counts(queue[i]) /\ IsPress(queue[i].input, k, s) /\ OnlyContinue(i + 1, p - 1)
    BY <1>5
  <2>2. CASE d < i
    <3>1. i \in 1..Len(queue) /\ i - d \in 1..(p - d - 1) /\ i - d \in Nat
      BY <1>1, <2>2
    <3>2. queue'[i - d] = queue[i]
      BY <2>2, <3>1
    <3>3. Counts(queue[i - d])' /\ IsPress(queue'[i - d].input, k, s)
      BY <1>1, <1>5, <2>1, <3>2 DEF Counts
    <3>4. OnlyContinue((i - d) + 1, p - d - 1)'
      <4>1. i + 1 \in Nat /\ 1 <= i + 1 /\ (i - d) + 1 \in Nat /\ i + 1 <= (i - d) + 1 + d /\ 1 <= (i - d) + 1
        BY <3>1
      <4> QED
        BY <1>4, <2>1, <4>1
    <3> QED
      BY <3>1, <3>3, <3>4 DEF Tracked, IsPress
  <2>3. CASE ~(d < i)
    <3>1. d = 1 /\ i = 1 /\ Received = queue[1]
      BY <2>3
    <3>2. OnlyContinue(1, p - d - 1)'
      BY <1>4, <2>1, <3>1
    <3>3. queue' # queue
      <4>1. Len(queue) \in 1..Len(queue)
        BY <1>1, <3>1
      <4>2. queue' = queue => Len(queue) + 1 \in 1..Len(queue)
        BY <3>1, <4>1
      <4> QED
        BY <1>1, <4>2
    <3>4. TakeMouse
      BY <2>1, <3>1, <3>3, MouseTaken DEF Counts
    <3>5. CASE Active(Received)
      <4>1. mouse' = Moved(Received.input) /\ mouse \in Mouse
        BY <3>4, <3>5, ActiveInput, Parts
      <4>2. mouse'.pattern = k /\ mouse'.at = s
        BY <2>1, <3>1, <4>1, PatternPressed DEF Moved, IsPress
      <4> QED
        BY <3>2, <4>2 DEF Tracked
    <3>6. CASE ~Active(Received)
      <4>1. ~InUse
        BY <2>1, <3>1, <3>6 DEF Active, InUse, Counts
      <4>2. mouse' = mouse
        BY <3>4, <3>6 DEF TakeMouse
      <4>3. AtRest'
        BY <4>1, <4>2 DEF RestsUnlessUsed, AtRest
      <4> QED
        BY <3>2, <4>3 DEF Tracked
    <3> QED
      BY <3>5, <3>6
  <2> QED
    BY <2>2, <2>3
<1>6. CASE /\ OnlyContinue(1, p - 1)
           /\ worker.mouse_generation = generation => AtRest \/ (mouse.pattern = k /\ mouse.at = s)
  <2>1. OnlyContinue(1, p - d - 1)'
    BY <1>4, <1>6
  <2>2. TakeMouse /\ Active(Received) => Continues(Received.input)
    <3> SUFFICES ASSUME TakeMouse, Active(Received) PROVE Continues(Received.input)
      OBVIOUS
    <3>1. d = 1 /\ Counts(queue[1]) /\ Received = queue[1]
      BY ActiveInput
    <3>2. 1 \in 1..(p - 1)
      BY <1>1, <3>1
    <3> QED
      BY <1>6, <3>1, <3>2 DEF OnlyContinue
  <2>3. worker'.mouse_generation = generation' => AtRest' \/ (mouse'.pattern = k /\ mouse'.at = s)
    BY <1>6, <2>2, WorkerKeepsPress
  <2> QED
    BY <2>1, <2>3 DEF Tracked
\* A connection ends: nothing queued counts any more.
<1>7. CASE worker'.run # worker.run
  <2>1. worker'.run = worker.run + 1
    BY <1>7, EveryStepMoves DEF WorkerMoves
  <2>2. worker.run \in Nat /\ \A i \in 1..Len(queue) : queue[i].run \in Nat /\ queue[i].run <= worker.run
    <3>1. worker \in WorkerType /\ \A i \in 1..Len(queue) : queue[i] \in Message
      BY <1>1, Parts
    <3> QED
      BY <3>1 DEF WorkerType, Message, HostInv, RunsOrdered
  <2>3. \A i \in 1..Len(queue) : queue[i].run # worker'.run
    BY <2>1, <2>2
  <2>4. OnlyContinue(1, p - d - 1)'
    <3>1. \A j \in 1..(p - d - 1) : j + d \in 1..Len(queue) /\ d < j + d /\ (j + d) - d = j
      BY <1>1, <1>2
    <3>2. \A j \in 1..(p - d - 1) : queue'[j] = queue[j + d]
      BY <3>1
    <3> QED
      BY <2>3, <3>1, <3>2 DEF OnlyContinue, Counts
  <2>5. ~InUse'
    <3>1. worker'.connected = FALSE
      BY <1>7, WorkerOn DEF Onward, Flows
    <3> QED
      BY <3>1 DEF InUse
  <2> QED
    BY <2>4, <2>5 DEF Tracked, RestsUnlessUsed
<1> QED
  BY <1>5, <1>6, <1>7 DEF Tracked

LEMMA WorkerKeepsPresses ==
    ASSUME InputInv, HostInv, FingerInv, RestsUnlessUsed, RestsUnlessUsed', LooksFirst, profile = "patterns",
           PressesKnown, Worker
    PROVE  PressesKnown'
<1>1. InputTypeOK /\ queue \in Seq(Message) /\ Len(queue) \in Nat /\ UNCHANGED <<pad, uiQ>>
  BY WorkerCalls DEF InputInv, InputTypeOK, Calls, keypadVars
<1>2. PICK d \in {0, 1} :
        /\ \A i \in 1..Len(queue') : i + d \in 1..Len(queue) /\ queue'[i] = queue[i + d] /\ i \in Nat
        /\ \A j \in 1..Len(queue) : d < j => j - d \in 1..Len(queue') /\ queue'[j - d] = queue[j]
        /\ d = 1 => queue # << >> /\ Received = queue[1] /\ 1 \in 1..Len(queue)
        /\ d = 0 => ~TakeMouse
  BY <1>1, QueueLeft
<1>3. \A p \in (d + 1)..(Len(queue) + 1), k \in PatternKeys : \A s : Tracked(p, k, s) => Tracked(p - d, k, s)'
  BY <1>2, WorkerTracks
<1>4. Len(queue') = Len(queue) - d /\ Len(queue) + 1 \in (d + 1)..(Len(queue) + 1)
  <2>1. queue' = queue \/ queue' = Tail(queue)
    BY WorkerTakes DEF Turn
  <2>2. queue # << >> => Len(queue) >= 1 /\ Len(Tail(queue)) = Len(queue) - 1
    BY <1>1
  <2>3. Len(queue') \in Nat
    BY <1>1, <2>1, <2>2
  <2>4. CASE d = 1
    <3>1. Len(queue) \in 1..Len(queue) /\ ~(Len(queue) + 1 \in 1..Len(queue))
      BY <1>1, <1>2, <2>2, <2>4
    <3>2. queue' # queue
      BY <1>2, <2>4, <3>1
    <3>3. Len(queue') = Len(queue) - 1
      BY <1>2, <2>1, <2>2, <2>4, <3>2
    <3> QED
      BY <1>1, <2>2, <2>4, <3>1, <3>3
  <2>5. CASE d = 0
    <3>1. queue = << >> => Len(queue) = 0
      BY <1>1
    <3>2. Len(queue) \in 1..Len(queue) => Len(queue) \in 1..Len(queue')
      BY <1>2, <2>5
    <3>3. Len(queue') \in 1..Len(queue') => Len(queue') \in 1..Len(queue)
      BY <1>2, <2>5
    <3> QED
      BY <1>1, <2>3, <2>5, <3>2, <3>3
  <2> QED
    BY <2>4, <2>5
<1>5. ASSUME NEW k \in PatternKeys, NEW s, AllTracked(k, s) PROVE AllTracked(k, s)'
  <2>1. Tracked(Len(queue) + 1, k, s)
    BY <1>5 DEF AllTracked
  <2>2. PICK n : n = Len(queue) + 1 - d /\ n = Len(queue') + 1
    BY <1>1, <1>4
  <2>3. Tracked(n, k, s)'
    BY <1>3, <1>4, <2>1, <2>2
  <2> QED
    BY <2>2, <2>3 DEF AllTracked
<1>6. \A p, k, s : Traced(p, k, s) => Traced(p, k, s)'
  BY <1>1, <1>5 DEF Traced, IsPress, Continues
<1>7. PadKnown' /\ EventsKnown'
  BY <1>1, <1>6 DEF PressesKnown, PadKnown, EventsKnown, Ended
<1>8. InputsKnown'
  <2> SUFFICES ASSUME NEW p \in 1..Len(queue'), Counts(queue[p])', IsRelease(queue'[p].input, queue'[p].input.key),
                      queue'[p].input.key \in PatternKeys
               PROVE  \E s \in 0..(Wrap - 1) : Ended(queue'[p].input, s) /\ Tracked(p, queue[p].input.key, s)'
    BY DEF InputsKnown, IsRelease, Ended
  <2>1. p + d \in 1..Len(queue) /\ queue'[p] = queue[p + d] /\ p + d \in (d + 1)..(Len(queue) + 1) /\ (p + d) - d = p
    BY <1>1, <1>2
  <2>2. Counts(queue[p + d])
    BY <2>1, CountedBefore, WorkerCalls DEF Counts, Calls
  <2>3. PICK s \in 0..(Wrap - 1) : Ended(queue[p + d].input, s) /\ Tracked(p + d, queue[p + d].input.key, s)
    BY <2>1, <2>2 DEF PressesKnown, InputsKnown
  <2>4. PICK key \in PatternKeys : key = queue[p + d].input.key
    BY <2>1
  <2>5. Tracked(p, key, s)'
    BY <1>3, <2>1, <2>3, <2>4
  <2> QED
    BY <2>1, <2>3, <2>4, <2>5
<1> QED
  BY <1>7, <1>8 DEF PressesKnown

-----------------------------------------------------------------------------
\* What the screen and the host leave of it.

LEMMA QuietKeepsInputs ==
    ASSUME InputInv, InputsKnown, NEW m, Quietly(m)
    PROVE  InputsKnown'
<1>1. queue \in Seq(Message) /\ Len(queue) \in Nat /\ InputTypeOK
  BY DEF InputInv, InputTypeOK
<1> SUFFICES ASSUME NEW p \in 1..Len(queue'), Counts(queue[p])', IsRelease(queue'[p].input, queue'[p].input.key),
                    queue'[p].input.key \in PatternKeys
             PROVE  \E s \in 0..(Wrap - 1) : Ended(queue'[p].input, s) /\ Tracked(p, queue[p].input.key, s)'
  BY DEF InputsKnown, IsRelease, Ended
<1>2. p \in 1..Len(queue) /\ queue'[p] = queue[p] /\ Counts(queue[p]) /\ p \in 1..(Len(queue) + 1)
  <2>1. Counts(queue'[p])
    BY DEF Quietly, Counts
  <2>2. queue'[p] # m
    BY <2>1 DEF Quietly
  <2> QED
    BY <1>1, <2>1, <2>2, Appended DEF Quietly
<1>3. PICK s \in 0..(Wrap - 1) : Ended(queue[p].input, s) /\ Tracked(p, queue[p].input.key, s)
  BY <1>2 DEF InputsKnown
<1>4. PICK k : k = queue[p].input.key
  OBVIOUS
<1>5. Tracked(p, k, s)'
  BY <1>2, <1>3, <1>4, StillTracked DEF Quietly
<1> QED
  BY <1>2, <1>3, <1>4, <1>5

\* A step that takes no event, and queues nothing that counts.
LEMMA UntakenKeepsPresses ==
    ASSUME InputInv, PressesKnown, UNCHANGED <<pad, uiQ>>, NEW m, Quietly(m)
    PROVE  PressesKnown'
<1>1. queue \in Seq(Message) /\ Len(queue) \in Nat /\ InputTypeOK
  BY DEF InputInv, InputTypeOK
<1>2. \A k, s : AllTracked(k, s) => AllTracked(k, s)'
  BY StillAllTracked DEF Quietly
<1>3. \A p, k, s : Traced(p, k, s) => Traced(p, k, s)'
  BY <1>2 DEF Traced, IsPress, Continues
<1>4. PadKnown' /\ EventsKnown'
  BY <1>3 DEF PressesKnown, PadKnown, EventsKnown, Ended
<1>5. InputsKnown'
  BY QuietKeepsInputs DEF PressesKnown
<1> QED
  BY <1>4, <1>5 DEF PressesKnown

\* An event is taken: those behind it keep their press, which may be on the queue now.
LEMMA TakenKeepsTrace ==
    ASSUME KeypadTypeOK, Takes, NEW p \in 2..(Len(uiQ) + 1), NEW k \in Keys, NEW s, Traced(p, k, s),
           k \in PatternKeys /\ Continues(Event) /\ AllTracked(k, s) => AllTracked(k, s)',
           k \in PatternKeys /\ IsPress(Event, k, s) => AllTracked(k, s)'
    PROVE  Traced(p - 1, k, s)'
<1>1. uiQ \in Seq(UiEvent) /\ Len(uiQ) \in Nat /\ Len(uiQ') = Len(uiQ) - 1 /\ Event = uiQ[1] /\ uiQ # << >>
  <2>1. uiQ \in Seq(UiEvent) /\ uiQ # << >> /\ uiQ' = Tail(uiQ)
    BY DEF KeypadTypeOK, Takes
  <2> QED
    BY <2>1 DEF Event
<1>2. \A i \in 1..Len(uiQ') : uiQ'[i] = uiQ[i + 1]
  BY Taken
<1>3. \A i \in 1..(p - 2) : i + 1 \in 1..(p - 1) /\ uiQ'[i] = uiQ[i + 1]
  BY <1>1, <1>2
<1>4. p - 1 - 1 = p - 2 /\ 1 \in 1..(p - 1)
  OBVIOUS
<1>5. CASE \E j \in 1..(p - 1) : IsPress(uiQ[j], k, s) /\ \A l \in (j + 1)..(p - 1) : Continues(uiQ[l])
  <2>1. PICK j \in 1..(p - 1) : IsPress(uiQ[j], k, s) /\ \A l \in (j + 1)..(p - 1) : Continues(uiQ[l])
    BY <1>5
  <2>2. CASE j = 1
    <3>1. \A l \in 1..(p - 2) : Continues(uiQ'[l])
      <4>1. \A l \in 1..(p - 2) : l + 1 \in (j + 1)..(p - 1)
        BY <2>2
      <4> QED
        BY <1>3, <2>1, <4>1
    <3>2. k \in PatternKeys => AllTracked(k, s)'
      BY <1>1, <2>1, <2>2
    <3> QED
      BY <1>4, <3>1, <3>2 DEF Traced, Continues
  <2>3. CASE j # 1
    <3>1. j - 1 \in 1..(p - 2) /\ (j - 1) + 1 = j
      BY <2>3
    <3>2. IsPress(uiQ'[j - 1], k, s)
      BY <1>3, <2>1, <3>1
    <3>3. \A l \in j..(p - 2) : l \in 1..(p - 2) /\ l + 1 \in (j + 1)..(p - 1)
      OBVIOUS
    <3>4. \A l \in ((j - 1) + 1)..(p - 2) : Continues(uiQ'[l])
      BY <1>3, <2>1, <3>1, <3>3
    <3> QED
      BY <1>4, <3>1, <3>2, <3>4 DEF Traced, IsPress, Continues
  <2> QED
    BY <2>2, <2>3
<1>6. CASE (\A l \in 1..(p - 1) : Continues(uiQ[l])) /\ (k \in PatternKeys => AllTracked(k, s))
  <2>1. \A l \in 1..(p - 2) : Continues(uiQ'[l])
    BY <1>3, <1>6
  <2>2. k \in PatternKeys => AllTracked(k, s)'
    BY <1>1, <1>4, <1>6
  <2> QED
    BY <1>4, <2>1, <2>2 DEF Traced, Continues
<1> QED
  BY <1>5, <1>6 DEF Traced

LEMMA TakenKeepsKnown ==
    ASSUME InputInv, Takes, PadKnown, EventsKnown,
           \A k \in PatternKeys : \A s :
              /\ Continues(Event) /\ AllTracked(k, s) => AllTracked(k, s)'
              /\ IsPress(Event, k, s) => AllTracked(k, s)'
    PROVE  PadKnown' /\ EventsKnown'
<1>1. KeypadTypeOK /\ uiQ \in Seq(UiEvent) /\ Len(uiQ) \in Nat /\ UNCHANGED pad
  BY DEF InputInv, InputTypeOK, KeypadTypeOK, Takes
<1>2. Len(uiQ') = Len(uiQ) - 1 /\ uiQ # << >> /\ Len(uiQ) >= 1
  BY <1>1 DEF Takes
<1>3. \A p \in 2..(Len(uiQ) + 1), k \in Keys : \A s : Traced(p, k, s) => Traced(p - 1, k, s)'
  BY <1>1, TakenKeepsTrace
<1>4. PadKnown'
  <2> SUFFICES ASSUME pad.key # NoKey PROVE Traced(Len(uiQ) + 1, pad.key, pad.start)'
    BY <1>1 DEF PadKnown
  <2>1. PICK p, k, s : p = Len(uiQ) + 1 /\ k = pad.key /\ s = pad.start
    OBVIOUS
  <2>2. p \in 2..(Len(uiQ) + 1) /\ k \in Keys /\ p - 1 = Len(uiQ') + 1
    BY <1>1, <1>2, <2>1 DEF KeypadTypeOK, PadType
  <2>3. Traced(p, k, s)
    BY <2>1 DEF PadKnown
  <2>4. Traced(p - 1, k, s)'
    BY <1>3, <2>2, <2>3
  <2> QED
    BY <1>1, <2>1, <2>2, <2>4
<1>5. EventsKnown'
  <2> SUFFICES ASSUME NEW p \in 1..Len(uiQ'), uiQ'[p].kind = "release"
               PROVE  \E s \in 0..(Wrap - 1) : Ended(uiQ'[p], s) /\ Traced(p, uiQ[p].key, s)'
    BY DEF EventsKnown, Ended
  <2>1. p + 1 \in 1..Len(uiQ) /\ uiQ'[p] = uiQ[p + 1] /\ p + 1 \in 2..(Len(uiQ) + 1) /\ (p + 1) - 1 = p
    BY <1>1, <1>2, Taken
  <2>2. PICK s \in 0..(Wrap - 1) : Ended(uiQ[p + 1], s) /\ Traced(p + 1, uiQ[p + 1].key, s)
    BY <2>1 DEF EventsKnown
  <2>3. PICK k : k = uiQ[p + 1].key
    OBVIOUS
  <2>4. k \in Keys
    <3>1. uiQ[p + 1] \in UiEvent
      BY <1>1, <2>1
    <3> QED
      BY <2>3, <3>1 DEF UiEvent
  <2>5. Traced(p, k, s)'
    BY <1>3, <2>1, <2>2, <2>3, <2>4
  <2> QED
    BY <2>1, <2>2, <2>3, <2>5
<1> QED
  BY <1>4, <1>5

\* An event that is passed over would have been passed on, or all is forgotten.
LEMMA PassedOverForgets ==
    ASSUME InputInv, HostInv, FingerInv, NoneWaits, RestsUnlessUsed, IsMouse, Event.key \in Assigned(profile),
           ~(ui.screen = "remote" /\ Wanted /\ Event.key # "mode")
    PROVE  Forgotten
<1>1. ui.screen \in {"menu", "remote"} /\ worker.state \in States
  BY DEF InputInv, InputTypeOK, UiType, WorkerType
<1>2. CASE ui.screen = "menu"
  BY <1>2 DEF FingerInv, Listened, RestsUnlessUsed, Forgotten, NoneCounts
<1>3. CASE ui.screen = "remote"
  <2>1. ~Reports
    <3> SUFFICES ASSUME Reports PROVE FALSE
      OBVIOUS
    <3>1. Event.key # "mode"
      BY AssignedKeys
    <3>2. Wanted
      BY <1>3, <3>1 DEF Wanted, IsMouse
    <3> QED
      BY <1>3, <3>1, <3>2
  <2>2. ~InUse
    BY <2>1 DEF FingerInv, Listened, InUse
  <2>3. worker.state \in {"CONNECTING", "RECONNECTING", "ERROR"}
    BY <1>1, <2>1 DEF States, Reports
  <2>4. NoneCounts
    BY <2>3 DEF FingerInv, Listened, NoneWaits, NoneCounts
  <2> QED
    BY <2>2, <2>4 DEF RestsUnlessUsed, Forgotten
<1> QED
  BY <1>1, <1>2, <1>3

\* The events of the pattern keys that are not passed on: the press leaves all forgotten.
LEMMA UnpassedKeepsPresses ==
    ASSUME InputInv, HostInv, FingerInv, NoneWaits, RestsUnlessUsed, profile = "patterns", PressesKnown, Takes,
           ~(ui.screen = "remote" /\ Wanted /\ Event.key # "mode"), NEW m, Quietly(m)
    PROVE  PressesKnown'
<1>1. \A k, s : AllTracked(k, s) => AllTracked(k, s)'
  BY StillAllTracked DEF Quietly
<1>2. ASSUME NEW k \in PatternKeys, NEW s, IsPress(Event, k, s) PROVE AllTracked(k, s)
  <2>1. Event.key \in Assigned(profile) /\ IsMouse
    BY <1>2 DEF IsPress, Assigned, IsMouse
  <2>2. Forgotten
    BY <2>1, PassedOverForgets
  <2>3. queue \in Seq(Message)
    BY DEF InputInv, InputTypeOK
  <2> QED
    BY <2>2, <2>3, ForgottenTracked
<1>3. PadKnown' /\ EventsKnown'
  BY <1>1, <1>2, TakenKeepsKnown DEF PressesKnown
<1>4. InputsKnown'
  BY QuietKeepsInputs DEF PressesKnown
<1> QED
  BY <1>3, <1>4 DEF PressesKnown

LEMMA PassedKeepsPresses ==
    ASSUME InputInv, profile = "patterns", PressesKnown, Passes
    PROVE  PressesKnown'
<1> DEFINE m == Msg("MOUSE", Carried(Event), FALSE)
<1>1. queue' = Append(queue, m) /\ UNCHANGED <<profile, generation, worker, mouse>> /\ Takes
  BY DEF Passes, MouseInput
<1>2. /\ Counts(m) /\ m.input.kind = Event.kind /\ m.input.key = Event.key
      /\ m.input.at = Event.at /\ m.input.age = Event.age
  BY DEF Counts, Msg, Carried
<1> HIDE DEF m
<1>3. queue \in Seq(Message) /\ Len(queue) \in Nat /\ InputTypeOK /\ KeypadTypeOK
  BY DEF InputInv, InputTypeOK
<1>4. ASSUME NEW k \in PatternKeys, NEW s, Continues(Event), AllTracked(k, s) PROVE AllTracked(k, s)'
  BY <1>1, <1>2, <1>4, StillAllTracked DEF Continues
<1>5. ASSUME NEW k \in PatternKeys, NEW s, IsPress(Event, k, s) PROVE AllTracked(k, s)'
  BY <1>1, <1>2, <1>5, PassedTracked DEF IsPress
<1>6. PadKnown' /\ EventsKnown'
  BY <1>1, <1>4, <1>5, TakenKeepsKnown DEF PressesKnown
<1>7. InputsKnown'
  <2> SUFFICES ASSUME NEW p \in 1..Len(queue'), Counts(queue[p])', IsRelease(queue'[p].input, queue'[p].input.key),
                      queue'[p].input.key \in PatternKeys
               PROVE  \E s \in 0..(Wrap - 1) : Ended(queue'[p].input, s) /\ Tracked(p, queue[p].input.key, s)'
    BY DEF InputsKnown, IsRelease, Ended
  <2>1. PICK k : k = queue'[p].input.key
    OBVIOUS
  <2>2. CASE p \in 1..Len(queue) /\ queue'[p] = queue[p]
    <3>1. Counts(queue[p]) /\ p \in 1..(Len(queue) + 1)
      BY <1>1, <1>3, <2>2 DEF Counts
    <3>2. PICK s \in 0..(Wrap - 1) : Ended(queue[p].input, s) /\ Tracked(p, queue[p].input.key, s)
      BY <2>2, <3>1 DEF PressesKnown, InputsKnown
    <3>3. Tracked(p, k, s)'
      BY <1>1, <2>1, <2>2, <3>1, <3>2, StillTracked
    <3> QED
      BY <2>1, <2>2, <3>2, <3>3
  <2>3. CASE p = Len(queue) + 1 /\ queue'[p] = m
    <3>1. Event = uiQ[1] /\ 1 \in 1..Len(uiQ)
      BY <1>1, <1>3, Taken
    <3>2. uiQ[1].kind = "release" /\ uiQ[1].key = k
      BY <1>2, <2>1, <2>3, <3>1 DEF IsRelease
    <3>3. PICK s \in 0..(Wrap - 1) : Ended(uiQ[1], s) /\ Traced(1, k, s)
      BY <3>1, <3>2 DEF PressesKnown, EventsKnown
    <3>4. AllTracked(k, s)
      BY <2>1, <3>3 DEF Traced
    <3>5. Tracked(p, k, s)
      BY <2>3, <3>4 DEF AllTracked
    <3>6. Tracked(p, k, s)'
      BY <1>1, <1>3, <2>3, <3>5, StillTracked
    <3>7. Ended(queue'[p].input, s)
      BY <1>2, <2>3, <3>1, <3>3 DEF Ended
    <3> QED
      BY <2>1, <3>6, <3>7
  <2> QED
    BY <1>1, <1>3, <2>2, <2>3, Appended
<1> QED
  BY <1>6, <1>7 DEF PressesKnown

LEMMA UiTurnKeepsPresses ==
    ASSUME InputInv, HostInv, FingerInv, NoneWaits, RestsUnlessUsed, profile = "patterns", PressesKnown, UiTurn
    PROVE  PressesKnown'
<1>1. CASE Passes
  BY <1>1, PassedKeepsPresses
<1>2. CASE Forgets /\ (Takes \/ UNCHANGED <<pad, uiQ, lost>>)
  <2>1. NoneCounts' /\ worker'.mouse_generation # generation'
    BY <1>2, NewGenerationForgets DEF Forgets
  <2>2. Forgotten' /\ queue' \in Seq(Message)
    BY <1>2, <2>1 DEF Forgotten, Forgets, InputInv, InputTypeOK
  <2>3. InputsKnown' /\ \A k, s : AllTracked(k, s)'
    <3>1. \A j \in 1..(Len(queue') + 1 - 1) : j \in 1..Len(queue')
      <4>1. Len(queue') \in Nat
        BY <2>2
      <4> QED
        BY <4>1
    <3> QED
      BY <2>1, <3>1 DEF NoneCounts, Counts, InputsKnown, AllTracked, Tracked, OnlyContinue
  <2>4. CASE Takes
    BY <2>3, <2>4, TakenKeepsKnown DEF PressesKnown
  <2>5. CASE UNCHANGED <<pad, uiQ, lost>>
    BY <2>3, <2>5 DEF PressesKnown, PadKnown, EventsKnown, Traced, IsPress, Continues, Ended
  <2> QED
    BY <1>2, <2>3, <2>4, <2>5 DEF PressesKnown
<1>3. CASE /\ \E m : Quietly(m)
           /\ UNCHANGED <<pad, uiQ, lost>> \/ (Takes /\ ~(IsMouse /\ ui.screen = "remote" /\ Wanted /\ Event.key # "mode"))
  <2>1. PICK m : Quietly(m)
    BY <1>3
  <2>2. IsMouse
    BY DEF IsMouse
  <2> QED
    BY <1>3, <2>1, <2>2, UnpassedKeepsPresses, UntakenKeepsPresses
<1> QED
  BY <1>1, <1>2, <1>3, UiTurnDoes

-----------------------------------------------------------------------------
\* What a scan of the keypad leaves of it.
OfPad(e) == e.kind = "release" /\ e.key = pad.key /\ Ended(e, pad.start)

LEMMA NothingDropped ==
    ASSUME KeypadTypeOK, NEW events \in Seq(UiEvent), Emit(events), Len(events) \in 1..2,
           \A j \in 1..Len(events) : events[j].kind \notin lost'
    PROVE  Len(uiQ') = Len(uiQ) + Len(events)
<1> DEFINE all == uiQ \o events
           fit == IF Len(all) < UiCap THEN Len(all) ELSE UiCap
<1>1. /\ all \in Seq(UiEvent) /\ Len(all) = Len(uiQ) + Len(events) /\ Len(all) \in Nat
      /\ \A i \in 1..Len(all) : all[i] = IF i <= Len(uiQ) THEN uiQ[i] ELSE events[i - Len(uiQ)]
  BY DEF KeypadTypeOK
<1>2. Len(uiQ) \in Nat /\ Len(uiQ) <= UiCap /\ UiCap \in Nat
  BY KeypadAssumption DEF KeypadTypeOK
<1>3. fit \in 0..Len(all)
  BY <1>1, <1>2
<1>4. uiQ' = SubSeq(all, 1, fit) /\ lost' = lost \cup {all[i].kind : i \in (fit + 1)..Len(all)}
  BY DEF Emit
<1> HIDE DEF all, fit
<1>5. Len(uiQ') = fit
  BY <1>1, <1>3, <1>4
<1>6. all[Len(all)] = events[Len(events)]
  <2>1. Len(all) \in 1..Len(all) /\ ~(Len(all) <= Len(uiQ)) /\ Len(all) - Len(uiQ) = Len(events)
    BY <1>1, <1>2
  <2> QED
    BY <1>1, <2>1
<1>7. fit = Len(all)
  <2> SUFFICES ASSUME fit # Len(all) PROVE FALSE
    OBVIOUS
  <2>1. Len(all) \in (fit + 1)..Len(all)
    BY <1>1, <1>3
  <2>2. all[Len(all)].kind \in lost'
    BY <1>4, <2>1
  <2> QED
    BY <1>6, <2>2
<1> QED
  BY <1>1, <1>5, <1>7

LEMMA ScanTells ==
    ASSUME KeypadTypeOK, HoldInv, NEW k \in Keys \cup {NoKey}, Scan(k), NoPressLost'
    PROVE  /\ Len(uiQ) \in Nat /\ Len(uiQ') \in Nat
           /\ \A i \in 1..Len(uiQ) : i \in 1..Len(uiQ') /\ uiQ'[i] = uiQ[i]
           /\ \/ /\ pad.key # NoKey /\ pad'.key = pad.key /\ pad'.start = pad.start
                 /\ \A i \in 1..Len(uiQ') : i \in 1..Len(uiQ) \/ Continues(uiQ'[i])
              \/ \E a, b \in {0, 1} :
                    /\ a = 1 <=> pad.key # NoKey
                    /\ b = 1 <=> pad'.key # NoKey
                    /\ Len(uiQ') = Len(uiQ) + a + b
                    /\ a = 1 => OfPad(uiQ'[Len(uiQ) + 1])
                    /\ b = 1 => IsPress(uiQ'[Len(uiQ) + a + 1], pad'.key, pad'.start)
<1> DEFINE now == IF pad.key = NoKey THEN Wrap - 1 ELSE (clock + 1) % Wrap
<1>1. pad \in PadType /\ now \in 0..(Wrap - 1) /\ pad.age + 1 \in Nat /\ Len(uiQ) \in Nat
  <2>1. Wrap - 1 \in 0..(Wrap - 1) /\ clock \in 0..(Wrap - 1)
    BY KeypadAssumption DEF KeypadTypeOK
  <2>2. (clock + 1) % Wrap \in 0..(Wrap - 1)
    BY <2>1, NextTick
  <2> QED
    BY <2>1, <2>2 DEF KeypadTypeOK, PadType
<1>2. pad.key # NoKey => pad.age + 1 <= LongestHold + 1 /\ now = (pad.start + (pad.age + 1)) % Wrap
  <2> SUFFICES ASSUME pad.key # NoKey PROVE pad.age + 1 <= LongestHold + 1 /\ now = (pad.start + (pad.age + 1)) % Wrap
    OBVIOUS
  <2>1. pad.start \in 0..(Wrap - 1) /\ pad.age \in Nat /\ pad.age <= LongestHold /\ LongestHold \in Nat
    BY <1>1, KeypadAssumption DEF PadType, HoldInv
  <2>2. pad.age + 1 < Wrap /\ pad.age + 1 <= LongestHold + 1
    BY <2>1, KeypadAssumption
  <2>3. clock = (pad.start + pad.age) % Wrap
    BY DEF HoldInv
  <2>4. (clock + 1) % Wrap = (pad.start + pad.age + 1) % Wrap
    BY <2>1, <2>2, <2>3, AgeIsShown
  <2>5. pad.start + pad.age + 1 = pad.start + (pad.age + 1)
    BY <2>1
  <2> QED
    BY <2>2, <2>4, <2>5
<1> HIDE DEF now
<1>3. CASE k # pad.key /\ Changed(k, now)
  <2> DEFINE press == IF k = NoKey THEN pad.press ELSE pad.press + 1
             Told(kind, key, age, n) ==
                IF key = NoKey THEN << >>
                ELSE <<[kind |-> kind, key |-> key, at |-> now, age |-> age, press |-> n]>>
             old == Told("release", pad.key, pad.age + 1, pad.press)
             new == Told("press", k, 0, press)
  <2>1. Emit(old \o new) /\ pad'.key = k /\ pad'.start = now /\ press \in Nat
    BY <1>1, <1>3 DEF Changed, PadType
  <2>2. /\ old \in Seq(UiEvent) /\ Len(old) <= 1
        /\ Len(old) = 1 => OfPad(old[1])
        /\ Len(old) = 1 <=> pad.key # NoKey
    <3>1. CASE pad.key = NoKey
      BY <3>1
    <3>2. CASE pad.key # NoKey
      <4>1. [kind |-> "release", key |-> pad.key, at |-> now, age |-> pad.age + 1, press |-> pad.press] \in UiEvent
        BY <1>1, <3>2 DEF UiEvent, PadType, EventKinds
      <4>2. OfPad([kind |-> "release", key |-> pad.key, at |-> now, age |-> pad.age + 1, press |-> pad.press])
        BY <1>2, <3>2 DEF OfPad, Ended
      <4> QED
        BY <3>2, <4>1, <4>2
    <3> QED
      BY <3>1, <3>2
  <2>3. /\ new \in Seq(UiEvent) /\ Len(new) <= 1
        /\ Len(new) = 1 => IsPress(new[1], k, now)
        /\ Len(new) = 1 <=> k # NoKey
    <3>1. CASE k = NoKey
      BY <3>1
    <3>2. CASE k # NoKey
      <4>1. [kind |-> "press", key |-> k, at |-> now, age |-> 0, press |-> press] \in UiEvent
        BY <1>1, <2>1, <3>2 DEF UiEvent, EventKinds
      <4> QED
        BY <3>2, <4>1 DEF IsPress
    <3> QED
      BY <3>1, <3>2
  <2> HIDE DEF old, new, press
  <2>4. /\ old \o new \in Seq(UiEvent) /\ Len(old \o new) = Len(old) + Len(new)
        /\ Len(old) \in 0..1 /\ Len(new) \in 0..1
        /\ \A j \in 1..Len(old \o new) : (old \o new)[j] = IF j <= Len(old) THEN old[j] ELSE new[j - Len(old)]
    BY <2>2, <2>3, Joined
  <2>5. Len(old) + Len(new) \in 1..2
    <3>1. Len(old) = 1 \/ Len(new) = 1
      BY <1>3, <2>2, <2>3
    <3>2. \A x, y \in 0..1 : x = 1 \/ y = 1 => x + y \in 1..2
      OBVIOUS
    <3> QED
      BY <2>4, <3>1, <3>2
  <2>6. /\ Len(old) = 1 => 1 \in 1..Len(old \o new) /\ (old \o new)[1] = old[1]
        /\ Len(new) = 1 => /\ Len(old) + 1 \in 1..Len(old \o new)
                           /\ (old \o new)[Len(old) + 1] = new[1]
    <3>1. CASE Len(old) = 1
      <4>1. 1 \in 1..Len(old \o new) /\ (old \o new)[1] = old[1]
        BY <2>4, <3>1
      <4>2. CASE Len(new) = 1
        <5>1. Len(old \o new) = 2 /\ 2 \in 1..Len(old \o new) /\ ~(2 <= Len(old))
          BY <2>4, <3>1, <4>2
        <5>2. (old \o new)[2] = new[2 - 1]
          BY <2>4, <3>1, <5>1
        <5> QED
          BY <3>1, <4>1, <5>1, <5>2
      <4> QED
        BY <3>1, <4>1, <4>2
    <3>2. CASE Len(old) = 0
      <4>1. CASE Len(new) = 1
        <5>1. 1 \in 1..Len(old \o new) /\ ~(1 <= Len(old))
          BY <2>4, <3>2, <4>1
        <5>2. (old \o new)[1] = new[1]
          BY <2>4, <3>2, <5>1
        <5> QED
          BY <3>2, <5>1, <5>2
      <4> QED
        BY <3>2, <4>1
    <3> QED
      BY <2>4, <3>1, <3>2
  <2> DEFINE events == old \o new
  <2>7. \A j \in 1..Len(events) : events[j].kind \in {"release", "press"}
    <3>1. \A j \in 1..Len(events) : (j = 1 /\ Len(old) = 1) \/ (j = Len(old) + 1 /\ Len(new) = 1)
      BY <2>4
    <3> QED
      BY <2>2, <2>3, <2>6, <3>1 DEF OfPad, IsPress
  <2>8. /\ events \in Seq(UiEvent) /\ Emit(events) /\ Len(events) = Len(old) + Len(new) /\ Len(events) \in 1..2
        /\ Len(old) = 1 => 1 \in 1..Len(events) /\ events[1] = old[1]
        /\ Len(new) = 1 => Len(old) + 1 \in 1..Len(events) /\ events[Len(old) + 1] = new[1]
    BY <2>1, <2>4, <2>5, <2>6
  <2> HIDE DEF events
  <2>9. \A j \in 1..Len(events) : events[j].kind \notin lost'
    BY <2>7 DEF NoPressLost
  <2>10. Len(uiQ') = Len(uiQ) + Len(events)
    BY <2>8, <2>9, NothingDropped
  <2>11. \A i \in 1..Len(uiQ') : uiQ'[i] = IF i <= Len(uiQ) THEN uiQ[i] ELSE events[i - Len(uiQ)]
    BY <2>8, Posted
  <2>12. \A j \in 1..Len(events) : uiQ'[Len(uiQ) + j] = events[j]
    <3> SUFFICES ASSUME NEW j \in 1..Len(events) PROVE uiQ'[Len(uiQ) + j] = events[j]
      OBVIOUS
    <3>1. Len(uiQ) + j \in 1..Len(uiQ') /\ ~(Len(uiQ) + j <= Len(uiQ)) /\ (Len(uiQ) + j) - Len(uiQ) = j
      BY <1>1, <2>8, <2>10
    <3> QED
      BY <2>11, <3>1
  <2>13. PICK a, b \in {0, 1} : a = Len(old) /\ b = Len(new)
    BY <2>4
  <2>14. /\ a = 1 => OfPad(uiQ'[Len(uiQ) + 1])
         /\ b = 1 => IsPress(uiQ'[Len(uiQ) + a + 1], k, now)
    <3>1. Len(uiQ) + (a + 1) = Len(uiQ) + a + 1
      BY <1>1, <2>13
    <3> QED
      BY <2>2, <2>3, <2>8, <2>12, <2>13, <3>1
  <2>15. Len(uiQ') \in Nat /\ Len(uiQ') = Len(uiQ) + a + b /\ \A i \in 1..Len(uiQ) : i \in 1..Len(uiQ') /\ uiQ'[i] = uiQ[i]
    BY <1>1, <2>8, <2>10, <2>11, <2>13
  <2>16. (a = 1 <=> pad.key # NoKey) /\ (b = 1 <=> k # NoKey)
    BY <2>2, <2>3, <2>13
  <2> QED
    BY <1>1, <2>1, <2>14, <2>15, <2>16
<1>4. CASE k = pad.key /\ k # NoKey /\ Held(now)
  <2> DEFINE Told(kind, age) ==
                <<[kind |-> kind, key |-> pad.key, at |-> now, age |-> age, press |-> pad.press]>>
             hold == IF LongDue(pad, now) /\ pad.key \in LongKeys THEN Told("hold", pad.age + 1) ELSE << >>
             repeat == IF RepeatDue(pad, now) THEN Told("repeat", pad.age + 1) ELSE << >>
  <2>1. Emit(hold \o repeat) /\ pad'.key = pad.key /\ pad'.start = pad.start
    BY <1>1, <1>4 DEF Held, PadType
  <2>2. \A kind \in {"hold", "repeat"} :
            LET e == [kind |-> kind, key |-> pad.key, at |-> now, age |-> pad.age + 1, press |-> pad.press]
            IN  e \in UiEvent /\ Continues(e)
    BY <1>1, <1>4 DEF UiEvent, PadType, EventKinds, Continues
  <2>3. hold \in Seq(UiEvent) /\ Len(hold) <= 1 /\ (Len(hold) = 1 => Continues(hold[1]))
    BY <2>2
  <2>4. repeat \in Seq(UiEvent) /\ Len(repeat) <= 1 /\ (Len(repeat) = 1 => Continues(repeat[1]))
    BY <2>2
  <2> HIDE DEF hold, repeat
  <2>5. /\ hold \o repeat \in Seq(UiEvent) /\ Len(hold \o repeat) = Len(hold) + Len(repeat)
        /\ Len(hold) \in 0..1 /\ Len(repeat) \in 0..1
        /\ \A j \in 1..Len(hold \o repeat) :
              (hold \o repeat)[j] = IF j <= Len(hold) THEN hold[j] ELSE repeat[j - Len(hold)]
    BY <2>3, <2>4, Joined
  <2> DEFINE events == hold \o repeat
  <2>6. \A j \in 1..Len(events) : Continues(events[j])
    BY <2>3, <2>4, <2>5
  <2>7. events \in Seq(UiEvent) /\ Emit(events)
    BY <2>1, <2>5
  <2> HIDE DEF events
  <2>8. /\ \A i \in 1..Len(uiQ) : i \in 1..Len(uiQ') /\ uiQ'[i] = uiQ[i]
        /\ \A i \in 1..Len(uiQ') : i \in 1..Len(uiQ) \/ \E j \in 1..Len(events) : uiQ'[i] = events[j]
    BY <2>7, Emitted
  <2>9. Len(uiQ') \in Nat
    BY <2>7, EmitType
  <2> QED
    BY <1>1, <1>4, <2>1, <2>6, <2>8, <2>9
<1> QED
  BY <1>3, <1>4 DEF Scan, now

LEMMA KeyKeepsPresses ==
    ASSUME InputInv, PressesKnown, NoPressLost', Key
    PROVE  PressesKnown'
<1>1. PICK k \in Keys \cup {NoKey} : Scan(k)
  BY InputAssumption DEF Key, InputInv, InputTypeOK
<1>2. KeypadTypeOK /\ HoldInv /\ UNCHANGED <<profile, generation, queue, worker, mouse>>
  BY DEF InputInv, InputTypeOK, Key
<1>3. /\ Len(uiQ) \in Nat /\ Len(uiQ') \in Nat
      /\ \A i \in 1..Len(uiQ) : i \in 1..Len(uiQ') /\ uiQ'[i] = uiQ[i]
      /\ \/ /\ pad.key # NoKey /\ pad'.key = pad.key /\ pad'.start = pad.start
            /\ \A i \in 1..Len(uiQ') : i \in 1..Len(uiQ) \/ Continues(uiQ'[i])
         \/ \E a, b \in {0, 1} :
               /\ a = 1 <=> pad.key # NoKey
               /\ b = 1 <=> pad'.key # NoKey
               /\ Len(uiQ') = Len(uiQ) + a + b
               /\ a = 1 => OfPad(uiQ'[Len(uiQ) + 1])
               /\ b = 1 => IsPress(uiQ'[Len(uiQ) + a + 1], pad'.key, pad'.start)
  BY <1>1, <1>2, ScanTells
<1>4. (\A k_1, s : AllTracked(k_1, s) => AllTracked(k_1, s)') /\ InputsKnown'
  BY <1>2 DEF AllTracked, Tracked, OnlyContinue, Continues, IsPress, Counts, AtRest,
              PressesKnown, InputsKnown, IsRelease, Ended
<1>5. ASSUME NEW p \in 1..(Len(uiQ) + 1), NEW key, NEW s, Traced(p, key, s)
      PROVE  Traced(p, key, s)'
  <2>1. \A i \in 1..(p - 1) : uiQ'[i] = uiQ[i]
    BY <1>3
  <2>2. \A j \in 1..(p - 1) : \A l \in (j + 1)..(p - 1) : l \in 1..(p - 1)
    OBVIOUS
  <2> QED
    BY <1>4, <1>5, <2>1, <2>2 DEF Traced, IsPress, Continues
<1>6. pad.start \in 0..(Wrap - 1)
  BY <1>2 DEF KeypadTypeOK, PadType
<1>7. ASSUME NEW p \in 1..Len(uiQ), uiQ'[p].kind = "release"
      PROVE  \E s \in 0..(Wrap - 1) : Ended(uiQ'[p], s) /\ Traced(p, uiQ[p].key, s)'
  <2>1. uiQ'[p] = uiQ[p] /\ p \in 1..(Len(uiQ) + 1)
    BY <1>3
  <2>2. PICK s \in 0..(Wrap - 1) : Ended(uiQ[p], s) /\ Traced(p, uiQ[p].key, s)
    BY <1>7, <2>1 DEF PressesKnown, EventsKnown
  <2>3. PICK key : key = uiQ[p].key
    OBVIOUS
  <2>4. Traced(p, key, s)'
    BY <1>5, <2>1, <2>2, <2>3
  <2> QED
    BY <2>1, <2>2, <2>3, <2>4
<1>8. PICK n : n = Len(uiQ) + 1 /\ n \in 1..(Len(uiQ) + 1)
  BY <1>3
\* A key that stays down.
<1>9. CASE /\ pad.key # NoKey /\ pad'.key = pad.key /\ pad'.start = pad.start
           /\ \A i \in 1..Len(uiQ') : i \in 1..Len(uiQ) \/ Continues(uiQ'[i])
  <2>1. PICK key, s : key = pad.key /\ s = pad.start
    OBVIOUS
  <2>2. Traced(n, key, s)'
    BY <1>5, <1>8, <1>9, <2>1 DEF PressesKnown, PadKnown
  <2>3. \A l \in n..Len(uiQ') : Continues(uiQ'[l])
    BY <1>3, <1>8, <1>9
  <2>4. Traced(Len(uiQ) + 1, key, s)'
    <3>1. CASE \E j \in 1..(n - 1) : IsPress(uiQ'[j], key, s) /\ \A l \in (j + 1)..(n - 1) : Continues(uiQ'[l])
      <4>1. PICK j \in 1..(n - 1) : IsPress(uiQ'[j], key, s) /\ \A l \in (j + 1)..(n - 1) : Continues(uiQ'[l])
        BY <3>1
      <4>2. j \in 1..(Len(uiQ') + 1 - 1)
        BY <1>3, <1>8
      <4>3. \A l \in (j + 1)..(Len(uiQ') + 1 - 1) : l \in (j + 1)..(n - 1) \/ l \in n..Len(uiQ')
        BY <1>3, <1>8
      <4> QED
        BY <2>3, <4>1, <4>2, <4>3 DEF Traced, IsPress, Continues
    <3>2. CASE (\A l \in 1..(n - 1) : Continues(uiQ'[l])) /\ (key \in PatternKeys => AllTracked(key, s)')
      <4>1. \A l \in 1..(Len(uiQ') + 1 - 1) : l \in 1..(n - 1) \/ l \in n..Len(uiQ')
        BY <1>3, <1>8
      <4> QED
        BY <2>3, <3>2, <4>1 DEF Traced, Continues
    <3> QED
      BY <2>2, <3>1, <3>2 DEF Traced, IsPress, Continues
  <2>5. PadKnown'
    BY <1>9, <2>1, <2>4 DEF PadKnown
  <2>6. EventsKnown'
    <3>1. \A p \in 1..Len(uiQ') : uiQ'[p].kind = "release" => p \in 1..Len(uiQ)
      BY <1>9 DEF Continues
    <3> QED
      BY <1>7, <3>1 DEF EventsKnown, Ended
  <2> QED
    BY <1>4, <2>5, <2>6 DEF PressesKnown
\* A key that goes, one that comes, or both.
<1>10. ASSUME NEW a \in {0, 1}, NEW b \in {0, 1}, a = 1 <=> pad.key # NoKey, b = 1 <=> pad'.key # NoKey,
              Len(uiQ') = Len(uiQ) + a + b, a = 1 => OfPad(uiQ'[Len(uiQ) + 1]),
              b = 1 => IsPress(uiQ'[Len(uiQ) + a + 1], pad'.key, pad'.start)
       PROVE  PressesKnown'
  <2>1. PadKnown'
    <3> SUFFICES ASSUME b = 1 PROVE Traced(Len(uiQ) + 1, pad.key, pad.start)'
      BY <1>10 DEF PadKnown
    <3>1. IsPress(uiQ'[Len(uiQ')], pad'.key, pad'.start)
      BY <1>3, <1>10
    <3>2. Len(uiQ') \in 1..(Len(uiQ') + 1 - 1) /\ (Len(uiQ') + 1)..(Len(uiQ') + 1 - 1) = {}
      BY <1>3, <1>10
    <3> QED
      BY <3>1, <3>2 DEF Traced, IsPress
  <2>2. EventsKnown'
    <3> SUFFICES ASSUME NEW p \in 1..Len(uiQ'), uiQ'[p].kind = "release"
                 PROVE  \E s \in 0..(Wrap - 1) : Ended(uiQ'[p], s) /\ Traced(p, uiQ[p].key, s)'
      BY DEF EventsKnown, Ended
    <3>1. CASE p \in 1..Len(uiQ)
      BY <1>7, <3>1
    <3>2. CASE p \notin 1..Len(uiQ)
      <4>1. (b = 1 /\ p = Len(uiQ) + a + 1) \/ (a = 1 /\ p = Len(uiQ) + 1)
        BY <1>3, <1>10, <3>2
      <4>2. a = 1 /\ p = Len(uiQ) + 1
        BY <1>10, <4>1 DEF IsPress
      <4>3. OfPad(uiQ'[p]) /\ pad.key # NoKey
        BY <1>10, <4>2
      <4>4. PICK key, s : key = pad.key /\ s = pad.start
        OBVIOUS
      <4>5. Traced(n, key, s) /\ p = n
        BY <1>8, <4>2, <4>3, <4>4 DEF PressesKnown, PadKnown
      <4>6. Traced(p, key, s)'
        BY <1>5, <1>8, <4>5
      <4> QED
        BY <1>6, <4>3, <4>4, <4>6 DEF OfPad
    <3> QED
      BY <3>1, <3>2
  <2> QED
    BY <1>4, <2>1, <2>2 DEF PressesKnown
<1> QED
  BY <1>3, <1>9, <1>10

-----------------------------------------------------------------------------
LEMMA HostKeepsRests ==
    ASSUME InputInv, RestsUnlessUsed, LooksFirst, Host
    PROVE  /\ RestsUnlessUsed' /\ LooksFirst'
           /\ \E m : Quietly(m) /\ UNCHANGED <<pad, uiQ>>
<1>1. PICK type \in {"READY", "WRITE", "SUSPEND", "DISCONNECTED"} : \E flag : Tells(type, flag)
  BY DEF Host, LinkLost, HostReturns, Subscribes, Suspends
<1>2. PICK flag : Tells(type, flag)
  BY <1>1
<1> DEFINE m == Msg(type, None, flag)
<1>3. ~Counts(m) /\ queue' \in {queue, Append(queue, m)}
  BY <1>2 DEF Tells, Msg, Counts
<1> HIDE DEF m
<1>4. UNCHANGED <<profile, generation, worker, mouse, ui, pad, uiQ>>
  BY DEF Host, LinkLost, HostReturns, Subscribes, Suspends, Around, keypadVars
<1>5. LooksFirst'
  BY <1>3, <1>4, OthersLook
<1> QED
  BY <1>3, <1>4, <1>5 DEF Quietly, RestsUnlessUsed, AtRest, InUse

LEMMA PressStarts == Init => PressInv
<1> SUFFICES ASSUME Init PROVE PressInv
  OBVIOUS
<1>1. /\ AtRest /\ worker.mouse_generation = generation /\ worker.connected /\ worker.subscribed
      /\ ui.screen = "remote" /\ uiQ = << >> /\ queue = << >> /\ pad.key = NoKey
  BY IdleRests DEF Init, InputInit, KeypadInit, AtRest
<1>2. 1..Len(uiQ) = {} /\ 1..Len(queue) = {}
  BY <1>1
<1> QED
  BY <1>1, <1>2 DEF PressInv, RestsUnlessUsed, InUse, LooksFirst, PressesKnown, PadKnown, EventsKnown, InputsKnown

LEMMA ProfileIsKept == InputInv /\ [Next]_vars => profile' = profile
<1>1. CASE InputInv /\ Key
  BY <1>1 DEF Key
<1>2. CASE InputInv /\ UiTurn
  <2>1. Passes => profile' = profile
    BY DEF Passes, MouseInput
  <2>2. Forgets => profile' = profile
    BY DEF Forgets
  <2>3. \A m : Quietly(m) => profile' = profile
    BY DEF Quietly
  <2> QED
    BY <1>2, <2>1, <2>2, <2>3, UiTurnDoes
<1>3. CASE Worker
  BY <1>3, WorkerCalls DEF Calls
<1>4. CASE Host
  BY <1>4 DEF Host, LinkLost, HostReturns, Subscribes, Suspends, Around
<1>5. CASE UNCHANGED vars
  BY <1>5 DEF vars, inputVars
<1> QED
  BY <1>1, <1>2, <1>3, <1>4, <1>5 DEF Next

LEMMA PressSteps ==
    InputInv /\ HostInv /\ FingerInv /\ NoneWaits /\ PressInv /\ [Next]_vars => PressInv'
<1> SUFFICES ASSUME InputInv, HostInv, FingerInv, NoneWaits, profile = "patterns", RestsUnlessUsed, LooksFirst,
                    NoPressLost => PressesKnown, [Next]_vars
             PROVE  RestsUnlessUsed' /\ LooksFirst' /\ (NoPressLost' => PressesKnown')
  <2> QED
    BY ProfileIsKept DEF PressInv
<1>1. IsMouse
  BY DEF IsMouse
<1>2. CASE UNCHANGED vars
  BY <1>2 DEF vars, keypadVars, inputVars, RestsUnlessUsed, AtRest, InUse, LooksFirst, LooksAgain, NoneCounts, Counts,
              NoPressLost, PressesKnown, PadKnown, EventsKnown, InputsKnown, Traced, AllTracked, Tracked,
              OnlyContinue, Continues, IsPress, IsRelease, Ended
<1>3. CASE Key
  <2>1. RestsUnlessUsed' /\ LooksFirst'
    BY <1>3 DEF Key, RestsUnlessUsed, AtRest, InUse, LooksFirst, LooksAgain, NoneCounts, Counts
  <2>2. NoPressLost' => NoPressLost
    <3>1. \E k \in Keys \cup {NoKey} : Scan(k)
      BY <1>3, InputAssumption DEF Key, InputInv, InputTypeOK
    <3>2. lost \subseteq lost'
      BY <3>1, ScanEnds DEF InputInv, InputTypeOK
    <3> QED
      BY <3>2 DEF NoPressLost
  <2> QED
    BY <1>3, <2>1, <2>2, KeyKeepsPresses
<1>4. CASE UiTurn
  <2>1. NoPressLost' => NoPressLost
    <3>1. Takes \/ UNCHANGED lost
      BY <1>4, UiTurnDoes DEF Passes
    <3> QED
      BY <3>1 DEF Takes, NoPressLost
  <2> QED
    BY <1>4, <2>1, UiTurnRests, UiTurnKeepsPresses
<1>5. CASE Worker
  <2>1. RestsUnlessUsed' /\ LooksFirst'
    BY <1>1, <1>5, WorkerRests, WorkerLooks
  <2>2. lost' = lost
    BY <1>5, WorkerCalls DEF Calls, keypadVars
  <2> QED
    BY <1>5, <2>1, <2>2, WorkerKeepsPresses DEF NoPressLost
<1>6. CASE Host
  <2>1. RestsUnlessUsed' /\ LooksFirst'
    BY <1>6, HostKeepsRests
  <2>2. lost' = lost
    BY <1>6 DEF Host, LinkLost, HostReturns, Subscribes, Suspends, Around, keypadVars
  <2>3. PICK m : Quietly(m) /\ UNCHANGED <<pad, uiQ>>
    BY <1>6, HostKeepsRests
  <2> QED
    BY <2>1, <2>2, <2>3, UntakenKeepsPresses DEF NoPressLost
<1> QED
  BY <1>2, <1>3, <1>4, <1>5, <1>6 DEF Next

\* The release of a long press finds its pattern since the press, or a mouse at rest.
LEMMA ReleaseStops ==
    ASSUME InputInv, HostInv, PressInv, TakeMouse, profile = "patterns", Active(Received),
           Received.input.kind = "release", Received.input.age >= LongPress, NoPressLost
    PROVE  mouse'.movement # Received.input.key
<1> DEFINE e == Received.input
<1>1. /\ mouse' = PatternInput(mouse, e.key, "release", e.at).mouse
      /\ Counts(Received) /\ Received = queue[1] /\ 1 \in 1..Len(queue) /\ mouse \in Mouse
  BY ActiveInput, Parts DEF Moved
<1>2. e \in Input
  <2>1. queue[1] \in Message
    BY <1>1 DEF InputInv, InputTypeOK
  <2> QED
    BY <1>1, <2>1, InputOfMouse DEF Counts
<1>3. CASE e.key \notin PatternKeys
  <2>1. mouse' = mouse
    BY <1>1, <1>3 DEF PatternInput, Silently
  <2>2. mouse.movement \in PatternKeys \cup {None}
    BY <1>1 DEF Mouse
  <2>3. e.key # None
    BY <1>2, MouseAssumption DEF Input
  <2> QED
    BY <1>3, <2>1, <2>2, <2>3
<1>4. CASE e.key \in PatternKeys
  <2>1. PICK s \in 0..(Wrap - 1) : Ended(e, s) /\ Tracked(1, e.key, s)
    BY <1>1, <1>4 DEF PressInv, PressesKnown, InputsKnown, IsRelease
  <2>2. worker.mouse_generation = generation
    BY TakenInTime DEF PressInv
  <2>3. AtRest \/ (mouse.pattern = e.key /\ mouse.at = s)
    BY <2>1, <2>2 DEF Tracked
  <2>4. CASE mouse.pattern = e.key /\ mouse.at = s
    <3>1. Since(e.at, mouse.at) >= LongPress
      <4>1. e.age \in Nat /\ e.age <= LongestHold + 1 /\ e.at = (s + e.age) % Wrap
        BY <1>2, <2>1 DEF Input, Ended
      <4>2. LongestHold \in Nat /\ LongestHold + 1 < Wrap /\ LongPress \in Nat /\ LongPress >= 1 /\ Wrap \in Nat
        BY KeypadAssumption
      <4>3. PICK age \in Nat : age + 1 = e.age /\ age + 1 < Wrap
        <5>1. e.age - 1 \in Nat /\ (e.age - 1) + 1 = e.age /\ e.age < Wrap
          BY <4>1, <4>2
        <5> QED
          BY <5>1
      <4>4. PICK c : c = (s + age) % Wrap
        OBVIOUS
      <4>5. (c + 1) % Wrap = (s + age + 1) % Wrap /\ Since((c + 1) % Wrap, s) = age + 1
        BY <4>3, <4>4, AgeIsShown
      <4>6. s + age + 1 = s + e.age
        BY <4>3
      <4> QED
        BY <2>4, <4>1, <4>3, <4>5, <4>6
    <3>2. PatternInput(mouse, e.key, "release", e.at)
              = Silently([mouse EXCEPT !.pattern = None, !.movement = IF EndsPattern(mouse, e.at) THEN None ELSE @])
      BY <1>4, <2>4 DEF PatternInput
    <3>3. EndsPattern(mouse, e.at)
      BY <3>1 DEF EndsPattern
    <3>4. mouse' = [mouse EXCEPT !.pattern = None, !.movement = None]
      BY <1>1, <3>2, <3>3 DEF Silently
    <3>5. mouse'.movement = None
      BY <1>1, <3>4 DEF Mouse
    <3> QED
      BY <1>4, <3>5, NoneIsNoPattern
  <2>5. CASE AtRest
    <3>1. e.key # mouse.pattern
      BY <1>4, <2>5, NoneIsNoPattern DEF AtRest
    <3>2. mouse' = mouse
      BY <1>1, <3>1 DEF PatternInput, Silently
    <3> QED
      BY <1>4, <2>5, <3>2, NoneIsNoPattern DEF AtRest
  <2> QED
    BY <2>3, <2>4, <2>5
<1> QED
  BY <1>3, <1>4

(* LongPressStops (docs/bluetooth-mouse.md 55): the release of a press of   *)
(* at least LongPress stops the movement of its key, for any wrap of the   *)
(* clock and any length of either queue, whatever holds and repeats were   *)
(* dropped, unless an input waits while the worker shows CONNECTING:       *)
(* ui_remote.c then passes over a press whose release is accepted.         *)
THEOREM LongPressesStop == Spec /\ []NoneWaits => LongPressStops
<1>1. InputInv /\ HostInv /\ PressInv /\ [Next]_vars =>
          [TakeMouse /\ profile = "patterns" /\ Active(Received) =>
              LET e == Received.input
              IN  e.kind = "release" /\ e.age >= LongPress /\ lost \subseteq {"hold", "repeat"} =>
                      mouse'.movement # e.key]_vars
  BY ReleaseStops DEF NoPressLost
<1> QED
  BY <1>1, InputStarts, InputSteps, HostStarts, HostSteps, FingerStarts, FingerSteps, PressStarts, PressSteps, PTL
     DEF Spec, LongPressStops
=============================================================================
