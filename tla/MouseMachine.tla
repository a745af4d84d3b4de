---------------------------- MODULE MouseMachine ----------------------------
(***************************************************************************)
(* The mouse of bt_mouse.c: what one input does to its buttons and its     *)
(* movement, and which reports are sent for it. A report is the set of     *)
(* things it says are down; distances are left out.                        *)
(***************************************************************************)
EXTENDS Keypad

CONSTANT None     \* no movement, no pattern
ASSUME MouseAssumption == None \notin Keys

Directions == {"up", "right"}
PatternKeys == Directions \cup {"organic"}
Buttons == {"left", "middle"}

Mouse == [buttons : SUBSET Buttons, movement : PatternKeys \cup {None}, pattern : PatternKeys \cup {None},
          at : 0..(Wrap - 1), same : BOOLEAN, momentary : BOOLEAN, okPending : BOOLEAN, okLong : BOOLEAN]
\* bt_mouse_reset
Idle == [buttons |-> {}, movement |-> None, pattern |-> None, at |-> 0,
         same |-> FALSE, momentary |-> FALSE, okPending |-> FALSE, okLong |-> FALSE]

\* The mouse after an input, and the reports it sends in turn.
Silently(m) == [mouse |-> m, reports |-> << >>]
Reporting(m) == [mouse |-> m, reports |-> <<m.buttons>>]
\* click: the reports before and after the pause
Click(m, button) == [mouse |-> m, reports |-> <<m.buttons \cup {button}, m.buttons>>]

\* variant: only the hold event makes a press momentary
EndsPatternByEvent(m, at) == m.momentary \/ m.same
EndsPattern(m, at) == m.momentary \/ m.same \/ Since(at, m.at) >= LongPress

StartPattern(m, key, at) ==
    [m EXCEPT !.pattern = key, !.at = at, !.same = m.movement = key, !.momentary = FALSE,
              !.movement = IF m.movement = key THEN None ELSE key]

PatternInput(m, key, input, at) ==
    CASE key = "ok" /\ input = "press" ->
            Reporting([m EXCEPT !.buttons = IF "left" \in @ THEN @ \ {"left"} ELSE @ \cup {"left"}])
      [] key \in PatternKeys /\ input = "press" -> Silently(StartPattern(m, key, at))
      [] key \in PatternKeys /\ key = m.pattern /\ input = "hold" ->
            Silently([m EXCEPT !.momentary = TRUE, !.movement = key])
      [] key \in PatternKeys /\ key = m.pattern /\ input = "release" ->
            Silently([m EXCEPT !.pattern = None, !.movement = IF EndsPattern(m, at) THEN None ELSE @])
      [] OTHER -> Silently(m)

\* OK clicks when it is released, drags when it is held, drops a drag when it is tapped.
OkInput(m, input) ==
    CASE input = "press" -> Silently([m EXCEPT !.okPending = TRUE, !.okLong = FALSE])
      [] input = "hold" /\ m.okPending -> Reporting([m EXCEPT !.okLong = TRUE, !.buttons = @ \cup {"left"}])
      [] input = "release" /\ m.okPending ->
            LET done == [m EXCEPT !.okPending = FALSE]
            IN  IF m.okLong THEN Silently(done)
                ELSE IF "left" \in m.buttons THEN Reporting([done EXCEPT !.buttons = @ \ {"left"}])
                ELSE Click(done, "left")
      [] OTHER -> Silently(m)

DirectionInput(m, key, input) ==
    CASE input = "press" -> Silently([m EXCEPT !.movement = key])
      [] input = "release" /\ m.movement = key -> Silently([m EXCEPT !.movement = None])
      [] OTHER -> Silently(m)

MappedInput(m, key, input) ==
    CASE key = "ok" -> OkInput(m, input)
      [] key \in Directions -> DirectionInput(m, key, input)
      [] key = "scroll" /\ input \in {"press", "repeat"} -> Reporting(m)
      [] key = "click" /\ input \in {"press", "repeat"} -> Click(m, "middle")
      [] OTHER -> Silently(m)

\* bt_mouse_mask: the keys the mode uses, the speed keys aside
Assigned(profile) ==
    IF profile = "patterns" THEN PatternKeys \cup {"ok"} ELSE Directions \cup {"ok", "click", "scroll"}
=============================================================================
