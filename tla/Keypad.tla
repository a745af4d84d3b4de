------------------------------- MODULE Keypad -------------------------------
(***************************************************************************)
(* The keypad task (keypad.c): one debounced key, its press, hold, repeats *)
(* and release, posted without waiting to a queue the UI task reads, and   *)
(* timed by a millisecond counter that wraps.                              *)
(*                                                                         *)
(* Time counts in ticks of the scan; the thresholds keep their order.      *)
(***************************************************************************)
EXTENDS Naturals, Sequences

CONSTANTS
    NoKey,        \* no contact
    Wrap,         \* the clock counts modulo Wrap (2^32 in the code)
    LongPress,    \* LONGPRESS_MS, which is also BT_MOUSE_HOLD_MS
    RepeatDelay,  \* REPEAT_DELAY_MS
    RepeatRate,   \* REPEAT_RATE_MS
    LongestHold,  \* bound: no key is held as long as the clock takes to wrap
    UiCap         \* UI queue length (32 in the code)

ASSUME KeypadAssumption ==
    /\ {Wrap, LongPress, RepeatDelay, RepeatRate, LongestHold, UiCap} \subseteq Nat \ {0}
    /\ LongPress <= LongestHold /\ LongestHold + 1 < Wrap
    /\ NoKey \notin {"up", "right", "ok", "organic", "click", "scroll", "power", "mode"}

\* REMOTE_KEY_*: one of each kind the code tells apart ("click" also stands for
\* the other mouse buttons, "scroll" for the other wheel keys)
Keys == {"up", "right", "ok", "organic", "click", "scroll", "power", "mode"}
LongKeys == {"up", "right", "ok", "organic", "power"}
RepeatKeys == {"up", "right", "scroll"}

\* age and press are history: how long the key had been down, and which press it was
EventKinds == {"press", "repeat", "release", "hold"}
UiEvent == [kind : EventKinds, key : Keys, at : 0..(Wrap - 1), age : Nat, press : Nat]

VARIABLES
    pad,          \* the task's locals, the age and number of the press
    clock,        \* now_ms()
    uiQ,          \* the UI queue
    lost          \* history: kinds of event the full UI queue dropped

keypadVars == <<pad, clock, uiQ, lost>>

PadType == [key : Keys \cup {NoKey}, start : 0..(Wrap - 1), repeated : 0..(Wrap - 1), long : BOOLEAN,
            age : Nat, press : Nat]

Since(now, then) == (now + Wrap - then) % Wrap

KeypadInit ==
    /\ clock = Wrap - 1
    /\ pad = [key |-> NoKey, start |-> clock, repeated |-> clock, long |-> FALSE,
              age |-> 0, press |-> 0]
    /\ uiQ = << >> /\ lost = {}

\* variant: the end of the wait is computed instead of the time waited
LongDueAbsolute(p, now) == ~p.long /\ now >= p.start + LongPress
LongDue(p, now) == ~p.long /\ Since(now, p.start) >= LongPress
RepeatDue(p, now) ==
    p.key \in RepeatKeys /\ Since(now, p.start) >= RepeatDelay /\ Since(now, p.repeated) >= RepeatRate

\* emit_ui does not wait: what does not fit is dropped
Emit(events) ==
    LET all == uiQ \o events
        fit == IF Len(all) < UiCap THEN Len(all) ELSE UiCap
    IN  /\ uiQ' = SubSeq(all, 1, fit)
        /\ lost' = lost \cup {all[i].kind : i \in (fit + 1)..Len(all)}

\* A new key, or none, is found: the timers start again.
Changed(k, now) ==
    LET p == [key |-> k, start |-> now, repeated |-> now, long |-> FALSE,
              age |-> 0, press |-> IF k = NoKey THEN pad.press ELSE pad.press + 1]
        Told(kind, key, age, press) ==
            IF key = NoKey THEN << >>
            ELSE <<[kind |-> kind, key |-> key, at |-> now, age |-> age, press |-> press]>>
    IN  /\ pad' = p
        /\ Emit(Told("release", pad.key, pad.age + 1, pad.press) \o Told("press", k, 0, p.press))

\* The key is still down: its hold once, its repeats again and again.
Held(now) ==
    LET Told(kind, age) == <<[kind |-> kind, key |-> pad.key, at |-> now, age |-> age, press |-> pad.press]>>
        hold == LongDue(pad, now)
        repeat == RepeatDue(pad, now)
    IN  /\ pad.age < LongestHold
        /\ pad' = [pad EXCEPT !.age = @ + 1, !.long = @ \/ hold, !.repeated = IF repeat THEN now ELSE @]
        /\ Emit((IF hold /\ pad.key \in LongKeys THEN Told("hold", pad.age + 1) ELSE << >>)
                \o (IF repeat THEN Told("repeat", pad.age + 1) ELSE << >>))

\* A stable scan finds key k; the events of one scan are posted together. Keys
\* may be left alone for any time: a press then always comes just before the wrap.
Scan(k) ==
    LET now == IF pad.key = NoKey THEN Wrap - 1 ELSE (clock + 1) % Wrap
    IN  /\ clock' = now
        /\ \/ k # pad.key /\ Changed(k, now)
           \/ k = pad.key /\ k # NoKey /\ Held(now)
=============================================================================
