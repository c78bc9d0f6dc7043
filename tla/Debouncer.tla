----------------------------- MODULE Debouncer -----------------------------
(***************************************************************************)
(* src/src/singlekey/keystate.py: edge detection for one switch.  A change *)
(* of the raw level is accepted when it comes at least DEBOUNCE_MS after   *)
(* the last accepted change, measured on the wrapping clock, or when no    *)
(* change was accepted since boot.                                         *)
(***************************************************************************)
EXTENDS Ticks

CONSTANT DEBOUNCE_MS    \* 20 in code.py

ASSUME DebounceAssumption == DEBOUNCE_MS \in 1 .. HalfPeriod - 1

VARIABLES
    pressed,            \* Debouncer.pressed: the debounced level
    lastChange          \* Debouncer._last_change, NoTick for None

debouncerVars == <<pressed, lastChange>>

NoTick == -1

DebouncerTypeOK ==
    /\ pressed \in BOOLEAN
    /\ lastChange \in TickValue \cup {NoTick}

\* A deliberately wrong variant: the epoch as "long ago", the failure keystate.py:17-22 recalls.
MutInitZero(raw) ==
    /\ pressed = raw
    /\ lastChange = 0

DebouncerInit(raw) ==
    /\ pressed = raw
    /\ lastChange = NoTick

Accepts(raw, now) ==
    /\ raw # pressed
    /\ lastChange = NoTick \/ ticks_diff(now, lastChange) >= DEBOUNCE_MS

\* A deliberately wrong variant: a rejected bounce restarts the debounce window.
MutUpdateRestarts(raw, now) ==
    /\ lastChange' = IF raw # pressed THEN now ELSE lastChange
    /\ pressed' = IF Accepts(raw, now) THEN raw ELSE pressed

\* Debouncer.update; the edge it returns is Accepts(raw, now) and the new level.
Update(raw, now) ==
    IF Accepts(raw, now)
    THEN pressed' = raw /\ lastChange' = now
    ELSE UNCHANGED debouncerVars
=============================================================================
