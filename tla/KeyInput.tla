------------------------------ MODULE KeyInput ------------------------------
(***************************************************************************)
(* The path from the switch to a binding: the main loop of src/src/code.py *)
(* reads the clock, polls the switch through the debouncer, hands an edge  *)
(* to the gesture, and remembers the display state it last sent to the     *)
(* LEDs.  Time passes one tick at a time between polls (a poll that fires  *)
(* a binding is followed by the time the binding takes), the switch moves  *)
(* whenever it likes, and a command may change the profile between two     *)
(* polls.                                                                  *)
(***************************************************************************)
EXTENDS Debouncer, ColorTap

CONSTANTS
    MAX_GAP,            \* the longest time between two polls, in ticks
    HOLD_LIMIT,         \* the longest a key is held down
    AGE_CAP             \* where the history variable `age' stops counting

ASSUME KeyInputAssumption ==
    /\ MAX_GAP \in Nat \ {0}
    /\ HOLD_LIMIT \in Nat
    /\ AGE_CAP \in Nat /\ AGE_CAP >= TICKS_PERIOD /\ AGE_CAP > HOLD_LIMIT

VARIABLES
    clock,              \* supervisor.ticks_ms()
    level,              \* the raw level of the switch: TRUE is down
    sincePoll,          \* ticks since the last poll
    shown,              \* last_display of main()
    fired,              \* the outcome of the last gesture, cleared by a press
    age                 \* history: real ticks since the last accepted edge, Never before it

keyVars == <<pressed, lastChange, profile, tapPressed, pressAt,
             clock, level, sincePoll, shown, fired, age>>

Never == -1

KeyTypeOK ==
    /\ DebouncerTypeOK
    /\ ColorTapTypeOK
    /\ clock \in TickValue
    /\ level \in BOOLEAN
    /\ sincePoll \in 0 .. MAX_GAP
    /\ shown \in {IDLE, TAP, CANCEL} \cup Nat
    /\ fired \in {NoBinding} \cup Nat
    /\ age \in 0 .. AGE_CAP \cup {Never}

KeyInit ==
    /\ clock \in TickValue
    /\ level \in BOOLEAN
    /\ DebouncerInit(level)
    /\ ColorTapInit
    /\ sincePoll = 0
    /\ shown = IDLE
    /\ fired = NoBinding
    /\ age = Never

Elapse ==
    /\ sincePoll < MAX_GAP
    /\ tapPressed => age < HOLD_LIMIT
    /\ clock' = ticks_add(clock, 1)
    /\ sincePoll' = sincePoll + 1
    /\ age' = IF age \in {Never, AGE_CAP} THEN age ELSE age + 1
    /\ UNCHANGED <<pressed, lastChange, profile, tapPressed, pressAt, level, shown, fired>>

MoveSwitch ==
    /\ level' = ~level
    /\ UNCHANGED <<pressed, lastChange, profile, tapPressed, pressAt,
                   clock, sincePoll, shown, fired, age>>

\* No edge: code.py goes straight to the display.
NoEdge ==
    /\ ~Accepts(level, clock)
    /\ UNCHANGED <<profile, tapPressed, pressAt, fired, age>>

PressEdge ==
    /\ Accepts(level, clock) /\ level
    /\ press(clock)
    /\ fired' = NoBinding
    /\ age' = 0

ReleaseEdge ==
    /\ Accepts(level, clock) /\ ~level
    /\ release(clock)
    /\ fired' = BindingOf(display(clock))
    /\ age' = 0

\* One iteration of the loop, code.py:233-261.
Poll ==
    /\ Update(level, clock)
    /\ NoEdge \/ PressEdge \/ ReleaseEdge
    /\ shown' = IF tapPressed' THEN StateFor(profile', elapsed(clock, pressAt')) ELSE IDLE
    /\ sincePoll' = 0
    /\ UNCHANGED <<clock, level>>

\* Device._apply_profile as the key path sees it.
SwitchProfile(p) ==
    /\ set_profile(p)
    /\ UNCHANGED <<pressed, lastChange, clock, level, sincePoll, shown, fired, age>>

KeyNext ==
    \/ Elapse
    \/ MoveSwitch
    \/ Poll
    \/ \E p \in Profiles : SwitchProfile(p)

\* The loop keeps running and time keeps passing; nobody has to touch the key.
KeyFairness == WF_keyVars(Elapse) /\ WF_keyVars(Poll)

KeySpec == KeyInit /\ [][KeyNext]_keyVars

KeyFairSpec == KeySpec /\ KeyFairness

-----------------------------------------------------------------------------
(* Properties.                                                             *)

\* While a hold lasts less than half the tick period, the time the wrapped clock gives for it
\* is the time it really lasted (the reason ticks.py exists), so the state shown is the true one.
HeldIsTrue ==
    tapPressed /\ age < HalfPeriod => held_ms(clock) = age

\* Letting go of a hold shorter than half the period fires the binding of the state its true
\* duration stands for, and a release with no hold in progress (key down at boot, or the hold
\* abandoned by a new profile) fires nothing: colortap.release.
FiresTrueState ==
    [][pressed /\ ~pressed' =>
         IF tapPressed
         THEN age < HalfPeriod => fired' = BindingOf(StateFor(profile, age))
         ELSE fired' = NoBinding]_keyVars

\* What counts as an edge, over any wrap: two accepted edges are never closer than DEBOUNCE_MS of
\* real time, and one is only turned away that close to the last one, or when the last one lies
\* more than half a period back, where the signed difference turns negative (see
\* RejectsOnlyBounces); in particular the first one after boot counts (keystate.py:17-34).
EdgesAreTrue ==
    [][/\ pressed' # pressed => age = Never \/ age >= DEBOUNCE_MS
       /\ Poll /\ level # pressed /\ pressed' = pressed
            => age \in 0 .. DEBOUNCE_MS - 1 \/ age >= HalfPeriod]_keyVars

\* What keystate.py:12 says: only changes that come too soon after the last one are rejected.
RejectsOnlyBounces ==
    [][Poll /\ level # pressed /\ pressed' = pressed => age \in 0 .. DEBOUNCE_MS - 1]_keyVars

\* The key is never dead for good: a switch that stays where it is is eventually believed.
KeyRecovers == []<>(level = pressed)

\* Seen through the display, the key path is the colour wheel of ColorWheel.tla.
TimeLeft ==
    IF ~tapPressed THEN 0
    ELSE IF held_ms(clock) < profile.tap_max_ms THEN profile.tap_max_ms - held_ms(clock)
    ELSE profile.dwell_ms - ((held_ms(clock) - profile.tap_max_ms) % profile.dwell_ms)

Wheel == INSTANCE ColorWheel WITH showing <- display(clock), countdown <- TimeLeft

WheelSpec == Wheel!Spec
=============================================================================
