------------------------------ MODULE ColorTap ------------------------------
(***************************************************************************)
(* src/src/singlekey/colortap.py: the colour-tap gesture.  A profile is    *)
(* reduced to what the gesture reads of it: its two timings, its overflow  *)
(* mode and how many colour slots it has.                                  *)
(***************************************************************************)
EXTENDS Ticks

CONSTANT Profiles       \* the profiles a configuration may hold

VARIABLES
    profile,            \* ColorTap.profile
    tapPressed,         \* ColorTap._pressed: a hold is in progress
    pressAt             \* ColorTap._press_at

colorTapVars == <<profile, tapPressed, pressAt>>

OverflowModes == {"wrap", "wrap_cancel", "clamp"}

ProfileAssumption ==
    \A p \in Profiles :
        /\ p.dwell_ms \in Nat \ {0}
        /\ p.tap_max_ms \in Nat \ {0}
        /\ p.nslots \in Nat \ {0}
        /\ p.overflow \in OverflowModes

ASSUME ProfileAssumption

\* The display states: the code's None, -1, -2 and the zero-based slot index.
IDLE == -3
TAP == -1
CANCEL == -2

\* What release returns when no binding fires (None in the code).
NoBinding == -3

ColorTapTypeOK ==
    /\ profile \in Profiles
    /\ tapPressed \in BOOLEAN
    /\ pressAt \in TickValue

\* A deliberately wrong variant: the tap window closes one millisecond late.
MutStateFor(p, held) ==
    IF held <= p.tap_max_ms THEN TAP
    ELSE ((held - p.tap_max_ms) \div p.dwell_ms) % p.nslots

\* _state_at, as a function of the profile and of the milliseconds held.
StateFor(p, held) ==
    IF held < p.tap_max_ms THEN TAP
    ELSE LET raw == (held - p.tap_max_ms) \div p.dwell_ms
             k   == raw % (p.nslots + 1)
         IN  CASE p.overflow = "clamp"       -> IF raw < p.nslots THEN raw ELSE p.nslots - 1
               [] p.overflow = "wrap_cancel" -> IF k < p.nslots THEN k ELSE CANCEL
               [] OTHER                      -> raw % p.nslots

\* A deliberately wrong variant: the plain difference of the two readings of the clock.
MutHeldPlain(now) == IF tapPressed /\ now >= pressAt THEN now - pressAt ELSE 0

held_ms(now) == IF tapPressed THEN elapsed(now, pressAt) ELSE 0

display(now) == IF tapPressed THEN StateFor(profile, held_ms(now)) ELSE IDLE

\* The binding a display state stands for: 0 is the tap, i + 1 is colour slot i.
BindingOf(state) ==
    CASE state = TAP               -> 0
      [] state \in {CANCEL, IDLE}  -> NoBinding
      [] OTHER                     -> state + 1

ColorTapInit ==
    /\ profile \in Profiles
    /\ tapPressed = FALSE
    /\ pressAt = 0

\* A deliberately wrong variant: the hold in progress survives the new profile.
MutKeepsHold(p) ==
    /\ profile' = p
    /\ UNCHANGED <<tapPressed, pressAt>>

set_profile(p) ==
    /\ profile' = p
    /\ tapPressed' = FALSE
    /\ UNCHANGED pressAt

press(now) ==
    /\ tapPressed' = TRUE
    /\ pressAt' = now
    /\ UNCHANGED profile

\* release returns BindingOf(display(now)), taken before the hold is cleared.
release(now) ==
    /\ tapPressed' = FALSE
    /\ UNCHANGED <<profile, pressAt>>
=============================================================================
