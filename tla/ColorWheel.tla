----------------------------- MODULE ColorWheel -----------------------------
(***************************************************************************)
(* What the colour tap promises its user, with no clock arithmetic: a      *)
(* pressed key shows TAP, then steps through the colours one at a time as  *)
(* a countdown expires, and letting go fires whatever is showing.  The     *)
(* order of the colours is docs/format.md's: `wrap' starts again at the    *)
(* first, `wrap_cancel' passes through one dark slot that fires nothing,   *)
(* `clamp' stays on the last.                                              *)
(***************************************************************************)
EXTENDS Integers

CONSTANT Profiles

VARIABLES profile, showing, countdown, fired

wheelVars == <<profile, showing, countdown, fired>>

IDLE == -3
TAP == -1
CANCEL == -2
NoBinding == -3

Turn(p, s) ==
    CASE s \in {TAP, CANCEL}                            -> 0
      [] s \in 0 .. p.nslots - 2                        -> s + 1
      [] s = p.nslots - 1 /\ p.overflow = "clamp"       -> s
      [] s = p.nslots - 1 /\ p.overflow = "wrap"        -> 0
      [] s = p.nslots - 1 /\ p.overflow = "wrap_cancel" -> CANCEL

Init ==
    /\ profile \in Profiles
    /\ showing = IDLE
    /\ countdown = 0
    /\ fired = NoBinding

Press ==
    /\ showing = IDLE
    /\ showing' = TAP
    /\ countdown' = profile.tap_max_ms
    /\ fired' = NoBinding
    /\ UNCHANGED profile

Millisecond ==
    /\ showing # IDLE
    /\ IF countdown > 1
       THEN countdown' = countdown - 1 /\ UNCHANGED showing
       ELSE countdown' = profile.dwell_ms /\ showing' = Turn(profile, showing)
    /\ UNCHANGED <<profile, fired>>

Release ==
    /\ showing # IDLE
    /\ fired' = CASE showing = TAP    -> 0
                  [] showing = CANCEL -> NoBinding
                  [] OTHER            -> showing + 1
    /\ showing' = IDLE
    /\ countdown' = 0
    /\ UNCHANGED profile

NewProfile ==
    /\ profile' \in Profiles
    /\ showing' = IDLE
    /\ countdown' = 0
    /\ UNCHANGED fired

Next == Press \/ Millisecond \/ Release \/ NewProfile

Spec == Init /\ [][Next]_wheelVars
=============================================================================
