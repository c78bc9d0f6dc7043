------------------------------- MODULE Ticks -------------------------------
(***************************************************************************)
(* The wrap-around millisecond clock of the board, and the arithmetic      *)
(* src/src/singlekey/ticks.py does on it.  supervisor.ticks_ms() counts    *)
(* from an arbitrary epoch and wraps at TICKS_PERIOD (2^29 on the board).  *)
(* The code masks with TICKS_PERIOD - 1; since the period is a power of    *)
(* two the mask is the remainder, for negative differences too.            *)
(***************************************************************************)
EXTENDS Integers

CONSTANT TICKS_PERIOD   \* 1 << 29 in the code

ASSUME TicksAssumption == TICKS_PERIOD \in Nat \ {0} /\ TICKS_PERIOD % 2 = 0

HalfPeriod == TICKS_PERIOD \div 2

TickValue == 0 .. TICKS_PERIOD - 1

\* A deliberately wrong variant: the plain subtraction that ticks.py warns against.
MutPlainDiff(later, earlier) == later - earlier

\* Signed difference in -HalfPeriod .. HalfPeriod - 1.
ticks_diff(later, earlier) ==
    ((((later - earlier) % TICKS_PERIOD) + HalfPeriod) % TICKS_PERIOD) - HalfPeriod

\* A deliberately wrong variant: a sum that does not wrap.
MutPlainAdd(ticks, delta) == ticks + delta

ticks_add(ticks, delta) == (ticks + delta) % TICKS_PERIOD

\* max(0, ticks_diff(...)): what the gesture and the upload timeout measure with.
elapsed(now, then) ==
    LET d == ticks_diff(now, then) IN IF d < 0 THEN 0 ELSE d
=============================================================================
