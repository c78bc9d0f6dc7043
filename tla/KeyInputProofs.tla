--------------------------- MODULE KeyInputProofs ---------------------------
(***************************************************************************)
(* Proofs about KeyInput.tla, for every tick period, debounce interval,    *)
(* poll gap and set of profiles.                                           *)
(***************************************************************************)
EXTENDS KeyInput, TLAPS

-----------------------------------------------------------------------------
(* The circle of tick values (Ticks.tla), for every period, and counting. *)

\* The period is twice the half period.
LEMMA HalfOfPeriod == HalfPeriod \in Nat \ {0} /\ TICKS_PERIOD = HalfPeriod + HalfPeriod
  BY TicksAssumption DEF HalfPeriod

\* Adding to a tick value stays on the circle, and goes around it at most once for less than
\* a period.
LEMMA AddOnCircle ==
    ASSUME NEW t \in TickValue, NEW e \in 0 .. TICKS_PERIOD
    PROVE  /\ ticks_add(t, e) \in TickValue
           /\ ticks_add(t, e) = IF t + e < TICKS_PERIOD THEN t + e ELSE t + e - TICKS_PERIOD
  BY TicksAssumption DEF ticks_add, TickValue

\* One more tick is one more tick: time can be counted step by step across the wrap.
LEMMA AddStep ==
    ASSUME NEW t \in TickValue, NEW e \in 0 .. TICKS_PERIOD - 1
    PROVE  ticks_add(ticks_add(t, e), 1) = ticks_add(t, e + 1)
  <1> DEFINE u == ticks_add(t, e)
  <1>1. TICKS_PERIOD \in Nat \ {0} /\ t \in 0 .. TICKS_PERIOD - 1
    BY TicksAssumption DEF TickValue
  <1>2. u = IF t + e < TICKS_PERIOD THEN t + e ELSE t + e - TICKS_PERIOD
    BY <1>1 DEF ticks_add
  <1>3. ticks_add(t, e + 1)
          = IF t + e + 1 < TICKS_PERIOD THEN t + e + 1 ELSE t + e + 1 - TICKS_PERIOD
    BY <1>1 DEF ticks_add
  <1>4. u \in 0 .. TICKS_PERIOD - 1
    BY <1>1, <1>2
  <1>5. ticks_add(u, 1) = IF u + 1 < TICKS_PERIOD THEN u + 1 ELSE u + 1 - TICKS_PERIOD
    <2> HIDE DEF u
    <2> QED BY <1>1, <1>4 DEF ticks_add
  <1> QED
    BY <1>1, <1>2, <1>3, <1>4, <1>5

\* ticks_diff recovers the time added, exactly, as long as it is less than half a period; past
\* that the difference turns negative.
LEMMA DiffOfAdd ==
    ASSUME NEW t \in TickValue, NEW e \in 0 .. TICKS_PERIOD - 1
    PROVE  ticks_diff(ticks_add(t, e), t) = IF e < HalfPeriod THEN e ELSE e - TICKS_PERIOD
  <1> DEFINE u == ticks_add(t, e)
             d == u - t
             m == d % TICKS_PERIOD
  <1>1. /\ TICKS_PERIOD \in Nat \ {0} /\ t \in 0 .. TICKS_PERIOD - 1
        /\ HalfPeriod \in Nat \ {0}
        /\ TICKS_PERIOD = HalfPeriod + HalfPeriod
    BY TicksAssumption, HalfOfPeriod DEF TickValue
  <1>2. u = IF t + e < TICKS_PERIOD THEN t + e ELSE t + e - TICKS_PERIOD
    BY <1>1 DEF ticks_add
  <1>3. d = e \/ d = e - TICKS_PERIOD
    <2> HIDE DEF u
    <2> QED BY <1>1, <1>2
  <1>4. m = e
    <2> HIDE DEF d
    <2> QED BY <1>1, <1>3
  <1>5. (m + HalfPeriod) % TICKS_PERIOD
          = IF e < HalfPeriod THEN e + HalfPeriod ELSE e + HalfPeriod - TICKS_PERIOD
    <2> HIDE DEF m
    <2> QED BY <1>1, <1>4
  <1>6. ticks_diff(u, t) = ((m + HalfPeriod) % TICKS_PERIOD) - HalfPeriod
    BY DEF ticks_diff
  <1> HIDE DEF u, d, m
  <1> QED
    BY <1>1, <1>5, <1>6 DEF u

\* What the gesture measures: the time really elapsed, up to half a period.
LEMMA ElapsedIsExact ==
    ASSUME NEW t \in TickValue, NEW e \in 0 .. HalfPeriod - 1
    PROVE  elapsed(ticks_add(t, e), t) = e
  <1>1. e \in 0 .. TICKS_PERIOD - 1 /\ e < HalfPeriod
    BY HalfOfPeriod
  <1> QED
    BY <1>1, DiffOfAdd DEF elapsed

\* Quotient and remainder are what division says.
LEMMA DivMod ==
    ASSUME NEW x \in Nat, NEW d \in Nat \ {0}
    PROVE  /\ x \div d \in Nat /\ x % d \in 0 .. d - 1
           /\ x = d * (x \div d) + (x % d)
  OBVIOUS

\* And only they are.
LEMMA DivUnique ==
    ASSUME NEW q \in Nat, NEW d \in Nat \ {0}, NEW r \in 0 .. d - 1
    PROVE  (d * q + r) \div d = q /\ (d * q + r) % d = r
  OBVIOUS

\* Counting on by one: the remainder grows until it reaches the divisor, and then the quotient
\* grows and the remainder starts again.
LEMMA DivStep ==
    ASSUME NEW x \in Nat, NEW d \in Nat \ {0}
    PROVE  /\ (x % d) + 1 < d => (x + 1) \div d = x \div d /\ (x + 1) % d = (x % d) + 1
           /\ (x % d) + 1 = d => (x + 1) \div d = (x \div d) + 1 /\ (x + 1) % d = 0
  <1>1. PICK q \in Nat, r \in 0 .. d - 1 : q = x \div d /\ r = x % d /\ x = d * q + r
    BY DivMod
  <1>2. ASSUME r + 1 < d PROVE (x + 1) \div d = q /\ (x + 1) % d = r + 1
    <2>1. x + 1 = d * q + (r + 1) /\ r + 1 \in 0 .. d - 1
      BY <1>1, <1>2
    <2> QED
      BY <2>1, DivUnique
  <1>3. ASSUME r + 1 = d PROVE (x + 1) \div d = q + 1 /\ (x + 1) % d = 0
    <2>1. d * (q + 1) = d * q + d
      OBVIOUS
    <2>2. x + 1 = d * (q + 1) + 0 /\ 0 \in 0 .. d - 1 /\ q + 1 \in Nat
      BY <1>1, <1>3, <2>1
    <2>3. (d * (q + 1) + 0) \div d = q + 1 /\ (d * (q + 1) + 0) % d = 0
      BY <2>2, DivUnique
    <2> QED
      BY <2>2, <2>3
  <1> QED
    BY <1>1, <1>2, <1>3

\* The remainder alone.
LEMMA NextRemainder ==
    ASSUME NEW x \in Nat, NEW d \in Nat \ {0}
    PROVE  (x + 1) % d = IF (x % d) + 1 = d THEN 0 ELSE (x % d) + 1
  <1>1. PICK r \in 0 .. d - 1 : r = x % d
    BY DivMod
  <1>2. CASE r + 1 < d
    BY <1>1, <1>2, DivStep
  <1>3. CASE r + 1 = d
    BY <1>1, <1>3, DivStep
  <1> QED
    BY <1>1, <1>2, <1>3

-----------------------------------------------------------------------------
\* The history variable counts the distance from the last accepted edge to the clock.
AgeIsDistance ==
    /\ lastChange = NoTick <=> age = Never
    /\ lastChange # NoTick /\ age < TICKS_PERIOD => clock = ticks_add(lastChange, age)

\* A hold in progress began at the last accepted edge, and that edge was a press.
HoldFromLastEdge ==
    tapPressed => pressed /\ pressAt = lastChange /\ lastChange # NoTick

\* A hold is within the limit put on it, and nothing has fired since the press.
HoldWithinLimit ==
    /\ tapPressed => age <= HOLD_LIMIT
    /\ pressed => fired = NoBinding

KeyIInv == KeyTypeOK /\ AgeIsDistance /\ HoldFromLastEdge /\ HoldWithinLimit

-----------------------------------------------------------------------------
\* The state for any hold is TAP, CANCEL, or a slot the profile really has.
LEMMA StateInRange ==
    ASSUME NEW p \in Profiles, NEW held \in Nat
    PROVE  StateFor(p, held) \in {TAP, CANCEL} \cup (0 .. p.nslots - 1)
  <1> DEFINE raw == (held - p.tap_max_ms) \div p.dwell_ms
             n == p.nslots
  <1>1. /\ p.dwell_ms \in Nat \ {0} /\ p.tap_max_ms \in Nat \ {0} /\ n \in Nat \ {0}
    BY ProfileAssumption DEF ProfileAssumption
  <1>2. CASE held < p.tap_max_ms
    BY <1>2 DEF StateFor
  <1>3. CASE ~(held < p.tap_max_ms)
    <2>1. raw \in Nat
      BY <1>1, <1>3
    <2> HIDE DEF raw, n
    <2>2. raw % n \in 0 .. n - 1
      BY <1>1, <2>1
    <2> USE DEF raw, n
    <2> QED
      BY <1>1, <1>3, <2>1, <2>2 DEF StateFor
  <1> QED
    BY <1>2, <1>3

LEMMA ElapsedInNat == \A now, then \in TickValue : elapsed(now, then) \in Nat
  BY HalfOfPeriod DEF elapsed, ticks_diff, TickValue

LEMMA DisplayType ==
    ASSUME KeyTypeOK
    PROVE  display(clock) \in {IDLE, TAP, CANCEL} \cup Nat
  <1>1. held_ms(clock) \in Nat
    BY ElapsedInNat DEF held_ms, KeyTypeOK, ColorTapTypeOK
  <1>2. profile \in Profiles /\ profile.nslots \in Nat
    BY ProfileAssumption DEF ProfileAssumption, KeyTypeOK, ColorTapTypeOK
  <1>3. StateFor(profile, held_ms(clock)) \in {TAP, CANCEL} \cup (0 .. profile.nslots - 1)
    BY <1>1, <1>2, StateInRange
  <1> QED
    BY <1>2, <1>3 DEF display

\* While the last edge is less than half a period back, the debouncer and the gesture measure
\* the true distance to it.
LEMMA DistanceIsTrue ==
    ASSUME KeyIInv, lastChange # NoTick, age < HalfPeriod
    PROVE  /\ age \in 0 .. HalfPeriod - 1
           /\ ticks_diff(clock, lastChange) = age
           /\ elapsed(clock, lastChange) = age
  <1>1. age \in 0 .. HalfPeriod - 1 /\ age \in 0 .. TICKS_PERIOD - 1 /\ age < TICKS_PERIOD
    BY HalfOfPeriod DEF KeyIInv, KeyTypeOK, AgeIsDistance, Never
  <1>2. lastChange \in TickValue /\ clock = ticks_add(lastChange, age)
    BY <1>1 DEF KeyIInv, KeyTypeOK, DebouncerTypeOK, AgeIsDistance
  <1> QED
    BY <1>1, <1>2, DiffOfAdd, ElapsedIsExact

-----------------------------------------------------------------------------
LEMMA KeyInitInv == KeyInit => KeyIInv
  <1> SUFFICES ASSUME KeyInit PROVE KeyIInv
    OBVIOUS
  <1> USE DEF KeyInit, DebouncerInit, ColorTapInit
  <1>1. KeyTypeOK
    <2>1. 0 \in TickValue
      BY TicksAssumption DEF TickValue
    <2>2. DebouncerTypeOK /\ ColorTapTypeOK
      BY <2>1 DEF DebouncerTypeOK, ColorTapTypeOK
    <2>3. sincePoll \in 0 .. MAX_GAP
      BY KeyInputAssumption
    <2> QED
      BY <2>2, <2>3 DEF KeyTypeOK
  <1>2. AgeIsDistance
    BY DEF AgeIsDistance
  <1>3. HoldFromLastEdge
    BY DEF HoldFromLastEdge
  <1>4. HoldWithinLimit
    BY DEF HoldWithinLimit
  <1> QED
    BY <1>1, <1>2, <1>3, <1>4 DEF KeyIInv

\* One tick of real time moves the clock and the history variable together.
LEMMA ElapseInv == KeyIInv /\ Elapse => KeyIInv'
  <1> SUFFICES ASSUME KeyIInv, Elapse PROVE KeyIInv'
    OBVIOUS
  <1> USE DEF Elapse
  <1>1. KeyTypeOK'
    <2>1. clock' \in TickValue
      <3>1. 1 \in 0 .. TICKS_PERIOD
        BY TicksAssumption
      <3> QED
        BY <3>1, AddOnCircle DEF KeyIInv, KeyTypeOK
    <2>2. sincePoll' \in 0 .. MAX_GAP /\ age' \in 0 .. AGE_CAP \cup {Never}
      BY KeyInputAssumption DEF KeyIInv, KeyTypeOK
    <2> QED
      BY <2>1, <2>2 DEF KeyIInv, KeyTypeOK, DebouncerTypeOK, ColorTapTypeOK
  <1>2. AgeIsDistance'
    <2>1. lastChange' = NoTick <=> age' = Never
      BY KeyInputAssumption DEF KeyIInv, KeyTypeOK, AgeIsDistance, Never
    <2>2. ASSUME lastChange' # NoTick, age' < TICKS_PERIOD
          PROVE  clock' = ticks_add(lastChange', age')
      <3>1. /\ age \in 0 .. TICKS_PERIOD - 1 /\ age < TICKS_PERIOD
            /\ age' = age + 1
        BY <2>2, TicksAssumption, KeyInputAssumption
           DEF KeyIInv, KeyTypeOK, AgeIsDistance, Never
      <3>2. lastChange \in TickValue /\ clock = ticks_add(lastChange, age)
        BY <2>2, <3>1 DEF KeyIInv, KeyTypeOK, DebouncerTypeOK, AgeIsDistance
      <3> QED
        BY <3>1, <3>2, AddStep
    <2> QED
      BY <2>1, <2>2 DEF AgeIsDistance
  <1>3. HoldFromLastEdge'
    BY DEF KeyIInv, HoldFromLastEdge
  <1>4. HoldWithinLimit'
    BY KeyInputAssumption DEF KeyIInv, KeyTypeOK, AgeIsDistance, HoldFromLastEdge, HoldWithinLimit,
                              Never
  <1> QED
    BY <1>1, <1>2, <1>3, <1>4 DEF KeyIInv

\* A poll starts the distance again exactly when it accepts an edge.
LEMMA PollInv == KeyIInv /\ Poll => KeyIInv'
  <1> SUFFICES ASSUME KeyIInv, Poll PROVE KeyIInv'
    OBVIOUS
  <1>1. clock \in TickValue /\ clock' = clock /\ level' = level /\ level \in BOOLEAN
    BY DEF KeyIInv, KeyTypeOK, Poll
  <1>2. DebouncerTypeOK' /\ ColorTapTypeOK'
    BY <1>1 DEF KeyIInv, KeyTypeOK, DebouncerTypeOK, ColorTapTypeOK, Poll, Update,
                debouncerVars, NoEdge, PressEdge, ReleaseEdge, press, release
  <1>3. fired' \in {NoBinding} \cup Nat
    <2>1. BindingOf(display(clock)) \in {NoBinding} \cup Nat
      BY DisplayType DEF KeyIInv, BindingOf, IDLE, TAP, CANCEL
    <2> QED
      BY <2>1 DEF KeyIInv, KeyTypeOK, Poll, NoEdge, PressEdge, ReleaseEdge
  <1>4. shown' \in {IDLE, TAP, CANCEL} \cup Nat
    <2>1. elapsed(clock, pressAt') \in Nat /\ profile' \in Profiles
      BY <1>1, <1>2, ElapsedInNat DEF ColorTapTypeOK
    <2>2. profile'.nslots \in Nat
      BY <2>1, ProfileAssumption DEF ProfileAssumption
    <2>3. StateFor(profile', elapsed(clock, pressAt'))
            \in {TAP, CANCEL} \cup (0 .. profile'.nslots - 1)
      BY <2>1, StateInRange
    <2> QED
      BY <2>2, <2>3 DEF Poll
  <1>5. sincePoll' \in 0 .. MAX_GAP /\ age' \in 0 .. AGE_CAP \cup {Never}
    BY KeyInputAssumption DEF KeyIInv, KeyTypeOK, Poll, NoEdge, PressEdge, ReleaseEdge
  <1>6. AgeIsDistance'
    <2>1. CASE Accepts(level, clock)
      <3>1. lastChange' = clock /\ age' = 0 /\ lastChange' # NoTick
        BY <1>1, <2>1 DEF Poll, Update, NoEdge, PressEdge, ReleaseEdge, NoTick, TickValue
      <3>2. ticks_add(clock, 0) = clock
        BY <1>1, TicksAssumption DEF ticks_add, TickValue
      <3> QED
        BY <1>1, <3>1, <3>2 DEF AgeIsDistance, Never
    <2>2. CASE ~Accepts(level, clock)
      BY <1>1, <2>2 DEF KeyIInv, AgeIsDistance, Poll, Update, debouncerVars,
                        NoEdge, PressEdge, ReleaseEdge
    <2> QED
      BY <2>1, <2>2
  <1>7. HoldFromLastEdge'
    <2>1. CASE NoEdge
      BY <2>1 DEF KeyIInv, HoldFromLastEdge, Poll, Update, debouncerVars, NoEdge
    <2>2. CASE PressEdge
      <3>1. clock # NoTick
        BY <1>1 DEF NoTick, TickValue
      <3> QED
        BY <2>2, <3>1 DEF HoldFromLastEdge, Poll, Update, PressEdge, press
    <2>3. CASE ReleaseEdge
      BY <2>3 DEF HoldFromLastEdge, ReleaseEdge, release
    <2> QED
      BY <2>1, <2>2, <2>3 DEF Poll
  <1>8. HoldWithinLimit'
    <2>1. CASE NoEdge
      BY <2>1 DEF KeyIInv, HoldWithinLimit, Poll, Update, debouncerVars, NoEdge
    <2>2. CASE PressEdge
      BY <2>2, KeyInputAssumption DEF HoldWithinLimit, Poll, PressEdge
    <2>3. CASE ReleaseEdge
      BY <1>1, <2>3 DEF HoldWithinLimit, Poll, Update, ReleaseEdge, release
    <2> QED
      BY <2>1, <2>2, <2>3 DEF Poll
  <1> QED
    BY <1>1, <1>2, <1>3, <1>4, <1>5, <1>6, <1>7, <1>8 DEF KeyIInv, KeyTypeOK

LEMMA KeyNextInv == KeyIInv /\ [KeyNext]_keyVars => KeyIInv'
  <1> SUFFICES ASSUME KeyIInv, [KeyNext]_keyVars PROVE KeyIInv'
    OBVIOUS
  <1>1. CASE Elapse
    BY <1>1, ElapseInv
  <1>2. CASE MoveSwitch
    BY <1>2 DEF MoveSwitch, KeyIInv, KeyTypeOK, DebouncerTypeOK, ColorTapTypeOK,
                AgeIsDistance, HoldFromLastEdge, HoldWithinLimit
  <1>3. CASE Poll
    BY <1>3, PollInv
  <1>4. ASSUME NEW p \in Profiles, SwitchProfile(p) PROVE KeyIInv'
    BY <1>4 DEF SwitchProfile, set_profile, KeyIInv, KeyTypeOK, DebouncerTypeOK,
                ColorTapTypeOK, AgeIsDistance, HoldFromLastEdge, HoldWithinLimit
  <1>5. CASE UNCHANGED keyVars
    BY <1>5 DEF keyVars, KeyIInv, KeyTypeOK, DebouncerTypeOK, ColorTapTypeOK,
                AgeIsDistance, HoldFromLastEdge, HoldWithinLimit
  <1> QED
    BY <1>1, <1>2, <1>3, <1>4, <1>5 DEF KeyNext

\* The strengthened invariant holds in every reachable state of the key path.
THEOREM KeyInvariant == KeySpec => []KeyIInv
  BY KeyInitInv, KeyNextInv, PTL DEF KeySpec

\* Every variable of the key path keeps its type; in particular the clock stays on its circle
\* and the state and the binding are ones that exist.
THEOREM KeyTypeCorrect == KeySpec => []KeyTypeOK
  BY KeyInvariant, PTL DEF KeyIInv

LEMMA HeldFromInv == KeyIInv => HeldIsTrue
  BY DistanceIsTrue DEF HeldIsTrue, held_ms, KeyIInv, HoldFromLastEdge

\* The time the gesture measures for a hold is the time it lasted, across any wrap of the
\* clock, for every hold of less than half a period.
THEOREM HeldTimeIsTrue == KeySpec => []HeldIsTrue
  BY KeyInvariant, HeldFromInv, PTL

LEMMA ReleaseStep ==
    ASSUME KeyIInv, [KeyNext]_keyVars, pressed, ~pressed'
    PROVE  IF tapPressed
           THEN age < HalfPeriod => fired' = BindingOf(StateFor(profile, age))
           ELSE fired' = NoBinding
  <1>1. Poll /\ Accepts(level, clock) /\ ~level
    BY DEF KeyNext, Elapse, MoveSwitch, SwitchProfile, keyVars, Poll, Update, debouncerVars
  <1>2. fired' = BindingOf(display(clock))
    BY <1>1 DEF Poll, NoEdge, PressEdge, ReleaseEdge
  <1>3. ASSUME tapPressed, age < HalfPeriod
        PROVE  display(clock) = StateFor(profile, age)
    BY <1>3, HeldFromInv DEF HeldIsTrue, display
  <1>4. ASSUME ~tapPressed PROVE BindingOf(display(clock)) = NoBinding
    BY <1>4 DEF display, BindingOf, IDLE, TAP
  <1> QED
    BY <1>2, <1>3, <1>4

\* The binding fired on release is the one the true duration of the hold stands for.
THEOREM ReleaseFiresTrueState == KeySpec => FiresTrueState
  <1>1. KeyIInv /\ [KeyNext]_keyVars
          => [pressed /\ ~pressed' =>
                IF tapPressed
                THEN age < HalfPeriod => fired' = BindingOf(StateFor(profile, age))
                ELSE fired' = NoBinding]_keyVars
    BY ReleaseStep
  <1> QED
    BY <1>1, KeyInvariant, PTL DEF KeySpec, FiresTrueState

LEMMA SpacedStep ==
    ASSUME KeyIInv, [KeyNext]_keyVars, pressed' # pressed
    PROVE  age = Never \/ age >= DEBOUNCE_MS
  <1>1. Accepts(level, clock)
    BY DEF KeyNext, Elapse, MoveSwitch, SwitchProfile, keyVars, Poll, Update, debouncerVars
  <1>2. SUFFICES ASSUME age # Never, ~(age >= DEBOUNCE_MS) PROVE FALSE
    OBVIOUS
  <1>3. lastChange # NoTick /\ age < HalfPeriod
    BY <1>2, DebounceAssumption, HalfOfPeriod DEF KeyIInv, KeyTypeOK, AgeIsDistance, Never
  <1>4. ticks_diff(clock, lastChange) = age
    BY <1>3, DistanceIsTrue
  <1> QED
    BY <1>1, <1>2, <1>3, <1>4 DEF Accepts

LEMMA RejectStep ==
    ASSUME KeyIInv, Poll, level # pressed, pressed' = pressed
    PROVE  age \in 0 .. DEBOUNCE_MS - 1 \/ age >= HalfPeriod
  <1>1. ~Accepts(level, clock)
    BY DEF Poll, Update
  <1>2. lastChange # NoTick /\ ~(ticks_diff(clock, lastChange) >= DEBOUNCE_MS)
    BY <1>1 DEF Accepts
  <1>3. age \in Nat
    BY <1>2, KeyInputAssumption DEF KeyIInv, KeyTypeOK, AgeIsDistance, Never
  <1>4. ASSUME age < HalfPeriod PROVE age \in 0 .. DEBOUNCE_MS - 1
    BY <1>2, <1>3, <1>4, DistanceIsTrue, DebounceAssumption, HalfOfPeriod
  <1> QED
    BY <1>3, <1>4, HalfOfPeriod

\* Accepted edges are at least the debounce interval of real time apart, and an edge is turned
\* away only inside it or in the half period in which the signed difference is negative; in
\* particular never before the first edge since boot.
THEOREM EdgesCountTruly == KeySpec => EdgesAreTrue
  <1>1. KeyIInv /\ [KeyNext]_keyVars
          => [/\ pressed' # pressed => age = Never \/ age >= DEBOUNCE_MS
              /\ Poll /\ level # pressed /\ pressed' = pressed
                   => age \in 0 .. DEBOUNCE_MS - 1 \/ age >= HalfPeriod]_keyVars
    BY SpacedStep, RejectStep
  <1> QED
    BY <1>1, KeyInvariant, PTL DEF KeySpec, EdgesAreTrue

-----------------------------------------------------------------------------
(* The key path implements the colour wheel: seen through display(clock), every step of        *)
(* KeyInput.tla is a step of ColorWheel.tla or changes nothing there, as long as no key is      *)
(* held for half a tick period.                                                                 *)

\* The milliseconds until a hold of this length shows the next state.
LeftAt(p, held) ==
    IF held < p.tap_max_ms THEN p.tap_max_ms - held
    ELSE p.dwell_ms - ((held - p.tap_max_ms) % p.dwell_ms)

\* Inside the tap window, a millisecond shortens the window or opens the first colour.
LEMMA TapMillisecond ==
    ASSUME NEW p \in Profiles, NEW held \in Nat, held < p.tap_max_ms
    PROVE  /\ LeftAt(p, held) > 1
                => StateFor(p, held + 1) = StateFor(p, held) /\ LeftAt(p, held + 1) = LeftAt(p, held) - 1
           /\ ~(LeftAt(p, held) > 1)
                => StateFor(p, held + 1) = 0 /\ LeftAt(p, held + 1) = p.dwell_ms
  <1>1. /\ p.dwell_ms \in Nat \ {0} /\ p.tap_max_ms \in Nat \ {0} /\ p.nslots \in Nat \ {0}
        /\ p.overflow \in OverflowModes
    BY ProfileAssumption DEF ProfileAssumption
  <1>2. CASE held + 1 < p.tap_max_ms
    BY <1>1, <1>2 DEF StateFor, LeftAt
  <1>3. CASE ~(held + 1 < p.tap_max_ms)
    <2>1. held + 1 = p.tap_max_ms
      BY <1>1, <1>3
    <2>2. 0 \div p.dwell_ms = 0 /\ 0 % p.dwell_ms = 0
      BY <1>1
    <2>3. 0 % p.nslots = 0 /\ 0 % (p.nslots + 1) = 0
      BY <1>1
    <2>4. StateFor(p, p.tap_max_ms) = 0
      BY <1>1, <2>2, <2>3 DEF StateFor
    <2>5. LeftAt(p, p.tap_max_ms) = p.dwell_ms
      BY <1>1, <2>2 DEF LeftAt
    <2>6. ~(LeftAt(p, held) > 1)
      BY <1>1, <2>1 DEF LeftAt
    <2> QED
      BY <2>1, <2>4, <2>5, <2>6
  <1> QED
    BY <1>2, <1>3

\* The slot for a count of whole dwells, whatever the timings.
SlotAt(p, raw) ==
    CASE p.overflow = "clamp"       -> IF raw < p.nslots THEN raw ELSE p.nslots - 1
      [] p.overflow = "wrap_cancel" -> IF raw % (p.nslots + 1) < p.nslots
                                       THEN raw % (p.nslots + 1) ELSE CANCEL
      [] OTHER                      -> raw % p.nslots

\* One more dwell turns the wheel by one.
LEMMA SlotTurn ==
    ASSUME NEW p \in Profiles, NEW raw \in Nat
    PROVE  SlotAt(p, raw + 1) = Wheel!Turn(p, SlotAt(p, raw))
  <1> DEFINE n == p.nslots
  <1>1. n \in Nat \ {0} /\ p.overflow \in OverflowModes
    BY ProfileAssumption DEF ProfileAssumption
  <1>2. CASE p.overflow = "clamp"
    BY <1>1, <1>2 DEF SlotAt, Wheel!Turn, Wheel!TAP, Wheel!CANCEL
  <1>3. CASE p.overflow = "wrap"
    <2> DEFINE r == raw % n
    <2>1. r \in 0 .. n - 1
      BY <1>1, DivMod
    <2>2. (raw + 1) % n = IF r + 1 = n THEN 0 ELSE r + 1
      BY <1>1, NextRemainder
    <2>3. SlotAt(p, raw) = r /\ SlotAt(p, raw + 1) = (raw + 1) % n
      BY <1>3 DEF SlotAt
    <2> HIDE DEF r
    <2> QED
      BY <1>1, <1>3, <2>1, <2>2, <2>3 DEF Wheel!Turn, Wheel!TAP, Wheel!CANCEL
  <1>4. CASE p.overflow = "wrap_cancel"
    <2>1. PICK m \in Nat \ {0} : m = n + 1
      BY <1>1
    <2> DEFINE r == raw % m
    <2>2. r \in 0 .. m - 1
      BY <2>1, DivMod
    <2>3. (raw + 1) % m = IF r + 1 = m THEN 0 ELSE r + 1
      BY NextRemainder
    <2>4. /\ SlotAt(p, raw) = IF r < n THEN r ELSE CANCEL
          /\ SlotAt(p, raw + 1) = IF (raw + 1) % m < n THEN (raw + 1) % m ELSE CANCEL
      BY <1>4, <2>1 DEF SlotAt
    <2> HIDE DEF r
    <2> QED
      BY <1>1, <1>4, <2>1, <2>2, <2>3, <2>4 DEF Wheel!Turn, Wheel!TAP, Wheel!CANCEL, CANCEL
  <1> QED
    BY <1>1, <1>2, <1>3, <1>4 DEF OverflowModes

\* Past the tap window, the state is the slot for the whole dwells since it closed.
LEMMA PastTap ==
    ASSUME NEW p \in Profiles, NEW held \in Nat, ~(held < p.tap_max_ms)
    PROVE  /\ StateFor(p, held) = SlotAt(p, (held - p.tap_max_ms) \div p.dwell_ms)
           /\ LeftAt(p, held) = p.dwell_ms - ((held - p.tap_max_ms) % p.dwell_ms)
  BY DEF StateFor, SlotAt, LeftAt

\* Past the tap window, a millisecond shortens the dwell or turns the wheel.
LEMMA HoldMillisecond ==
    ASSUME NEW p \in Profiles, NEW held \in Nat, ~(held < p.tap_max_ms)
    PROVE  /\ LeftAt(p, held) > 1
                => StateFor(p, held + 1) = StateFor(p, held) /\ LeftAt(p, held + 1) = LeftAt(p, held) - 1
           /\ ~(LeftAt(p, held) > 1)
                => /\ StateFor(p, held + 1) = Wheel!Turn(p, StateFor(p, held))
                   /\ LeftAt(p, held + 1) = p.dwell_ms
  <1> DEFINE d == p.dwell_ms
             u == held - p.tap_max_ms
  <1>1. d \in Nat \ {0} /\ p.tap_max_ms \in Nat \ {0}
    BY ProfileAssumption DEF ProfileAssumption
  <1>2. u \in Nat /\ held + 1 - p.tap_max_ms = u + 1 /\ ~(held + 1 < p.tap_max_ms)
    BY <1>1
  <1>3. u \div d \in Nat /\ u % d \in 0 .. d - 1
    BY <1>1, <1>2, DivMod
  <1>4. StateFor(p, held) = SlotAt(p, u \div d) /\ LeftAt(p, held) = d - (u % d)
    BY PastTap
  <1>5. StateFor(p, held + 1) = SlotAt(p, (u + 1) \div d) /\ LeftAt(p, held + 1) = d - ((u + 1) % d)
    <2>1. PICK h \in Nat : h = held + 1
      OBVIOUS
    <2>2. ~(h < p.tap_max_ms) /\ h - p.tap_max_ms = u + 1
      BY <1>1, <1>2, <2>1
    <2>3. /\ StateFor(p, h) = SlotAt(p, (h - p.tap_max_ms) \div d)
          /\ LeftAt(p, h) = d - ((h - p.tap_max_ms) % d)
      BY <2>2, PastTap
    <2> QED
      BY <2>1, <2>2, <2>3
  <1> HIDE DEF d, u
  <1>6. CASE (u % d) + 1 < d
    <2>1. (u + 1) \div d = u \div d /\ (u + 1) % d = (u % d) + 1
      BY <1>1, <1>2, <1>6, DivStep
    <2> QED
      BY <1>1, <1>3, <1>4, <1>5, <1>6, <2>1
  <1>7. CASE ~((u % d) + 1 < d)
    <2>1. (u % d) + 1 = d
      BY <1>1, <1>3, <1>7
    <2>2. (u + 1) \div d = (u \div d) + 1 /\ (u + 1) % d = 0
      BY <1>1, <1>2, <2>1, DivStep
    <2>3. ~(LeftAt(p, held) > 1) /\ LeftAt(p, held + 1) = d
      BY <1>1, <1>3, <1>4, <1>5, <2>1, <2>2
    <2>4. SlotAt(p, (u \div d) + 1) = Wheel!Turn(p, SlotAt(p, u \div d))
      BY <1>3, SlotTurn
    <2> QED
      BY <1>4, <1>5, <2>2, <2>3, <2>4 DEF d
  <1> QED
    BY <1>6, <1>7

-----------------------------------------------------------------------------
LEMMA WheelInit == KeyInit => Wheel!Init
  BY DEF KeyInit, ColorTapInit, Wheel!Init, display, TimeLeft, IDLE, NoBinding,
         Wheel!IDLE, Wheel!NoBinding

\* In a reachable state with a hold in progress the display and the countdown are those of the
\* true duration of the hold.
LEMMA DisplayInHold ==
    KeyIInv /\ tapPressed /\ age < HalfPeriod
      => /\ age \in Nat /\ profile \in Profiles
         /\ display(clock) = StateFor(profile, age)
         /\ TimeLeft = LeftAt(profile, age)
  <1> SUFFICES ASSUME KeyIInv, tapPressed, age < HalfPeriod
               PROVE  /\ age \in Nat /\ profile \in Profiles
                      /\ display(clock) = StateFor(profile, age)
                      /\ TimeLeft = LeftAt(profile, age)
    OBVIOUS
  <1>1. lastChange # NoTick /\ pressAt = lastChange
    BY DEF KeyIInv, HoldFromLastEdge
  <1>2. held_ms(clock) = age /\ age \in Nat
    BY <1>1, DistanceIsTrue, HalfOfPeriod DEF held_ms
  <1> QED
    BY <1>2 DEF display, TimeLeft, LeftAt, KeyIInv, KeyTypeOK, ColorTapTypeOK

LEMMA WheelElapse ==
    ASSUME HOLD_LIMIT < HalfPeriod, KeyIInv, KeyIInv', Elapse
    PROVE  Wheel!Next \/ UNCHANGED Wheel!wheelVars
  <1>1. CASE ~tapPressed
    BY <1>1 DEF Elapse, Wheel!wheelVars, display, TimeLeft
  <1>2. CASE tapPressed
    <2>1. /\ age \in Nat /\ age' = age + 1 /\ age < HalfPeriod /\ age + 1 < HalfPeriod
          /\ tapPressed' /\ profile' = profile /\ fired' = fired
      BY <1>2, HalfOfPeriod, KeyInputAssumption
         DEF Elapse, KeyIInv, KeyTypeOK, AgeIsDistance, HoldFromLastEdge, HoldWithinLimit, Never
    <2>2. /\ profile \in Profiles
          /\ display(clock) = StateFor(profile, age) /\ TimeLeft = LeftAt(profile, age)
      BY <1>2, <2>1, DisplayInHold
    <2>3. /\ display(clock)' = StateFor(profile, age + 1)
          /\ TimeLeft' = LeftAt(profile, age + 1)
      <3>1. (KeyIInv /\ tapPressed /\ age < HalfPeriod)'
        BY <2>1
      <3>2. (/\ age \in Nat /\ profile \in Profiles
             /\ display(clock) = StateFor(profile, age)
             /\ TimeLeft = LeftAt(profile, age))'
        BY <3>1, DisplayInHold, PTL
      <3> QED
        BY <2>1, <3>2
    <2>4. profile.nslots \in Nat \ {0} /\ display(clock) # Wheel!IDLE
      <3>1. profile.nslots \in Nat \ {0}
        BY <2>2, ProfileAssumption DEF ProfileAssumption
      <3> QED
        BY <2>1, <2>2, <3>1, StateInRange DEF TAP, CANCEL, Wheel!IDLE
    <2>5. CASE age < profile.tap_max_ms
      <3>1. display(clock) = TAP
        BY <2>2, <2>5 DEF StateFor
      <3>2. /\ TimeLeft > 1 => display(clock)' = display(clock) /\ TimeLeft' = TimeLeft - 1
            /\ ~(TimeLeft > 1) => display(clock)' = 0 /\ TimeLeft' = profile.dwell_ms
        BY <2>1, <2>2, <2>3, <2>5, TapMillisecond
      <3>3. Wheel!Turn(profile, display(clock)) = 0
        BY <2>4, <3>1 DEF Wheel!Turn, Wheel!TAP, TAP
      <3> QED
        BY <2>1, <2>4, <3>2, <3>3 DEF Wheel!Next, Wheel!Millisecond
    <2>6. CASE ~(age < profile.tap_max_ms)
      BY <2>1, <2>2, <2>3, <2>4, <2>6, HoldMillisecond
         DEF Wheel!Next, Wheel!Millisecond
    <2> QED
      BY <2>5, <2>6
  <1> QED
    BY <1>1, <1>2

LEMMA WheelPoll ==
    ASSUME KeyIInv, Poll
    PROVE  Wheel!Next \/ UNCHANGED Wheel!wheelVars
  <1>1. clock' = clock
    BY DEF Poll
  <1>2. CASE NoEdge
    BY <1>1, <1>2 DEF NoEdge, Wheel!wheelVars, display, TimeLeft, held_ms
  <1>3. CASE PressEdge
    <2>1. ~tapPressed /\ tapPressed' /\ pressAt' = clock /\ profile' = profile /\ fired' = NoBinding
      BY <1>3 DEF PressEdge, press, Accepts, KeyIInv, HoldFromLastEdge
    <2>2. elapsed(clock, clock) = 0
      <3>1. clock \in TickValue /\ 0 \in 0 .. HalfPeriod - 1 /\ ticks_add(clock, 0) = clock
        BY HalfOfPeriod, TicksAssumption DEF KeyIInv, KeyTypeOK, TickValue, ticks_add
      <3> QED
        BY <3>1, ElapsedIsExact
    <2>3. profile.tap_max_ms \in Nat \ {0}
      BY ProfileAssumption DEF ProfileAssumption, KeyIInv, KeyTypeOK, ColorTapTypeOK
    <2>4. display(clock) = IDLE /\ display(clock)' = TAP /\ TimeLeft' = profile.tap_max_ms
      BY <1>1, <2>1, <2>2, <2>3 DEF display, TimeLeft, held_ms, StateFor
    <2> QED
      BY <2>1, <2>4 DEF Wheel!Next, Wheel!Press, Wheel!IDLE, Wheel!TAP, Wheel!NoBinding,
                        IDLE, TAP, NoBinding
  <1>4. CASE ReleaseEdge
    <2>1. /\ ~tapPressed' /\ profile' = profile /\ fired' = BindingOf(display(clock))
          /\ display(clock)' = IDLE /\ TimeLeft' = 0
      BY <1>4 DEF ReleaseEdge, release, display, TimeLeft
    <2>2. CASE tapPressed
      <3>1. display(clock) \in {TAP, CANCEL} \cup Nat
        <4>1. held_ms(clock) \in Nat /\ profile \in Profiles /\ profile.nslots \in Nat
          BY ElapsedInNat, ProfileAssumption
             DEF held_ms, KeyIInv, KeyTypeOK, ColorTapTypeOK, ProfileAssumption
        <4> QED
          BY <2>2, <4>1, StateInRange DEF display
      <3> QED
        BY <2>1, <3>1 DEF Wheel!Next, Wheel!Release, BindingOf, IDLE, TAP, CANCEL, NoBinding,
                          Wheel!IDLE, Wheel!TAP, Wheel!CANCEL, Wheel!NoBinding
    <2>3. CASE ~tapPressed
      <3>1. display(clock) = IDLE /\ TimeLeft = 0
        BY <2>3 DEF display, TimeLeft
      <3>2. fired = NoBinding /\ fired' = NoBinding
        BY <1>4, <2>1, <3>1 DEF ReleaseEdge, Accepts, KeyIInv, KeyTypeOK, DebouncerTypeOK,
                                HoldWithinLimit, BindingOf, IDLE, TAP
      <3> QED
        BY <2>1, <3>1, <3>2 DEF Wheel!wheelVars
    <2> QED
      BY <2>2, <2>3
  <1> QED
    BY <1>2, <1>3, <1>4 DEF Poll

\* The key path implements the colour wheel, for every period, profile set and poll gap, as
\* long as a hold lasts less than half the period.
THEOREM KeyPathIsWheel ==
    ASSUME HOLD_LIMIT < HalfPeriod
    PROVE  KeySpec => WheelSpec
  <1>1. KeyIInv /\ KeyIInv' /\ [KeyNext]_keyVars => [Wheel!Next]_(Wheel!wheelVars)
    <2> SUFFICES ASSUME KeyIInv, KeyIInv', [KeyNext]_keyVars
                 PROVE  Wheel!Next \/ UNCHANGED Wheel!wheelVars
      OBVIOUS
    <2>1. CASE Elapse
      BY <2>1, WheelElapse
    <2>2. CASE MoveSwitch
      BY <2>2 DEF MoveSwitch, Wheel!wheelVars, display, TimeLeft, held_ms
    <2>3. CASE Poll
      BY <2>3, WheelPoll
    <2>4. ASSUME NEW p \in Profiles, SwitchProfile(p)
          PROVE  Wheel!Next
      BY <2>4 DEF SwitchProfile, set_profile, Wheel!Next, Wheel!NewProfile, display, TimeLeft,
                  IDLE, Wheel!IDLE
    <2>5. CASE UNCHANGED keyVars
      BY <2>5 DEF keyVars, Wheel!wheelVars, display, TimeLeft, held_ms
    <2> QED
      BY <2>1, <2>2, <2>3, <2>4, <2>5 DEF KeyNext
  <1> QED
    BY <1>1, WheelInit, KeyInvariant, PTL DEF KeySpec, WheelSpec, Wheel!Spec
=============================================================================
