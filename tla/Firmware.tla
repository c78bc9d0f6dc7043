------------------------------ MODULE Firmware ------------------------------
(***************************************************************************)
(* One pass of the main loop of src/src/code.py with everything in it that *)
(* the key and the commands share: the gesture, the live configuration,    *)
(* the action runner of actions.py and the LED engine of leds.py.  The     *)
(* gesture is the wheel of ColorWheel.tla, which KeyInput.tla implements:  *)
(* between two looks at the clock it turns on by any number of positions.  *)
(* Storing a configuration is one step here (DeviceConfig.tla splits it).  *)
(***************************************************************************)
EXTENDS Integers, Sequences

CONSTANTS
    ProfileOf,          \* ProfileOf[p]: what the firmware reads of the profile named p
    ListOf,             \* ListOf[l]: the profiles of configuration list l, by name
    TooLarge,           \* the lists that decode but exceed the region when encoded again
    ProfileArgs,        \* the numbers a client sends with `profile' and `test'
    BindingArgs,        \* the second number of `test'
    MAX_EXT,            \* 64 in code.py
    LINE_LIMIT          \* bound: the lines handled in one pass

Profiles == DOMAIN ProfileOf
Lists    == DOMAIN ListOf
StepKinds == {"key", "other", "delay"}    \* "other" is a text or a consumer step

ASSUME FirmwareAssumption ==
    /\ \A p \in Profiles :
          /\ ProfileOf[p].nslots \in Nat \ {0} /\ ProfileOf[p].ext_count \in Nat
          /\ ProfileOf[p].overflow \in {"wrap", "wrap_cancel", "clamp"}
          /\ ProfileOf[p].dwell_ms \in Nat
          /\ ProfileOf[p].steps \in [0 .. ProfileOf[p].nslots -> Seq(StepKinds)]
    /\ \A l \in Lists : ListOf[l] \in Seq(Profiles) /\ Len(ListOf[l]) > 0
    /\ ProfileArgs \subseteq Int /\ BindingArgs \subseteq Int
    /\ MAX_EXT \in Nat /\ LINE_LIMIT \in Nat

VARIABLES
    list, active,       \* Device.config_obj: its profiles, and its active index
    profile,            \* the profile gesture and LED engine were last given
    showing,            \* the state of the gesture: IDLE unless a hold is in progress
    keyDown,            \* the debounced level of the switch
    last_display,       \* last_display of main()
    hold,               \* LedEngine._hold
    flash,              \* LedEngine._flash
    ext,                \* the length of Device.ext, 0 for None
    ext_count,          \* Device._ext_count
    phase,              \* where in the pass the loop is; once an exception has left main(),
                        \* until the board is reset, "dead" after a division by zero and
                        \* "garbled" after bytes that are no text
    left,               \* the steps the runner has still to run
    firing,             \* the binding being run, or the last one that was
    by,                 \* who fired it: "key" or "test"
    raised,             \* the press of the key step under way has raised
    down,               \* the host sees a key or a modifier held
    lines,              \* the lines handled in this pass
    refused,            \* ghost: a `profile' was refused since the last configuration change
    heldUnder           \* ghost: the profile in force when the hold in progress began

configVars == <<list, active, profile, refused>>
keyVars    == <<keyDown, heldUnder>>
ledVars    == <<hold, flash, ext, ext_count>>
runVars    == <<left, firing, by, raised, down>>
firmwareVars ==
    <<configVars, keyVars, ledVars, runVars, showing, last_display, phase, lines>>

IDLE == -3
TAP == -1
CANCEL == -2
NoBinding == -3

NoColor == [of |-> "none", at |-> 0]
DARK    == [of |-> "none", at |-> 1]
ColorOf(p, binding) == [of |-> p, at |-> binding]
NoFiring == [of |-> "none", at |-> 0]

AtMost(x, cap) == IF x > cap THEN cap ELSE x

\* Python's indexing: a negative index counts from the end; outside both ranges it raises.
PyHas(seq, i) == i \in -Len(seq) .. Len(seq) - 1
PyAt(seq, i)  == IF i >= 0 THEN seq[i + 1] ELSE seq[Len(seq) + i + 1]

\* Profile.binding: 0 is the tap, any other number indexes the slots.
BindingIndexes(p) == -(ProfileOf[p].nslots) + 1 .. ProfileOf[p].nslots
Binding(p, i) == IF i < 0 THEN ProfileOf[p].nslots + i ELSE i

BindingOf(state) ==
    CASE state = TAP              -> 0
      [] state \in {CANCEL, IDLE} -> NoBinding
      [] OTHER                    -> state + 1

\* The states a hold can be in when the clock is read again.  A tap window is longer than zero;
\* past it, a dwell of zero is divided by.
Later(p, s) ==
    LET n == ProfileOf[p].nslots
    IN  CASE ProfileOf[p].dwell_ms = 0           -> {TAP}
          [] ProfileOf[p].overflow = "clamp"     -> {s} \cup (IF s = TAP THEN 0 ELSE s) .. n - 1
          [] ProfileOf[p].overflow = "wrap"      -> {s} \cup 0 .. n - 1
          [] OTHER                               -> {s} \cup 0 .. n - 1 \cup {CANCEL}

color_for(state) ==
    CASE state = IDLE   -> NoColor
      [] state = CANCEL -> DARK
      [] OTHER          -> ColorOf(profile, BindingOf(state))

\* The board comes up with any configuration that decodes.
FirmwareInit ==
    /\ list \in Lists /\ active \in 0 .. Len(ListOf[list]) - 1
    /\ profile = ListOf[list][active + 1]
    /\ showing = IDLE /\ keyDown = FALSE /\ last_display = IDLE
    /\ hold = NoColor /\ flash = NoColor
    /\ ext_count = AtMost(ProfileOf[profile].ext_count, MAX_EXT) /\ ext = ext_count
    /\ phase = "key"
    /\ left = <<>> /\ firing = NoFiring /\ by = "key" /\ raised = FALSE /\ down = FALSE
    /\ lines = 0
    /\ refused = FALSE /\ heldUnder = profile

-----------------------------------------------------------------------------
(* Running a binding.                                                      *)

Return(who) == IF who = "key" THEN "show" ELSE "lines"

\* A deliberately wrong variant: nothing catches what a binding the key fires raises.
MutCaught(who) == phase' = IF who = "key" THEN "dead" ELSE Return(who)

\* The handlers of main() and of handle_line: what a binding raises ends it, not the loop.
Caught(who) == phase' = Return(who)

\* Device.fire up to the first step.  An index that does not exist raises: from the key that is
\* an `EV error', from `test' an ERR.
Fire(pi, bi, who) ==
    /\ IF PyHas(ListOf[list], pi) /\ bi \in BindingIndexes(PyAt(ListOf[list], pi))
       THEN LET p == PyAt(ListOf[list], pi)
            IN  /\ phase' = "running"
                /\ firing' = ColorOf(p, Binding(p, bi))
                /\ left' = ProfileOf[p].steps[Binding(p, bi)]
                /\ by' = who
       ELSE /\ Caught(who)
            /\ UNCHANGED <<firing, left, by>>
    /\ UNCHANGED <<raised, down>>

runEnv == <<configVars, keyVars, ledVars, firing, by, showing, last_display, lines>>

NextStep == left' = Tail(left) /\ phase' = phase

\* A step that raises ends the binding.
GiveUp == left' = <<>> /\ Caught(by)

\* A deliberately wrong variant: a press that raises is not followed by the release.
MutPressKeys(ok) ==
    /\ phase = "running" /\ left # <<>> /\ Head(left) = "key" /\ ~down
    /\ down' = TRUE
    /\ raised' = FALSE
    /\ IF ok THEN UNCHANGED <<left, phase>> ELSE GiveUp
    /\ UNCHANGED runEnv

\* run_step of a key step: the press may raise with some of the keys held already ...
PressKeys(ok) ==
    /\ phase = "running" /\ left # <<>> /\ Head(left) = "key" /\ ~down
    /\ down' = TRUE
    /\ raised' = ~ok
    /\ UNCHANGED <<left, phase>>
    /\ UNCHANGED runEnv

\* ... and they are released either way.
ReleaseAll ==
    /\ phase = "running" /\ left # <<>> /\ Head(left) = "key" /\ down
    /\ down' = FALSE
    /\ IF raised THEN GiveUp ELSE NextStep
    /\ UNCHANGED <<runEnv, raised>>

\* Text and consumer steps press and release within the library, or raise before they press.
OtherStep(ok) ==
    /\ phase = "running" /\ left # <<>> /\ Head(left) # "key"
    /\ ~ok => Head(left) # "delay"
    /\ IF ok THEN NextStep ELSE GiveUp
    /\ UNCHANGED <<runEnv, down, raised>>

\* Every step has run: the colour of the binding flashes.
FinishBinding ==
    /\ phase = "running" /\ left = <<>>
    /\ flash' = firing
    /\ phase' = Return(by)
    /\ UNCHANGED <<configVars, keyVars, runVars, hold, ext, ext_count, showing, last_display, lines>>

-----------------------------------------------------------------------------
(* A pass: the key, the display, the lines, the LEDs.                      *)

NoEdge ==
    /\ showing' \in IF showing = IDLE THEN {IDLE} ELSE Later(profile, showing)
    /\ phase' = "show"
    /\ UNCHANGED <<keyVars, runVars>>

PressEdge ==
    /\ ~keyDown
    /\ keyDown' = TRUE
    /\ showing' = TAP
    /\ heldUnder' = profile
    /\ phase' = "show"
    /\ UNCHANGED runVars

\* The gesture picks the binding, the live configuration the profile it is taken from.
ReleaseEdge ==
    /\ keyDown
    /\ keyDown' = FALSE
    /\ showing' = IDLE
    /\ \E s \in IF showing = IDLE THEN {IDLE} ELSE Later(profile, showing) :
          IF BindingOf(s) = NoBinding
          THEN phase' = "show" /\ UNCHANGED runVars
          ELSE Fire(active, BindingOf(s), "key")
    /\ UNCHANGED heldUnder

\* Code before any handler: what it raises leaves main() for good.
Die(cause) ==
    /\ phase' = cause
    /\ UNCHANGED <<configVars, keyVars, ledVars, runVars, showing, last_display, lines>>

DivideByZero ==
    /\ phase = "key" /\ showing # IDLE /\ ProfileOf[profile].dwell_ms = 0
    /\ Die("dead")

StartPass ==
    /\ phase = "key"
    /\ NoEdge \/ PressEdge \/ ReleaseEdge
    /\ lines' = 0
    /\ UNCHANGED <<configVars, ledVars, last_display>>

\* A deliberately wrong variant: only a slot sets the held colour, the end of a hold does not.
MutShow ==
    /\ phase = "show"
    /\ IF showing # last_display
       THEN last_display' = showing /\ hold' = IF showing = IDLE THEN hold ELSE color_for(showing)
       ELSE UNCHANGED <<last_display, hold>>
    /\ phase' = "lines"
    /\ UNCHANGED <<configVars, keyVars, runVars, flash, ext, ext_count, showing, lines>>

\* The LEDs are told only when the state is not the one they were told last.
Show ==
    /\ phase = "show"
    /\ IF showing # last_display
       THEN last_display' = showing /\ hold' = color_for(showing)
       ELSE UNCHANGED <<last_display, hold>>
    /\ phase' = "lines"
    /\ UNCHANGED <<configVars, keyVars, runVars, flash, ext, ext_count, showing, lines>>

\* read_lines decodes outside any handler: bytes that are not UTF-8 raise.
NotText == phase = "lines" /\ lines = 0 /\ Die("garbled")

\* A deliberately wrong variant: the old object is kept until the new one is there.
MutSetExtCount(n) ==
    IF n = ext_count THEN UNCHANGED <<ext, ext_count>>
    ELSE \/ ext' = n /\ ext_count' = n
         \/ n > 0 /\ UNCHANGED <<ext, ext_count>>

\* Device._set_ext_count: the old object goes before the new one is made, which may raise.
SetExtCount(n) ==
    IF n = ext_count THEN UNCHANGED <<ext, ext_count>>
    ELSE \/ ext' = n /\ ext_count' = n
         \/ n > 0 /\ ext' = 0 /\ UNCHANGED ext_count

\* A deliberately wrong variant: the hold in progress goes on under the new profile.
MutApplyProfile(p) ==
    /\ profile' = p
    /\ hold' = NoColor /\ flash' = NoColor
    /\ UNCHANGED showing
    /\ SetExtCount(AtMost(ProfileOf[p].ext_count, MAX_EXT))

\* Device._apply_profile.
ApplyProfile(p) ==
    /\ profile' = p
    /\ hold' = NoColor /\ flash' = NoColor
    /\ showing' = IDLE
    /\ SetExtCount(AtMost(ProfileOf[p].ext_count, MAX_EXT))

Line ==
    /\ phase = "lines" /\ lines < LINE_LIMIT
    /\ lines' = lines + 1

\* A deliberately wrong variant: no bound is looked at.
MutCmdProfile(n) ==
    /\ Line
    /\ active' = n
    /\ IF PyHas(ListOf[list], n) /\ n >= 0 /\ list \notin TooLarge
       THEN ApplyProfile(ListOf[list][n + 1]) /\ refused' = FALSE
       ELSE UNCHANGED <<profile, hold, flash, showing, ext, ext_count>> /\ refused' = TRUE
    /\ UNCHANGED <<list, keyVars, runVars, last_display, phase>>

\* `profile n', when only the upper bound has been looked at: encoding a negative index, or a
\* list that is too large, raises with the live configuration already changed.
CmdProfile(n) ==
    /\ Line
    /\ n < Len(ListOf[list])
    /\ active' = n
    /\ IF n >= 0 /\ list \notin TooLarge
       THEN ApplyProfile(ListOf[list][n + 1]) /\ refused' = FALSE
       ELSE UNCHANGED <<profile, hold, flash, showing, ext, ext_count>> /\ refused' = TRUE
    /\ UNCHANGED <<list, keyVars, runVars, last_display, phase>>

\* An upload that decodes and fits, or `defaults'.
CmdReplace(l, n) ==
    /\ Line
    /\ list' = l /\ active' = n
    /\ ApplyProfile(ListOf[l][n + 1])
    /\ refused' = FALSE
    /\ UNCHANGED <<keyVars, runVars, last_display, phase>>

\* `test pi bi': upper bounds only, then the same fire as the key's.
CmdTest(pi, bi) ==
    /\ Line
    /\ pi < Len(ListOf[list])
    /\ PyHas(ListOf[list], pi) => bi <= ProfileOf[PyAt(ListOf[list], pi)].nslots
    /\ Fire(pi, bi, "test")
    /\ UNCHANGED <<configVars, keyVars, ledVars, showing, last_display>>

LinesDone ==
    /\ phase = "lines"
    /\ phase' = "frame"
    /\ UNCHANGED <<configVars, keyVars, ledVars, runVars, showing, last_display, lines>>

\* Less than FRAME_MS since the last frame.
NoFrame ==
    /\ phase = "frame"
    /\ phase' = "key"
    /\ UNCHANGED <<configVars, keyVars, ledVars, runVars, showing, last_display, lines>>

\* LedEngine.render: the flash while it lasts, else the held colour, else the idle animation.
Render(expired) ==
    /\ phase = "frame"
    /\ expired => flash # NoColor
    /\ flash' = IF expired THEN NoColor ELSE flash
    /\ phase' = "key"
    /\ UNCHANGED <<configVars, keyVars, runVars, hold, ext, ext_count, showing, last_display, lines>>

LoopStep ==
    \/ DivideByZero
    \/ StartPass
    \/ \E ok \in BOOLEAN : PressKeys(ok) \/ OtherStep(ok)
    \/ ReleaseAll
    \/ FinishBinding
    \/ Show
    \/ LinesDone
    \/ NoFrame
    \/ \E expired \in BOOLEAN : Render(expired)

Command ==
    \/ \E n \in ProfileArgs : CmdProfile(n)
    \/ \E l \in Lists : \E n \in 0 .. Len(ListOf[l]) - 1 : CmdReplace(l, n)
    \/ \E pi \in ProfileArgs, bi \in BindingArgs : CmdTest(pi, bi)
    \/ NotText

FirmwareNext == LoopStep \/ Command

FirmwareSpec == FirmwareInit /\ [][FirmwareNext]_firmwareVars

\* The loop keeps running; nobody has to send anything.
FirmwareFairSpec == FirmwareSpec /\ WF_firmwareVars(LoopStep)

-----------------------------------------------------------------------------
(* Properties.                                                             *)

Colors == [of : Profiles, at : Nat] \cup {NoColor, DARK}

FirmwareTypeOK ==
    /\ list \in Lists /\ active \in Int /\ active < Len(ListOf[list])
    /\ {profile, heldUnder} \subseteq Profiles
    /\ {showing, last_display} \subseteq {IDLE, TAP, CANCEL} \cup Nat
    /\ hold \in Colors /\ flash \in Colors /\ firing \in Colors
    /\ {ext, ext_count} \subseteq 0 .. MAX_EXT
    /\ phase \in {"key", "running", "show", "lines", "frame", "dead", "garbled"}
    /\ left \in Seq(StepKinds) /\ by \in {"key", "test"}
    /\ {keyDown, raised, down, refused} \subseteq BOOLEAN
    /\ lines \in 0 .. LINE_LIMIT

\* When a frame is due, the held colour is the one of the state the gesture is in, in the profile
\* it is in, and there is none without a hold: whatever profiles were switched in this pass and
\* the ones before, and although the LEDs are told a state only when it changes.
LedsFollowGesture == phase = "frame" => hold = color_for(showing)

\* A release fires a binding of the profile the key was pressed under, and of a state that hold
\* could have turned on to, unless a `profile' command was refused on the way: a hold that sees
\* the profile change fires nothing.
FiresColourShown ==
    [][StartPass /\ keyDown /\ phase' = "running" /\ ~refused =>
         \E s \in Later(heldUnder, showing) : firing' = ColorOf(heldUnder, BindingOf(s))]_firmwareVars

\* However a binding ends, its steps failing or not, the host sees no key held once it is over.
NoKeyStuck == phase # "running" => ~down

\* The chain object is as long as the profile in force wants it, or there is none: also when a
\* rebuild has failed and other profiles came after it.
ChainFits == ext \in {0, AtMost(ProfileOf[profile].ext_count, MAX_EXT)}

\* No binding keeps the loop from coming back to the port, not even one whose every step raises,
\* or that does not exist: as long as no profile in force has a dwell of zero and no client sends
\* bytes that are no text, which nothing catches.
LoopComesRound ==
    [](ProfileOf[profile].dwell_ms # 0) /\ [](phase # "garbled") => []<>(phase = "lines")

\* What colortap.py:4-5 says: the colour showing when the key is let go is the binding that fires.
ColourShownFires ==
    [][StartPass /\ keyDown /\ phase' = "running" => firing'.of = profile]_firmwareVars

\* What docs/format.md:134-141 says: a decoder does not trust a dwell below 100 ms, so no
\* configuration that decodes can end the main loop.
ConfigurationsAreSafe ==
    [][phase # "lines" => phase' # "dead"]_firmwareVars
=============================================================================
