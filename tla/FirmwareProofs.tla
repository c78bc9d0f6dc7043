--------------------------- MODULE FirmwareProofs ---------------------------
(***************************************************************************)
(* Theorems about one pass of the main loop, for every set of profiles and *)
(* configurations, every number a client may send and any number of lines  *)
(* in a pass.                                                              *)
(***************************************************************************)
EXTENDS Firmware, SequenceTheorems, TLAPS

USE FirmwareAssumption

-----------------------------------------------------------------------------
(* What the operators return.                                              *)

\* A hold turns on to a state of the gesture, never to idle.
LEMMA LaterIsState ==
    ASSUME NEW p \in Profiles, NEW s \in {TAP, CANCEL} \cup Nat
    PROVE  Later(p, s) \subseteq {TAP, CANCEL} \cup Nat
BY DEF Later, Profiles, TAP, CANCEL

\* Only the dark slot and idle stand for no binding; tap is 0 and a slot the number after its own.
LEMMA BindingIsNatural ==
    ASSUME NEW s \in {IDLE, TAP, CANCEL} \cup Nat, BindingOf(s) # NoBinding
    PROVE  BindingOf(s) \in Nat /\ s \in {TAP} \cup Nat
BY DEF BindingOf, NoBinding, IDLE, TAP, CANCEL

LEMMA ColorIsColor ==
    ASSUME profile \in Profiles, NEW s \in {IDLE, TAP, CANCEL} \cup Nat
    PROVE  color_for(s) \in Colors
BY DEF color_for, Colors, BindingOf, ColorOf, NoColor, DARK, NoBinding, IDLE, TAP, CANCEL

LEMMA AtMostIsBounded ==
    ASSUME NEW p \in Profiles
    PROVE  AtMost(ProfileOf[p].ext_count, MAX_EXT) \in 0 .. MAX_EXT
BY DEF AtMost, Profiles

\* An index Python takes names one of the profiles of the list.
LEMMA PyAtIsProfile ==
    ASSUME NEW l \in Lists, NEW i \in Int, PyHas(ListOf[l], i)
    PROVE  PyAt(ListOf[l], i) \in Profiles
<1>1. ListOf[l] \in Seq(Profiles)  BY DEF Lists, Profiles
<1> QED  BY <1>1 DEF PyHas, PyAt

\* Firing runs the steps of a binding that exists, or does nothing.
LEMMA FireIsTyped ==
    ASSUME FirmwareTypeOK, NEW pi \in Int, NEW bi \in Int, NEW who \in {"key", "test"},
           Fire(pi, bi, who)
    PROVE  /\ phase' \in {"running", "show", "lines"}
           /\ firing' \in Colors /\ left' \in Seq(StepKinds) /\ by' \in {"key", "test"}
           /\ phase' = "running" => by' = who
           /\ phase' # "running" => phase' = Return(who)
<1> DEFINE p == PyAt(ListOf[list], pi)
           exists == PyHas(ListOf[list], pi) /\ bi \in BindingIndexes(p)
<1>1. CASE exists
  <2>1. p \in Profiles  BY <1>1, PyAtIsProfile DEF FirmwareTypeOK
  <2>2. bi \in -(ProfileOf[p].nslots) + 1 .. ProfileOf[p].nslots
    BY <1>1 DEF BindingIndexes
  <2>3. Binding(p, bi) \in 0 .. ProfileOf[p].nslots
    BY <2>1, <2>2 DEF Binding, Profiles
  <2>4. ProfileOf[p].steps[Binding(p, bi)] \in Seq(StepKinds)
    <3>1. ProfileOf[p].steps \in [0 .. ProfileOf[p].nslots -> Seq(StepKinds)]
      BY <2>1 DEF Profiles
    <3> QED  BY <3>1, <2>3
  <2>5. Binding(p, bi) \in Nat  BY <2>1, <2>3 DEF Profiles
  <2>6. ColorOf(p, Binding(p, bi)) \in Colors  BY <2>1, <2>5 DEF ColorOf, Colors
  <2>7. /\ phase' = "running" /\ by' = who
        /\ firing' = ColorOf(p, Binding(p, bi)) /\ left' = ProfileOf[p].steps[Binding(p, bi)]
    BY <1>1 DEF Fire
  <2> QED  BY <2>4, <2>6, <2>7
<1>2. CASE ~exists
  <2>1. phase' = Return(who) /\ UNCHANGED <<firing, left, by>>  BY <1>2 DEF Fire, Caught
  <2> QED  BY <2>1 DEF Return, FirmwareTypeOK
<1> QED  BY <1>1, <1>2

LEMMA ExtIsTyped ==
    ASSUME FirmwareTypeOK, NEW p \in Profiles,
           SetExtCount(AtMost(ProfileOf[p].ext_count, MAX_EXT))
    PROVE  {ext', ext_count'} \subseteq 0 .. MAX_EXT
BY AtMostIsBounded DEF SetExtCount, FirmwareTypeOK

-----------------------------------------------------------------------------
(* The types.                                                              *)

LEMMA InitIsTyped == FirmwareInit => FirmwareTypeOK
<1> SUFFICES ASSUME FirmwareInit PROVE FirmwareTypeOK
  OBVIOUS
<1>1. ListOf[list] \in Seq(Profiles) /\ profile \in Profiles
  BY DEF FirmwareInit, Lists, Profiles
<1>2. {ext, ext_count} \subseteq 0 .. MAX_EXT
  BY <1>1, AtMostIsBounded DEF FirmwareInit
<1>3. left \in Seq(StepKinds)
  BY DEF FirmwareInit
<1>4. NoColor \in Colors /\ NoFiring \in Colors
  BY DEF Colors, NoColor, NoFiring
<1>5. list \in Lists /\ active \in Int /\ active < Len(ListOf[list])
  BY <1>1 DEF FirmwareInit
<1>6. /\ phase \in {"key", "running", "show", "lines", "frame", "dead", "garbled"} /\ by \in {"key", "test"}
      /\ lines \in 0 .. LINE_LIMIT
  BY DEF FirmwareInit
<1>8. {keyDown, raised, down, refused} \subseteq BOOLEAN
  BY Zenon DEF FirmwareInit
<1>7. /\ showing \in {IDLE, TAP, CANCEL} \cup Nat /\ last_display \in {IDLE, TAP, CANCEL} \cup Nat
      /\ hold \in Colors /\ flash \in Colors /\ firing \in Colors /\ heldUnder \in Profiles
  BY <1>1, <1>4 DEF FirmwareInit
<1> QED
  BY <1>1, <1>2, <1>3, <1>5, <1>6, <1>7, <1>8 DEF FirmwareTypeOK

LEMMA KeyEdgeIsTyped == FirmwareTypeOK /\ StartPass => FirmwareTypeOK'
<1> SUFFICES ASSUME FirmwareTypeOK, StartPass PROVE FirmwareTypeOK'
  OBVIOUS
<1> DEFINE states == IF showing = IDLE THEN {IDLE} ELSE Later(profile, showing)
<1>1. profile \in Profiles /\ states \subseteq {IDLE, TAP, CANCEL} \cup Nat
  BY LaterIsState DEF FirmwareTypeOK
<1>2. CASE NoEdge
  <2>1. showing' \in {IDLE, TAP, CANCEL} \cup Nat
    BY <1>1, <1>2 DEF NoEdge
  <2> QED
    BY <1>2, <2>1 DEF NoEdge, StartPass, FirmwareTypeOK, configVars, keyVars, ledVars, runVars
<1>3. CASE PressEdge
  BY <1>1, <1>3 DEF PressEdge, StartPass, FirmwareTypeOK, configVars, ledVars, runVars
<1>4. CASE ReleaseEdge
  <2>1. PICK s \in states :
           IF BindingOf(s) = NoBinding
           THEN phase' = "show" /\ UNCHANGED runVars
           ELSE Fire(active, BindingOf(s), "key")
    BY <1>4 DEF ReleaseEdge
  <2>2. /\ phase' \in {"running", "show", "lines"} /\ {raised', down'} \subseteq BOOLEAN
        /\ firing' \in Colors /\ left' \in Seq(StepKinds) /\ by' \in {"key", "test"}
    <3>1. CASE BindingOf(s) = NoBinding
      BY <2>1, <3>1 DEF runVars, FirmwareTypeOK
    <3>2. CASE BindingOf(s) # NoBinding
      <4>1. BindingOf(s) \in Int /\ active \in Int
        BY <1>1, <3>2, BindingIsNatural DEF FirmwareTypeOK
      <4>2. Fire(active, BindingOf(s), "key")
        BY <2>1, <3>2
      <4>3. UNCHANGED <<raised, down>>
        BY <4>2 DEF Fire
      <4> QED
        BY <4>1, <4>2, <4>3, FireIsTyped DEF FirmwareTypeOK
    <3> QED
      BY <3>1, <3>2
  <2>3. keyDown' = FALSE /\ showing' = IDLE /\ UNCHANGED heldUnder
    BY <1>4 DEF ReleaseEdge
  <2>4. lines' = 0 /\ UNCHANGED <<configVars, ledVars, last_display>>
    BY DEF StartPass
  <2>5. {keyDown', raised', down', refused'} \subseteq BOOLEAN
    BY <2>2, <2>3, <2>4, Zenon DEF FirmwareTypeOK, configVars
  <2>6. {profile', heldUnder'} \subseteq Profiles /\ {ext', ext_count'} \subseteq 0 .. MAX_EXT
    BY <2>3, <2>4 DEF FirmwareTypeOK, configVars, ledVars
  <2>7. /\ list' \in Lists /\ active' \in Int /\ active' < Len(ListOf[list'])
        /\ lines' \in 0 .. LINE_LIMIT /\ hold' \in Colors /\ flash' \in Colors
    BY <2>4 DEF FirmwareTypeOK, configVars, ledVars
  <2>8. {showing', last_display'} \subseteq {IDLE, TAP, CANCEL} \cup Nat
    BY <2>3, <2>4 DEF FirmwareTypeOK
  <2> QED
    BY <2>2, <2>5, <2>6, <2>7, <2>8 DEF FirmwareTypeOK
<1> QED
  BY <1>2, <1>3, <1>4 DEF StartPass

LEMMA ApplyIsTyped ==
    ASSUME FirmwareTypeOK, NEW p \in Profiles, ApplyProfile(p)
    PROVE  /\ profile' = p /\ showing' = IDLE
           /\ hold' = NoColor /\ flash' = NoColor /\ NoColor \in Colors
           /\ {ext', ext_count'} \subseteq 0 .. MAX_EXT
BY ExtIsTyped DEF ApplyProfile, Colors

LEMMA CmdProfileIsTyped ==
    ASSUME FirmwareTypeOK, NEW n \in ProfileArgs, CmdProfile(n)
    PROVE  FirmwareTypeOK'
<1>1. /\ n \in Int /\ n < Len(ListOf[list]) /\ active' = n
      /\ ListOf[list] \in Seq(Profiles)
      /\ UNCHANGED <<list, keyVars, runVars, last_display, phase>>
  BY DEF CmdProfile, FirmwareTypeOK, Lists, Profiles
<1>2. lines' \in 0 .. LINE_LIMIT
  BY DEF CmdProfile, Line, FirmwareTypeOK
<1>3. CASE n >= 0 /\ list \notin TooLarge
  <2>1. ListOf[list][n + 1] \in Profiles
    BY <1>1, <1>3
  <2>2. ApplyProfile(ListOf[list][n + 1]) /\ refused' = FALSE
    BY <1>3 DEF CmdProfile
  <2> QED
    BY <1>1, <1>2, <2>1, <2>2, ApplyIsTyped DEF FirmwareTypeOK, keyVars, runVars
<1>4. CASE ~(n >= 0 /\ list \notin TooLarge)
  <2>1. UNCHANGED <<profile, hold, flash, showing, ext, ext_count>> /\ refused' = TRUE
    BY <1>4 DEF CmdProfile
  <2> QED
    BY <1>1, <1>2, <2>1 DEF FirmwareTypeOK, keyVars, runVars
<1> QED
  BY <1>3, <1>4

LEMMA CmdReplaceIsTyped ==
    ASSUME FirmwareTypeOK, NEW l \in Lists, NEW n \in 0 .. Len(ListOf[l]) - 1, CmdReplace(l, n)
    PROVE  FirmwareTypeOK'
<1>1. ListOf[l] \in Seq(Profiles)
  BY DEF Lists, Profiles
<1>2. ListOf[l][n + 1] \in Profiles /\ n \in Int /\ n < Len(ListOf[l])
  BY <1>1
<1>3. lines' \in 0 .. LINE_LIMIT
  BY DEF CmdReplace, Line, FirmwareTypeOK
<1>4. /\ list' = l /\ active' = n /\ ApplyProfile(ListOf[l][n + 1]) /\ refused' = FALSE
      /\ UNCHANGED <<keyVars, runVars, last_display, phase>>
  BY DEF CmdReplace
<1> QED
  BY <1>2, <1>3, <1>4, ApplyIsTyped DEF FirmwareTypeOK, keyVars, runVars

LEMMA CmdTestIsTyped ==
    ASSUME FirmwareTypeOK, NEW pi \in ProfileArgs, NEW bi \in BindingArgs, CmdTest(pi, bi)
    PROVE  FirmwareTypeOK'
<1>1. Fire(pi, bi, "test") /\ pi \in Int /\ bi \in Int
  BY DEF CmdTest
<1>2. /\ phase' \in {"running", "show", "lines"} /\ UNCHANGED <<raised, down>>
      /\ firing' \in Colors /\ left' \in Seq(StepKinds) /\ by' \in {"key", "test"}
  BY <1>1, FireIsTyped DEF Fire
<1>3. lines' \in 0 .. LINE_LIMIT
  BY DEF CmdTest, Line, FirmwareTypeOK
<1> QED
  BY <1>2, <1>3 DEF CmdTest, FirmwareTypeOK, configVars, keyVars, ledVars

LEMMA StepIsTyped == FirmwareTypeOK /\ [FirmwareNext]_firmwareVars => FirmwareTypeOK'
<1> SUFFICES ASSUME FirmwareTypeOK, [FirmwareNext]_firmwareVars PROVE FirmwareTypeOK'
  OBVIOUS
<1> USE DEF configVars, keyVars, ledVars, runVars
<1>1. CASE DivideByZero \/ NotText
  BY <1>1 DEF DivideByZero, NotText, Die, FirmwareTypeOK
<1>2. CASE StartPass
  BY <1>2, KeyEdgeIsTyped
<1>3. ASSUME NEW ok \in BOOLEAN, PressKeys(ok) PROVE FirmwareTypeOK'
  BY <1>3 DEF PressKeys, runEnv, FirmwareTypeOK
<1>4. ASSUME left # <<>>, NextStep \/ GiveUp, phase = "running"
      PROVE  left' \in Seq(StepKinds) /\ phase' \in {"running", "show", "lines"}
  <2>1. left \in Seq(StepKinds)
    BY DEF FirmwareTypeOK
  <2>2. CASE NextStep
    BY <1>4, <2>1, <2>2, HeadTailProperties DEF NextStep
  <2>3. CASE GiveUp
    BY <2>3, EmptySeq DEF GiveUp, Caught, Return
  <2> QED
    BY <1>4, <2>2, <2>3
<1>5. ASSUME NEW ok \in BOOLEAN, OtherStep(ok) PROVE FirmwareTypeOK'
  <2>1. left' \in Seq(StepKinds) /\ phase' \in {"running", "show", "lines"}
    BY <1>4, <1>5 DEF OtherStep
  <2> QED
    BY <1>5, <2>1 DEF OtherStep, runEnv, FirmwareTypeOK
<1>6. CASE ReleaseAll
  <2>1. phase = "running" /\ left # <<>> /\ (NextStep \/ GiveUp)
    BY <1>6 DEF ReleaseAll
  <2>2. left' \in Seq(StepKinds) /\ phase' \in {"running", "show", "lines"}
    BY <1>4, <2>1
  <2> QED
    BY <1>6, <2>2 DEF ReleaseAll, runEnv, FirmwareTypeOK
<1>7. CASE FinishBinding
  BY <1>7 DEF FinishBinding, Return, FirmwareTypeOK
<1>8. CASE Show
  <2>1. color_for(showing) \in Colors
    BY ColorIsColor DEF FirmwareTypeOK
  <2> QED
    BY <1>8, <2>1 DEF Show, FirmwareTypeOK
<1>9. CASE LinesDone \/ NoFrame
  BY <1>9 DEF LinesDone, NoFrame, FirmwareTypeOK
<1>10. ASSUME NEW expired \in BOOLEAN, Render(expired) PROVE FirmwareTypeOK'
  BY <1>10 DEF Render, FirmwareTypeOK, Colors
<1>11. CASE Command
  BY <1>1, <1>11, CmdProfileIsTyped, CmdReplaceIsTyped, CmdTestIsTyped DEF Command
<1>12. CASE UNCHANGED firmwareVars
  BY <1>12 DEF firmwareVars, FirmwareTypeOK
<1> QED
  BY <1>1, <1>2, <1>3, <1>5, <1>6, <1>7, <1>8, <1>9, <1>10, <1>11, <1>12
     DEF FirmwareNext, LoopStep

\* Every variable keeps its type: whatever is sent, the profile in force is one that exists and
\* active is an index Python can be handed, if not one it takes (code.py:91-95).
THEOREM FirmwareTypeCorrect == FirmwareSpec => []FirmwareTypeOK
  BY InitIsTyped, StepIsTyped, PTL DEF FirmwareSpec

-----------------------------------------------------------------------------
(* No key stays pressed.                                                   *)

\* While the host sees a key held, the key step that pressed it is still the next one.
HeldKeyIsNext == down => phase = "running" /\ left # <<>> /\ Head(left) = "key"

LEMMA FireReleasesNothing ==
    ASSUME HeldKeyIsNext, phase # "running", NEW pi, NEW bi, NEW who, Fire(pi, bi, who)
    PROVE  ~down'
BY DEF HeldKeyIsNext, Fire

LEMMA StepKeepsHeldKey ==
    FirmwareTypeOK /\ HeldKeyIsNext /\ [FirmwareNext]_firmwareVars => HeldKeyIsNext'
<1> SUFFICES ASSUME FirmwareTypeOK, HeldKeyIsNext, [FirmwareNext]_firmwareVars PROVE HeldKeyIsNext'
  OBVIOUS
<1> USE DEF HeldKeyIsNext, configVars, keyVars, ledVars, runVars
<1>1. CASE DivideByZero \/ NotText
  BY <1>1 DEF DivideByZero, NotText, Die
<1>2. CASE StartPass
  <2>1. ~down
    BY <1>2 DEF StartPass
  <2>2. ~down'
    <3>1. CASE NoEdge \/ PressEdge
      BY <2>1, <3>1 DEF NoEdge, PressEdge
    <3>2. CASE ReleaseEdge
      BY <1>2, <2>1, <3>2, FireReleasesNothing DEF StartPass, ReleaseEdge
    <3> QED
      BY <1>2, <3>1, <3>2 DEF StartPass
  <2> QED
    BY <2>2
<1>3. ASSUME NEW ok \in BOOLEAN, PressKeys(ok) PROVE HeldKeyIsNext'
  BY <1>3 DEF PressKeys
<1>4. ASSUME NEW ok \in BOOLEAN, OtherStep(ok) PROVE HeldKeyIsNext'
  BY <1>4 DEF OtherStep
<1>5. CASE ReleaseAll
  BY <1>5 DEF ReleaseAll
<1>6. CASE FinishBinding
  BY <1>6 DEF FinishBinding
<1>7. CASE Show \/ LinesDone \/ NoFrame
  BY <1>7 DEF Show, LinesDone, NoFrame
<1>8. ASSUME NEW expired \in BOOLEAN, Render(expired) PROVE HeldKeyIsNext'
  BY <1>8 DEF Render
<1>9. ASSUME NEW n, CmdProfile(n) PROVE HeldKeyIsNext'
  BY <1>9 DEF CmdProfile, Line
<1>10. ASSUME NEW l, NEW n, CmdReplace(l, n) PROVE HeldKeyIsNext'
  BY <1>10 DEF CmdReplace, Line
<1>11. ASSUME NEW pi, NEW bi, CmdTest(pi, bi) PROVE HeldKeyIsNext'
  BY <1>11, FireReleasesNothing DEF CmdTest, Line
<1>12. CASE UNCHANGED firmwareVars
  BY <1>12 DEF firmwareVars
<1> QED
  BY <1>1, <1>2, <1>3, <1>4, <1>5, <1>6, <1>7, <1>8, <1>9, <1>10, <1>11, <1>12
     DEF FirmwareNext, LoopStep, Command

\* However a binding ends, no key or modifier stays pressed on the host (actions.py:37-46).
THEOREM NoKeyStaysPressed == FirmwareSpec => []NoKeyStuck
<1>1. FirmwareInit => HeldKeyIsNext
  BY DEF FirmwareInit, HeldKeyIsNext
<1>2. HeldKeyIsNext => NoKeyStuck
  BY DEF HeldKeyIsNext, NoKeyStuck
<1> QED
  BY <1>1, <1>2, FirmwareTypeCorrect, StepKeepsHeldKey, PTL DEF FirmwareSpec

-----------------------------------------------------------------------------
(* The chain.                                                              *)

\* The count _set_ext_count remembers may be that of a chain it failed to build.
ChainRemembered == ext \in {0, ext_count}

ChainInv == ChainFits /\ ChainRemembered

LEMMA ApplyFitsChain ==
    ASSUME ChainRemembered, NEW p, ApplyProfile(p)
    PROVE  ChainInv'
<1> DEFINE n == AtMost(ProfileOf[p].ext_count, MAX_EXT)
<1>1. profile' = p /\ SetExtCount(n)
  BY DEF ApplyProfile
<1>2. ext' \in {0, n} /\ ext' \in {0, ext_count'}
  BY <1>1 DEF SetExtCount, ChainRemembered
<1>3. AtMost(ProfileOf[profile].ext_count, MAX_EXT)' = n
  BY <1>1 DEF AtMost
<1> QED
  BY <1>2, <1>3 DEF ChainInv, ChainFits, ChainRemembered

LEMMA StepFitsChain == ChainInv /\ [FirmwareNext]_firmwareVars => ChainInv'
<1> SUFFICES ASSUME ChainInv, [FirmwareNext]_firmwareVars PROVE ChainInv'
  OBVIOUS
<1> USE DEF configVars, keyVars, ledVars, runVars
<1>1. ASSUME UNCHANGED <<profile, ext, ext_count>> PROVE ChainInv'
  BY <1>1 DEF ChainInv, ChainFits, ChainRemembered, AtMost
<1>2. CASE LoopStep \/ NotText
  <2>1. UNCHANGED <<profile, ext, ext_count>>
    BY <1>2 DEF LoopStep, NotText, DivideByZero, Die, StartPass, PressKeys, OtherStep, ReleaseAll,
                runEnv, FinishBinding, Show, LinesDone, NoFrame, Render
  <2> QED
    BY <1>1, <2>1
<1>3. ASSUME NEW n, CmdProfile(n) PROVE ChainInv'
  BY <1>1, <1>3, ApplyFitsChain DEF CmdProfile, ChainInv
<1>4. ASSUME NEW l, NEW n, CmdReplace(l, n) PROVE ChainInv'
  BY <1>4, ApplyFitsChain DEF CmdReplace, ChainInv
<1>5. ASSUME NEW pi, NEW bi, CmdTest(pi, bi) PROVE ChainInv'
  BY <1>1, <1>5 DEF CmdTest
<1>6. CASE UNCHANGED firmwareVars
  BY <1>1, <1>6 DEF firmwareVars
<1> QED
  BY <1>2, <1>3, <1>4, <1>5, <1>6 DEF FirmwareNext, Command

\* The LED chain object has the length the profile in force asks for, or there is none, also
\* after a rebuild that failed (code.py:118-129).
THEOREM ChainAlwaysFits == FirmwareSpec => []ChainFits
<1>1. FirmwareInit => ChainInv
  BY DEF FirmwareInit, ChainInv, ChainFits, ChainRemembered
<1>2. ChainInv => ChainFits
  BY DEF ChainInv
<1> QED
  BY <1>1, <1>2, StepFitsChain, PTL DEF FirmwareSpec

-----------------------------------------------------------------------------
(* The held colour.                                                        *)

\* The loop is past the display: Show has run, or is not due before the next pass.
PastDisplay == phase \in {"lines", "frame", "key"} \/ (phase = "running" /\ by = "test")

\* Only a pressed key shows something.
ShowsOnlyHolds == showing # IDLE => keyDown

\* What the LEDs were told last is left over from no earlier press ...
ToldOnlyHolds == PastDisplay /\ last_display # IDLE => keyDown

\* ... and is what shows, or the hold has been abandoned since.
ToldOrAbandoned ==
    PastDisplay => hold = color_for(showing) /\ showing \in {last_display, IDLE}

\* Before the display, a state that the LEDs will not be told again is on them already.
NeedsNoTelling ==
    showing = last_display => hold = color_for(showing)

LedInv == ShowsOnlyHolds /\ ToldOnlyHolds /\ ToldOrAbandoned /\ NeedsNoTelling

\* A step after which the same state shows, in the same profile, with the same colour.
SameDisplay == UNCHANGED <<profile, showing, keyDown, last_display, hold>>

LEMMA SameDisplayKeeps ==
    ASSUME LedInv, SameDisplay, PastDisplay' => PastDisplay
    PROVE  LedInv'
<1>1. color_for(showing)' = color_for(showing)
  BY DEF SameDisplay, color_for
<1> QED
  BY <1>1 DEF LedInv, ShowsOnlyHolds, ToldOnlyHolds, ToldOrAbandoned, NeedsNoTelling, SameDisplay

LEMMA EdgeKeepsLeds == FirmwareTypeOK /\ LedInv /\ StartPass => LedInv'
<1> SUFFICES ASSUME FirmwareTypeOK, LedInv, StartPass PROVE LedInv'
  OBVIOUS
<1>1. /\ phase = "key" /\ PastDisplay
      /\ UNCHANGED <<profile, hold, last_display>>
  BY DEF StartPass, PastDisplay, configVars, ledVars
<1>2. ~PastDisplay'
  <2>1. CASE NoEdge \/ PressEdge
    BY <2>1 DEF NoEdge, PressEdge, PastDisplay
  <2>2. CASE ReleaseEdge
    BY <1>1, <2>2 DEF ReleaseEdge, Fire, Caught, Return, PastDisplay
  <2> QED
    BY <2>1, <2>2 DEF StartPass
<1>3. ShowsOnlyHolds' /\ (showing' = last_display' => hold' = color_for(showing)')
  <2>1. CASE NoEdge
    <3>1. showing = IDLE => showing' = IDLE
      BY <2>1 DEF NoEdge
    <3>2. keyDown' = keyDown
      BY <2>1 DEF NoEdge, keyVars
    <3>3. showing' # IDLE => keyDown'
      BY <3>1, <3>2 DEF LedInv, ShowsOnlyHolds
    <3>4. showing' = last_display' => showing' = showing
      BY <1>1, <3>1 DEF LedInv, ToldOrAbandoned
    <3>5. showing' = showing => color_for(showing)' = color_for(showing)
      BY <1>1 DEF color_for
    <3> QED
      BY <1>1, <3>3, <3>4, <3>5 DEF LedInv, ShowsOnlyHolds, ToldOrAbandoned
  <2>2. CASE PressEdge
    <3>1. keyDown' = TRUE /\ ~keyDown /\ showing' = TAP
      BY <2>2 DEF PressEdge
    <3>2. last_display = IDLE
      BY <1>1, <3>1 DEF LedInv, ToldOnlyHolds
    <3> QED
      BY <1>1, <3>1, <3>2 DEF ShowsOnlyHolds, TAP, IDLE
  <2>3. CASE ReleaseEdge
    <3>1. showing' = IDLE
      BY <2>3 DEF ReleaseEdge
    <3>2. last_display = IDLE => hold = color_for(showing) /\ showing = IDLE
      BY <1>1 DEF LedInv, ToldOrAbandoned
    <3>3. showing = IDLE => color_for(showing)' = color_for(showing)
      BY <1>1, <3>1 DEF color_for
    <3> QED
      BY <1>1, <3>1, <3>2, <3>3 DEF ShowsOnlyHolds
  <2> QED
    BY <2>1, <2>2, <2>3 DEF StartPass
<1> QED
  BY <1>2, <1>3 DEF LedInv, ToldOnlyHolds, ToldOrAbandoned, NeedsNoTelling

LEMMA ApplyClearsLeds ==
    ASSUME LedInv, NEW p, ApplyProfile(p), phase = "lines", UNCHANGED <<keyDown, last_display, phase>>
    PROVE  LedInv'
<1>1. showing' = IDLE /\ hold' = NoColor
  BY DEF ApplyProfile
<1>2. color_for(showing)' = NoColor
  BY <1>1 DEF color_for, IDLE, CANCEL
<1>3. last_display' # IDLE => keyDown'
  BY DEF LedInv, ToldOnlyHolds, PastDisplay
<1> QED
  BY <1>1, <1>2, <1>3 DEF LedInv, ShowsOnlyHolds, ToldOnlyHolds, ToldOrAbandoned, NeedsNoTelling

LEMMA ShowTellsLeds == ASSUME LedInv, Show PROVE LedInv'
<1>1. /\ UNCHANGED <<profile, showing, keyDown>> /\ phase = "show"
      /\ IF showing # last_display
         THEN last_display' = showing /\ hold' = color_for(showing)
         ELSE UNCHANGED <<last_display, hold>>
  BY DEF Show, configVars, keyVars
<1>2. color_for(showing)' = color_for(showing)
  BY <1>1 DEF color_for
<1>3. last_display' = showing /\ hold' = color_for(showing)
  BY <1>1 DEF LedInv, NeedsNoTelling
<1> QED
  BY <1>1, <1>2, <1>3 DEF LedInv, ShowsOnlyHolds, ToldOnlyHolds, ToldOrAbandoned, NeedsNoTelling

LEMMA StepKeepsLeds == FirmwareTypeOK /\ LedInv /\ [FirmwareNext]_firmwareVars => LedInv'
<1> SUFFICES ASSUME FirmwareTypeOK, LedInv, [FirmwareNext]_firmwareVars PROVE LedInv'
  OBVIOUS
<1> USE DEF configVars, keyVars, ledVars, runVars
<1>1. CASE DivideByZero \/ NotText
  <2>1. SameDisplay /\ phase \in {"key", "lines"}
    BY <1>1 DEF DivideByZero, NotText, Die, SameDisplay
  <2> QED
    BY <2>1, SameDisplayKeeps DEF PastDisplay
<1>2. CASE StartPass
  BY <1>2, EdgeKeepsLeds
<1>3. ASSUME NEW ok \in BOOLEAN, PressKeys(ok) \/ OtherStep(ok) PROVE LedInv'
  <2>1. /\ SameDisplay /\ phase = "running" /\ by' = by
        /\ phase' \in {"running", Return(by)}
    BY <1>3 DEF PressKeys, OtherStep, runEnv, NextStep, GiveUp, Caught, SameDisplay
  <2>2. PastDisplay' => PastDisplay
    BY <2>1 DEF PastDisplay, Return, FirmwareTypeOK
  <2> QED
    BY <2>1, <2>2, SameDisplayKeeps
<1>4. CASE ReleaseAll \/ FinishBinding
  <2>1. /\ SameDisplay /\ phase = "running" /\ by' = by
        /\ phase' \in {"running", Return(by)}
    BY <1>4 DEF ReleaseAll, FinishBinding, runEnv, NextStep, GiveUp, Caught, SameDisplay
  <2>2. PastDisplay' => PastDisplay
    BY <2>1 DEF PastDisplay, Return, FirmwareTypeOK
  <2> QED
    BY <2>1, <2>2, SameDisplayKeeps
<1>5. CASE Show
  BY <1>5, ShowTellsLeds
<1>6. CASE LinesDone \/ NoFrame \/ \E expired \in BOOLEAN : Render(expired)
  <2>1. SameDisplay /\ phase \in {"lines", "frame"}
    BY <1>6 DEF LinesDone, NoFrame, Render, SameDisplay
  <2> QED
    BY <2>1, SameDisplayKeeps DEF PastDisplay
<1>7. ASSUME NEW n, CmdProfile(n) PROVE LedInv'
  <2>1. phase = "lines" /\ UNCHANGED <<keyDown, last_display, phase>>
    BY <1>7 DEF CmdProfile, Line
  <2>2. CASE \E p : ApplyProfile(p)
    BY <2>1, <2>2, ApplyClearsLeds
  <2>3. CASE UNCHANGED <<profile, hold, showing>>
    BY <2>1, <2>3, SameDisplayKeeps DEF SameDisplay, PastDisplay
  <2> QED
    BY <1>7, <2>2, <2>3 DEF CmdProfile
<1>8. ASSUME NEW l, NEW n, CmdReplace(l, n) PROVE LedInv'
  BY <1>8, ApplyClearsLeds DEF CmdReplace, Line
<1>9. ASSUME NEW pi, NEW bi, CmdTest(pi, bi) PROVE LedInv'
  <2>1. SameDisplay /\ phase = "lines"
    BY <1>9 DEF CmdTest, Line, SameDisplay
  <2> QED
    BY <2>1, SameDisplayKeeps DEF PastDisplay
<1>10. CASE UNCHANGED firmwareVars
  BY <1>10 DEF firmwareVars, LedInv, ShowsOnlyHolds, ToldOnlyHolds, ToldOrAbandoned,
               NeedsNoTelling, PastDisplay, color_for
<1> QED
  BY <1>1, <1>2, <1>3, <1>4, <1>5, <1>6, <1>7, <1>8, <1>9, <1>10
     DEF FirmwareNext, LoopStep, Command

\* When a frame is due, the held colour is that of the state the gesture is in, in the profile in
\* force (code.py:253-269): no switch of profiles leaves a colour behind.
THEOREM LedsAlwaysFollowGesture == FirmwareSpec => []LedsFollowGesture
<1>1. FirmwareInit => LedInv
  BY DEF FirmwareInit, LedInv, ShowsOnlyHolds, ToldOnlyHolds, ToldOrAbandoned, NeedsNoTelling,
         color_for, IDLE, CANCEL
<1>2. LedInv => LedsFollowGesture
  BY DEF LedInv, ToldOrAbandoned, PastDisplay, LedsFollowGesture
<1> QED
  BY <1>1, <1>2, FirmwareTypeCorrect, StepKeepsLeds, PTL DEF FirmwareSpec

-----------------------------------------------------------------------------
(* What a release fires.                                                   *)

\* Unless a `profile' was refused, the profile in force is the one the configuration names.
ActiveIsInForce == ~refused => active >= 0 /\ profile = ListOf[list][active + 1]

\* A hold that is still shown was begun under the profile in force.
HoldIsOfProfile == showing # IDLE => heldUnder = profile

FireInv == ActiveIsInForce /\ HoldIsOfProfile

LEMMA StepKeepsFireInv ==
    FirmwareTypeOK /\ FireInv /\ [FirmwareNext]_firmwareVars => FireInv'
<1> SUFFICES ASSUME FirmwareTypeOK, FireInv, [FirmwareNext]_firmwareVars PROVE FireInv'
  OBVIOUS
<1> USE DEF FireInv, ActiveIsInForce, HoldIsOfProfile, configVars, keyVars, ledVars, runVars
<1>1. ASSUME UNCHANGED <<configVars, showing, heldUnder>> PROVE FireInv'
  BY <1>1
<1>2. CASE DivideByZero \/ NotText \/ Show \/ LinesDone \/ NoFrame \/ ReleaseAll \/ FinishBinding
  BY <1>1, <1>2 DEF DivideByZero, NotText, Die, Show, LinesDone, NoFrame, ReleaseAll, runEnv,
                    FinishBinding
<1>3. ASSUME NEW b \in BOOLEAN, PressKeys(b) \/ OtherStep(b) \/ Render(b) PROVE FireInv'
  BY <1>1, <1>3 DEF PressKeys, OtherStep, runEnv, Render
<1>4. CASE StartPass
  <2>1. UNCHANGED configVars
    BY <1>4 DEF StartPass
  <2>2. HoldIsOfProfile'
    <3>1. CASE NoEdge
      BY <2>1, <3>1 DEF NoEdge
    <3>2. CASE PressEdge
      BY <2>1, <3>2 DEF PressEdge
    <3>3. CASE ReleaseEdge
      BY <3>3 DEF ReleaseEdge
    <3> QED
      BY <1>4, <3>1, <3>2, <3>3 DEF StartPass
  <2> QED
    BY <2>1, <2>2
<1>5. ASSUME NEW n \in ProfileArgs, CmdProfile(n) PROVE FireInv'
  <2>1. active' = n /\ UNCHANGED <<list, keyVars>>
    BY <1>5 DEF CmdProfile
  <2>2. CASE n >= 0 /\ list \notin TooLarge
    BY <1>5, <2>1, <2>2 DEF CmdProfile, ApplyProfile
  <2>3. CASE ~(n >= 0 /\ list \notin TooLarge)
    BY <1>5, <2>1, <2>3 DEF CmdProfile
  <2> QED
    BY <2>2, <2>3
<1>6. ASSUME NEW l \in Lists, NEW n \in 0 .. Len(ListOf[l]) - 1, CmdReplace(l, n) PROVE FireInv'
  BY <1>6 DEF CmdReplace, ApplyProfile
<1>7. ASSUME NEW pi, NEW bi, CmdTest(pi, bi) PROVE FireInv'
  BY <1>1, <1>7 DEF CmdTest
<1>8. CASE UNCHANGED firmwareVars
  BY <1>1, <1>8 DEF firmwareVars
<1> QED
  BY <1>2, <1>3, <1>4, <1>5, <1>6, <1>7, <1>8 DEF FirmwareNext, LoopStep, Command

\* The action FiresColourShown is about.
FiresShown ==
    StartPass /\ keyDown /\ phase' = "running" /\ ~refused =>
        \E s \in Later(heldUnder, showing) : firing' = ColorOf(heldUnder, BindingOf(s))

LEMMA ReleaseFiresShown == FirmwareTypeOK /\ FireInv => FiresShown
<1> SUFFICES ASSUME FirmwareTypeOK, FireInv,
                    StartPass, keyDown, phase' = "running", ~refused
             PROVE  \E s \in Later(heldUnder, showing) : firing' = ColorOf(heldUnder, BindingOf(s))
  BY DEF FiresShown
<1>1. ReleaseEdge
  BY DEF StartPass, NoEdge, PressEdge
<1>2. PICK s \in IF showing = IDLE THEN {IDLE} ELSE Later(profile, showing) :
         BindingOf(s) # NoBinding /\ Fire(active, BindingOf(s), "key")
  BY <1>1 DEF ReleaseEdge
<1>3. showing # IDLE
  BY <1>2 DEF BindingOf, NoBinding, IDLE, TAP, CANCEL
<1>4. s \in Later(profile, showing) /\ profile = heldUnder /\ profile \in Profiles
  BY <1>2, <1>3 DEF FireInv, HoldIsOfProfile, FirmwareTypeOK
<1>5. s \in {IDLE, TAP, CANCEL} \cup Nat
  BY <1>3, <1>4, LaterIsState DEF FirmwareTypeOK
<1>6. BindingOf(s) \in Nat
  BY <1>2, <1>5, BindingIsNatural
<1>7. active >= 0 /\ profile = ListOf[list][active + 1]
  BY DEF FireInv, ActiveIsInForce
<1>8. PyAt(ListOf[list], active) = profile
  BY <1>7 DEF PyAt
<1>9. Binding(profile, BindingOf(s)) = BindingOf(s)
  BY <1>6 DEF Binding
<1>10. firing' = ColorOf(profile, BindingOf(s))
  BY <1>2, <1>8, <1>9 DEF Fire, Caught, Return
<1> QED
  BY <1>4, <1>10

\* A release fires a binding of the profile the key was pressed under, of a state that hold can
\* have turned on to, unless a `profile' has been refused (code.py:239-247): switching profiles in
\* the middle of a hold never makes it fire one of the other profile.
THEOREM ReleasesFireColourShown == FirmwareSpec => FiresColourShown
<1>1. FirmwareInit => FireInv
  BY DEF FirmwareInit, FireInv, ActiveIsInForce, HoldIsOfProfile
<1>2. FirmwareTypeOK /\ FireInv /\ [FirmwareNext]_firmwareVars => [FiresShown]_firmwareVars
  BY ReleaseFiresShown
<1>3. [][FiresShown]_firmwareVars => FiresColourShown
  BY PTL DEF FiresColourShown, FiresShown
<1> QED
  BY <1>1, <1>2, <1>3, FirmwareTypeCorrect, StepKeepsFireInv, PTL DEF FirmwareSpec

=============================================================================
