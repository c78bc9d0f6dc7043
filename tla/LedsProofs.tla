---------------------------- MODULE LedsProofs ----------------------------
(***************************************************************************)
(* Proofs about Leds.tla, for every set of profiles and colours, every     *)
(* period of the clock and every timing the assumptions allow.             *)
(***************************************************************************)
EXTENDS Leds, TLAPS

-----------------------------------------------------------------------------
(* The circle of tick values (Ticks.tla), for every period, and counting. *)

\* The period is twice the half period.
LEMMA HalfOfPeriod == HalfPeriod \in Nat \ {0} /\ TICKS_PERIOD = HalfPeriod + HalfPeriod
  BY TicksAssumption DEF HalfPeriod

\* Adding to a tick value stays on the circle, and goes around it at most once for less than
\* a period.
LEMMA AddOnCircle ==
    ASSUME NEW t \in TickValue, NEW e \in 0 .. TICKS_PERIOD
    PROVE  /\ ticks_add(t, e) \in TickValue
           /\ ticks_add(t, e) = IF t + e < TICKS_PERIOD THEN t + e ELSE t + e - TICKS_PERIOD
  BY TicksAssumption DEF ticks_add, TickValue

\* Quotient and remainder are what division says.
LEMMA DivMod ==
    ASSUME NEW x \in Nat, NEW d \in Nat \ {0}
    PROVE  /\ x \div d \in Nat /\ x % d \in 0 .. d - 1
           /\ x = d * (x \div d) + (x % d)
  OBVIOUS

\* And only they are.
LEMMA DivUnique ==
    ASSUME NEW q \in Nat, NEW d \in Nat \ {0}, NEW r \in 0 .. d - 1
    PROVE  (d * q + r) \div d = q /\ (d * q + r) % d = r
  OBVIOUS

\* The remainder of a sum can be taken on the way.
LEMMA RemainderOfSum ==
    ASSUME NEW x \in Nat, NEW e \in Nat, NEW d \in Nat \ {0}
    PROVE  ((x % d) + e) % d = (x + e) % d
  <1>1. PICK q \in Nat, r \in 0 .. d - 1 : r = x % d /\ x = d * q + r
    BY DivMod
  <1>2. r + e \in Nat
    OBVIOUS
  <1>3. PICK p \in Nat, u \in 0 .. d - 1 : u = (r + e) % d /\ r + e = d * p + u
    BY <1>2, DivMod
  <1>4. q + p \in Nat
    OBVIOUS
  <1>5. x + e = d * (q + p) + u
    <2>1. d * q \in Nat /\ d * p \in Nat
      OBVIOUS
    <2>2. x + e = d * q + d * p + u
      BY <1>1, <1>3, <2>1
    <2>3. d * (q + p) = d * q + d * p
      OBVIOUS
    <2> QED
      BY <2>2, <2>3
  <1>6. (x + e) % d = u
    <2>1. PICK n \in Nat : n = q + p
      BY <1>4
    <2>2. (d * n + u) % d = u
      BY DivUnique
    <2>3. x + e = d * n + u
      BY <1>5, <2>1
    <2> QED
      BY <2>2, <2>3
  <1> QED
    BY <1>1, <1>3, <1>6

-----------------------------------------------------------------------------
(* Colours *)

\* A number up to k times the divisor has a quotient up to k.
LEMMA BoundedQuotient ==
    ASSUME NEW x \in Nat, NEW d \in Nat \ {0}, NEW k \in Nat, x <= d * k
    PROVE  x \div d \in 0 .. k
  <1>1. PICK q \in Nat, r \in 0 .. d - 1 : q = x \div d /\ x = d * q + r
    BY DivMod
  <1>2. ASSUME q >= k + 1 PROVE FALSE
    <2>1. d * q >= d * (k + 1) /\ d * (k + 1) = d * k + d
      BY <1>1, <1>2
    <2> QED
      BY <1>1, <2>1
  <1> QED
    BY <1>1, <1>2

\* A byte scaled by a byte is a byte.
LEMMA ByteProduct ==
    ASSUME NEW x \in Byte, NEW y \in Byte
    PROVE  (x * y) \div 255 \in Byte
  <1>1. x * y \in Nat /\ x * y <= 255 * y
    BY DEF Byte
  <1>2. PICK p \in Nat : p = x * y
    BY <1>1
  <1>3. p <= 255 * 255
    BY <1>1, <1>2 DEF Byte
  <1>4. p \div 255 \in 0 .. 255
    BY <1>3
  <1> QED
    BY <1>2, <1>4 DEF Byte

LEMMA ScaledColor ==
    ASSUME NEW rgb \in Color, NEW brightness \in Byte, NEW extra \in Byte
    PROVE  scale_with(rgb, brightness, extra) \in Color
  <1>1. rgb[1] \in Byte /\ rgb[2] \in Byte /\ rgb[3] \in Byte
    BY DEF Color
  <1>2. \A c \in Byte : scale_byte(c, brightness, extra) \in Byte
    BY ByteProduct DEF scale_byte
  <1> QED
    BY <1>1, <1>2 DEF scale_with, Color

LEMMA WheelColor ==
    ASSUME NEW pos \in 0 .. 255
    PROVE  wheel(pos) \in Color
  BY DEF wheel, Color, Byte

LEMMA BreatheByte ==
    ASSUME NEW t \in Nat
    PROVE  breathe(t) \in Byte
  <1>1. PICK half \in Nat \ {0} :
            half = BREATHE_PERIOD_MS \div 2 /\ BREATHE_PERIOD_MS = 2 * half
    BY LedsAssumption
  <1>2. PICK at \in 0 .. 2 * half - 1 : at = t % BREATHE_PERIOD_MS
    BY <1>1
  <1>3. PICK tri \in 0 .. half : tri = IF at < half THEN at ELSE BREATHE_PERIOD_MS - at
    BY <1>1, <1>2
  <1>4. (217 * tri) \div half \in 0 .. 217
    <2>1. 217 * tri \in Nat /\ 217 * tri <= half * 217
      BY <1>3
    <2> QED
      BY <2>1, BoundedQuotient
  <1>5. breathe(t) = 38 + (217 * tri) \div half
    BY <1>1, <1>2, <1>3 DEF breathe, BREATHE_FLOOR
  <1> QED
    BY <1>4, <1>5 DEF Byte

\* Where the fade begins, and that it takes the envelope down within a byte.
LEMMA FadeRange == FadeFrom \in 0 .. BOOT_SWEEP_MS - 1
  BY LedsAssumption DEF FadeFrom, BOOT_FADE_FROM

LEMMA EnvelopeByte ==
    ASSUME NEW at \in 0 .. BOOT_SWEEP_MS - 1
    PROVE  Envelope(at) \in Byte
  <1>1. CASE at < FadeFrom
    BY <1>1 DEF Envelope, Byte
  <1>2. CASE ~(at < FadeFrom)
    <2>1. PICK gone \in Nat, room \in Nat \ {0} :
              gone = at - FadeFrom /\ room = BOOT_SWEEP_MS - FadeFrom /\ gone < room
      <3>1. FadeFrom \in Nat /\ BOOT_SWEEP_MS \in Nat /\ FadeFrom < BOOT_SWEEP_MS
        BY FadeRange, LedsAssumption
      <3>2. at - FadeFrom \in Nat /\ BOOT_SWEEP_MS - FadeFrom \in Nat \ {0}
        BY <1>2, <3>1
      <3> QED
        BY <3>1, <3>2
    <2>2. 255 * gone \in Nat /\ 255 * gone <= room * 255
      BY <2>1
    <2>3. (255 * gone) \div room \in 0 .. 255
      <3>1. PICK n \in Nat : n = 255 * gone
        BY <2>2
      <3>2. n <= room * 255
        BY <2>2, <3>1
      <3>3. room \in Nat \ {0} /\ 255 \in Nat
        OBVIOUS
      <3>4. n \div room \in 0 .. 255
        BY <3>1, <3>2, <3>3, BoundedQuotient, Zenon
      <3> QED
        BY <3>1, <3>4
    <2>4. PICK q \in 0 .. 255 : q = (255 * gone) \div room
      BY <2>3
    <2>5. Envelope(at) = 255 - q
      BY <1>2, <2>1, <2>4 DEF Envelope
    <2> QED
      BY <2>4, <2>5 DEF Byte
  <1> QED
    BY <1>1, <1>2

LEMMA CountRange == \A p \in Profiles : ext_count(p) \in 0 .. MAX_EXT
  BY LedsAssumption DEF ext_count, Byte

-----------------------------------------------------------------------------
(* Types *)

PixelsOK ==
    /\ onboard \in Color
    /\ ext \in [1 .. MAX_EXT -> Color]
    /\ chain \in [1 .. ext_count(profile) -> Color]

LEMMA FillPaints ==
    ASSUME LedsTypeOK, NEW rgb \in Color, Fill(rgb), profile' = profile
    PROVE  PixelsOK'
  <1>1. ext_count(profile) \in 0 .. MAX_EXT
    BY CountRange DEF LedsTypeOK
  <1>2. ext' \in [1 .. MAX_EXT -> Color]
    BY DEF Fill, PushTo, Overlay, LedsTypeOK
  <1>3. chain' = [i \in 1 .. ext_count(profile) |-> ext'[i]]
    BY DEF Fill, PushTo, Pushed
  <1>4. MAX_EXT \in Nat
    BY LedsAssumption
  <1>5. chain' \in [1 .. ext_count(profile) -> Color]
    BY <1>1, <1>2, <1>3, <1>4
  <1>6. onboard' = rgb
    BY DEF Fill, PushTo
  <1> QED
    BY <1>2, <1>5, <1>6 DEF PixelsOK

\* What PaintWheel paints: colours, and along the chain the wheel in equal spokes.
LEMMA WheelPaints ==
    ASSUME LedsTypeOK, profile' = profile,
           NEW step \in Nat, NEW brightness \in Byte, NEW envelope \in Byte,
           PaintWheel(step, brightness, envelope)
    PROVE  /\ PixelsOK'
           /\ onboard' = scale_with(wheel(step % 256), brightness, envelope)
           /\ \A i \in 1 .. ext_count(profile) :
                chain'[i] = scale_with(wheel((step + (i - 1) * (256 \div ext_count(profile))) % 256),
                                       brightness, envelope)
  <1> DEFINE count == ext_count(profile)
             Spoke(i) == scale_with(wheel((step + i * (256 \div count)) % 256), brightness, envelope)
  <1>1. count \in 0 .. MAX_EXT /\ MAX_EXT \in Nat
    BY CountRange, LedsAssumption DEF LedsTypeOK
  <1>2. ASSUME NEW i \in 1 .. count PROVE Spoke(i - 1) \in Color
    <2>1. 256 \div count \in Nat
      BY <1>1
    <2>2. (i - 1) * (256 \div count) \in Nat
      BY <1>1, <2>1
    <2>3. (step + (i - 1) * (256 \div count)) % 256 \in 0 .. 255
      BY <2>2
    <2> QED
      BY <2>3, WheelColor, ScaledColor
  <1>3. onboard' = scale_with(wheel(step % 256), brightness, envelope)
    BY DEF PaintWheel, PushTo
  <1>4. step % 256 \in 0 .. 255
    OBVIOUS
  <1>5. onboard' \in Color
    BY <1>3, <1>4, WheelColor, ScaledColor
  <1>6. ext' = [i \in 1 .. MAX_EXT |-> IF i <= count THEN Spoke(i - 1) ELSE ext[i]]
    BY DEF PaintWheel, PushTo, Overlay
  <1>7. chain' = [i \in 1 .. count |-> ext'[i]]
    BY DEF PaintWheel, PushTo, Pushed
  <1>8. ext \in [1 .. MAX_EXT -> Color]
    BY DEF LedsTypeOK
  <1> HIDE DEF count, Spoke
  <1>9. ext' \in [1 .. MAX_EXT -> Color]
    <2>1. ASSUME NEW i \in 1 .. MAX_EXT
          PROVE  (IF i <= count THEN Spoke(i - 1) ELSE ext[i]) \in Color
      <3>1. CASE i <= count
        <4>1. i \in 1 .. count
          BY <1>1, <3>1
        <4> QED
          BY <1>2, <3>1, <4>1
      <3>2. CASE ~(i <= count)
        BY <1>8, <3>2
      <3> QED
        BY <3>1, <3>2
    <2> QED
      BY <1>6, <2>1
  <1>10. \A i \in 1 .. count : ext'[i] = Spoke(i - 1)
    BY <1>1, <1>6
  <1>11. chain' \in [1 .. count -> Color]
    BY <1>1, <1>7, <1>9
  <1>12. \A i \in 1 .. count : chain'[i] = Spoke(i - 1)
    BY <1>7, <1>10
  <1> QED
    BY <1>3, <1>5, <1>9, <1>11, <1>12 DEF PixelsOK, count, Spoke

LEMMA AddIsTick == \A t \in TickValue, d \in Nat : ticks_add(t, d) \in TickValue
  BY TicksAssumption DEF ticks_add, TickValue

LEMMA ColorsAre == Colors \subseteq Color /\ Dark \in Color
  BY LedsAssumption DEF Dark, Color, Byte

LEMMA LedsInitType == LedsInit => LedsTypeOK
  <1> SUFFICES ASSUME LedsInit PROVE LedsTypeOK
    OBVIOUS
  <1>1. 0 \in 0 .. BOOT_SWEEP_MS - 1 /\ PASS_LIMIT \in Nat
    BY LedsAssumption
  <1> QED
    BY <1>1, ColorsAre DEF LedsInit, LedsTypeOK

LEMMA BootFrameType == LedsTypeOK /\ BootFrame => LedsTypeOK'
  <1> SUFFICES ASSUME LedsTypeOK, BootFrame PROVE LedsTypeOK'
    OBVIOUS
  <1>1. elapsed(clock, start) \in 0 .. BOOT_SWEEP_MS - 1
    <2>1. ticks_diff(clock, start) \in Int
      BY TicksAssumption, HalfOfPeriod DEF LedsTypeOK, TickValue, ticks_diff
    <2>2. elapsed(clock, start) \in Nat
      BY <2>1 DEF elapsed
    <2> QED
      BY <2>2, LedsAssumption DEF BootFrame
  <1>2. swept' \in 0 .. BOOT_SWEEP_MS - 1
    BY <1>1 DEF BootFrame
  <1>3. (256 * swept') \div BOOT_SWEEP_MS \in Nat
    <2>1. PICK s \in Nat : s = swept'
      BY <1>2, LedsAssumption
    <2>2. (256 * s) \div BOOT_SWEEP_MS \in Nat
      BY LedsAssumption
    <2> QED
      BY <2>1, <2>2
  <1>4. profile \in Profiles /\ profile.brightness \in Byte
    BY LedsAssumption DEF LedsTypeOK
  <1>5. SweepBrightness(profile) \in Byte
    BY <1>4 DEF SweepBrightness, BOOT_MIN_BRIGHTNESS, Byte
  <1>6. Envelope(swept') \in Byte
    BY <1>2, EnvelopeByte
  <1>7. profile' = profile
    BY DEF BootFrame, engine
  <1>8. PaintWheel((256 * swept') \div BOOT_SWEEP_MS, SweepBrightness(profile), Envelope(swept'))
    BY DEF BootFrame
  <1>9. PixelsOK'
    <2>1. PICK step \in Nat, b \in Byte, e \in Byte : PaintWheel(step, b, e)
      BY <1>3, <1>5, <1>6, <1>8
    <2> QED
      BY <1>7, <2>1, WheelPaints
  <1> QED
    BY <1>2, <1>9 DEF PixelsOK, LedsTypeOK, BootFrame, engine, time

LEMMA RunType ==
    ASSUME LedsTypeOK, NEW d \in Nat, Run(d)
    PROVE  clock' \in TickValue /\ lag' \in Nat /\ frame_age' \in Nat
  BY AddIsTick DEF Run, LedsTypeOK

LEMMA FireType ==
    ASSUME LedsTypeOK, Fire, phase' \in {"show", "lines"}
    PROVE  LedsTypeOK'
  <1>1. PICK d \in 0 .. BLOCK_LIMIT : Run(d)
    BY DEF Fire
  <1>2. d \in Nat
    BY LedsAssumption
  <1>3. clock' \in TickValue /\ lag' \in Nat /\ frame_age' \in Nat
    BY <1>1, <1>2, RunType
  <1>4. PICK color \in Colors : flash' = [color |-> color, until |-> clock' + FIRE_FLASH_MS]
    BY DEF Fire, Flash
  <1>5. clock' + FIRE_FLASH_MS \in Nat
    <2>1. PICK c \in Nat : c = clock'
      BY <1>3, TicksAssumption DEF TickValue
    <2>2. FIRE_FLASH_MS \in Nat
      BY LedsAssumption
    <2>3. c + FIRE_FLASH_MS \in Nat
      BY <2>2
    <2> QED
      BY <2>1, <2>3
  <1>6. flash' \in [color : Colors, until : Nat]
    BY <1>4, <1>5
  <1>7. spare' \in Nat /\ age' = 0 /\ seen' = FALSE
    BY LedsAssumption DEF Fire
  <1>8. /\ profile' = profile /\ hold' = hold /\ onboard' = onboard /\ ext' = ext
        /\ chain' = chain /\ start' = start /\ swept' = swept
        /\ now' = now /\ last_frame' = last_frame
    BY DEF Fire, pixels, sweep
  <1>9. age' \in Nat /\ seen' \in BOOLEAN
    BY <1>7
  <1> QED
    BY <1>3, <1>6, <1>7, <1>8, <1>9 DEF LedsTypeOK

LEMMA FrameType == LedsTypeOK /\ Frame => LedsTypeOK'
  <1> SUFFICES ASSUME LedsTypeOK, Frame PROVE LedsTypeOK'
    OBVIOUS
  <1>1. /\ profile' = profile /\ profile \in Profiles
        /\ profile.brightness \in Byte /\ profile.idle_color \in Color /\ 255 \in Byte
    BY LedsAssumption DEF Frame, LedsTypeOK, Byte
  <1>2. \A rgb \in Color : scale(rgb) \in Color
    BY <1>1, ScaledColor DEF scale
  <1>3. flash' \in [color : Colors, until : Nat] \cup {NoFlash} /\ seen' \in BOOLEAN /\ age' \in Nat
    <2>1. \/ flash' = flash /\ age' = age /\ seen' = TRUE
          \/ flash' = NoFlash /\ age' = 0 /\ seen' = FALSE
      BY DEF Frame
    <2>2. flash \in [color : Colors, until : Nat] \cup {NoFlash} /\ age \in Nat
      BY DEF LedsTypeOK
    <2>3. NoFlash \in [color : Colors, until : Nat] \cup {NoFlash} /\ 0 \in Nat
      OBVIOUS
    <2>4. TRUE \in BOOLEAN /\ FALSE \in BOOLEAN
      OBVIOUS
    <2> QED
      BY <2>1, <2>2, <2>3, <2>4, Zenon
  <1>4. PixelsOK'
    <2>1. CASE flash # NoFlash /\ Fill(scale(flash.color))
      <3>1. flash.color \in Colors
        BY <2>1 DEF LedsTypeOK
      <3>2. scale(flash.color) \in Color
        BY <1>2, <3>1, ColorsAre
      <3> QED
        BY <1>1, <2>1, <3>2, FillPaints
    <2>2. CASE hold # NoColor /\ Fill(scale(hold))
      <3>1. scale(hold) \in Color
        BY <1>2, <2>2, ColorsAre DEF LedsTypeOK
      <3> QED
        BY <1>1, <2>2, <3>1, FillPaints
    <2>3. CASE RenderIdle
      <3>1. now \in Nat /\ now \div RAINBOW_MS_PER_STEP \in Nat
        BY LedsAssumption, TicksAssumption DEF LedsTypeOK, TickValue
      <3>2. breathe(now) \in Byte
        BY <3>1, BreatheByte
      <3>3. scale_with(profile.idle_color, profile.brightness, breathe(now)) \in Color
        BY <1>1, <3>2, ScaledColor
      <3>4. \/ Fill(Dark)
            \/ Fill(scale(profile.idle_color))
            \/ Fill(scale_with(profile.idle_color, profile.brightness, breathe(now)))
            \/ PaintWheel(now \div RAINBOW_MS_PER_STEP, profile.brightness, 255)
        BY <2>3 DEF RenderIdle
      <3>5. CASE Fill(Dark)
        BY <1>1, <3>5, ColorsAre, FillPaints
      <3>6. CASE Fill(scale(profile.idle_color))
        BY <1>1, <1>2, <3>6, FillPaints
      <3>7. CASE Fill(scale_with(profile.idle_color, profile.brightness, breathe(now)))
        BY <1>1, <3>3, <3>7, FillPaints
      <3>8. CASE PaintWheel(now \div RAINBOW_MS_PER_STEP, profile.brightness, 255)
        BY <1>1, <3>1, <3>8, WheelPaints
      <3> QED
        BY <3>4, <3>5, <3>6, <3>7, <3>8
    <2> QED
      BY <2>1, <2>2, <2>3 DEF Frame
  <1>5. /\ last_frame' = now /\ frame_age' = lag /\ phase' = "top"
        /\ clock' = clock /\ lag' = lag /\ spare' = spare /\ now' = now
        /\ start' = start /\ swept' = swept /\ hold' = hold
    BY DEF Frame, sweep
  <1> QED
    BY <1>1, <1>3, <1>4, <1>5 DEF PixelsOK, LedsTypeOK

LEMMA LedsNextType == LedsTypeOK /\ [LedsNext]_vars => LedsTypeOK'
  <1> SUFFICES ASSUME LedsTypeOK, [LedsNext]_vars PROVE LedsTypeOK'
    OBVIOUS
  <1>1. CASE BootFrame
    BY <1>1, BootFrameType
  <1>2. CASE Sleep
    <2>1. PICK late \in 0 .. PASS_LIMIT : clock' = ticks_add(clock, FRAME_MS + late)
      BY <1>2 DEF Sleep
    <2>2. FRAME_MS + late \in Nat
      BY LedsAssumption
    <2>3. clock' \in TickValue
      BY <2>1, <2>2, AddIsTick DEF LedsTypeOK
    <2> QED
      BY <1>2, <2>3 DEF Sleep, LedsTypeOK, sweep, engine, pixels
  <1>3. CASE EndSweep
    <2>1. 0 \in TickValue /\ 0 \in 0 .. BOOT_SWEEP_MS - 1
      BY TicksAssumption, LedsAssumption DEF TickValue
    <2> QED
      BY <1>3, <2>1 DEF EndSweep, LedsTypeOK, engine, pixels
  <1>4. CASE Elapse
    <2>1. clock' \in TickValue /\ lag' \in Nat /\ frame_age' \in Nat
      BY <1>4, RunType DEF Elapse
    <2>2. spare' \in Nat /\ age' \in Nat
      BY <1>4 DEF Elapse, LedsTypeOK
    <2> QED
      BY <1>4, <2>1, <2>2 DEF Elapse, LedsTypeOK, engine, pixels, sweep
  <1>5. CASE StartPass
    BY <1>5, LedsAssumption DEF StartPass, LedsTypeOK, engine, pixels, sweep
  <1>6. CASE KeyFires \/ TestFires
    BY <1>6, FireType DEF KeyFires, TestFires
  <1>7. CASE NoKey \/ LinesDone \/ NoFrame
    BY <1>7 DEF NoKey, LinesDone, NoFrame, LedsTypeOK, engine, pixels, sweep, time
  <1>8. CASE Show
    BY <1>8 DEF Show, LedsTypeOK, pixels, sweep, time
  <1>9. CASE SetProfile
    <2>1. ext_count(profile') \in 0 .. MAX_EXT
      BY <1>9, CountRange DEF SetProfile
    <2>2. chain' \in [1 .. ext_count(profile') -> Color]
      <3>1. CASE ext_count(profile') = ext_count(profile)
        BY <1>9, <3>1 DEF SetProfile, LedsTypeOK
      <3>2. CASE ext_count(profile') # ext_count(profile)
        BY <1>9, <3>2, ColorsAre DEF SetProfile
      <3> QED
        BY <3>1, <3>2
    <2> QED
      BY <1>9, <2>2 DEF SetProfile, LedsTypeOK, sweep
  <1>10. CASE Frame
    BY <1>10, FrameType
  <1>11. CASE UNCHANGED vars
    BY <1>11 DEF vars, LedsTypeOK, engine, pixels, sweep, time
  <1> QED
    BY <1>1, <1>2, <1>3, <1>4, <1>5, <1>6, <1>7, <1>8, <1>9, <1>10, <1>11 DEF LedsNext

\* No pixel is ever given anything but three bytes, in any profile, at any moment.
THEOREM LedsTypeCorrect == LedsSpec => []LedsTypeOK
  BY LedsInitType, LedsNextType, PTL DEF LedsSpec

-----------------------------------------------------------------------------
(* The sweep *)

\* Unfaded and bright enough, colours that differ by six in a component stay different.
LEMMA ScaleApart ==
    ASSUME NEW c \in Byte, NEW d \in Byte, c >= d + 6, NEW b \in 48 .. 255
    PROVE  scale_byte(c, b, 255) > scale_byte(d, b, 255)
  <1>1. PICK x \in Nat, y \in Nat : x = c * b /\ y = d * b
    BY DEF Byte
  <1>2. x >= y + 288
    <2>1. c * b >= (d + 6) * b /\ (d + 6) * b = d * b + 6 * b
      BY DEF Byte
    <2> QED
      BY <1>1, <2>1 DEF Byte
  <1>3. x \div 255 > y \div 255
    BY <1>2
  <1>4. \A n \in Nat : (n * 255) \div 255 = n
    OBVIOUS
  <1>5. x \div 255 \in Nat /\ y \div 255 \in Nat
    OBVIOUS
  <1>6. ((x \div 255) * 255) \div 255 = x \div 255 /\ ((y \div 255) * 255) \div 255 = y \div 255
    BY <1>4, <1>5
  <1> QED
    BY <1>1, <1>3, <1>6 DEF scale_byte

\* Everywhere on the wheel a component is at least six, and four steps away one differs by six.
LEMMA WheelLit ==
    ASSUME NEW pos \in 0 .. 255
    PROVE  wheel(pos)[1] >= 6 \/ wheel(pos)[2] >= 6 \/ wheel(pos)[3] >= 6
  BY DEF wheel

Apart(v, w) == \E k \in 1 .. 3 : v[k] >= w[k] + 6 \/ w[k] >= v[k] + 6

LEMMA WheelApart ==
    ASSUME NEW p \in 0 .. 255, NEW q \in 0 .. 255, q - p \in 4 .. 252
    PROVE  Apart(wheel(p), wheel(q))
  <1>1. CASE p < 85 /\ q < 85
    BY <1>1 DEF wheel, Apart
  <1>2. CASE p < 85 /\ q >= 85 /\ q < 170
    BY <1>2 DEF wheel, Apart
  <1>3. CASE p < 85 /\ q >= 170
    BY <1>3 DEF wheel, Apart
  <1>4. CASE p >= 85 /\ p < 170 /\ q < 170
    BY <1>4 DEF wheel, Apart
  <1>5. CASE p >= 85 /\ p < 170 /\ q >= 170
    BY <1>5 DEF wheel, Apart
  <1>6. CASE p >= 170
    BY <1>6 DEF wheel, Apart
  <1> QED
    BY <1>1, <1>2, <1>3, <1>4, <1>5, <1>6

\* What is apart on the wheel looks different on the pixels.
LEMMA LooksDifferent ==
    ASSUME NEW v \in Color, NEW w \in Color, Apart(v, w), NEW b \in 48 .. 255
    PROVE  scale_with(v, b, 255) # scale_with(w, b, 255)
  <1>1. \A k \in 1 .. 3 : v[k] \in Byte /\ w[k] \in Byte
    BY DEF Color
  <1>2. PICK k \in 1 .. 3 : v[k] >= w[k] + 6 \/ w[k] >= v[k] + 6
    BY DEF Apart
  <1>3. scale_byte(v[k], b, 255) # scale_byte(w[k], b, 255)
    <2>1. \A n \in Byte : scale_byte(n, b, 255) \in Byte
      <3>1. b \in Byte /\ 255 \in Byte
        BY DEF Byte
      <3> QED
        BY <3>1, ByteProduct DEF scale_byte
    <2>0. scale_byte(v[k], b, 255) \in Int /\ scale_byte(w[k], b, 255) \in Int
      <3>1. scale_byte(v[k], b, 255) \in Byte /\ scale_byte(w[k], b, 255) \in Byte
        BY <1>1, <2>1
      <3>2. Byte \subseteq Int
        BY DEF Byte
      <3> QED
        BY <3>1, <3>2, Zenon
    <2>2. CASE v[k] >= w[k] + 6
      <3>1. scale_byte(v[k], b, 255) > scale_byte(w[k], b, 255)
        BY <1>1, <2>2, ScaleApart
      <3> QED
        BY <2>0, <3>1
    <2>3. CASE w[k] >= v[k] + 6
      <3>1. scale_byte(w[k], b, 255) > scale_byte(v[k], b, 255)
        BY <1>1, <2>3, ScaleApart
      <3> QED
        BY <2>0, <3>1
    <2> QED
      BY <1>2, <2>2, <2>3
  <1>4. /\ scale_with(v, b, 255)[1] = scale_byte(v[1], b, 255)
        /\ scale_with(v, b, 255)[2] = scale_byte(v[2], b, 255)
        /\ scale_with(v, b, 255)[3] = scale_byte(v[3], b, 255)
        /\ scale_with(w, b, 255)[1] = scale_byte(w[1], b, 255)
        /\ scale_with(w, b, 255)[2] = scale_byte(w[2], b, 255)
        /\ scale_with(w, b, 255)[3] = scale_byte(w[3], b, 255)
    BY DEF scale_with
  <1>5. k = 1 \/ k = 2 \/ k = 3
    OBVIOUS
  <1> QED
    BY <1>3, <1>4, <1>5

LEMMA LooksLit ==
    ASSUME NEW pos \in 0 .. 255, NEW b \in 48 .. 255
    PROVE  Lit(scale_with(wheel(pos), b, 255))
  <1>1. wheel(pos)[1] \in Byte /\ wheel(pos)[2] \in Byte /\ wheel(pos)[3] \in Byte
    BY WheelColor DEF Color
  <1>2. scale_byte(0, b, 255) = 0
    BY DEF scale_byte
  <1>3. \A n \in Byte : n >= 6 => scale_byte(n, b, 255) > 0
    <2> SUFFICES ASSUME NEW n \in Byte, n >= 6 PROVE scale_byte(n, b, 255) > 0
      OBVIOUS
    <2>1. 0 \in Byte /\ n >= 0 + 6
      BY DEF Byte
    <2> QED
      BY <1>2, <2>1, ScaleApart
  <1>4. /\ scale_with(wheel(pos), b, 255)[1] = scale_byte(wheel(pos)[1], b, 255)
        /\ scale_with(wheel(pos), b, 255)[2] = scale_byte(wheel(pos)[2], b, 255)
        /\ scale_with(wheel(pos), b, 255)[3] = scale_byte(wheel(pos)[3], b, 255)
    BY DEF scale_with
  <1>5. \/ scale_byte(wheel(pos)[1], b, 255) > 0
        \/ scale_byte(wheel(pos)[2], b, 255) > 0
        \/ scale_byte(wheel(pos)[3], b, 255) > 0
    BY <1>1, <1>3, WheelLit
  <1>6. 1 \in 1 .. 3 /\ 2 \in 1 .. 3 /\ 3 \in 1 .. 3
    OBVIOUS
  <1> QED
    BY <1>4, <1>5, <1>6 DEF Lit

\* Where on the wheel a pixel of the chain is.
SpokeAt(step, count, i) == (step + i * (256 \div count)) % 256

\* Two pixels of a chain of up to 64 are at least four steps of the wheel apart, both ways round.
LEMMA SpokesApart ==
    ASSUME NEW count \in 1 .. 64, NEW step \in Nat,
           NEW i \in 0 .. count - 1, NEW j \in 0 .. count - 1, i < j
    PROVE  \/ SpokeAt(step, count, j) - SpokeAt(step, count, i) \in 4 .. 252
           \/ SpokeAt(step, count, i) - SpokeAt(step, count, j) \in 4 .. 252
  <1>1. PICK s \in Nat, r \in 0 .. count - 1 : s = 256 \div count /\ 256 = count * s + r
    BY DivMod
  <1>2. s >= 4
    <2>1. ASSUME s <= 3 PROVE FALSE
      <3>1. count * s <= count * 3
        BY <1>1, <2>1
      <3> QED
        BY <1>1, <3>1
    <2> QED
      BY <1>1, <2>1
  <1>3. PICK u \in Nat, g \in Nat, w \in Nat : u = i * s /\ g = (j - i) * s /\ w = j * s
    BY <1>1
  <1>4. w = u + g
    <2>1. j * s = i * s + (j - i) * s
      BY <1>1
    <2> QED
      BY <1>3, <2>1
  <1>5. g \in 4 .. 252
    <2>1. g >= s
      <3>1. (j - i) * s >= 1 * s
        BY <1>1
      <3> QED
        BY <1>1, <1>3, <3>1
    <2>2. PICK full \in Nat : full = count * s
      BY <1>1
    <2>3. g <= full - s
      <3>1. (j - i) * s <= (count - 1) * s /\ (count - 1) * s = count * s - s
        BY <1>1
      <3>2. PICK most \in Int : most = (count - 1) * s
        BY <1>1
      <3>3. most = full - s
        BY <2>2, <3>1, <3>2
      <3>4. g <= most
        BY <1>3, <3>1, <3>2
      <3> QED
        BY <3>3, <3>4
    <2>4. full <= 256
      BY <1>1, <2>2
    <2> QED
      BY <1>1, <1>2, <2>1, <2>2, <2>3, <2>4
  <1>6. PICK a \in Nat : a = step + u
    OBVIOUS
  <1>7. \/ ((a + g) % 256) - (a % 256) \in 4 .. 252
        \/ (a % 256) - ((a + g) % 256) \in 4 .. 252
    BY <1>5
  <1>8. step + i * (256 \div count) = a /\ step + j * (256 \div count) = a + g
    <2>1. i * (256 \div count) = u /\ j * (256 \div count) = w
      BY <1>1, <1>3
    <2> QED
      BY <1>4, <1>6, <2>1
  <1> QED
    BY <1>7, <1>8 DEF SpokeAt

\* A frame of the sweep before the fade lights every pixel, each in a colour of its own.
LEMMA BootFrameLights == LedsTypeOK /\ BootFrame => EveryPixelLights'
  <1> SUFFICES ASSUME LedsTypeOK, BootFrame, swept' < FadeFrom
               PROVE  /\ Lit(onboard')
                      /\ \A i \in 1 .. ext_count(profile') : Lit(chain'[i])
                      /\ \A i, j \in 1 .. ext_count(profile') : i # j => chain'[i] # chain'[j]
    BY DEF EveryPixelLights
  <1>1. profile' = profile /\ profile \in Profiles /\ profile.brightness \in Byte
    BY LedsAssumption DEF BootFrame, engine, LedsTypeOK
  <1>2. PICK b \in 48 .. 255 : b = SweepBrightness(profile)
    BY <1>1 DEF SweepBrightness, BOOT_MIN_BRIGHTNESS, Byte
  <1>3. Envelope(swept') = 255
    BY DEF Envelope
  <1>4. PICK step \in Nat : step = (256 * swept') \div BOOT_SWEEP_MS
    <2>1. LedsTypeOK'
      BY BootFrameType
    <2>2. PICK s \in Nat : s = swept'
      BY <2>1, LedsAssumption DEF LedsTypeOK
    <2>3. (256 * s) \div BOOT_SWEEP_MS \in Nat
      BY LedsAssumption
    <2> QED
      BY <2>2, <2>3
  <1>5. PaintWheel(step, b, 255)
    BY <1>2, <1>3, <1>4 DEF BootFrame
  <1>6. PICK count \in 0 .. 64 : count = ext_count(profile)
    BY <1>1, CountRange, LedsAssumption
  <1> DEFINE at(i) == SpokeAt(step, count, i)
  <1>7. /\ onboard' = scale_with(wheel(step % 256), b, 255)
        /\ \A i \in 1 .. count : chain'[i] = scale_with(wheel(at(i - 1)), b, 255)
    <2>1. b \in Byte /\ 255 \in Byte
      BY DEF Byte
    <2> QED
      BY <1>1, <1>5, <1>6, <2>1, WheelPaints DEF SpokeAt
  <1>8. \A i \in 1 .. count : at(i - 1) \in 0 .. 255
    <2> SUFFICES ASSUME NEW i \in 1 .. count PROVE at(i - 1) \in 0 .. 255
      OBVIOUS
    <2>1. 256 \div count \in Nat /\ i - 1 \in Nat
      BY <1>6
    <2>2. PICK u \in Nat : u = (i - 1) * (256 \div count)
      BY <2>1
    <2>3. (step + u) % 256 \in 0 .. 255
      OBVIOUS
    <2> QED
      BY <2>2, <2>3 DEF SpokeAt
  <1>9. ASSUME NEW i \in 1 .. count, NEW j \in 1 .. count, i < j
        PROVE  chain'[i] # chain'[j]
    <2>1. count \in 1 .. 64 /\ i - 1 \in 0 .. count - 1 /\ j - 1 \in 0 .. count - 1 /\ i - 1 < j - 1
      BY <1>6, <1>9
    <2>2. at(j - 1) - at(i - 1) \in 4 .. 252 \/ at(i - 1) - at(j - 1) \in 4 .. 252
      BY <2>1, SpokesApart
    <2> HIDE DEF at
    <2>3. at(i - 1) \in 0 .. 255 /\ at(j - 1) \in 0 .. 255
      BY <1>8
    <2>4. Apart(wheel(at(i - 1)), wheel(at(j - 1)))
      <3>1. CASE at(j - 1) - at(i - 1) \in 4 .. 252
        BY <2>3, <3>1, WheelApart
      <3>2. CASE at(i - 1) - at(j - 1) \in 4 .. 252
        <4>1. Apart(wheel(at(j - 1)), wheel(at(i - 1)))
          BY <2>3, <3>2, WheelApart
        <4> QED
          BY <4>1 DEF Apart
      <3> QED
        BY <2>2, <3>1, <3>2
    <2>5. wheel(at(i - 1)) \in Color /\ wheel(at(j - 1)) \in Color
      BY <2>3, WheelColor
    <2>6. scale_with(wheel(at(i - 1)), b, 255) # scale_with(wheel(at(j - 1)), b, 255)
      BY <2>4, <2>5, LooksDifferent
    <2> QED
      BY <1>7, <2>6
  <1>10. Lit(onboard')
    <2>1. step % 256 \in 0 .. 255
      OBVIOUS
    <2> QED
      BY <1>7, <2>1, LooksLit
  <1>11. ASSUME NEW i \in 1 .. count PROVE Lit(chain'[i])
    <2> HIDE DEF at
    <2> QED
      BY <1>7, <1>8, LooksLit
  <1>12. ASSUME NEW i \in 1 .. count, NEW j \in 1 .. count, i # j
         PROVE  chain'[i] # chain'[j]
    <2>1. i < j \/ j < i
      BY <1>6, <1>12
    <2> QED
      BY <2>1, <1>9
  <1> QED
    BY <1>1, <1>6, <1>10, <1>11, <1>12

LEMMA LedsNextLights == LedsTypeOK /\ EveryPixelLights /\ [LedsNext]_vars => EveryPixelLights'
  <1> SUFFICES ASSUME LedsTypeOK, EveryPixelLights, [LedsNext]_vars PROVE EveryPixelLights'
    OBVIOUS
  <1>1. CASE BootFrame
    BY <1>1, BootFrameLights
  <1>2. CASE Sleep \/ EndSweep \/ StartPass \/ KeyFires \/ NoKey \/ Show \/ TestFires
             \/ LinesDone \/ NoFrame \/ Frame
    <2>1. phase' # "sleep"
      BY <1>2 DEF Sleep, EndSweep, StartPass, KeyFires, NoKey, Show, TestFires, LinesDone,
                  NoFrame, Frame
    <2> QED
      BY <2>1 DEF EveryPixelLights
  <1>3. CASE Elapse \/ SetProfile
    <2>1. phase' # "sleep"
      BY <1>3 DEF Elapse, InLoop, SetProfile
    <2> QED
      BY <2>1 DEF EveryPixelLights
  <1>4. CASE UNCHANGED vars
    <2>1. /\ phase' = phase /\ swept' = swept /\ profile' = profile
          /\ onboard' = onboard /\ chain' = chain
      BY <1>4 DEF vars, engine, pixels, sweep
    <2> QED
      BY <2>1 DEF EveryPixelLights
  <1> QED
    BY <1>1, <1>2, <1>3, <1>4 DEF LedsNext

\* Whatever the profile's brightness and the length of the chain, a frame of the sweep before its
\* fade lights every configured pixel, and no two of the chain alike.
THEOREM SweepLightsEveryPixel == LedsSpec => []EveryPixelLights
  <1>1. LedsInit => EveryPixelLights
    BY DEF LedsInit, EveryPixelLights
  <1> QED
    BY <1>1, LedsInitType, LedsNextType, LedsNextLights, PTL DEF LedsSpec

-----------------------------------------------------------------------------
(* The flash *)

\* In the loop, `now' lies exactly lag ticks back on the circle, and last_frame frame_age ticks,
\* less than a frame and the longest pass before `now', or less than a frame at the end of a pass.
PassInv ==
    InLoop =>
        /\ clock = ticks_add(now, lag) /\ lag <= BLOCK_LIMIT
        /\ clock = ticks_add(last_frame, frame_age) /\ lag <= frame_age
        /\ frame_age < lag + FRAME_MS + (IF phase = "top" THEN 0 ELSE BLOCK_LIMIT)

\* A flash was set age ticks before the clock, and it was not yet over at the last frame.
DeadlineInv ==
    flash # NoFlash =>
        /\ InLoop
        /\ flash.until - FIRE_FLASH_MS \in TickValue
        /\ clock = ticks_add(flash.until - FIRE_FLASH_MS, age)
        /\ age < frame_age + FIRE_FLASH_MS

\* A flash no frame has shown is younger than the last frame, and was set in this pass, or not
\* longer before it than a frame and a pass without bindings take.
UnseenInv ==
    flash # NoFlash /\ ~seen =>
        /\ age <= frame_age
        /\ IF phase = "top" THEN age < lag + FRAME_MS
           ELSE age <= lag \/ age < lag + FRAME_MS + PASS_LIMIT
        /\ lag + spare <= PASS_LIMIT \/ (age <= lag /\ age + spare <= PASS_LIMIT)

FlashInv == LedsTypeOK /\ PassInv /\ DeadlineInv /\ UnseenInv

LEMMA LoopPhases == InLoop <=> phase # "paint" /\ phase # "sleep"
  BY DEF InLoop

LEMMA AddTwice ==
    ASSUME NEW t \in TickValue, NEW e \in Nat, NEW d \in Nat
    PROVE  ticks_add(ticks_add(t, e), d) = ticks_add(t, e + d)
  <1>1. TICKS_PERIOD \in Nat \ {0} /\ t \in Nat
    BY TicksAssumption DEF TickValue
  <1>2. PICK x \in Nat : x = t + e
    BY <1>1
  <1>3. ((x % TICKS_PERIOD) + d) % TICKS_PERIOD = (x + d) % TICKS_PERIOD
    BY <1>1, RemainderOfSum
  <1>4. x + d = t + (e + d)
    BY <1>1, <1>2
  <1> QED
    BY <1>2, <1>3, <1>4 DEF ticks_add

LEMMA AddNothing == \A t \in TickValue : ticks_add(t, 0) = t
  BY TicksAssumption DEF ticks_add, TickValue

\* The wrapped difference of two numbers a turn of the circle apart or none.
LEMMA DiffFrom ==
    ASSUME NEW a \in Int, NEW b \in Int, NEW e \in Int, -HalfPeriod <= e, e < HalfPeriod,
           \/ a - b = e \/ a - b = e + TICKS_PERIOD \/ a - b = e - TICKS_PERIOD
    PROVE  ticks_diff(a, b) = e
  <1>1. HalfPeriod \in Nat \ {0} /\ TICKS_PERIOD = HalfPeriod + HalfPeriod
    BY HalfOfPeriod
  <1>2. PICK m \in Int : m = (a - b) % TICKS_PERIOD
    BY <1>1
  <1>3. m = IF e < 0 THEN e + TICKS_PERIOD ELSE e
    <2>1. PICK d \in Int : d = a - b
      OBVIOUS
    <2>2. d = e \/ d = e + TICKS_PERIOD \/ d = e - TICKS_PERIOD
      BY <2>1
    <2>3. m = d % TICKS_PERIOD
      BY <1>2, <2>1
    <2> QED
      BY <1>1, <2>2, <2>3
  <1>4. (m + HalfPeriod) % TICKS_PERIOD = e + HalfPeriod
    BY <1>1, <1>3
  <1> QED
    BY <1>2, <1>4, <1>1 DEF ticks_diff

\* The bounds on what a pass takes, as numbers.
LEMMA Bounds ==
    /\ FRAME_MS \in Nat \ {0} /\ FIRE_FLASH_MS \in Nat \ {0} /\ PASS_LIMIT \in Nat /\ BLOCK_LIMIT \in Nat
    /\ HalfPeriod \in Nat \ {0} /\ TICKS_PERIOD = HalfPeriod + HalfPeriod
    /\ FRAME_MS + BLOCK_LIMIT < HalfPeriod /\ FIRE_FLASH_MS + BLOCK_LIMIT < HalfPeriod
    /\ FRAME_MS + PASS_LIMIT <= FIRE_FLASH_MS
  BY LedsAssumption, FlashAssumption, HalfOfPeriod

\* In the loop the clock and its stamps are plain numbers up to one turn apart.
LEMMA OneTurn ==
    ASSUME NEW t \in TickValue, NEW e \in Nat, e <= TICKS_PERIOD
    PROVE  ticks_add(t, e) = t + e \/ ticks_add(t, e) = t + e - TICKS_PERIOD
  <1>1. e \in 0 .. TICKS_PERIOD
    BY TicksAssumption
  <1> QED
    BY <1>1, AddOnCircle

LEMMA FrameGap ==
    ASSUME LedsTypeOK, PassInv, InLoop
    PROVE  ticks_diff(now, last_frame) = frame_age - lag
  <1>1. /\ lag \in Nat /\ frame_age \in Nat /\ lag <= BLOCK_LIMIT
        /\ lag <= frame_age /\ frame_age < lag + FRAME_MS + BLOCK_LIMIT
    BY Bounds DEF PassInv, LedsTypeOK
  <1>2. now \in Int /\ last_frame \in Int /\ clock \in Int
    BY TicksAssumption DEF LedsTypeOK, TickValue
  <1>3. clock = now + lag \/ clock = now + lag - TICKS_PERIOD
    <2>1. lag <= TICKS_PERIOD /\ now \in TickValue
      BY <1>1, Bounds DEF LedsTypeOK
    <2> QED
      BY <1>1, <2>1, OneTurn DEF PassInv
  <1>4. clock = last_frame + frame_age \/ clock = last_frame + frame_age - TICKS_PERIOD
    <2>1. frame_age <= TICKS_PERIOD /\ last_frame \in TickValue
      BY <1>1, Bounds DEF LedsTypeOK
    <2> QED
      BY <1>1, <2>1, OneTurn DEF PassInv
  <1>5. PICK e \in Int : e = frame_age - lag
    BY <1>1
  <1>6. -HalfPeriod <= e /\ e < HalfPeriod
    BY <1>1, <1>5, Bounds
  <1>7. \/ now - last_frame = e \/ now - last_frame = e + TICKS_PERIOD
        \/ now - last_frame = e - TICKS_PERIOD
    BY <1>1, <1>2, <1>3, <1>4, <1>5, Bounds
  <1> QED
    BY <1>2, <1>5, <1>6, <1>7, DiffFrom

LEMMA FlashGap ==
    ASSUME LedsTypeOK, PassInv, DeadlineInv, flash # NoFlash
    PROVE  ticks_diff(flash.until, now) = FIRE_FLASH_MS - age + lag
  <1>1. /\ lag \in Nat /\ frame_age \in Nat /\ age \in Nat /\ lag <= BLOCK_LIMIT
        /\ frame_age < lag + FRAME_MS + BLOCK_LIMIT /\ age < frame_age + FIRE_FLASH_MS
    BY Bounds DEF PassInv, DeadlineInv, LedsTypeOK
  <1>2. PICK set \in TickValue : set = flash.until - FIRE_FLASH_MS
    BY DEF DeadlineInv
  <1>3. now \in Int /\ set \in Int /\ clock \in Int /\ flash.until \in Int
    BY TicksAssumption DEF LedsTypeOK, TickValue
  <1>4. clock = now + lag \/ clock = now + lag - TICKS_PERIOD
    <2>1. lag <= TICKS_PERIOD /\ now \in TickValue
      BY <1>1, Bounds DEF LedsTypeOK
    <2> QED
      BY <1>1, <2>1, OneTurn DEF PassInv, DeadlineInv
  <1>5. clock = set + age \/ clock = set + age - TICKS_PERIOD
    <2>1. age <= TICKS_PERIOD
      BY <1>1, Bounds
    <2>2. clock = ticks_add(set, age)
      BY <1>2 DEF DeadlineInv
    <2> QED
      BY <1>1, <2>1, <2>2, OneTurn
  <1>6. PICK e \in Int : e = FIRE_FLASH_MS - age + lag
    BY <1>1, Bounds
  <1>7. -HalfPeriod <= e /\ e < HalfPeriod
    BY <1>1, <1>6, Bounds
  <1>8. \/ flash.until - now = e \/ flash.until - now = e + TICKS_PERIOD
        \/ flash.until - now = e - TICKS_PERIOD
    <2>1. PICK u \in Int : u = flash.until
      BY <1>3
    <2>2. u = set + FIRE_FLASH_MS
      BY <1>2, <1>3, <2>1, Bounds
    <2>3. u - now = e \/ u - now = e + TICKS_PERIOD \/ u - now = e - TICKS_PERIOD
      BY <1>1, <1>3, <1>4, <1>5, <1>6, <2>2, Bounds
    <2> QED
      BY <2>1, <2>3
  <1> QED
    BY <1>3, <1>6, <1>7, <1>8, DiffFrom

\* A frame shows the flash as long as it is young, and shows one it has not shown yet.
LEMMA FrameShowsFlash ==
    ASSUME FlashInv, Frame, flash # NoFlash
    PROVE  /\ flash' # NoFlash <=> age - lag < FIRE_FLASH_MS
           /\ ~seen => flash' # NoFlash
  <1>1. LedsTypeOK /\ PassInv /\ DeadlineInv /\ UnseenInv /\ InLoop /\ phase = "frame"
    BY LoopPhases DEF FlashInv, Frame
  <1>2. ticks_diff(flash.until, now) = FIRE_FLASH_MS - age + lag
    BY <1>1, FlashGap
  <1>3. age \in Nat /\ lag \in Nat
    BY <1>1 DEF LedsTypeOK
  <1>4. ticks_diff(flash.until, now) > 0 <=> age - lag < FIRE_FLASH_MS
    BY <1>2, <1>3, Bounds
  <1>5. flash' # NoFlash <=> ticks_diff(flash.until, now) > 0
    <2>1. ticks_diff(flash.until, now) \in Int
      BY <1>2, <1>3, Bounds
    <2>2. ~(ticks_diff(flash.until, now) > 0 /\ ticks_diff(flash.until, now) <= 0)
      BY <2>1
    <2>3. \/ ticks_diff(flash.until, now) > 0 /\ flash' = flash
          \/ ticks_diff(flash.until, now) <= 0 /\ flash' = NoFlash
      BY DEF Frame
    <2> QED
      BY <2>2, <2>3
  <1>6. ~seen => age - lag < FIRE_FLASH_MS
    BY <1>1, <1>3, Bounds DEF UnseenInv
  <1> QED
    BY <1>4, <1>5, <1>6

\* Time that goes by in the pass moves the clock away from both stamps alike.
LEMMA RunKeepsPass ==
    ASSUME LedsTypeOK, PassInv, InLoop, NEW d \in Nat, Run(d),
           now' = now, last_frame' = last_frame, phase' = "top" => phase = "top"
    PROVE  PassInv' /\ clock' = ticks_add(clock, d) /\ frame_age' = frame_age + d /\ lag' = lag + d
  <1>1. clock' = ticks_add(clock, d) /\ lag' = lag + d /\ frame_age' = frame_age + d
        /\ lag' <= BLOCK_LIMIT
    BY DEF Run
  <1>2. /\ now \in TickValue /\ last_frame \in TickValue
        /\ lag \in Nat /\ frame_age \in Nat
    BY DEF LedsTypeOK
  <1>3. clock' = ticks_add(now, lag') /\ clock' = ticks_add(last_frame, frame_age')
    <2>1. clock = ticks_add(now, lag) /\ clock = ticks_add(last_frame, frame_age)
      BY DEF PassInv
    <2>2. ticks_add(ticks_add(now, lag), d) = ticks_add(now, lag + d)
      BY <1>2, AddTwice
    <2>3. ticks_add(ticks_add(last_frame, frame_age), d) = ticks_add(last_frame, frame_age + d)
      BY <1>2, AddTwice
    <2> QED
      BY <1>1, <2>1, <2>2, <2>3
  <1>4. lag' <= frame_age'
    BY <1>1, <1>2 DEF PassInv
  <1>5. frame_age < lag + FRAME_MS + (IF phase' = "top" THEN 0 ELSE BLOCK_LIMIT)
    BY <1>2, Bounds DEF PassInv
  <1>6. frame_age' < lag' + FRAME_MS + (IF phase' = "top" THEN 0 ELSE BLOCK_LIMIT)
    BY <1>1, <1>2, <1>5, Bounds
  <1> QED
    BY <1>1, <1>3, <1>4, <1>6 DEF PassInv

LEMMA ElapseFlash == FlashInv /\ Elapse => PassInv' /\ DeadlineInv' /\ UnseenInv'
  <1> SUFFICES ASSUME FlashInv, Elapse PROVE PassInv' /\ DeadlineInv' /\ UnseenInv'
    OBVIOUS
  <1>1. LedsTypeOK /\ PassInv /\ DeadlineInv /\ UnseenInv /\ InLoop
    BY DEF FlashInv, Elapse
  <1>2. /\ flash' = flash /\ seen' = seen /\ phase' = phase /\ now' = now /\ last_frame' = last_frame
        /\ spare > 0 /\ spare' = spare - 1
        /\ flash # NoFlash => age' = age + 1
    BY DEF Elapse, engine
  <1>3. /\ PassInv' /\ clock' = ticks_add(clock, 1)
        /\ frame_age' = frame_age + 1 /\ lag' = lag + 1
    BY <1>1, <1>2, RunKeepsPass DEF Elapse
  <1>4. age \in Nat /\ lag \in Nat /\ frame_age \in Nat /\ spare \in Nat
    BY <1>1 DEF LedsTypeOK
  <1>5. DeadlineInv'
    <2> SUFFICES ASSUME flash # NoFlash
                 PROVE  /\ InLoop'
                        /\ flash.until - FIRE_FLASH_MS \in TickValue
                        /\ clock' = ticks_add(flash.until - FIRE_FLASH_MS, age + 1)
                        /\ age + 1 < frame_age + 1 + FIRE_FLASH_MS
      BY <1>2, <1>3 DEF DeadlineInv
    <2>1. flash.until - FIRE_FLASH_MS \in TickValue
          /\ clock = ticks_add(flash.until - FIRE_FLASH_MS, age)
          /\ age < frame_age + FIRE_FLASH_MS
      BY <1>1 DEF DeadlineInv
    <2>2. clock' = ticks_add(flash.until - FIRE_FLASH_MS, age + 1)
      BY <1>3, <1>4, <2>1, AddTwice
    <2> QED
      BY <1>1, <1>2, <1>4, <2>1, <2>2, Bounds DEF InLoop
  <1>6. UnseenInv'
    BY <1>1, <1>2, <1>3, <1>4, Bounds DEF UnseenInv
  <1> QED
    BY <1>3, <1>5, <1>6

LEMMA StartPassFlash == FlashInv /\ StartPass => PassInv' /\ DeadlineInv' /\ UnseenInv'
  <1> SUFFICES ASSUME FlashInv, StartPass PROVE PassInv' /\ DeadlineInv' /\ UnseenInv'
    OBVIOUS
  <1>1. LedsTypeOK /\ PassInv /\ DeadlineInv /\ UnseenInv /\ InLoop /\ phase = "top"
    BY LoopPhases DEF FlashInv, StartPass
  <1>2. /\ flash' = flash /\ seen' = seen /\ phase' = "key" /\ now' = clock /\ last_frame' = last_frame
        /\ clock' = clock /\ age' = age /\ frame_age' = frame_age
        /\ lag' = 0 /\ spare' = PASS_LIMIT
    BY DEF StartPass, engine
  <1>3. age \in Nat /\ lag \in Nat /\ frame_age \in Nat /\ spare \in Nat /\ clock \in TickValue
    BY <1>1 DEF LedsTypeOK
  <1>4. InLoop'
    BY <1>2 DEF InLoop
  <1>5. clock = ticks_add(clock, 0)
    BY <1>3, AddNothing
  <1>6. PassInv'
    BY <1>1, <1>2, <1>3, <1>5, Bounds DEF PassInv
  <1>7. DeadlineInv'
    BY <1>1, <1>2, <1>4 DEF DeadlineInv
  <1>8. UnseenInv'
    BY <1>1, <1>2, <1>3, Bounds DEF UnseenInv
  <1> QED
    BY <1>6, <1>7, <1>8

LEMMA FireFlash ==
    ASSUME FlashInv, Fire, InLoop, phase' \in {"show", "lines"}
    PROVE  PassInv' /\ DeadlineInv' /\ UnseenInv'
  <1>1. LedsTypeOK /\ PassInv
    BY DEF FlashInv
  <1>2. PICK d \in 0 .. BLOCK_LIMIT : Run(d)
    BY DEF Fire
  <1>3. d \in Nat
    BY Bounds
  <1>4. now' = now /\ last_frame' = last_frame /\ age' = 0 /\ spare' = PASS_LIMIT /\ seen' = FALSE
    BY DEF Fire
  <1>5. PassInv' /\ clock' = ticks_add(clock, d) /\ frame_age' = frame_age + d /\ lag' = lag + d
    BY <1>1, <1>2, <1>3, <1>4, RunKeepsPass
  <1>6. clock' \in TickValue /\ lag' \in Nat /\ frame_age' \in Nat
    BY <1>1, <1>2, <1>3, RunType
  <1>7. PICK color \in Colors : flash' = [color |-> color, until |-> clock' + FIRE_FLASH_MS]
    BY DEF Fire, Flash
  <1>8. flash'.until - FIRE_FLASH_MS = clock'
    <2>1. PICK c \in Nat : c = clock'
      BY <1>6, TicksAssumption DEF TickValue
    <2>2. flash'.until = c + FIRE_FLASH_MS
      BY <1>7, <2>1
    <2>3. \A f, x \in Nat : f + x - x = f
      OBVIOUS
    <2>4. FIRE_FLASH_MS \in Nat
      BY LedsAssumption
    <2>5. c + FIRE_FLASH_MS - FIRE_FLASH_MS = c
      BY <2>3, <2>4
    <2>6. PICK u \in Nat : u = flash'.until
      BY <2>2, <2>4
    <2>7. u = c + FIRE_FLASH_MS
      BY <2>2, <2>6
    <2>8. u - FIRE_FLASH_MS = c
      BY <2>4, <2>7
    <2>9. flash'.until - FIRE_FLASH_MS = c
      BY <2>6, <2>8
    <2> QED
      BY <2>1, <2>9
  <1>9. clock' = ticks_add(clock', 0)
    BY <1>6, AddNothing
  <1>10. InLoop'
    BY DEF InLoop
  <1>11. PICK l \in Nat : l = lag'
    BY <1>6
  <1>12. PICK f \in Nat : f = frame_age'
    BY <1>6
  <1>13. DeadlineInv'
    <2>0. 0 < f + FIRE_FLASH_MS
      BY Bounds
    <2>1. 0 < frame_age' + FIRE_FLASH_MS
      BY <2>0, <1>12
    <2>2. age' < frame_age' + FIRE_FLASH_MS /\ clock' = ticks_add(clock', age')
      BY <1>4, <1>9, <2>1
    <2> QED
      BY <1>6, <1>8, <1>10, <2>2 DEF DeadlineInv
  <1>14. UnseenInv'
    <2>0. 0 <= l /\ 0 <= f /\ 0 < l + FRAME_MS
      BY Bounds
    <2>1. 0 <= lag' /\ 0 <= frame_age' /\ 0 < lag' + FRAME_MS
      BY <2>0, <1>11, <1>12
    <2>2. 0 + PASS_LIMIT <= PASS_LIMIT
      BY Bounds
    <2>3. age' <= frame_age' /\ age' < lag' + FRAME_MS /\ age' <= lag' /\ age' + spare' <= PASS_LIMIT
      BY <1>4, <2>1, <2>2
    <2> QED
      BY <2>3 DEF UnseenInv
  <1> QED
    BY <1>5, <1>13, <1>14

LEMMA FrameFlash == FlashInv /\ Frame => PassInv' /\ DeadlineInv' /\ UnseenInv'
  <1> SUFFICES ASSUME FlashInv, Frame PROVE PassInv' /\ DeadlineInv' /\ UnseenInv'
    OBVIOUS
  <1>1. LedsTypeOK /\ PassInv /\ DeadlineInv /\ InLoop
    BY LoopPhases DEF FlashInv, Frame
  <1>2. /\ now' = now /\ last_frame' = now /\ frame_age' = lag /\ lag' = lag /\ clock' = clock
        /\ phase' = "top"
    BY DEF Frame
  <1>3. age \in Nat /\ lag \in Nat /\ frame_age \in Nat
    BY <1>1 DEF LedsTypeOK
  <1>4. InLoop'
    BY <1>2 DEF InLoop
  <1>5. PassInv'
    BY <1>1, <1>2, <1>3, Bounds DEF PassInv
  <1>6. \/ flash' = flash /\ age' = age /\ seen' = TRUE
        \/ flash' = NoFlash /\ age' = 0 /\ seen' = FALSE
    BY DEF Frame
  <1>7. CASE flash' = NoFlash
    BY <1>5, <1>7 DEF DeadlineInv, UnseenInv
  <1>8. CASE flash' # NoFlash
    <2>1. flash' = flash /\ age' = age /\ seen' = TRUE
      BY <1>6, <1>8
    <2>2. age - lag < FIRE_FLASH_MS
      BY <1>8, <2>1, FrameShowsFlash
    <2>3. age < lag + FIRE_FLASH_MS
      BY <1>3, <2>2, Bounds
    <2>4. DeadlineInv'
      BY <1>1, <1>2, <1>4, <1>8, <2>1, <2>3 DEF DeadlineInv
    <2>5. UnseenInv'
      BY <2>1 DEF UnseenInv
    <2> QED
      BY <1>5, <2>4, <2>5
  <1> QED
    BY <1>7, <1>8

LEMMA NoFrameFlash == FlashInv /\ NoFrame => PassInv' /\ DeadlineInv' /\ UnseenInv'
  <1> SUFFICES ASSUME FlashInv, NoFrame PROVE PassInv' /\ DeadlineInv' /\ UnseenInv'
    OBVIOUS
  <1>1. LedsTypeOK /\ PassInv /\ DeadlineInv /\ UnseenInv /\ InLoop
    BY LoopPhases DEF FlashInv, NoFrame
  <1>2. /\ now' = now /\ last_frame' = last_frame /\ frame_age' = frame_age /\ lag' = lag
        /\ clock' = clock /\ flash' = flash /\ seen' = seen /\ age' = age /\ spare' = spare
        /\ phase' = "top"
    BY DEF NoFrame, engine, time
  <1>3. age \in Nat /\ lag \in Nat /\ frame_age \in Nat
    BY <1>1 DEF LedsTypeOK
  <1>4. frame_age < lag + FRAME_MS
    <2>1. ~(frame_age - lag >= FRAME_MS)
      BY <1>1, FrameGap DEF NoFrame, FrameDue
    <2> QED
      BY <1>3, <2>1, Bounds
  <1>5. InLoop'
    BY <1>2 DEF InLoop
  <1>6. PassInv'
    BY <1>1, <1>2, <1>3, <1>4, Bounds DEF PassInv
  <1>7. DeadlineInv'
    BY <1>1, <1>2, <1>5 DEF DeadlineInv
  <1>8. UnseenInv'
    BY <1>1, <1>2, <1>3, <1>4, Bounds DEF UnseenInv
  <1> QED
    BY <1>6, <1>7, <1>8

\* A step within a pass that takes no time and leaves the flash as it is.
LEMMA QuietFlash ==
    ASSUME FlashInv, InLoop, phase # "top", phase' \in {"show", "lines", "frame"},
           UNCHANGED <<time, flash, seen, now, last_frame>>
    PROVE  PassInv' /\ DeadlineInv' /\ UnseenInv'
  <1>1. PassInv /\ DeadlineInv /\ UnseenInv /\ InLoop' /\ phase' # "top"
    BY DEF FlashInv, InLoop
  <1>2. /\ now' = now /\ last_frame' = last_frame /\ frame_age' = frame_age /\ lag' = lag
        /\ clock' = clock /\ flash' = flash /\ seen' = seen /\ age' = age /\ spare' = spare
    BY DEF time
  <1>3. PassInv'
    BY <1>1, <1>2 DEF PassInv
  <1>4. DeadlineInv'
    BY <1>1, <1>2 DEF DeadlineInv
  <1>5. UnseenInv'
    BY <1>1, <1>2 DEF UnseenInv
  <1> QED
    BY <1>3, <1>4, <1>5

LEMMA SetProfileFlash == FlashInv /\ SetProfile => PassInv' /\ DeadlineInv' /\ UnseenInv'
  <1> SUFFICES ASSUME FlashInv, SetProfile PROVE PassInv' /\ DeadlineInv' /\ UnseenInv'
    OBVIOUS
  <1>1. /\ flash' = NoFlash /\ phase' = phase /\ clock' = clock /\ lag' = lag /\ frame_age' = frame_age
        /\ now' = now /\ last_frame' = last_frame
    BY DEF SetProfile
  <1>2. PassInv'
    BY <1>1 DEF FlashInv, PassInv, InLoop
  <1> QED
    BY <1>1, <1>2 DEF DeadlineInv, UnseenInv

LEMMA LedsNextFlash == FlashInv /\ [LedsNext]_vars => FlashInv'
  <1> SUFFICES ASSUME FlashInv, [LedsNext]_vars PROVE PassInv' /\ DeadlineInv' /\ UnseenInv'
    BY LedsNextType DEF FlashInv
  <1>1. CASE BootFrame \/ Sleep
    <2>1. ~InLoop /\ ~InLoop' /\ flash' = flash
      BY <1>1 DEF BootFrame, Sleep, InLoop, engine
    <2>2. flash' = NoFlash
      BY <2>1 DEF FlashInv, DeadlineInv
    <2> QED
      BY <2>1, <2>2 DEF PassInv, DeadlineInv, UnseenInv
  <1>2. CASE EndSweep
    <2>1. ~InLoop /\ flash' = flash /\ phase' = "top" /\ clock' = clock /\ now' = clock
          /\ last_frame' = clock /\ lag' = 0 /\ frame_age' = 0
      BY <1>2 DEF EndSweep, InLoop, engine
    <2>2. flash' = NoFlash
      BY <2>1 DEF FlashInv, DeadlineInv
    <2>3. clock = ticks_add(clock, 0)
      BY AddNothing DEF FlashInv, LedsTypeOK
    <2>4. PassInv'
      BY <2>1, <2>3, Bounds DEF PassInv
    <2> QED
      BY <2>2, <2>4 DEF DeadlineInv, UnseenInv
  <1>3. CASE Elapse
    BY <1>3, ElapseFlash
  <1>4. CASE StartPass
    BY <1>4, StartPassFlash
  <1>5. CASE KeyFires \/ TestFires
    BY <1>5, FireFlash DEF KeyFires, TestFires, InLoop
  <1>6. CASE NoKey \/ Show \/ LinesDone
    <2>1. UNCHANGED <<time, flash, seen, now, last_frame>>
      BY <1>6 DEF NoKey, Show, LinesDone, engine
    <2>2. InLoop /\ phase # "top" /\ phase' \in {"show", "lines", "frame"}
      BY <1>6 DEF NoKey, Show, LinesDone, InLoop
    <2> QED
      BY <2>1, <2>2, QuietFlash
  <1>7. CASE SetProfile
    BY <1>7, SetProfileFlash
  <1>8. CASE NoFrame
    BY <1>8, NoFrameFlash
  <1>9. CASE Frame
    BY <1>9, FrameFlash
  <1>10. CASE UNCHANGED vars
    <2>1. /\ now' = now /\ last_frame' = last_frame /\ frame_age' = frame_age /\ lag' = lag
          /\ clock' = clock /\ flash' = flash /\ seen' = seen /\ age' = age /\ spare' = spare
          /\ phase' = phase
      BY <1>10 DEF vars, engine, time
    <2> QED
      BY <2>1 DEF FlashInv, PassInv, DeadlineInv, UnseenInv, InLoop
  <1> QED
    BY <1>1, <1>2, <1>3, <1>4, <1>5, <1>6, <1>7, <1>8, <1>9, <1>10 DEF LedsNext

\* The inductive invariant of the frames: where the stamps lie on the circle, that a flash still
\* set was alive at the last frame, and how long one can have gone unseen.
THEOREM FlashInvariant == LedsSpec => []FlashInv
  <1>1. LedsInit => FlashInv
    <2> SUFFICES ASSUME LedsInit PROVE FlashInv
      OBVIOUS
    <2>1. LedsTypeOK /\ ~InLoop /\ flash = NoFlash
      BY LedsInitType DEF LedsInit, InLoop
    <2> QED
      BY <2>1 DEF FlashInv, PassInv, DeadlineInv, UnseenInv
  <1> QED
    BY <1>1, LedsNextFlash, PTL DEF LedsSpec

\* A binding that ran is confirmed by a flash that is on exactly as long as it should be, across
\* any wrap of the clock and after any pass that blocked, and that no frame clears unseen.
THEOREM FlashIsSeenBriefly == LedsSpec => FlashConfirms
  <1>1. FlashInv /\ [LedsNext]_vars
          => [Frame /\ flash # NoFlash =>
                 /\ flash' # NoFlash <=> age - lag < FIRE_FLASH_MS
                 /\ ~seen => flash' # NoFlash]_vars
    BY FrameShowsFlash
  <1> QED
    BY <1>1, FlashInvariant, PTL DEF LedsSpec, FlashConfirms
=============================================================================
