-------------------------------- MODULE Leds --------------------------------
(***************************************************************************)
(* The LED engine, src/src/singlekey/leds.py, and what code.py has it do:  *)
(* the startup sweep, then one frame at most every FRAME_MS in the passes  *)
(* of the main loop, each of which renders with the time the pass began.   *)
(* A colour is <<r, g, b>>, the bytes one pixel takes in the code's        *)
(* buffers; the phase says how far startup_sweep or the pass has come.     *)
(*                                                                         *)
(* A chain object whose making fails, and what the gesture gives to hold,  *)
(* are Firmware's; here every hold and every profile may come.             *)
(***************************************************************************)
EXTENDS Ticks, Sequences

CONSTANTS
    Profiles,             \* [brightness, ext_count, idle_mode, idle_color]
    Colors,               \* of bindings
    MAX_EXT,              \* 64 in the code
    FRAME_MS,             \* 20
    FIRE_FLASH_MS,        \* 120
    BOOT_SWEEP_MS,        \* 1500
    BREATHE_PERIOD_MS,    \* 3000
    RAINBOW_MS_PER_STEP,  \* 8
    PASS_LIMIT,           \* bound: time a pass takes, what bindings take apart
    BLOCK_LIMIT           \* bound: time a pass takes with its bindings

Byte == 0 .. 255
Color == Byte \X Byte \X Byte
IdleModes == {"off", "solid", "breathe", "rainbow"}

ASSUME LedsAssumption ==
    /\ Profiles \subseteq [brightness : Byte, ext_count : Byte,
                           idle_mode : IdleModes, idle_color : Color]
    /\ Colors \subseteq Color
    /\ MAX_EXT \in 0 .. 64
    /\ FRAME_MS \in Nat \ {0}
    /\ FIRE_FLASH_MS \in Nat \ {0}
    /\ BOOT_SWEEP_MS \in Nat \ {0}
    /\ BREATHE_PERIOD_MS \in Nat \ {0} /\ BREATHE_PERIOD_MS % 2 = 0
    /\ RAINBOW_MS_PER_STEP \in Nat \ {0}
    /\ PASS_LIMIT \in Nat
    /\ BLOCK_LIMIT \in Nat

\* Nothing takes as long as half the period of the clock, over three days, and a pass that runs no
\* binding is shorter than a flash by a frame.
ASSUME FlashAssumption ==
    /\ FRAME_MS + BLOCK_LIMIT < HalfPeriod
    /\ FIRE_FLASH_MS + BLOCK_LIMIT < HalfPeriod
    /\ BOOT_SWEEP_MS + FRAME_MS + PASS_LIMIT <= HalfPeriod
    /\ FRAME_MS + PASS_LIMIT <= FIRE_FLASH_MS

VARIABLES
    clock,        \* supervisor.ticks_ms()
    phase,        \* "paint", "sleep" (sweep), "top", "key", "show", "lines", "frame" (pass)
    start,        \* startup_sweep's start
    swept,        \* its elapsed
    now,          \* main's now
    last_frame,   \* main's last_frame
    profile, hold,   \* LedEngine's
    flash,        \* LedEngine's flash with its deadline
    onboard,      \* its buffer for the onboard pixel
    ext,          \* its buffer for the chain
    chain,        \* Device.ext: what the chain was last told
    age,          \* ghost: true time since the flash was set
    lag,          \* ghost: true time since `now' was taken
    frame_age,    \* ghost: true time since last_frame was taken
    spare,        \* what is left of PASS_LIMIT
    seen          \* ghost: a frame has shown the flash

engine == <<profile, hold, flash, seen>>
pixels == <<onboard, ext, chain>>
sweep == <<start, swept>>
time == <<clock, age, lag, frame_age, spare>>
vars == <<engine, pixels, sweep, time, phase, now, last_frame>>

NoColor == <<>>
NoFlash == [color |-> NoColor, until |-> 0]
Dark == <<0, 0, 0>>

BOOT_FADE_FROM == 75
BOOT_MIN_BRIGHTNESS == 48
BREATHE_FLOOR == 38

-----------------------------------------------------------------------------
(* Colours *)

wheel(pos) ==
    IF pos < 85 THEN <<255 - pos * 3, pos * 3, 0>>
    ELSE IF pos < 170 THEN <<0, 255 - (pos - 85) * 3, (pos - 85) * 3>>
    ELSE <<(pos - 170) * 3, 0, 255 - (pos - 170) * 3>>

scale_byte(byte, brightness, extra) ==
    (((byte * brightness) \div 255) * extra) \div 255

scale_with(rgb, brightness, extra) ==
    <<scale_byte(rgb[1], brightness, extra),
      scale_byte(rgb[2], brightness, extra),
      scale_byte(rgb[3], brightness, extra)>>

\* A deliberately wrong variant: the wave starts from the floor and still
\* has its whole height.
MutBreathe(t) ==
    LET half == BREATHE_PERIOD_MS \div 2
        at == t % BREATHE_PERIOD_MS
    IN BREATHE_FLOOR
       + (255 * (IF at < half THEN at ELSE BREATHE_PERIOD_MS - at)) \div half

breathe(t) ==
    LET half == BREATHE_PERIOD_MS \div 2
        at == t % BREATHE_PERIOD_MS
    IN BREATHE_FLOOR
       + ((255 - BREATHE_FLOOR) * (IF at < half THEN at ELSE BREATHE_PERIOD_MS - at)) \div half

ext_count(p) == IF p.ext_count < MAX_EXT THEN p.ext_count ELSE MAX_EXT

\* What lies in the buffer behind the chain stays as it was.
Overlay(buffer, count, Pixel(_)) ==
    [i \in 1 .. MAX_EXT |-> IF i <= count THEN Pixel(i - 1) ELSE buffer[i]]

\* push_pixels: the buffers, as far as the chain goes.
Pushed(buffer, count) == [i \in 1 .. count |-> buffer[i]]

PushTo(count, first, Pixel(_)) ==
    /\ onboard' = first
    /\ ext' = Overlay(ext, count, Pixel)
    /\ chain' = Pushed(ext', count)

Fill(rgb) == LET Same(i) == rgb IN PushTo(ext_count(profile), rgb, Same)

PaintWheel(step, brightness, envelope) ==
    LET count == ext_count(profile)
        Spoke(i) == scale_with(wheel((step + i * (256 \div count)) % 256), brightness, envelope)
    IN PushTo(count, scale_with(wheel(step % 256), brightness, envelope), Spoke)

-----------------------------------------------------------------------------
(* The startup sweep *)

FadeFrom == (BOOT_SWEEP_MS * BOOT_FADE_FROM) \div 100

Envelope(at) ==
    IF at < FadeFrom THEN 255
    ELSE 255 - (255 * (at - FadeFrom)) \div (BOOT_SWEEP_MS - FadeFrom)

\* A deliberately wrong variant: the profile's brightness, however low.
MutSweepBrightness(p) == p.brightness

SweepBrightness(p) ==
    IF p.brightness < BOOT_MIN_BRIGHTNESS THEN BOOT_MIN_BRIGHTNESS ELSE p.brightness

\* The clock runs from an arbitrary epoch, the chain starts dark.
LedsInit ==
    /\ clock \in TickValue
    /\ phase = "paint"
    /\ start = clock /\ swept = 0
    /\ now = clock /\ last_frame = clock
    /\ profile \in Profiles
    /\ hold = NoColor /\ flash = NoFlash /\ seen = FALSE
    /\ onboard = Dark
    /\ ext = [i \in 1 .. MAX_EXT |-> Dark]
    /\ chain = [i \in 1 .. ext_count(profile) |-> Dark]
    /\ age = 0 /\ lag = 0 /\ frame_age = 0 /\ spare = PASS_LIMIT

BootFrame ==
    /\ phase = "paint"
    /\ elapsed(clock, start) < BOOT_SWEEP_MS
    /\ swept' = elapsed(clock, start)
    /\ PaintWheel((256 * swept') \div BOOT_SWEEP_MS, SweepBrightness(profile), Envelope(swept'))
    /\ phase' = "sleep"
    /\ UNCHANGED <<start, engine, time, now, last_frame>>

\* time.sleep: at least FRAME_MS, and what the board takes besides.
Sleep ==
    /\ phase = "sleep"
    /\ \E late \in 0 .. PASS_LIMIT : clock' = ticks_add(clock, FRAME_MS + late)
    /\ phase' = "paint"
    /\ UNCHANGED <<sweep, engine, pixels, age, lag, frame_age, spare, now, last_frame>>

EndSweep ==
    /\ phase = "paint"
    /\ elapsed(clock, start) >= BOOT_SWEEP_MS
    /\ last_frame' = clock
    /\ now' = clock
    /\ lag' = 0 /\ frame_age' = 0
    /\ start' = 0 /\ swept' = 0    \* startup_sweep's variables are gone
    /\ phase' = "top"
    /\ UNCHANGED <<engine, pixels, clock, age, spare>>

-----------------------------------------------------------------------------
(* One pass of the main loop *)

InLoop == phase \notin {"paint", "sleep"}

Run(d) ==
    /\ lag + d <= BLOCK_LIMIT
    /\ clock' = ticks_add(clock, d)
    /\ lag' = lag + d
    /\ frame_age' = frame_age + d

\* A millisecond goes by, anywhere in the loop.
Elapse ==
    /\ InLoop
    /\ spare > 0
    /\ Run(1)
    /\ spare' = spare - 1
    /\ age' = IF flash = NoFlash THEN 0 ELSE age + 1
    /\ UNCHANGED <<engine, pixels, sweep, phase, now, last_frame>>

StartPass ==
    /\ phase = "top"
    /\ now' = clock
    /\ lag' = 0 /\ spare' = PASS_LIMIT
    /\ phase' = "key"
    /\ UNCHANGED <<engine, pixels, sweep, clock, age, frame_age, last_frame>>

\* A deliberately wrong variant: the flash is timed from the start of the
\* pass, before the binding ran.
MutFlash(color, t) == flash' = [color |-> color, until |-> now + FIRE_FLASH_MS]

Flash(color, t) == flash' = [color |-> color, until |-> t + FIRE_FLASH_MS]

\* Device.fire: a binding that blocks for d, then the flash.
Fire ==
    /\ \E d \in 0 .. BLOCK_LIMIT : Run(d)
    /\ \E color \in Colors : Flash(color, clock')
    /\ age' = 0 /\ spare' = PASS_LIMIT /\ seen' = FALSE
    /\ UNCHANGED <<profile, hold, pixels, sweep, now, last_frame>>

KeyFires ==
    /\ phase = "key"
    /\ phase' = "show"
    /\ Fire

NoKey ==
    /\ phase = "key"
    /\ phase' = "show"
    /\ UNCHANGED <<engine, pixels, sweep, time, now, last_frame>>

\* set_hold, when what the gesture displays has changed.
Show ==
    /\ phase = "show"
    /\ hold' \in Colors \cup {NoColor}
    /\ phase' = "lines"
    /\ UNCHANGED <<profile, flash, seen, pixels, sweep, time, now, last_frame>>

\* `test' fires a binding too.
TestFires ==
    /\ phase = "lines"
    /\ phase' = "lines"
    /\ Fire

\* _apply_profile: the engine forgets hold and flash, and a chain of another
\* length is a new, dark one.
SetProfile ==
    /\ phase = "lines"
    /\ profile' \in Profiles
    /\ hold' = NoColor /\ flash' = NoFlash
    /\ age' = 0 /\ seen' = FALSE
    /\ chain' = IF ext_count(profile') = ext_count(profile) THEN chain
                ELSE [i \in 1 .. ext_count(profile') |-> Dark]
    /\ UNCHANGED <<onboard, ext, sweep, clock, lag, frame_age, spare,
                   phase, now, last_frame>>

LinesDone ==
    /\ phase = "lines"
    /\ phase' = "frame"
    /\ UNCHANGED <<engine, pixels, sweep, time, now, last_frame>>

FrameDue == ticks_diff(now, last_frame) >= FRAME_MS

NoFrame ==
    /\ phase = "frame"
    /\ ~FrameDue
    /\ phase' = "top"
    /\ UNCHANGED <<engine, pixels, sweep, time, now, last_frame>>

scale(rgb) == scale_with(rgb, profile.brightness, 255)

RenderIdle ==
    CASE profile.idle_mode = "off" -> Fill(Dark)
      [] profile.idle_mode = "solid" -> Fill(scale(profile.idle_color))
      [] profile.idle_mode = "breathe" ->
            Fill(scale_with(profile.idle_color, profile.brightness, breathe(now)))
      [] OTHER -> PaintWheel(now \div RAINBOW_MS_PER_STEP, profile.brightness, 255)

\* LedEngine.render and push_pixels, with the time the pass began.
Frame ==
    /\ phase = "frame"
    /\ FrameDue
    /\ last_frame' = now /\ frame_age' = lag
    /\ \/ /\ flash # NoFlash /\ ticks_diff(flash.until, now) > 0
          /\ Fill(scale(flash.color))
          /\ seen' = TRUE
          /\ UNCHANGED <<flash, age>>
       \/ /\ flash = NoFlash \/ ticks_diff(flash.until, now) <= 0
          /\ flash' = NoFlash /\ age' = 0 /\ seen' = FALSE
          /\ IF hold # NoColor THEN Fill(scale(hold)) ELSE RenderIdle
    /\ phase' = "top"
    /\ UNCHANGED <<profile, hold, sweep, clock, lag, spare, now>>

LedsNext ==
    \/ BootFrame \/ Sleep \/ EndSweep
    \/ Elapse \/ StartPass \/ KeyFires \/ NoKey \/ Show
    \/ TestFires \/ SetProfile \/ LinesDone \/ NoFrame \/ Frame

LedsSpec == LedsInit /\ [][LedsNext]_vars

\* startup_sweep runs on, and time.sleep returns.
LedsFairSpec == LedsSpec /\ WF_vars(BootFrame) /\ WF_vars(Sleep) /\ WF_vars(EndSweep)

-----------------------------------------------------------------------------
(* Properties *)

\* Every pixel the engine paints is three bytes, whatever the profile, the
\* moment and the fade: a bytearray would refuse anything else, outside
\* every handler (leds.py:112-156).
LedsTypeOK ==
    /\ clock \in TickValue /\ start \in TickValue
    /\ now \in TickValue /\ last_frame \in TickValue
    /\ phase \in {"paint", "sleep", "top", "key", "show", "lines", "frame"}
    /\ swept \in 0 .. BOOT_SWEEP_MS - 1
    /\ profile \in Profiles
    /\ hold \in Colors \cup {NoColor}
    /\ flash \in [color : Colors, until : Nat] \cup {NoFlash}
    /\ seen \in BOOLEAN
    /\ onboard \in Color
    /\ ext \in [1 .. MAX_EXT -> Color]
    /\ chain \in [1 .. ext_count(profile) -> Color]
    /\ age \in Nat /\ lag \in Nat /\ frame_age \in Nat /\ spare \in Nat

Lit(pixel) == \E k \in 1 .. 3 : pixel[k] > 0

\* The sweep proves every configured pixel (leds.py:26-28, 65-69): until it
\* fades, each one is lit, even under a brightness too low to see, and the
\* chain does not show the same colour twice.
EveryPixelLights ==
    phase = "sleep" /\ swept < FadeFrom =>
        /\ Lit(onboard)
        /\ \A i \in 1 .. ext_count(profile) : Lit(chain[i])
        /\ \A i, j \in 1 .. ext_count(profile) : i # j => chain[i] # chain[j]

\* A binding that ran is confirmed, briefly (leds.py:54-57, 90-94): when a
\* frame is drawn the flash is on exactly while less than FIRE_FLASH_MS have
\* truly gone from the end of the binding to the start of the pass, however
\* long that blocked and wherever the clock wraps; and it never goes out
\* before a frame has shown it, a switched profile or another flash excepted.
FlashConfirms ==
    [][Frame /\ flash # NoFlash =>
          /\ flash' # NoFlash <=> age - lag < FIRE_FLASH_MS
          /\ ~seen => flash' # NoFlash]_vars

\* The sweep blocks key and port, so it has to end, also when the clock, which
\* the board starts shortly before its wrap, comes round in it (code.py:155-161).
SweepEnds == <>(phase = "top")
=============================================================================
