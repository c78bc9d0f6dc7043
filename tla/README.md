# kb2040-single-key: a TLA+ verification project

The repository is the firmware of a one-key USB keyboard (CircuitPython, `src/src/`) and the Go
command line that configures it over a serial port (`src/cli/`). This directory holds TLA+ models
of its logic, the TLC runs that check them on small instances, and theorems about them that TLAPS
checks for every value of the constants. Paths below are relative to the repository as it is
mounted, so `src/src/code.py` is the firmware's main program.

How to run, in this directory: `tlc -config MCKeyInput.cfg MCKeyInput`, likewise for the other
`MC*` modules and `.cfg` files; `tlapm KeyInputProofs.tla`, likewise for the other `*Proofs`.

## 1. Inventory

The firmware is one thread: `main()` in `code.py` loops, and each pass takes the time once, polls
the key, may run a binding, refreshes what the gesture shows, handles every line that waits on the
configuration port, calls the protocol's `tick`, and refreshes the LEDs if 20 ms have gone. There
are no interrupts or callbacks. What is concurrent is the world: the switch, the clock, the clients
of the port, the power.

| component | state it keeps | operations | talks to |
|---|---|---|---|
| clock arithmetic, `singlekey/ticks.py` | none | `ticks_diff`, `ticks_add` on a counter that wraps at 2^29 ms | used by everything that measures time |
| debouncer, `singlekey/keystate.py`; `KeyReader` in `code.py` | debounced level, stamp of the last accepted edge | `update` | polled by the loop |
| gesture, `singlekey/colortap.py` | profile, hold in progress, stamp of the press | `set_profile`, `press`, `release`, `display`, `held_ms`, `color_for` | edges from the debouncer, profile from the device, state to the LEDs, binding to the runner |
| action runner, `singlekey/actions.py` | none; keys held on the host | `run`, `run_step` | HID |
| LED engine, `singlekey/leds.py` | held colour, flash and its deadline, buffers | `set_profile`, `set_hold`, `flash`, `boot_frame`, `render` | pixels |
| NVM store, `singlekey/nvmstore.py` | the region, a status | `load`, `save`, `save_config`, `stored_length`, `read_blob` | flash, which outlives a reset |
| blob codec, `singlekey/blob.py` and `cli/internal/blob` | none | `decode`, `encode`, `Validate` | store, protocol, host |
| live configuration, `Device` in `code.py` | `config_obj`, `_status`, length of the LED chain | `commit`, `set_active`, `restore_defaults`, `fire`, `_apply_profile` | store, gesture, LEDs |
| protocol, `singlekey/protocol.py` | upload in progress (declared length and checksum, chunks, stamp), `events_enabled` | one handler per command, `_handle_upload_line`, `tick` | device |
| line reader and main loop, `code.py` | receive buffer, `now`, last frame, last display | `read_lines`, `write_lines`, one pass | all of the above |
| Ascii85, `singlekey/a85.py` and `cli/internal/wire` | none | encode, decode, `encoded_len` | both ends of the port |
| connection, `cli/internal/device/device.go` | receive buffer | `Command`, `Drain`, `readResponse`, `WriteBlob`, `autodetectFrom`, `WatchEvents` | the port |
| command line, `cli/cmd/kb2040ctl`, `cli/internal/patch`, `json.go` and `keynames.go` | a downloaded configuration, a file | download, upload, get, set, use, validate, defaults; to and from JSON, one value replaced along a path | the connection |

The behaviours that are hard, and what makes each component correct:

- **The clock wraps.** Every measured interval (debounce, hold, timeout) must be the real one
  across a wrap, up to half the period, and must not lock anything up beyond it.
- **The key bounces and is looked at only once a pass.** Accepted edges are spaced; the debounced
  level always ends up right; what fires is what the true length of the hold stands for, also when
  a command changes the profile in the middle of the hold.
- **Power can fail inside a flash write.** The next boot finds the old configuration, the new one,
  or runs on the defaults; never a mixture. What was answered `OK` is not lost.
- **A command can fail half-way.** What runs, what is stored and what is reported must not part.
- **A client dies in the middle of an upload.** The port recovers; the next client's upload still
  arrives, whole, whatever the dead one left; every command gets one terminating line.
- **The loop blocks** while a binding runs: the timeout must spare data that has arrived.
- **The LEDs are painted by integer arithmetic with the time the pass began.** Every byte must be
  one; a flash must be seen, and be brief, however long its binding blocked; the startup sweep
  must light every pixel and end.
- **The command line reads, edits and writes back** the whole configuration: what nobody asked to
  change must not change, through JSON and back, whatever fails in between.
- **Replies arrive late**, with events between them. A client must not take the answer to an earlier
  command for its own.

`PROJECT.json` lists each of these at its line, with the property that covers it.

## 2. Modules

| module | what it models |
|---|---|
| `Ticks` | `ticks.py`: the wrapping difference and sum, and `max(0, ...)` of the difference |
| `Debouncer` | `keystate.py`: `Update` is `Debouncer.update`; the edge it returns is `Accepts` with the new level |
| `ColorTap` | `colortap.py`: `StateFor` is `_state_at` as a function of the time held; a profile is its timings, its overflow mode and its number of slots |
| `ColorWheel` | abstract: a pressed key shows TAP, then the colours one after the other as a countdown expires; letting go fires what shows. No clock, no stamps |
| `KeyInput` | the loop seen from the key: `Elapse`, `MoveSwitch`, `Poll` (`code.py:232-261`) and `SwitchProfile` (`_apply_profile`); composes `Debouncer` and `ColorTap`, implements `ColorWheel` |
| `NvmStore` | `nvmstore.py` over a row of cells, each the i-th share of a blob, erased, or junk; `Torn` is what power loss can leave of a write |
| `AtomicConfig` | abstract: storage and program change together and as a whole; power loss while storing leaves old, new or nothing readable; a boot runs what is stored or the defaults |
| `DeviceConfig` | `Device` in `code.py` with the handlers of `profile`, `write` and `defaults`: `Commit`, `SetActive`, `RestoreDefaults` up to the write, `Finish` from it on, `SetExtCount` in it, which may raise, `PowerLoss` between or after, `Boot`; implements `AtomicConfig` |
| `Protocol` | `protocol.py`: `handle_line`, the upload state machine, `tick` |
| `ConfigPort` | the loop seen from the port and its clients: `StartPass`, `ReadLines`, `HandleNext`, `EndPass`; `SendCommand`, `SendChunk`, `Interrupted`, `Leave`; composes `Protocol` with the loop and the clients |
| `Firmware` | one pass of the loop with everything key and commands share: edges (`StartPass`), a binding run step by step (`Fire`, `PressKeys`, `ReleaseAll`, `OtherStep`, `FinishBinding`), `Show`, the commands that act on the device (`CmdProfile`, `CmdReplace`, `CmdTest`), `Render`, and what ends `main()` (`DivideByZero`, `NotText`); `Caught` is every handler of what a binding raises |
| `Leds` | `leds.py` and what `code.py` has it do: the sweep (`BootFrame`, `Sleep`, `EndSweep`), then passes (`StartPass`, `KeyFires`, `Show`, `TestFires`, `SetProfile`, `Frame`) with the clock, colours as bytes, both buffers and the chain |
| `Ascii85` | `a85.py` and `wire/ascii85.go`: both encoders and decoders over the constant radixes `BYTE` and `RADIX` (256 and 85), and the library the host's stands on |
| `BlobFormat` | what both blob codecs share: limits, steps, bounds-checked reading, 16-bit numbers, the checksum |
| `Blob`, `HostBlob` | `blob.py`; `codec.go` with the validation of `config.go`, one operator per function |
| `Codecs` | both codecs at work on what can reach them: strings and texts that grow by one symbol, and a blob the host wrote that is then padded, cut short, damaged, or damaged and sealed again |
| `Link` | `device.go` as one process after the other uses it, against a board that answers late: `Open`, `Drain`, `Send`, `WriteBlob`, `SendData`, `ReadResponse`, `Deadline`, `Timeout`, `Watch`, `Interrupt`; the board's side is `Handle`, `BoardTimeout` and `Emit` |
| `JsonNode` | what `encoding/json` makes of a document in `any`: nodes, and texts as sequences of a constant `Character` |
| `JsonConfig` | `json.go` and `keynames.go`, one operator per function: names and numerals, rendering with `omitempty` and nil slices, the shapes that `strictUnmarshal` takes (`IsStep`, `IsBinding`, `IsProfile`, `IsConfig`), and parsing |
| `Patch` | `patch.go`: the nodes along a path (`Along`), `Get`, `set` and what a word of the shell means in the place of an old value (`coerce`) |
| `Host` | `commands.go`: each command a process that starts, connects, reads, edits or builds, validates and sends (`Download`, `Upload`, `GetValue`, `SetValue`, `Tell`, `Test`, `Look`, `RunValidate`), that may give up anywhere while the board still acts on what was sent, or loses power (`BoardActs`, `PowerLoss`); composes `JsonConfig` and `Patch` with the validation of `HostBlob` |
| `MC*` | values of the constants for TLC |
| `KeyInputProofs`, `UploadProofs`, `ConfigPortProofs`, `FirmwareProofs`, `LedsProofs`, `Ascii85Proofs`, `CodecsProofs`, `HostProofs` | the theorems; `UploadProofs` has those of `DeviceConfig` and of `Link`, the two ends of an upload |

Definitions whose name starts with `Mut` are deliberately wrong variants of the definition that
follows them, the kind of bug the code might have; nothing uses them. Each property was seen to
fail when one of them takes the place of the right definition.

State and code correspond by name: `pressed` and `lastChange` are `Debouncer.pressed` and
`_last_change` (`NoTick` for `None`); `profile`, `tapPressed`, `pressAt` are `ColorTap`'s `profile`,
`_pressed`, `_press_at`; `shown` is `last_display`; `live` is `Device.config_obj`, `applied` the
configuration whose profile the last `_apply_profile` handed out, `status` is `Device._status` and
`storeStatus` is `NvmStore.status`; `receiving` says `Protocol._buf` is not `None`, `text` is its
join. `ext_count` is
`Device._ext_count`. Ghost variables, which the code does not have, are `age`, `fired`, `owed`, `reply`, `silence`,
`prompt`, `handled`, `refused` and `heldUnder`; only properties read them (`age` also bounds a hold, and
`silence` tells `prompt` of a pause).

`Firmware` stands on the other modules: its gesture is the wheel that `KeyInput` is shown to
implement, where a look at the clock finds the hold at the state it was in or at any later one
(`Later`); a command that stores a configuration is one step, which `DeviceConfig` takes apart;
its lines are complete commands, which `ConfigPort` delivers. `showing` is what `display` returns
if it is called now, `keyDown` the debounced level, `hold` and `flash` the fields of `LedEngine`,
`ext` and `ext_count` the chain of `Device`. An exception no handler catches sets `phase` to
"dead" when it is the division by zero, to "garbled" when it is bytes that are no text.

`Link` has the board of `ConfigPort` without its clock, since no client can know when it answers:
every line of an answer names the command it belongs to, and a ghost, `mine`, says whether that is
the call in progress (`BeginCall` disowns what is under way). `buf` is `Conn.buf`; `port` is what
the driver holds, and may still hold for the next process (`Forget` is one that does not);
`left` and `ruined` are what `Protocol` still expects of an upload. `quiet` is a ghost too: at the
last drain the board had nothing left to handle, so that nothing can still come of an earlier call.
`stored`, `answered` and `upMine` complete the picture of a call for the properties. `Fail` goes
from the quick probe to the patient one; `Die` is a process killed anywhere, `Interrupt`
is Ctrl-C in `watch`, whose `events off` never gets through.

`Leds` takes a pass apart where time can go by: `phase` says how far the sweep or the pass has come,
`Elapse` lets a millisecond pass anywhere in it, and `Fire` lets a binding block. `start` and `swept`
are the locals of `startup_sweep`, `now` and `last_frame` those of `main`; `flash` is `_flash` with
`_flash_until`, `onboard` and `ext` are the buffers, `chain` is what `push_pixels` last wrote to the
pixel object. `age`, `lag`, `frame_age` (the true time since the flash, since `now` and since
`last_frame`), `seen` and `spare` are ghosts; `spare` also bounds a pass. Which binding fires when, and
what a hold shows, is `Firmware`'s: here every one may come.

`Host` has what a person sees of the system. `board` is the configuration stored, or `Unreadable`; `file`
the one file the commands write and read, with what is known of where it comes from; `sent` what the
board has got and not carried out, which outlives the process. Calls are answered by their own answers,
which is what `Link` shows of a connection in step, and a blob arrives as the configuration it was made
of, which is what `Codecs` shows. A text is a sequence of characters, or of whole words where their letters
do not matter (`overflowNames`, modifiers); numerals and colours are spelt digit by digit, since parsing is
what could go wrong with them. A segment of a path is the name of a field or, when it is a number, the place in
a list. Numbers are integers: one that is no integer of the expected width is a negative one. A word of the shell is what it
is as text, as JSON and as a number to Go (`Word`, `GoNumber`), which takes more than JSON does. Left out are upper and lower case of names and of
JSON keys, the spaces the host trims, text behind a JSON document, quotes and escapes within texts, and
a file that is only partly written.

What is abstracted elsewhere: lines are whole (a drain that cuts one in half leaves text before the next
terminator, or spoils it, which fails the call); a blob is a name, and its bytes are cells that belong to it, so that a checksum
is modelled by what it detects, that the cells are not all of one blob (`Codecs` has the bytes); a line of an upload is a
sequence of pieces, and only the declared text has the declared checksum; the text of replies is
reduced to their kind. A 16-bit checksum that two texts share by chance is outside the models.

## 3. Runs

| run | shows | bounds |
|---|---|---|
| `key_input` | `FiresTrueState`: what fires is what the true length of the hold stands for, across the wrap; `EdgesAreTrue`: which edges count and which do not; `WheelSpec`: the display is the wheel of `ColorWheel`; `KeyRecovers`: a switch that stays put is believed in the end | clock of 16 ticks, debounce 2, polls at most 4 ticks apart, twice the debounce time, so that a press and its release can fall between two (a binding that blocks), holds up to 7 (half the period less one), one profile per overflow mode, two slots each |
| `device_config` | `OkIsDurable`, `OkStatusIsTrue`, `AtomicSpec`, also when the chain cannot be rebuilt | region of 4 cells; 7 blobs: two lists with both profiles active, a shorter one, one too large to encode again, one too large to store; chains of two lengths; profile numbers -1..2 |
| `config_port` | `OneTerminator`; `GoodUploadsArrive`: an upload sent as declared, to a port with none under way and without a long pause, ends with its last character and is stored unless it is refused; `WaitingLineSavesUpload`, `AbandonedSoon`; `PortRecovers`: once the clients are gone, whatever they left, the port takes commands again | clock of 12 ticks, timeout 3, passes of 0 or 1 tick, two waiting lines, an upload of two lines, and one of a line that the device refuses; lines of other clients that are too long for what is left; blank lines, which nothing but the theorems has, would double it |
| `firmware` | `LedsFollowGesture`: the held colour is that of the gesture when a frame is due; `FiresColourShown`: a release fires what that hold could show; `NoKeyStuck`, `ChainFits`: failing steps and failing rebuilds leave nothing wrong behind; `LoopComesRound`: as long as no profile in force has a dwell of zero and every line is text, the loop comes back to the port, whatever a binding raises | three profiles (two slots, clamped, with a chain cut off at the limit; one slot with a dark position; dwell zero), three configurations, one of them too large to encode again, numbers -2..2, two lines a pass |
| `codecs` | `BytesTravel`: what is sent arrives, complete with its last line and not before; `TextsReadAlike`: no text means two things, and counting its characters frames it; `HostBlobsAreRead`: what the host writes the device takes, at every limit; `DamageIsSeen`: a missing end or a changed byte is, except a changed length that says less than there is, under which a checksum over other bytes is compared with yet others, and can fit; `HostReadsWhatRuns`: what the device takes the host reads the same; `RewriteKeeps`: storing again loses nothing | radixes 5 and 4, lines of 3 characters, all strings of bytes up to 5 and all texts up to 6; 16 configurations at and beyond limits of 2; every single-byte change to one of 6 values that mean something as a count, type, length or offset |
| `link` | `AnswersAreOwn`, `InSync`, `UploadsAreStored`: a call that began when the board owed nothing takes its own answer and leaves nothing behind, and an upload reported as done is stored; `ProcessEnds`: every process ends or watches | seven programs, those of the commands; an upload of 2 data lines, a download of 1; 3 lines on their way to the board; an event is added when nothing else is on its way back |
| `leds` | `LedsTypeOK`: every byte painted is one; `EveryPixelLights`: the sweep lights each pixel, each in a colour of its own, whatever the brightness; `FlashConfirms`: no flash goes out before a frame has shown it, and it is on exactly while it is younger than its duration when the pass begins; `SweepEnds` | clock of 20 ticks, frames of 2, flashes of 4, a sweep of 6, a breath of 4; passes of one tick, three with a binding; chains up to 16 pixels |
| `host` | `CommandAllOrNothing`: what the board stores is what the command wants of what was there, or nothing readable after a power cut, also when the process has given up; `HostTypeOK`: only what the host validates is sent to be stored; `GoodFilesUpload`: what `validate` passed, or was downloaded of a configuration that validates, is not refused; `GetThenSetKeeps` | two commands; a region of 100 bytes, two profiles, slots and steps; a board with every form of a step, codes without a name and a code with two, and configurations of another program that the host would not write (a dwell of zero, an empty text, profiles that share their bytes and no longer fit when written again); 8 files and 19 edits on both sides of what is taken |
| `rejects_only_bounces` | expected violation, finding 1 | as `key_input` |
| `colour_shown_fires` | expected violation, finding 2 | as `firmware` |
| `configurations_are_safe` | expected violation, finding 3 | as `firmware` |
| `upload_ok_means_stored` | expected violation, finding 4 | as `link` |

Why the bounds are enough: 16 ticks let a hold cross the wrap at every phase, and `age` runs up to
a whole period, past the half where the difference turns negative. With two slots a hold of 7
passes the tap window, both colours, the dark slot, and comes round again. Four cells let a blob
of three be torn at every cell over a blob of two, three or four. Two waiting lines are enough for
a line of a dead client to stand before one of its successor, and `ConfigPort` lets `Interrupted`
strike after any line; a timeout of three and passes of one leave an upload pauses of up to two ticks. In `Firmware`, two profiles of different length, overflow and chain are
enough for a hold, a colour or a chain of the one to be left over under the other, and two lines
in a pass for a second switch to undo the first before the gesture is looked at. In `Codecs`, five
digits of radix 4 just hold four bytes of radix 5 (1024 against 625), so that a group can overflow
as it can with 85 and 256, and five bytes and six characters pass the end of the first group. In
`Link`, three waiting lines are the whole of an upload, or a line of each of three processes, of
which two may have died; one event in the port suffices for a reply to come behind it. In `Leds`, the
clock starts anywhere, so that sweep, flash, pass and frame each cross the wrap at every phase; a
flash of two frames is lit in one frame or in two, and a binding of three ticks leaves the time of its
pass further behind than a frame. In `Host`, two commands are a download and the upload of its file, a
`get` and the `set` of what it printed, or a command that meets what an earlier one left on its way; two
profiles are what splicing one of them needs. None of these bounds limits the theorems.

Fairness. `KeyFairSpec`: the loop keeps polling and time passes (weak fairness of `Poll` and
`Elapse`); nobody is assumed to touch the key. `PortFairSpec`: the loop keeps running (weak fairness
of its steps: `main` never leaves `while True`), and time passes in it (strong fairness of a pass
that takes time, since other passes may take none in whole milliseconds). Clients are not assumed
to do anything. `FirmwareFairSpec`: the loop keeps running (weak fairness of its steps, of which one
is always possible until `main()` ends); no command has to come. `LinkFairSpec`: the board's loop
reads on (weak fairness of `Handle`), and a process that runs takes its next step, a deadline
passing included (weak fairness of each client step); nobody has to start a process, stop watching,
send an event, or let the driver forget anything. `LedsFairSpec`: the sweep runs on (weak fairness of
`BootFrame`, `Sleep` and `EndSweep`), because `startup_sweep` is a loop without a condition but the clock's
and `time.sleep` returns; the loop that follows needs no fairness. `HostSpec` has none.

`CHECK_DEADLOCK` is switched off for `Firmware`, where an exception may end `main()`, and for `Codecs`,
which is done when an input is as long, or as damaged, as it gets, and for `Host`, which stops after the
last command.

## 4. Proofs

All theorems are safety results, proved for every period, timing, profile set, blob set and queue
bound the named assumptions of the modules allow.

- `KeyInputProofs`: `KeyTypeOK`, `HeldIsTrue`, `FiresTrueState`, `EdgesAreTrue` and `WheelSpec`. None is
  inductive: the invariant `KeyIInv` adds that the stamp of the last edge lies exactly `age` ticks back on
  the circle (`AgeIsDistance`), that a hold began at that edge (`HoldFromLastEdge`) and is no longer than
  `HOLD_LIMIT`. `KeyPathIsWheel` says that every step of the key path is a step of `ColorWheel` or
  stutters, for holds shorter than half the period (`HOLD_LIMIT < HalfPeriod`). The work is in one
  millisecond of a hold: quotient and remainder of the time past the tap window move on together. All of
  it stands on `ElapsedIsExact`: adding `d < HalfPeriod` to a tick and taking the wrapped difference
  gives back `d`.
- `UploadProofs`, the board: `ConfigTypeOK`, `OkIsDurable`, `OkStatusIsTrue` and `ConfigIsAtomic`
  (refinement of `AtomicConfig`). The invariant ties `applied`, the image and the status together;
  the central lemma `TornIsOldOrNew` says a torn write over a whole blob leaves the old blob, the
  new one, or nothing that decodes.
- `ConfigPortProofs`: `PortTypeOK`, `OneTerminator`, `WaitingLineSavesUpload`, and, under
  `WRITE_TIMEOUT_MS + 2 * PASS_LIMIT < HalfPeriod` (`PassesAreShort`), which holds by far on the
  board (5 s and tens of seconds against 74 hours), `AbandonedSoon` and `GoodUploadsArrive`. The invariant
  for `AbandonedSoon` relates the ghost `silence`, the stamp of the last line and the phase of the pass.
  `GoodUploadsAlwaysArrive` needs `ArrivalIInv`: of a prompt upload there is one header in the port, and
  behind it only its own lines (`OneHeader`); what the board has, what waits and what the client still has
  are the declared text, in that order (`RestIsComing`); and when no line waits, the silence is at least the
  time since the last one's pass began, less a pass (`NextIsInTime`), so that the timeout cannot strike first. It also
  assumes that the bound on the ghost `silence` reaches as far as it is asked about
  (`WRITE_TIMEOUT_MS - PASS_LIMIT <= SILENCE_CAP`).
- `FirmwareProofs`: `FirmwareTypeOK`, `NoKeyStuck`, `ChainFits`, `LedsFollowGesture` and
  `FiresColourShown`. `NoKeyStuck` needs that a held key belongs to the step still to be finished;
  `ChainFits`, that the remembered count may be wrong only when there is no chain; `LedsFollowGesture`,
  `LedInv`: past the display, the state told last is the one that shows or the hold has been
  abandoned, and only a pressed key leaves one behind, so that the next press, which needs a release
  and a display in between, is always told; `FiresColourShown`, that the profile in force is the one
  `active` names unless a `profile` was refused, and the one the hold that still shows began under.
- `UploadProofs`, the connection: `LinkTypeOK`, `AnswersAreOwn`, `InSync` and `UploadsAreStored`, for all programs and
  lengths. The invariant `LinkIInv` follows a call that began with nothing owed (`CallInv`): every line
  under way is its own or an event (`OnlyOwn`); its command travels before anything is answered, and
  behind it only its data (`CommandFirst`); the board expects just the data sent and still to send
  (`DataFits`); and an `OK` is the last word, said of an upload when it is stored (`OkEndsCall`). The
  lemma `LineRead` says what remains true of buffer and port when a line is taken off, whether it was
  in the buffer or a read had to bring it.
- `LedsProofs`: `LedsTypeOK`, that no profile, moment or fade makes a byte of anything but 0 to 255
  (`ScaledColor`, `BreatheByte`, `EnvelopeByte`); `EveryPixelLights` for chains of up to 64 pixels, because
  the places of two pixels on the wheel are at least 4 apart (`SpokesApart`), places that far apart
  differ by at least 12 in some component (`WheelApart`), and a brightness of 48 or more keeps a
  difference of 12 a difference (`ScaleApart`); and `FlashConfirms`, under `FlashAssumption`: a pass that
  runs no binding is shorter than a flash by a frame, and no pass takes half the period. Its invariant
  `FlashInv` says where the stamps of the pass and of the last frame lie (`PassInv`), that the deadline is
  exactly the flash's duration past a tick `age` back (`DeadlineInv`), and that a flash no frame has shown
  was set in this pass, or not longer ago than a frame and a short pass (`UnseenInv`).
- `Ascii85Proofs`, for all radixes with `BYTE^4 <= RADIX^5`, every string of bytes and every text.
  `GroupComesBack`: a group of one to four bytes, encoded, padded and decoded, is the same bytes, and never
  overflows. Each digit cut off and padded again moves the number up by less than the digits can say
  (`PaddedReach`), which is at most what the bytes cut off can say, so that the bytes kept do not change
  (`TopBytes`). From there to whole texts by induction (`Induction`, `SequenceInduction`: a set of numbers
  or of sequences that holds the first and with each the next holds all, from the least number outside of
  it), over a decoder run character by character (`RunAppend`) and data encoded group by group
  (`FlattenAppend`): `HostAgrees` (what the device decodes the host does, in the room it sets aside),
  `CountFrames` (five digits are four bytes, so that the count of characters fixes the count of bytes),
  `UploadArrives` and `AnswerComesBack` (lines and short forms of zero groups change nothing).
- `CodecsProofs`: all six properties of `Codecs`, for every radix, every limit of the format below 256, every
  set of configurations of the Go types (`Configuration`, texts of ASCII) and every set of damaging values,
  provided that a length fits its two bytes (`InputAssumption`). None of it is by the cases the run has:
  - `HostReadsAlikeDevice`: from any bytes, step by step, binding by binding, profile by profile
    (`StepAlike`, `BindingAlike`, `ProfileAlike`, each over `RepeatAlike`), and because both compute one
    checksum over the same bytes (`ChecksumsAlike`, `TrimmedAlike`).
  - `RoundTrip`: what stands at a place in the buffer is read there (`At`; `StepAt`, `BindingAt`,
    `ProfileAt`), and the offset table says where (`OffsetsAre`). With `DecodeRuns`, that what is decoded
    keeps the limits the decoder enforces (counts, lengths and modes; not the ranges of timings, chain and
    delays, which only the host checks), it gives `StoredAgainIsSame`.
  - `HostWritesAlike`: the host's writer, which predicts the length, and the device's, which adds it up,
    write the same bytes (`ValidRuns`, `HostWritten`).
  - `ChecksumSeesOneByte`: taking in a byte can be undone when byte and result are known, since the
    polynomial is odd and a shift that flips bits shows it in the lowest one (`EightShiftsInjective`,
    `SumsInjective`, `BytesInjective`): two strings that differ in one byte leave the checksum apart at that byte,
    and equal bytes behind it keep it apart (`AllApart`, by the length of a stretch).
  - `CodecInvariant`: no property says how a damaged blob came about, so the inductive `CodecInv` does: it is
    what the host encoded, or that with two bytes behind it, a proper prefix, or that with one byte
    changed; resealed, it is just bytes.
- `HostProofs`: `HostTypeOK`, `GoodFilesUpload`, `GetThenSetKeeps` and `CommandAllOrNothing`, for all tables of
  names, limits, boards, files, edits and paths that the assumptions allow, and any number of commands. Three
  results about the operators come first:
  - `ConfigBack`: every configuration the Go types can hold whose format is the present one and whose modes have
    names (`Named`; a mode without one comes back as the first), rendered and parsed, is the same configuration
    or is refused, and is not refused when it validates. What can be refused is a text of length zero, whose field
    `omitempty` leaves out. It is built up as the documents are: digits and numerals (`HexDigits`), key, media
    and modifier names, which have to be told from numerals, colours, steps, bindings, profiles.
  - `SetWhatWasGot`: what `get` prints for a path, given to `set`, leaves the document as it was, wherever the
    path leads.
  - `SetChangesOnly`: an edit of a rendered configuration, if it is read back, differs from it only where the
    path leads, down to the binding, and a number given is the number found.

  Documents are trees of any depth, and no induction over them is to be had; they are the members of sets that
  hold the nodes below each of their nodes (`Closed`, `Tree`), which is enough to follow a path: the nodes along
  it are in the set, and an edit is put together from its end back, one level at a time (`Along`, `edited`),
  by induction on numbers.

  The invariant `HostInv` is needed because a command takes several steps and outlives its process.
  `StoredOK`: everything stored or on its way is the device's to take (that the latter also validates, and so fits, is part of `HostTypeOK`), which is what makes `download` and the
  rendering by `get` well-defined. `FileOK`: a file still is the rendering of what was downloaded into it, what
  `validate` passed still passes, and no file is of both kinds. `StageOK`: from the answer to `read` until its
  own message is sent, a command works on what is stored still (`board = before`), the fact everything
  about splicing and editing rests on; it holds because nothing of an earlier process is under way then.
  `SentOK`: what is on its way is what its command wants of the board as it is, however long it takes to
  arrive. `AnswerOK`, `ShownOK` and `KindOK` relate the answer, what `get` printed and the file sent to the same. `RestoreOK`: a `set` of
  what was got sends back exactly what is stored.

The recursive function of the checksum and the folds of the decoders are reasoned about as the
functions they are: that each exists is proved (`FoldExists`, `GoesUpExists`, `TakesInExists`), and induction is over sets of
numbers, so that no theorem of the library that takes an operator is needed.

Assumptions. Each is a named `ASSUME` of the module that declares the constants, and a checked run evaluates it
(`TicksAssumption` and its like). The ones with something to argue about: `NamesAssumption` says of the tables
of `keynames.go` what they fulfil: no name is empty or starts like a hexadecimal numeral, codes fit their
width, only 40 (`ENTER`, `RETURN`) and 44 (`SPACE`, `SPACEBAR`) have two names, and for these the table fixes one.
`HostAssumption` says that a blob has one byte for the number of profiles, that the factory configuration fits, that what is on the board at first, or is
written there by another program, is what the device's decoder delivers, and that a file written by hand is called
by the kind it is of (`of`): one taken as a profile is not called a configuration, nor the other way round. It
excludes no document, since the two structures have no field in common and a document without fields is neither.

Only model-checked: the liveness properties `KeyRecovers`, `PortRecovers`, `LoopComesRound`, `ProcessEnds` and `SweepEnds`,
which need fairness and are out of the proof system's reach.

## 5. Findings

1. `keystate.py:30`: the signed difference rejects an edge that comes half a period to a whole
   period (3.1 to 6.2 days) after the last one, which `keystate.py:12` says only bounces are.
2. `code.py:92`: `set_active` changes `config_obj.active` before the encoding that refuses a negative
   index; after `profile -1` (answered `ERR`) the LEDs show one profile and the key fires another;
   `colortap.py:4-5`.
3. `blob.py:247`: `decode` takes a dwell of zero; the first hold past the tap window then divides by it
   outside every handler and ends `main()`; `docs/format.md:134-141`.
4. `device.go:338`: an upload does not drain. When a `version` that a dead process or the quick probe
   sent is answered after the drain, the handshake takes that `OK`, its own `OK` stays in the port, and
   `WriteBlob` returns it as the answer to the upload ("0 bytes"), whatever the board makes of the data;
   `device.go:346`. On a connection in step this cannot happen (`UploadsAreStored`).

Seen while modelling, without a run of their own:

- `code.py:84-89`: an upload is stored and live when `_apply_profile` rebuilds the chain; if that raises
  (`code.py:125-128`), the answer is `ERR`, and the device is not "exactly as it was", as `docs/format.md:212-214` says.
  `Finish` of `DeviceConfig` and `Complete` of `Protocol` can go this way; `AtomicSpec` says that storage and program still
  change together.
- `device.go:193`: a board held up by a binding answers an earlier `version` after the drain. The handshake takes that
  answer, and the next command the handshake's, unless that has come by the time of its own drain; `plan.md:460-461` calls the connection self-resynchronising. Finding 4 is what this does to an upload, and
  `AnswersAreOwn` says when it does not happen.
- `commands.go:390-396`: Ctrl-C closes the port of `watch` (`Interrupt`), and only then is `events off` written, so that
  the board streams on; `device.go:393` means to leave it quiet. The next client skips the events.
- `code.py:91-95`: `set_active` writes the region but does not refresh `_status`, so a board whose profile
  was switched reports `blank` (or `corrupt`) over a good blob, which `docs/manual.md:329` says means that
  nothing was ever written. `OkStatusIsTrue` covers the status a client relies on.
- `code.py:264`: lines are stamped with the time the pass began, so that an upload whose header was handled
  in a pass that blocked longer than the timeout can be given up with no silence at all, against
  `docs/format.md:215-216`. `GoodUploadsArrive`, `WaitingLineSavesUpload` and `AbandonedSoon` say what does hold.
- `leds.py:19`: the floor of the breath is there so that the board is "never fully dark", but under the
  factory profile's brightness of 64 its colour of 24 is scaled to 6 and then to 0 at the floor, so
  that it is.

## 6. Not modelled, and what is left

Not modelled because there is nothing in it for these tools: `boot.py` (three calls with constant
arguments), port discovery (a call to the serial library), flags and printing of the command line,
`defaults.go` (a constant that only tests use), scripts, documentation, the enclosure.

What could be added, in this order:

1. Composition: that the board of `Link` is what `ConfigPort` implements, the clock hidden, so that the
   assumption on late answers in `Link` follows from the loop.
2. What is lost while a binding blocks the loop (`code.py:149`): a press and its release that both fall
   into it leave no trace in the code. `FiresTrueState` and `KeyRecovers` say that what is seen late is
   still taken for what it is; a count of what is lost would be a measure, not a property.
