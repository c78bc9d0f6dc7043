-------------------------------- MODULE Host --------------------------------
(***************************************************************************)
(* src/cli/cmd/kb2040ctl/commands.go: the commands as a person runs them   *)
(* one after the other, each a process that connects, reads, edits or      *)
(* builds a configuration and sends it, and that may fail or die at any    *)
(* point; the board stores what arrives, now or after the process has      *)
(* given up, and may lose power as it does.                                *)
(*                                                                         *)
(* Calls are answered by their own answers, as Link has them on a          *)
(* connection in step; a blob arrives as the configuration it was made of, *)
(* as Codecs has it.                                                       *)
(***************************************************************************)
EXTENDS JsonConfig, Patch

CONSTANTS
    DefaultConfig,      \* the factory configuration
    Boards,             \* configurations the board may hold at first, or Unreadable
    Foreign,            \* configurations another program may upload: the device takes them, the
                        \* host need not
    HandWritten,        \* files a person may write, and whether meant as "all" or as a "profile"
    Paths,              \* the paths given to `get'
    Edits,              \* the paths and words given to `set'
    Numbers,            \* the profile numbers given on the command line
    Unreadable,         \* nothing stored that decodes
    MAX_COMMANDS        \* bound: commands run

\* What the device's decoder takes.  Profiles may share bytes of a blob, so that one that is stored
\* need not fit when it is encoded again.
DeviceTakes(c) ==
    /\ c.format_version = FORMAT_VERSION
    /\ Len(c.profiles) \in 1 .. MAX_PROFILES /\ c.active \in 0 .. Len(c.profiles) - 1
    /\ \A i \in DOMAIN c.profiles :
          LET p == c.profiles[i]
          IN  /\ Len(p.name) <= MAX_NAME_LEN
              /\ p.overflow <= OVERFLOW_CLAMP /\ p.idle_mode <= IDLE_RAINBOW
              /\ Len(p.slots) \in 1 .. MAX_SLOTS
              /\ \A b \in {p.tap} \cup Range(p.slots) : Len(b.steps) <= MAX_STEPS

\* A blob has a byte for the number of profiles; a file that holds one thing is not meant as the
\* other; and what the board holds is what its decoder delivers.
ASSUME HostAssumption ==
    /\ MAX_PROFILES \in 1 .. 255
    /\ Numbers \subseteq Int
    /\ MAX_COMMANDS \in Nat
    /\ Unreadable \notin Config
    /\ \A c \in {DefaultConfig} \cup Foreign \cup (Boards \ {Unreadable}) : c \in Config /\ DeviceTakes(c)
    /\ EncodedSize(DefaultConfig) <= NVM_SIZE
    /\ Paths \cup {e.path : e \in Edits} \subseteq Seq(Segment) \ {<<>>}
    /\ \A f \in HandWritten :
          \/ f.of = "all" /\ ~ProfileFromJSON(f.doc).ok
          \/ f.of = "profile" /\ ~(FromJSON(f.doc).ok /\ Validate(FromJSON(f.doc).val))

VARIABLES
    board,              \* the configuration stored on the board, or Unreadable
    file,               \* the file the commands read and write: its document, what it is a document
                        \* of, what was downloaded into it, and whether `validate' has passed it
    shown,              \* what `get' printed last: the path, the value, and the board it was read from
    cmd,                \* the command that runs, with the file as it has read it
    pc,                 \* "idle", "started", "connected", "waiting" or "done"
    before,             \* the board as the command found it, Unreadable before it has
    sent,               \* what the board has been sent and not yet carried out: the command and what
                        \* is to be stored; it outlives the process
    reply,              \* the board's answer, "none" until there is one
    result,             \* how the command ended: "ok", "failed", or "none" while it runs
    refusal,            \* what the host refused: "command", "document", "configuration", or "none"
    commands            \* how many commands have been run

hostVars == <<board, file, shown, cmd, pc, before, sent, reply, result, refusal, commands>>

NoCommand == [name |-> "none"]
Unsent == [cmd |-> NoCommand, store |-> Unreadable]
NoFile == [doc |-> NoNode, of |-> "all", from |-> Unreadable, vetted |-> FALSE]
Untouched == <<board, file, shown, before, sent, commands>>

HostInit ==
    /\ board \in Boards
    /\ file = NoFile
    /\ shown = [path |-> <<>>, value |-> Printed(Null), from |-> Unreadable]
    /\ cmd = NoCommand
    /\ pc = "idle"
    /\ before = Unreadable
    /\ sent = Unsent
    /\ reply = "none" /\ result = "none" /\ refusal = "none"
    /\ commands = 0

-----------------------------------------------------------------------------
(* The process.                                                            *)

Commands ==
    [name : {"download", "upload"}, profile : Numbers, data : {file}]
      \cup [name : {"get"}, path : Paths]
      \cup {[name |-> "set", path |-> e.path, value |-> e.value] : e \in Edits \cup {x \in {shown} : x.path # <<>>}}
      \cup [name : {"use"}, profile : Numbers]
      \cup [name : {"validate"}, profile : Numbers, data : {file}]
      \cup [name : {"defaults", "look", "test"}]

Start(c) ==
    /\ pc = "idle"
    /\ commands < MAX_COMMANDS
    /\ commands' = commands + 1
    /\ cmd' = c
    /\ pc' = "started"
    /\ UNCHANGED <<board, file, shown, before, sent, reply, result, refusal>>

End(outcome, why) ==
    /\ pc' = "done"
    /\ result' = outcome
    /\ refusal' = why
    /\ UNCHANGED <<cmd, reply>>

Fails(why) == End("failed", why) /\ UNCHANGED Untouched

\* The board answers once it has read whatever an earlier process has sent.
Connect ==
    /\ pc = "started" /\ cmd.name # "validate"
    /\ sent = Unsent
    /\ pc' = "connected"
    /\ before' = board
    /\ UNCHANGED <<board, file, shown, cmd, sent, reply, result, refusal, commands>>

\* No answer in time, a port that fails, or a process killed: at any point, with what was sent sent.
GiveUp ==
    /\ pc \in {"started", "connected", "waiting"}
    /\ Fails("none")

Running(name) == pc = "connected" /\ cmd.name = name
ReadConfig == board # Unreadable

\* Without an answer yet.
Send(store) ==
    /\ sent' = [cmd |-> cmd, store |-> store]
    /\ pc' = "waiting"
    /\ UNCHANGED <<board, file, shown, before, commands, cmd, reply, result, refusal>>

\* WriteConfig encodes what commit has validated.
Commit(c) == IF Validate(c) THEN Send(c) ELSE Fails("configuration")

Download ==
    /\ Running("download")
    /\ IF ~ReadConfig \/ cmd.profile >= Len(board.profiles) THEN Fails("command")
       ELSE /\ file' = [doc |-> IF cmd.profile < 0 THEN ToJSON(board)
                                ELSE profileToJSON(board.profiles[cmd.profile + 1]),
                        of |-> IF cmd.profile < 0 THEN "all" ELSE "profile",
                        from |-> IF cmd.profile < 0 THEN board
                                 ELSE [board EXCEPT !.profiles = <<board.profiles[cmd.profile + 1]>>, !.active = 0],
                        vetted |-> FALSE]
            /\ End("ok", "none")
            /\ UNCHANGED <<board, shown, before, sent, commands>>

\* A deliberately wrong variant: the profile takes the place of all of them.
MutSpliced(c, profile, p) == [c EXCEPT !.profiles = <<p>>, !.active = 0]

Spliced(c, profile, p) == [c EXCEPT !.profiles[profile + 1] = p]

\* What was parsed, or not.
CommitParsed(r) == IF r.ok THEN Commit(r.val) ELSE Fails("document")

\* buildConfig and commit: the whole, or one profile put in the place of the board's.
Upload ==
    /\ Running("upload")
    /\ \/ cmd.profile < 0 /\ CommitParsed(FromJSON(cmd.data.doc))
       \/ /\ cmd.profile >= 0
          /\ IF ~ReadConfig \/ cmd.profile >= Len(board.profiles) THEN Fails("command")
             ELSE \E p \in {ProfileFromJSON(cmd.data.doc)} :
                    IF p.ok THEN Commit(Spliced(board, cmd.profile, p.val)) ELSE Fails("document")

GetValue ==
    /\ Running("get")
    /\ IF ~ReadConfig \/ ~IsNode(Get(ToJSON(board), cmd.path)) THEN Fails("command")
       ELSE /\ shown' = [path |-> cmd.path, value |-> Printed(Get(ToJSON(board), cmd.path)), from |-> board]
            /\ End("ok", "none")
            /\ UNCHANGED <<board, file, before, sent, commands>>

CommitEdited(doc) == IF IsNode(doc) THEN CommitParsed(FromJSON(doc)) ELSE Fails("command")

\* runSet: read, edit the document, parse it again, commit.
SetValue ==
    /\ Running("set")
    /\ IF ReadConfig THEN CommitEdited(set(ToJSON(board), cmd.path, cmd.value)) ELSE Fails("command")

\* `profile use', `defaults': the board is told what to do.
Tell == pc = "connected" /\ cmd.name \in {"use", "defaults"} /\ Send(Unreadable)

\* `test': the board runs a binding, or it answers ERR; no configuration is read.
Test ==
    /\ Running("test")
    /\ \E outcome \in {"ok", "failed"} : End(outcome, "none")
    /\ UNCHANGED Untouched

\* `info', `profile list': the configuration is read, and nothing comes of it.
Look ==
    /\ Running("look")
    /\ IF ReadConfig THEN End("ok", "none") /\ UNCHANGED Untouched ELSE Fails("command")

\* No board is needed; a profile is judged as the only one of a configuration.
ValidParsed(r) == r.ok /\ Validate(r.val)
OnlyProfile(r) ==
    Each([format_version |-> Parsed(FORMAT_VERSION), active |-> Parsed(0), profiles |-> Each(<<r>>)])

RunValidate ==
    /\ pc = "started" /\ cmd.name = "validate"
    /\ IF IF cmd.profile < 0 THEN ValidParsed(FromJSON(cmd.data.doc))
          ELSE ValidParsed(OnlyProfile(ProfileFromJSON(cmd.data.doc)))
       THEN /\ file' = [file EXCEPT !.vetted = TRUE, !.of = IF cmd.profile < 0 THEN "all" ELSE "profile"]
            /\ End("ok", "none")
            /\ UNCHANGED <<board, shown, before, sent, commands>>
       ELSE Fails("document")

Answered ==
    /\ pc = "waiting" /\ reply # "none"
    /\ IF reply = "ok" THEN End("ok", "none") ELSE End("failed", "none")
    /\ UNCHANGED Untouched

Exit ==
    /\ pc = "done"
    /\ pc' = "idle"
    /\ cmd' = NoCommand
    /\ before' = Unreadable
    /\ reply' = "none" /\ result' = "none" /\ refusal' = "none"
    /\ UNCHANGED <<board, file, shown, sent, commands>>

-----------------------------------------------------------------------------
(* The board and the world.                                                *)

\* What the board makes of what was sent, or Unreadable where it answers ERR: a board with
\* nothing readable runs the factory configuration, and `profile' stores that; what does not fit
\* when it is encoded again it cannot store.
Outcome ==
    LET live == IF board = Unreadable THEN DefaultConfig ELSE board
    IN  CASE sent.cmd.name = "defaults" -> DefaultConfig
          [] sent.cmd.name = "use" ->
                IF sent.cmd.profile \in 0 .. Len(live.profiles) - 1 /\ EncodedSize(live) <= NVM_SIZE
                THEN [live EXCEPT !.active = sent.cmd.profile] ELSE Unreadable
          [] OTHER -> sent.store

BoardActs ==
    /\ sent # Unsent
    /\ board' = IF Outcome = Unreadable THEN board ELSE Outcome
    /\ reply' = IF pc # "waiting" THEN reply ELSE IF Outcome = Unreadable THEN "err" ELSE "ok"
    /\ sent' = Unsent
    /\ UNCHANGED <<file, shown, cmd, pc, before, result, refusal, commands>>

\* In the middle of the write, or before it; the board starts again and owes no answer.
PowerLoss ==
    /\ sent # Unsent
    /\ board' \in {board, IF Outcome = Unreadable THEN board ELSE Unreadable}
    /\ sent' = Unsent
    /\ UNCHANGED <<file, shown, cmd, pc, before, reply, result, refusal, commands>>

WriteFile(f) ==
    /\ pc = "idle"
    /\ file' = [doc |-> f.doc, of |-> f.of, from |-> Unreadable, vetted |-> FALSE]
    /\ UNCHANGED <<board, shown, cmd, pc, before, sent, reply, result, refusal, commands>>

OtherProgram(c) ==
    /\ pc = "idle" /\ sent = Unsent
    /\ board' = c
    /\ UNCHANGED <<file, shown, cmd, pc, before, sent, reply, result, refusal, commands>>

HostNext ==
    \/ \E c \in Commands : Start(c)
    \/ Connect \/ GiveUp
    \/ Download \/ Upload \/ GetValue \/ SetValue \/ Tell \/ Test \/ Look \/ RunValidate
    \/ Answered \/ Exit
    \/ BoardActs \/ PowerLoss
    \/ \E f \in HandWritten : WriteFile(f)
    \/ \E c \in Foreign : OtherProgram(c)

HostSpec == HostInit /\ [][HostNext]_hostVars

-----------------------------------------------------------------------------
(* Properties.                                                             *)

\* Types; and whatever was written by hand and whatever other programs store, what a command has
\* on its way to be stored is a configuration the host validates, so that it keeps every limit
\* of the format and fits (commands.go:219-224), and what is stored is one the device takes.
HostTypeOK ==
    /\ pc \in {"idle", "started", "connected", "waiting", "done"}
    /\ reply \in {"none", "ok", "err"}
    /\ result \in {"none", "ok", "failed"}
    /\ refusal \in {"none", "command", "document", "configuration"}
    /\ commands \in 0 .. MAX_COMMANDS
    /\ \A c \in {board, before, sent.store} : c # Unreadable => DeviceTakes(c)
    /\ sent.store # Unreadable => Validate(sent.store)

\* Two configurations differ in nothing but what a path leads to, down to the binding.
DifferIn(old, new, fields) == \A f \in DOMAIN old \ fields : new[f] = old[f]
DifferAt(old, new, i) == DOMAIN new = DOMAIN old /\ \A j \in DOMAIN old \ {i} : new[j] = old[j]

DifferAlong(old, new, path) ==
    /\ DifferIn(old, new, {IF path[1].name = "format" THEN "format_version" ELSE path[1].name})
    /\ path[1].name = "profiles" /\ Len(path) > 1 =>
          LET i == path[2].index + 1
              p == old.profiles[i]
              q == new.profiles[i]
          IN  /\ DifferAt(old.profiles, new.profiles, i)
              /\ Len(path) > 2 => DifferIn(p, q, {path[3].name})
              /\ Len(path) > 3 /\ path[3].name = "slots" => DifferAt(p.slots, q.slots, path[4].index + 1)

\* Where the path leads to a number, it is the one given.
HasNumber(c, path, word) ==
    Len(path) = 3 /\ path[3].name \in {"dwell_ms", "tap_max_ms", "ext_count", "brightness"} =>
        c.profiles[path[2].index + 1][path[3].name] = word.number.content

\* What a person wants of a command.
Achieves(c, old, new) ==
    CASE c.name = "set" -> DifferAlong(old, new, c.path) /\ HasNumber(new, c.path, c.value)
      [] c.name = "upload" /\ c.profile < 0 -> c.data.from # Unreadable => new = c.data.from
      [] c.name = "upload" /\ c.profile >= 0 ->
            /\ new.active = old.active
            /\ DifferAt(old.profiles, new.profiles, c.profile + 1)
            /\ c.data.from # Unreadable => new.profiles[c.profile + 1] = c.data.from.profiles[1]
      [] c.name = "use" -> new.active = c.profile /\ (old # Unreadable => DifferIn(old, new, {"active"}))
      [] c.name = "defaults" -> new = DefaultConfig
      [] OTHER -> new = old

\* A command does what it is for and nothing else, or nothing: what the board stores, be it after
\* the process has given up, is what the command wants of what was stored before, or nothing
\* readable where power failed; and a command that succeeds has had its effect.
CommandAllOrNothing ==
    [][/\ sent # Unsent /\ board' # board => board' = Unreadable \/ Achieves(sent.cmd, board, board')
       /\ pc \in {"connected", "waiting"} /\ pc' = "done" /\ result' = "ok" => Achieves(cmd, before, board)]_hostVars

\* A file that was downloaded from a configuration the host can write, or that `validate' has
\* passed, is not refused for what it says, and a profile is not taken for a whole
\* configuration, nor the other way round.
GoodFilesUpload ==
    pc = "done" /\ cmd.name = "upload" =>
        IF cmd.profile < 0 <=> cmd.data.of = "all"
        THEN cmd.data.vetted \/ (cmd.data.from # Unreadable /\ Validate(cmd.data.from)) =>
                /\ refusal # "document"
                /\ cmd.profile < 0 => refusal # "configuration"
        ELSE result # "ok"

\* Setting a value to what `get' has just printed for it changes nothing, and is not refused.
GetThenSetKeeps ==
    pc = "done" /\ cmd.name = "set" /\ cmd.path = shown.path /\ cmd.value = shown.value
      /\ before = shown.from /\ before # Unreadable /\ Validate(before) =>
        refusal = "none" /\ board \in {before, Unreadable}
=============================================================================
