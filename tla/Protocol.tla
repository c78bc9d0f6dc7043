------------------------------ MODULE Protocol ------------------------------
(***************************************************************************)
(* src/src/singlekey/protocol.py: the dispatcher of the configuration      *)
(* port, and its upload state machine.  A line is what it means as a       *)
(* command and, for the uploads that swallow it as data, its text, a       *)
(* sequence of pieces standing for the characters.  An upload is declared  *)
(* by length and checksum, which no other text matches; what the other     *)
(* commands do to the device is in DeviceConfig.tla.                       *)
(***************************************************************************)
EXTENDS Ticks, Sequences

CONSTANTS
    Uploads,            \* the configurations a `write' can declare
    Text,               \* Text[u]: the Ascii85 text of upload u
    Refused,            \* the uploads that device.commit raises on
    NoUpload,
    Pieces,             \* what the text of a line is made of
    WRITE_TIMEOUT_MS

ASSUME ProtocolAssumption ==
    /\ \A u \in Uploads : Text[u] \in Seq(Pieces) /\ Len(Text[u]) > 0
    /\ Refused \subseteq Uploads
    /\ NoUpload \notin Uploads
    /\ WRITE_TIMEOUT_MS \in Nat \ {0}

\* "write" is a well-formed header, "blank" a line with nothing left once sanitised, "test" a
\* command that fires a binding, "other" any line answered at once: the other commands, headers
\* that are not well formed, and lines that are no command, such as data nobody asked for.
Commands == {"write", "blank", "test", "other"}

VARIABLES
    receiving,          \* Protocol._buf is not None
    expect,             \* the upload the last accepted header declared
    text,               \* the joined chunks of _buf; its length is _got_chars
    last_rx,            \* Protocol._last_rx
    stored,             \* the last upload the device committed
    reply,              \* the terminating line the last call returned: "ok", "err" or "none"
    owed                \* commands taken so far, less terminating lines returned so far

protocolVars == <<receiving, expect, text, last_rx, stored, reply, owed>>

ProtocolInit ==
    /\ receiving = FALSE
    /\ expect = NoUpload
    /\ text = <<>>
    /\ last_rx = 0
    /\ stored = NoUpload
    /\ reply = "none"
    /\ owed = 0

\* The call returns r; taken is the number of commands it took from the line.
Return(r, taken) ==
    /\ reply' = r
    /\ owed' = owed + taken - (IF r = "none" THEN 0 ELSE 1)

reset_upload ==
    /\ receiving' = FALSE
    /\ text' = <<>>

\* A deliberately wrong variant: the header does not start the timeout, only a chunk does.
MutHandleCommand(line, now) ==
    \/ /\ line.cmd = "blank"
       /\ Return("none", 0)
       /\ UNCHANGED <<receiving, expect, text, last_rx, stored>>
    \/ /\ line.cmd \in {"test", "other"}
       /\ \E r \in {"ok", "err"} : Return(r, 1)
       /\ UNCHANGED <<receiving, expect, text, last_rx, stored>>
    \/ /\ line.cmd = "write"
       /\ receiving' = TRUE
       /\ expect' = line.of
       /\ text' = <<>>
       /\ Return("none", 1)
       /\ UNCHANGED <<last_rx, stored>>

\* handle_line while no upload is in progress.
HandleCommand(line, now) ==
    \/ /\ line.cmd = "blank"
       /\ Return("none", 0)
       /\ UNCHANGED <<receiving, expect, text, last_rx, stored>>
    \/ /\ line.cmd \in {"test", "other"}
       /\ \E r \in {"ok", "err"} : Return(r, 1)
       /\ UNCHANGED <<receiving, expect, text, last_rx, stored>>
    \/ /\ line.cmd = "write"
       /\ receiving' = TRUE
       /\ expect' = line.of
       /\ text' = <<>>
       /\ last_rx' = now
       /\ Return("none", 1)
       /\ UNCHANGED stored

\* The declared number of characters has arrived.  device.commit stores a configuration it does
\* not refuse and makes it live, and may still raise after that, rebuilding the chain.
Complete(all) ==
    /\ reset_upload
    /\ IF all = Text[expect] /\ expect \notin Refused
       THEN stored' = expect /\ \E r \in {"ok", "err"} : Return(r, 0)
       ELSE Return("err", 0) /\ UNCHANGED stored

\* A deliberately wrong variant: a chunk does not put the timeout off.
MutUploadLineKeepsTimer(line, now) ==
    LET all == text \o line.text
    IN  /\ \/ /\ Len(all) > Len(Text[expect])
              /\ reset_upload
              /\ Return("err", 0)
              /\ UNCHANGED stored
           \/ /\ Len(all) < Len(Text[expect])
              /\ text' = all
              /\ Return("none", 0)
              /\ UNCHANGED <<receiving, stored>>
           \/ /\ Len(all) = Len(Text[expect])
              /\ Complete(all)
        /\ UNCHANGED <<expect, last_rx>>

\* _handle_upload_line: every line is data, whatever it says.
HandleUploadLine(line, now) ==
    LET all == text \o line.text
    IN  /\ last_rx' = now
        /\ \/ /\ Len(all) > Len(Text[expect])
              /\ reset_upload
              /\ Return("err", 0)
              /\ UNCHANGED stored
           \/ /\ Len(all) < Len(Text[expect])
              /\ text' = all
              /\ Return("none", 0)
              /\ UNCHANGED <<receiving, stored>>
           \/ /\ Len(all) = Len(Text[expect])
              /\ Complete(all)
        /\ UNCHANGED expect

handle_line(line, now) ==
    IF receiving THEN HandleUploadLine(line, now) ELSE HandleCommand(line, now)

TimedOut(now) == receiving /\ elapsed(now, last_rx) >= WRITE_TIMEOUT_MS

\* A deliberately wrong variant: the abandoned upload is reported but not given up.
MutTickKeepsUpload(now) ==
    /\ IF TimedOut(now) THEN Return("err", 0) ELSE Return("none", 0)
    /\ UNCHANGED <<receiving, expect, text, last_rx, stored>>

\* A deliberately wrong variant: the timeout is counted from the last tick, not the last line.
MutTickRestarts(now) ==
    /\ IF TimedOut(now)
       THEN reset_upload /\ Return("err", 0)
       ELSE Return("none", 0) /\ UNCHANGED <<receiving, text>>
    /\ last_rx' = IF receiving THEN now ELSE last_rx
    /\ UNCHANGED <<expect, stored>>

tick(now) ==
    /\ IF TimedOut(now)
       THEN reset_upload /\ Return("err", 0)
       ELSE Return("none", 0) /\ UNCHANGED <<receiving, text>>
    /\ UNCHANGED <<expect, last_rx, stored>>
=============================================================================
