-------------------------------- MODULE Link --------------------------------
(***************************************************************************)
(* The client's end of the configuration port: the connection of           *)
(* src/cli/internal/device/device.go as the commands of kb2040ctl use it,  *)
(* one process after the other, against a board that answers late, streams *)
(* events, and still holds what an earlier process has sent it.            *)
(*                                                                         *)
(* A line of the board is an event, text before a terminator, or a         *)
(* terminator; `mine' says whether it belongs to the call in progress,     *)
(* which the client cannot see.                                            *)
(***************************************************************************)
EXTENDS Integers, Sequences

CONSTANTS
    Programs,           \* the calls that the commands make once they are connected
    CHUNKS,             \* the data lines of an upload
    BODY,               \* the lines of a stored configuration
    MAX_INBOX,          \* bound: lines on their way to the board
    MAX_EVENTS          \* bound: no event is added to that many lines on their way back

Calls == {"version", "read", "profile", "write", "events on", "events off"}

ASSUME LinkAssumption ==
    /\ Programs \subseteq Seq(Calls)
    /\ {CHUNKS, BODY, MAX_INBOX, MAX_EVENTS} \subseteq Nat \ {0}

VARIABLES
    pc,                 \* where the client is; "closed" when there is none
    job,                \* the calls it has still to make, the one in progress first
    tries,              \* the probes it may still make of the port, 0 once connected
    toSend,             \* the data lines of its upload still to be sent
    buf,                \* Conn.buf: lines read from the port and not yet looked at
    body,               \* the lines readResponse has collected
    late,               \* its deadline has passed
    answered,           \* the call last answered, and whether the answer was its own
    inbox,              \* lines on their way to the board
    port,               \* lines on their way to the client, kept while nobody has the port open
    left,               \* the data lines an upload in progress on the board still needs, or 0
    ruined,             \* a line that is no data of it has got into that upload
    upMine,             \* it is the upload of the call in progress
    eventsOn,           \* Protocol.events_enabled
    stored,             \* the board has stored the upload of the call in progress
    quiet               \* the board owed nothing when the port was last drained

clientVars == <<pc, job, tries, toSend, buf, body, late, answered>>
boardVars == <<left, ruined, upMine, eventsOn, stored>>
linkVars == <<clientVars, boardVars, inbox, port, quiet>>

Line(kind, to, mine) == [kind |-> kind, to |-> to, mine |-> mine]
Event == Line("EV", "none", FALSE)
Command(cmd) == [cmd |-> cmd, mine |-> TRUE]
NoCall == [call |-> "none", mine |-> FALSE]

Disown(lines) == [i \in DOMAIN lines |-> [lines[i] EXCEPT !.mine = FALSE]]

LinkInit ==
    /\ pc = "closed" /\ job = <<>> /\ tries = 0 /\ toSend = 0
    /\ buf = <<>> /\ body = 0 /\ late = FALSE /\ answered = NoCall
    /\ inbox = <<>> /\ port = <<>>
    /\ left = 0 /\ ruined = FALSE /\ upMine = FALSE /\ eventsOn = FALSE /\ stored = FALSE
    /\ quiet = FALSE

-----------------------------------------------------------------------------
(* The board.                                                              *)

Answer(lines) == port' = port \o lines

\* What a command outside an upload is answered, and what it sets.
HandleCommand(line) ==
    LET ok == Line("ok", line.cmd, line.mine)
        err == Line("err", line.cmd, line.mine)
        text == [i \in 1 .. BODY |-> Line("body", line.cmd, line.mine)]
    IN  \/ /\ line.cmd = "version" /\ Answer(<<ok>>)
           /\ UNCHANGED boardVars
        \/ /\ line.cmd = "read" /\ (Answer(Append(text, ok)) \/ Answer(<<err>>))
           /\ UNCHANGED boardVars
        \/ /\ line.cmd = "profile" /\ (Answer(<<ok>>) \/ Answer(<<err>>))
           /\ UNCHANGED boardVars
        \/ /\ line.cmd \in {"events on", "events off"} /\ Answer(<<ok>>)
           /\ eventsOn' = (line.cmd = "events on")
           /\ UNCHANGED <<left, ruined, upMine, stored>>
        \/ /\ line.cmd = "write"
           /\ left' = CHUNKS /\ ruined' = FALSE /\ upMine' = line.mine
           /\ UNCHANGED <<port, eventsOn, stored>>
        \/ /\ line.cmd \in {"write", "data"} /\ Answer(<<err>>)
           /\ UNCHANGED boardVars

EndUpload == left' = 0 /\ ruined' = FALSE /\ UNCHANGED eventsOn

\* A deliberately wrong variant: an upload that the device refuses is answered OK.
MutHandleUploadLine(line) ==
    LET good == line.cmd = "data" /\ ~ruined
    IN  \/ /\ good /\ left > 1
           /\ left' = left - 1
           /\ UNCHANGED <<port, ruined, upMine, eventsOn, stored>>
        \/ /\ good => left = 1
           /\ Answer(<<Line("ok", "write", upMine)>>)
           /\ \/ stored' = (stored \/ upMine)
              \/ stored' = stored
           /\ EndUpload /\ UNCHANGED upMine
        \/ /\ ~good
           /\ ruined' = TRUE
           /\ UNCHANGED <<port, left, upMine, eventsOn, stored>>

\* During an upload every line is data.  One that is not makes it too long, or wrong when it has the
\* declared length, or is swallowed while there is still something missing.
HandleUploadLine(line) ==
    LET good == line.cmd = "data" /\ ~ruined
    IN  \/ /\ good /\ left > 1
           /\ left' = left - 1
           /\ UNCHANGED <<port, ruined, upMine, eventsOn, stored>>
        \/ /\ good /\ left = 1
           /\ Answer(<<Line("ok", "write", upMine)>>)
           /\ stored' = (stored \/ upMine)
           /\ EndUpload /\ UNCHANGED upMine
        \/ /\ good => left = 1
           /\ Answer(<<Line("err", "write", upMine)>>)
           /\ EndUpload /\ UNCHANGED <<upMine, stored>>
        \/ /\ ~good
           /\ ruined' = TRUE
           /\ UNCHANGED <<port, left, upMine, eventsOn, stored>>

Handle ==
    /\ inbox # <<>>
    /\ IF left > 0 THEN HandleUploadLine(Head(inbox)) ELSE HandleCommand(Head(inbox))
    /\ inbox' = Tail(inbox)
    /\ UNCHANGED <<clientVars, quiet>>

\* A line may be waiting: the stamp can be as old as the pass that took the last one.
BoardTimeout ==
    /\ left > 0
    /\ Answer(<<Line("err", "write", upMine)>>)
    /\ EndUpload
    /\ UNCHANGED <<clientVars, inbox, upMine, stored, quiet>>

Emit ==
    /\ eventsOn /\ Len(port) < MAX_EVENTS
    /\ Answer(<<Event>>)
    /\ UNCHANGED <<clientVars, boardVars, inbox, quiet>>

\* What waits on a port that nobody has open may also be dropped.
Forget ==
    /\ pc = "closed" /\ port # <<>>
    /\ port' = <<>>
    /\ UNCHANGED <<clientVars, boardVars, inbox, quiet>>

-----------------------------------------------------------------------------
(* The client.                                                             *)

\* The port is closed, and the process ends.
Leave ==
    /\ pc' = "closed" /\ job' = <<>> /\ tries' = 0 /\ toSend' = 0
    /\ buf' = <<>> /\ body' = 0 /\ late' = FALSE /\ answered' = NoCall /\ quiet' = FALSE

\* A named port is probed once, one that has to be found first quickly and then patiently.
Open(p, n) ==
    /\ pc = "closed"
    /\ job' = <<"version">> \o p
    /\ tries' = n
    /\ pc' = "drain"
    /\ UNCHANGED <<boardVars, toSend, buf, body, late, answered, inbox, port, quiet>>

\* A deliberately wrong variant: what waits on the port itself is left there.
MutDrain ==
    /\ pc = "drain"
    /\ buf' = <<>>
    /\ pc' = "send"
    /\ quiet' = (inbox = <<>> /\ left = 0)
    /\ UNCHANGED <<boardVars, job, tries, toSend, body, late, answered, inbox, port>>

\* The last read that finds something; more may arrive after it.
Drain ==
    /\ pc = "drain"
    /\ buf' = <<>> /\ port' = <<>>
    /\ pc' = "send"
    /\ quiet' = (inbox = <<>> /\ left = 0)
    /\ UNCHANGED <<boardVars, job, tries, toSend, body, late, answered, inbox>>

\* A new call: no line that is under way is an answer to it.
BeginCall(cmd) ==
    /\ Len(inbox) < MAX_INBOX
    /\ inbox' = Append(Disown(inbox), Command(cmd))
    /\ port' = Disown(port) /\ buf' = Disown(buf)
    /\ upMine' = FALSE /\ stored' = FALSE
    /\ body' = 0 /\ late' = FALSE
    /\ UNCHANGED <<job, tries, answered, left, ruined, eventsOn, quiet>>

Send ==
    /\ pc = "send"
    /\ BeginCall(Head(job))
    /\ pc' = "await"
    /\ UNCHANGED toSend

\* An upload is sent without draining the port first.
WriteBlob ==
    /\ pc = "ready" /\ job # <<>> /\ Head(job) = "write"
    /\ BeginCall("write")
    /\ pc' = "upload" /\ toSend' = CHUNKS

SendData ==
    /\ pc = "upload" /\ Len(inbox) < MAX_INBOX
    /\ inbox' = Append(inbox, Command("data"))
    /\ toSend' = toSend - 1
    /\ pc' = IF toSend = 1 THEN "await" ELSE "upload"
    /\ UNCHANGED <<boardVars, job, tries, buf, body, late, answered, port, quiet>>

\* The next line: from the buffer or, before the deadline, from a read that brings one or more.
ReadLine(limited) ==
    IF buf # <<>>
    THEN {[line |-> Head(buf), buf |-> Tail(buf), port |-> port]}
    ELSE {[line |-> Head(port), buf |-> SubSeq(port, 2, k), port |-> SubSeq(port, k + 1, Len(port))] :
             k \in {n \in 1 .. Len(port) : ~(limited /\ late)}}

\* A deliberately wrong variant: an event is taken for a terminator.
MutTerminates(line) == line.kind \in {"ok", "EV"}

Terminates(line) == line.kind = "ok"

\* `version' looks for its own fields; a download must be as long as the board says, and decode.
Accepts(call, line) ==
    /\ call = "version" => line.to = "version"
    /\ call = "read" => body = BODY

\* A deliberately wrong variant: the probes are counted down past the last one.
MutFail ==
    /\ IF tries > 1 THEN pc' = "drain" /\ job' = job ELSE pc' = "closed" /\ job' = <<>>
    /\ tries' = tries - 1
    /\ toSend' = 0 /\ buf' = <<>> /\ body' = 0 /\ late' = FALSE /\ answered' = NoCall
    /\ quiet' = FALSE

\* The call has failed: the port is closed and, if this was the quick probe, opened again.
Fail ==
    IF tries > 1
    THEN /\ pc' = "drain" /\ tries' = tries - 1
         /\ buf' = <<>> /\ body' = 0 /\ late' = FALSE /\ quiet' = FALSE
         /\ UNCHANGED <<job, toSend, answered>>
    ELSE Leave

ReadResponse ==
    /\ pc = "await"
    /\ \E r \in ReadLine(TRUE) :
        /\ port' = r.port
        /\ IF Terminates(r.line) /\ Accepts(Head(job), r.line)
           THEN /\ pc' = IF Head(job) = "events on" THEN "watch" ELSE "ready"
                /\ answered' = [call |-> Head(job), mine |-> r.line.mine]
                /\ job' = Tail(job) /\ tries' = 0
                /\ buf' = r.buf /\ body' = 0 /\ late' = FALSE
                /\ UNCHANGED <<toSend, quiet>>
           ELSE IF Terminates(r.line) \/ r.line.kind = "err" THEN Fail
           ELSE /\ body' = IF r.line.kind = "body" THEN body + 1 ELSE body
                /\ buf' = r.buf
                /\ UNCHANGED <<pc, job, tries, toSend, late, answered, quiet>>
    /\ UNCHANGED <<boardVars, inbox>>

\* A deliberately wrong variant: the answer to an upload is awaited without a deadline.
MutDeadline ==
    /\ pc = "await" /\ ~late /\ Head(job) # "write"
    /\ late' = TRUE
    /\ UNCHANGED <<pc, job, tries, toSend, buf, body, answered, inbox, port, boardVars, quiet>>

Deadline ==
    /\ pc = "await" /\ ~late
    /\ late' = TRUE
    /\ UNCHANGED <<pc, job, tries, toSend, buf, body, answered, inbox, port, boardVars, quiet>>

Timeout ==
    /\ pc = "await" /\ late /\ buf = <<>>
    /\ Fail
    /\ UNCHANGED <<boardVars, inbox, port>>

NextCall ==
    /\ pc = "ready" /\ job # <<>> /\ Head(job) # "write"
    /\ pc' = "drain"
    /\ UNCHANGED <<job, tries, toSend, buf, body, late, answered, inbox, port, boardVars, quiet>>

Close ==
    /\ pc = "ready" /\ job = <<>>
    /\ Leave
    /\ UNCHANGED <<boardVars, inbox, port>>

\* Events are printed as they come, for a year.
Watch ==
    /\ pc = "watch"
    /\ \E r \in ReadLine(FALSE) : buf' = r.buf /\ port' = r.port
    /\ UNCHANGED <<pc, job, tries, toSend, body, late, answered, inbox, boardVars, quiet>>

\* The callback has seen enough; that of the command never has.
StopWatching ==
    /\ pc = "watch"
    /\ job' = <<"events off">>
    /\ pc' = "drain"
    /\ UNCHANGED <<tries, toSend, buf, body, late, answered, inbox, port, boardVars, quiet>>

\* Ctrl-C closes the port under the watch; what WatchEvents then sends, it sends to a closed port.
Interrupt ==
    /\ pc = "watch"
    /\ Leave
    /\ UNCHANGED <<boardVars, inbox, port>>

\* Killed, or unplugged and so cut off from the port.
Die ==
    /\ pc # "closed"
    /\ Leave
    /\ UNCHANGED <<boardVars, inbox, port>>

ClientStep ==
    \/ Drain \/ Send \/ WriteBlob \/ SendData \/ ReadResponse \/ Deadline \/ Timeout
    \/ NextCall \/ Close

LinkNext ==
    \/ Handle \/ BoardTimeout \/ Emit \/ Forget
    \/ \E p \in Programs, n \in {1, 2} : Open(p, n)
    \/ ClientStep \/ Watch \/ StopWatching \/ Interrupt \/ Die

LinkSpec == LinkInit /\ [][LinkNext]_linkVars

\* The board keeps reading, and a process that runs goes on; neither is anybody made to send
\* anything, nor does anything have to be answered in time.
LinkFairSpec ==
    /\ LinkSpec
    /\ WF_linkVars(Handle)
    /\ WF_linkVars(Drain) /\ WF_linkVars(Send) /\ WF_linkVars(WriteBlob) /\ WF_linkVars(SendData)
    /\ WF_linkVars(ReadResponse) /\ WF_linkVars(Deadline) /\ WF_linkVars(Timeout)
    /\ WF_linkVars(NextCall) /\ WF_linkVars(Close)

-----------------------------------------------------------------------------
(* Properties.                                                             *)

LinesIn == [cmd : Calls \cup {"data"}, mine : BOOLEAN]
LinesOut == [kind : {"EV", "body", "ok", "err"}, to : Calls \cup {"data", "none"}, mine : BOOLEAN]

LinkTypeOK ==
    /\ pc \in {"closed", "drain", "send", "upload", "await", "ready", "watch"}
    /\ job \in Seq(Calls) /\ (pc \in {"drain", "send", "upload", "await"} => job # <<>>)
    /\ tries \in 0 .. 2 /\ toSend \in 0 .. CHUNKS
    /\ buf \in Seq(LinesOut) /\ port \in Seq(LinesOut) /\ inbox \in Seq(LinesIn)
    /\ body \in Nat /\ late \in BOOLEAN
    /\ answered \in [call : Calls \cup {"none"}, mine : BOOLEAN]
    /\ left \in 0 .. CHUNKS /\ ruined \in BOOLEAN /\ upMine \in BOOLEAN
    /\ eventsOn \in BOOLEAN /\ stored \in BOOLEAN /\ quiet \in BOOLEAN

Connected == pc \in {"ready", "watch"}

\* Whatever earlier processes left in the port, and whatever events stream in between: if the board
\* owed nothing when the port was drained, the answer taken is the answer to the call.
AnswersAreOwn == Connected /\ quiet => answered.mine

OnlyEvents(lines) == \A i \in DOMAIN lines : lines[i].kind = "EV"

NothingOwed == inbox = <<>> /\ left = 0 /\ OnlyEvents(buf) /\ OnlyEvents(port)

\* And nothing is left over, of the answer or of what the call has sent, that a later call, which
\* may be an upload that does not drain, could be answered with.
InSync == pc = "ready" /\ quiet => NothingOwed

\* An upload from a connection in step is reported as stored only if it is.
UploadsAreStored == pc = "ready" /\ quiet /\ answered.call = "write" => stored

\* Every process comes to its end, or to its watching, however long the board is silent and
\* however many events it streams.
ProcessEnds == pc # "closed" ~> pc \in {"closed", "watch"}

\* "The device answers only once the whole transfer has arrived and passed every check"
\* (device.go:346), so that an upload reported as done is stored.
UploadOkMeansStored == pc = "ready" /\ answered.call = "write" => stored
=============================================================================
