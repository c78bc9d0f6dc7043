----------------------------- MODULE ConfigPort -----------------------------
(***************************************************************************)
(* The configuration port at work: the main loop of src/src/code.py around *)
(* Protocol.tla, seen from the port, and the clients that use it.  Each    *)
(* pass of the loop takes the time once, handles the key, reads the lines  *)
(* that wait, hands them to the protocol one after the other and then      *)
(* calls its tick.  Firing a binding blocks the pass, from the key and     *)
(* from `test' alike, while lines go on arriving.                          *)
(***************************************************************************)
EXTENDS Protocol

CONSTANTS
    ClientLines,        \* the commands clients send: lines, see LineType
    ChunkLines,         \* ChunkLines[u]: the lines a client sends upload u as
    RX_CAP,             \* bound: how many lines the port holds before a client has to wait
    PASS_LIMIT,         \* bound: the longest pass of the loop, in ms, the blocking in it included
    SILENCE_CAP         \* bound on the ghost silence, past everything compared with it

LineType ==
    {l \in [cmd : Commands, of : Uploads \cup {NoUpload}, text : Seq(Pieces)] :
        l.cmd = "write" => l.of \in Uploads}

DataLine == {l \in LineType : l.cmd = "other"}

ASSUME PortAssumption ==
    /\ ClientLines \subseteq LineType
    /\ \A u \in Uploads : ChunkLines[u] \in Seq(DataLine)
    /\ RX_CAP \in Nat \ {0} /\ PASS_LIMIT \in Nat \ {0} /\ SILENCE_CAP \in Nat

VARIABLES
    clock,              \* supervisor.ticks_ms()
    now,                \* the main loop's `now'
    phase,              \* where in the pass the loop is: "top", "read" or "lines"
    rx,                 \* the lines that have arrived, oldest first
    todo,               \* how many of them this pass has read and not handled yet
    handled,            \* ghost: this pass has handed a line to the protocol
    chunks,             \* the lines the client has left to send of the upload it is sending
    client,             \* a client is there
    silence,            \* ghost: ms since a line last arrived, up to SILENCE_CAP; it counts
                        \* while a line waits or an upload is in progress
    prompt              \* ghost: the upload on its way began with none under way, and its
                        \* client has let no pause come near the timeout

loopVars == <<clock, now, phase, todo, handled>>
hostVars == <<chunks, client>>
ghostVars == <<silence, prompt>>
portVars == <<protocolVars, loopVars, hostVars, rx, ghostVars>>

AtMost(x, cap) == IF x > cap THEN cap ELSE x

Spent == elapsed(clock, now)

\* d ms pass within the pass.
Spend(d) ==
    /\ clock' = ticks_add(clock, d)
    /\ silence' = IF receiving \/ rx # <<>> THEN AtMost(silence + d, SILENCE_CAP) ELSE 0

PortInit ==
    /\ ProtocolInit
    /\ clock \in TickValue
    /\ now = clock
    /\ phase = "top"
    /\ rx = <<>> /\ todo = 0 /\ handled = FALSE
    /\ chunks = <<>> /\ client = TRUE
    /\ silence = 0 /\ prompt = FALSE

-----------------------------------------------------------------------------
(* The clients.                                                            *)

Arrive(line) ==
    /\ client
    /\ Len(rx) < RX_CAP
    /\ rx' = Append(rx, line)
    /\ silence' = 0

NoneUnderWay == ~receiving /\ \A i \in 1 .. Len(rx) : rx[i].cmd # "write"

\* A client sends a command; after a header the lines of the upload follow.
SendCommand(line) ==
    /\ chunks = <<>>
    /\ Arrive(line)
    /\ chunks' = IF line.cmd = "write" THEN ChunkLines[line.of] ELSE <<>>
    /\ prompt' = IF line.cmd = "write" THEN NoneUnderWay ELSE prompt
    /\ UNCHANGED <<protocolVars, loopVars, client>>

SendChunk ==
    /\ chunks # <<>>
    /\ Arrive(Head(chunks))
    /\ chunks' = Tail(chunks)
    /\ prompt' = (prompt /\ silence < WRITE_TIMEOUT_MS - PASS_LIMIT)
    /\ UNCHANGED <<protocolVars, loopVars, client>>

\* The client dies in the middle of an upload; the next one knows nothing of it.
Interrupted ==
    /\ chunks # <<>>
    /\ chunks' = <<>>
    /\ prompt' = FALSE
    /\ UNCHANGED <<protocolVars, loopVars, client, rx, silence>>

\* The last client closes the port for good.
Leave ==
    /\ client
    /\ client' = FALSE
    /\ chunks' = <<>>
    /\ prompt' = (prompt /\ chunks = <<>>)
    /\ UNCHANGED <<protocolVars, loopVars, rx, silence>>

-----------------------------------------------------------------------------
(* The loop.                                                               *)

\* The pass begins: the time is taken, then the key may fire a binding.
StartPass(d) ==
    /\ phase = "top"
    /\ now' = clock
    /\ Spend(d)
    /\ phase' = "read"
    /\ handled' = FALSE
    /\ UNCHANGED <<protocolVars, hostVars, rx, todo, prompt>>

\* read_lines takes every line that is complete by now.
ReadLines ==
    /\ phase = "read"
    /\ todo' = Len(rx)
    /\ phase' = "lines"
    /\ UNCHANGED <<protocolVars, hostVars, clock, now, handled, rx, ghostVars>>

\* One line goes to the protocol; a `test' blocks until its binding has run.
HandleNext ==
    /\ phase = "lines" /\ todo > 0
    /\ handle_line(Head(rx), now)
    /\ rx' = Tail(rx)
    /\ todo' = todo - 1
    /\ handled' = TRUE
    /\ \E d \in 0 .. PASS_LIMIT - Spent :
          /\ d > 0 => Head(rx).cmd = "test" /\ ~receiving
          /\ Spend(d)
    /\ UNCHANGED <<hostVars, now, phase, prompt>>

\* The lines are done: the protocol's tick, and the pass is over.
EndPass ==
    /\ phase = "lines" /\ todo = 0
    /\ tick(now)
    /\ phase' = "top"
    /\ UNCHANGED <<hostVars, clock, now, todo, handled, rx, ghostVars>>

PortNext ==
    \/ \E line \in ClientLines : SendCommand(line)
    \/ SendChunk
    \/ Interrupted
    \/ Leave
    \/ \E d \in 0 .. PASS_LIMIT : StartPass(d)
    \/ ReadLines
    \/ HandleNext
    \/ EndPass

PortSpec == PortInit /\ [][PortNext]_portVars

\* The loop runs for as long as the board does, and time goes by while it runs.
PortFairSpec ==
    /\ PortSpec
    /\ WF_portVars((\E d \in 0 .. PASS_LIMIT : StartPass(d)) \/ ReadLines \/ HandleNext \/ EndPass)
    /\ SF_portVars(\E d \in 1 .. PASS_LIMIT : StartPass(d))

-----------------------------------------------------------------------------
(* Properties.                                                             *)

PortTypeOK ==
    /\ receiving \in BOOLEAN /\ (receiving => expect \in Uploads)
    /\ text \in Seq(Pieces) /\ (receiving => Len(text) < Len(Text[expect]))
    /\ {clock, now, last_rx} \subseteq TickValue
    /\ phase \in {"top", "read", "lines"} /\ todo \in 0 .. Len(rx)
    /\ rx \in Seq(LineType) /\ Len(rx) <= RX_CAP /\ chunks \in Seq(DataLine)
    /\ stored \in Uploads \cup {NoUpload} /\ reply \in {"ok", "err", "none"}
    /\ owed \in Int /\ silence \in 0 .. SILENCE_CAP
    /\ handled \in BOOLEAN /\ client \in BOOLEAN /\ prompt \in BOOLEAN

\* Every command taken is answered by exactly one terminating line, the write that is still
\* receiving excepted, however uploads end and whatever timeouts come between.
OneTerminator == owed = IF receiving THEN 1 ELSE 0

\* The lines upload u is sent as are its text, line k ending with character cut[k].
CutAt(u, cut) ==
    /\ cut[0] = 0 /\ cut[Len(ChunkLines[u])] = Len(Text[u])
    /\ \A k \in 1 .. Len(ChunkLines[u]) :
          /\ cut[k - 1] <= cut[k]
          /\ ChunkLines[u][k].text = SubSeq(Text[u], cut[k - 1] + 1, cut[k])

AsDeclared(u) == \E cut \in [0 .. Len(ChunkLines[u]) -> 0 .. Len(Text[u])] : CutAt(u, cut)

\* An upload sent as it was declared, to a port with none under way, with pauses that keep a pass
\* away from the timeout, arrives: whatever the key and other commands hold up meanwhile, and
\* whatever earlier clients have left in the port, it ends with its last character, whole, and
\* is stored unless the device refuses it -- or its client goes silent for that long after all.
GoodUploadsArrive ==
    [][prompt /\ receiving /\ ~receiving' /\ AsDeclared(expect) =>
          IF todo > 0
          THEN /\ text \o Head(rx).text = Text[expect]
               /\ stored' = expect \/ expect \in Refused
          ELSE silence >= WRITE_TIMEOUT_MS - PASS_LIMIT]_portVars

\* A line that had arrived when the loop read the port is never lost to the timeout: no upload
\* is given up in the pass that handled a line of it.
WaitingLineSavesUpload ==
    [][EndPass /\ receiving /\ ~receiving' => ~handled]_portVars

\* An upload that hears nothing any more is given up within the timeout and three passes.
AbandonedSoon ==
    receiving => silence <= WRITE_TIMEOUT_MS + 3 * PASS_LIMIT

\* Once the clients are gone, which they are for good, the port takes commands again, and
\* stays so, whatever they have left in it.
PortRecovers == <>[](~client => ~receiving)
=============================================================================
