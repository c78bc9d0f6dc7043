-------------------------- MODULE ConfigPortProofs --------------------------
(***************************************************************************)
(* Proofs about ConfigPort.tla, for every set of uploads, every way to     *)
(* split them into lines, every number of lines waiting and every length   *)
(* of a pass.                                                              *)
(***************************************************************************)
EXTENDS ConfigPort, SequenceTheorems, TLAPS

-----------------------------------------------------------------------------
(* The circle of tick values (Ticks.tla), for every period, and counting. *)

\* The period is twice the half period.
LEMMA HalfOfPeriod == HalfPeriod \in Nat \ {0} /\ TICKS_PERIOD = HalfPeriod + HalfPeriod
  BY TicksAssumption DEF HalfPeriod

\* ticks_diff recovers the time added, exactly, as long as it is less than half a period; past
\* that the difference turns negative.
LEMMA DiffOfAdd ==
    ASSUME NEW t \in TickValue, NEW e \in 0 .. TICKS_PERIOD - 1
    PROVE  ticks_diff(ticks_add(t, e), t) = IF e < HalfPeriod THEN e ELSE e - TICKS_PERIOD
  <1> DEFINE u == ticks_add(t, e)
             d == u - t
             m == d % TICKS_PERIOD
  <1>1. /\ TICKS_PERIOD \in Nat \ {0} /\ t \in 0 .. TICKS_PERIOD - 1
        /\ HalfPeriod \in Nat \ {0}
        /\ TICKS_PERIOD = HalfPeriod + HalfPeriod
    BY TicksAssumption, HalfOfPeriod DEF TickValue
  <1>2. u = IF t + e < TICKS_PERIOD THEN t + e ELSE t + e - TICKS_PERIOD
    BY <1>1 DEF ticks_add
  <1>3. d = e \/ d = e - TICKS_PERIOD
    <2> HIDE DEF u
    <2> QED BY <1>1, <1>2
  <1>4. m = e
    <2> HIDE DEF d
    <2> QED BY <1>1, <1>3
  <1>5. (m + HalfPeriod) % TICKS_PERIOD
          = IF e < HalfPeriod THEN e + HalfPeriod ELSE e + HalfPeriod - TICKS_PERIOD
    <2> HIDE DEF m
    <2> QED BY <1>1, <1>4
  <1>6. ticks_diff(u, t) = ((m + HalfPeriod) % TICKS_PERIOD) - HalfPeriod
    BY DEF ticks_diff
  <1> HIDE DEF u, d, m
  <1> QED
    BY <1>1, <1>5, <1>6 DEF u

\* What the gesture measures: the time really elapsed, up to half a period.
LEMMA ElapsedIsExact ==
    ASSUME NEW t \in TickValue, NEW e \in 0 .. HalfPeriod - 1
    PROVE  elapsed(ticks_add(t, e), t) = e
  <1>1. e \in 0 .. TICKS_PERIOD - 1 /\ e < HalfPeriod
    BY HalfOfPeriod
  <1> QED
    BY <1>1, DiffOfAdd DEF elapsed

\* Quotient and remainder are what division says.
LEMMA DivMod ==
    ASSUME NEW x \in Nat, NEW d \in Nat \ {0}
    PROVE  /\ x \div d \in Nat /\ x % d \in 0 .. d - 1
           /\ x = d * (x \div d) + (x % d)
  OBVIOUS

\* And only they are.
LEMMA DivUnique ==
    ASSUME NEW q \in Nat, NEW d \in Nat \ {0}, NEW r \in 0 .. d - 1
    PROVE  (d * q + r) \div d = q /\ (d * q + r) % d = r
  OBVIOUS

\* The remainder of a sum can be taken on the way.
LEMMA RemainderOfSum ==
    ASSUME NEW x \in Nat, NEW e \in Nat, NEW d \in Nat \ {0}
    PROVE  ((x % d) + e) % d = (x + e) % d
  <1>1. PICK q \in Nat, r \in 0 .. d - 1 : r = x % d /\ x = d * q + r
    BY DivMod
  <1>2. r + e \in Nat
    OBVIOUS
  <1>3. PICK p \in Nat, u \in 0 .. d - 1 : u = (r + e) % d /\ r + e = d * p + u
    BY <1>2, DivMod
  <1>4. q + p \in Nat
    OBVIOUS
  <1>5. x + e = d * (q + p) + u
    <2>1. d * q \in Nat /\ d * p \in Nat
      OBVIOUS
    <2>2. x + e = d * q + d * p + u
      BY <1>1, <1>3, <2>1
    <2>3. d * (q + p) = d * q + d * p
      OBVIOUS
    <2> QED
      BY <2>2, <2>3
  <1>6. (x + e) % d = u
    <2>1. PICK n \in Nat : n = q + p
      BY <1>4
    <2>2. (d * n + u) % d = u
      BY DivUnique
    <2>3. x + e = d * n + u
      BY <1>5, <2>1
    <2> QED
      BY <2>2, <2>3
  <1> QED
    BY <1>1, <1>3, <1>6

-----------------------------------------------------------------------------
(* The inductive invariant.  An upload in progress has not been answered,  *)
(* and a pass that has handed a line to one has just set its timer.        *)

ReceivingIsSilent == receiving => reply = "none"

LineSetsTimer == receiving /\ handled /\ phase = "lines" => last_rx = now

FlagsAreFresh == phase = "read" => ~handled

PortIInv ==
    /\ PortTypeOK
    /\ OneTerminator
    /\ ReceivingIsSilent
    /\ LineSetsTimer
    /\ FlagsAreFresh

USE ProtocolAssumption, PortAssumption, TicksAssumption

LEMMA TicksAddType ==
    ASSUME NEW t \in TickValue, NEW d \in Nat
    PROVE  ticks_add(t, d) \in TickValue
  BY DEF ticks_add, TickValue

LEMMA ElapsedType ==
    ASSUME NEW a \in TickValue, NEW b \in TickValue
    PROVE  elapsed(a, b) \in Nat
  BY DEF elapsed, ticks_diff, TickValue, HalfPeriod

\* No time at all has passed between a moment and itself.
LEMMA NothingElapsed == ASSUME NEW t \in TickValue PROVE elapsed(t, t) = 0
  <1>1. t - t = 0 /\ 0 % TICKS_PERIOD = 0
    BY DEF TickValue
  <1>2. HalfPeriod \in Nat /\ HalfPeriod < TICKS_PERIOD
    BY DEF HalfPeriod
  <1>3. (0 + HalfPeriod) % TICKS_PERIOD = HalfPeriod
    BY <1>2
  <1>4. ticks_diff(t, t) = HalfPeriod - HalfPeriod
    BY <1>1, <1>3 DEF ticks_diff
  <1> QED
    BY <1>2, <1>4 DEF elapsed

LEMMA EmptyQueues ==
    /\ <<>> \in Seq(Pieces) /\ <<>> \in Seq(LineType) /\ <<>> \in Seq(DataLine)
    /\ Len(<<>>) = 0
  BY EmptySeq

\* Giving an upload up leaves nothing of it.
LEMMA ResetType ==
    ASSUME reset_upload
    PROVE  receiving' = FALSE /\ text' \in Seq(Pieces)
  BY EmptyQueues DEF reset_upload

LEMMA SpendType ==
    ASSUME PortTypeOK, NEW d \in Nat, Spend(d)
    PROVE  clock' \in TickValue /\ silence' \in 0 .. SILENCE_CAP
  <1>1. clock' \in TickValue
    BY TicksAddType DEF Spend, PortTypeOK
  <1>2. silence' \in 0 .. SILENCE_CAP
    BY DEF Spend, PortTypeOK, AtMost
  <1> QED
    BY <1>1, <1>2

LEMMA PortInitInv == PortInit => PortIInv
  <1> SUFFICES ASSUME PortInit PROVE PortIInv
    OBVIOUS
  <1>1. 0 \in TickValue
    BY DEF TickValue
  <1>2. text \in Seq(Pieces) /\ rx \in Seq(LineType) /\ chunks \in Seq(DataLine)
        /\ Len(rx) = 0
    BY EmptyQueues DEF PortInit, ProtocolInit
  <1>3. receiving \in BOOLEAN /\ (receiving => FALSE) /\ handled \in BOOLEAN /\ client \in BOOLEAN
        /\ prompt \in BOOLEAN
    BY DEF PortInit, ProtocolInit
  <1>4. /\ {clock, now, last_rx} \subseteq TickValue
        /\ phase \in {"top", "read", "lines"} /\ todo \in 0 .. Len(rx) /\ Len(rx) <= RX_CAP
        /\ stored \in Uploads \cup {NoUpload} /\ reply \in {"ok", "err", "none"}
        /\ owed \in Int /\ silence \in 0 .. SILENCE_CAP
    BY <1>1, <1>2 DEF PortInit, ProtocolInit
  <1>5. PortTypeOK
    BY <1>2, <1>3, <1>4 DEF PortTypeOK
  <1> QED
    BY <1>5 DEF PortInit, ProtocolInit, PortIInv, OneTerminator, ReceivingIsSilent, LineSetsTimer,
                FlagsAreFresh

-----------------------------------------------------------------------------
(* What the protocol's calls preserve, whatever the line.                  *)

LEMMA HandleLineInv ==
    ASSUME PortIInv, NEW line \in LineType, handle_line(line, now)
    PROVE  /\ receiving' \in BOOLEAN /\ (receiving' => expect' \in Uploads)
           /\ text' \in Seq(Pieces) /\ (receiving' => Len(text') < Len(Text[expect']))
           /\ last_rx' \in TickValue /\ (receiving' => last_rx' = now)
           /\ stored' \in Uploads \cup {NoUpload}
           /\ reply' \in {"ok", "err", "none"} /\ (receiving' => reply' = "none")
           /\ owed' = IF receiving' THEN 1 ELSE 0
  <1> DEFINE all == text \o line.text
  <1>1. /\ receiving \in BOOLEAN /\ (receiving => expect \in Uploads)
        /\ text \in Seq(Pieces) /\ {now, last_rx} \subseteq TickValue
        /\ stored \in Uploads \cup {NoUpload}
        /\ owed = IF receiving THEN 1 ELSE 0
    BY DEF PortIInv, PortTypeOK, OneTerminator
  <1>2. line.text \in Seq(Pieces) /\ (line.cmd = "write" => line.of \in Uploads)
    BY DEF LineType
  <1>3. CASE ~receiving
    <2>1. HandleCommand(line, now)
      BY <1>3 DEF handle_line
    <2>2. <<>> \in Seq(Pieces) /\ Len(<<>>) = 0
      BY EmptySeq
    <2>3. CASE line.cmd = "write"
      <3>1. expect' \in Uploads /\ text' = <<>> /\ last_rx' = now /\ receiving' = TRUE
        BY <1>2, <2>1, <2>3 DEF HandleCommand
      <3>2. stored' = stored /\ reply' = "none" /\ owed' = 1
        BY <1>1, <1>3, <2>1, <2>3 DEF HandleCommand, Return
      <3>3. Len(text') < Len(Text[expect'])
        BY <2>2, <3>1
      <3> QED
        BY <1>1, <2>2, <3>1, <3>2, <3>3
    <2>4. CASE line.cmd # "write"
      BY <1>1, <1>3, <2>1, <2>4 DEF HandleCommand, Return
    <2> QED
      BY <2>3, <2>4
  <1>4. CASE receiving
    <2>1. HandleUploadLine(line, now)
      BY <1>4 DEF handle_line
    <2>2. all \in Seq(Pieces)
      BY <1>1, <1>2, ConcatProperties
    <2>4. last_rx' = now /\ expect' = expect
      BY <2>1 DEF HandleUploadLine
    <2>5. CASE Len(all) > Len(Text[expect]) /\ reset_upload /\ Return("err", 0) /\ UNCHANGED stored
      BY <1>1, <1>4, <2>4, <2>5, ResetType DEF Return
    <2>6. CASE Len(all) < Len(Text[expect]) /\ text' = all /\ Return("none", 0)
               /\ UNCHANGED <<receiving, stored>>
      BY <1>1, <1>4, <2>2, <2>4, <2>6 DEF Return
    <2>7. CASE Complete(all)
      <3>1. stored' \in {stored, expect} /\ reply' \in {"ok", "err"} /\ owed' = owed - 1
        BY <1>1, <1>4, <2>7 DEF Complete, Return
      <3> QED
        BY <1>1, <1>4, <2>4, <2>7, <3>1, ResetType DEF Complete
    <2> QED
      BY <2>1, <2>5, <2>6, <2>7 DEF HandleUploadLine
  <1> QED
    BY <1>1, <1>3, <1>4

LEMMA TickInv ==
    ASSUME PortIInv, tick(now)
    PROVE  /\ receiving' \in BOOLEAN /\ (receiving' => receiving)
           /\ expect' = expect /\ last_rx' = last_rx /\ stored' = stored
           /\ text' \in Seq(Pieces) /\ (receiving' => text' = text)
           /\ reply' \in {"err", "none"} /\ (receiving' => reply' = "none")
           /\ owed' = IF receiving' THEN 1 ELSE 0
  <1>1. receiving \in BOOLEAN /\ text \in Seq(Pieces) /\ owed = (IF receiving THEN 1 ELSE 0)
    BY DEF PortIInv, PortTypeOK, OneTerminator
  <1>2. CASE TimedOut(now)
    <2>1. receiving /\ reset_upload /\ reply' = "err" /\ owed' = owed - 1
      BY <1>1, <1>2 DEF tick, Return, TimedOut
    <2> QED
      BY <1>1, <2>1, ResetType DEF tick
  <1>3. CASE ~TimedOut(now)
    BY <1>1, <1>3 DEF tick, Return
  <1> QED
    BY <1>2, <1>3

-----------------------------------------------------------------------------
(* One step at a time.                                                     *)

LEMMA ArriveInv ==
    ASSUME PortIInv, NEW line \in LineType, Arrive(line), chunks' \in Seq(DataLine),
           prompt' \in BOOLEAN, UNCHANGED <<protocolVars, loopVars, client>>
    PROVE  PortIInv'
  <1>1. rx' \in Seq(LineType) /\ Len(rx') = Len(rx) + 1 /\ Len(rx) \in Nat
    BY AppendProperties, LenProperties DEF Arrive, PortIInv, PortTypeOK
  <1>2. todo' \in 0 .. Len(rx') /\ Len(rx') <= RX_CAP /\ silence' \in 0 .. SILENCE_CAP
    BY <1>1 DEF Arrive, PortIInv, PortTypeOK, loopVars
  <1> QED
    BY <1>1, <1>2 DEF PortIInv, PortTypeOK, OneTerminator, ReceivingIsSilent, LineSetsTimer,
                      FlagsAreFresh, protocolVars, loopVars

LEMMA ClientInv ==
    ASSUME PortIInv,
           \/ \E line \in ClientLines : SendCommand(line)
           \/ SendChunk \/ Interrupted \/ Leave
    PROVE  PortIInv'
  <1>1. <<>> \in Seq(DataLine) /\ DataLine \subseteq LineType
    BY EmptySeq DEF DataLine
  <1>2. ASSUME NEW line \in ClientLines, SendCommand(line) PROVE PortIInv'
    <2>1. line \in LineType
      OBVIOUS
    <2>2. chunks' \in Seq(DataLine)
      BY <1>1, <1>2, <2>1 DEF SendCommand, LineType
    <2>3. prompt' \in BOOLEAN
      BY <1>2 DEF SendCommand, NoneUnderWay, PortIInv, PortTypeOK
    <2> QED
      BY <1>2, <2>1, <2>2, <2>3, ArriveInv DEF SendCommand
  <1>3. CASE SendChunk
    <2>1. chunks \in Seq(DataLine) /\ chunks # <<>>
      BY <1>3 DEF SendChunk, PortIInv, PortTypeOK
    <2>2. Head(chunks) \in LineType /\ Tail(chunks) \in Seq(DataLine)
      BY <1>1, <2>1, HeadTailProperties
    <2>3. prompt' \in BOOLEAN
      BY <1>3 DEF SendChunk, PortIInv, PortTypeOK
    <2> QED
      BY <1>3, <2>2, <2>3, ArriveInv DEF SendChunk
  <1>4. CASE Interrupted \/ Leave
    <2>1. chunks' \in Seq(DataLine)
      BY <1>1, <1>4 DEF Interrupted, Leave
    <2>2. client' \in BOOLEAN /\ prompt' \in BOOLEAN
      BY <1>4 DEF Interrupted, Leave, PortIInv, PortTypeOK
    <2> QED
      BY <1>4, <2>1, <2>2 DEF Interrupted, Leave, PortIInv, PortTypeOK, OneTerminator, ReceivingIsSilent,
                      LineSetsTimer, FlagsAreFresh, protocolVars, loopVars
  <1> QED
    BY <1>2, <1>3, <1>4

LEMMA StartPassInv ==
    ASSUME PortIInv, NEW d \in 0 .. PASS_LIMIT, StartPass(d)
    PROVE  PortIInv'
  <1>1. clock' \in TickValue /\ silence' \in 0 .. SILENCE_CAP
    BY SpendType DEF StartPass, PortIInv
  <1>2. now' \in TickValue
    BY DEF StartPass, PortIInv, PortTypeOK
  <1> QED
    BY <1>1, <1>2 DEF StartPass, PortIInv, PortTypeOK, OneTerminator, ReceivingIsSilent,
                      LineSetsTimer, FlagsAreFresh, protocolVars, hostVars

LEMMA ReadLinesInv ==
    ASSUME PortIInv, ReadLines
    PROVE  PortIInv'
  <1>1. Len(rx) \in Nat
    BY LenProperties DEF PortIInv, PortTypeOK
  <1> QED
    BY <1>1 DEF ReadLines, PortIInv, PortTypeOK, OneTerminator, ReceivingIsSilent,
                LineSetsTimer, FlagsAreFresh, protocolVars, hostVars, ghostVars

LEMMA HandleNextInv ==
    ASSUME PortIInv, HandleNext
    PROVE  PortIInv'
  <1>1. rx \in Seq(LineType) /\ todo \in 1 .. Len(rx) /\ Len(rx) \in Nat /\ Len(rx) <= RX_CAP
    BY LenProperties DEF HandleNext, PortIInv, PortTypeOK
  <1>2. rx # <<>>
    BY <1>1, EmptySeq
  <1>3. Head(rx) \in LineType /\ rx' \in Seq(LineType) /\ Len(rx') = Len(rx) - 1
    BY <1>1, <1>2, HeadTailProperties DEF HandleNext
  <1>4. todo' \in 0 .. Len(rx') /\ Len(rx') <= RX_CAP
    BY <1>1, <1>3 DEF HandleNext
  <1>5. clock' \in TickValue /\ silence' \in 0 .. SILENCE_CAP
    <2>1. Spent \in Nat
      BY ElapsedType DEF Spent, PortIInv, PortTypeOK
    <2>2. PICK d \in 0 .. PASS_LIMIT - Spent : Spend(d)
      BY DEF HandleNext
    <2>3. d \in Nat
      BY <2>1
    <2> QED
      BY <2>2, <2>3, SpendType DEF PortIInv
  <1>6. handle_line(Head(rx), now)
    BY DEF HandleNext
  <1>7. /\ receiving' \in BOOLEAN /\ (receiving' => expect' \in Uploads)
        /\ text' \in Seq(Pieces) /\ (receiving' => Len(text') < Len(Text[expect']))
        /\ last_rx' \in TickValue /\ (receiving' => last_rx' = now)
        /\ stored' \in Uploads \cup {NoUpload}
        /\ reply' \in {"ok", "err", "none"} /\ (receiving' => reply' = "none")
        /\ owed' = IF receiving' THEN 1 ELSE 0
    BY <1>3, <1>6, HandleLineInv
  <1>8. UNCHANGED <<now, phase, chunks, client, prompt>> /\ handled' = TRUE /\ phase = "lines"
    BY DEF HandleNext, hostVars
  <1>9. PortTypeOK'
    BY <1>3, <1>4, <1>5, <1>7, <1>8 DEF PortIInv, PortTypeOK
  <1> QED
    BY <1>7, <1>8, <1>9 DEF PortIInv, OneTerminator, ReceivingIsSilent, LineSetsTimer, FlagsAreFresh

LEMMA EndPassInv ==
    ASSUME PortIInv, EndPass
    PROVE  PortIInv'
  <1>1. /\ receiving' \in BOOLEAN /\ (receiving' => receiving)
        /\ expect' = expect /\ last_rx' = last_rx /\ stored' = stored
        /\ text' \in Seq(Pieces) /\ (receiving' => text' = text)
        /\ reply' \in {"err", "none"} /\ (receiving' => reply' = "none")
        /\ owed' = IF receiving' THEN 1 ELSE 0
    BY TickInv DEF EndPass
  <1>2. PortTypeOK'
    BY <1>1 DEF EndPass, PortIInv, PortTypeOK, hostVars, ghostVars
  <1> QED
    BY <1>1, <1>2 DEF EndPass, PortIInv, OneTerminator, ReceivingIsSilent, LineSetsTimer, FlagsAreFresh

LEMMA PortNextInv == PortIInv /\ [PortNext]_portVars => PortIInv'
  <1> SUFFICES ASSUME PortIInv, [PortNext]_portVars PROVE PortIInv'
    OBVIOUS
  <1>1. CASE UNCHANGED portVars
    BY <1>1 DEF portVars, protocolVars, loopVars, hostVars, ghostVars, PortIInv, PortTypeOK, OneTerminator,
                ReceivingIsSilent, LineSetsTimer, FlagsAreFresh
  <1> QED
    BY <1>1, ClientInv, StartPassInv, ReadLinesInv, HandleNextInv, EndPassInv DEF PortNext

\* The invariant holds in every state the board and its clients can reach.
THEOREM PortInvariant == PortSpec => []PortIInv
  BY PortInitInv, PortNextInv, PTL DEF PortSpec

\* The upload state, the timer and the queue of lines stay within their types.
THEOREM PortTypeCorrect == PortSpec => []PortTypeOK
  <1>1. PortIInv => PortTypeOK
    BY DEF PortIInv
  <1> QED
    BY <1>1, PortInvariant, PTL

\* One terminating line for each command taken, whatever lines arrive and however uploads end.
THEOREM ExactlyOneTerminator == PortSpec => []OneTerminator
  <1>1. PortIInv => OneTerminator
    BY DEF PortIInv
  <1> QED
    BY <1>1, PortInvariant, PTL

\* The timeout never takes an upload a line of which this pass has handled.
THEOREM TimeoutSparesHeardUploads == PortSpec => WaitingLineSavesUpload
  <1>1. ASSUME PortIInv, EndPass, receiving, ~receiving' PROVE ~handled
    <2>1. SUFFICES ASSUME handled PROVE FALSE
      OBVIOUS
    <2>2. last_rx = now /\ now \in TickValue
      BY <1>1, <2>1 DEF EndPass, PortIInv, PortTypeOK, LineSetsTimer
    <2>3. ~TimedOut(now)
      BY <2>2, NothingElapsed DEF TimedOut
    <2> QED
      BY <1>1, <2>3 DEF EndPass, tick
  <1>2. ASSUME PortIInv PROVE [EndPass /\ receiving /\ ~receiving' => ~handled]_portVars
    BY <1>1, <1>2
  <1> QED
    BY <1>2, PortInvariant, PTL DEF PortSpec, WaitingLineSavesUpload

-----------------------------------------------------------------------------
(* How long an upload can go on hearing nothing.  The invariant follows a  *)
(* line from its arrival to the tick: a line read in this pass arrived     *)
(* after the previous pass read the port, one not read yet after this pass *)
(* did, and an upload still in progress at the end of a pass had heard a   *)
(* line less than the timeout before that pass began.                      *)

Heard == elapsed(now, last_rx)      \* of the time the loop takes, since the last line of the upload

ClocksAgree ==
    /\ Spent \in 0 .. PASS_LIMIT /\ clock = ticks_add(now, Spent)
    /\ receiving => now = ticks_add(last_rx, Heard)

HeardLately ==
    receiving => Heard < WRITE_TIMEOUT_MS + (IF phase = "top" THEN 0 ELSE PASS_LIMIT)

WaitingIsYoung ==
    /\ phase = "top" /\ rx # <<>> => silence <= Spent
    /\ phase = "lines" /\ Len(rx) > todo => silence <= Spent
    /\ phase # "top" /\ rx # <<>> => silence <= Spent + PASS_LIMIT

SilenceIsHeard == receiving => silence <= Heard + Spent + PASS_LIMIT

TimeIInv == ClocksAgree /\ HeardLately /\ WaitingIsYoung /\ SilenceIsHeard

PassesAreShort == WRITE_TIMEOUT_MS + 2 * PASS_LIMIT < HalfPeriod

LEMMA TimeTypes ==
    ASSUME PortTypeOK
    PROVE  Spent \in Nat /\ Heard \in Nat /\ silence \in Nat /\ Len(rx) \in Nat
  BY ElapsedType, LenProperties DEF PortTypeOK, Spent, Heard

\* Two stretches of time add up.
LEMMA AddTwice ==
    ASSUME NEW t \in TickValue, NEW d \in Nat, NEW e \in Nat
    PROVE  ticks_add(ticks_add(t, d), e) = ticks_add(t, d + e)
  <1>1. t + d \in Nat /\ TICKS_PERIOD \in Nat \ {0} /\ (t + d) + e = t + (d + e)
    BY DEF TickValue
  <1> QED
    BY <1>1, RemainderOfSum DEF ticks_add

LEMMA TimeInitInv == PortInit => TimeIInv
  <1> SUFFICES ASSUME PortInit PROVE TimeIInv
    OBVIOUS
  <1>1. now \in TickValue /\ clock = now /\ Spent = 0
    BY NothingElapsed DEF PortInit, Spent
  <1>2. ticks_add(now, 0) = now
    BY <1>1 DEF ticks_add, TickValue
  <1>3. rx = <<>> /\ ~receiving /\ phase = "top"
    BY DEF PortInit, ProtocolInit
  <1> QED
    BY <1>1, <1>2, <1>3 DEF TimeIInv, ClocksAgree, HeardLately, WaitingIsYoung, SilenceIsHeard

\* A step that lets d ms pass moves the clock on by d and ages everything by at most d.
LEMMA SpendAges ==
    ASSUME PortTypeOK, NEW d \in Nat, Spend(d)
    PROVE  silence' \in Nat /\ silence' <= silence + d
  BY SpendType DEF Spend, AtMost, PortTypeOK

LEMMA ClientTime ==
    ASSUME PortIInv, TimeIInv,
           \/ \E line \in ClientLines : SendCommand(line)
           \/ SendChunk \/ Interrupted \/ Leave
    PROVE  TimeIInv'
  <1>1. UNCHANGED <<protocolVars, loopVars>>
    BY DEF SendCommand, SendChunk, Interrupted, Leave
  <1>2. UNCHANGED <<receiving, last_rx, clock, now, phase, todo, Spent, Heard>>
    BY <1>1 DEF protocolVars, loopVars, Spent, Heard
  <1>3. silence' = 0 \/ UNCHANGED <<silence, rx>>
    BY DEF SendCommand, SendChunk, Interrupted, Leave, Arrive
  <1>4. Spent \in Nat /\ Heard \in Nat
    BY TimeTypes DEF PortIInv
  <1> QED
    BY <1>2, <1>3, <1>4 DEF TimeIInv, ClocksAgree, HeardLately, WaitingIsYoung, SilenceIsHeard

LEMMA StartPassAges ==
    ASSUME PassesAreShort, PortIInv, TimeIInv, NEW d \in 0 .. PASS_LIMIT, StartPass(d)
    PROVE  /\ Spent' = d /\ clock' = ticks_add(now', d)
           /\ receiving => Heard' = Heard + Spent /\ now' = ticks_add(last_rx, Heard + Spent)
  <1>1. /\ Spent \in Nat /\ Heard \in Nat /\ silence \in Nat
        /\ {clock, now, last_rx} \subseteq TickValue /\ HalfPeriod \in Nat /\ d \in Nat
    BY TimeTypes, HalfOfPeriod DEF PortIInv, PortTypeOK
  <1>2. UNCHANGED <<receiving, last_rx, rx>> /\ phase = "top" /\ phase' = "read" /\ now' = clock
    BY DEF StartPass, protocolVars
  <1>3. Spent' = d /\ clock' = ticks_add(now', d)
    <2>1. clock' = ticks_add(clock, d) /\ d \in 0 .. HalfPeriod - 1
      BY <1>1 DEF StartPass, Spend, PassesAreShort
    <2> QED
      BY <1>1, <1>2, <2>1, ElapsedIsExact DEF Spent
  <1>4. receiving => Heard' = Heard + Spent /\ now' = ticks_add(last_rx, Heard + Spent)
    <2> SUFFICES ASSUME receiving
                 PROVE  Heard' = Heard + Spent /\ now' = ticks_add(last_rx, Heard + Spent)
      OBVIOUS
    <2>1. clock = ticks_add(last_rx, Heard + Spent)
      BY <1>1, AddTwice DEF TimeIInv, ClocksAgree
    <2>2. Heard + Spent \in 0 .. HalfPeriod - 1
      BY <1>1, <1>2 DEF TimeIInv, ClocksAgree, HeardLately, PassesAreShort
    <2> QED
      BY <1>1, <1>2, <2>1, <2>2, ElapsedIsExact DEF Heard
  <1> QED
    BY <1>3, <1>4

LEMMA StartPassTime ==
    ASSUME PassesAreShort, PortIInv, TimeIInv, NEW d \in 0 .. PASS_LIMIT, StartPass(d)
    PROVE  TimeIInv'
  <1>1. Spent \in Nat /\ Heard \in Nat /\ silence \in Nat /\ d \in Nat
    BY TimeTypes DEF PortIInv
  <1>2. UNCHANGED <<receiving, last_rx, rx>> /\ phase = "top" /\ phase' = "read" /\ now' = clock
    BY DEF StartPass, protocolVars
  <1>3. Spent' = d /\ clock' = ticks_add(now', d)
    BY StartPassAges
  <1>4. silence' \in Nat /\ silence' <= silence + d
    BY <1>1, SpendAges DEF StartPass, PortIInv
  <1>5. receiving => Heard' = Heard + Spent /\ now' = ticks_add(last_rx, Heard + Spent)
    BY StartPassAges
  <1>6. ClocksAgree'
    BY <1>2, <1>3, <1>5 DEF ClocksAgree
  <1>7. HeardLately'
    BY <1>1, <1>2, <1>5 DEF HeardLately, TimeIInv, ClocksAgree
  <1>8. WaitingIsYoung'
    BY <1>1, <1>2, <1>3, <1>4 DEF WaitingIsYoung, TimeIInv, ClocksAgree
  <1>9. SilenceIsHeard'
    BY <1>1, <1>2, <1>3, <1>4, <1>5 DEF SilenceIsHeard, TimeIInv, ClocksAgree
  <1> QED
    BY <1>6, <1>7, <1>8, <1>9 DEF TimeIInv

LEMMA ReadLinesTime ==
    ASSUME PortIInv, TimeIInv, ReadLines
    PROVE  TimeIInv'
  <1>1. UNCHANGED <<receiving, last_rx, clock, now, rx, silence, Spent, Heard>>
        /\ phase = "read" /\ phase' = "lines" /\ todo' = Len(rx)
    BY DEF ReadLines, protocolVars, ghostVars, Spent, Heard
  <1>2. Len(rx) \in Nat
    BY TimeTypes DEF PortIInv
  <1> QED
    BY <1>1, <1>2 DEF TimeIInv, ClocksAgree, HeardLately, WaitingIsYoung, SilenceIsHeard

LEMMA HandleNextTime ==
    ASSUME PassesAreShort, PortIInv, TimeIInv, HandleNext
    PROVE  TimeIInv'
  <1>1. /\ Spent \in 0 .. PASS_LIMIT /\ silence \in Nat
        /\ {clock, now, last_rx} \subseteq TickValue /\ HalfPeriod \in Nat
    BY TimeTypes, HalfOfPeriod DEF PortIInv, PortTypeOK, TimeIInv, ClocksAgree
  <1>2. PICK d \in 0 .. PASS_LIMIT - Spent : Spend(d)
    BY DEF HandleNext
  <1>3. rx \in Seq(LineType) /\ rx # <<>> /\ todo \in Nat
    BY TimeTypes, EmptyQueues DEF HandleNext, PortIInv, PortTypeOK
  <1>4. /\ phase = "lines" /\ phase' = "lines" /\ now' = now /\ Head(rx) \in LineType
        /\ Len(rx') = Len(rx) - 1 /\ todo' = todo - 1
    BY <1>3, HeadTailProperties DEF HandleNext
  <1>5. clock' = ticks_add(now, Spent + d) /\ Spent + d \in 0 .. PASS_LIMIT
    BY <1>1, <1>2, AddTwice DEF Spend, TimeIInv, ClocksAgree
  <1>6. Spent' = Spent + d
    BY <1>1, <1>4, <1>5, ElapsedIsExact DEF Spent, PassesAreShort
  <1>7. silence' \in Nat /\ silence' <= silence + d
    BY <1>1, <1>2, SpendAges DEF PortIInv
  <1>8. receiving' => last_rx' = now' /\ Heard' = 0 /\ now' = ticks_add(last_rx', Heard')
    <2>1. receiving' => last_rx' = now
      BY <1>4, HandleLineInv DEF HandleNext
    <2>2. elapsed(now, now) = 0 /\ ticks_add(now, 0) = now
      BY <1>1, NothingElapsed DEF ticks_add, TickValue
    <2> QED
      BY <1>4, <2>1, <2>2 DEF Heard
  <1>9. ClocksAgree' /\ HeardLately'
    BY <1>4, <1>5, <1>6, <1>8 DEF ClocksAgree, HeardLately
  <1>10. silence <= Spent + PASS_LIMIT
    BY <1>3, <1>4 DEF TimeIInv, WaitingIsYoung
  <1>11. silence' <= Spent' + PASS_LIMIT
    BY <1>1, <1>2, <1>6, <1>7, <1>10
  <1>12. Len(rx') > todo' => silence' <= Spent'
    <2>1. Len(rx') > todo' => silence <= Spent
      BY <1>3, <1>4, LenProperties DEF TimeIInv, WaitingIsYoung
    <2> QED
      BY <1>1, <1>2, <1>6, <1>7, <2>1
  <1>13. WaitingIsYoung' /\ SilenceIsHeard'
    BY <1>4, <1>5, <1>6, <1>8, <1>11, <1>12 DEF WaitingIsYoung, SilenceIsHeard
  <1> QED
    BY <1>9, <1>13 DEF TimeIInv

LEMMA EndPassTime ==
    ASSUME PortIInv, TimeIInv, EndPass
    PROVE  TimeIInv'
  <1>1. UNCHANGED <<last_rx, clock, now, rx, silence, Spent>> /\ Heard' = Heard
        /\ phase = "lines" /\ phase' = "top" /\ todo = 0
    BY TickInv DEF EndPass, ghostVars, Spent, Heard
  <1>2. receiving' => receiving /\ Heard < WRITE_TIMEOUT_MS
    <2>1. Heard \in Nat
      BY TimeTypes DEF PortIInv
    <2>2. receiving' => receiving
      BY TickInv DEF EndPass
    <2>3. TimedOut(now) => ~receiving'
      BY DEF EndPass, tick, reset_upload
    <2> QED
      BY <2>1, <2>2, <2>3 DEF TimedOut, Heard
  <1>3. rx # <<>> => Len(rx) > 0
    BY EmptySeq, TimeTypes DEF PortIInv, PortTypeOK
  <1> QED
    BY <1>1, <1>2, <1>3 DEF TimeIInv, ClocksAgree, HeardLately, WaitingIsYoung, SilenceIsHeard

LEMMA TimeNextInv ==
    ASSUME PassesAreShort
    PROVE  PortIInv /\ TimeIInv /\ [PortNext]_portVars => TimeIInv'
  <1> SUFFICES ASSUME PortIInv, TimeIInv, [PortNext]_portVars PROVE TimeIInv'
    OBVIOUS
  <1>1. CASE UNCHANGED portVars
    BY <1>1 DEF portVars, protocolVars, loopVars, ghostVars, TimeIInv, ClocksAgree, HeardLately,
                WaitingIsYoung, SilenceIsHeard, Spent, Heard
  <1> QED
    BY <1>1, ClientTime, StartPassTime, ReadLinesTime, HandleNextTime, EndPassTime DEF PortNext

\* An abandoned upload is given up within the timeout and three passes of the loop, provided that
\* the timeout and two passes fit in half a turn of the clock (three days on the board).
THEOREM UploadsAreAbandonedSoon ==
    ASSUME PassesAreShort
    PROVE  PortSpec => []AbandonedSoon
  <1>1. PortIInv /\ TimeIInv => AbandonedSoon
    BY TimeTypes DEF PortIInv, TimeIInv, ClocksAgree, HeardLately, SilenceIsHeard, AbandonedSoon
  <1>2. PortIInv /\ TimeIInv /\ [PortNext]_portVars => TimeIInv'
    BY TimeNextInv
  <1> QED
    BY <1>1, <1>2, TimeInitInv, PortInvariant, PTL DEF PortSpec
-----------------------------------------------------------------------------
(* Uploads that arrive.  The lines still to come, those that wait and then *)
(* those the client has left, begin with the rest of the upload; and one   *)
(* of them is there before the timeout is.                                 *)

Total == Len(rx) + Len(chunks)

Coming(i) == IF i <= Len(rx) THEN rx[i] ELSE chunks[i - Len(rx)]

\* Behind the first p lines to come are those of upload u from its line j + 1 on.
Follows(u, p, j) ==
    \A i \in 1 .. Len(ChunkLines[u]) - j :
        p + i <= Total /\ Coming(p + i) = ChunkLines[u][j + i]

\* Lines 1 to j of the upload have been taken.
Taken(u, cut, j) ==
    /\ cut \in [0 .. Len(ChunkLines[u]) -> 0 .. Len(Text[u])] /\ CutAt(u, cut)
    /\ j \in 0 .. Len(ChunkLines[u])
    /\ text = SubSeq(Text[u], 1, cut[j])
    /\ Follows(u, 0, j)

OneHeader ==
    prompt => \A p \in 1 .. Len(rx) :
        rx[p].cmd = "write" =>
            /\ ~receiving
            /\ \A q \in 1 .. Len(rx) : rx[q].cmd = "write" => q = p
            /\ Follows(rx[p].of, p, 0)

RestIsComing ==
    prompt /\ receiving /\ AsDeclared(expect) => \E cut, j : Taken(expect, cut, j)

NextIsInTime ==
    prompt /\ receiving /\ AsDeclared(expect) =>
        /\ rx = <<>> /\ silence < SILENCE_CAP => Heard + Spent <= silence + PASS_LIMIT
        /\ rx # <<>> /\ phase = "lines" /\ todo = 0 => Heard < WRITE_TIMEOUT_MS

ArrivalIInv == OneHeader /\ RestIsComing /\ NextIsInTime

LEMMA QueueTypes ==
    ASSUME PortTypeOK
    PROVE  /\ rx \in Seq(LineType) /\ chunks \in Seq(DataLine) /\ chunks \in Seq(LineType)
           /\ Len(rx) \in Nat /\ Len(chunks) \in Nat
           /\ rx = <<>> <=> Len(rx) = 0
  <1>1. DataLine \subseteq LineType
    BY DEF DataLine
  <1>2. rx \in Seq(LineType) /\ chunks \in Seq(DataLine)
    BY DEF PortTypeOK
  <1>3. chunks \in Seq(LineType)
    BY <1>1, <1>2
  <1> QED
    BY <1>2, <1>3, LenProperties, EmptySeq

\* What a client sends goes to the end of the lines to come.
SentBehind ==
    /\ Total <= Total'
    /\ \A i \in 1 .. Total : Coming(i)' = Coming(i)

LEMMA CommandGoesBehind ==
    ASSUME PortTypeOK, NEW line \in ClientLines, SendCommand(line)
    PROVE  /\ SentBehind /\ Len(rx') = Len(rx) + 1 /\ rx'[Len(rx) + 1] = line
           /\ \A i \in 1 .. Len(rx) : rx'[i] = rx[i]
  <1>1. line \in LineType /\ chunks = <<>> /\ rx' = Append(rx, line)
    BY DEF SendCommand, Arrive
  <1>2. /\ Len(rx') = Len(rx) + 1 /\ rx'[Len(rx) + 1] = line
        /\ \A i \in 1 .. Len(rx) : rx'[i] = rx[i]
    BY <1>1, QueueTypes, AppendProperties
  <1>3. Len(chunks) = 0 /\ Len(chunks') \in Nat /\ Len(rx) \in Nat
    <2>1. chunks' \in Seq(DataLine)
      BY EmptyQueues DEF SendCommand, LineType
    <2> QED
      BY <1>1, <2>1, QueueTypes, EmptyQueues, LenProperties
  <1> QED
    BY <1>2, <1>3 DEF SentBehind, Total, Coming

LEMMA ChunkGoesBehind ==
    ASSUME PortTypeOK, SendChunk
    PROVE  /\ SentBehind /\ Len(rx') = Len(rx) + 1 /\ rx'[Len(rx) + 1].cmd = "other"
           /\ \A i \in 1 .. Len(rx) : rx'[i] = rx[i]
  <1>1. chunks # <<>> /\ rx' = Append(rx, Head(chunks)) /\ chunks' = Tail(chunks)
    BY DEF SendChunk, Arrive
  <1>2. /\ Head(chunks) \in DataLine /\ Head(chunks) = chunks[1]
        /\ Len(chunks') = Len(chunks) - 1
        /\ \A i \in 1 .. Len(chunks') : chunks'[i] = chunks[i + 1]
    BY <1>1, QueueTypes, HeadTailProperties
  <1>3. Head(chunks) \in LineType /\ Head(chunks).cmd = "other"
    BY <1>2 DEF DataLine
  <1>4. /\ Len(rx') = Len(rx) + 1 /\ rx'[Len(rx) + 1] = Head(chunks)
        /\ \A i \in 1 .. Len(rx) : rx'[i] = rx[i]
    BY <1>1, <1>3, QueueTypes, AppendProperties
  <1>5. Len(rx) \in Nat /\ Len(chunks) \in Nat
    BY QueueTypes
  <1>6. Total' = Total
    BY <1>2, <1>4, <1>5 DEF Total
  <1>7. ASSUME NEW i \in 1 .. Total PROVE Coming(i)' = Coming(i)
    <2>1. CASE i <= Len(rx)
      BY <1>4, <1>5, <2>1 DEF Coming
    <2>2. CASE i = Len(rx) + 1
      BY <1>2, <1>4, <1>5, <2>2 DEF Coming
    <2>3. CASE i > Len(rx) + 1
      <3>1. i - Len(rx') \in 1 .. Len(chunks') /\ (i - Len(rx')) + 1 = i - Len(rx)
        BY <1>2, <1>4, <1>5, <2>3 DEF Total
      <3> QED
        BY <1>2, <1>4, <1>5, <2>3, <3>1 DEF Coming
    <2> QED
      BY <1>5, <2>1, <2>2, <2>3 DEF Total
  <1>8. Total \in Nat
    BY <1>5 DEF Total
  <1> QED
    BY <1>3, <1>4, <1>6, <1>7, <1>8 DEF SentBehind

LEMMA BehindFollows ==
    ASSUME SentBehind, PortTypeOK, Total' \in Nat, NEW u \in Uploads,
           NEW p \in Nat, NEW j \in 0 .. Len(ChunkLines[u]), Follows(u, p, j)
    PROVE  Follows(u, p, j)'
  <1>1. Total \in Nat /\ Len(ChunkLines[u]) \in Nat
    BY QueueTypes, LenProperties DEF Total
  <1>2. ASSUME NEW i \in 1 .. Len(ChunkLines[u]) - j
        PROVE  p + i <= Total' /\ Coming(p + i)' = ChunkLines[u][j + i]
    <2>1. p + i <= Total /\ Coming(p + i) = ChunkLines[u][j + i] /\ p + i \in 1 .. Total
      BY <1>1 DEF Follows
    <2> QED
      BY <1>1, <2>1 DEF SentBehind
  <1> QED
    BY <1>2 DEF Follows

\* A line that is handled is the first of those to come.
LEMMA HandledIsFirst ==
    ASSUME PortTypeOK, HandleNext
    PROVE  /\ Head(rx) = rx[1] /\ Head(rx) \in LineType /\ Len(rx) \in Nat \ {0}
           /\ Len(rx') = Len(rx) - 1 /\ \A i \in 1 .. Len(rx') : rx'[i] = rx[i + 1]
           /\ Total' = Total - 1 /\ Total \in Nat \ {0}
           /\ \A i \in 1 .. Total' : Coming(i)' = Coming(i + 1)
  <1>1. Len(rx) \in Nat \ {0} /\ Len(chunks) \in Nat /\ chunks' = chunks /\ rx # <<>>
    BY QueueTypes DEF HandleNext, PortTypeOK, hostVars
  <1>2. /\ Head(rx) = rx[1] /\ Head(rx) \in LineType
        /\ Len(rx') = Len(rx) - 1 /\ \A i \in 1 .. Len(rx') : rx'[i] = rx[i + 1]
    BY <1>1, QueueTypes, HeadTailProperties DEF HandleNext
  <1>3. Total' = Total - 1 /\ Total \in Nat \ {0}
    BY <1>1, <1>2 DEF Total
  <1>4. ASSUME NEW i \in 1 .. Total' PROVE Coming(i)' = Coming(i + 1)
    <2>1. CASE i <= Len(rx')
      BY <1>1, <1>2, <2>1 DEF Coming
    <2>2. CASE i > Len(rx')
      <3>1. i - Len(rx') = (i + 1) - Len(rx) /\ ~(i + 1 <= Len(rx))
        BY <1>1, <1>2, <1>3, <2>2
      <3> QED
        BY <1>1, <2>2, <3>1 DEF Coming
    <2> QED
      BY <1>1, <1>2, <1>3, <2>1, <2>2
  <1> QED
    BY <1>1, <1>2, <1>3, <1>4

LEMMA HandledFollows ==
    ASSUME PortTypeOK, HandleNext, NEW u \in Uploads, NEW p \in Nat,
           NEW j \in 0 .. Len(ChunkLines[u]), Follows(u, p + 1, j)
    PROVE  Follows(u, p, j)'
  <1>1. ASSUME NEW i \in 1 .. Len(ChunkLines[u]) - j
        PROVE  p + i <= Total' /\ Coming(p + i)' = ChunkLines[u][j + i]
    <2>1. (p + 1) + i = (p + i) + 1 /\ i \in Nat \ {0}
      BY LenProperties
    <2>2. (p + i) + 1 <= Total /\ Coming((p + i) + 1) = ChunkLines[u][j + i]
      BY <2>1 DEF Follows
    <2>3. p + i \in 1 .. Total'
      BY <2>1, <2>2, HandledIsFirst
    <2> QED
      BY <2>2, <2>3, HandledIsFirst
  <1> QED
    BY <1>1 DEF Follows

\* The next line of the upload is the one handled, and the rest moves up.
LEMMA NextTaken ==
    ASSUME PortTypeOK, HandleNext, NEW u \in Uploads,
           NEW j \in 0 .. Len(ChunkLines[u]) - 1, Follows(u, 0, j)
    PROVE  Head(rx) = ChunkLines[u][j + 1] /\ Follows(u, 0, j + 1)'
  <1>1. Len(ChunkLines[u]) \in Nat /\ 1 \in 1 .. Len(ChunkLines[u]) - j /\ j \in Nat
    BY LenProperties
  <1>2. Coming(1) = ChunkLines[u][j + 1]
    <2>1. Coming(0 + 1) = ChunkLines[u][j + 1] /\ 0 + 1 = 1
      BY <1>1 DEF Follows
    <2> QED
      BY <2>1
  <1>3. Coming(1) = Head(rx)
    BY HandledIsFirst DEF Coming
  <1>4. ASSUME NEW i \in 1 .. Len(ChunkLines[u]) - (j + 1)
        PROVE  0 + i <= Total' /\ Coming(0 + i)' = ChunkLines[u][(j + 1) + i]
    <2>1. i + 1 \in 1 .. Len(ChunkLines[u]) - j /\ j + (i + 1) = (j + 1) + i /\ 0 + i = i
          /\ 0 + (i + 1) = i + 1
      BY <1>1
    <2>2. i + 1 <= Total /\ Coming(i + 1) = ChunkLines[u][(j + 1) + i]
      BY <2>1 DEF Follows
    <2>3. i \in 1 .. Total'
      BY <1>1, <2>2, HandledIsFirst
    <2> QED
      BY <2>1, <2>2, <2>3, HandledIsFirst
  <1> QED
    BY <1>2, <1>3, <1>4 DEF Follows

Joins(t, a, b) == SubSeq(t, 1, a) \o SubSeq(t, a + 1, b) = SubSeq(t, 1, b)

\* Two stretches of a text, one after the other.
LEMMA StretchesJoin ==
    ASSUME NEW t \in Seq(Pieces), NEW a \in 0 .. Len(t), NEW b \in 0 .. Len(t), a <= b
    PROVE  /\ Joins(t, a, b)
           /\ Len(SubSeq(t, 1, b)) = b
           /\ b = Len(t) => SubSeq(t, 1, b) = t
  <1>1. Len(t) \in Nat /\ \A i \in 1 .. Len(t) : t[i] \in Pieces
    BY LenProperties, ElementOfSeq
  <1>2. /\ SubSeq(t, 1, a) \in Seq(Pieces) /\ Len(SubSeq(t, 1, a)) = a
        /\ \A i \in 1 .. a : SubSeq(t, 1, a)[i] = t[i]
    BY <1>1, SubSeqProperties
  <1>3. /\ SubSeq(t, a + 1, b) \in Seq(Pieces) /\ Len(SubSeq(t, a + 1, b)) = b - a
        /\ \A i \in 1 .. b - a : SubSeq(t, a + 1, b)[i] = t[a + i]
    BY <1>1, SubSeqProperties
  <1>4. /\ SubSeq(t, 1, b) \in Seq(Pieces) /\ Len(SubSeq(t, 1, b)) = b
        /\ \A i \in 1 .. b : SubSeq(t, 1, b)[i] = t[i]
    BY <1>1, SubSeqProperties
  <1> DEFINE c == SubSeq(t, 1, a) \o SubSeq(t, a + 1, b)
  <1>5. /\ c \in Seq(Pieces) /\ Len(c) = b
        /\ \A i \in 1 .. b : c[i] = IF i <= a THEN SubSeq(t, 1, a)[i] ELSE SubSeq(t, a + 1, b)[i - a]
    BY <1>1, <1>2, <1>3, ConcatProperties
  <1> HIDE DEF c
  <1>6. \A i \in 1 .. b : c[i] = t[i]
    <2> SUFFICES ASSUME NEW i \in 1 .. b PROVE c[i] = t[i]
      OBVIOUS
    <2>1. CASE i <= a
      BY <1>1, <1>2, <1>5, <2>1
    <2>2. CASE i > a
      <3>1. PICK k \in 1 .. b - a : k = i - a /\ a + k = i
        BY <1>1, <2>2
      <3>2. SubSeq(t, a + 1, b)[k] = t[a + k]
        BY <1>3
      <3>3. c[i] = SubSeq(t, a + 1, b)[k]
        BY <1>1, <1>5, <2>2, <3>1
      <3> QED
        BY <3>1, <3>2, <3>3
    <2> QED
      BY <1>1, <2>1, <2>2
  <1>7. c = SubSeq(t, 1, b)
    BY <1>4, <1>5, <1>6, SeqEqual
  <1>8. b = Len(t) => SubSeq(t, 1, b) = t
    BY <1>4, SeqEqual
  <1> QED
    BY <1>4, <1>7, <1>8 DEF c, Joins

\* While an upload is incomplete a line of it is still to come.
LEMMA MoreToCome ==
    ASSUME PortIInv, receiving, NEW cut, NEW j, Taken(expect, cut, j)
    PROVE  /\ j \in 0 .. Len(ChunkLines[expect]) - 1 /\ Len(ChunkLines[expect]) \in Nat
           /\ cut[j] \in 0 .. Len(Text[expect]) /\ cut[j + 1] \in 0 .. Len(Text[expect])
           /\ cut[j] <= cut[j + 1]
           /\ ChunkLines[expect][j + 1].text = SubSeq(Text[expect], cut[j] + 1, cut[j + 1])
           /\ Total >= 1
  <1>1. /\ expect \in Uploads /\ Len(text) < Len(Text[expect])
        /\ Text[expect] \in Seq(Pieces) /\ ChunkLines[expect] \in Seq(DataLine)
    BY DEF PortIInv, PortTypeOK
  <1>2. Len(ChunkLines[expect]) \in Nat /\ Len(Text[expect]) \in Nat
    BY <1>1, LenProperties
  <1>3. /\ j \in 0 .. Len(ChunkLines[expect])
        /\ cut \in [0 .. Len(ChunkLines[expect]) -> 0 .. Len(Text[expect])]
        /\ text = SubSeq(Text[expect], 1, cut[j])
    BY DEF Taken
  <1>4. Len(text) = cut[j]
    BY <1>1, <1>2, <1>3, StretchesJoin
  <1>5. j # Len(ChunkLines[expect])
    BY <1>1, <1>2, <1>4 DEF Taken, CutAt
  <1>6. j \in 0 .. Len(ChunkLines[expect]) - 1 /\ j + 1 \in 1 .. Len(ChunkLines[expect])
        /\ (j + 1) - 1 = j
    BY <1>2, <1>3, <1>5
  <1>7. cut[j] <= cut[j + 1]
        /\ ChunkLines[expect][j + 1].text = SubSeq(Text[expect], cut[j] + 1, cut[j + 1])
    BY <1>6 DEF Taken, CutAt
  <1>8. Total >= 1
    <2>1. 1 \in 1 .. Len(ChunkLines[expect]) - j
      BY <1>2, <1>6
    <2>2. 0 + 1 <= Total
      BY <2>1 DEF Taken, Follows
    <2>3. Total \in Nat
      BY QueueTypes DEF PortIInv, Total
    <2> QED
      BY <2>2, <2>3
  <1> QED
    BY <1>2, <1>3, <1>6, <1>7, <1>8

\* The line handled adds the next stretch of the text declared.
LEMMA StretchTaken ==
    ASSUME PortIInv, HandleNext, receiving, NEW cut, NEW j, Taken(expect, cut, j)
    PROVE  /\ text \o Head(rx).text = SubSeq(Text[expect], 1, cut[j + 1])
           /\ Len(text \o Head(rx).text) = cut[j + 1]
           /\ cut[j + 1] <= Len(Text[expect])
           /\ cut[j + 1] = Len(Text[expect]) => text \o Head(rx).text = Text[expect]
  <1>1. expect \in Uploads /\ Text[expect] \in Seq(Pieces)
    BY DEF PortIInv, PortTypeOK
  <1>2. /\ j \in 0 .. Len(ChunkLines[expect]) - 1
        /\ cut[j] \in 0 .. Len(Text[expect]) /\ cut[j + 1] \in 0 .. Len(Text[expect])
        /\ cut[j] <= cut[j + 1]
        /\ ChunkLines[expect][j + 1].text = SubSeq(Text[expect], cut[j] + 1, cut[j + 1])
    BY MoreToCome
  <1>3. text = SubSeq(Text[expect], 1, cut[j]) /\ Follows(expect, 0, j)
    BY DEF Taken
  <1>4. Head(rx) = ChunkLines[expect][j + 1]
    BY <1>1, <1>2, <1>3, NextTaken DEF PortIInv
  <1>5. text \o Head(rx).text = SubSeq(Text[expect], 1, cut[j + 1])
    <2>1. Head(rx).text = SubSeq(Text[expect], cut[j] + 1, cut[j + 1])
      BY <1>2, <1>4
    <2>2. SubSeq(Text[expect], 1, cut[j]) \o SubSeq(Text[expect], cut[j] + 1, cut[j + 1])
            = SubSeq(Text[expect], 1, cut[j + 1])
      <3>1. Joins(Text[expect], cut[j], cut[j + 1])
        BY <1>1, <1>2, StretchesJoin
      <3> QED
        BY <3>1, Zenon DEF Joins
    <2> QED
      BY <1>3, <2>1, <2>2, Zenon
  <1>6. /\ Len(SubSeq(Text[expect], 1, cut[j + 1])) = cut[j + 1]
        /\ cut[j + 1] = Len(Text[expect]) => SubSeq(Text[expect], 1, cut[j + 1]) = Text[expect]
    BY <1>1, <1>2, StretchesJoin
  <1>7. cut[j + 1] <= Len(Text[expect])
    BY <1>1, <1>2, LenProperties
  <1> QED
    BY <1>5, <1>6, <1>7

LEMMA ArrivalInitInv == PortInit => ArrivalIInv
  <1> SUFFICES ASSUME PortInit PROVE ArrivalIInv
    OBVIOUS
  <1> QED
    BY DEF PortInit, ArrivalIInv, OneHeader, RestIsComing, NextIsInTime

\* What a client sends disturbs nothing of an upload on its way.
LEMMA BehindRest ==
    ASSUME PortTypeOK, SentBehind, Total' \in Nat, RestIsComing,
           UNCHANGED <<receiving, expect, text>>, prompt' => prompt
    PROVE  RestIsComing'
  <1> SUFFICES ASSUME prompt', receiving', AsDeclared(expect)'
               PROVE  \E cut, j : Taken(expect, cut, j)'
    BY DEF RestIsComing
  <1>1. AsDeclared(expect) /\ expect \in Uploads
    BY DEF AsDeclared, CutAt, PortTypeOK
  <1>2. PICK cut, j : Taken(expect, cut, j)
    BY <1>1 DEF RestIsComing
  <1>3. Follows(expect, 0, j) /\ j \in 0 .. Len(ChunkLines[expect])
    BY <1>2 DEF Taken
  <1>4. PICK u \in Uploads : u = expect /\ u = expect'
    BY <1>1
  <1>5. Follows(u, 0, j)'
    BY <1>3, <1>4, BehindFollows
  <1>6. Taken(expect, cut, j)'
    BY <1>2, <1>4, <1>5 DEF Taken, Follows, CutAt
  <1> QED
    BY <1>6

LEMMA BehindHeader ==
    ASSUME PortTypeOK, SentBehind, Total' \in Nat, OneHeader, prompt, UNCHANGED receiving,
           Len(rx') = Len(rx) + 1, \A i \in 1 .. Len(rx) : rx'[i] = rx[i],
           rx'[Len(rx) + 1].cmd # "write"
    PROVE  OneHeader'
  <1>1. Len(rx) \in Nat
    BY QueueTypes
  <1>2. ASSUME NEW p \in 1 .. Len(rx'), rx'[p].cmd = "write"
        PROVE  /\ ~receiving'
               /\ \A q \in 1 .. Len(rx') : rx'[q].cmd = "write" => q = p
               /\ Follows(rx[p].of, p, 0)'
    <2>1. p \in 1 .. Len(rx) /\ rx[p] = rx'[p]
      BY <1>1, <1>2
    <2>2. /\ ~receiving
          /\ \A q \in 1 .. Len(rx) : rx[q].cmd = "write" => q = p
          /\ Follows(rx[p].of, p, 0)
      BY <1>2, <2>1 DEF OneHeader
    <2>3. \A q \in 1 .. Len(rx') : rx'[q].cmd = "write" => q = p
      BY <1>1, <2>2
    <2>4. PICK u \in Uploads : u = rx[p].of
      BY <1>2, <2>1, QueueTypes, ElementOfSeq DEF LineType
    <2>5. 0 \in 0 .. Len(ChunkLines[u]) /\ p \in Nat
      BY <1>1, <2>1, LenProperties
    <2>6. Follows(u, p, 0)'
      BY <2>2, <2>4, <2>5, BehindFollows
    <2>7. Follows(rx[p].of, p, 0)'
      BY <2>1, <2>4, <2>6 DEF Follows
    <2> QED
      BY <2>2, <2>3, <2>7
  <1> QED
    BY <1>2 DEF OneHeader

LEMMA CommandArrival ==
    ASSUME PortIInv, ArrivalIInv, NEW line \in ClientLines, SendCommand(line)
    PROVE  ArrivalIInv'
  <1>1. PortTypeOK /\ line \in LineType /\ chunks = <<>> /\ Len(rx) \in Nat
    BY QueueTypes DEF PortIInv, SendCommand
  <1>2. UNCHANGED <<receiving, expect, text, last_rx, now, clock, phase, todo, Spent, Heard>>
    BY DEF SendCommand, protocolVars, loopVars, Spent, Heard
  <1>3. /\ SentBehind /\ Len(rx') = Len(rx) + 1 /\ rx'[Len(rx) + 1] = line
        /\ \A i \in 1 .. Len(rx) : rx'[i] = rx[i]
    BY <1>1, CommandGoesBehind
  <1>4. chunks' \in Seq(DataLine) /\ Len(chunks') \in Nat
    <2>1. chunks' \in Seq(DataLine)
      BY <1>1, EmptyQueues DEF SendCommand, LineType
    <2> QED
      BY <2>1, LenProperties
  <1>5. Total' \in Nat
    BY <1>1, <1>3, <1>4 DEF Total
  <1>6. CASE line.cmd = "write"
    <2>1. prompt' = NoneUnderWay
      BY <1>6 DEF SendCommand
    <2>2. prompt' => ~receiving' /\ \A q \in 1 .. Len(rx) : rx'[q].cmd # "write"
      BY <1>2, <1>3, <2>1 DEF NoneUnderWay
    <2>3. ASSUME prompt', NEW p \in 1 .. Len(rx'), rx'[p].cmd = "write"
          PROVE  /\ ~receiving'
                 /\ \A q \in 1 .. Len(rx') : rx'[q].cmd = "write" => q = p
                 /\ Follows(rx[p].of, p, 0)'
      <3>1. p = Len(rx) + 1 /\ rx'[p] = line
        BY <1>1, <1>3, <2>2, <2>3
      <3>2. \A q \in 1 .. Len(rx') : rx'[q].cmd = "write" => q = p
        BY <1>1, <1>3, <2>2, <2>3, <3>1
      <3>3. PICK u \in Uploads : u = line.of
        BY <1>1, <1>6 DEF LineType
      <3>4. chunks' = ChunkLines[u] /\ Len(chunks') \in Nat
        BY <1>4, <1>6, <3>3 DEF SendCommand
      <3>5. ASSUME NEW i \in 1 .. Len(ChunkLines[u]) - 0
            PROVE  p + i <= Total' /\ Coming(p + i)' = ChunkLines[u][0 + i]
        <4>1. /\ p = Len(rx') /\ Total' = p + Len(chunks') /\ (p + i) - Len(rx') = i
              /\ ~(p + i <= Len(rx')) /\ 0 + i = i /\ i \in 1 .. Len(chunks')
          BY <1>1, <1>3, <3>1, <3>4 DEF Total
        <4> QED
          BY <1>1, <3>1, <3>4, <4>1 DEF Coming
      <3>6. Follows(rx[p].of, p, 0)'
        BY <3>1, <3>3, <3>5 DEF Follows
      <3> QED
        BY <2>2, <2>3, <3>2, <3>6
    <2> QED
      BY <2>2, <2>3 DEF ArrivalIInv, OneHeader, RestIsComing, NextIsInTime
  <1>7. CASE line.cmd # "write"
    <2>1. prompt' = prompt
      BY <1>7 DEF SendCommand
    <2>2. RestIsComing'
      BY <1>1, <1>2, <1>3, <1>5, <2>1, BehindRest DEF ArrivalIInv
    <2>3. OneHeader'
      <3>1. CASE prompt
        BY <1>1, <1>2, <1>3, <1>5, <1>7, <3>1, BehindHeader DEF ArrivalIInv
      <3>2. CASE ~prompt
        BY <2>1, <3>2 DEF OneHeader
      <3> QED
        BY <3>1, <3>2
    <2>4. NextIsInTime'
      <3> SUFFICES ASSUME prompt', receiving', AsDeclared(expect)'
                   PROVE  NextIsInTime'
        BY DEF NextIsInTime
      <3>1. prompt /\ receiving /\ AsDeclared(expect)
        BY <1>2, <2>1 DEF AsDeclared, CutAt
      <3>2. PICK cut, j : Taken(expect, cut, j)
        BY <3>1 DEF ArrivalIInv, RestIsComing
      <3>3. Total >= 1
        BY <3>1, <3>2, MoreToCome
      <3>4. rx # <<>>
        BY <1>1, <3>3, EmptyQueues DEF Total
      <3>5. rx' # <<>>
        BY <1>1, <1>3, EmptyQueues
      <3> QED
        BY <1>2, <3>1, <3>4, <3>5 DEF ArrivalIInv, NextIsInTime
    <2> QED
      BY <2>2, <2>3, <2>4 DEF ArrivalIInv
  <1> QED
    BY <1>6, <1>7

LEMMA ChunkArrival ==
    ASSUME WRITE_TIMEOUT_MS - PASS_LIMIT <= SILENCE_CAP, PortIInv, TimeIInv, ArrivalIInv, SendChunk
    PROVE  ArrivalIInv'
  <1>1. PortTypeOK /\ Len(rx) \in Nat /\ Len(chunks) \in Nat
    BY QueueTypes DEF PortIInv
  <1>2. UNCHANGED <<receiving, expect, text, last_rx, now, clock, phase, todo, Spent, Heard>>
    BY DEF SendChunk, protocolVars, loopVars, Spent, Heard
  <1>3. /\ SentBehind /\ Len(rx') = Len(rx) + 1 /\ rx'[Len(rx) + 1].cmd # "write"
        /\ \A i \in 1 .. Len(rx) : rx'[i] = rx[i]
    BY <1>1, ChunkGoesBehind
  <1>4. Total' \in Nat
    <2>1. Len(chunks') = Len(chunks) - 1 /\ Len(chunks) > 0
      BY <1>1, QueueTypes, HeadTailProperties, EmptySeq DEF SendChunk
    <2> QED
      BY <1>1, <1>3, <2>1 DEF Total
  <1>5. prompt' => prompt /\ silence < WRITE_TIMEOUT_MS - PASS_LIMIT
    BY DEF SendChunk
  <1>6. RestIsComing'
    BY <1>1, <1>2, <1>3, <1>4, <1>5, BehindRest DEF ArrivalIInv
  <1>7. OneHeader'
    <2>1. CASE prompt
      BY <1>1, <1>2, <1>3, <1>4, <2>1, BehindHeader DEF ArrivalIInv
    <2>2. CASE ~prompt
      BY <1>5, <2>2 DEF OneHeader
    <2> QED
      BY <2>1, <2>2
  <1>8. NextIsInTime'
    <2> SUFFICES ASSUME prompt', receiving', AsDeclared(expect)'
                 PROVE  /\ rx' # <<>>
                        /\ phase' = "lines" /\ todo' = 0 => Heard' < WRITE_TIMEOUT_MS
      BY DEF NextIsInTime
    <2>1. prompt /\ receiving /\ AsDeclared(expect)
      BY <1>2, <1>5 DEF AsDeclared, CutAt
    <2>2. rx' # <<>>
      BY <1>1, <1>3, EmptyQueues
    <2>3. Heard \in Nat /\ Spent \in Nat /\ silence \in Nat
      BY <1>1, TimeTypes
    <2>4. rx = <<>> => Heard < WRITE_TIMEOUT_MS
      BY <1>5, <2>1, <2>3 DEF ArrivalIInv, NextIsInTime
    <2>5. rx # <<>> /\ phase = "lines" /\ todo = 0 => Heard < WRITE_TIMEOUT_MS
      BY <2>1 DEF ArrivalIInv, NextIsInTime
    <2> QED
      BY <1>2, <2>2, <2>4, <2>5
  <1> QED
    BY <1>6, <1>7, <1>8 DEF ArrivalIInv

\* A client that gives up, or the last one leaving.
LEMMA GoneArrival ==
    ASSUME PortIInv, ArrivalIInv, Interrupted \/ Leave
    PROVE  ArrivalIInv'
  <1>1. prompt' => prompt /\ chunks' = chunks
    BY DEF Interrupted, Leave
  <1>2. UNCHANGED <<receiving, expect, text, last_rx, now, clock, phase, todo, rx, silence, Spent, Heard>>
    BY DEF Interrupted, Leave, protocolVars, loopVars, Spent, Heard
  <1>3. ASSUME prompt' PROVE UNCHANGED <<prompt, chunks, Total>> /\ \A i : Coming(i)' = Coming(i)
    BY <1>1, <1>2, <1>3 DEF Total, Coming, Interrupted, Leave
  <1>4. OneHeader'
    BY <1>2, <1>3 DEF ArrivalIInv, OneHeader, Follows
  <1>5. RestIsComing'
    <2> SUFFICES ASSUME prompt', receiving', AsDeclared(expect)'
                 PROVE  \E cut, j : Taken(expect, cut, j)'
      BY DEF RestIsComing
    <2>1. PICK cut, j : Taken(expect, cut, j)
      BY <1>2, <1>3 DEF ArrivalIInv, RestIsComing, AsDeclared, CutAt
    <2>2. Taken(expect, cut, j)'
      BY <1>2, <1>3, <2>1 DEF Taken, Follows, CutAt
    <2> QED
      BY <2>2
  <1>6. NextIsInTime'
    BY <1>2, <1>3 DEF ArrivalIInv, NextIsInTime, AsDeclared, CutAt
  <1> QED
    BY <1>4, <1>5, <1>6 DEF ArrivalIInv

\* The loop's own steps but the one that handles a line leave text and queue alone, and may at
\* most give the upload up.
LEMMA QuietArrival ==
    ASSUME ArrivalIInv, UNCHANGED <<rx, chunks, prompt, expect>>,
           receiving' => receiving /\ text' = text
    PROVE  OneHeader' /\ RestIsComing'
  <1>1. UNCHANGED Total /\ \A i : Coming(i)' = Coming(i)
    BY DEF Total, Coming
  <1>2. OneHeader'
    <2>1. ASSUME prompt, NEW p \in 1 .. Len(rx), rx[p].cmd = "write"
          PROVE  /\ ~receiving'
                 /\ \A q \in 1 .. Len(rx) : rx[q].cmd = "write" => q = p
                 /\ Follows(rx[p].of, p, 0)'
      BY <1>1, <2>1 DEF ArrivalIInv, OneHeader, Follows
    <2> QED
      BY <2>1 DEF OneHeader
  <1>3. RestIsComing'
    <2> SUFFICES ASSUME prompt', receiving', AsDeclared(expect)'
                 PROVE  \E cut, j : Taken(expect, cut, j)'
      BY DEF RestIsComing
    <2>1. PICK cut, j : Taken(expect, cut, j)
      BY DEF ArrivalIInv, RestIsComing, AsDeclared, CutAt
    <2>2. Taken(expect, cut, j)'
      BY <1>1, <2>1 DEF Taken, Follows, CutAt
    <2> QED
      BY <2>2
  <1> QED
    BY <1>2, <1>3

LEMMA StartPassArrival ==
    ASSUME PassesAreShort, PortIInv, TimeIInv, ArrivalIInv, NEW d \in 0 .. PASS_LIMIT, StartPass(d)
    PROVE  ArrivalIInv'
  <1>1. UNCHANGED <<rx, chunks, prompt, expect, receiving, text, todo>>
        /\ phase = "top" /\ phase' = "read"
    BY DEF StartPass, protocolVars, hostVars
  <1>2. OneHeader' /\ RestIsComing'
    BY <1>1, QuietArrival
  <1>3. NextIsInTime'
    <2> SUFFICES ASSUME prompt, receiving, AsDeclared(expect)', rx = <<>>, silence' < SILENCE_CAP
                 PROVE  Heard' + Spent' <= silence' + PASS_LIMIT
      BY <1>1 DEF NextIsInTime
    <2>1. AsDeclared(expect)
      BY <1>1 DEF AsDeclared, CutAt
    <2>2. Heard' = Heard + Spent /\ Spent' = d
      BY StartPassAges
    <2>3. Heard \in Nat /\ Spent \in Nat /\ silence \in 0 .. SILENCE_CAP /\ d \in Nat
      BY TimeTypes DEF PortIInv, PortTypeOK
    <2>4. silence' = silence + d /\ silence < SILENCE_CAP
      BY <2>3 DEF StartPass, Spend, AtMost
    <2>5. Heard + Spent <= silence + PASS_LIMIT
      BY <2>1, <2>4 DEF ArrivalIInv, NextIsInTime
    <2> QED
      BY <2>2, <2>3, <2>4, <2>5
  <1> QED
    BY <1>2, <1>3 DEF ArrivalIInv

LEMMA ReadLinesArrival ==
    ASSUME PortIInv, ArrivalIInv, ReadLines
    PROVE  ArrivalIInv'
  <1>1. UNCHANGED <<rx, chunks, prompt, expect, receiving, text, silence, Spent, Heard>>
        /\ todo' = Len(rx)
    BY DEF ReadLines, protocolVars, hostVars, ghostVars, Spent, Heard
  <1>2. OneHeader' /\ RestIsComing'
    BY <1>1, QuietArrival
  <1>3. rx # <<>> => todo' # 0
    BY <1>1, QueueTypes DEF PortIInv
  <1>4. NextIsInTime'
    BY <1>1, <1>3 DEF ArrivalIInv, NextIsInTime, AsDeclared, CutAt
  <1> QED
    BY <1>2, <1>4 DEF ArrivalIInv

LEMMA EndPassArrival ==
    ASSUME PortIInv, ArrivalIInv, EndPass
    PROVE  ArrivalIInv'
  <1>1. UNCHANGED <<rx, chunks, prompt, expect, silence, Spent, Heard>> /\ phase' = "top"
        /\ (receiving' => receiving /\ text' = text)
    BY TickInv DEF EndPass, hostVars, ghostVars, Spent, Heard
  <1>2. OneHeader' /\ RestIsComing'
    BY <1>1, QuietArrival
  <1>3. NextIsInTime'
    BY <1>1 DEF ArrivalIInv, NextIsInTime, AsDeclared, CutAt
  <1> QED
    BY <1>2, <1>3 DEF ArrivalIInv

LEMMA HandleNextArrival ==
    ASSUME PassesAreShort, PortIInv, TimeIInv, ArrivalIInv, HandleNext
    PROVE  ArrivalIInv'
  <1>1. /\ PortTypeOK /\ handle_line(Head(rx), now)
        /\ UNCHANGED <<prompt, chunks, now, phase>> /\ phase = "lines"
    BY DEF PortIInv, HandleNext, hostVars
  <1>2. /\ Head(rx) = rx[1] /\ Head(rx) \in LineType /\ Len(rx) \in Nat \ {0}
        /\ Len(rx') = Len(rx) - 1 /\ \A i \in 1 .. Len(rx') : rx'[i] = rx[i + 1]
    BY <1>1, HandledIsFirst
  <1>3. receiving /\ prompt => \A p \in 1 .. Len(rx) : rx[p].cmd # "write"
    BY DEF ArrivalIInv, OneHeader
  <1>4. receiving' /\ ~receiving => /\ rx[1].cmd = "write" /\ rx[1].of \in Uploads
                                    /\ expect' = rx[1].of /\ text' = <<>>
    BY <1>1, <1>2 DEF handle_line, HandleCommand, LineType
  <1>5. OneHeader'
    <2> SUFFICES ASSUME prompt, NEW p \in 1 .. Len(rx'), rx'[p].cmd = "write"
                 PROVE  /\ ~receiving'
                        /\ \A q \in 1 .. Len(rx') : rx'[q].cmd = "write" => q = p
                        /\ Follows(rx[p].of, p, 0)'
      BY <1>1 DEF OneHeader
    <2>1. p + 1 \in 1 .. Len(rx) /\ rx'[p] = rx[p + 1] /\ p \in Nat /\ p \in 1 .. Len(rx)
      BY <1>2
    <2>2. /\ ~receiving
          /\ \A q \in 1 .. Len(rx) : rx[q].cmd = "write" => q = p + 1
          /\ Follows(rx[p + 1].of, p + 1, 0)
      BY <2>1 DEF ArrivalIInv, OneHeader
    <2>3. ~receiving'
      <3>1. 1 \in 1 .. Len(rx) /\ 1 # p + 1
        BY <1>2, <2>1
      <3> QED
        BY <1>4, <2>2, <3>1
    <2>4. \A q \in 1 .. Len(rx') : rx'[q].cmd = "write" => q = p
      <3> SUFFICES ASSUME NEW q \in 1 .. Len(rx'), rx'[q].cmd = "write" PROVE q = p
        OBVIOUS
      <3>1. q + 1 \in 1 .. Len(rx) /\ rx'[q] = rx[q + 1]
        BY <1>2
      <3>2. q + 1 = p + 1
        BY <2>2, <3>1
      <3> QED
        BY <1>2, <2>1, <3>2
    <2>5. PICK u \in Uploads : u = rx[p + 1].of
      <3>1. rx[p + 1] \in LineType
        BY <1>1, <2>1, QueueTypes, ElementOfSeq
      <3> QED
        BY <2>1, <3>1 DEF LineType
    <2>6. 0 \in 0 .. Len(ChunkLines[u])
      BY LenProperties
    <2>7. Follows(u, p, 0)'
      BY <1>1, <2>1, <2>2, <2>5, <2>6, HandledFollows
    <2>8. Follows(rx[p].of, p, 0)'
      BY <2>1, <2>5, <2>7 DEF Follows
    <2> QED
      BY <2>3, <2>4, <2>8
  <1>6. RestIsComing'
    <2> SUFFICES ASSUME prompt, receiving', AsDeclared(expect)'
                 PROVE  \E cut, j : Taken(expect, cut, j)'
      BY <1>1 DEF RestIsComing
    <2>1. CASE ~receiving
      <3>1. PICK u \in Uploads : u = rx[1].of /\ u = expect'
        BY <1>4, <2>1
      <3>2. Follows(u, 1, 0)
        <4>1. 1 \in 1 .. Len(rx) /\ rx[1].cmd = "write"
          BY <1>2, <1>4, <2>1
        <4> QED
          BY <3>1, <4>1 DEF ArrivalIInv, OneHeader
      <3>3. Follows(u, 0, 0)'
        <4>1. 0 \in 0 .. Len(ChunkLines[u]) /\ 0 + 1 = 1 /\ 0 \in Nat
          BY LenProperties
        <4>2. Follows(u, 0 + 1, 0)
          BY <3>2, <4>1
        <4> QED
          BY <1>1, <4>1, <4>2, HandledFollows
      <3>4. PICK cut \in [0 .. Len(ChunkLines[u]) -> 0 .. Len(Text[u])] : CutAt(u, cut)
        BY <3>1 DEF AsDeclared, CutAt
      <3>5. text' = SubSeq(Text[u], 1, cut[0]) /\ 0 \in 0 .. Len(ChunkLines[u])
        <4>1. SubSeq(Text[u], 1, 0) = <<>>
          BY SubSeqEmpty
        <4>2. cut[0] = 0
          BY <3>4 DEF CutAt
        <4>3. 0 \in 0 .. Len(ChunkLines[u])
          BY LenProperties
        <4> QED
          BY <1>4, <2>1, <4>1, <4>2, <4>3
      <3>6. Taken(expect, cut, 0)'
        BY <3>1, <3>3, <3>4, <3>5 DEF Taken, Follows, CutAt
      <3> QED
        BY <3>6
    <2>2. CASE receiving
      <3>1. HandleUploadLine(Head(rx), now) /\ expect \in Uploads
        BY <1>1, <2>2 DEF handle_line, PortTypeOK
      <3>2. expect' = expect /\ text' = text \o Head(rx).text
            /\ Len(text \o Head(rx).text) < Len(Text[expect])
        BY <3>1 DEF HandleUploadLine, Complete, reset_upload
      <3>3. PICK cut, j : Taken(expect, cut, j)
        BY <2>2, <3>2 DEF ArrivalIInv, RestIsComing, AsDeclared, CutAt
      <3>4. /\ text' = SubSeq(Text[expect], 1, cut[j + 1])
            /\ j \in 0 .. Len(ChunkLines[expect]) - 1 /\ Len(ChunkLines[expect]) \in Nat
        BY <2>2, <3>2, <3>3, StretchTaken, MoreToCome
      <3>5. PICK u \in Uploads : u = expect /\ u = expect'
        BY <3>1, <3>2
      <3>6. Follows(u, 0, j + 1)'
        BY <1>1, <3>3, <3>4, <3>5, NextTaken DEF Taken
      <3>7. j + 1 \in 0 .. Len(ChunkLines[u])
        BY <3>4, <3>5
      <3>8. Taken(expect, cut, j + 1)'
        BY <3>3, <3>4, <3>5, <3>6, <3>7 DEF Taken, Follows, CutAt
      <3> QED
        BY <3>8
    <2> QED
      BY <2>1, <2>2
  <1>7. NextIsInTime'
    <2> SUFFICES ASSUME receiving' PROVE NextIsInTime'
      BY DEF NextIsInTime
    <2>1. Heard' = 0 /\ Spent' \in 0 .. PASS_LIMIT /\ silence' \in Nat
      <3>1. last_rx' = now
        BY <1>1, <1>2, HandleLineInv
      <3>2. Heard' = 0
        BY <1>1, <3>1, NothingElapsed DEF Heard, PortTypeOK
      <3>3. TimeIInv' /\ PortIInv'
        BY HandleNextTime, HandleNextInv
      <3> QED
        BY <3>2, <3>3 DEF TimeIInv, ClocksAgree, PortIInv, PortTypeOK
    <2>2. Heard' + Spent' <= silence' + PASS_LIMIT /\ Heard' < WRITE_TIMEOUT_MS
      <3>1. ASSUME NEW n \in 0 .. PASS_LIMIT, NEW q \in Nat PROVE 0 + n <= q + PASS_LIMIT
        BY PortAssumption
      <3>2. 0 < WRITE_TIMEOUT_MS
        BY ProtocolAssumption
      <3> QED
        BY <2>1, <3>1, <3>2, Zenon
    <2> QED
      BY <2>2, Zenon DEF NextIsInTime
  <1> QED
    BY <1>5, <1>6, <1>7 DEF ArrivalIInv

LEMMA ArrivalNextInv ==
    ASSUME PassesAreShort, WRITE_TIMEOUT_MS - PASS_LIMIT <= SILENCE_CAP
    PROVE  PortIInv /\ TimeIInv /\ ArrivalIInv /\ [PortNext]_portVars => ArrivalIInv'
  <1> SUFFICES ASSUME PortIInv, TimeIInv, ArrivalIInv, [PortNext]_portVars PROVE ArrivalIInv'
    OBVIOUS
  <1>1. CASE UNCHANGED portVars
    <2>1. UNCHANGED <<rx, chunks, prompt, expect, receiving, text, silence, phase, todo, Spent, Heard>>
      BY <1>1 DEF portVars, protocolVars, loopVars, hostVars, ghostVars, Spent, Heard
    <2>2. OneHeader' /\ RestIsComing'
      BY <2>1, QuietArrival
    <2>3. NextIsInTime'
      BY <2>1 DEF ArrivalIInv, NextIsInTime, AsDeclared, CutAt
    <2> QED
      BY <2>2, <2>3 DEF ArrivalIInv
  <1> QED
    BY <1>1, CommandArrival, ChunkArrival, GoneArrival, StartPassArrival, ReadLinesArrival,
       HandleNextArrival, EndPassArrival DEF PortNext

\* An upload sent as declared and without long pauses is stored or refused by the device: neither
\* the timeout nor what other clients left takes it, provided that the timeout and two passes fit
\* in half a turn of the clock, and that the ghost silence counts far enough.
THEOREM GoodUploadsAlwaysArrive ==
    ASSUME PassesAreShort, WRITE_TIMEOUT_MS - PASS_LIMIT <= SILENCE_CAP
    PROVE  PortSpec => GoodUploadsArrive
  <1> DEFINE Arrives == prompt /\ receiving /\ ~receiving' /\ AsDeclared(expect) =>
                            IF todo > 0
                            THEN /\ text \o Head(rx).text = Text[expect]
                                 /\ stored' = expect \/ expect \in Refused
                            ELSE silence >= WRITE_TIMEOUT_MS - PASS_LIMIT
  <1>1. ASSUME PortIInv, ArrivalIInv, [PortNext]_portVars PROVE [Arrives]_portVars
    <2> SUFFICES ASSUME PortNext, prompt, receiving, ~receiving', AsDeclared(expect)
                 PROVE  IF todo > 0
                        THEN /\ text \o Head(rx).text = Text[expect]
                             /\ stored' = expect \/ expect \in Refused
                        ELSE silence >= WRITE_TIMEOUT_MS - PASS_LIMIT
      BY <1>1
    <2>1. HandleNext \/ EndPass
      BY DEF PortNext, SendCommand, SendChunk, Interrupted, Leave, StartPass, ReadLines,
             protocolVars
    <2>2. CASE HandleNext
      <3>1. PICK cut, j : Taken(expect, cut, j)
        BY <1>1 DEF ArrivalIInv, RestIsComing
      <3>2. /\ Len(text \o Head(rx).text) = cut[j + 1]
            /\ cut[j + 1] <= Len(Text[expect])
            /\ cut[j + 1] = Len(Text[expect]) => text \o Head(rx).text = Text[expect]
        BY <1>1, <2>2, <3>1, StretchTaken
      <3>3. Len(Text[expect]) \in Nat /\ cut[j + 1] \in 0 .. Len(Text[expect])
        BY <1>1, <3>1, MoreToCome, LenProperties DEF PortIInv, PortTypeOK
      <3>4. HandleUploadLine(Head(rx), now) /\ todo > 0
        BY <2>2 DEF HandleNext, handle_line
      <3>5. Len(text \o Head(rx).text) = Len(Text[expect]) /\ Complete(text \o Head(rx).text)
        <4> DEFINE all == text \o Head(rx).text
        <4>1. ~(Len(all) > Len(Text[expect]))
          BY <3>2, <3>3
        <4>2. ~(receiving' = receiving)
          OBVIOUS
        <4> QED
          BY <3>4, <4>1, <4>2 DEF HandleUploadLine
      <3> QED
        BY <3>2, <3>4, <3>5 DEF Complete
    <2>3. CASE EndPass
      <3>1. todo = 0 /\ phase = "lines" /\ Heard >= WRITE_TIMEOUT_MS
        BY <2>3 DEF EndPass, tick, TimedOut, Heard
      <3>2. Heard \in Nat /\ Spent \in Nat /\ silence \in 0 .. SILENCE_CAP
        BY <1>1, TimeTypes DEF PortIInv, PortTypeOK
      <3>3. rx = <<>>
        BY <1>1, <3>1, <3>2 DEF ArrivalIInv, NextIsInTime
      <3>4. silence < SILENCE_CAP => Heard + Spent <= silence + PASS_LIMIT
        BY <1>1, <3>3 DEF ArrivalIInv, NextIsInTime
      <3> QED
        BY <3>1, <3>2, <3>4
    <2> QED
      BY <2>1, <2>2, <2>3
  <1>2. PortIInv /\ TimeIInv /\ ArrivalIInv /\ [PortNext]_portVars => ArrivalIInv'
    BY ArrivalNextInv
  <1>3. PortIInv /\ TimeIInv /\ [PortNext]_portVars => TimeIInv'
    BY TimeNextInv
  <1> QED
    BY <1>1, <1>2, <1>3, TimeInitInv, ArrivalInitInv, PortInvariant, PTL DEF PortSpec, GoodUploadsArrive
=============================================================================
