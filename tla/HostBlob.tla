------------------------------ MODULE HostBlob ------------------------------
(***************************************************************************)
(* src/cli/internal/blob: the host's validation (config.go) and its reader *)
(* and writer of the configuration blob (codec.go).  It knows nothing of   *)
(* UTF-8 and believes any overflow and idle mode it reads, but writes only *)
(* what it has validated.                                                  *)
(***************************************************************************)
EXTENDS BlobFormat

MIN_DWELL_MS == 100
MAX_DWELL_MS == 10000
MIN_TAP_MAX_MS == 20
MAX_TAP_MAX_MS == 2000
MAX_EXT_COUNT == 64
MAX_DELAY_MS == 10000

\* EncodedSize of a step, a binding, a profile and a configuration.
StepSize(s) == IF s.type = STEP_TEXT THEN 2 + Len(s.text) ELSE 3
Summed(size(_), s) == FoldLeft(LAMBDA n, e : n + size(e), 0, s)
BindingSize(b) == 4 + Summed(StepSize, b.steps)
ProfileSize(p) == 13 + Len(p.name) + BindingSize(p.tap) + Summed(BindingSize, p.slots)
EncodedSize(c) == HEADER_BASE + 2 * Len(c.profiles) + CRC_TRAILER + Summed(ProfileSize, c.profiles)

ValidStep(s) ==
    CASE s.type = STEP_KEY -> s.keycode # 0
      [] s.type = STEP_TEXT -> Len(s.text) \in 1 .. MAX_TEXT_LEN
      [] s.type = STEP_CONSUMER -> s.consumer # 0
      [] s.type = STEP_DELAY -> s.delay_ms <= MAX_DELAY_MS

\* A deliberately wrong variant: the number of steps is not looked at.
MutValidBinding(b) == \A i \in DOMAIN b.steps : ValidStep(b.steps[i])

ValidBinding(b) ==
    /\ Len(b.steps) <= MAX_STEPS
    /\ \A i \in DOMAIN b.steps : ValidStep(b.steps[i])

ValidProfile(p) ==
    /\ Len(p.name) <= MAX_NAME_LEN
    /\ p.dwell_ms \in MIN_DWELL_MS .. MAX_DWELL_MS
    /\ p.tap_max_ms \in MIN_TAP_MAX_MS .. MAX_TAP_MAX_MS
    /\ p.overflow <= OVERFLOW_CLAMP
    /\ p.ext_count <= MAX_EXT_COUNT
    /\ p.idle_mode <= IDLE_RAINBOW
    /\ Len(p.slots) \in 1 .. MAX_SLOTS
    /\ ValidBinding(p.tap)
    /\ \A i \in DOMAIN p.slots : ValidBinding(p.slots[i])

Validate(c) ==
    /\ c.format_version = FORMAT_VERSION
    /\ Len(c.profiles) \in 1 .. MAX_PROFILES
    /\ c.active < Len(c.profiles)
    /\ \A i \in DOMAIN c.profiles : ValidProfile(c.profiles[i])
    /\ EncodedSize(c) <= NVM_SIZE

-----------------------------------------------------------------------------

encodeStep(s) ==
    <<s.type>> \o
    CASE s.type = STEP_KEY -> <<s.keycode, s.mods>>
      [] s.type = STEP_TEXT -> <<Len(s.text)>> \o s.text
      [] s.type = STEP_CONSUMER -> AppendUint16(s.consumer)
      [] s.type = STEP_DELAY -> AppendUint16(s.delay_ms)

appendBinding(b) == b.color \o <<Len(b.steps)>> \o Joined(encodeStep, b.steps)

encodeProfile(p) ==
    <<Len(p.name)>> \o p.name \o AppendUint16(p.dwell_ms) \o AppendUint16(p.tap_max_ms)
      \o <<p.overflow, p.ext_count, p.brightness, p.idle_mode>> \o p.idle_color
      \o <<Len(p.slots)>> \o appendBinding(p.tap) \o Joined(appendBinding, p.slots)

\* The length announced is the size predicted, and encoding fails if it is not what came out.
Encode(c) ==
    LET n == Len(c.profiles)
        records == [i \in 1 .. n |-> encodeProfile(c.profiles[i])]
        start(i) == HEADER_BASE + 2 * n + Len(FlattenSeq(SubSeq(records, 1, i - 1)))
        body == MAGIC \o <<c.format_version, 0, c.active, n>> \o AppendUint16(EncodedSize(c))
                  \o Joined(AppendUint16, [i \in 1 .. n |-> start(i)]) \o FlattenSeq(records)
    IN  IF Validate(c) /\ Len(body) + CRC_TRAILER = EncodedSize(c)
        THEN Encoded(body \o AppendUint16(crc16(body)))
        ELSE Refuse

-----------------------------------------------------------------------------

decodeStep(buf, p) ==
    Then(ReadU8(buf, p), LAMBDA t, q :
        CASE t = STEP_KEY ->
                Then(Take(buf, q, 2), LAMBDA kc, e : Read(KeyStep(kc[1], kc[2]), e))
          [] t = STEP_TEXT ->
                Then(ReadU8(buf, q), LAMBDA n, q2 :
                    Then(Take(buf, q2, n), LAMBDA text, e : Read(TextStep(text), e)))
          [] t = STEP_CONSUMER -> Then(ReadU16(buf, q), LAMBDA v, e : Read(ConsumerStep(v), e))
          [] t = STEP_DELAY -> Then(ReadU16(buf, q), LAMBDA v, e : Read(DelayStep(v), e))
          [] OTHER -> Refuse)

decodeBinding(buf, p) ==
    Then(Take(buf, p, 4), LAMBDA b, q :
        IF b[4] > MAX_STEPS THEN Refuse
        ELSE Then(Repeat(b[4], [r \in Positions(buf) |-> decodeStep(buf, r)], q), LAMBDA steps, e :
                Read([color |-> SubSeq(b, 1, 3), steps |-> steps], e)))

decodeProfile(buf, p) ==
    Then(ReadU8(buf, p), LAMBDA nameLen, q :
    IF nameLen > MAX_NAME_LEN THEN Refuse ELSE
    Then(Take(buf, q, nameLen), LAMBDA name, q2 :
    Then(Take(buf, q2, 12), LAMBDA f, q3 :
    IF f[12] \notin 1 .. MAX_SLOTS THEN Refuse ELSE
    Then(decodeBinding(buf, q3), LAMBDA tap, q4 :
    Then(Repeat(f[12], [r \in Positions(buf) |-> decodeBinding(buf, r)], q4), LAMBDA slots, e :
        Read([name |-> name, dwell_ms |-> u16(f, 0), tap_max_ms |-> u16(f, 2), overflow |-> f[5],
              ext_count |-> f[6], brightness |-> f[7], idle_mode |-> f[8],
              idle_color |-> SubSeq(f, 9, 11), tap |-> tap, slots |-> slots], e))))))

decodeProfiles(body, n) ==
    Repeat(n, [r \in Positions(body) |->
        LET off == u16(body, r)
            p == decodeProfile(body, off)
        IN  IF off < HEADER_BASE + 2 * n \/ off >= Len(body) THEN Refuse
            ELSE Then(p, LAMBDA profile, e : Read(profile, r + 2))],
        HEADER_BASE)

\* A deliberately wrong variant: the whole buffer is taken for the blob.
MutTrim(data) == data

\* Bytes behind the announced length are not looked at.
Trim(data) == SubSeq(data, 1, u16(data, 8))

Decode(buffer) ==
    LET data == Trim(buffer)
        body == SubSeq(data, 1, Len(data) - CRC_TRAILER)
    IN  IF \/ Len(buffer) < HEADER_BASE + CRC_TRAILER
           \/ SubSeq(buffer, 1, 4) # MAGIC
           \/ buffer[5] # FORMAT_VERSION
           \/ u16(buffer, 8) \notin HEADER_BASE + CRC_TRAILER .. Len(buffer)
           \/ crc16(body) # u16(data, Len(body))
           \/ data[8] \notin 1 .. MAX_PROFILES
           \/ Len(body) < HEADER_BASE + 2 * data[8]
           \/ data[7] >= data[8]
        THEN Refuse
        ELSE Then(decodeProfiles(body, data[8]), LAMBDA profiles, e :
                Decoded([format_version |-> data[5], active |-> data[7], profiles |-> profiles]))
=============================================================================
