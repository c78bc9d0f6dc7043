-------------------------------- MODULE Blob --------------------------------
(***************************************************************************)
(* src/src/singlekey/blob.py: the device's reader and writer of the        *)
(* configuration blob.                                                     *)
(***************************************************************************)
EXTENDS BlobFormat

\* bytes.decode("utf-8") takes it.  Texts are ASCII here: no input of the models puts two bytes
\* of 128 or more next to each other.
Utf8(s) == \A i \in DOMAIN s : s[i] < 128

decode_step(buf, p) ==
    Then(ReadU8(buf, p), LAMBDA t, q :
        CASE t = STEP_KEY ->
                Then(Take(buf, q, 2), LAMBDA pair, e : Read(KeyStep(pair[1], pair[2]), e))
          [] t = STEP_TEXT ->
                Then(ReadU8(buf, q), LAMBDA n, q2 :
                    Then(Take(buf, q2, n), LAMBDA s, e : IF Utf8(s) THEN Read(TextStep(s), e) ELSE Refuse))
          [] t = STEP_CONSUMER ->
                Then(ReadU16(buf, q), LAMBDA v, e : Read(ConsumerStep(v), e))
          [] t = STEP_DELAY ->
                Then(ReadU16(buf, q), LAMBDA v, e : Read(DelayStep(v), e))
          [] OTHER -> Refuse)

decode_binding(buf, p) ==
    Then(Take(buf, p, 4), LAMBDA b, q :
        IF b[4] > MAX_STEPS THEN Refuse
        ELSE Then(Repeat(b[4], [r \in Positions(buf) |-> decode_step(buf, r)], q), LAMBDA steps, e :
                Read([color |-> SubSeq(b, 1, 3), steps |-> steps], e)))

\* f holds the twelve bytes of fixed fields, the slot count last.
decode_profile(buf, p) ==
    Then(ReadU8(buf, p), LAMBDA len, q :
    IF len > MAX_NAME_LEN THEN Refuse ELSE
    Then(Take(buf, q, len), LAMBDA name, q2 :
    Then(Take(buf, q2, 12), LAMBDA f, q3 :
    IF \/ ~Utf8(name)
       \/ f[5] > OVERFLOW_CLAMP
       \/ f[8] > IDLE_RAINBOW
       \/ f[12] \notin 1 .. MAX_SLOTS
    THEN Refuse ELSE
    Then(decode_binding(buf, q3), LAMBDA tap, q4 :
    Then(Repeat(f[12], [r \in Positions(buf) |-> decode_binding(buf, r)], q4), LAMBDA slots, e :
        Read([name |-> name, dwell_ms |-> u16(f, 0), tap_max_ms |-> u16(f, 2), overflow |-> f[5],
              ext_count |-> f[6], brightness |-> f[7], idle_mode |-> f[8],
              idle_color |-> SubSeq(f, 9, 11), tap |-> tap, slots |-> slots], e))))))

\* The profiles, by the offset table of a body of n profiles.
decode_profiles(body, n) ==
    Repeat(n, [r \in Positions(body) |->
        LET off == u16(body, r)
            p == decode_profile(body, off)
        IN  IF off < HEADER_BASE + 2 * n \/ off >= Len(body) THEN Refuse
            ELSE Then(p, LAMBDA profile, e : Read(profile, r + 2))],
        HEADER_BASE)

Total(data) == u16(data, 8)
Body(data) == SubSeq(data, 1, Total(data) - CRC_TRAILER)

\* A deliberately wrong variant: the checksum is not compared.
MutWhole(data) ==
    /\ Len(data) >= HEADER_BASE + CRC_TRAILER
    /\ SubSeq(data, 1, 4) = MAGIC
    /\ data[5] = FORMAT_VERSION
    /\ Total(data) \in HEADER_BASE + CRC_TRAILER .. Len(data)

\* The checks on the whole, before any field is believed.
Whole(data) ==
    /\ Len(data) >= HEADER_BASE + CRC_TRAILER
    /\ SubSeq(data, 1, 4) = MAGIC
    /\ data[5] = FORMAT_VERSION
    /\ Total(data) \in HEADER_BASE + CRC_TRAILER .. Len(data)
    /\ crc16(Body(data)) = u16(data, Total(data) - 2)

decode(data) ==
    IF ~Whole(data) THEN Refuse
    ELSE IF \/ data[8] \notin 1 .. MAX_PROFILES
            \/ Len(Body(data)) < HEADER_BASE + 2 * data[8]
            \/ data[7] >= data[8]
         THEN Refuse
    ELSE Then(decode_profiles(Body(data), data[8]), LAMBDA profiles, e :
            Decoded([format_version |-> data[5], active |-> data[7], profiles |-> profiles]))

-----------------------------------------------------------------------------

encode_step(s) ==
    <<s.type>> \o
    CASE s.type = STEP_KEY -> <<s.keycode, s.mods>>
      [] s.type = STEP_TEXT -> <<Len(s.text)>> \o s.text
      [] s.type = STEP_CONSUMER -> AppendUint16(s.consumer)
      [] s.type = STEP_DELAY -> AppendUint16(s.delay_ms)

encode_binding(b) ==
    b.color \o <<Len(b.steps)>> \o Joined(encode_step, b.steps)

encode_profile(p) ==
    <<Len(p.name)>> \o p.name \o AppendUint16(p.dwell_ms) \o AppendUint16(p.tap_max_ms)
      \o <<p.overflow, p.ext_count, p.brightness, p.idle_mode>> \o p.idle_color
      \o <<Len(p.slots)>> \o encode_binding(p.tap) \o Joined(encode_binding, p.slots)

\* A deliberately wrong variant: every record is said to start where the first one does.
MutOffsets(records) == [i \in DOMAIN records |-> HEADER_BASE + 2 * Len(records)]

\* Where the records start, one behind the other.
Offsets(records) ==
    [i \in DOMAIN records |->
        HEADER_BASE + 2 * Len(records) + Len(FlattenSeq(SubSeq(records, 1, i - 1)))]

encode(config) ==
    LET n == Len(config.profiles)
        records == [i \in 1 .. n |-> encode_profile(config.profiles[i])]
        total == HEADER_BASE + 2 * n + Len(FlattenSeq(records)) + CRC_TRAILER
        body == MAGIC \o <<config.format_version, 0, config.active, n>> \o AppendUint16(total)
                  \o Joined(AppendUint16, Offsets(records)) \o FlattenSeq(records)
    IN  IF n \notin 1 .. MAX_PROFILES \/ config.active >= n \/ total > NVM_SIZE
        THEN Refuse
        ELSE Encoded(body \o AppendUint16(crc16(body)))
=============================================================================
