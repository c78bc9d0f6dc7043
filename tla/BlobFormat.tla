----------------------------- MODULE BlobFormat -----------------------------
(***************************************************************************)
(* What both codecs of the configuration blob are made of: the limits of   *)
(* the format, its steps, bounds-checked reading (the cursor of blob.py    *)
(* and codec.go), 16-bit numbers and the checksum.  Bytes are numbers up   *)
(* to 255 and texts are sequences of bytes.                                *)
(***************************************************************************)
EXTENDS Integers, Sequences, SequencesExt

CONSTANTS
    NVM_SIZE, MAX_PROFILES, MAX_NAME_LEN, MAX_SLOTS, MAX_STEPS, MAX_TEXT_LEN

MAGIC == <<75, 66, 50, 75>>
FORMAT_VERSION == 1
HEADER_BASE == 10
CRC_TRAILER == 2
OVERFLOW_CLAMP == 2
IDLE_RAINBOW == 3

STEP_KEY == 0
STEP_TEXT == 1
STEP_CONSUMER == 2
STEP_DELAY == 3

\* A step has the fields its type gives a meaning to.
KeyStep(k, m) == [type |-> STEP_KEY, keycode |-> k, mods |-> m]
TextStep(t) == [type |-> STEP_TEXT, text |-> t]
ConsumerStep(c) == [type |-> STEP_CONSUMER, consumer |-> c]
DelayStep(d) == [type |-> STEP_DELAY, delay_ms |-> d]

Refuse == [ok |-> FALSE]
Decoded(c) == [ok |-> TRUE, config |-> c]
Encoded(b) == [ok |-> TRUE, blob |-> b]

\* A reading is a value and the position behind it, or a refusal, which ends the whole decoding.
Read(v, p) == [ok |-> TRUE, val |-> v, pos |-> p]
Then(r, Next(_, _)) == IF r.ok THEN Next(r.val, r.pos) ELSE r

u16(buf, p) == buf[p + 1] + 256 * buf[p + 2]

AppendUint16(v) == << v % 256, (v \div 256) % 256 >>

Take(buf, p, n) == IF p + n > Len(buf) THEN Refuse ELSE Read(SubSeq(buf, p + 1, p + n), p + n)
ReadU8(buf, p) == IF p + 1 > Len(buf) THEN Refuse ELSE Read(buf[p + 1], p + 1)
ReadU16(buf, p) == IF p + 2 > Len(buf) THEN Refuse ELSE Read(u16(buf, p), p + 2)

\* n items, one behind the other: item[q] is what is read at q.
Positions(buf) == 0 .. Len(buf)
Repeat(n, item, p) ==
    FoldLeft(LAMBDA r, i : Then(r, LAMBDA vs, q : Then(item[q], LAMBDA v, q2 : Read(Append(vs, v), q2))),
             Read(<<>>, p), [i \in 1 .. n |-> i])

\* f of each element, joined.
Joined(f(_), s) == FlattenSeq([i \in DOMAIN s |-> f(s[i])])

\* CRC-16/CCITT-FALSE: one shift, which flips bits 0, 5 and 12 when a one falls out; eight of
\* them; and the whole.
WORD == 256 * 256

Flip(v, bit) == IF (v \div bit) % 2 = 1 THEN v - bit ELSE v + bit

Shift(crc) ==
    LET s == (2 * crc) % WORD
    IN  IF 2 * crc >= WORD THEN Flip(Flip(Flip(s, 1), 32), 16 * 256) ELSE s

EightShifts ==
    [crc \in 0 .. WORD - 1 |-> Shift(Shift(Shift(Shift(Shift(Shift(Shift(Shift(crc))))))))]

\* Exclusive or of two bytes.
Xor(a, b) ==
    LET bit(k) == IF (a \div k) % 2 = (b \div k) % 2 THEN 0 ELSE k
    IN  bit(1) + bit(2) + bit(4) + bit(8) + bit(16) + bit(32) + bit(64) + bit(128)

\* Half by half, which keeps TLC's recursion shallow: over[<<first, last, crc>>] takes in what is
\* between two positions.
crc16(data) ==
    LET over[part \in (1 .. Len(data)) \X (1 .. Len(data)) \X (0 .. WORD - 1)] ==
            LET first == part[1]
                last == part[2]
                crc == part[3]
                middle == (first + last) \div 2
            IN  IF first >= last
                THEN EightShifts[256 * Xor(crc \div 256, data[first]) + (crc % 256)]
                ELSE over[<<middle + 1, last, over[<<first, middle, crc>>]>>]
    IN  over[<<1, Len(data), WORD - 1>>]
=============================================================================
