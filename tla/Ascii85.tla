------------------------------- MODULE Ascii85 -------------------------------
(***************************************************************************)
(* The text a blob travels as: the codec of the device,                    *)
(* src/src/singlekey/a85.py, and that of the host,                         *)
(* src/cli/internal/wire/ascii85.go on Go's encoding/ascii85.  A group of  *)
(* four bytes is five digits.  The two radixes are constants, 256 and 85   *)
(* in the code.                                                            *)
(***************************************************************************)
EXTENDS Integers, Sequences, SequencesExt

CONSTANTS
    BYTE,               \* the values of a byte: 256
    RADIX,              \* the values of a digit: 85
    LINE_WIDTH          \* wire.LineWidth, the characters of one line

ASSUME RadixAssumption ==
    /\ RADIX \in Nat /\ RADIX > 1
    /\ BYTE \in Nat /\ BYTE >= RADIX
    /\ BYTE * BYTE * BYTE * BYTE <= RADIX * RADIX * RADIX * RADIX * RADIX
    /\ LINE_WIDTH \in Nat \ {0}

WORD == BYTE * BYTE * BYTE * BYTE

Byte == 0 .. BYTE - 1
Digit == 0 .. RADIX - 1

\* A character is a digit or one of these: white space, the shorthand for a group of zeroes, a
\* control character that only the host skips, and any other character.
SPACE == -1
ZEE == -2
CONTROL == -3
FOREIGN == -4
Character == Digit \cup {SPACE, ZEE, CONTROL, FOREIGN}

Refuse == [ok |-> FALSE]
Decoded(bytes) == [ok |-> TRUE, data |-> bytes]

\* The four bytes of a word, and the word of up to four bytes, the missing ones zero.
u32(v) ==
    LET b1 == v \div BYTE
        b2 == b1 \div BYTE
        b3 == b2 \div BYTE
    IN  << b3, b2 % BYTE, b1 % BYTE, v % BYTE >>

Word(b) ==
    LET at(k) == IF k <= Len(b) THEN b[k] ELSE 0
    IN  ((at(1) * BYTE + at(2)) * BYTE + at(3)) * BYTE + at(4)

\* The five digits of a word, and the number that five digits are.
Digits(v) ==
    LET d1 == v \div RADIX
        d2 == d1 \div RADIX
        d3 == d2 \div RADIX
        d4 == d3 \div RADIX
    IN  << d4 % RADIX, d3 % RADIX, d2 % RADIX, d1 % RADIX, v % RADIX >>

Number(d) == (((d[1] * RADIX + d[2]) * RADIX + d[3]) * RADIX + d[4]) * RADIX + d[5]

\* A partial group has one digit more than it has bytes.
EncodeGroup(b) == SubSeq(Digits(Word(b)), 1, Len(b) + 1)

\* A string cut into pieces of n, the last one shorter.
Cut(s, n) ==
    [i \in 1 .. (Len(s) + n - 1) \div n |->
        SubSeq(s, n * (i - 1) + 1, IF n * i < Len(s) THEN n * i ELSE Len(s))]

encode(data) == FlattenSeq([i \in DOMAIN Cut(data, 4) |-> EncodeGroup(Cut(data, 4)[i])])

encoded_len(n) == 5 * (n \div 4) + (IF n % 4 = 0 THEN 0 ELSE (n % 4) + 1)

\* A partial group d, padded with the highest digit.
Pad(d) == [k \in 1 .. 5 |-> IF k <= Len(d) THEN d[k] ELSE RADIX - 1]

-----------------------------------------------------------------------------
(* The device's decoder: st.group are the digits of the group begun.       *)

TakeCharacter(st, c) ==
    IF ~st.ok \/ c = SPACE THEN st
    ELSE IF c = ZEE THEN
        IF st.group = <<>> THEN [st EXCEPT !.data = @ \o <<0, 0, 0, 0>>] ELSE [st EXCEPT !.ok = FALSE]
    ELSE IF c \notin Digit THEN [st EXCEPT !.ok = FALSE]
    ELSE LET g == Append(st.group, c)
         IN  IF Len(g) < 5 THEN [st EXCEPT !.group = g]
             ELSE IF Number(g) >= WORD THEN [st EXCEPT !.ok = FALSE]
             ELSE [st EXCEPT !.group = <<>>, !.data = @ \o u32(Number(g))]

\* The end of the text: a group begun is padded, unless it is a single character.
Finish(st) ==
    IF ~st.ok \/ Len(st.group) = 1 THEN Refuse
    ELSE IF st.group = <<>> THEN Decoded(st.data)
    ELSE IF Number(Pad(st.group)) >= WORD THEN Refuse
    ELSE Decoded(st.data \o SubSeq(u32(Number(Pad(st.group))), 1, Len(st.group) - 1))

decode(text) == Finish(FoldLeft(TakeCharacter, [ok |-> TRUE, data |-> <<>>, group |-> <<>>], text))

-----------------------------------------------------------------------------
(* The host's: Go's codec writes the shorthand, wraps a word that is too   *)
(* large, and stops without a word when the room it was given is used up.  *)

GoEncodeGroup(b) ==
    IF b = <<0, 0, 0, 0>> THEN <<ZEE>> ELSE EncodeGroup(b)

GoEncode(data) == FlattenSeq([i \in DOMAIN Cut(data, 4) |-> GoEncodeGroup(Cut(data, 4)[i])])

GoTakeCharacter(st, c, room) ==
    IF ~st.ok \/ room - Len(st.data) < 4 \/ c \in {SPACE, CONTROL} THEN st
    ELSE IF c = ZEE /\ st.group = <<>> THEN [st EXCEPT !.data = @ \o <<0, 0, 0, 0>>]
    ELSE IF c \notin Digit THEN [st EXCEPT !.ok = FALSE]
    ELSE LET g == Append(st.group, c)
         IN  IF Len(g) < 5 THEN [st EXCEPT !.group = g]
             ELSE [st EXCEPT !.group = <<>>, !.data = @ \o u32(Number(g) % WORD)]

GoDecode(text, room) ==
    LET st == FoldLeft(LAMBDA s, c : GoTakeCharacter(s, c, room),
                       [ok |-> TRUE, data |-> <<>>, group |-> <<>>], text)
    IN  IF ~st.ok \/ Len(st.group) = 1 THEN Refuse
        ELSE IF st.group = <<>> THEN Decoded(st.data)
        ELSE Decoded(st.data \o SubSeq(u32(Number(Pad(st.group)) % WORD), 1, Len(st.group) - 1))

\* A deliberately wrong variant: the shorthand is left in.
MutHostEncode(data) == GoEncode(data)

HostEncode(data) ==
    LET text == GoEncode(data)
    IN  FlattenSeq([i \in DOMAIN text |-> IF text[i] = ZEE THEN <<0, 0, 0, 0, 0>> ELSE <<text[i]>>])

HostEncodeLines(data) == Cut(HostEncode(data), LINE_WIDTH)

\* A deliberately wrong variant: room for four bytes in every five characters.
MutHostDecode(text) == GoDecode(text, 4 * ((Len(text) + 4) \div 5))

HostDecode(text) == GoDecode(text, 4 * Len(text) + 4)

-----------------------------------------------------------------------------
(* Properties of one text or one string of bytes.                          *)

\* The device counts characters to find the end of an upload (protocol.py:167-175): sent as the
\* host wraps it, every upload is complete with its last line, not before, and what arrived
\* decodes to what was sent.
Arrives(data) ==
    LET lines == HostEncodeLines(data)
        upTo(k) == FlattenSeq(SubSeq(lines, 1, k))
    IN  /\ \A k \in 1 .. Len(lines) - 1 : Len(upTo(k)) < encoded_len(Len(data))
        /\ Len(upTo(Len(lines))) = encoded_len(Len(data))
        /\ decode(upTo(Len(lines))) = Decoded(data)

\* `read' answers with what the device's own encoder makes of a blob; the host reads it back
\* (device.go:314), the line breaks included.
ComesBack(data) ==
    LET text == FlattenSeq([i \in DOMAIN Cut(encode(data), LINE_WIDTH) |->
                               Append(Cut(encode(data), LINE_WIDTH)[i], SPACE)])
    IN  HostDecode(text) = Decoded(data)

\* Counting is enough: a text of the length declared, whatever it says, decodes to the length
\* declared or not at all, unless white space or the shorthand is among the counted characters.
CountIsLength(text, n) ==
    Len(text) = encoded_len(n) /\ decode(text).ok /\ (\A i \in DOMAIN text : text[i] \in Digit)
        => Len(decode(text).data) = n

\* What the device reads, the host reads too, and as the same bytes; the host is the more
\* lenient of the two.
HostReadsAlike(text) == decode(text).ok => HostDecode(text) = decode(text)
=============================================================================
