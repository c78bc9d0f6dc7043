------------------------------- MODULE Codecs -------------------------------
(***************************************************************************)
(* The codecs of both ends at work on what can reach them: bytes and texts *)
(* that grow one symbol at a time, and blobs that the host has written and *)
(* that flash, the wire or another program has since damaged.              *)
(***************************************************************************)
EXTENDS Ascii85

CONSTANTS
    NVM_SIZE, MAX_PROFILES, MAX_NAME_LEN, MAX_SLOTS, MAX_STEPS, MAX_TEXT_LEN,
    Configs,            \* configurations the host is given, valid or not
    NoConfig,
    Values,             \* the values a damaged byte takes
    MAX_DATA,           \* bound: the longest string of bytes
    MAX_CHARS           \* bound: the longest text

ASSUME FormatAssumption ==
    /\ {NVM_SIZE, MAX_PROFILES, MAX_NAME_LEN, MAX_SLOTS, MAX_STEPS, MAX_TEXT_LEN} \subseteq Nat \ {0}
    /\ \A m \in {MAX_PROFILES, MAX_NAME_LEN, MAX_SLOTS, MAX_STEPS, MAX_TEXT_LEN} : m < 256

Device == INSTANCE Blob
Host == INSTANCE HostBlob

\* The types of a configuration's fields (config.go:86-130), with the texts of ASCII.
Octet == 0 .. 255
Ascii == 0 .. 127
Words == 0 .. Device!WORD - 1
Colour == {s \in Seq(Octet) : Len(s) = 3}

Step ==
    [type : {0}, keycode : Octet, mods : Octet] \cup [type : {1}, text : Seq(Ascii)]
      \cup [type : {2}, consumer : Words] \cup [type : {3}, delay_ms : Words]
Binding == [color : Colour, steps : Seq(Step)]
Profile ==
    [name : Seq(Ascii), dwell_ms : Words, tap_max_ms : Words, overflow : Octet, ext_count : Octet,
     brightness : Octet, idle_mode : Octet, idle_color : Colour, tap : Binding, slots : Seq(Binding)]
Configuration == [format_version : Octet, active : Octet, profiles : Seq(Profile)]

\* The blob announces its length in two bytes.
ASSUME InputAssumption ==
    /\ Configs \subseteq Configuration
    /\ Values \subseteq Octet
    /\ NVM_SIZE < Device!WORD
    /\ MAX_DATA \in Nat

VARIABLES
    kind,               \* what is tried: "bytes", "text" or "blob"
    input,              \* it: a sequence of bytes or characters
    config,             \* the configuration a blob was made of
    state               \* what became of the blob: "whole", "padded", "short", "damaged" or
                        \* "resealed", which is damaged with a checksum that fits

codecVars == <<kind, input, config, state>>

CodecInit ==
    /\ state = "whole"
    /\ \/ kind \in {"bytes", "text"} /\ input = <<>> /\ config = NoConfig
       \/ /\ kind = "blob"
          /\ config \in {c \in Configs : Host!Encode(c).ok}
          /\ input = Host!Encode(config).blob

\* One more byte, or one more character.
Grow(s) ==
    /\ \/ kind = "bytes" /\ s \in Byte /\ Len(input) < MAX_DATA
       \/ kind = "text" /\ s \in Character /\ Len(input) < MAX_CHARS
    /\ input' = Append(input, s)
    /\ UNCHANGED <<kind, config, state>>

Become(s, buffer) ==
    /\ kind = "blob"
    /\ input' = buffer
    /\ state' = s
    /\ UNCHANGED <<kind, config>>

\* What follows a blob in the region is left over from a longer one.
PadBlob(v) == state = "whole" /\ Become("padded", input \o <<v, v>>)

CutShort(n) == state = "whole" /\ Become("short", SubSeq(input, 1, n))

Damage(i, v) == state = "whole" /\ input[i] # v /\ Become("damaged", [input EXCEPT ![i] = v])

\* Another program writes the damaged bytes with a checksum over them.
Reseal ==
    /\ state = "damaged"
    /\ LET body == SubSeq(input, 1, Len(input) - 2)
       IN  Become("resealed", body \o Host!AppendUint16(Host!crc16(body)))

CodecNext ==
    \/ \E s \in Byte \cup Character : Grow(s)
    \/ \E v \in Values : PadBlob(v)
    \/ \E n \in 0 .. Len(input) - 1 : CutShort(n)
    \/ \E i \in DOMAIN input, v \in Values : Damage(i, v)
    \/ Reseal

CodecSpec == CodecInit /\ [][CodecNext]_codecVars

-----------------------------------------------------------------------------
(* Properties.                                                             *)

\* Bytes travel whole in both directions: what the host sends is complete, by the device's count
\* of characters, with its last line and not before, and decodes to what was sent; what `read'
\* answers the host decodes to what is stored.
BytesTravel == kind = "bytes" => Arrives(input) /\ ComesBack(input)

\* No text means one thing to the device and another to the host; and counting characters is
\* enough to frame an upload: a text as long as declared, whatever it says, decodes to the bytes
\* declared in number, or is refused.
TextsReadAlike ==
    kind = "text" => HostReadsAlike(input) /\ \A n \in 0 .. MAX_DATA : CountIsLength(input, n)

\* What the host validates and encodes, the device accepts, in the size predicted, and as the
\* configuration it was made of (codec.go:8-9), also with an older blob's bytes behind it; and the
\* host reads it back the same.
HostBlobsAreRead ==
    kind = "blob" /\ state \in {"whole", "padded"} =>
        /\ Device!decode(input) = Device!Decoded(config)
        /\ Host!Decode(input) = Host!Decoded(config)
        /\ state = "whole" => Len(input) = Host!EncodedSize(config) /\ Len(input) <= NVM_SIZE

\* Neither end takes a blob of which a byte was changed or the end is missing.  A changed length is
\* seen for sure where it says more than there is; where it says less, the checksum is of other
\* bytes, and looked for among others, and can fit.
DamageIsSeen ==
    kind = "blob" /\ (state = "short" \/ (state = "damaged" /\ Device!Total(input) >= Len(input))) =>
        ~Device!decode(input).ok /\ ~Host!Decode(input).ok

\* Whatever the device takes, the host reads as the same configuration, so that what runs can be
\* downloaded and edited, whoever wrote it.
HostReadsWhatRuns ==
    kind = "blob" /\ Device!decode(input).ok => Host!Decode(input) = Device!decode(input)

\* Storing a configuration again, as every change of the active profile does (code.py:95), keeps
\* every field of it, wherever the blob it was read from had put its records.
RewriteKeeps ==
    kind = "blob" /\ Device!decode(input).ok =>
        LET again == Device!encode(Device!decode(input).config)
        IN  again.ok => Device!decode(again.blob) = Device!decode(input)
=============================================================================
