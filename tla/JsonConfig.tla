----------------------------- MODULE JsonConfig -----------------------------
(***************************************************************************)
(* src/cli/internal/blob/json.go and keynames.go: a configuration as a     *)
(* person edits it, with names for keys, modifiers, media codes, modes and *)
(* colours, to and from the configuration of HostBlob, whose texts are     *)
(* those of JsonNode here.                                                 *)
(***************************************************************************)
EXTENDS HostBlob, JsonNode

CONSTANTS
    keycodes,           \* the key names and their usage codes
    consumerCodes       \* the media key names and theirs

Byte == 0 .. 255
Uint16 == 0 .. 65535

HEX == <<"0", "1", "2", "3", "4", "5", "6", "7", "8", "9", "A", "B", "C", "D", "E", "F">>
overflowNames == << <<"wrap">>, <<"wrap_cancel">>, <<"clamp">> >>
idleModeNames == << <<"off">>, <<"solid">>, <<"breathe">>, <<"rainbow">> >>

\* The modifiers, lowest bit first, by the names they are rendered with.
modOrder == <<"CTRL", "SHIFT", "ALT", "GUI", "RCTRL", "RSHIFT", "RALT", "RGUI">>

\* A code with two names needs one of them fixed, or its name is any of them.
keycodeNames == [code \in {40, 44} |-> IF code = 40 THEN <<"ENTER">> ELSE <<"SPACE">>]

Hexadecimal(s) == Len(s) >= 2 /\ s[1] = "0" /\ s[2] = "x"

\* A table of names, none of them empty or like the numeral of a code without a name.
TableOfNames(table, codes) ==
    \A name \in DOMAIN table :
        name \in Text /\ name # <<>> /\ ~Hexadecimal(name) /\ table[name] \in codes

ASSUME NamesAssumption ==
    /\ Range(HEX) \cup {"x", "#"} \cup Range(modOrder) \subseteq Character
    /\ Range(overflowNames) \cup Range(idleModeNames) \subseteq Text
    /\ TableOfNames(keycodes, Byte) /\ TableOfNames(consumerCodes, Uint16)
    /\ \A a, b \in DOMAIN keycodes : keycodes[a] = keycodes[b] => a = b \/ keycodes[a] \in DOMAIN keycodeNames
    /\ \A code \in DOMAIN keycodeNames :
          keycodeNames[code] \in DOMAIN keycodes /\ keycodes[keycodeNames[code]] = code
    /\ \A a, b \in DOMAIN consumerCodes : consumerCodes[a] = consumerCodes[b] => a = b

\* The Go structures.
Step ==
    [type : {STEP_KEY}, keycode : Byte, mods : Byte] \cup [type : {STEP_TEXT}, text : Text]
      \cup [type : {STEP_CONSUMER}, consumer : Uint16] \cup [type : {STEP_DELAY}, delay_ms : Uint16]
RGB == [1 .. 3 -> Byte]
Binding == [color : RGB, steps : Seq(Step)]
Profile ==
    [name : Text, dwell_ms : Uint16, tap_max_ms : Uint16, overflow : Byte, ext_count : Byte,
     brightness : Byte, idle_mode : Byte, idle_color : RGB, tap : Binding, slots : Seq(Binding)]
Config == [format_version : Byte, active : Byte, profiles : Seq(Profile)]

Parsed(v) == [ok |-> TRUE, val |-> v]

\* What is parsed part by part is refused as a whole.
Each(parts) ==
    IF \A i \in DOMAIN parts : parts[i].ok
    THEN Parsed([i \in DOMAIN parts |-> parts[i].val])
    ELSE Refuse

-----------------------------------------------------------------------------
(* Names.                                                                  *)

High(n) == HEX[(n \div 16) + 1]
Low(n) == HEX[(n % 16) + 1]

IsDigit(character, base) == \E d \in 0 .. base - 1 : HEX[d + 1] = character
Digit(character) == CHOOSE d \in 0 .. 15 : HEX[d + 1] = character

\* strconv.ParseUint: digits of the base, at least one, and a number of the width.
ParseUint(s, base, width) ==
    LET read[i \in 0 .. Len(s)] == IF i = 0 THEN 0 ELSE base * read[i - 1] + Digit(s[i])
    IN  IF s # <<>> /\ (\A i \in DOMAIN s : IsDigit(s[i], base)) /\ read[Len(s)] \in width
        THEN Parsed(read[Len(s)])
        ELSE Refuse

\* "0x1F" or a plain decimal.
parseNumeric(s, width) ==
    IF Hexadecimal(s) THEN ParseUint(SubSeq(s, 3, Len(s)), 16, width) ELSE ParseUint(s, 10, width)

NameIn(table, code) == CHOOSE name \in DOMAIN table : table[name] = code

\* A name of the table, or a number.
Lookup(table, name, width) ==
    IF name \in DOMAIN table THEN Parsed(table[name]) ELSE parseNumeric(name, width)

LookupKeycode(name) == Lookup(keycodes, name, Byte)

KeycodeName(code) ==
    CASE code \in DOMAIN keycodeNames -> keycodeNames[code]
      [] code \notin DOMAIN keycodeNames /\ code \in Range(keycodes) -> NameIn(keycodes, code)
      [] OTHER -> <<"0", "x", High(code), Low(code)>>

LookupConsumer(name) == Lookup(consumerCodes, name, Uint16)

ConsumerName(code) ==
    IF code \in Range(consumerCodes) THEN NameIn(consumerCodes, code)
    ELSE <<"0", "x", High(code \div 256), Low(code \div 256), High(code % 256), Low(code % 256)>>

\* The modifiers by their bits, and the other names they go by.
modBits == <<1, 2, 4, 8, 16, 32, 64, 128>>
modAliases ==
    << {"CONTROL", "LCTRL"}, {"LSHIFT"}, {"LALT", "OPTION"}, {"LGUI", "WIN", "CMD", "COMMAND"},
       {}, {}, {"ALTGR"}, {} >>

Names(bit, name) == \E word \in {modOrder[bit]} \cup modAliases[bit] : name = <<word>>

\* The bits named, each once however often it is named.
LookupMods(names) ==
    LET named(bit) == IF \E i \in DOMAIN names : Names(bit, names[i]) THEN modBits[bit] ELSE 0
    IN  IF \A i \in DOMAIN names : \E bit \in 1 .. 8 : Names(bit, names[i])
        THEN Parsed(named(1) + named(2) + named(3) + named(4) + named(5) + named(6) + named(7) + named(8))
        ELSE Refuse

ModNames(mods) ==
    LET name(bit) == IF (mods \div modBits[bit]) % 2 = 1 THEN << <<modOrder[bit]>> >> ELSE <<>>
    IN  name(1) \o name(2) \o name(3) \o name(4) \o name(5) \o name(6) \o name(7) \o name(8)

\* A mode that has no name is rendered as none, and none is the first.
ModeName(names, mode) == IF mode + 1 \in DOMAIN names THEN names[mode + 1] ELSE <<>>
parseMode(names, s) ==
    CASE s = <<>> -> Parsed(0)
      [] \E i \in DOMAIN names : names[i] = s -> Parsed((CHOOSE i \in DOMAIN names : names[i] = s) - 1)
      [] OTHER -> Refuse

formatRGB(c) == <<"#", High(c[1]), Low(c[1]), High(c[2]), Low(c[2]), High(c[3]), Low(c[3])>>

ParseRGB(s) ==
    LET h == IF s # <<>> /\ s[1] = "#" THEN Tail(s) ELSE s
    IN  IF Len(h) # 6 THEN Refuse
        ELSE Each([i \in 1 .. 3 |-> ParseUint(<<h[2 * i - 1], h[2 * i]>>, 16, Byte)])

-----------------------------------------------------------------------------
(* Rendering.  A field with omitempty that is zero is not there.           *)

\* A deliberately wrong variant: a delay of zero milliseconds is left out.
MutDelayField(ms) == IF ms = 0 THEN <<>> ELSE [delay_ms |-> Num(ms)]

\* A pointer, so that zero is there.
DelayField(ms) == [delay_ms |-> Num(ms)]

NodesOf(render(_), things) == [i \in DOMAIN things |-> render(things[i])]

KeyFields(key, mods) ==
    IF mods = <<>> THEN [key |-> Str(key)] ELSE [key |-> Str(key), mods |-> List(NodesOf(Str, mods))]

stepToJSON(s) ==
    Obj(CASE s.type = STEP_KEY -> KeyFields(KeycodeName(s.keycode), ModNames(s.mods))
          [] s.type = STEP_TEXT -> IF s.text = <<>> THEN <<>> ELSE [text |-> Str(s.text)]
          [] s.type = STEP_CONSUMER -> [consumer |-> Str(ConsumerName(s.consumer))]
          [] s.type = STEP_DELAY -> DelayField(s.delay_ms))

bindingToJSON(b) ==
    Obj([color |-> Str(formatRGB(b.color)), steps |-> List(NodesOf(stepToJSON, b.steps))])

\* A nil slice is rendered as null.
NilOrList(nodes) == IF nodes = <<>> THEN Null ELSE List(nodes)

profileToJSON(p) ==
    Obj([name |-> Str(p.name), dwell_ms |-> Num(p.dwell_ms), tap_max_ms |-> Num(p.tap_max_ms),
         overflow |-> Str(ModeName(overflowNames, p.overflow)), ext_count |-> Num(p.ext_count),
         brightness |-> Num(p.brightness), idle_mode |-> Str(ModeName(idleModeNames, p.idle_mode)),
         idle_color |-> Str(formatRGB(p.idle_color)), tap |-> bindingToJSON(p.tap),
         slots |-> NilOrList(NodesOf(bindingToJSON, p.slots))])

ToJSON(c) ==
    Obj([format |-> Num(c.format_version), active |-> Num(c.active),
         profiles |-> NilOrList(NodesOf(profileToJSON, c.profiles))])

-----------------------------------------------------------------------------
(* Parsing.  First strictUnmarshal: the document has the shape of the Go   *)
(* structures, with no field they lack; null is a zero value anywhere.     *)

IsNull(node) == node.kind = "null"
IsNumber(node, width) == IsNull(node) \/ (node.kind = "num" /\ node.content \in width)
IsString(node) == IsNull(node) \/ (node.kind = "str" /\ node.content \in Text)

IsList(node, IsElement(_)) ==
    \/ IsNull(node)
    \/ /\ node.kind = "list" /\ node.content \in Seq(Range(node.content))
       /\ \A i \in DOMAIN node.content : IsElement(node.content[i])

IsStruct(node, IsField(_, _)) ==
    \/ IsNull(node)
    \/ node.kind = "obj" /\ \A f \in DOMAIN node.content : IsField(f, node.content[f])

StepField(f, node) ==
    \/ f \in {"key", "text", "consumer"} /\ IsString(node)
    \/ f = "mods" /\ IsList(node, IsString)
    \/ f = "delay_ms" /\ IsNumber(node, Uint16)
IsStep(node) == IsStruct(node, StepField)

BindingField(f, node) ==
    \/ f = "color" /\ IsString(node)
    \/ f = "steps" /\ IsList(node, IsStep)
IsBinding(node) == IsStruct(node, BindingField)

ProfileField(f, node) ==
    \/ f \in {"name", "overflow", "idle_mode", "idle_color"} /\ IsString(node)
    \/ f \in {"dwell_ms", "tap_max_ms"} /\ IsNumber(node, Uint16)
    \/ f \in {"ext_count", "brightness"} /\ IsNumber(node, Byte)
    \/ f = "tap" /\ IsBinding(node)
    \/ f = "slots" /\ IsList(node, IsBinding)
IsProfile(node) == IsStruct(node, ProfileField)

ConfigField(f, node) ==
    \/ f \in {"format", "active"} /\ IsNumber(node, Byte)
    \/ f = "profiles" /\ IsList(node, IsProfile)
IsConfig(node) == IsStruct(node, ConfigField)

Present(node, f) == node.kind = "obj" /\ f \in DOMAIN node.content /\ ~IsNull(node.content[f])
Field(node, f, zero) == IF Present(node, f) THEN node.content[f].content ELSE zero
Part(node, f) == IF Present(node, f) THEN node.content[f] ELSE Null
EachOf(parse(_), nodes) == Each([i \in DOMAIN nodes |-> parse(nodes[i])])

\* A step does exactly one thing.
Forms(js) ==
    {f \in {"key", "text", "consumer"} : Field(js, f, <<>>) # <<>>} \cup {f \in {"delay_ms"} : Present(js, f)}

TextOf(node) == IF IsNull(node) THEN <<>> ELSE node.content
ModsOf(js) == LookupMods(NodesOf(TextOf, Field(js, "mods", <<>>)))

\* Modifiers only apply to a key.
OnlyForm(js, form) == Forms(js) = {form} /\ (form # "key" => Field(js, "mods", <<>>) = <<>>)

stepFromJSON(js) ==
    CASE OnlyForm(js, "key") ->
            Each([type |-> Parsed(STEP_KEY), keycode |-> LookupKeycode(js.content.key.content), mods |-> ModsOf(js)])
      [] OnlyForm(js, "text") -> Parsed(TextStep(js.content.text.content))
      [] OnlyForm(js, "consumer") ->
            Each([type |-> Parsed(STEP_CONSUMER), consumer |-> LookupConsumer(js.content.consumer.content)])
      [] OnlyForm(js, "delay_ms") -> Parsed(DelayStep(js.content.delay_ms.content))
      [] OTHER -> Refuse

bindingFromJSON(jb) ==
    Each([color |-> ParseRGB(Field(jb, "color", <<>>)), steps |-> EachOf(stepFromJSON, Field(jb, "steps", <<>>))])

profileFromJSON(jp) ==
    LET as_is(f, zero) == Parsed(Field(jp, f, zero))
    IN  Each([name |-> as_is("name", <<>>), dwell_ms |-> as_is("dwell_ms", 0),
              tap_max_ms |-> as_is("tap_max_ms", 0),
              overflow |-> parseMode(overflowNames, Field(jp, "overflow", <<>>)),
              ext_count |-> as_is("ext_count", 0), brightness |-> as_is("brightness", 0),
              idle_mode |-> parseMode(idleModeNames, Field(jp, "idle_mode", <<>>)),
              idle_color |-> ParseRGB(Field(jp, "idle_color", <<>>)),
              tap |-> bindingFromJSON(Part(jp, "tap")),
              slots |-> EachOf(bindingFromJSON, Field(jp, "slots", <<>>))])

ProfileFromJSON(doc) == IF IsProfile(doc) THEN profileFromJSON(doc) ELSE Refuse

\* A format of zero, or none, is the present one.
FormatOf(format) == IF format = 0 THEN FORMAT_VERSION ELSE format

FromJSON(doc) ==
    IF IsConfig(doc)
    THEN Each([format_version |-> Parsed(FormatOf(Field(doc, "format", 0))),
               active |-> Parsed(Field(doc, "active", 0)),
               profiles |-> EachOf(profileFromJSON, Field(doc, "profiles", <<>>))])
    ELSE Refuse
=============================================================================
