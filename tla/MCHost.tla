------------------------------- MODULE MCHost -------------------------------
(* Values for the constants of Host: a board that uses every form of a     *)
(* step, names that need a number and numbers that need a name; files and  *)
(* edits on both sides of what the host takes.                             *)
EXTENDS Host, TLC

MCCharacter == STRING
MCKeycodes == <<"A">> :> 4 @@ <<"ENTER">> :> 40 @@ <<"RETURN">> :> 40 @@ <<"SPACE">> :> 44
MCConsumerCodes == <<"MUTE">> :> 226

MCBinding(color, steps) == [color |-> color, steps |-> steps]

MCProfile(name, tap, slots) ==
    [name |-> name, dwell_ms |-> 1000, tap_max_ms |-> 250, overflow |-> 1, ext_count |-> 8,
     brightness |-> 64, idle_mode |-> 2, idle_color |-> <<0, 16, 171>>, tap |-> tap, slots |-> slots]

MCConfig(active, profiles) == [format_version |-> 1, active |-> active, profiles |-> profiles]

Keys == MCBinding(<<255, 0, 9>>, <<KeyStep(40, 34), KeyStep(200, 0)>>)
Media == MCBinding(<<1, 2, 3>>, <<ConsumerStep(226), ConsumerStep(180)>>)
Waits == MCBinding(<<1, 2, 3>>, <<DelayStep(0), TextStep(<<"h", "i">>)>>)
Bare == MCBinding(<<0, 0, 0>>, <<>>)

Rich == MCConfig(0, <<MCProfile(<<"o", "n", "e">>, Keys, <<Media, Waits>>), MCProfile(<<"t", "w", "o">>, Bare, <<Bare>>)>>)
Plain == MCConfig(0, <<MCProfile(<<"d", "e", "f">>, Bare, <<Bare>>)>>)
\* The device takes a dwell of zero, an empty text and profiles that share their bytes and are too
\* large to be written one after the other; the host does not.
NoDwell == MCConfig(0, <<[MCProfile(<<"r", "a", "w">>, Bare, <<Bare>>) EXCEPT !.dwell_ms = 0]>>)
NoText == MCConfig(0, <<MCProfile(<<"r", "a", "w">>, Bare, <<MCBinding(<<0, 0, 0>>, <<TextStep(<<>>)>>)>>)>>)

MCBoards == {Rich, Unreadable}
Shared == MCConfig(0, <<Rich.profiles[1], Rich.profiles[1]>>)
MCForeign == {NoDwell, NoText, Shared}

\* Files, edited by hand.
Edited(doc, path, node) == set(doc, path, Word(<<>>, node))
StepsDoc(steps) ==
    Edited(profileToJSON(Plain.profiles[1]), <<Name("tap")>>,
           Obj([color |-> Str(<<"0", "0", "F", "F", "7", "F">>), steps |-> steps]))
OfAll(doc) == [doc |-> doc, of |-> "all"]
OfProfile(doc) == [doc |-> doc, of |-> "profile"]

MCHandWritten ==
    {OfAll(Obj([profiles |-> List(<<profileToJSON(Plain.profiles[1])>>)])),
     OfAll(Obj([format |-> Num(1), profile |-> Null])),
     OfAll(Null),
     OfProfile(StepsDoc(List(<<Obj([key |-> Str(<<"RETURN">>), mods |-> List(<<Str(<<"CMD">>), Str(<<"GUI">>), Str(<<"ALTGR">>)>>)]),
                               Obj([key |-> Str(<<"0", "x", "6", "8">>)])>>))),
     OfProfile(StepsDoc(List(<<Obj([delay_ms |-> Num(0), text |-> Str(<<"x">>)])>>))),
     OfProfile(StepsDoc(List(<<Obj([delay_ms |-> Num(5), mods |-> List(<<Str(<<"CTRL">>)>>)])>>))),
     OfProfile(StepsDoc(List(<<Obj([text |-> Str(<<"a">>)]), Obj([text |-> Str(<<"a">>)]), Obj([text |-> Str(<<"a">>)])>>))),
     OfProfile(Edited(profileToJSON(Plain.profiles[1]), <<Name("overflow")>>, Str(<<>>)))}

InProfile(i, path) == <<Name("profiles"), Index(i)>> \o path
InSlot(i, j, path) == InProfile(i, <<Name("slots"), Index(j)>> \o path)

MCPaths ==
    {InProfile(0, <<Name("name")>>), InSlot(0, 1, <<Name("steps")>>), InSlot(0, 2, <<>>), InProfile(1, <<>>),
     <<Name("active")>>}

Edit(path, word) == [path |-> path, value |-> word]

MCEdits ==
    {Edit(<<Name("active")>>, Word(<<"1">>, Num(1))), Edit(<<Name("active")>>, Word(<<"256">>, Num(256))),
     Edit(<<Name("format")>>, Word(<<"2">>, Num(2))),
     Edit(InProfile(1, <<Name("dwell_ms")>>), Word(<<"900">>, Num(900))),
     Edit(InProfile(1, <<Name("dwell_ms")>>), GoNumber(<<"+901">>, 901)),
     Edit(InProfile(0, <<Name("dwell_ms")>>), Word(<<"fast">>, NoNode)),
     Edit(InProfile(0, <<Name("dwell_ms")>>), Word(<<"99">>, Num(99))),
     Edit(InProfile(0, <<Name("dwel_ms")>>), Word(<<"900">>, Num(900))),
     Edit(InProfile(1, <<Name("name")>>), Word(<<"main">>, NoNode)),
     Edit(InProfile(1, <<Name("name")>>), Word(Quoted(<<"7">>), Str(<<"7">>))),
     Edit(InProfile(0, <<Name("name")>>), Word(<<"l", "o", "n", "g", "e", "r">>, NoNode)),
     Edit(InSlot(0, 1, <<Name("color")>>), Word(<<"#", "0", "0", "F", "F", "0", "0">>, NoNode)),
     Edit(InSlot(0, 0, <<Name("color")>>), Word(<<"green">>, NoNode)),
     Edit(InSlot(0, 0, <<Name("steps"), Index(1), Name("consumer")>>), Word(<<"MUTE">>, NoNode)),
     Edit(InSlot(0, 0, <<Name("steps"), Index(1), Name("consumer")>>), Word(<<"0", "x", "F", "F", "F", "F", "F">>, NoNode)),
     Edit(InProfile(0, <<Name("slots")>>), Word(<<"[]">>, List(<<>>))),
     Edit(InProfile(0, <<Name("tap"), Name("steps")>>), Word(<<"null">>, Null)),
     Edit(InProfile(0, <<Name("tap"), Name("steps")>>), Word(<<"A">>, NoNode)),
     Edit(InProfile(0, <<Name("name"), Index(0)>>), Word(<<"x">>, NoNode))}

MCNumbers == -1 .. 2
=============================================================================
