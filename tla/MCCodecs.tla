------------------------------ MODULE MCCodecs ------------------------------
(* Values for the constants of Codecs: configurations on both sides of     *)
(* every limit, a storage that the largest of them overflows, and damage   *)
(* that hits lengths, counts, types and offsets with values that mean      *)
(* something there.                                                        *)
EXTENDS Codecs

MCBinding(steps) == [color |-> <<1, 2, 3>>, steps |-> steps]

MCProfile(name, tap, slots) ==
    [name |-> name, dwell_ms |-> 1000, tap_max_ms |-> 250, overflow |-> 1, ext_count |-> 8,
     brightness |-> 64, idle_mode |-> 2, idle_color |-> <<0, 16, 24>>,
     tap |-> MCBinding(tap), slots |-> [i \in DOMAIN slots |-> MCBinding(slots[i])]]

MCConfig(active, profiles) ==
    [format_version |-> 1, active |-> active, profiles |-> profiles]

KeyV == [type |-> 0, keycode |-> 25, mods |-> 1]
TextH(n) == [type |-> 1, text |-> [i \in 1 .. n |-> 72]]
Mute == [type |-> 2, consumer |-> 226]
Wait(ms) == [type |-> 3, delay_ms |-> ms]

Small == MCProfile(<<65>>, <<>>, << <<>> >>)
Rich == MCProfile(<<65, 66>>, <<KeyV, Wait(10000)>>, << <<TextH(2)>>, <<Mute>> >>)
Full == MCProfile(<<65, 66>>, <<TextH(2), TextH(2)>>, << <<TextH(2), TextH(2)>>, <<TextH(2), TextH(2)>> >>)

One(p) == MCConfig(0, <<p>>)

MCConfigs ==
    \* As they should be.
    {One(Small), One(Rich), One(Full), MCConfig(1, <<Small, MCProfile(<<>>, <<TextH(1)>>, << <<>> >>)>>)}
      \* One too much, or one too few.
      \cup {One([Small EXCEPT !.name = <<65, 66, 67>>]),
            One([Small EXCEPT !.dwell_ms = 99]),
            One([Small EXCEPT !.overflow = 3]),
            One([Small EXCEPT !.slots = <<>>]),
            One(MCProfile(<<>>, <<>>, << <<>>, <<>>, <<>> >>)),
            One(MCProfile(<<>>, <<Mute, Mute, Mute>>, << <<>> >>)),
            One(MCProfile(<<>>, <<TextH(0)>>, << <<>> >>)),
            One(MCProfile(<<>>, <<>>, << <<Wait(10001)>> >>)),
            MCConfig(1, <<Small>>),
            MCConfig(0, <<>>),
            MCConfig(0, <<Small, Small, Small>>),
            MCConfig(0, <<Full, Full>>)}

MCValues == {0, 1, 2, 4, 14, 255}
=============================================================================
