------------------------------- MODULE MCLeds -------------------------------
(* Values of the constants of Leds.tla for TLC. *)
EXTENDS Leds

White == <<255, 255, 255>>

\* A breathing profile with more pixels than fit; a rainbow on a short chain,
\* too dim to see; and one that is off, with no chain.
MCProfiles ==
    {[brightness |-> 255, ext_count |-> 255, idle_mode |-> "breathe", idle_color |-> White],
     [brightness |-> 1, ext_count |-> 2, idle_mode |-> "rainbow", idle_color |-> White],
     [brightness |-> 0, ext_count |-> 0, idle_mode |-> "off", idle_color |-> White]}

MCColors == {<<255, 128, 1>>}
=============================================================================
