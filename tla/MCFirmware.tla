----------------------------- MODULE MCFirmware -----------------------------
(* Values for the constants of Firmware: "a" has two slots and a chain     *)
(* longer than the limit, "b" one slot, no chain and a dark position, and  *)
(* "z" a dwell of zero, which the device decodes.  The list "t" is too     *)
(* large to be encoded again.                                              *)
EXTENDS Firmware, TLC

MCProfile(d, o, n, e, st) ==
    [dwell_ms |-> d, overflow |-> o, nslots |-> n, ext_count |-> e, steps |-> st]

MCProfileOf ==
    [p \in {"a", "b", "z"} |->
        CASE p = "a" -> MCProfile(1, "clamp", 2, 3,
                                  (0 :> <<"key">>) @@ (1 :> <<"delay", "other">>) @@ (2 :> <<>>))
          [] p = "b" -> MCProfile(1, "wrap_cancel", 1, 0, (0 :> <<"key", "key">>) @@ (1 :> <<>>))
          [] p = "z" -> MCProfile(0, "wrap", 1, 1, (0 :> <<>>) @@ (1 :> <<>>))]

MCListOf ==
    [l \in {"d", "t", "n"} |->
        CASE l = "d" -> <<"a", "b">> [] l = "t" -> <<"b", "a">> [] l = "n" -> <<"z">>]

MCProfileArgs == -2 .. 2
MCBindingArgs == -2 .. 2
=============================================================================
