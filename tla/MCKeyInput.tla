----------------------------- MODULE MCKeyInput -----------------------------
(* Values for the constants of KeyInput: a clock of 16 ticks, and one      *)
(* profile per overflow mode, with timings that let a hold pass the last   *)
(* colour and come round again before half the period is over.             *)
EXTENDS KeyInput

MCProfiles ==
    { [tap_max_ms |-> 1, dwell_ms |-> 1, nslots |-> 2, overflow |-> "wrap_cancel"],
      [tap_max_ms |-> 2, dwell_ms |-> 2, nslots |-> 2, overflow |-> "wrap"],
      [tap_max_ms |-> 3, dwell_ms |-> 1, nslots |-> 2, overflow |-> "clamp"] }
=============================================================================
