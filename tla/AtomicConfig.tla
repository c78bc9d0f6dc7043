---------------------------- MODULE AtomicConfig ----------------------------
(***************************************************************************)
(* What the board promises about its configuration, with no memory cells:  *)
(* a change takes effect as a whole or not at all, in the running program  *)
(* and in storage together.  Only when power is lost while it is being     *)
(* stored may storage end up with the old configuration, the new one, or   *)
(* nothing readable -- never with anything else -- and the board always    *)
(* starts, from what is stored or from the factory defaults.               *)
(***************************************************************************)
CONSTANTS Config, DefaultConfig, Nothing, Volatile

VARIABLES
    stored,             \* what storage holds: a configuration, Nothing, or Volatile: no storage
    running,            \* the configuration the program runs with
    target,             \* the configuration being stored, or Nothing
    up                  \* the board has power

atomicVars == <<stored, running, target, up>>

OnBoot(s) == IF s \in {Nothing, Volatile} THEN DefaultConfig ELSE s

Init ==
    /\ stored \in Config \cup {Nothing, Volatile}
    /\ running = OnBoot(stored)
    /\ target = Nothing
    /\ up = TRUE

Begin ==
    /\ up /\ target = Nothing
    /\ target' \in Config
    /\ UNCHANGED <<stored, running, up>>

Accept ==
    /\ up /\ target # Nothing
    /\ running' = target
    /\ stored' = IF stored = Volatile THEN Volatile ELSE target
    /\ target' = Nothing
    /\ UNCHANGED up

PowerLoss ==
    /\ up
    /\ up' = FALSE
    /\ \/ UNCHANGED stored
       \/ stored # Volatile /\ target # Nothing /\ stored' \in {target, Nothing}
    /\ target' = Nothing
    /\ UNCHANGED running

Boot ==
    /\ ~up
    /\ up' = TRUE
    /\ running' = OnBoot(stored)
    /\ UNCHANGED <<stored, target>>

Next == Begin \/ Accept \/ PowerLoss \/ Boot

Spec == Init /\ [][Next]_atomicVars
=============================================================================
