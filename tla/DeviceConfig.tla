---------------------------- MODULE DeviceConfig ----------------------------
(***************************************************************************)
(* The live configuration of the board and the commands that change it:    *)
(* Device in src/src/code.py, over the store of NvmStore.tla.  A command   *)
(* runs in two steps, up to the write of the region and from there on, so  *)
(* that power can be lost in between; nothing else happens meanwhile, the  *)
(* firmware being one thread.                                              *)
(***************************************************************************)
EXTENDS NvmStore

CONSTANTS
    NumProfiles,        \* NumProfiles[s]: how many profiles the profile list s has
    DefaultConfig,      \* blob.default_config()
    ConfigOf,           \* ConfigOf[b]: what blob.decode makes of blob b
    ExtCount,           \* ExtCount[c]: how many pixels the active profile of c puts on the chain
    EncodedAs,          \* EncodedAs[c]: what blob.encode makes of c; not defined where it raises
    ProfileArgs,        \* the numbers a client sends with `profile'
    Uploads             \* the data a client uploads

ProfileLists == DOMAIN NumProfiles

\* An index below zero is one the code can hold (see SetActive), not one that a blob can.
Config == [profiles : ProfileLists, active : Int]
ValidConfig == {c \in Config : c.active \in 0 .. NumProfiles[c.profiles] - 1}

ASSUME ConfigAssumption ==
    /\ NumProfiles \in [ProfileLists -> Nat \ {0}]
    /\ "nothing" \notin ProfileLists /\ "volatile" \notin ProfileLists
    /\ DefaultConfig \in Config
    /\ DefaultConfig.active \in 0 .. NumProfiles[DefaultConfig.profiles] - 1
    /\ DOMAIN ConfigOf = Blobs
    /\ \A b \in Blobs : /\ ConfigOf[b] \in Config
                        /\ ConfigOf[b].active \in 0 .. NumProfiles[ConfigOf[b].profiles] - 1
    /\ ExtCount[DefaultConfig] \in Nat /\ \A b \in Blobs : ExtCount[ConfigOf[b]] \in Nat
    /\ \A c \in DOMAIN EncodedAs : EncodedAs[c] \in Blobs /\ ConfigOf[EncodedAs[c]] = c
    /\ ProfileArgs \subseteq Int

VARIABLES
    live,               \* Device.config_obj
    applied,            \* the configuration whose active profile LEDs and gesture were given
    ext_count,          \* Device._ext_count
    status,             \* Device._status
    task,               \* the command in its write: "commit", "set_active", "defaults" or "none"
    writing,            \* the blob being written, or NoBlob
    reply,              \* how the last command ended: "ok", "err", or "none" since boot or start
    up                  \* the board has power

configVars == <<nvm, storeStatus, live, applied, ext_count, status, task, writing, reply, up>>

ConfigTypeOK ==
    /\ NvmTypeOK
    /\ live \in Config /\ live.active < NumProfiles[live.profiles]
    /\ applied \in ValidConfig /\ ext_count \in Nat
    /\ status \in Statuses
    /\ task \in {"commit", "set_active", "defaults", "none"}
    /\ writing \in Blobs \cup {NoBlob} /\ (writing = NoBlob <=> task = "none")
    /\ reply \in {"ok", "err", "none"}
    /\ up \in BOOLEAN

LoadConfig(img) == IF LoadStatus(img) = "ok" THEN ConfigOf[Decode(img)] ELSE DefaultConfig

\* What a region can hold when the board is first switched on.
FirstImages ==
    {NoNvm, [i \in 1 .. NVM_SIZE |-> ERASED], [i \in 1 .. NVM_SIZE |-> JUNK]}
      \cup {Overwrite([i \in 1 .. NVM_SIZE |-> ERASED], b, BlobSize[b]) :
              b \in {x \in Blobs : BlobSize[x] <= NVM_SIZE}}

ConfigInit ==
    /\ nvm \in FirstImages
    /\ storeStatus = LoadStatus(nvm)
    /\ status = storeStatus
    /\ live = LoadConfig(nvm)
    /\ applied = live /\ ext_count = ExtCount[live]
    /\ task = "none" /\ writing = NoBlob
    /\ reply = "none"
    /\ up = TRUE

Idle == up /\ task = "none"

\* The command stops before the write: an ERR reply.
Refuse ==
    /\ reply' = "err"
    /\ UNCHANGED <<task, writing>>

BeginWrite(name, data) ==
    /\ task' = name
    /\ writing' = data
    /\ reply' = "none"

\* Device.commit, up to the write: save verifies before it writes.
Commit(data) ==
    /\ Idle
    /\ IF SaveAccepts(nvm, data) THEN BeginWrite("commit", data) ELSE Refuse
    /\ UNCHANGED <<nvm, storeStatus, live, applied, ext_count, status, up>>

encode(c) == IF c \in DOMAIN EncodedAs THEN EncodedAs[c] ELSE NoBlob

\* A deliberately wrong variant: the number is not compared with the profile count.
MutSetActiveUnchecked(n) ==
    /\ Idle
    /\ live' = [live EXCEPT !.active = n]
    /\ IF SaveAccepts(nvm, encode(live')) THEN BeginWrite("set_active", encode(live')) ELSE Refuse
    /\ UNCHANGED <<nvm, storeStatus, applied, ext_count, status, up>>

\* `profile n': the upper bound is checked, then the live configuration is changed, and only
\* then is it encoded; nothing undoes the change when that fails.
SetActive(n) ==
    /\ Idle
    /\ IF n >= NumProfiles[live.profiles]
       THEN Refuse /\ UNCHANGED live
       ELSE /\ live' = [live EXCEPT !.active = n]
            /\ IF SaveAccepts(nvm, encode(live'))
               THEN BeginWrite("set_active", encode(live'))
               ELSE Refuse
    /\ UNCHANGED <<nvm, storeStatus, applied, ext_count, status, up>>

\* Device.restore_defaults, up to the write.
RestoreDefaults ==
    /\ Idle
    /\ live' = DefaultConfig
    /\ IF SaveAccepts(nvm, encode(DefaultConfig))
       THEN BeginWrite("defaults", encode(DefaultConfig))
       ELSE Refuse
    /\ UNCHANGED <<nvm, storeStatus, applied, ext_count, status, up>>

\* _set_ext_count: rebuilding the chain, the last thing a command does, may raise.
SetExtCount(count) ==
    \/ reply' = "ok" /\ ext_count' = count
    \/ /\ count \notin {ext_count, 0}
       /\ reply' = "err"
       /\ UNCHANGED ext_count

\* A deliberately wrong variant: an uploaded configuration is stored but not made live.
MutFinishKeepsLive ==
    /\ up /\ writing # NoBlob
    /\ nvm' = Saved(nvm, writing)
    /\ storeStatus' = SavedStatus(nvm)
    /\ UNCHANGED <<live, up>>
    /\ status' = IF task = "set_active" THEN status ELSE storeStatus'
    /\ applied' = live'
    /\ task' = "none" /\ writing' = NoBlob
    /\ SetExtCount(ExtCount[applied'])

\* The write completes and the rest of the command runs: the new configuration is live, its
\* active profile goes to the LEDs and the gesture.  set_active leaves Device._status alone.
Finish ==
    /\ up /\ writing # NoBlob
    /\ nvm' = Saved(nvm, writing)
    /\ storeStatus' = SavedStatus(nvm)
    /\ live' = IF task = "commit" THEN ConfigOf[writing] ELSE live
    /\ status' = IF task = "set_active" THEN status ELSE storeStatus'
    /\ applied' = live'
    /\ task' = "none" /\ writing' = NoBlob
    /\ SetExtCount(ExtCount[applied'])
    /\ UNCHANGED up

PowerLoss ==
    /\ up
    /\ up' = FALSE
    /\ nvm' \in IF writing # NoBlob /\ nvm # NoNvm THEN Torn(nvm, writing) ELSE {nvm}
    /\ task' = "none" /\ writing' = NoBlob
    /\ reply' = "none"
    /\ UNCHANGED <<storeStatus, live, applied, ext_count, status>>

\* Device.__init__: NvmStore.load and the first _apply_profile, which is taken to succeed: the
\* program ends if it raises, and there is no more to say until the next Boot.
Boot ==
    /\ ~up
    /\ up' = TRUE
    /\ storeStatus' = LoadStatus(nvm)
    /\ status' = storeStatus'
    /\ live' = LoadConfig(nvm)
    /\ applied' = live' /\ ext_count' = ExtCount[live']
    /\ UNCHANGED <<nvm, task, writing, reply>>

ConfigNext ==
    \/ \E data \in Uploads : Commit(data)
    \/ \E n \in ProfileArgs : SetActive(n)
    \/ RestoreDefaults
    \/ Finish
    \/ PowerLoss
    \/ Boot

ConfigSpec == ConfigInit /\ [][ConfigNext]_configVars

-----------------------------------------------------------------------------
(* Properties.                                                             *)

\* A command answered OK has taken effect for good: what runs is what it asked for, and a reset
\* at any later moment (until the next command) comes up with the same configuration.
OkIsDurable ==
    up /\ reply = "ok" =>
        /\ live = applied
        /\ nvm # NoNvm => LoadStatus(nvm) = "ok" /\ ConfigOf[Decode(nvm)] = applied

\* Status "ok" can be trusted while no write is under way: the region holds one whole blob, it
\* is the configuration LEDs and gesture run with, and `read' returns exactly its bytes.
OkStatusIsTrue ==
    up /\ status = "ok" /\ writing = NoBlob =>
        \E b \in Blobs :
            /\ Holds(nvm, b)
            /\ ConfigOf[b] = applied
            /\ read_blob(nvm) = [i \in 1 .. BlobSize[b] |-> [of |-> b, at |-> i]]

\* Storage and the running program, seen together, change as AtomicConfig.tla allows.
Nothing  == [profiles |-> "nothing", active |-> 0]
Volatile == [profiles |-> "volatile", active |-> 0]

StoredIn(img) ==
    CASE img = NoNvm                                     -> Volatile
      [] img # NoNvm /\ \E b \in Blobs : Holds(img, b)   ->
            ConfigOf[CHOOSE b \in Blobs : Holds(img, b)]
      [] OTHER                                           -> Nothing

Target == IF writing = NoBlob THEN Nothing ELSE ConfigOf[writing]

Atomic == INSTANCE AtomicConfig WITH
    Config <- ValidConfig,
    stored <- StoredIn(nvm),
    running <- applied,
    target <- Target

AtomicSpec == Atomic!Spec
=============================================================================
