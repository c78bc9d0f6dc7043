---------------------------- MODULE UploadProofs ----------------------------
(***************************************************************************)
(* Theorems about the two ends of an upload.  DeviceConfig: a              *)
(* configuration is stored and applied as a whole, whatever the blobs, the *)
(* size of the region and the moment power fails, and OK means that it is  *)
(* stored.  Link: while the board owed nothing when the port was drained,  *)
(* that OK reaches the call it is for, whatever the programs, the length   *)
(* of an upload and the events in between.                                 *)
(***************************************************************************)
EXTENDS DeviceConfig, Link, SequenceTheorems, TLAPS

-----------------------------------------------------------------------------
(* DeviceConfig: what a region can decode to.                              *)

\* The header names the only blob a region can hold.
LEMMA HeaderDecides ==
    ASSUME NEW img, NEW b \in Blobs, Holds(img, b)
    PROVE  /\ img[1] = [of |-> b, at |-> 1]
           /\ \A c \in Blobs : Holds(img, c) => c = b
  <1>1. \A c \in Blobs : 1 \in 1 .. BlobSize[c]
    BY NvmAssumption
  <1>2. \A c \in Blobs : Holds(img, c) => img[1] = [of |-> c, at |-> 1]
    BY <1>1 DEF Holds
  <1>3. ASSUME NEW c \in Blobs, Holds(img, c)
        PROVE  c = b
    <2>1. [of |-> c, at |-> 1] = [of |-> b, at |-> 1]
      BY <1>2, <1>3
    <2>2. [of |-> c, at |-> 1].of = [of |-> b, at |-> 1].of
      BY <2>1
    <2> QED
      BY <2>2
  <1> QED
    BY <1>2, <1>3

LEMMA DecodeOfHeld ==
    ASSUME NEW img, NEW b \in Blobs, Holds(img, b)
    PROVE  Decode(img) = b /\ (CHOOSE c \in Blobs : Holds(img, c)) = b
  BY HeaderDecides DEF Decode

\* A write that ran to its end left the whole blob.
LEMMA OverwriteHolds ==
    ASSUME NEW img, NEW b \in Blobs, BlobSize[b] <= NVM_SIZE
    PROVE  Holds(Overwrite(img, b, BlobSize[b]), b)
  <1>1. BlobSize[b] \in Nat /\ NVM_SIZE \in Nat
    BY NvmAssumption
  <1> QED
    BY <1>1 DEF Holds, Overwrite

\* A torn write leaves the old content, or a region that can hold nothing but the new blob.
LEMMA TornIsOldOrNew ==
    ASSUME NEW img \in Image, NEW b \in Blobs, NEW t \in Torn(img, b)
    PROVE  t = img \/ \A c \in Blobs : Holds(t, c) => c = b
  <1>1. 1 \in 1 .. NVM_SIZE /\ BlobSize[b] \in Nat \ {0}
    BY NvmAssumption
  <1>2. ASSUME NEW k \in 0 .. BlobSize[b], t = Overwrite(img, b, k)
        PROVE  t = img \/ t[1] = [of |-> b, at |-> 1]
    <2>1. CASE k = 0
      BY <1>1, <1>2, <2>1 DEF Overwrite, Image
    <2>2. CASE k # 0
      BY <1>1, <1>2, <2>2 DEF Overwrite
    <2> QED
      BY <2>1, <2>2
  <1>3. ASSUME NEW k \in 0 .. NVM_SIZE, t = Erase(Overwrite(img, b, BlobSize[b]), k)
        PROVE  t[1] = ERASED \/ t[1] = [of |-> b, at |-> 1]
    BY <1>1, <1>3 DEF Overwrite, Erase
  <1>4. t = img \/ t[1] = ERASED \/ t[1] = [of |-> b, at |-> 1]
    BY <1>2, <1>3 DEF Torn
  <1>5. ASSUME NEW c \in Blobs, Holds(t, c), t[1] = ERASED \/ t[1] = [of |-> b, at |-> 1]
        PROVE  c = b
    <2>1. t[1] = [of |-> c, at |-> 1]
      BY <1>5, HeaderDecides
    <2> QED
      BY <1>5, <2>1 DEF ERASED
  <1> QED
    BY <1>4, <1>5

\* Nothing a write leaves is outside the region's type.
LEMMA TornType ==
    ASSUME NEW img \in Image, NEW b \in Blobs
    PROVE  Torn(img, b) \subseteq Image
  BY NvmAssumption DEF Torn, Overwrite, Erase, Image, Cell

\* The board starts with the stored configuration, or the factory defaults if there is none.
LEMMA LoadIsStored ==
    ASSUME NEW img
    PROVE  /\ LoadConfig(img) = Atomic!OnBoot(StoredIn(img))
           /\ LoadStatus(img) = "ok" <=> img # NoNvm /\ \E b \in Blobs : Holds(img, b)
  <1>1. CASE img = NoNvm
    BY <1>1 DEF LoadConfig, LoadStatus, StoredIn, Atomic!OnBoot
  <1>2. CASE img # NoNvm /\ \E b \in Blobs : Holds(img, b)
    <2>1. PICK b \in Blobs : Holds(img, b)
      BY <1>2
    <2>2. /\ b # NoBlob /\ Decode(img) = b
          /\ (CHOOSE c \in Blobs : Holds(img, c)) = b
          /\ img[1] # ERASED
      <3>1. b # NoBlob
        BY NvmAssumption DEF NoBlob
      <3>2. img[1] = [of |-> b, at |-> 1]
        BY <2>1, HeaderDecides
      <3>3. img[1] # ERASED
        BY <3>2 DEF ERASED
      <3> QED
        BY <2>1, <3>1, <3>3, DecodeOfHeld
    <2>3. ~is_blank(img)
      BY <2>2, NvmAssumption DEF is_blank
    <2>4. ConfigOf[b] # Nothing /\ ConfigOf[b] # Volatile
      BY ConfigAssumption DEF Config, Nothing, Volatile
    <2>5. LoadStatus(img) = "ok"
      BY <1>2, <2>2, <2>3 DEF LoadStatus
    <2>6. StoredIn(img) = ConfigOf[b]
      BY <1>2, <2>2 DEF StoredIn
    <2> QED
      BY <1>2, <2>2, <2>4, <2>5, <2>6 DEF LoadConfig, Atomic!OnBoot
  <1>3. CASE img # NoNvm /\ ~\E b \in Blobs : Holds(img, b)
    <2>1. Decode(img) = NoBlob
      BY <1>3 DEF Decode
    <2>2. LoadStatus(img) # "ok"
      BY <1>3, <2>1 DEF LoadStatus
    <2>3. StoredIn(img) = Nothing
      BY <1>3 DEF StoredIn
    <2> QED
      BY <1>3, <2>2, <2>3 DEF LoadConfig, Atomic!OnBoot
  <1> QED
    BY <1>1, <1>2, <1>3


LEMMA StoredOfHeld ==
    ASSUME NEW img, img # NoNvm, NEW b \in Blobs, Holds(img, b)
    PROVE  /\ StoredIn(img) = ConfigOf[b]
           /\ LoadStatus(img) = "ok"
           /\ Decode(img) = b
  BY LoadIsStored, DecodeOfHeld DEF StoredIn

\* `read' returns the bytes of the blob a region holds, and nothing more.
LEMMA ReadOfHeld ==
    ASSUME NEW img, img # NoNvm, NEW b \in Blobs, Holds(img, b)
    PROVE  read_blob(img) = [i \in 1 .. BlobSize[b] |-> [of |-> b, at |-> i]]
  <1>1. img[1] = [of |-> b, at |-> 1] /\ b # NoBlob /\ BlobSize[b] <= NVM_SIZE
    BY HeaderDecides, NvmAssumption DEF NoBlob, Holds
  <1>2. img[1].of = b /\ img[1].at = 1
    BY <1>1
  <1>3. HeaderBlob(img) = b
    BY <1>2 DEF HeaderBlob
  <1>4. stored_length(img) = BlobSize[b]
    BY <1>1, <1>3 DEF stored_length
  <1> QED
    BY <1>4 DEF read_blob, Holds

LEMMA ImagesAreNotEmpty ==
    ASSUME NEW img \in Image
    PROVE  img # NoNvm
  <1>1. DOMAIN img = 1 .. NVM_SIZE /\ 1 \in 1 .. NVM_SIZE
    BY NvmAssumption DEF Image
  <1>2. DOMAIN NoNvm = {}
    BY DEF NoNvm
  <1> QED
    BY <1>1, <1>2

LEMMA OverwriteType ==
    ASSUME NEW img \in Image, NEW b \in Blobs, NEW k
    PROVE  Overwrite(img, b, k) \in Image
  BY NvmAssumption DEF Overwrite, Image, Cell

LEMMA LoadedConfigIsValid ==
    ASSUME NEW img
    PROVE  LoadConfig(img) \in ValidConfig /\ LoadStatus(img) \in Statuses
  <1>1. DefaultConfig \in ValidConfig /\ \A b \in Blobs : ConfigOf[b] \in ValidConfig
    BY ConfigAssumption DEF ValidConfig
  <1>2. LoadStatus(img) = "ok" => Decode(img) \in Blobs
    <2>1. ASSUME NEW b \in Blobs, Holds(img, b)
          PROVE  Decode(img) \in Blobs
      BY <2>1, DecodeOfHeld
    <2> QED
      BY <2>1, LoadIsStored
  <1>3. LoadStatus(img) \in Statuses
    BY DEF LoadStatus, Statuses
  <1> QED
    BY <1>1, <1>2, <1>3 DEF LoadConfig

LEMMA LoadedChainCounts == ASSUME NEW img PROVE ExtCount[LoadConfig(img)] \in Nat
  <1>1. LoadStatus(img) = "ok" => Decode(img) \in Blobs
    BY DecodeOfHeld, LoadIsStored
  <1> QED
    BY <1>1, ConfigAssumption DEF LoadConfig

-----------------------------------------------------------------------------
(* The inductive invariant.  A write under way is of a blob the store has  *)
(* accepted and, except for an upload, of what is already live; a board    *)
(* without power has nothing pending; a board without storage says so.     *)

PendingWriteIsLive ==
    writing # NoBlob =>
        /\ SaveAccepts(nvm, writing)
        /\ task # "commit" => ConfigOf[writing] = live

DownIsQuiet == ~up => writing = NoBlob /\ reply = "none"

NoNvmIsKnown == up /\ nvm = NoNvm => status = "no-nvm"

ConfigIInv ==
    /\ ConfigTypeOK
    /\ PendingWriteIsLive
    /\ DownIsQuiet
    /\ NoNvmIsKnown
    /\ OkIsDurable
    /\ OkStatusIsTrue

LEMMA ConfigInitInv == ConfigInit => ConfigIInv
  <1> SUFFICES ASSUME ConfigInit PROVE ConfigIInv
    OBVIOUS
  <1>1. nvm \in Image \cup {NoNvm}
    <2>1. [i \in 1 .. NVM_SIZE |-> ERASED] \in Image /\ [i \in 1 .. NVM_SIZE |-> JUNK] \in Image
      BY DEF Image, Cell
    <2> QED
      BY <2>1, OverwriteType DEF ConfigInit, FirstImages
  <1>2. live \in ValidConfig /\ storeStatus \in Statuses
    BY LoadedConfigIsValid DEF ConfigInit
  <1>3. live \in Config /\ live.active < NumProfiles[live.profiles]
    BY <1>2, ConfigAssumption DEF ValidConfig, Config
  <1>4. ConfigTypeOK
    <2>1. ext_count \in Nat
      BY LoadedChainCounts DEF ConfigInit
    <2> QED
      BY <1>1, <1>2, <1>3, <2>1 DEF ConfigInit, ConfigTypeOK, NvmTypeOK
  <1>5. PendingWriteIsLive /\ DownIsQuiet /\ NoNvmIsKnown /\ OkIsDurable
    BY DEF ConfigInit, PendingWriteIsLive, DownIsQuiet, NoNvmIsKnown, OkIsDurable, LoadStatus
  <1>6. OkStatusIsTrue
    <2> SUFFICES ASSUME LoadStatus(nvm) = "ok"
                 PROVE  \E b \in Blobs :
                            /\ Holds(nvm, b)
                            /\ ConfigOf[b] = applied
                            /\ read_blob(nvm) = [i \in 1 .. BlobSize[b] |-> [of |-> b, at |-> i]]
      BY DEF ConfigInit, OkStatusIsTrue
    <2>1. PICK b \in Blobs : Holds(nvm, b)
      BY LoadIsStored
    <2>2. applied = ConfigOf[b]
      BY <2>1, DecodeOfHeld DEF ConfigInit, LoadConfig
    <2> QED
      BY <2>1, <2>2, ReadOfHeld, LoadIsStored
  <1> QED
    BY <1>4, <1>5, <1>6 DEF ConfigIInv

\* What the store holds when a write it accepted has run to its end.
LEMMA SavedHolds ==
    ASSUME NEW img \in Image \cup {NoNvm}, NEW b \in Blobs, SaveAccepts(img, b)
    PROVE  /\ Saved(img, b) \in Image \cup {NoNvm}
           /\ Saved(img, b) = NoNvm <=> img = NoNvm
           /\ img # NoNvm => Holds(Saved(img, b), b)
  BY OverwriteType, OverwriteHolds, ImagesAreNotEmpty DEF Saved, SaveAccepts

\* A step that starts or refuses a command leaves storage and what runs alone.
LEMMA StartInv ==
    ASSUME ConfigIInv, Idle,
           UNCHANGED <<nvm, storeStatus, applied, ext_count, status, up>>,
           live' \in Config, live'.active < NumProfiles[live'.profiles],
           \/ Refuse
           \/ \E name \in {"commit", "set_active", "defaults"}, b \in Blobs :
                  /\ SaveAccepts(nvm, b)
                  /\ BeginWrite(name, b)
                  /\ name # "commit" => ConfigOf[b] = live'
    PROVE  ConfigIInv'
  <1>1. writing = NoBlob
    BY DEF ConfigIInv, ConfigTypeOK, Idle
  <1>2. ASSUME Refuse PROVE ConfigIInv'
    BY <1>1, <1>2 DEF Refuse, ConfigIInv, ConfigTypeOK, NvmTypeOK, PendingWriteIsLive,
                      DownIsQuiet, NoNvmIsKnown, OkIsDurable, OkStatusIsTrue, Idle
  <1>3. ASSUME NEW name \in {"commit", "set_active", "defaults"}, NEW b \in Blobs,
               SaveAccepts(nvm, b), BeginWrite(name, b), name # "commit" => ConfigOf[b] = live'
        PROVE  ConfigIInv'
    <2>1. b # NoBlob
      BY NvmAssumption DEF NoBlob
    <2> QED
      BY <1>3, <2>1 DEF BeginWrite, ConfigIInv, ConfigTypeOK, NvmTypeOK, PendingWriteIsLive,
                        DownIsQuiet, NoNvmIsKnown, OkIsDurable, OkStatusIsTrue, Idle
  <1> QED
    BY <1>2, <1>3

LEMMA CommitInv ==
    ASSUME ConfigIInv, NEW data \in Uploads, Commit(data)
    PROVE  ConfigIInv'
  <1>1. live' \in Config /\ live'.active < NumProfiles[live'.profiles]
    BY DEF Commit, ConfigIInv, ConfigTypeOK
  <1>2. SaveAccepts(nvm, data) => data \in Blobs
    BY DEF SaveAccepts
  <1> QED
    BY <1>1, <1>2, StartInv DEF Commit

LEMMA EncodedIsConfig ==
    ASSUME NEW c, NEW img, SaveAccepts(img, encode(c))
    PROVE  encode(c) \in Blobs /\ ConfigOf[encode(c)] = c
  BY NvmAssumption, ConfigAssumption DEF SaveAccepts, encode, NoBlob

LEMMA SetActiveInv ==
    ASSUME ConfigIInv, NEW n \in ProfileArgs, SetActive(n)
    PROVE  ConfigIInv'
  <1>1. live' \in Config /\ live'.active < NumProfiles[live'.profiles]
    BY ConfigAssumption DEF SetActive, ConfigIInv, ConfigTypeOK, Config
  <1>2. CASE n >= NumProfiles[live.profiles]
    BY <1>1, <1>2, StartInv DEF SetActive
  <1>3. CASE ~(n >= NumProfiles[live.profiles])
    <2>1. SaveAccepts(nvm, encode(live')) =>
              encode(live') \in Blobs /\ ConfigOf[encode(live')] = live'
      BY EncodedIsConfig
    <2> QED
      BY <1>1, <1>3, <2>1, StartInv DEF SetActive
  <1> QED
    BY <1>2, <1>3

LEMMA RestoreDefaultsInv ==
    ASSUME ConfigIInv, RestoreDefaults
    PROVE  ConfigIInv'
  <1>1. live' \in Config /\ live'.active < NumProfiles[live'.profiles]
    BY ConfigAssumption DEF RestoreDefaults, Config
  <1>2. SaveAccepts(nvm, encode(live')) =>
            encode(live') \in Blobs /\ ConfigOf[encode(live')] = live'
    BY EncodedIsConfig
  <1> QED
    BY <1>1, <1>2, StartInv DEF RestoreDefaults

LEMMA FinishInv ==
    ASSUME ConfigIInv, Finish
    PROVE  ConfigIInv'
  <1>1. writing \in Blobs /\ SaveAccepts(nvm, writing) /\ nvm \in Image \cup {NoNvm}
    BY DEF Finish, ConfigIInv, ConfigTypeOK, NvmTypeOK, PendingWriteIsLive
  <1>2. live' = ConfigOf[writing] /\ applied' = ConfigOf[writing]
    BY DEF Finish, ConfigIInv, PendingWriteIsLive
  <1>3. ConfigOf[writing] \in ValidConfig /\ ConfigOf[writing] \in Config
        /\ ConfigOf[writing].active < NumProfiles[ConfigOf[writing].profiles]
    BY <1>1, ConfigAssumption DEF ValidConfig, Config
  <1>4. /\ nvm' \in Image \cup {NoNvm}
        /\ nvm' = NoNvm <=> nvm = NoNvm
        /\ nvm # NoNvm => Holds(nvm', writing)
    BY <1>1, SavedHolds DEF Finish
  <1>5. storeStatus' = (IF nvm = NoNvm THEN "no-nvm" ELSE "ok") /\ status' \in {status, storeStatus'}
    BY DEF Finish, SavedStatus
  <1>6. ConfigTypeOK'
    <2>1. ext_count' \in Nat /\ reply' \in {"ok", "err"}
      BY <1>1, <1>2, ConfigAssumption DEF Finish, SetExtCount, ConfigIInv, ConfigTypeOK
    <2> QED
      BY <1>2, <1>3, <1>4, <1>5, <2>1 DEF Finish, ConfigIInv, ConfigTypeOK, NvmTypeOK, Statuses
  <1>7. PendingWriteIsLive' /\ DownIsQuiet' /\ NoNvmIsKnown'
    BY <1>4, <1>5 DEF Finish, ConfigIInv, PendingWriteIsLive, DownIsQuiet, NoNvmIsKnown
  <1>8. OkIsDurable'
    <2>1. nvm' # NoNvm => LoadStatus(nvm') = "ok" /\ Decode(nvm') = writing
      BY <1>1, <1>4, StoredOfHeld
    <2> QED
      BY <1>2, <2>1 DEF OkIsDurable
  <1>9. OkStatusIsTrue'
    <2>1. nvm' # NoNvm =>
              read_blob(nvm') = [i \in 1 .. BlobSize[writing] |-> [of |-> writing, at |-> i]]
      BY <1>1, <1>4, ReadOfHeld
    <2>2. nvm = NoNvm => status' # "ok"
      BY <1>5 DEF Finish, ConfigIInv, NoNvmIsKnown
    <2> QED
      BY <1>1, <1>2, <1>4, <2>1, <2>2 DEF OkStatusIsTrue
  <1> QED
    BY <1>6, <1>7, <1>8, <1>9 DEF ConfigIInv

LEMMA PowerLossInv ==
    ASSUME ConfigIInv, PowerLoss
    PROVE  ConfigIInv'
  <1>1. nvm' \in Image \cup {NoNvm}
    <2>1. writing # NoBlob /\ nvm # NoNvm => writing \in Blobs /\ nvm \in Image
      BY DEF ConfigIInv, ConfigTypeOK, NvmTypeOK
    <2>2. nvm \in Image \cup {NoNvm}
      BY DEF ConfigIInv, ConfigTypeOK, NvmTypeOK
    <2> QED
      BY <2>1, <2>2, TornType DEF PowerLoss
  <1>2. ConfigTypeOK'
    BY <1>1 DEF PowerLoss, ConfigIInv, ConfigTypeOK, NvmTypeOK
  <1> QED
    BY <1>2 DEF PowerLoss, ConfigIInv, PendingWriteIsLive, DownIsQuiet, NoNvmIsKnown,
                OkIsDurable, OkStatusIsTrue

LEMMA BootInv ==
    ASSUME ConfigIInv, Boot
    PROVE  ConfigIInv'
  <1>1. live' \in ValidConfig /\ storeStatus' \in Statuses
    BY LoadedConfigIsValid DEF Boot
  <1>2. live' \in Config /\ live'.active < NumProfiles[live'.profiles]
    BY <1>1, ConfigAssumption DEF ValidConfig, Config
  <1>3. ConfigTypeOK'
    <2>1. ext_count' \in Nat
      BY LoadedChainCounts DEF Boot
    <2> QED
      BY <1>1, <1>2, <2>1 DEF Boot, ConfigIInv, ConfigTypeOK, NvmTypeOK
  <1>4. PendingWriteIsLive' /\ DownIsQuiet' /\ NoNvmIsKnown' /\ OkIsDurable'
    BY DEF Boot, ConfigIInv, PendingWriteIsLive, DownIsQuiet, NoNvmIsKnown, OkIsDurable, LoadStatus
  <1>5. OkStatusIsTrue'
    <2> SUFFICES ASSUME LoadStatus(nvm) = "ok"
                 PROVE  \E b \in Blobs :
                            /\ Holds(nvm, b)
                            /\ ConfigOf[b] = applied'
                            /\ read_blob(nvm) = [i \in 1 .. BlobSize[b] |-> [of |-> b, at |-> i]]
      BY DEF Boot, OkStatusIsTrue
    <2>1. PICK b \in Blobs : Holds(nvm, b)
      BY LoadIsStored
    <2>2. applied' = ConfigOf[b]
      BY <2>1, DecodeOfHeld DEF Boot, LoadConfig
    <2> QED
      BY <2>1, <2>2, ReadOfHeld, LoadIsStored
  <1> QED
    BY <1>3, <1>4, <1>5 DEF ConfigIInv

LEMMA ConfigNextInv == ConfigIInv /\ [ConfigNext]_configVars => ConfigIInv'
  <1> SUFFICES ASSUME ConfigIInv, [ConfigNext]_configVars PROVE ConfigIInv'
    OBVIOUS
  <1>1. CASE UNCHANGED configVars
    BY <1>1 DEF configVars, ConfigIInv, ConfigTypeOK, NvmTypeOK, PendingWriteIsLive, DownIsQuiet,
                NoNvmIsKnown, OkIsDurable, OkStatusIsTrue
  <1> QED
    BY <1>1, CommitInv, SetActiveInv, RestoreDefaultsInv, FinishInv, PowerLossInv, BootInv
       DEF ConfigNext

\* The invariant holds in every state the board and its client can reach.
THEOREM ConfigInvariant == ConfigSpec => []ConfigIInv
  BY ConfigInitInv, ConfigNextInv, PTL DEF ConfigSpec

\* Every value the device and the store keep is of its type: an applied profile exists.
THEOREM ConfigTypeCorrect == ConfigSpec => []ConfigTypeOK
  <1>1. ConfigIInv => ConfigTypeOK
    BY DEF ConfigIInv
  <1> QED
    BY <1>1, ConfigInvariant, PTL

\* A command answered OK is live and survives a reset, for every blob that fits the region.
THEOREM OkReplyIsDurable == ConfigSpec => []OkIsDurable
  <1>1. ConfigIInv => OkIsDurable
    BY DEF ConfigIInv
  <1> QED
    BY <1>1, ConfigInvariant, PTL

\* Status "ok" is never shown over a region that holds anything but the applied configuration.
THEOREM OkStatusCanBeTrusted == ConfigSpec => []OkStatusIsTrue
  <1>1. ConfigIInv => OkStatusIsTrue
    BY DEF ConfigIInv
  <1> QED
    BY <1>1, ConfigInvariant, PTL

-----------------------------------------------------------------------------
(* The detailed store implements AtomicConfig.tla.                         *)

LEMMA ValidIsNeitherMark ==
    ASSUME NEW c \in ValidConfig
    PROVE  c # Nothing /\ c # Volatile
  BY ConfigAssumption DEF ValidConfig, Config, Nothing, Volatile

LEMMA ConfigOfIsValid ==
    ASSUME NEW b \in Blobs
    PROVE  ConfigOf[b] \in ValidConfig
  BY ConfigAssumption DEF ValidConfig

LEMMA StoredType ==
    ASSUME NEW img
    PROVE  /\ StoredIn(img) \in ValidConfig \cup {Nothing, Volatile}
           /\ StoredIn(img) = Volatile <=> img = NoNvm
  <1>1. Nothing # Volatile
    BY DEF Nothing, Volatile
  <1>2. ASSUME NEW b \in Blobs, Holds(img, b), img # NoNvm
        PROVE  StoredIn(img) \in ValidConfig
    BY <1>2, StoredOfHeld, ConfigOfIsValid
  <1>3. ASSUME img # NoNvm, ~\E b \in Blobs : Holds(img, b)
        PROVE  StoredIn(img) = Nothing
    BY <1>3 DEF StoredIn
  <1>4. img = NoNvm => StoredIn(img) = Volatile
    BY DEF StoredIn
  <1> QED
    BY <1>1, <1>2, <1>3, <1>4, ValidIsNeitherMark

LEMMA InitIsAtomic == ConfigInit => Atomic!Init
  <1> SUFFICES ASSUME ConfigInit PROVE Atomic!Init
    OBVIOUS
  <1>1. StoredIn(nvm) \in ValidConfig \cup {Nothing, Volatile}
    BY StoredType
  <1>2. applied = Atomic!OnBoot(StoredIn(nvm))
    BY LoadIsStored DEF ConfigInit
  <1> QED
    BY <1>1, <1>2 DEF ConfigInit, Atomic!Init, Target

\* Refusing a command changes nothing abstractly; starting to write chooses a target.
LEMMA StartIsAtomic ==
    ASSUME ConfigIInv, Idle, UNCHANGED <<nvm, applied, up>>,
           \/ Refuse
           \/ \E name \in {"commit", "set_active", "defaults"}, b \in Blobs : BeginWrite(name, b)
    PROVE  [Atomic!Next]_Atomic!atomicVars
  <1>1. writing = NoBlob
    BY DEF ConfigIInv, ConfigTypeOK, Idle
  <1>2. CASE Refuse
    BY <1>1, <1>2 DEF Refuse, Atomic!atomicVars, Target
  <1>3. ASSUME NEW name \in {"commit", "set_active", "defaults"}, NEW b \in Blobs, BeginWrite(name, b)
        PROVE  Atomic!Begin
    <2>1. b # NoBlob /\ ConfigOf[b] \in ValidConfig
      BY NvmAssumption, ConfigOfIsValid DEF NoBlob
    <2> QED
      BY <1>1, <1>3, <2>1 DEF Atomic!Begin, BeginWrite, Target, Idle
  <1> QED
    BY <1>2, <1>3 DEF Atomic!Next

LEMMA FinishIsAtomic == ASSUME ConfigIInv, Finish PROVE Atomic!Accept
  <1>1. writing \in Blobs /\ writing # NoBlob /\ nvm \in Image \cup {NoNvm} /\ SaveAccepts(nvm, writing)
    BY DEF Finish, ConfigIInv, ConfigTypeOK, NvmTypeOK, PendingWriteIsLive
  <1>2. Target = ConfigOf[writing] /\ Target # Nothing /\ Target' = Nothing
    BY <1>1, ConfigOfIsValid, ValidIsNeitherMark DEF Target, Finish
  <1>3. applied' = Target
    BY <1>2 DEF Finish, ConfigIInv, PendingWriteIsLive
  <1>4. /\ nvm' = NoNvm <=> nvm = NoNvm
        /\ nvm # NoNvm => Holds(nvm', writing)
    BY <1>1, SavedHolds DEF Finish
  <1>5. nvm # NoNvm => StoredIn(nvm') = Target
    BY <1>1, <1>2, <1>4, StoredOfHeld
  <1>6. StoredIn(nvm') = (IF StoredIn(nvm) = Volatile THEN Volatile ELSE Target)
    BY <1>4, <1>5, StoredType
  <1> QED
    BY <1>2, <1>3, <1>6 DEF Finish, Atomic!Accept

LEMMA PowerLossIsAtomic == ASSUME ConfigIInv, PowerLoss PROVE Atomic!PowerLoss
  <1>1. Target' = Nothing
    BY DEF PowerLoss, Target
  <1>2. CASE nvm' = nvm
    BY <1>1, <1>2 DEF PowerLoss, Atomic!PowerLoss
  <1>3. CASE nvm' # nvm
    <2>1. writing # NoBlob /\ nvm # NoNvm /\ nvm' \in Torn(nvm, writing)
      BY <1>3 DEF PowerLoss
    <2>2. writing \in Blobs /\ nvm \in Image
      BY <2>1 DEF ConfigIInv, ConfigTypeOK, NvmTypeOK
    <2>3. nvm' # NoNvm /\ \A c \in Blobs : Holds(nvm', c) => c = writing
      BY <1>3, <2>1, <2>2, TornIsOldOrNew, TornType, ImagesAreNotEmpty
    <2>4. Target = ConfigOf[writing] /\ Target # Nothing
      BY <2>1, <2>2, ConfigOfIsValid, ValidIsNeitherMark DEF Target
    <2>5. StoredIn(nvm') \in {Target, Nothing}
      <3>1. CASE Holds(nvm', writing)
        BY <2>2, <2>3, <2>4, <3>1, StoredOfHeld
      <3>2. CASE ~Holds(nvm', writing)
        BY <2>3, <3>2 DEF StoredIn
      <3> QED
        BY <3>1, <3>2
    <2>6. StoredIn(nvm) # Volatile
      BY <2>1, StoredType
    <2> QED
      BY <1>1, <2>4, <2>5, <2>6 DEF PowerLoss, Atomic!PowerLoss
  <1> QED
    BY <1>2, <1>3

LEMMA BootIsAtomic == ASSUME Boot PROVE Atomic!Boot
  BY LoadIsStored DEF Boot, Atomic!Boot, Target

LEMMA NextIsAtomic == ConfigIInv /\ [ConfigNext]_configVars => [Atomic!Next]_Atomic!atomicVars
  <1> SUFFICES ASSUME ConfigIInv, [ConfigNext]_configVars
               PROVE  [Atomic!Next]_Atomic!atomicVars
    OBVIOUS
  <1>1. CASE UNCHANGED configVars
    BY <1>1 DEF configVars, Atomic!atomicVars, Target
  <1>2. ASSUME NEW data \in Uploads, Commit(data) PROVE [Atomic!Next]_Atomic!atomicVars
    <2>1. Idle /\ UNCHANGED <<nvm, applied, up>>
      BY <1>2 DEF Commit
    <2>2. Refuse \/ \E name \in {"commit", "set_active", "defaults"}, b \in Blobs : BeginWrite(name, b)
      BY <1>2 DEF Commit, SaveAccepts
    <2> QED
      BY <2>1, <2>2, StartIsAtomic
  <1>3. ASSUME NEW n \in ProfileArgs, SetActive(n) PROVE [Atomic!Next]_Atomic!atomicVars
    <2>1. Idle /\ UNCHANGED <<nvm, applied, up>>
      BY <1>3 DEF SetActive
    <2>2. Refuse \/ \E name \in {"commit", "set_active", "defaults"}, b \in Blobs : BeginWrite(name, b)
      BY <1>3 DEF SetActive, SaveAccepts
    <2> QED
      BY <2>1, <2>2, StartIsAtomic
  <1>4. CASE RestoreDefaults
    <2>1. Idle /\ UNCHANGED <<nvm, applied, up>>
      BY <1>4 DEF RestoreDefaults
    <2>2. Refuse \/ \E name \in {"commit", "set_active", "defaults"}, b \in Blobs : BeginWrite(name, b)
      BY <1>4 DEF RestoreDefaults, SaveAccepts
    <2> QED
      BY <2>1, <2>2, StartIsAtomic
  <1>5. CASE Finish
    BY <1>5, FinishIsAtomic DEF Atomic!Next
  <1>6. CASE PowerLoss
    BY <1>6, PowerLossIsAtomic DEF Atomic!Next
  <1>7. CASE Boot
    BY <1>7, BootIsAtomic DEF Atomic!Next
  <1> QED
    BY <1>1, <1>2, <1>3, <1>4, <1>5, <1>6, <1>7 DEF ConfigNext

\* Whatever power loss, upload, switch or restore happens, storage and the running configuration
\* change together and as a whole: DeviceConfig.tla implements AtomicConfig.tla.
THEOREM ConfigIsAtomic == ConfigSpec => AtomicSpec
  BY InitIsAtomic, NextIsAtomic, ConfigInvariant, PTL DEF ConfigSpec, AtomicSpec, Atomic!Spec

-----------------------------------------------------------------------------
(* Link: the invariant.                                                    *)

NoOk(lines) == lines \in Seq({l \in LinesOut : l.kind # "ok"})

\* What comes behind an OK is events.
OkIsLast(lines) ==
    \A i, j \in DOMAIN lines : lines[i].kind = "ok" /\ i < j => lines[j].kind = "EV"

Owned(lines) == lines \in Seq({l \in LinesOut : l.kind = "EV" \/ l.mine = TRUE})

\* Every line under way belongs to the call in progress.
OnlyOwn ==
    /\ \A i \in DOMAIN inbox : inbox[i].mine = TRUE
    /\ left > 0 => upMine = TRUE
    /\ Owned(buf) /\ Owned(port)

\* A command is on its way alone, before anything is answered; what follows it is its data.
CommandFirst ==
    /\ \A i \in DOMAIN inbox : i > 1 => inbox[i].cmd = "data"
    /\ inbox # <<>> /\ inbox[1].cmd # "data" =>
        /\ inbox[1].cmd = job[1]
        /\ left = 0 /\ OnlyEvents(buf) /\ OnlyEvents(port)
        /\ IF job[1] = "write" THEN Len(inbox) - 1 + toSend = CHUNKS
           ELSE Len(inbox) = 1 /\ toSend = 0

\* The board waits for exactly the data that the client has still to send or has sent.
DataFits ==
    left > 0 =>
        /\ job[1] = "write" /\ ~ruined
        /\ Len(inbox) + toSend = left
        /\ inbox # <<>> => inbox[1].cmd = "data"

\* An OK is the last word on a call, and that on an upload is said when it is stored.
OkEndsCall ==
    /\ OkIsLast(buf) /\ OkIsLast(port)
    /\ ~NoOk(buf) => OnlyEvents(port)
    /\ ~NoOk(buf) \/ ~NoOk(port) =>
        /\ inbox = <<>> /\ left = 0 /\ toSend = 0
        /\ job[1] = "write" => stored

\* While a call is under way.
CallInv == OnlyOwn /\ CommandFirst /\ DataFits /\ OkEndsCall

\* Where the client can be with what: only a probe is tried again, and only an upload is not drained.
Phases ==
    /\ pc = "upload" <=> toSend > 0
    /\ tries > 0 => pc \in {"drain", "send", "await"} /\ job[1] = "version"
    /\ pc \in {"drain", "send"} => job[1] # "write"

InStep ==
    /\ pc \in {"upload", "await"} => CallInv
    /\ pc \in {"send", "ready"} => NothingOwed
    /\ Connected => answered.mine
    /\ pc = "ready" /\ answered.call = "write" => stored

LinkIInv == LinkTypeOK /\ Phases /\ (quiet => InStep)

-----------------------------------------------------------------------------
(* Lines.                                                                  *)

(***************************************************************************)
(* Disowning lines changes nothing else about them.                        *)
(***************************************************************************)
LEMMA DisownOut ==
    ASSUME NEW lines \in Seq(LinesOut)
    PROVE  /\ Disown(lines) \in Seq(LinesOut)
           /\ OnlyEvents(lines) => OnlyEvents(Disown(lines))
           /\ lines = <<>> => Disown(lines) = <<>>
  <1>1. DOMAIN Disown(lines) = 1 .. Len(lines) /\ DOMAIN lines = 1 .. Len(lines)
    BY DEF Disown
  <1>2. ASSUME NEW i \in 1 .. Len(lines)
        PROVE  Disown(lines)[i] \in LinesOut /\ Disown(lines)[i].kind = lines[i].kind
    <2>1. lines[i] \in LinesOut
      OBVIOUS
    <2>2. Disown(lines)[i] = [lines[i] EXCEPT !.mine = FALSE]
      BY <1>1 DEF Disown
    <2> QED
      BY <2>1, <2>2 DEF LinesOut
  <1>3. Disown(lines) \in [1 .. Len(lines) -> LinesOut]
    BY <1>1, <1>2 DEF Disown
  <1>4. Disown(lines) \in Seq(LinesOut) /\ Len(Disown(lines)) = Len(lines)
    BY <1>3
  <1> QED
    BY <1>1, <1>2, <1>4 DEF OnlyEvents

LEMMA DisownIn ==
    ASSUME NEW lines \in Seq(LinesIn)
    PROVE  Disown(lines) \in Seq(LinesIn) /\ Len(Disown(lines)) = Len(lines)
  <1>1. ASSUME NEW i \in 1 .. Len(lines)
        PROVE  [lines[i] EXCEPT !.mine = FALSE] \in LinesIn
    <2>1. lines[i] \in LinesIn
      OBVIOUS
    <2> QED
      BY <2>1 DEF LinesIn
  <1>2. Disown(lines) \in [1 .. Len(lines) -> LinesIn]
    BY <1>1 DEF Disown
  <1> QED
    BY <1>2

(***************************************************************************)
(* Lines that are all events, as a set of sequences.                       *)
(***************************************************************************)
LEMMA EventsOnly ==
    ASSUME NEW s \in Seq(LinesOut)
    PROVE  OnlyEvents(s) <=> s \in Seq({l \in LinesOut : l.kind = "EV"})
  <1> DEFINE E == {l \in LinesOut : l.kind = "EV"}
  <1>1. ASSUME OnlyEvents(s) PROVE s \in Seq(E)
    <2>1. \A i \in 1 .. Len(s) : s[i] \in E
      BY <1>1 DEF OnlyEvents
    <2> QED
      BY <2>1
  <1>2. ASSUME s \in Seq(E) PROVE OnlyEvents(s)
    <2>1. \A i \in 1 .. Len(s) : s[i] \in E
      BY <1>2
    <2> QED
      BY <2>1 DEF OnlyEvents
  <1> QED
    BY <1>1, <1>2

LEMMA EventsAreNoOk ==
    ASSUME NEW s \in Seq(LinesOut), OnlyEvents(s)
    PROVE  NoOk(s) /\ Owned(s) /\ OkIsLast(s)
  <1>1. s \in Seq({l \in LinesOut : l.kind = "EV"})
    BY EventsOnly
  <1>2. \A i \in 1 .. Len(s) : s[i] \in LinesOut /\ s[i].kind = "EV"
    BY <1>1
  <1>3. /\ \A i \in 1 .. Len(s) : s[i] \in {l \in LinesOut : l.kind # "ok"}
        /\ \A i \in 1 .. Len(s) : s[i] \in {l \in LinesOut : l.kind = "EV" \/ l.mine = TRUE}
    BY <1>2
  <1>4. NoOk(s) /\ Owned(s)
    BY <1>3 DEF NoOk, Owned
  <1> QED
    BY <1>2, <1>4 DEF OkIsLast

LEMMA NoOkMeans ==
    ASSUME NEW s \in Seq(LinesOut)
    PROVE  NoOk(s) <=> \A i \in 1 .. Len(s) : s[i].kind # "ok"
  <1> DEFINE N == {l \in LinesOut : l.kind # "ok"}
  <1>1. ASSUME NoOk(s) PROVE \A i \in 1 .. Len(s) : s[i].kind # "ok"
    <2>1. \A i \in 1 .. Len(s) : s[i] \in N
      BY <1>1 DEF NoOk
    <2> QED
      BY <2>1
  <1>2. ASSUME \A i \in 1 .. Len(s) : s[i].kind # "ok" PROVE NoOk(s)
    <2>1. \A i \in 1 .. Len(s) : s[i] \in N
      BY <1>2
    <2> QED
      BY <2>1 DEF NoOk
  <1> QED
    BY <1>1, <1>2

(***************************************************************************)
(* What is added to a port is behind what was there.                       *)
(***************************************************************************)
LEMMA Added ==
    ASSUME NEW s \in Seq(LinesOut), NEW t \in Seq(LinesOut)
    PROVE  /\ s \o t \in Seq(LinesOut)
           /\ OnlyEvents(s) /\ OnlyEvents(t) => OnlyEvents(s \o t)
           /\ Owned(s) /\ Owned(t) => Owned(s \o t)
           /\ NoOk(s) /\ NoOk(t) => NoOk(s \o t)
           /\ NoOk(s) /\ OkIsLast(t) => OkIsLast(s \o t)
           /\ OkIsLast(s) /\ OnlyEvents(t) => OkIsLast(s \o t)
  <1> DEFINE u == s \o t
  <1>1. /\ u \in Seq(LinesOut)
        /\ DOMAIN u = 1 .. Len(s) + Len(t) /\ DOMAIN s = 1 .. Len(s) /\ DOMAIN t = 1 .. Len(t)
        /\ Len(s) \in Nat /\ Len(t) \in Nat
    OBVIOUS
  <1>2. \A i \in 1 .. Len(s) + Len(t) : u[i] = IF i <= Len(s) THEN s[i] ELSE t[i - Len(s)]
    OBVIOUS
  <1>3. OnlyEvents(s) /\ OnlyEvents(t) => OnlyEvents(u)
    <2> SUFFICES ASSUME OnlyEvents(s), OnlyEvents(t) PROVE OnlyEvents(u)
      OBVIOUS
    <2>1. s \in Seq({l \in LinesOut : l.kind = "EV"}) /\ t \in Seq({l \in LinesOut : l.kind = "EV"})
      BY EventsOnly
    <2>2. u \in Seq({l \in LinesOut : l.kind = "EV"})
      BY <2>1
    <2> QED
      BY <1>1, <2>2, EventsOnly
  <1>4. Owned(s) /\ Owned(t) => Owned(u)
    BY DEF Owned
  <1>5. NoOk(s) /\ NoOk(t) => NoOk(u)
    BY DEF NoOk
  <1> HIDE DEF u
  <1>6. ASSUME NoOk(s), OkIsLast(t), NEW i \in DOMAIN u, NEW j \in DOMAIN u, u[i].kind = "ok", i < j
        PROVE  u[j].kind = "EV"
    <2>1. \A k \in 1 .. Len(s) : s[k].kind # "ok"
      BY <1>6, NoOkMeans
    <2>2. i > Len(s) /\ j > Len(s)
      BY <1>1, <1>2, <1>6, <2>1
    <2>3. /\ i - Len(s) \in DOMAIN t /\ j - Len(s) \in DOMAIN t
          /\ u[i] = t[i - Len(s)] /\ u[j] = t[j - Len(s)]
      BY <1>1, <1>2, <2>2
    <2> QED
      BY <1>1, <1>6, <2>3 DEF OkIsLast
  <1>7. ASSUME OkIsLast(s), OnlyEvents(t), NEW i \in DOMAIN u, NEW j \in DOMAIN u, u[i].kind = "ok", i < j
        PROVE  u[j].kind = "EV"
    <2>1. CASE j > Len(s)
      <3>1. j - Len(s) \in DOMAIN t /\ u[j] = t[j - Len(s)]
        BY <1>1, <1>2, <2>1
      <3> QED
        BY <3>1, <1>7 DEF OnlyEvents
    <2>2. CASE j <= Len(s)
      <3>1. i \in DOMAIN s /\ j \in DOMAIN s /\ u[j] = s[j] /\ u[i] = s[i]
        BY <1>1, <1>2, <1>7, <2>2
      <3> QED
        BY <3>1, <1>7 DEF OkIsLast
    <2> QED
      BY <1>1, <2>1, <2>2
  <1>8. /\ NoOk(s) /\ OkIsLast(t) => OkIsLast(u)
        /\ OkIsLast(s) /\ OnlyEvents(t) => OkIsLast(u)
    BY <1>6, <1>7 DEF OkIsLast
  <1> QED
    BY <1>1, <1>3, <1>4, <1>5, <1>8 DEF u

LEMMA Part ==
    ASSUME NEW s \in Seq(LinesOut), NEW m \in Nat \ {0}, NEW n \in Nat, n <= Len(s), m <= n + 1
    PROVE  LET p == SubSeq(s, m, n)
           IN  p \in Seq(LinesOut) /\ Len(p) = n - m + 1 /\ \A i \in 1 .. n - m + 1 : p[i] = s[i + m - 1]
  <1>1. \A i \in m .. n : s[i] \in LinesOut
    <2>1. Len(s) \in Nat /\ \A i \in 1 .. Len(s) : s[i] \in LinesOut
      OBVIOUS
    <2> QED
      BY <2>1
  <1>2. m \in Int /\ n \in Int
    OBVIOUS
  <1>3. /\ SubSeq(s, m, n) \in Seq(LinesOut)
        /\ Len(SubSeq(s, m, n)) = IF m <= n THEN n - m + 1 ELSE 0
        /\ \A i \in 1 .. n - m + 1 : SubSeq(s, m, n)[i] = s[m + i - 1]
    BY <1>1, <1>2, SubSeqProperties
  <1>4. (IF m <= n THEN n - m + 1 ELSE 0) = n - m + 1 /\ \A i \in 1 .. n - m + 1 : m + i - 1 = i + m - 1
    BY <1>2
  <1> QED
    BY <1>3, <1>4

(***************************************************************************)
(* In a later part t of the lines s, the OK is last too; and it is all     *)
(* events when it begins behind the OK.                                    *)
(***************************************************************************)
LEMMA LaterPart ==
    ASSUME NEW s \in Seq(LinesOut), NEW t \in Seq(LinesOut), NEW m \in Nat, OkIsLast(s),
           \A i \in 1 .. Len(t) : i + m \in 1 .. Len(s) /\ t[i] = s[i + m]
    PROVE  /\ OkIsLast(t)
           /\ \A h \in 1 .. Len(s) : s[h].kind = "ok" /\ h <= m => OnlyEvents(t)
  <1>1. DOMAIN s = 1 .. Len(s) /\ DOMAIN t = 1 .. Len(t) /\ Len(s) \in Nat /\ Len(t) \in Nat
    OBVIOUS
  <1>2. ASSUME NEW i \in 1 .. Len(t), NEW j \in 1 .. Len(t), t[i].kind = "ok", i < j
        PROVE  t[j].kind = "EV"
    <2>1. /\ i + m \in DOMAIN s /\ j + m \in DOMAIN s /\ i + m < j + m
          /\ s[i + m].kind = "ok" /\ s[j + m] = t[j]
      BY <1>1, <1>2
    <2> QED
      BY <2>1 DEF OkIsLast
  <1>3. ASSUME NEW h \in 1 .. Len(s), s[h].kind = "ok", h <= m, NEW j \in 1 .. Len(t)
        PROVE  t[j].kind = "EV"
    <2>1. h \in DOMAIN s /\ j + m \in DOMAIN s /\ h < j + m /\ s[j + m] = t[j]
      BY <1>1, <1>3
    <2> QED
      BY <1>3, <2>1 DEF OkIsLast
  <1> QED
    BY <1>1, <1>2, <1>3 DEF OkIsLast, OnlyEvents

(***************************************************************************)
(* Reading a line takes the first one off buffer and port, and what is     *)
(* known of the lines there is known of those left.                        *)
(***************************************************************************)
LEMMA ReadIn ==
    ASSUME NEW S, buf \in Seq(S), port \in Seq(S), NEW limited, NEW r \in ReadLine(limited)
    PROVE  r.line \in S /\ r.buf \in Seq(S) /\ r.port \in Seq(S)
  <1>1. CASE buf # <<>>
    <2>1. r = [line |-> Head(buf), buf |-> Tail(buf), port |-> port]
      BY <1>1 DEF ReadLine
    <2> QED
      BY <1>1, <2>1
  <1>2. CASE buf = <<>>
    <2>1. PICK k \in 1 .. Len(port) :
            r = [line |-> Head(port), buf |-> SubSeq(port, 2, k), port |-> SubSeq(port, k + 1, Len(port))]
      BY <1>2 DEF ReadLine
    <2>2. port # <<>> /\ Head(port) \in S
      BY <2>1
    <2>3. SubSeq(port, 2, k) \in Seq(S) /\ SubSeq(port, k + 1, Len(port)) \in Seq(S)
      BY <2>1
    <2> QED
      BY <2>1, <2>2, <2>3
  <1> QED
    BY <1>1, <1>2

LEMMA LineRead ==
    ASSUME buf \in Seq(LinesOut), port \in Seq(LinesOut), NEW limited, NEW r \in ReadLine(limited)
    PROVE  /\ r.line \in LinesOut /\ r.buf \in Seq(LinesOut) /\ r.port \in Seq(LinesOut)
           /\ Owned(buf) /\ Owned(port) =>
                (r.line.kind = "EV" \/ r.line.mine = TRUE) /\ Owned(r.buf) /\ Owned(r.port)
           /\ OnlyEvents(buf) /\ OnlyEvents(port) =>
                r.line.kind = "EV" /\ OnlyEvents(r.buf) /\ OnlyEvents(r.port)
           /\ OkIsLast(buf) /\ OkIsLast(port) /\ (~NoOk(buf) => OnlyEvents(port)) =>
                /\ OkIsLast(r.buf) /\ OkIsLast(r.port) /\ (~NoOk(r.buf) => OnlyEvents(r.port))
                /\ r.line.kind = "ok" => OnlyEvents(r.buf) /\ OnlyEvents(r.port)
           /\ r.line.kind = "ok" \/ ~NoOk(r.buf) \/ ~NoOk(r.port) => ~NoOk(buf) \/ ~NoOk(port)
  <1>1. r.line \in LinesOut /\ r.buf \in Seq(LinesOut) /\ r.port \in Seq(LinesOut)
    BY ReadIn
  <1>2. Owned(buf) /\ Owned(port) =>
          (r.line.kind = "EV" \/ r.line.mine = TRUE) /\ Owned(r.buf) /\ Owned(r.port)
    BY ReadIn DEF Owned
  <1>3. OnlyEvents(buf) /\ OnlyEvents(port) =>
          r.line.kind = "EV" /\ OnlyEvents(r.buf) /\ OnlyEvents(r.port)
    <2> SUFFICES ASSUME OnlyEvents(buf), OnlyEvents(port)
                 PROVE  r.line.kind = "EV" /\ OnlyEvents(r.buf) /\ OnlyEvents(r.port)
      OBVIOUS
    <2> DEFINE E == {l \in LinesOut : l.kind = "EV"}
    <2>1. buf \in Seq(E) /\ port \in Seq(E)
      BY EventsOnly
    <2>2. r.line \in E /\ r.buf \in Seq(E) /\ r.port \in Seq(E)
      <3> HIDE DEF E
      <3> QED
        BY <2>1, ReadIn
    <2> QED
      BY <1>1, <2>2, EventsOnly
  <1>4. r.line.kind = "ok" \/ ~NoOk(r.buf) \/ ~NoOk(r.port) => ~NoOk(buf) \/ ~NoOk(port)
    BY ReadIn DEF NoOk
  <1>5. ASSUME OkIsLast(buf), OkIsLast(port), ~NoOk(buf) => OnlyEvents(port)
        PROVE  /\ OkIsLast(r.buf) /\ OkIsLast(r.port) /\ (~NoOk(r.buf) => OnlyEvents(r.port))
               /\ r.line.kind = "ok" => OnlyEvents(r.buf) /\ OnlyEvents(r.port)
    <2>1. CASE buf # <<>>
      <3> DEFINE n == Len(buf)
                 rest == Tail(buf)
      <3>1. r = [line |-> Head(buf), buf |-> rest, port |-> port]
        BY <2>1 DEF ReadLine
      <3>2. /\ n \in Nat /\ n > 0 /\ DOMAIN buf = 1 .. n
            /\ rest \in Seq(LinesOut) /\ DOMAIN rest = 1 .. n - 1 /\ Len(rest) = n - 1
            /\ \A i \in 1 .. n - 1 : rest[i] = buf[i + 1]
        BY <2>1
      <3>3. r.line = buf[1] /\ r.buf = rest /\ r.port = port
        BY <3>1
      <3> HIDE DEF n, rest
      <3>4. /\ OkIsLast(rest)
            /\ \A h \in 1 .. Len(buf) : buf[h].kind = "ok" /\ h <= 1 => OnlyEvents(rest)
        <4>1. \A i \in 1 .. Len(rest) : i + 1 \in 1 .. Len(buf) /\ rest[i] = buf[i + 1]
          BY <3>2 DEF n
        <4> QED
          BY <4>1, <1>5, <3>2, LaterPart
      <3>5. r.line.kind = "ok" => OnlyEvents(rest)
        BY <3>2, <3>3, <3>4 DEF n
      <3>6. r.line.kind = "ok" \/ ~NoOk(rest) => ~NoOk(buf)
        <4>1. ASSUME NoOk(buf) PROVE r.line.kind # "ok" /\ NoOk(rest)
          BY <4>1, <2>1, <3>3 DEF NoOk, rest
        <4> QED
          BY <4>1
      <3> QED
        BY <1>5, <3>3, <3>4, <3>5, <3>6
    <2>2. CASE buf = <<>>
      <3>1. PICK k \in 1 .. Len(port) :
              r = [line |-> Head(port), buf |-> SubSeq(port, 2, k), port |-> SubSeq(port, k + 1, Len(port))]
        BY <2>2 DEF ReadLine
      <3> DEFINE n == Len(port)
                 a == SubSeq(port, 2, k)
                 b == SubSeq(port, k + 1, Len(port))
      <3>2. n \in Nat /\ k \in 1 .. n /\ DOMAIN port = 1 .. n
        OBVIOUS
      <3>3. a \in Seq(LinesOut) /\ Len(a) = k - 1 /\ \A i \in 1 .. k - 1 : a[i] = port[i + 1]
        <4>1. 2 \in Nat \ {0} /\ k \in Nat /\ k <= Len(port) /\ 2 <= k + 1
          BY <3>2
        <4> QED
          BY <4>1, Part
      <3>4. b \in Seq(LinesOut) /\ Len(b) = n - k /\ \A i \in 1 .. n - k : b[i] = port[i + k]
        <4>1. k + 1 \in Nat \ {0} /\ n \in Nat /\ n <= Len(port) /\ k + 1 <= n + 1
          BY <3>2
        <4> HIDE DEF n
        <4>2. /\ b \in Seq(LinesOut) /\ Len(b) = n - (k + 1) + 1
              /\ \A i \in 1 .. n - (k + 1) + 1 : b[i] = port[i + (k + 1) - 1]
          BY <4>1, Part DEF n
        <4> HIDE DEF b
        <4> QED
          BY <4>2, <3>2
      <3>5. r.line = port[1] /\ r.buf = a /\ r.port = b
        BY <3>1, <3>2
      <3> HIDE DEF n, a, b
      <3>6. /\ OkIsLast(a)
            /\ \A h \in 1 .. Len(port) : port[h].kind = "ok" /\ h <= 1 => OnlyEvents(a)
        <4>1. \A i \in 1 .. Len(a) : i + 1 \in 1 .. Len(port) /\ a[i] = port[i + 1]
          BY <3>2, <3>3 DEF n
        <4> QED
          BY <4>1, <1>5, <3>3, LaterPart
      <3>7. /\ OkIsLast(b)
            /\ \A h \in 1 .. Len(port) : port[h].kind = "ok" /\ h <= k => OnlyEvents(b)
        <4>1. \A i \in 1 .. Len(b) : i + k \in 1 .. Len(port) /\ b[i] = port[i + k]
          BY <3>2, <3>4 DEF n
        <4>2. k \in Nat /\ b \in Seq(LinesOut)
          BY <3>2, <3>4
        <4> QED
          BY <4>1, <4>2, <1>5, LaterPart
      <3>8. r.line.kind = "ok" => OnlyEvents(a) /\ OnlyEvents(b)
        BY <3>2, <3>5, <3>6, <3>7 DEF n
      <3>9. ASSUME ~NoOk(a) PROVE OnlyEvents(b)
        <4>1. PICK i \in 1 .. k - 1 : a[i].kind = "ok"
          BY <3>3, <3>9, NoOkMeans
        <4>2. i + 1 \in 1 .. Len(port) /\ port[i + 1].kind = "ok" /\ i + 1 <= k
          BY <4>1, <3>2, <3>3 DEF n
        <4> QED
          BY <3>7, <4>2
      <3> QED
        BY <3>5, <3>6, <3>7, <3>8, <3>9
    <2> QED
      BY <2>1, <2>2
  <1> QED
    BY <1>1, <1>2, <1>3, <1>4, <1>5

(***************************************************************************)
(* A board's answer, one line or a text with its last line.                *)
(***************************************************************************)
LEMMA OneLine ==
    ASSUME NEW l \in LinesOut
    PROVE  /\ <<l>> \in Seq(LinesOut) /\ OkIsLast(<<l>>)
           /\ l.mine = TRUE => Owned(<<l>>)
           /\ l.kind # "ok" => NoOk(<<l>>)
           /\ l.kind = "EV" => OnlyEvents(<<l>>)
  <1>1. /\ <<l>> \in Seq(LinesOut) /\ DOMAIN <<l>> = {1} /\ <<l>>[1] = l
        /\ \A S : l \in S => <<l>> \in Seq(S)
    OBVIOUS
  <1>2. OkIsLast(<<l>>) /\ (l.kind = "EV" => OnlyEvents(<<l>>))
    BY <1>1 DEF OkIsLast, OnlyEvents
  <1>3. /\ l.mine = TRUE => Owned(<<l>>)
        /\ l.kind # "ok" => NoOk(<<l>>)
    BY <1>1 DEF Owned, NoOk
  <1> QED
    BY <1>1, <1>2, <1>3

LEMMA LineType ==
    ASSUME NEW k \in {"EV", "body", "ok", "err"}, NEW c \in Calls \cup {"data", "none"}, NEW m \in BOOLEAN
    PROVE  /\ Line(k, c, m) \in LinesOut
           /\ Line(k, c, m).kind = k /\ Line(k, c, m).mine = m
  BY DEF Line, LinesOut

LEMMA Text ==
    ASSUME NEW ok \in LinesOut, NEW b \in LinesOut, NEW n \in Nat, b.kind = "body"
    PROVE  LET t == Append([i \in 1 .. n |-> b], ok)
           IN  /\ t \in Seq(LinesOut) /\ OkIsLast(t)
               /\ ok.mine = TRUE /\ b.mine = TRUE => Owned(t)
  <1> DEFINE x == [i \in 1 .. n |-> b]
             t == Append(x, ok)
  <1>1. \A S : b \in S => x \in Seq(S)
    OBVIOUS
  <1>2. t \in Seq(LinesOut) /\ (ok.mine = TRUE /\ b.mine = TRUE => Owned(t))
    BY <1>1 DEF Owned
  <1>3. NoOk(x) /\ x \in Seq(LinesOut)
    BY <1>1 DEF NoOk
  <1>4. t = x \o <<ok>>
    BY <1>3
  <1> HIDE DEF x, t
  <1>5. OkIsLast(t)
    BY <1>3, <1>4, OneLine, Added
  <1> QED
    BY <1>2, <1>5 DEF x, t

-----------------------------------------------------------------------------
(* Types, and where the client can be with what.                           *)

LEMMA Bounds == CHUNKS \in Nat /\ CHUNKS > 0 /\ BODY \in Nat
  BY LinkAssumption

LEMMA BoardTypes ==
    ASSUME LinkTypeOK, Handle \/ BoardTimeout \/ Emit
    PROVE  LinkTypeOK' /\ UNCHANGED <<clientVars, quiet>>
  <1>1. \A k \in {"EV", "body", "ok", "err"}, c \in Calls \cup {"data", "none"}, m \in BOOLEAN :
           <<Line(k, c, m)>> \in Seq(LinesOut)
    BY LineType, OneLine
  <1>2. "write" \in Calls /\ upMine \in BOOLEAN /\ port \in Seq(LinesOut)
    BY DEF LinkTypeOK, Calls
  <1>0. \A t \in Seq(LinesOut) : Answer(t) => port' \in Seq(LinesOut)
    BY <1>2, Added DEF Answer
  <1>3. CASE Handle
    <2>1. /\ inbox # <<>> /\ Head(inbox) \in LinesIn /\ inbox' = Tail(inbox) /\ inbox' \in Seq(LinesIn)
          /\ UNCHANGED <<clientVars, quiet>>
      BY <1>3 DEF Handle, LinkTypeOK
    <2>2. Head(inbox).cmd \in Calls \cup {"data"} /\ Head(inbox).mine \in BOOLEAN
      BY <2>1 DEF LinesIn
    <2>3. /\ port' \in Seq(LinesOut) /\ left' \in 0 .. CHUNKS
          /\ ruined' \in BOOLEAN /\ upMine' \in BOOLEAN /\ eventsOn' \in BOOLEAN /\ stored' \in BOOLEAN
      <3>1. CASE left > 0
        <4>1. HandleUploadLine(Head(inbox))
          BY <1>3, <3>1 DEF Handle
        <4>2. port' \in Seq(LinesOut)
          BY <4>1, <1>1, <1>2, <1>0 DEF HandleUploadLine
        <4>3. /\ left' \in {left, left - 1, 0} /\ ruined' \in BOOLEAN
              /\ upMine' = upMine /\ eventsOn' = eventsOn /\ stored' \in BOOLEAN
          BY <4>1 DEF HandleUploadLine, EndUpload, LinkTypeOK
        <4> QED
          BY <3>1, <4>2, <4>3, Bounds DEF LinkTypeOK
      <3>2. CASE ~(left > 0)
        <4>1. HandleCommand(Head(inbox))
          BY <1>3, <3>2 DEF Handle
        <4> DEFINE ok == Line("ok", Head(inbox).cmd, Head(inbox).mine)
                   b == Line("body", Head(inbox).cmd, Head(inbox).mine)
                   text == [i \in 1 .. BODY |-> b]
        <4>2. Append(text, ok) \in Seq(LinesOut)
          <5>1. ok \in LinesOut /\ b \in LinesOut
            BY <2>2, LineType
          <5> HIDE DEF ok, b
          <5> QED
            BY <5>1, Bounds
        <4> HIDE DEF ok, b
        <4>3. port' \in Seq(LinesOut)
          <5>1. \/ UNCHANGED port
                \/ Answer(<<ok>>) \/ Answer(<<Line("err", Head(inbox).cmd, Head(inbox).mine)>>)
                \/ Answer(Append(text, ok))
            BY <4>1 DEF HandleCommand, ok, b
          <5>2. <<ok>> \in Seq(LinesOut) /\ <<Line("err", Head(inbox).cmd, Head(inbox).mine)>> \in Seq(LinesOut)
            BY <1>1, <2>2 DEF ok
          <5> HIDE DEF text
          <5> QED
            BY <1>2, <1>0, <4>2, <5>1, <5>2
        <4>4. left' = left \/ left' = CHUNKS
          BY <4>1 DEF HandleCommand, boardVars
        <4>5. upMine' \in BOOLEAN /\ ruined' \in BOOLEAN
          BY <2>2, <4>1 DEF HandleCommand, boardVars, LinkTypeOK
        <4>6. eventsOn' \in BOOLEAN /\ stored' \in BOOLEAN
          BY <4>1 DEF HandleCommand, boardVars, LinkTypeOK
        <4>7. left \in 0 .. CHUNKS
          BY DEF LinkTypeOK
        <4> QED
          BY <4>3, <4>4, <4>5, <4>6, <4>7, Bounds
      <3> QED
        BY <3>1, <3>2
    <2> QED
      BY <2>1, <2>3 DEF LinkTypeOK, clientVars
  <1>4. CASE BoardTimeout
    <2>1. port' \in Seq(LinesOut)
      BY <1>4, <1>1, <1>2, <1>0 DEF BoardTimeout
    <2>2. left' = 0 /\ ruined' = FALSE /\ UNCHANGED <<clientVars, inbox, upMine, stored, quiet, eventsOn>>
      BY <1>4 DEF BoardTimeout, EndUpload
    <2>3. left' \in 0 .. CHUNKS
      BY <2>2, Bounds
    <2> QED
      BY <2>1, <2>2, <2>3 DEF LinkTypeOK, clientVars
  <1>5. CASE Emit
    <2>1. port' \in Seq(LinesOut)
      BY <1>5, <1>1, <1>0 DEF Emit, Event
    <2> QED
      BY <1>5, <2>1 DEF Emit, LinkTypeOK, clientVars, boardVars
  <1> QED
    BY <1>3, <1>4, <1>5

(***************************************************************************)
(* A process that is not connected or has failed.                          *)
(***************************************************************************)
LEMMA Empty == <<>> \in Seq(Calls) /\ <<>> \in Seq(LinesOut)
  OBVIOUS

LEMMA Left ==
    ASSUME LinkTypeOK, Leave, UNCHANGED <<boardVars, inbox, port>>
    PROVE  LinkTypeOK' /\ Phases' /\ ~quiet'
  <1>1. /\ pc' = "closed" /\ job' = <<>> /\ tries' = 0 /\ toSend' = 0
        /\ buf' = <<>> /\ body' = 0 /\ late' = FALSE /\ answered' = NoCall /\ quiet' = FALSE
    BY DEF Leave
  <1>2. answered' \in [call : Calls \cup {"none"}, mine : BOOLEAN]
    BY <1>1 DEF NoCall
  <1>3. tries' \in 0 .. 2 /\ toSend' \in 0 .. CHUNKS /\ job' \in Seq(Calls) /\ buf' \in Seq(LinesOut)
    BY <1>1, Bounds, Empty
  <1>4. LinkTypeOK'
    BY <1>1, <1>2, <1>3 DEF LinkTypeOK, boardVars
  <1> QED
    BY <1>1, <1>4 DEF Phases

LEMMA Failed ==
    ASSUME LinkTypeOK, Phases, pc = "await", Fail, UNCHANGED <<boardVars, inbox>>, port' \in Seq(LinesOut)
    PROVE  LinkTypeOK' /\ Phases' /\ ~quiet'
  <1>1. CASE tries > 1
    <2>1. /\ pc' = "drain" /\ tries' = tries - 1
          /\ buf' = <<>> /\ body' = 0 /\ late' = FALSE /\ quiet' = FALSE
          /\ UNCHANGED <<job, toSend, answered, inbox, left, ruined, upMine, eventsOn, stored>>
      BY <1>1 DEF Fail, boardVars
    <2>2. tries' \in 0 .. 2 /\ tries > 0 /\ buf' \in Seq(LinesOut) /\ body' \in Nat
      BY <1>1, <2>1, Empty DEF LinkTypeOK
    <2>3. LinkTypeOK'
      BY <2>1, <2>2 DEF LinkTypeOK
    <2> QED
      BY <2>1, <2>2, <2>3 DEF Phases, LinkTypeOK
  <1>2. CASE ~(tries > 1)
    <2>1. Leave
      BY <1>2 DEF Fail
    <2>2. /\ pc' = "closed" /\ job' = <<>> /\ tries' = 0 /\ toSend' = 0
          /\ buf' = <<>> /\ body' = 0 /\ late' = FALSE /\ answered' = NoCall /\ quiet' = FALSE
      BY <2>1 DEF Leave
    <2>3. answered' \in [call : Calls \cup {"none"}, mine : BOOLEAN]
      BY <2>2 DEF NoCall
    <2>4. tries' \in 0 .. 2 /\ toSend' \in 0 .. CHUNKS /\ job' \in Seq(Calls) /\ buf' \in Seq(LinesOut)
      BY <2>2, Bounds, Empty
    <2>5. LinkTypeOK'
      BY <2>2, <2>3, <2>4 DEF LinkTypeOK, boardVars
    <2> QED
      BY <2>2, <2>5 DEF Phases
  <1> QED
    BY <1>1, <1>2

(***************************************************************************)
(* A new call keeps the types, and disowns what is under way.              *)
(***************************************************************************)
LEMMA CallBegun ==
    ASSUME LinkTypeOK, NEW cmd \in Calls, BeginCall(cmd)
    PROVE  /\ inbox' \in Seq(LinesIn) /\ port' \in Seq(LinesOut) /\ buf' \in Seq(LinesOut)
           /\ inbox = <<>> => Len(inbox') = 1 /\ inbox'[1] = Command(cmd)
           /\ OnlyEvents(port) => OnlyEvents(port')
           /\ OnlyEvents(buf) => OnlyEvents(buf')
  <1>1. /\ inbox' = Append(Disown(inbox), Command(cmd))
        /\ port' = Disown(port) /\ buf' = Disown(buf)
    BY DEF BeginCall
  <1>2. buf \in Seq(LinesOut) /\ port \in Seq(LinesOut) /\ inbox \in Seq(LinesIn)
    BY DEF LinkTypeOK
  <1>3. Disown(inbox) \in Seq(LinesIn) /\ Len(Disown(inbox)) = Len(inbox) /\ Command(cmd) \in LinesIn
    BY <1>2, DisownIn DEF Command, LinesIn
  <1>4. /\ inbox' \in Seq(LinesIn)
        /\ inbox = <<>> => Len(inbox') = 1 /\ inbox'[1] = Command(cmd)
    <2> DEFINE d == Disown(inbox)
               c == Command(cmd)
    <2>1. d \in Seq(LinesIn) /\ Len(d) = Len(inbox) /\ c \in LinesIn /\ inbox' = Append(d, c)
      BY <1>1, <1>3
    <2> HIDE DEF d, c
    <2>2. /\ inbox' \in Seq(LinesIn)
          /\ inbox = <<>> => Len(inbox') = 1 /\ inbox'[1] = c
      BY <2>1
    <2> QED
      BY <2>2 DEF c
  <1> QED
    BY <1>1, <1>2, <1>4, DisownOut

(***************************************************************************)
(* Every variable keeps its type, and the client's state fits where it is. *)
(***************************************************************************)
LEMMA ClientTypes ==
    ASSUME LinkTypeOK, Phases,
           \/ \E p \in Programs, n \in {1, 2} : Open(p, n)
           \/ ClientStep \/ Watch \/ StopWatching \/ Interrupt \/ Die
    PROVE  LinkTypeOK' /\ Phases'
  <1>1. ASSUME NEW p \in Programs, NEW n \in {1, 2}, Open(p, n) PROVE LinkTypeOK' /\ Phases'
    <2>1. p \in Seq(Calls) /\ "version" \in Calls
      BY LinkAssumption DEF Calls
    <2>2. <<"version">> \o p \in Seq(Calls) /\ <<"version">> \o p # <<>> /\ (<<"version">> \o p)[1] = "version"
      BY <2>1
    <2>3. /\ pc = "closed" /\ job' = <<"version">> \o p /\ tries' = n /\ pc' = "drain"
          /\ UNCHANGED <<boardVars, toSend, buf, body, late, answered, inbox, port, quiet>>
      BY <1>1 DEF Open
    <2>4. LinkTypeOK'
      BY <2>2, <2>3 DEF LinkTypeOK, boardVars
    <2> QED
      BY <2>2, <2>3, <2>4 DEF Phases
  <1>2. CASE Drain
    <2>1. /\ pc = "drain" /\ pc' = "send" /\ buf' = <<>> /\ port' = <<>> /\ quiet' \in BOOLEAN
          /\ UNCHANGED <<boardVars, job, tries, toSend, body, late, answered, inbox>>
      BY <1>2 DEF Drain
    <2>2. LinkTypeOK'
      BY <2>1 DEF LinkTypeOK, boardVars
    <2> QED
      BY <2>1, <2>2 DEF Phases
  <1>3. CASE Send \/ WriteBlob
    <2>1. PICK cmd \in Calls : BeginCall(cmd) /\ cmd = Head(job) /\ job # <<>>
      <3>1. pc \in {"send", "ready"} /\ job # <<>> /\ BeginCall(Head(job))
        BY <1>3 DEF Send, WriteBlob, LinkTypeOK
      <3>2. Head(job) \in Calls
        BY <3>1 DEF LinkTypeOK
      <3> QED
        BY <3>1, <3>2
    <2>2. inbox' \in Seq(LinesIn) /\ port' \in Seq(LinesOut) /\ buf' \in Seq(LinesOut)
      BY <2>1, CallBegun
    <2>3. /\ upMine' = FALSE /\ stored' = FALSE /\ body' = 0 /\ late' = FALSE
          /\ UNCHANGED <<job, tries, answered, left, ruined, eventsOn, quiet>>
      BY <2>1 DEF BeginCall
    <2>4. \/ pc = "send" /\ pc' = "await" /\ toSend' = toSend
          \/ pc = "ready" /\ pc' = "upload" /\ toSend' = CHUNKS
      BY <1>3 DEF Send, WriteBlob
    <2>5. toSend' \in 0 .. CHUNKS
      BY <2>4, Bounds DEF LinkTypeOK
    <2>6. LinkTypeOK'
      BY <2>1, <2>2, <2>3, <2>4, <2>5 DEF LinkTypeOK
    <2> QED
      BY <2>3, <2>4, <2>6, Bounds DEF Phases
  <1>4. CASE SendData
    <2>1. /\ pc = "upload" /\ inbox' = Append(inbox, Command("data")) /\ toSend' = toSend - 1
          /\ pc' = IF toSend = 1 THEN "await" ELSE "upload"
          /\ UNCHANGED <<boardVars, job, tries, buf, body, late, answered, port, quiet>>
      BY <1>4 DEF SendData
    <2>2. inbox' \in Seq(LinesIn)
      <3>1. Command("data") \in LinesIn
        BY DEF Command, LinesIn
      <3> QED
        BY <2>1, <3>1 DEF LinkTypeOK
    <2>3. toSend \in Nat /\ toSend > 0 /\ toSend' \in 0 .. CHUNKS /\ pc' \in {"upload", "await"}
          /\ (pc' = "upload" <=> toSend' > 0)
      BY <2>1, Bounds DEF LinkTypeOK, Phases
    <2>4. LinkTypeOK'
      BY <2>1, <2>2, <2>3 DEF LinkTypeOK, boardVars
    <2> QED
      BY <2>1, <2>3, <2>4 DEF Phases
  <1>5. CASE ReadResponse
    <2>1. PICK r \in ReadLine(TRUE) :
            /\ port' = r.port
            /\ IF Terminates(r.line) /\ Accepts(Head(job), r.line)
               THEN /\ pc' = IF Head(job) = "events on" THEN "watch" ELSE "ready"
                    /\ answered' = [call |-> Head(job), mine |-> r.line.mine]
                    /\ job' = Tail(job) /\ tries' = 0
                    /\ buf' = r.buf /\ body' = 0 /\ late' = FALSE
                    /\ UNCHANGED <<toSend, quiet>>
               ELSE IF Terminates(r.line) \/ r.line.kind = "err" THEN Fail
               ELSE /\ body' = IF r.line.kind = "body" THEN body + 1 ELSE body
                    /\ buf' = r.buf
                    /\ UNCHANGED <<pc, job, tries, toSend, late, answered, quiet>>
      BY <1>5 DEF ReadResponse
    <2>2. pc = "await" /\ UNCHANGED <<boardVars, inbox>>
      BY <1>5 DEF ReadResponse
    <2>3. buf \in Seq(LinesOut) /\ port \in Seq(LinesOut) /\ job \in Seq(Calls) /\ job # <<>>
      BY <2>2 DEF LinkTypeOK
    <2>4. r.line \in LinesOut /\ r.buf \in Seq(LinesOut) /\ r.port \in Seq(LinesOut)
      BY <2>3, LineRead
    <2>5. Head(job) \in Calls /\ Tail(job) \in Seq(Calls) /\ r.line.mine \in BOOLEAN
      BY <2>3, <2>4 DEF LinesOut
    <2>6. CASE Terminates(r.line) /\ Accepts(Head(job), r.line)
      <3>1. /\ pc' \in {"watch", "ready"} /\ answered' = [call |-> Head(job), mine |-> r.line.mine]
            /\ job' = Tail(job) /\ tries' = 0
            /\ buf' = r.buf /\ body' = 0 /\ late' = FALSE /\ port' = r.port
            /\ UNCHANGED <<toSend, quiet>>
        BY <2>1, <2>6
      <3>2. answered' \in [call : Calls \cup {"none"}, mine : BOOLEAN]
        BY <2>5, <3>1
      <3>3. LinkTypeOK'
        <4>1. /\ job' \in Seq(Calls) /\ buf' \in Seq(LinesOut) /\ port' \in Seq(LinesOut)
              /\ tries' = 0 /\ body' = 0 /\ late' = FALSE
          BY <2>4, <2>5, <3>1
        <4>2. /\ toSend' = toSend /\ quiet' = quiet /\ inbox' = inbox
              /\ left' = left /\ ruined' = ruined /\ upMine' = upMine
              /\ eventsOn' = eventsOn /\ stored' = stored
          BY <2>2, <3>1 DEF boardVars
        <4>3. /\ pc' \in {"closed", "drain", "send", "upload", "await", "ready", "watch"}
              /\ pc' \notin {"drain", "send", "upload", "await"}
          BY <3>1
        <4>4. tries' \in 0 .. 2 /\ body' \in Nat
          BY <4>1
        <4>6. late' \in BOOLEAN
          BY <4>1
        <4>5. /\ toSend' \in 0 .. CHUNKS /\ inbox' \in Seq(LinesIn) /\ left' \in 0 .. CHUNKS
              /\ quiet' \in BOOLEAN /\ ruined' \in BOOLEAN /\ upMine' \in BOOLEAN
              /\ eventsOn' \in BOOLEAN /\ stored' \in BOOLEAN
          BY <4>2 DEF LinkTypeOK
        <4> QED
          BY <3>2, <4>1, <4>3, <4>4, <4>5, <4>6 DEF LinkTypeOK
      <3> QED
        BY <2>2, <3>1, <3>3 DEF Phases
    <2>7. CASE ~(Terminates(r.line) /\ Accepts(Head(job), r.line)) /\ (Terminates(r.line) \/ r.line.kind = "err")
      BY <2>1, <2>2, <2>4, <2>7, Failed
    <2>8. CASE ~(Terminates(r.line) /\ Accepts(Head(job), r.line)) /\ ~(Terminates(r.line) \/ r.line.kind = "err")
      <3>1. /\ body' = IF r.line.kind = "body" THEN body + 1 ELSE body
            /\ buf' = r.buf /\ port' = r.port
            /\ UNCHANGED <<pc, job, tries, toSend, late, answered, quiet>>
        BY <2>1, <2>8
      <3>2. body' \in Nat /\ buf' \in Seq(LinesOut) /\ port' \in Seq(LinesOut)
        BY <2>4, <3>1 DEF LinkTypeOK
      <3>3. LinkTypeOK'
        <4>1. /\ pc' = pc /\ job' = job /\ tries' = tries /\ toSend' = toSend
              /\ late' = late /\ answered' = answered /\ quiet' = quiet /\ inbox' = inbox
              /\ left' = left /\ ruined' = ruined /\ upMine' = upMine
              /\ eventsOn' = eventsOn /\ stored' = stored
          BY <2>2, <3>1 DEF boardVars
        <4> QED
          BY <3>2, <4>1 DEF LinkTypeOK
      <3> QED
        BY <3>1, <3>3 DEF Phases
    <2> QED
      BY <2>6, <2>7, <2>8
  <1>6. CASE Deadline
    <2>1. LinkTypeOK'
      BY <1>6 DEF Deadline, LinkTypeOK, boardVars
    <2> QED
      BY <1>6, <2>1 DEF Deadline, Phases
  <1>7. CASE Timeout
    <2>1. pc = "await" /\ Fail /\ UNCHANGED <<boardVars, inbox>> /\ port' = port
      BY <1>7 DEF Timeout
    <2>2. port' \in Seq(LinesOut)
      BY <2>1 DEF LinkTypeOK
    <2> QED
      BY <2>1, <2>2, Failed
  <1>8. CASE NextCall
    <2>1. LinkTypeOK'
      BY <1>8 DEF NextCall, LinkTypeOK, boardVars
    <2>2. Head(job) = job[1]
      BY DEF LinkTypeOK
    <2> QED
      BY <1>8, <2>1, <2>2 DEF NextCall, Phases
  <1>9. CASE Close \/ Interrupt \/ Die
    BY <1>9, Left DEF Close, Interrupt, Die
  <1>10. CASE Watch
    <2>1. PICK r \in ReadLine(FALSE) : buf' = r.buf /\ port' = r.port
      BY <1>10 DEF Watch
    <2>2. buf \in Seq(LinesOut) /\ port \in Seq(LinesOut)
      BY DEF LinkTypeOK
    <2>3. r.buf \in Seq(LinesOut) /\ r.port \in Seq(LinesOut)
      BY <2>2, LineRead
    <2>4. LinkTypeOK'
      BY <1>10, <2>1, <2>3 DEF Watch, LinkTypeOK, boardVars
    <2> QED
      BY <1>10, <2>4 DEF Watch, Phases
  <1>11. CASE StopWatching
    <2>1. /\ pc = "watch" /\ job' = <<"events off">> /\ pc' = "drain"
          /\ UNCHANGED <<tries, toSend, buf, body, late, answered, inbox, port, boardVars, quiet>>
      BY <1>11 DEF StopWatching
    <2>2. job' \in Seq(Calls) /\ job' # <<>> /\ job'[1] = "events off"
      <3>1. "events off" \in Calls
        BY DEF Calls
      <3>2. \A c \in Calls : <<c>> \in Seq(Calls) /\ <<c>> # <<>> /\ <<c>>[1] = c
        OBVIOUS
      <3> QED
        BY <2>1, <3>1, <3>2
    <2>3. LinkTypeOK'
      BY <2>1, <2>2 DEF LinkTypeOK, boardVars
    <2> QED
      BY <2>1, <2>2, <2>3 DEF Phases
  <1> QED
    BY <1>1, <1>2, <1>3, <1>4, <1>5, <1>6, <1>7, <1>8, <1>9, <1>10, <1>11 DEF ClientStep

(***************************************************************************)
(* The first two parts of the invariant need nothing of the third.         *)
(***************************************************************************)
LEMMA TypesNext ==
    ASSUME LinkTypeOK, Phases, [LinkNext]_linkVars
    PROVE  LinkTypeOK' /\ Phases'
  <1>1. CASE Handle \/ BoardTimeout \/ Emit
    <2>1. LinkTypeOK' /\ UNCHANGED <<clientVars, quiet>>
      BY <1>1, BoardTypes
    <2> QED
      BY <2>1 DEF Phases, clientVars
  <1>2. CASE Forget
    <2>1. port' \in Seq(LinesOut) /\ UNCHANGED <<clientVars, boardVars, inbox, quiet>>
      BY <1>2, Empty DEF Forget
    <2>2. LinkTypeOK'
      BY <2>1 DEF LinkTypeOK, clientVars, boardVars
    <2> QED
      BY <2>1, <2>2 DEF Phases, clientVars
  <1>3. CASE \/ \E p \in Programs, n \in {1, 2} : Open(p, n)
             \/ ClientStep \/ Watch \/ StopWatching \/ Interrupt \/ Die
    BY <1>3, ClientTypes
  <1>4. CASE UNCHANGED linkVars
    <2>1. LinkTypeOK'
      BY <1>4 DEF linkVars, clientVars, boardVars, LinkTypeOK
    <2> QED
      BY <1>4, <2>1 DEF linkVars, clientVars, boardVars, Phases
  <1> QED
    BY <1>1, <1>2, <1>3, <1>4 DEF LinkNext

-----------------------------------------------------------------------------
(* A call in step with the board.                                          *)

(***************************************************************************)
(* The board handles a line of the call.                                   *)
(***************************************************************************)
LEMMA HandleInCall ==
    ASSUME LinkTypeOK, CallInv, Handle
    PROVE  CallInv'
  <1>1. /\ inbox # <<>> /\ inbox' = Tail(inbox) /\ UNCHANGED <<job, toSend, buf>>
        /\ inbox \in Seq(LinesIn) /\ buf \in Seq(LinesOut) /\ port \in Seq(LinesOut)
        /\ left \in Nat /\ toSend \in Nat
    BY Bounds DEF Handle, LinkTypeOK, clientVars
  <1> DEFINE n == Len(inbox)
             line == Head(inbox)
  <1>2. /\ n \in Nat /\ n > 0 /\ DOMAIN inbox = 1 .. n /\ line = inbox[1] /\ line \in LinesIn
        /\ inbox' \in Seq(LinesIn) /\ DOMAIN inbox' = 1 .. n - 1 /\ Len(inbox') = n - 1
        /\ \A i \in 1 .. n - 1 : inbox'[i] = inbox[i + 1]
    BY <1>1
  <1> HIDE DEF n, line
  <1>3. OnlyOwn /\ CommandFirst /\ DataFits /\ OkEndsCall
    BY DEF CallInv
  <1>4. line.mine = TRUE /\ \A i \in DOMAIN inbox' : inbox'[i].mine = TRUE /\ inbox'[i].cmd = "data"
    <2>1. /\ \A i \in DOMAIN inbox : inbox[i].mine = TRUE
          /\ \A i \in DOMAIN inbox : i > 1 => inbox[i].cmd = "data"
      BY <1>3 DEF OnlyOwn, CommandFirst
    <2> QED
      BY <1>2, <2>1
  <1>5. CommandFirst'
    <2>1. inbox' # <<>> => inbox'[1].cmd = "data"
      BY <1>2, <1>4
    <2> QED
      BY <1>4, <2>1 DEF CommandFirst
  <1>6. NoOk(buf) /\ NoOk(port) /\ Owned(buf) /\ Owned(port) /\ OkIsLast(buf)
    BY <1>1, <1>3 DEF OkEndsCall, OnlyOwn
  <1>7. ASSUME NEW t \in Seq(LinesOut), Answer(t), Owned(t), OkIsLast(t)
        PROVE  /\ Owned(port') /\ OkIsLast(port')
               /\ NoOk(t) => NoOk(port')
    BY <1>1, <1>6, <1>7, Added DEF Answer
  <1>8. ASSUME Owned(port'), OkIsLast(port'), left' > 0 => upMine' = TRUE, DataFits',
               ~NoOk(port') => inbox' = <<>> /\ left' = 0 /\ toSend = 0 /\ (job[1] = "write" => stored')
        PROVE  CallInv'
    <2>1. OnlyOwn'
      BY <1>1, <1>4, <1>6, <1>8 DEF OnlyOwn
    <2>2. OkEndsCall'
      BY <1>1, <1>6, <1>8 DEF OkEndsCall
    <2> QED
      BY <1>5, <1>8, <2>1, <2>2 DEF CallInv
  <1>9. CASE left > 0
    <2>1. /\ HandleUploadLine(line) /\ line.cmd = "data" /\ ~ruined /\ job[1] = "write"
          /\ n + toSend = left /\ upMine = TRUE
      BY <1>1, <1>2, <1>3, <1>9 DEF Handle, DataFits, OnlyOwn, n, line
    <2>2. \/ left > 1 /\ left' = left - 1 /\ UNCHANGED <<port, ruined, upMine, eventsOn, stored>>
          \/ left = 1 /\ Answer(<<Line("ok", "write", upMine)>>) /\ stored' = (stored \/ upMine) /\ EndUpload
          \/ left = 1 /\ Answer(<<Line("err", "write", upMine)>>) /\ EndUpload
      BY <2>1 DEF HandleUploadLine
    <2>3. CASE left > 1 /\ left' = left - 1 /\ UNCHANGED <<port, ruined, upMine, eventsOn, stored>>
      <3>1. inbox' # <<>> => inbox'[1].cmd = "data"
        BY <1>2, <1>4
      <3>2. Len(inbox') + toSend' = left'
        <4>1. Len(inbox') = n - 1 /\ toSend' = toSend /\ n + toSend = left /\ left' = left - 1
          BY <1>1, <1>2, <2>1, <2>3
        <4>2. n \in Nat /\ toSend \in Nat /\ left \in Nat
          BY <1>1, <1>2
        <4> QED
          BY <4>1, <4>2
      <3>3. DataFits'
        BY <1>1, <2>1, <2>3, <3>1, <3>2 DEF DataFits
      <3> QED
        BY <1>3, <1>6, <1>8, <2>1, <2>3, <3>3 DEF OkEndsCall
    <2>4. CASE left = 1 /\ Answer(<<Line("ok", "write", upMine)>>) /\ stored' = (stored \/ upMine) /\ EndUpload
      <3>1. Line("ok", "write", TRUE) \in LinesOut /\ Line("ok", "write", TRUE).mine = TRUE
        BY LineType DEF Calls
      <3>2. Owned(port') /\ OkIsLast(port')
        <4>1. Answer(<<Line("ok", "write", TRUE)>>)
          BY <2>1, <2>4
        <4> QED
          BY <3>1, <4>1, <1>7, OneLine
      <3>3. inbox' = <<>> /\ toSend = 0
        BY <1>1, <1>2, <2>1, <2>4
      <3>4. left' = 0 /\ stored' = TRUE
        BY <2>1, <2>4 DEF EndUpload
      <3> QED
        BY <1>8, <3>2, <3>3, <3>4 DEF DataFits
    <2>5. CASE left = 1 /\ Answer(<<Line("err", "write", upMine)>>) /\ EndUpload
      <3>1. /\ Line("err", "write", TRUE) \in LinesOut /\ Line("err", "write", TRUE).mine = TRUE
            /\ Line("err", "write", TRUE).kind # "ok"
        BY LineType DEF Calls
      <3>2. Owned(port') /\ OkIsLast(port') /\ NoOk(port')
        <4>1. Answer(<<Line("err", "write", TRUE)>>)
          BY <2>1, <2>5
        <4> QED
          BY <3>1, <4>1, <1>7, OneLine
      <3>4. left' = 0
        BY <2>5 DEF EndUpload
      <3> QED
        BY <1>8, <3>2, <3>4 DEF DataFits
    <2> QED
      BY <2>2, <2>3, <2>4, <2>5
  <1>10. CASE ~(left > 0)
    <2>1. HandleCommand(line) /\ left = 0 /\ line.cmd \in Calls \cup {"data"}
      BY <1>1, <1>2, <1>10 DEF Handle, line, LinesIn
    <2> DEFINE ok == Line("ok", line.cmd, line.mine)
               err == Line("err", line.cmd, line.mine)
               b == Line("body", line.cmd, line.mine)
               text == Append([i \in 1 .. BODY |-> b], ok)
    <2>2. /\ ok \in LinesOut /\ err \in LinesOut /\ b \in LinesOut /\ b.kind = "body" /\ err.kind # "ok"
          /\ ok.mine = TRUE /\ err.mine = TRUE /\ b.mine = TRUE
      BY <1>4, <2>1, LineType
    <2>3. /\ \/ UNCHANGED boardVars /\ Answer(<<err>>)
             \/ left' = left /\ (Answer(<<ok>>) \/ Answer(text)) /\ line.cmd # "data" /\ line.cmd # "write"
             \/ /\ left' = CHUNKS /\ ruined' = FALSE /\ upMine' = line.mine /\ port' = port
                /\ line.cmd = "write"
      BY <2>1 DEF HandleCommand, boardVars
    <2> HIDE DEF ok, err, b
    <2>4. /\ text \in Seq(LinesOut) /\ OkIsLast(text) /\ Owned(text)
          /\ <<ok>> \in Seq(LinesOut) /\ OkIsLast(<<ok>>) /\ Owned(<<ok>>)
          /\ <<err>> \in Seq(LinesOut) /\ OkIsLast(<<err>>) /\ Owned(<<err>>) /\ NoOk(<<err>>)
      BY <2>2, Bounds, Text, OneLine
    <2> HIDE DEF text
    <2>5. CASE UNCHANGED boardVars /\ Answer(<<err>>)
      <3>1. Owned(port') /\ OkIsLast(port') /\ NoOk(port')
        BY <2>4, <2>5, <1>7
      <3>2. left' = 0
        BY <2>1, <2>5 DEF boardVars
      <3> QED
        BY <1>8, <3>1, <3>2 DEF DataFits
    <2>6. CASE left' = left /\ (Answer(<<ok>>) \/ Answer(text)) /\ line.cmd # "data" /\ line.cmd # "write"
      <3>1. Owned(port') /\ OkIsLast(port')
        BY <2>4, <2>6, <1>7
      <3>2. line.cmd = job[1] /\ n = 1 /\ toSend = 0
        BY <1>1, <1>2, <1>3, <2>6 DEF CommandFirst, n
      <3>3. inbox' = <<>>
        BY <1>2, <3>2
      <3> QED
        BY <1>8, <2>1, <2>6, <3>1, <3>2, <3>3 DEF DataFits
    <2>7. CASE /\ left' = CHUNKS /\ ruined' = FALSE /\ upMine' = line.mine /\ port' = port
               /\ line.cmd = "write"
      <3>1. line.cmd = job[1] /\ n - 1 + toSend = CHUNKS
        BY <1>1, <1>2, <1>3, <2>7 DEF CommandFirst, n
      <3>2. inbox' # <<>> => inbox'[1].cmd = "data"
        BY <1>2, <1>4
      <3>3. DataFits'
        BY <1>1, <1>2, <2>7, <3>1, <3>2 DEF DataFits
      <3>4. OkIsLast(port')
        BY <1>3, <2>7 DEF OkEndsCall
      <3> QED
        BY <1>4, <1>6, <1>8, <2>7, <3>3, <3>4
    <2> QED
      BY <2>3, <2>5, <2>6, <2>7
  <1> QED
    BY <1>9, <1>10

LEMMA EventLine ==
    /\ <<Event>> \in Seq(LinesOut) /\ OnlyEvents(<<Event>>)
    /\ NoOk(<<Event>>) /\ Owned(<<Event>>) /\ OkIsLast(<<Event>>)
  <1>1. Event \in LinesOut /\ Event.kind = "EV"
    BY LineType DEF Event
  <1>2. <<Event>> \in Seq(LinesOut) /\ OnlyEvents(<<Event>>)
    BY <1>1, OneLine
  <1> QED
    BY <1>2, EventsAreNoOk

(***************************************************************************)
(* The board gives the upload of the call up, or adds an event.            *)
(***************************************************************************)
LEMMA TimeoutInCall ==
    ASSUME LinkTypeOK, CallInv, BoardTimeout
    PROVE  CallInv'
  <1>1. /\ left > 0 /\ Answer(<<Line("err", "write", upMine)>>)
        /\ left' = 0 /\ UNCHANGED <<job, toSend, buf, inbox>>
        /\ inbox \in Seq(LinesIn) /\ port \in Seq(LinesOut)
    BY DEF BoardTimeout, EndUpload, clientVars, LinkTypeOK
  <1>2. OnlyOwn /\ CommandFirst /\ DataFits /\ OkEndsCall
    BY DEF CallInv
  <1>3. /\ upMine = TRUE /\ NoOk(port) /\ NoOk(buf) /\ Owned(port)
        /\ inbox # <<>> => inbox[1].cmd = "data"
    BY <1>1, <1>2 DEF OnlyOwn, OkEndsCall, DataFits
  <1> DEFINE l == Line("err", "write", TRUE)
  <1>4. l \in LinesOut /\ l.mine = TRUE /\ l.kind # "ok"
    BY LineType DEF Calls
  <1>5. port' = port \o <<l>>
    BY <1>1, <1>3 DEF Answer
  <1> HIDE DEF l
  <1>6. <<l>> \in Seq(LinesOut) /\ OkIsLast(<<l>>) /\ NoOk(<<l>>) /\ Owned(<<l>>)
    BY <1>4, OneLine
  <1>7. Owned(port') /\ NoOk(port') /\ OkIsLast(port')
    BY <1>1, <1>3, <1>5, <1>6, Added
  <1>8. OnlyOwn' /\ CommandFirst'
    BY <1>1, <1>2, <1>3, <1>7 DEF OnlyOwn, CommandFirst
  <1>9. DataFits' /\ OkEndsCall'
    BY <1>1, <1>2, <1>3, <1>7 DEF DataFits, OkEndsCall
  <1> QED
    BY <1>8, <1>9 DEF CallInv

LEMMA EventInCall ==
    ASSUME LinkTypeOK, CallInv, Emit
    PROVE  CallInv'
  <1>1. port' = port \o <<Event>> /\ port \in Seq(LinesOut) /\ UNCHANGED <<clientVars, boardVars, inbox>>
    BY DEF Emit, Answer, LinkTypeOK
  <1>2. OnlyOwn /\ CommandFirst /\ DataFits /\ OkEndsCall
    BY DEF CallInv
  <1>3. /\ Owned(port) => Owned(port')
        /\ OnlyEvents(port) => OnlyEvents(port')
        /\ NoOk(port) => NoOk(port')
        /\ OkIsLast(port) => OkIsLast(port')
    BY <1>1, EventLine, Added
  <1>4. OnlyOwn'
    BY <1>1, <1>2, <1>3 DEF OnlyOwn, clientVars, boardVars
  <1>5. CommandFirst' /\ DataFits'
    BY <1>1, <1>2, <1>3 DEF CommandFirst, DataFits, clientVars, boardVars
  <1>6. OkEndsCall'
    BY <1>1, <1>2, <1>3 DEF OkEndsCall, clientVars, boardVars
  <1> QED
    BY <1>4, <1>5, <1>6 DEF CallInv

LEMMA BoardInStep ==
    ASSUME LinkTypeOK, InStep, Handle \/ BoardTimeout \/ Emit
    PROVE  InStep'
  <1>1. UNCHANGED clientVars
    BY DEF Handle, BoardTimeout, Emit
  <1>2. CASE pc \in {"upload", "await"}
    <2>1. CallInv'
      BY <1>2, HandleInCall, TimeoutInCall, EventInCall DEF InStep
    <2> QED
      BY <1>1, <1>2, <2>1 DEF InStep, clientVars, Connected
  <1>3. CASE pc \in {"send", "ready"}
    <2>1. NothingOwed /\ port \in Seq(LinesOut)
      BY <1>3 DEF InStep, LinkTypeOK
    <2>2. Emit
      BY <2>1 DEF Handle, BoardTimeout, NothingOwed
    <2>3. port' = port \o <<Event>> /\ UNCHANGED <<clientVars, boardVars, inbox>>
      BY <2>2 DEF Emit, Answer
    <2>4. OnlyEvents(port')
      BY <2>1, <2>3, EventLine, Added DEF NothingOwed
    <2>5. NothingOwed'
      BY <2>1, <2>3, <2>4 DEF NothingOwed, clientVars, boardVars
    <2> QED
      BY <1>3, <2>3, <2>5 DEF InStep, clientVars, boardVars, Connected
  <1>4. CASE pc \notin {"upload", "await", "send", "ready"}
    BY <1>1, <1>4 DEF InStep, clientVars, Connected
  <1> QED
    BY <1>2, <1>3, <1>4

(***************************************************************************)
(* A new call begins with nothing owed.                                    *)
(***************************************************************************)
LEMMA SendInStep ==
    ASSUME LinkTypeOK, Phases, InStep, Send \/ WriteBlob
    PROVE  CallInv' /\ pc' \in {"upload", "await"}
  <1>1. /\ pc \in {"send", "ready"} /\ job # <<>> /\ job \in Seq(Calls)
        /\ pc' \in {"upload", "await"} /\ BeginCall(Head(job))
        /\ IF job[1] = "write" THEN toSend' = CHUNKS ELSE toSend' = 0
    <2>1. job \in Seq(Calls)
      BY DEF LinkTypeOK
    <2>2. CASE Send
      <3>1. pc = "send" /\ job # <<>> /\ toSend = 0 /\ job[1] # "write"
        BY <2>2, Bounds DEF Send, LinkTypeOK, Phases
      <3> QED
        BY <2>1, <2>2, <3>1 DEF Send
    <2>3. CASE WriteBlob
      <3>1. pc = "ready" /\ job # <<>> /\ Head(job) = "write" /\ toSend' = CHUNKS /\ pc' = "upload"
            /\ BeginCall("write")
        BY <2>3 DEF WriteBlob
      <3>2. Head(job) = job[1]
        BY <2>1, <3>1
      <3> QED
        BY <2>1, <3>1, <3>2
    <2> QED
      BY <2>2, <2>3
  <1>2. inbox = <<>> /\ left = 0 /\ OnlyEvents(buf) /\ OnlyEvents(port)
    BY <1>1 DEF InStep, NothingOwed
  <1>3. /\ Head(job) = job[1] /\ Head(job) \in Calls
        /\ job' = job /\ left' = left
    BY <1>1 DEF BeginCall
  <1>4. /\ inbox' \in Seq(LinesIn) /\ port' \in Seq(LinesOut) /\ buf' \in Seq(LinesOut)
        /\ Len(inbox') = 1 /\ inbox'[1] = Command(job[1])
        /\ OnlyEvents(port') /\ OnlyEvents(buf')
    BY <1>1, <1>2, <1>3, CallBegun
  <1>5. /\ NoOk(port') /\ Owned(port') /\ OkIsLast(port')
        /\ NoOk(buf') /\ Owned(buf') /\ OkIsLast(buf')
    BY <1>4, EventsAreNoOk
  <1>6. DOMAIN inbox' = {1} /\ inbox'[1].mine = TRUE /\ inbox'[1].cmd = job[1]
    BY <1>4 DEF Command
  <1>7. OnlyOwn'
    BY <1>2, <1>3, <1>5, <1>6 DEF OnlyOwn
  <1>8. CommandFirst'
    BY <1>1, <1>2, <1>3, <1>4, <1>6, Bounds DEF CommandFirst
  <1>9. DataFits' /\ OkEndsCall'
    BY <1>2, <1>3, <1>4, <1>5 DEF DataFits, OkEndsCall
  <1> QED
    BY <1>1, <1>7, <1>8, <1>9 DEF CallInv

LEMMA DataInStep ==
    ASSUME LinkTypeOK, Phases, InStep, SendData
    PROVE  CallInv' /\ pc' \in {"upload", "await"}
  <1>1. /\ pc = "upload" /\ inbox' = Append(inbox, Command("data")) /\ toSend' = toSend - 1
        /\ pc' \in {"upload", "await"} /\ UNCHANGED <<boardVars, job, buf, port>>
        /\ toSend \in Nat /\ toSend > 0 /\ left \in Nat /\ inbox \in Seq(LinesIn)
    BY Bounds DEF SendData, LinkTypeOK, Phases
  <1>2. OnlyOwn /\ CommandFirst /\ DataFits /\ OkEndsCall
    BY <1>1 DEF InStep, CallInv
  <1> DEFINE d == Command("data")
             n == Len(inbox)
  <1>3. d \in LinesIn /\ d.mine = TRUE /\ d.cmd = "data"
    BY DEF Command, LinesIn
  <1>4. /\ n \in Nat /\ DOMAIN inbox = 1 .. n /\ (inbox = <<>> <=> n = 0)
        /\ inbox' = Append(inbox, d)
    BY <1>1
  <1> HIDE DEF d
  <1>5. /\ Len(inbox') = n + 1 /\ DOMAIN inbox' = 1 .. n + 1
        /\ \A i \in 1 .. n : inbox'[i] = inbox[i]
        /\ inbox'[n + 1] = d
    BY <1>1, <1>3, <1>4
  <1> HIDE DEF n
  <1>6. OnlyOwn'
    <2>1. \A i \in DOMAIN inbox' : inbox'[i].mine = TRUE
      BY <1>2, <1>3, <1>4, <1>5 DEF OnlyOwn
    <2> QED
      BY <1>1, <1>2, <2>1 DEF OnlyOwn, boardVars
  <1>7. NoOk(buf) /\ NoOk(port)
    BY <1>1, <1>2 DEF OkEndsCall
  <1>8. OkEndsCall'
    BY <1>1, <1>2, <1>7 DEF OkEndsCall
  <1>9. \A i \in DOMAIN inbox' : i > 1 => inbox'[i].cmd = "data"
    BY <1>2, <1>3, <1>4, <1>5 DEF CommandFirst
  <1>10. CommandFirst'
    <2>1. CASE n = 0
      <3>1. inbox'[1].cmd = "data"
        BY <1>3, <1>5, <2>1
      <3> QED
        BY <1>9, <3>1 DEF CommandFirst
    <2>2. CASE n > 0
      <3>1. inbox'[1] = inbox[1] /\ inbox # <<>>
        BY <1>4, <1>5, <2>2
      <3>2. ASSUME inbox[1].cmd # "data"
            PROVE  /\ inbox[1].cmd = job[1] /\ left = 0 /\ OnlyEvents(buf) /\ OnlyEvents(port)
                   /\ job[1] = "write" /\ Len(inbox') - 1 + toSend' = CHUNKS
        <4>1. /\ inbox[1].cmd = job[1] /\ left = 0 /\ OnlyEvents(buf) /\ OnlyEvents(port)
              /\ IF job[1] = "write" THEN n - 1 + toSend = CHUNKS ELSE toSend = 0
          BY <1>2, <3>1, <3>2 DEF CommandFirst, n
        <4>2. job[1] = "write" /\ n - 1 + toSend = CHUNKS
          BY <1>1, <4>1
        <4>3. Len(inbox') = n + 1 /\ toSend' = toSend - 1
          BY <1>1, <1>5
        <4> QED
          BY <1>1, <1>4, <4>1, <4>2, <4>3, Bounds
      <3>3. UNCHANGED <<job, left, buf, port>>
        BY <1>1 DEF boardVars
      <3> QED
        BY <1>9, <3>1, <3>2, <3>3 DEF CommandFirst
    <2> QED
      BY <1>4, <2>1, <2>2
  <1>11. DataFits'
    <2>1. ASSUME left > 0
          PROVE  job[1] = "write" /\ ~ruined /\ Len(inbox') + toSend' = left /\ inbox'[1].cmd = "data"
      <3>1. job[1] = "write" /\ ~ruined /\ n + toSend = left /\ (n > 0 => inbox[1].cmd = "data")
        BY <1>2, <1>4, <2>1 DEF DataFits, n
      <3>2. Len(inbox') + toSend' = left
        BY <1>1, <1>4, <1>5, <3>1
      <3>3. inbox'[1].cmd = "data"
        BY <1>3, <1>4, <1>5, <3>1
      <3> QED
        BY <3>1, <3>2, <3>3
    <2>2. UNCHANGED <<job, left, ruined>>
      BY <1>1 DEF boardVars
    <2> QED
      BY <2>1, <2>2 DEF DataFits
  <1> QED
    BY <1>1, <1>6, <1>8, <1>10, <1>11 DEF CallInv

(***************************************************************************)
(* A line is read: it ends the call and nothing is left of it, or ends the *)
(* connection, or the call goes on.                                        *)
(***************************************************************************)
LEMMA ReadInStep ==
    ASSUME LinkTypeOK, Phases, InStep, ReadResponse, quiet'
    PROVE  InStep'
  <1>1. PICK r \in ReadLine(TRUE) :
          /\ port' = r.port
          /\ IF Terminates(r.line) /\ Accepts(Head(job), r.line)
             THEN /\ pc' = IF Head(job) = "events on" THEN "watch" ELSE "ready"
                  /\ answered' = [call |-> Head(job), mine |-> r.line.mine]
                  /\ job' = Tail(job) /\ tries' = 0
                  /\ buf' = r.buf /\ body' = 0 /\ late' = FALSE
                  /\ UNCHANGED <<toSend, quiet>>
             ELSE IF Terminates(r.line) \/ r.line.kind = "err" THEN Fail
             ELSE /\ body' = IF r.line.kind = "body" THEN body + 1 ELSE body
                  /\ buf' = r.buf
                  /\ UNCHANGED <<pc, job, tries, toSend, late, answered, quiet>>
    BY DEF ReadResponse
  <1>2. /\ pc = "await" /\ UNCHANGED <<boardVars, inbox>>
        /\ buf \in Seq(LinesOut) /\ port \in Seq(LinesOut) /\ job \in Seq(Calls) /\ job # <<>>
    BY DEF ReadResponse, LinkTypeOK
  <1>3. OnlyOwn /\ CommandFirst /\ DataFits /\ OkEndsCall
    BY <1>2 DEF InStep, CallInv
  <1>4. /\ r.line \in LinesOut /\ r.buf \in Seq(LinesOut) /\ r.port \in Seq(LinesOut)
        /\ (r.line.kind = "EV" \/ r.line.mine = TRUE) /\ Owned(r.buf) /\ Owned(r.port)
        /\ OnlyEvents(buf) /\ OnlyEvents(port) => OnlyEvents(r.buf) /\ OnlyEvents(r.port)
        /\ OkIsLast(r.buf) /\ OkIsLast(r.port) /\ (~NoOk(r.buf) => OnlyEvents(r.port))
        /\ r.line.kind = "ok" => OnlyEvents(r.buf) /\ OnlyEvents(r.port)
        /\ r.line.kind = "ok" \/ ~NoOk(r.buf) \/ ~NoOk(r.port) => ~NoOk(buf) \/ ~NoOk(port)
    BY <1>2, <1>3, LineRead DEF OnlyOwn, OkEndsCall
  <1>5. CASE Terminates(r.line) /\ Accepts(Head(job), r.line)
    <2>1. /\ pc' \in {"watch", "ready"} /\ answered' = [call |-> Head(job), mine |-> r.line.mine]
          /\ buf' = r.buf /\ port' = r.port /\ toSend' = toSend
      BY <1>1, <1>5
    <2>2. r.line.kind = "ok" /\ Head(job) = job[1]
      BY <1>2, <1>5 DEF Terminates
    <2>3. inbox = <<>> /\ left = 0 /\ (job[1] = "write" => stored)
      BY <1>3, <1>4, <2>2 DEF OkEndsCall
    <2>4. NothingOwed'
      BY <1>2, <1>4, <2>1, <2>2, <2>3 DEF NothingOwed, boardVars
    <2>5. answered'.mine
      BY <1>4, <2>1, <2>2
    <2>6. answered'.call = "write" => stored'
      BY <1>2, <2>1, <2>2, <2>3 DEF boardVars
    <2> QED
      BY <2>1, <2>4, <2>5, <2>6 DEF InStep, Connected
  <1>6. CASE ~(Terminates(r.line) /\ Accepts(Head(job), r.line)) /\ (Terminates(r.line) \/ r.line.kind = "err")
    BY <1>1, <1>6 DEF Fail, Leave
  <1>7. CASE ~(Terminates(r.line) /\ Accepts(Head(job), r.line)) /\ ~(Terminates(r.line) \/ r.line.kind = "err")
    <2>1. /\ pc' = "await" /\ buf' = r.buf /\ port' = r.port
          /\ UNCHANGED <<job, toSend, boardVars, inbox>>
      BY <1>1, <1>2, <1>7
    <2>2. OnlyOwn'
      BY <1>3, <1>4, <2>1 DEF OnlyOwn, boardVars
    <2>3. CommandFirst' /\ DataFits'
      BY <1>3, <1>4, <2>1 DEF CommandFirst, DataFits, boardVars
    <2>4. OkEndsCall'
      BY <1>3, <1>4, <2>1 DEF OkEndsCall, boardVars
    <2> QED
      BY <2>1, <2>2, <2>3, <2>4 DEF InStep, CallInv, Connected
  <1> QED
    BY <1>5, <1>6, <1>7

-----------------------------------------------------------------------------
(* The theorems.                                                           *)

(***************************************************************************)
(* The invariant is kept by every step of the board, of a process, and of  *)
(* a successor that opens the port.                                        *)
(***************************************************************************)
THEOREM LinkInvariant == LinkSpec => []LinkIInv
  <1>1. LinkInit => LinkIInv
    <2> SUFFICES ASSUME LinkInit PROVE LinkIInv
      OBVIOUS
    <2>1. /\ pc = "closed" /\ job = <<>> /\ tries = 0 /\ toSend = 0
          /\ buf = <<>> /\ body = 0 /\ late = FALSE /\ answered = NoCall
          /\ inbox = <<>> /\ port = <<>>
          /\ left = 0 /\ ruined = FALSE /\ upMine = FALSE /\ eventsOn = FALSE /\ stored = FALSE
          /\ quiet = FALSE
      BY DEF LinkInit
    <2>2. /\ answered \in [call : Calls \cup {"none"}, mine : BOOLEAN]
          /\ inbox \in Seq(LinesIn)
      BY <2>1 DEF NoCall
    <2>3. /\ job \in Seq(Calls) /\ buf \in Seq(LinesOut) /\ port \in Seq(LinesOut)
          /\ tries \in 0 .. 2 /\ toSend \in 0 .. CHUNKS /\ left \in 0 .. CHUNKS
      BY <2>1, Empty, Bounds
    <2>4. LinkTypeOK
      BY <2>1, <2>2, <2>3 DEF LinkTypeOK
    <2> QED
      BY <2>1, <2>4 DEF LinkIInv, Phases
  <1>2. LinkIInv /\ [LinkNext]_linkVars => LinkIInv'
    <2> SUFFICES ASSUME LinkTypeOK, Phases, quiet => InStep, [LinkNext]_linkVars
                 PROVE  LinkIInv'
      BY DEF LinkIInv
    <2>1. LinkTypeOK' /\ Phases'
      BY TypesNext
    <2>2. SUFFICES ASSUME quiet' PROVE InStep'
      BY <2>1 DEF LinkIInv
    <2>3. CASE Handle \/ BoardTimeout \/ Emit
      BY <2>2, <2>3, BoardInStep DEF Handle, BoardTimeout, Emit
    <2>4. CASE Forget
      BY <2>2, <2>4 DEF Forget, clientVars, InStep, Connected
    <2>5. CASE \E p \in Programs, n \in {1, 2} : Open(p, n)
      BY <2>5 DEF Open, InStep, Connected
    <2>6. CASE Drain
      <3>1. buf' = <<>> /\ port' = <<>> /\ inbox' = inbox /\ left' = left /\ pc' = "send"
            /\ inbox = <<>> /\ left = 0
        BY <2>2, <2>6 DEF Drain, boardVars
      <3>2. NothingOwed'
        BY <3>1 DEF NothingOwed, OnlyEvents
      <3> QED
        BY <3>1, <3>2 DEF InStep, Connected
    <2>7. CASE Send \/ WriteBlob
      <3>1. quiet' = quiet
        BY <2>7 DEF Send, WriteBlob, BeginCall
      <3>2. CallInv' /\ pc' \in {"upload", "await"}
        BY <2>2, <2>7, <3>1, SendInStep
      <3> QED
        BY <3>2 DEF InStep, Connected
    <2>8. CASE SendData
      <3>1. quiet' = quiet
        BY <2>8 DEF SendData
      <3>2. CallInv' /\ pc' \in {"upload", "await"}
        BY <2>2, <2>8, <3>1, DataInStep
      <3> QED
        BY <3>2 DEF InStep, Connected
    <2>9. CASE ReadResponse
      <3>1. quiet
        BY <2>2, <2>9 DEF ReadResponse, Fail, Leave
      <3> QED
        BY <2>2, <2>9, <3>1, ReadInStep
    <2>10. CASE Deadline
      <3>1. UNCHANGED <<pc, job, toSend, buf, answered, inbox, port, boardVars, quiet>>
        BY <2>10 DEF Deadline
      <3>2. InStep
        BY <2>2, <3>1
      <3> QED
        BY <3>1, <3>2 DEF InStep, CallInv, OnlyOwn, CommandFirst, DataFits, OkEndsCall, NothingOwed,
                          Connected, boardVars
    <2>11. CASE Timeout \/ Close \/ Interrupt \/ Die
      BY <2>2, <2>11 DEF Timeout, Close, Interrupt, Die, Fail, Leave
    <2>12. CASE NextCall \/ StopWatching
      BY <2>2, <2>12 DEF NextCall, StopWatching, InStep, Connected
    <2>13. CASE Watch
      BY <2>2, <2>13 DEF Watch, InStep, Connected
    <2>14. CASE UNCHANGED linkVars
      <3>1. UNCHANGED <<pc, job, toSend, buf, answered, inbox, port, boardVars, quiet>>
        BY <2>14 DEF linkVars, clientVars
      <3>2. InStep
        BY <2>2, <3>1
      <3> QED
        BY <3>1, <3>2 DEF InStep, CallInv, OnlyOwn, CommandFirst, DataFits, OkEndsCall, NothingOwed,
                          Connected, boardVars
    <2> QED
      BY <2>3, <2>4, <2>5, <2>6, <2>7, <2>8, <2>9, <2>10, <2>11, <2>12, <2>13, <2>14
         DEF LinkNext, ClientStep
  <1> QED
    BY <1>1, <1>2, PTL DEF LinkSpec

(***************************************************************************)
(* Every variable keeps its type, and a call in progress is one that was   *)
(* asked for.                                                              *)
(***************************************************************************)
THEOREM LinkTypeCorrect == LinkSpec => []LinkTypeOK
  <1>1. LinkIInv => LinkTypeOK
    BY DEF LinkIInv
  <1> QED
    BY <1>1, LinkInvariant, PTL

(***************************************************************************)
(* The answer a call of Conn takes is its own, whatever was in the port    *)
(* before the drain and whatever events come in between, if the board owed *)
(* nothing at the drain.                                                   *)
(***************************************************************************)
THEOREM CallsGetOwnAnswers == LinkSpec => []AnswersAreOwn
  <1>1. LinkIInv => AnswersAreOwn
    BY DEF LinkIInv, InStep, AnswersAreOwn
  <1> QED
    BY <1>1, LinkInvariant, PTL

(***************************************************************************)
(* Then nothing of it, nor of what it sent, is left over: the upload that  *)
(* follows needs no drain.                                                 *)
(***************************************************************************)
THEOREM CallsStayInSync == LinkSpec => []InSync
  <1>1. LinkIInv => InSync
    BY DEF LinkIInv, InStep, InSync
  <1> QED
    BY <1>1, LinkInvariant, PTL

(***************************************************************************)
(* And an upload that WriteBlob reports as done has been stored.           *)
(***************************************************************************)
THEOREM ReportedUploadsAreStored == LinkSpec => []UploadsAreStored
  <1>1. LinkIInv => UploadsAreStored
    BY DEF LinkIInv, InStep, UploadsAreStored
  <1> QED
    BY <1>1, LinkInvariant, PTL
=============================================================================
