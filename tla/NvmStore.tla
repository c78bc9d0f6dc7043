------------------------------ MODULE NvmStore ------------------------------
(***************************************************************************)
(* src/src/singlekey/nvmstore.py: the configuration blob in the board's    *)
(* non-volatile memory.  The region is a row of cells.  Cell i of blob b   *)
(* carries b's i-th share; the first cell is the header, with the magic    *)
(* and the length.  A CRC mismatch is modelled by what it detects: a row   *)
(* whose cells are not all of one blob does not decode.                    *)
(***************************************************************************)
EXTENDS Integers

CONSTANTS
    Blobs,              \* the encoded configurations that decode
    BlobSize,           \* BlobSize[b]: how many cells blob b takes
    NVM_SIZE            \* how many cells the region has, on a board that has one

ASSUME NvmAssumption ==
    /\ NVM_SIZE \in Nat \ {0}
    /\ BlobSize \in [Blobs -> Nat \ {0}]
    /\ "none" \notin Blobs

VARIABLES
    nvm,                \* the region; the empty row on a board without one
    storeStatus         \* NvmStore.status

NoBlob == "none"
ERASED == [of |-> NoBlob, at |-> 0]     \* never written, all 0xFF or all 0x00
JUNK   == [of |-> NoBlob, at |-> 1]     \* bytes that belong to no blob
Cell   == [of : Blobs, at : Nat] \cup {ERASED, JUNK}

NoNvm == <<>>
Image == [1 .. NVM_SIZE -> Cell]

Statuses == {"ok", "no-nvm", "blank", "corrupt"}

NvmTypeOK ==
    /\ nvm \in Image \cup {NoNvm}
    /\ storeStatus \in Statuses

\* The image img with the first k cells of blob b written over it.
Overwrite(img, b, k) ==
    [i \in 1 .. NVM_SIZE |-> IF i <= k THEN [of |-> b, at |-> i] ELSE img[i]]

\* The flash the region lives in is erased before it is programmed again, so a write cut short
\* can also leave what it has not reached yet erased.
Erase(img, k) == [i \in 1 .. NVM_SIZE |-> IF i <= k THEN img[i] ELSE ERASED]

\* What power loss during the write of blob b can leave.
Torn(img, b) ==
    {Overwrite(img, b, k) : k \in 0 .. BlobSize[b]}
      \cup {Erase(Overwrite(img, b, BlobSize[b]), k) : k \in 0 .. NVM_SIZE}

\* Every cell of blob b is there, in its place.
Holds(img, b) ==
    /\ BlobSize[b] <= NVM_SIZE
    /\ \A i \in 1 .. BlobSize[b] : img[i] = [of |-> b, at |-> i]

\* A deliberately wrong variant: the header alone is believed, the checksum is not computed.
MutDecodesHeader(img) ==
    IF img[1].of \in Blobs /\ img[1].at = 1 THEN img[1].of ELSE NoBlob

\* blob.decode of the whole region: the blob in it, or NoBlob for a BlobError.
Decode(img) ==
    IF \E b \in Blobs : Holds(img, b)
    THEN CHOOSE b \in Blobs : Holds(img, b)
    ELSE NoBlob

is_blank(img) == \A i \in 1 .. NVM_SIZE : img[i] = ERASED

\* load(): the status it leaves; it returns the factory defaults unless that is "ok".
LoadStatus(img) ==
    CASE img = NoNvm                          -> "no-nvm"
      [] img # NoNvm /\ is_blank(img)         -> "blank"
      [] img # NoNvm /\ ~is_blank(img)
           /\ Decode(img) = NoBlob            -> "corrupt"
      [] OTHER                                -> "ok"

\* save(data) writes nothing unless the data decodes and fits.
SaveAccepts(img, data) ==
    /\ data \in Blobs
    /\ img # NoNvm => BlobSize[data] <= NVM_SIZE

\* A deliberately wrong variant: the slice written stops one cell short.
MutSavedShort(img, data) ==
    IF img = NoNvm THEN NoNvm ELSE Overwrite(img, data, BlobSize[data] - 1)

\* The region and the status after save(data) has run to its end.
Saved(img, data) == IF img = NoNvm THEN NoNvm ELSE Overwrite(img, data, BlobSize[data])

SavedStatus(img) == IF img = NoNvm THEN "no-nvm" ELSE "ok"

\* The blob the header names, and stored_length(): magic and length field only.
HeaderBlob(img) ==
    IF img # NoNvm /\ img[1].of \in Blobs /\ img[1].at = 1 THEN img[1].of ELSE NoBlob

stored_length(img) ==
    LET b == HeaderBlob(img)
    IN  IF b # NoBlob /\ BlobSize[b] <= NVM_SIZE THEN BlobSize[b] ELSE 0

\* read_blob(): the stored bytes exactly as written; empty stands for None.
read_blob(img) == [i \in 1 .. stored_length(img) |-> img[i]]
=============================================================================
