SPECIFICATION ConfigSpec
CONSTANTS
    Blobs <- MCBlobs
    BlobSize <- MCBlobSize
    NVM_SIZE = 4
    NumProfiles <- MCNumProfiles
    DefaultConfig <- MCDefault
    ConfigOf <- MCConfigOf
    ExtCount <- MCExtCount
    EncodedAs <- MCEncodedAs
    ProfileArgs <- MCProfileArgs
    Uploads <- MCUploads
INVARIANTS
    ConfigTypeOK
    OkIsDurable
    OkStatusIsTrue
PROPERTIES
    AtomicSpec
