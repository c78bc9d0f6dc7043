SPECIFICATION PortFairSpec
CONSTANTS
    TICKS_PERIOD = 12
    WRITE_TIMEOUT_MS = 3
    PASS_LIMIT = 1
    RX_CAP = 2
    SILENCE_CAP = 7
    Uploads <- MCUploads
    Text <- MCText
    Refused <- MCRefused
    Pieces <- MCPieces
    NoUpload = "none"
    ClientLines <- MCClientLines
    ChunkLines <- MCChunkLines
INVARIANTS
    PortTypeOK
    OneTerminator
    AbandonedSoon
PROPERTIES
    GoodUploadsArrive
    WaitingLineSavesUpload
    PortRecovers
