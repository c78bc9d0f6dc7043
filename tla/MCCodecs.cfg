SPECIFICATION CodecSpec
CONSTANTS
    BYTE = 5
    RADIX = 4
    LINE_WIDTH = 3
    NVM_SIZE = 100
    MAX_PROFILES = 2
    MAX_NAME_LEN = 2
    MAX_SLOTS = 2
    MAX_STEPS = 2
    MAX_TEXT_LEN = 2
    NoConfig = NoConfig
    Configs <- MCConfigs
    Values <- MCValues
    MAX_DATA = 5
    MAX_CHARS = 6
INVARIANTS
    BytesTravel
    TextsReadAlike
    HostBlobsAreRead
    DamageIsSeen
    HostReadsWhatRuns
    RewriteKeeps
CHECK_DEADLOCK FALSE
