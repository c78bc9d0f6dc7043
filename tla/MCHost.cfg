SPECIFICATION HostSpec
CONSTANTS
    NVM_SIZE = 100
    MAX_PROFILES = 2
    MAX_NAME_LEN = 4
    MAX_SLOTS = 2
    MAX_STEPS = 2
    MAX_TEXT_LEN = 2
    Character <- MCCharacter
    keycodes <- MCKeycodes
    consumerCodes <- MCConsumerCodes
    DefaultConfig <- Plain
    Boards <- MCBoards
    Foreign <- MCForeign
    HandWritten <- MCHandWritten
    Paths <- MCPaths
    Edits <- MCEdits
    Numbers <- MCNumbers
    Unreadable = Unreadable
    MAX_COMMANDS = 2
INVARIANTS
    HostTypeOK
    GoodFilesUpload
    GetThenSetKeeps
PROPERTIES
    CommandAllOrNothing
CHECK_DEADLOCK FALSE
