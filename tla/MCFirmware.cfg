SPECIFICATION FirmwareFairSpec
CONSTANTS
    ProfileOf <- MCProfileOf
    ListOf <- MCListOf
    TooLarge = {"t"}
    ProfileArgs <- MCProfileArgs
    BindingArgs <- MCBindingArgs
    MAX_EXT = 2
    LINE_LIMIT = 2
INVARIANTS
    FirmwareTypeOK
    LedsFollowGesture
    NoKeyStuck
    ChainFits
PROPERTIES
    FiresColourShown
    LoopComesRound
CHECK_DEADLOCK FALSE
