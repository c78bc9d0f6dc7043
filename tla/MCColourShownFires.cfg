SPECIFICATION FirmwareSpec
CONSTANTS
    ProfileOf <- MCProfileOf
    ListOf <- MCListOf
    TooLarge = {"t"}
    ProfileArgs <- MCProfileArgs
    BindingArgs <- MCBindingArgs
    MAX_EXT = 2
    LINE_LIMIT = 2
PROPERTIES
    ColourShownFires
CHECK_DEADLOCK FALSE
