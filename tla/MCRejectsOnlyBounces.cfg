SPECIFICATION KeySpec
CONSTANTS
    TICKS_PERIOD = 16
    DEBOUNCE_MS = 2
    MAX_GAP = 4
    HOLD_LIMIT = 7
    AGE_CAP = 16
    Profiles <- MCProfiles
PROPERTIES
    RejectsOnlyBounces
