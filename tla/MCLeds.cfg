SPECIFICATION LedsFairSpec
CONSTANTS
    TICKS_PERIOD = 20
    Profiles <- MCProfiles
    Colors <- MCColors
    MAX_EXT = 16
    FRAME_MS = 2
    FIRE_FLASH_MS = 4
    BOOT_SWEEP_MS = 6
    BREATHE_PERIOD_MS = 4
    RAINBOW_MS_PER_STEP = 8
    PASS_LIMIT = 1
    BLOCK_LIMIT = 3
INVARIANTS
    LedsTypeOK
    EveryPixelLights
PROPERTIES
    FlashConfirms
    SweepEnds
