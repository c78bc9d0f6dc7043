SPECIFICATION LinkFairSpec
CONSTANTS
    Programs <- MCPrograms
    CHUNKS = 2
    BODY = 1
    MAX_INBOX = 3
    MAX_EVENTS = 1
INVARIANTS
    LinkTypeOK
    AnswersAreOwn
    InSync
    UploadsAreStored
PROPERTIES
    ProcessEnds
