SPECIFICATION LinkSpec
CONSTANTS
    Programs <- MCPrograms
    CHUNKS = 2
    BODY = 1
    MAX_INBOX = 3
    MAX_EVENTS = 1
INVARIANTS
    UploadOkMeansStored
