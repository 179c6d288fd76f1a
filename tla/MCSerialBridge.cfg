SPECIFICATION FairSpec
CONSTANTS
    SER_BUF = 1
    FIFO = 1
    POLL_TICKS = 2
    EEP_TICKS = 2
    Banner <- MCBanner
    Texts <- MCTexts
    Requests <- MCRequests
    USE_CLCD = FALSE
    MaxArrivals = 3
    MaxMessages = 2
    MaxPresses = 1
INVARIANTS
    OutInOrder
    PinsOwned
PROPERTIES
    ImplementsByteChannel
    MessageTaken
