SPECIFICATION Spec
CONSTANTS
    PacketWords = 2
    HeaderWords = 1
    BlockWords = 4
    FlashWords = 24
    BootStart = 8
    Reserve = 8
    BufferWords = 28
    Value = {"old", "a", "b", "ff", "garbled"}
    Erased = "ff"
    Garbled = "garbled"
    Flash0 <- MCFlash0
    NoFile = NoFile
    Bench <- MCBench
INVARIANTS
    AcknowledgedIsLoaded
    SuccessIsComplete
    RestIntact
    ReportInStep
    NeverOverprogrammed
    AppReadable
PROPERTY UploadEnds
