SPECIFICATION FairSpec
CONSTANTS
    SPM_SZ_WORDS = 12
    SPM_PS_WORDS = 4
    EepBytes = 4
    E2PAGESIZE = 2
    Signature <- MCSignature
    Calibration = 177
    Apps = {"radio"}
    code <- MCCode
    OldFlash <- MCOldFlash
    OldEep <- MCOldEep
    StuckFlash <- MCStuckFlash
    StuckEep <- MCStuckEep
    MaxRestarts = 1
    MaxBounces = 2
    Rtc0 <- MCRtc0
    MaxFaults = 2
    MaxPresses = 1
    MaxSeconds = 1
    Header <- MCHeader
    One <- MCOne
    Zero <- MCZero
    Trail = 1
    LoopDelay = 3
    MaxCodes = 3
    CharsPerTick = 1
    MaxFlips = 0
    MaxPackets = 1
    MaxLetters = 2
    LastLetter = 66
    Duniya <- MCDuniya
    Sending <- MCSending
    Received <- MCReceived
    Error <- MCError
    MaxLost = 1
    MaxResets = 1
    DataSize = 2
    Text <- MCText
    Builds <- MCBuilds
    Starts <- MCStarts
    Lines <- MCLines
    Speeds = 1
    Pixels = 1
    Rings = 1
    Waves = 1
    MaxTicks = 4
    sine <- MCSine
    AMPLIFICATION = 5
    CYCLE = 10
    Length <- MCLength
INVARIANT PacketReceived
