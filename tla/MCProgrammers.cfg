SPECIFICATION FairSpec
CONSTANTS
    SPM_SZ_WORDS = 4
    SPM_PS_WORDS = 2
    EepBytes = 4
    E2PAGESIZE = 2
    Signature <- MCSignature
    Calibration = 177
    code <- MCCode
    Sessions <- MCSessions
    Recovery <- MCRecovery
    MaxRestarts = 1
    MaxNoise = 2
INVARIANTS
    CallsTakeEffect
    AnswersAreTrue
    InStep
    NeverWhileBusy
PROPERTIES
    SessionEnds
