SPECIFICATION LoopsSpec
CONSTANTS
    MaxSids = 2
    MaxObjs = 2
    RecoverLoops = {"L1", "L2"}
    IsMaxCalls = 3
    IsMaxFaults = 2
    IsMaxRestarts = 1
    LoginKeys = {"MaxBurstLength", "FirstBurstLength", "MaxOutstandingR2T", "InitialR2T"}
    KeyRule <- Rules
    KeyOffer <- Offers
    KeyDefault <- Defaults
    KeyLimits <- Choices
    Credentials = {"none", "chap", "mutual"}
    maxLoginRounds = 5
    maxRedirects = 1
    LoginMaxRetries = 1
    Slots = {1, 2}
    MaxBlocks = 3
    trimChunkBlocks = 1
    RecheckPasses = 2
    NhMaxCalls = 4
    NhMaxFaults = 2
    NhMaxRestarts = 1
    RdMaxChanges = 1
    RdMaxFaults = 1
INVARIANTS LoopsTypeOK QueuedWritesKept LoginAgrees OneController TrimIsSound
PROPERTIES BrokenSessionRecovers TransferLimitApplied ClassReadinessSettles
CHECK_DEADLOCK FALSE
