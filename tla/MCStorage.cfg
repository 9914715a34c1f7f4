SPECIFICATION StorageSpec
CONSTANTS
    Parts = {"nvmet", "lio", "claims", "recovery", "nfs", "class", "guards"}
    c1 = c1
    c2 = c2
    l1 = l1
    l2 = l2
    o1 = o1
    o2 = o2
    v1 = v1
    v2 = v2
    NvVolumes = {v1, v2}
    NvHosts = {h1}
    NvWorkers = {w1, w2}
    NvIdle = NvIdle
    NvLimit <- Limits
    NvInline <- InlineSizes
    NvLegacy = {v1}
    NvMaxCalls = 4
    NvMaxFaults = 1
    NvMaxBoots = 2
    LioInitiators = {h1, h2}
    LioNobody = LioNobody
    LioMaxCalls = 6
    LioMaxFaults = 2
    LioMaxBoots = 2
    Claims = {c1, c2}
    Replicas = {r1, r2}
    Locators = {l1, l2}
    Resources = {o1, o2}
    NoResource = NoResource
    Scenarios <- ClaimScenarios
    MaxSerial = 4
    MaxMoves = 1
    MaxClaimCalls = 3
    Heirs = {n1, n2}
    OldLife = OldLife
    NoLife = NoLife
    RecMaxGen = 3
    RecMaxFaults = 2
    RecMaxRetries = 3
    NfVolumes = {"v1", "v2"}
    NfAdopted = {"v1"}
    NfClients = {"c1"}
    NfOpen = {"v2"}
    NfMaxCalls = 3
    NfMaxFaults = 1
    NfMaxBoots = 2
    ScParams = {"p1", "p2"}
    ScMetas = {"m1", "m2"}
    ScMaxEdits = 2
    ScMaxFaults = 1
INVARIANTS StorageTypeOK SharedTargetHolds SourceHasOneLifecycle RecoveryIsSafe
PROPERTIES ServesOnlyGranted ConfigurationKept
CHECK_DEADLOCK FALSE
