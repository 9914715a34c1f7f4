SPECIFICATION AgentSpec
CONSTANTS
    Parts = {"fencing", "block", "dataset", "directory", "space"}
    UIDs = {u1, u2}
    NoUID = NoUID
    Gens = {0, 1}
    Sources = {s1, s2}
    NoSource = NoSource
    Lvm = TRUE
    MaxPending = 1
    BkFamilies = {"linear", "thin", "zvol"}
    BkIds = {1, 2}
    BkDevs = {1, 2}
    BkSizes = {1, 2}
    BkMaxCalls = 2
    BkMaxMoves = 2
    BkMaxFaults = 1
    DsGuids = {1, 2}
    DsQuotas = {1, 2}
    DsMaxCalls = 2
    DsMaxMoves = 2
    DsMaxFaults = 1
    DwInodes = {1, 2}
    DwLinks = 2
    DwLimits = {1, 2}
    DwMaxCalls = 2
    DwMaxMoves = 1
    ZsDepth = 3
    ZsPool = 8
    ZsOwn = {0, 1, 2}
    ZsQuotas = {0, 1, 3}
    ZsReservations = {0, 2}
    ZsMaxMoves = 4
SYMMETRY Symmetric
INVARIANTS AgentTypeOK NoStaleMutation MarkCoversMutations DeleteIsDurable NoGrantAfterDelete AdoptedIsExamined DatasetsHold
PROPERTIES ImplementsPromise MarkNeverRegresses DestroysOnlyAdopted
CHECK_DEADLOCK FALSE
