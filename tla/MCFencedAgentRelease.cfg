\* ReleaseVolume retried after its rename's directory fsync failed.
SPECIFICATION Spec
CONSTANTS
    UIDs = {u1, u2}
    NoUID = NoUID
    Gens = {0, 1}
    Sources = {s1}
    NoSource = NoSource
    Lvm = FALSE
    MaxPending = 1
SYMMETRY Symmetric
INVARIANT ReleaseIsDurable
