------------------------------ MODULE ZfsSpace ------------------------------
(***************************************************************************)
(* How the ZFS backends derive space and quotas from dataset properties:   *)
(* Capacity and dirSpaceAvailable (internal/agent/backend/zfs/zfs.go), and *)
(* effectiveQuota (dataset_import.go), against the accounting of OpenZFS.  *)
(*                                                                         *)
(* A chain of datasets, 1 the pool's root and ZsDepth the dataset that new *)
(* volumes are created under (or that is adopted), grows and is            *)
(* reconfigured by its users.                                              *)
(***************************************************************************)
EXTENDS Integers, FiniteSetsExt

CONSTANTS
    ZsDepth,        \* the length of the chain
    ZsPool,         \* the size of the pool
    ZsOwn,          \* the values of data, snapshots and refreservation
    ZsQuotas,       \* the values of quota and refquota, 0 for none
    ZsReservations, \* the values of reservation, 0 for none
    ZsMaxMoves      \* bound: changes

ASSUME ZsAssumption == ZsDepth \in Nat \ {0} /\ ZsPool \in Nat

VARIABLES
    zfs,        \* the datasets of the chain
    zsMoves     \* changes so far

zsVars == <<zfs, zsMoves>>

Levels == 1..ZsDepth
Datasets == [data : ZsOwn, snapshots : ZsOwn, refreservation : ZsOwn, quota : ZsQuotas,
             refquota : ZsQuotas, reservation : ZsReservations]
Chains == [Levels -> Datasets]
Excess(a, b) == IF a > b THEN a - b ELSE 0

---------------------------------------------------------------------------
(* OpenZFS *)

\* dsl_dir: a dataset is charged its data, its unused refreservation, its
\* snapshots, and for its child the larger of the child's use and reservation.
usedbyrefreservation(z, k) == Excess(z[k].refreservation, z[k].data)
Used[z \in Chains, k \in 1..(ZsDepth + 1)] ==
    IF k > ZsDepth THEN 0
    ELSE z[k].data + usedbyrefreservation(z, k) + z[k].snapshots
         + (IF k = ZsDepth THEN 0 ELSE Max({Used[z, k + 1], z[k + 1].reservation}))

\* dsl_dir_space_available: what a new child of the dataset may use.
SpaceAvailable[z \in Chains, k \in 0..ZsDepth] ==
    IF k = 0 THEN Excess(ZsPool, Used[z, 1])
    ELSE LET above == SpaceAvailable[z, k - 1] + (IF k = 1 THEN 0 ELSE Excess(z[k].reservation, Used[z, k]))
         IN IF z[k].quota = 0 THEN above
            ELSE IF Used[z, k] > z[k].quota THEN 0
            ELSE Min({above, z[k].quota - Used[z, k]})

\* dsl_get_available: the "available" property, which adds the dataset's own
\* unused refreservation and is clamped by its refquota.
available(z, k) ==
    LET space == SpaceAvailable[z, k] + usedbyrefreservation(z, k)
    IN IF z[k].refquota = 0 THEN space ELSE Min({space, Excess(z[k].refquota, z[k].data)})

---------------------------------------------------------------------------
(* The backends *)

NoBound == -1       \* an error instead of a number

\* dirBoundViaAvailable: the property without the refreservation.
dirBoundViaAvailable(z, k) ==
    LET rest == available(z, k) - usedbyrefreservation(z, k) IN IF rest < 0 THEN NoBound ELSE rest

\* A mutant of the recomputation: it forgets what the dataset has reserved.
forgetsReservation(parentBound, used, quota, reservation) ==
    IF quota = 0 THEN parentBound ELSE IF used > quota THEN 0 ELSE Min({parentBound, quota - used})

\* dirBoundViaAncestors, given the bound of the parent.
dirBound(parentBound, used, quota, reservation) ==
    LET space == parentBound + Excess(reservation, used)
    IN IF quota = 0 THEN space ELSE IF used > quota THEN 0 ELSE Min({space, quota - used})

\* dirSpaceAvailable: from the property where there is no refquota, from the
\* parent's bound where there is one.  The pool's root has no parent.
dirSpaceAvailable[k \in 0..ZsDepth] ==
    IF k = 0 THEN NoBound
    ELSE IF zfs[k].refquota = 0 THEN dirBoundViaAvailable(zfs, k)
    ELSE IF dirSpaceAvailable[k - 1] = NoBound THEN NoBound
    ELSE dirBound(dirSpaceAvailable[k - 1], Used[zfs, k], zfs[k].quota, zfs[k].reservation)

\* Capacity: the space below the provisioning root, or an error.
Capacity == dirSpaceAvailable[ZsDepth]

\* A mutant of the own quota: the aggregate quota is taken as it stands.
ownQuotaUnmixed(d, other) ==
    IF d.refquota = 0 /\ d.quota = 0 THEN NoBound ELSE Min({d.quota, d.refquota} \ {0})

\* ownDatasetQuota: the bound of the live data of an adopted dataset, or an
\* error where snapshots and reservations share the bound.
ownDatasetQuota(d, other) ==
    IF d.refquota = 0 THEN IF d.quota = 0 \/ other # 0 THEN NoBound ELSE d.quota
    ELSE IF d.quota = 0 THEN d.refquota
    ELSE IF d.quota < d.refquota THEN IF other # 0 THEN NoBound ELSE d.quota
    ELSE IF other > d.quota - d.refquota THEN NoBound ELSE d.refquota

\* What the dataset uses beside its live data.
OtherUse == Used[zfs, ZsDepth] - zfs[ZsDepth].data

\* validateAncestorQuota: no shared quota above is smaller, or overrun.
validateAncestorQuota(k, capacity) ==
    zfs[k].quota > 0 => zfs[k].quota >= capacity /\ Used[zfs, k] <= zfs[k].quota

effectiveQuota ==
    LET own == ownDatasetQuota(zfs[ZsDepth], OtherUse)
    IN IF own # NoBound /\ \A k \in 1..(ZsDepth - 1) : validateAncestorQuota(k, own) THEN own ELSE NoBound

---------------------------------------------------------------------------
(* The users of the pool *)

Empty == [data |-> 0, snapshots |-> 0, refreservation |-> 0, quota |-> 0, refquota |-> 0, reservation |-> 0]

\* Data is written, a snapshot keeps data, or a property is set.  A quota may
\* be set below what is used; a reservation needs the space.
Change ==
    /\ zsMoves < ZsMaxMoves /\ zsMoves' = zsMoves + 1
    /\ \E k \in Levels, d \in Datasets :
         /\ Cardinality({f \in DOMAIN d : d[f] # zfs[k][f]}) = 1
         /\ zfs' = [zfs EXCEPT ![k] = d]
    /\ Used[zfs', 1] <= ZsPool

ZsInit == zfs = [k \in Levels |-> Empty] /\ zsMoves = 0
ZsNext == Change
ZsSpec == ZsInit /\ [][ZsNext]_zsVars

---------------------------------------------------------------------------
(* Properties *)

ZsTypeOK == zfs \in Chains /\ zsMoves \in 0..ZsMaxMoves

\* Whatever quotas, refquotas, reservations and refreservations the chain has,
\* Capacity either reports exactly the space OpenZFS would admit a new child
\* against, or refuses because every dataset up to the pool's root has a
\* refquota ("an explicit error rather than a fabricated number", zfs.go).
CapacityIsAllocatable ==
    Capacity = IF \A k \in Levels : zfs[k].refquota > 0 THEN NoBound ELSE SpaceAvailable[zfs, ZsDepth]

\* The capacity an adoption reports is the most live data the quotas of the
\* dataset admit: never more than refquota, nor than quota leaves beside
\* snapshots and refreservation.
AdoptedQuotaBinds ==
    LET d == zfs[ZsDepth] IN
    effectiveQuota # NoBound =>
        effectiveQuota = Min((IF d.refquota > 0 THEN {d.refquota} ELSE {})
                             \cup (IF d.quota > 0 THEN {d.quota - OtherUse} ELSE {}))

=============================================================================
