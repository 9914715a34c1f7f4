--------------------------- MODULE DatasetBackend ---------------------------
(***************************************************************************)
(* The ZFS filesystem backend of the storage agent                         *)
(* (internal/agent/backend/zfs/dataset.go and dataset_import.go): the      *)
(* datasets it creates and mounts itself, and the existing datasets it     *)
(* adopts by pinning them with an open directory.                          *)
(*                                                                         *)
(* Every zfs command names the dataset by its NAME, "d" here; every file   *)
(* operation names a path.  Which dataset (GUID) has the name, and which   *)
(* one is mounted at the path, may change between any two of them by the   *)
(* hand of the administrator of the storage node.  Two rules of the kernel *)
(* matter: a mounted dataset with an open directory cannot be unmounted,   *)
(* destroyed or renamed, and a GUID never comes back.                      *)
(***************************************************************************)
EXTENDS Integers, Sequences

CONSTANTS
    DsGuids,        \* the GUIDs datasets may get, a set of positive integers
    DsQuotas,       \* the quotas requests and the administrator use
    DsMaxCalls,     \* bound: calls of the backend
    DsMaxMoves,     \* bound: interventions of the administrator
    DsMaxFaults     \* bound: commands and reads that fail

VARIABLES
    dset,       \* the datasets, by GUID
    mt,         \* the mount table: what is stacked on each path
    stub,       \* the directory below the managed mountpoint
    locked,     \* the datasets whose root directory lost its permissions
    adoption,   \* the recorded identity of the adopted dataset
    dc,         \* the call in progress
    dsBounds    \* calls, interventions and faults so far

dsVars == <<dset, mt, stub, locked, adoption, dc, dsBounds>>

Other == 0      \* any filesystem that is not one of the datasets
NoGuid == -1    \* no dataset; no open directory
Backing == -2   \* the directory below the managed mountpoint
Nowhere == "none"
Paths == {"managed", "native", "proxy"}

NoDataset == [name |-> "none"]
LostDataset == [name |-> "gone"]
NoAdoption == [guid |-> NoGuid, host |-> Nowhere, quota |-> 0]
NotRead == [guid |-> NoGuid, kind |-> "", quota |-> 0, point |-> "", share |-> FALSE, mounted |-> FALSE]
DsIdle == [op |-> "none", at |-> "idle", next |-> "", size |-> 0, seen |-> NotRead,
           path |-> Nowhere, fd |-> NoGuid]

---------------------------------------------------------------------------
(* What the commands and the kernel's tables show *)

Exist == {g \in DsGuids : dset[g].name \in {"d", "e"}}
Bound(n) == {g \in Exist : dset[g].name = n}
Gone == Bound("d") = {}
Dataset == CHOOSE g \in Bound("d") : TRUE
On(p) == {mt[p][k] : k \in DOMAIN mt[p]}
MountedAt(g) == {p \in Paths : g \in On(p)}
\* An open directory keeps its filesystem mounted; a lazy unmount, which does
\* not wait for it, is left out.
DsBusy(g) == dc.fd = g

\* readState and readImportState: one zfs get of the name.
readState ==
    [guid |-> Dataset, kind |-> dset[Dataset].kind, quota |-> dset[Dataset].quota,
     point |-> dset[Dataset].point, share |-> dset[Dataset].share,
     mounted |-> MountedAt(Dataset) # {}]

\* mountAt: the last entry wins when mounts are stacked on the path.
mountAt(p) == IF mt[p] = <<>> THEN NoGuid ELSE mt[p][Len(mt[p])]
SourceIs(g, n) == g \in Exist /\ dset[g].name = n
\* What opening the path yields.
Opened(p) == IF mt[p] = <<>> THEN Backing ELSE mountAt(p)

DsCan(which, most) == dsBounds[which] < most /\ dsBounds' = [dsBounds EXCEPT ![which] = @ + 1]
World == <<dset, mt, stub, locked>>
DsAt(op, at) == dc.op = op /\ dc.at = at
DsStep(at) == dc' = [dc EXCEPT !.at = at]
\* The call returns an error or an answer; a directory it still holds is closed.
Return == dc' = DsIdle
Succeed == dc' = [DsIdle EXCEPT !.next = "ok"]
Stay == UNCHANGED <<World, adoption, dsBounds>>

---------------------------------------------------------------------------
(* Managed datasets: Create, Delete, Expand *)

\* validateDatasetState: type, mountpoint, sharenfs and a positive quota that
\* covers the request.
validateDatasetState(s, requested) ==
    s.kind = "filesystem" /\ s.point = "managed" /\ ~s.share /\ s.quota > 0 /\ s.quota >= requested

\* adoptDataset up to the mount: a dataset that is not mounted needs its
\* mountpoint prepared first.
adoptDataset(s) ==
    IF ~validateDatasetState(s, dc.size) THEN Return
    ELSE dc' = [dc EXCEPT !.seen = s, !.at = IF s.mounted THEN "final" ELSE "occupied",
                          !.next = IF s.mounted THEN "" ELSE "mount"]

\* Create reads the name: what exists is adopted, what does not is prepared.
CreateDataset ==
    /\ DsAt("create", "read")
    /\ IF Gone THEN dc' = [dc EXCEPT !.at = "occupied", !.next = "make"] ELSE adoptDataset(readState)
    /\ Stay

\* mountpointOccupied: free, taken by this dataset, or taken by another.
mountpointOccupied(free) ==
    LET g == mountAt("managed")
    IN IF g = NoGuid THEN DsStep(free)
       ELSE IF SourceIs(g, "d") THEN dc' = [dc EXCEPT !.at = dc.next, !.fd = NoGuid]
       ELSE Return

prepareMountpoint == DsAt("create", "occupied") /\ mountpointOccupied("mkdir") /\ Stay

\* prepareBackingPath: mkdir with no permissions, unless the name exists.
prepareBackingPath ==
    /\ DsAt("create", "mkdir")
    /\ stub' = IF stub.here THEN stub ELSE [stub EXCEPT !.here = TRUE, !.open = FALSE]
    /\ DsStep("open")
    /\ UNCHANGED <<dset, mt, locked, adoption, dsBounds>>

\* The directory at the path is opened, and must be empty; another filesystem
\* there may be.
validateBackingDirectory ==
    /\ DsAt("create", "open")
    /\ LET g == Opened("managed")
           found == IF g = Backing THEN {stub.files}
                    ELSE IF g = Other THEN BOOLEAN ELSE {dset[g].files}
       IN \E files \in found :
             IF files THEN Return ELSE dc' = [dc EXCEPT !.at = "again", !.fd = g]
    /\ Stay

\* A mutant of the second look at the mount table: it is left out.
looksOnce == DsAt("create", "again") /\ DsStep("chmod") /\ Stay

\* The mount table is read again before the permissions change.
looksAgain == DsAt("create", "again") /\ mountpointOccupied("chmod") /\ Stay

\* protectBackingDirectory: chmod through the open directory.
protectBackingDirectory ==
    /\ DsAt("create", "chmod")
    /\ IF dc.fd = Backing
       THEN stub' = [stub EXCEPT !.open = FALSE] /\ UNCHANGED locked
       ELSE locked' = locked \cup {dc.fd} /\ UNCHANGED stub
    /\ dc' = [dc EXCEPT !.at = dc.next, !.fd = NoGuid]
    /\ UNCHANGED <<dset, mt, adoption, dsBounds>>

NewDataset(name, point, quota) ==
    [name |-> name, kind |-> "filesystem", quota |-> quota, point |-> point, share |-> FALSE,
     files |-> FALSE, child |-> FALSE]
Mounting(g, p) == mt' = [mt EXCEPT ![p] = Append(@, g)]
\* zfs makes a missing mountpoint itself.
Underneath(p) == IF p = "managed" /\ ~stub.here THEN [stub EXCEPT !.here = TRUE, !.open = TRUE] ELSE stub

\* zfs create, which also mounts.  A command that fails, another creator of
\* the name included, is followed by the same reading of the name.
createDataset ==
    /\ DsAt("create", "make")
    /\ \/ /\ Gone
          /\ \E g \in DsGuids : /\ dset[g] = NoDataset
                                /\ dset' = [dset EXCEPT ![g] = NewDataset("d", "managed", dc.size)]
                                /\ Mounting(g, "managed") /\ stub' = Underneath("managed")
       \/ UNCHANGED <<dset, mt, stub>>
    /\ DsStep("readback")
    /\ UNCHANGED <<locked, adoption, dsBounds>>

CreateReadback ==
    /\ DsAt("create", "readback")
    /\ IF Gone THEN Return ELSE adoptDataset(readState)
    /\ Stay

\* ensureMounted: zfs mount; its failure and its success are told apart by
\* the reading that follows.
ensureMounted ==
    /\ DsAt("create", "mount")
    /\ \/ /\ ~Gone /\ MountedAt(Dataset) = {} /\ dset[Dataset].point = "managed"
          /\ Mounting(Dataset, "managed") /\ stub' = Underneath("managed")
       \/ UNCHANGED <<mt, stub>>
    /\ DsStep("final")
    /\ UNCHANGED <<dset, locked, adoption, dsBounds>>

\* The state is read and validated once more...
EnsureReadback ==
    /\ DsAt("create", "final")
    /\ IF ~Gone /\ validateDatasetState(readState, dc.seen.quota) /\ readState.mounted
       THEN DsStep("verify")
       ELSE Return
    /\ Stay

\* ...and the namespace's mount table must show it at the path.
verifyMount ==
    /\ DsAt("create", "verify")
    /\ IF SourceIs(mountAt("managed"), "d") THEN Succeed ELSE Return
    /\ Stay

DeleteDataset ==
    /\ DsAt("delete", "read")
    /\ IF Gone THEN Succeed
       ELSE IF validateDatasetState(readState, 0) THEN DsStep("destroy") ELSE Return
    /\ Stay

Without(g) == [p \in Paths |-> SelectSeq(mt[p], LAMBDA x : x # g)]

\* zfs destroy unmounts; a dataset with children stays.
DestroyDataset ==
    /\ DsAt("delete", "destroy")
    /\ \/ Gone /\ Succeed /\ UNCHANGED <<dset, mt>>
       \/ ~Gone /\ dset[Dataset].child /\ Return /\ UNCHANGED <<dset, mt>>
       \/ /\ ~Gone /\ ~dset[Dataset].child /\ Succeed
          /\ dset' = [dset EXCEPT ![Dataset] = LostDataset] /\ mt' = Without(Dataset)
    /\ UNCHANGED <<stub, locked, adoption, dsBounds>>

\* A quota that already covers the request is left alone.
ExpandDataset ==
    /\ DsAt("expand", "read")
    /\ IF Gone \/ ~validateDatasetState(readState, 0) THEN Return
       ELSE IF readState.quota >= dc.size THEN Succeed ELSE DsStep("set")
    /\ Stay

\* zfs set refquota, then the readback.
SetQuota ==
    /\ DsAt("expand", "set")
    /\ IF Gone THEN Return /\ UNCHANGED dset
       ELSE dset' = [dset EXCEPT ![Dataset].quota = dc.size] /\ DsStep("readback")
    /\ UNCHANGED <<mt, stub, locked, adoption, dsBounds>>

ExpandReadback ==
    /\ DsAt("expand", "readback")
    /\ IF ~Gone /\ validateDatasetState(readState, dc.size) THEN Succeed ELSE Return
    /\ Stay

---------------------------------------------------------------------------
(* Adopted datasets: InspectImport, ImportFilesystem, VerifyMount, Close *)

\* datasetMountRoot and verifyPinnedDatasetMount: exactly one mount on the
\* path, its source the name, and the open directory, if any, its root.
verifyPinnedDatasetMount(p, fd) ==
    /\ Len(mt[p]) = 1 /\ SourceIs(mountAt(p), "d")
    /\ fd # NoGuid => fd = mountAt(p)

Shown == {p \in Paths : \E g \in On(p) : SourceIs(g, "d")}
\* A claim that recorded no host path only ever sees the agent's proxy.
ownedOnly == dc.op # "inspect" /\ adoption.host = Nowhere

\* ownedDatasetMount: the proxy, and no other mount of the name.
ownedDatasetMount == IF Shown = {"proxy"} THEN "proxy" ELSE "refused"
\* resolveMountedImportPath: the dataset's own mountpoint first.
resolveMountedImportPath(s) ==
    IF ~ownedOnly /\ s.point \in Shown THEN s.point
    ELSE IF dc.op # "inspect" /\ ~ownedOnly THEN "refused"
    ELSE ownedDatasetMount

\* importMountPath: where the dataset is mounted, none, or a refusal.
importMountPath(s) ==
    IF ~s.mounted THEN IF Shown = {} THEN Nowhere ELSE "refused"
    ELSE LET p == resolveMountedImportPath(s)
         IN IF p # "refused" /\ verifyPinnedDatasetMount(p, NoGuid) THEN p ELSE "refused"

\* rejectSubordinateMountEscapes: no dataset below this one is mounted.
rejectSubordinateMountEscapes == Gone \/ ~dset[Dataset].child

\* validateImportState: a filesystem with exactly the quota of the request.
validateImportState(s, required) ==
    s.kind = "filesystem" /\ s.quota > 0 /\ s.quota = required /\ rejectSubordinateMountEscapes

\* The first reading.  An import also compares the GUID with the record.
ReadImport ==
    /\ dc.op \in {"inspect", "import"} /\ dc.at = "read"
    /\ IF ~Gone /\ (dc.op = "import" => Dataset = adoption.guid)
       THEN dc' = [dc EXCEPT !.seen = readState, !.at = "path"]
       ELSE Return
    /\ Stay

\* adoptionFor: the host path is the mountpoint of a dataset mounted there.
hostPath(s, p) == IF p = s.point THEN p ELSE Nowhere

InspectImport ==
    /\ DsAt("inspect", "path")
    /\ LET p == importMountPath(dc.seen)
       IN IF p # "refused" /\ validateImportState(dc.seen, dc.size)
          THEN /\ adoption' = [guid |-> dc.seen.guid, host |-> hostPath(dc.seen, p), quota |-> dc.seen.quota]
               /\ Succeed
          ELSE Return /\ UNCHANGED adoption
    /\ UNCHANGED <<World, dsBounds>>

\* sameFilesystemAdoption, and a pin of a dataset that is not mounted holds
\* no directory: it will be mounted by name.
ImportFilesystem ==
    /\ DsAt("import", "path")
    /\ LET p == importMountPath(dc.seen)
           host == IF ownedOnly THEN Nowhere ELSE IF dc.seen.mounted THEN dc.seen.point ELSE Nowhere
       IN IF p # "refused" /\ validateImportState(dc.seen, adoption.quota) /\ host = adoption.host
          THEN dc' = [dc EXCEPT !.path = p, !.at = IF p = Nowhere THEN "pinned" ELSE "open"]
          ELSE Return
    /\ Stay

\* openDatasetPin opens the path, then verifies what it opened.
openDatasetPin ==
    /\ DsAt("import", "open")
    /\ IF verifyPinnedDatasetMount(dc.path, Opened(dc.path))
       THEN dc' = [dc EXCEPT !.fd = Opened(dc.path), !.at = "recheck"]
       ELSE Return
    /\ Stay

\* A mutant of the second reading: the GUID is not compared again.
recheckNothing == DsAt("import", "recheck") /\ DsStep("repath") /\ Stay

\* recheckDatasetPin reads the name again with the directory open...
recheckDatasetPin ==
    /\ DsAt("import", "recheck")
    /\ IF ~Gone /\ Dataset = adoption.guid
       THEN dc' = [dc EXCEPT !.seen = readState, !.at = "repath"]
       ELSE Return
    /\ Stay

\* ...and verifies path, quota and open directory once more.
RecheckPath ==
    /\ DsAt("import", "repath")
    /\ IF /\ importMountPath(dc.seen) # "refused" /\ validateImportState(dc.seen, adoption.quota)
          /\ verifyPinnedDatasetMount(dc.path, dc.fd)
       THEN DsStep("pinned")
       ELSE Return
    /\ Stay

\* The agent mounts the pin on its proxy: the open directory, or by name.
MountProxy ==
    /\ DsAt("import", "pinned")
    /\ IF mt["proxy"] = <<>> /\ (dc.fd # NoGuid \/ (~Gone /\ MountedAt(Dataset) = {}))
       THEN Mounting(IF dc.fd # NoGuid THEN dc.fd ELSE Dataset, "proxy")
       ELSE UNCHANGED mt
    /\ DsStep("target")
    /\ UNCHANGED <<dset, stub, locked, adoption, dsBounds>>

\* VerifyMount of the proxy: the mount, the GUID of the name, path and quota,
\* and the mount again.
VerifyTarget ==
    /\ DsAt("import", "target")
    /\ IF verifyPinnedDatasetMount("proxy", dc.fd) THEN DsStep("guid") ELSE Return
    /\ Stay

VerifyGuid ==
    /\ DsAt("import", "guid")
    /\ IF ~Gone /\ Dataset = adoption.guid
       THEN dc' = [dc EXCEPT !.seen = readState, !.at = "state"]
       ELSE Return
    /\ Stay

VerifyState ==
    /\ DsAt("import", "state")
    /\ IF /\ importMountPath(dc.seen) # "refused" /\ validateImportState(dc.seen, adoption.quota)
          /\ verifyPinnedDatasetMount("proxy", dc.fd)
       THEN DsStep("verified")
       ELSE Return
    /\ Stay

ClosePin == DsAt("import", "verified") /\ Succeed /\ Stay

---------------------------------------------------------------------------
(* Calls, faults and the administrator *)

DsBegin ==
    /\ dc.at = "idle" /\ DsCan("calls", DsMaxCalls)
    /\ \E op \in {"create", "delete", "expand", "inspect", "import"}, q \in DsQuotas :
         /\ op \in {"delete", "import"} => q = CHOOSE z \in DsQuotas : TRUE
         /\ op = "import" => adoption # NoAdoption
         /\ dc' = [DsIdle EXCEPT !.op = op, !.at = "read", !.size = q]
    /\ UNCHANGED <<World, adoption>>

\* A command or a read fails, or the agent restarts: the call is over.
DsFault == dc.at # "idle" /\ DsCan("faults", DsMaxFaults) /\ Return /\ UNCHANGED <<World, adoption>>

DsMove == DsCan("moves", DsMaxMoves) /\ UNCHANGED <<locked, adoption, dc>>

\* zfs mount at the dataset's mountpoint.
AdminMount ==
    /\ DsMove
    /\ \E g \in Exist : /\ MountedAt(g) = {} /\ dset[g].kind = "filesystem"
                        /\ Mounting(g, dset[g].point) /\ stub' = Underneath(dset[g].point)
    /\ UNCHANGED dset

AdminUnmount ==
    /\ DsMove
    /\ \E g \in Exist : MountedAt(g) # {} /\ ~DsBusy(g) /\ mt' = Without(g)
    /\ UNCHANGED <<dset, stub>>

\* Any other filesystem on the managed or the native path.
AdminCovers ==
    /\ DsMove
    /\ \E p \in {"managed", "native"} :
         \/ Other \notin On(p) /\ Mounting(Other, p)
         \/ mountAt(p) = Other /\ ~(p = "managed" /\ DsBusy(Other))
            /\ mt' = [mt EXCEPT ![p] = SubSeq(@, 1, Len(@) - 1)]
    /\ UNCHANGED <<dset, stub>>

AdminDestroys ==
    /\ DsMove
    /\ \E g \in Exist : ~DsBusy(g) /\ dset' = [dset EXCEPT ![g] = LostDataset] /\ mt' = Without(g)
    /\ UNCHANGED stub

\* A new filesystem under a free name, mounted, or a new volume.
AdminCreates ==
    /\ DsMove
    /\ \E g \in DsGuids, n \in {"d", "e"}, p \in {"managed", "native"}, q \in DsQuotas :
         /\ dset[g] = NoDataset /\ Bound(n) = {}
         /\ \/ /\ dset' = [dset EXCEPT ![g] = NewDataset(n, p, q)]
               /\ Mounting(g, p) /\ stub' = Underneath(p)
            \/ /\ dset' = [dset EXCEPT ![g] = [NewDataset(n, p, q) EXCEPT !.kind = "volume"]]
               /\ UNCHANGED <<mt, stub>>

\* zfs rename of datasets that are not mounted.
AdminRenames ==
    /\ DsMove
    /\ Exist # {} /\ \A g \in Exist : MountedAt(g) = {}
    /\ dset' = [g \in DsGuids |-> IF g \in Exist
                                  THEN [dset[g] EXCEPT !.name = IF @ = "d" THEN "e" ELSE "d"]
                                  ELSE dset[g]]
    /\ UNCHANGED <<mt, stub>>

\* zfs set, a mounted child, or files in the root.
AdminSets ==
    /\ DsMove
    /\ \E g \in Exist : \/ \E q \in DsQuotas : dset' = [dset EXCEPT ![g].quota = q]
                        \/ dset' = [dset EXCEPT ![g].share = ~@]
                        \/ dset' = [dset EXCEPT ![g].child = ~@]
                        \/ dset' = [dset EXCEPT ![g].files = TRUE]
    /\ UNCHANGED <<mt, stub>>

DsInit ==
    /\ \E here \in BOOLEAN, p \in {"managed", "native"}, on \in BOOLEAN, q \in DsQuotas :
         LET g == CHOOSE z \in DsGuids : TRUE
         IN /\ dset = [x \in DsGuids |-> IF here /\ x = g THEN NewDataset("d", p, q) ELSE NoDataset]
            /\ mt = [x \in Paths |-> IF here /\ on /\ x = p THEN <<g>> ELSE <<>>]
    /\ stub \in [here : BOOLEAN, open : BOOLEAN, files : BOOLEAN]
    /\ ~stub.here => ~stub.open /\ ~stub.files /\ mt["managed"] = <<>>
    /\ locked = {}
    /\ adoption = NoAdoption
    /\ dc = DsIdle
    /\ dsBounds = [calls |-> 0, moves |-> 0, faults |-> 0]

DsNext ==
    \/ CreateDataset \/ prepareMountpoint \/ prepareBackingPath \/ validateBackingDirectory
    \/ looksAgain \/ protectBackingDirectory \/ createDataset \/ CreateReadback
    \/ ensureMounted \/ EnsureReadback \/ verifyMount
    \/ DeleteDataset \/ DestroyDataset \/ ExpandDataset \/ SetQuota \/ ExpandReadback
    \/ ReadImport \/ InspectImport \/ ImportFilesystem \/ openDatasetPin \/ recheckDatasetPin
    \/ RecheckPath \/ MountProxy \/ VerifyTarget \/ VerifyGuid \/ VerifyState \/ ClosePin
    \/ DsBegin \/ DsFault
    \/ AdminMount \/ AdminUnmount \/ AdminCovers \/ AdminDestroys \/ AdminCreates
    \/ AdminRenames \/ AdminSets

DsSpec == DsInit /\ [][DsNext]_dsVars

---------------------------------------------------------------------------
(* Properties *)

DsTypeOK ==
    /\ \A g \in Exist : dset[g].quota \in DsQuotas /\ dset[g].point \in {"managed", "native"}
    /\ \A p \in Paths : On(p) \subseteq DsGuids \cup {Other}
    /\ locked \subseteq DsGuids \cup {Other}
    /\ dc.fd \in DsGuids \cup {Other, NoGuid, Backing}

\* Preparing the mountpoint never takes the permissions of a mounted
\* filesystem's root, whatever is mounted, unmounted or created at the path
\* between the looks at the mount table ("Never chmod a mounted dataset's
\* root", dataset.go).
RootNeverLocked == locked = {}

\* A pin that ImportFilesystem returns holds the root of the dataset with the
\* recorded GUID, and a proxy that VerifyMount accepted shows that dataset:
\* neither a dataset recreated under the name nor one renamed to it while the
\* path was being opened or mounted by name is served in its place.
PinIsAdopted ==
    /\ dc.op = "import" /\ dc.at \in {"pinned", "target", "guid", "state"} => dc.fd \in {NoGuid, adoption.guid}
    /\ DsAt("import", "verified") => On("proxy") \subseteq {adoption.guid}

=============================================================================
