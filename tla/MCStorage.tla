----------------------------- MODULE MCStorage -----------------------------
(***************************************************************************)
(* For TLC: components that share no state: the targets, imports and       *)
(* recovery, and the configuration objects.  A behaviour is one of the     *)
(* component that part names, while the others are off: the state spaces   *)
(* add up instead of multiplying.                                          *)
(***************************************************************************)
EXTENDS NvmetTarget, LioTarget, ImportClaims, Recovery, NfsExports,
        StorageClassSync, DeletionGuards, TLC

CONSTANTS Parts, c1, c2, l1, l2, o1, o2, v1, v2

VARIABLE part

\* What two claims may ask of the same storage.
Wish(k, l, o) == [kind |-> k, loc |-> l, res |-> o]
OnePlace == l1 :> o1 @@ l2 :> NoResource
TwoPlaces == l1 :> o1 @@ l2 :> o2
ClaimScenarios ==
    {[wish |-> c1 :> Wish("lv", l1, o1) @@ c2 :> Wish("lv", l2, o1), place |-> OnePlace],
     [wish |-> c1 :> Wish("zvol", l1, NoResource) @@ c2 :> Wish("create", l1, NoResource), place |-> OnePlace],
     [wish |-> c1 :> Wish("filesystem", l1, NoResource) @@ c2 :> Wish("filesystem", l1, NoResource),
      place |-> TwoPlaces]}

\* Both exports ask for a transfer limit of their port, one for a smaller one.
\* The first may be an old export that left the port without a limit.
Limits == v1 :> 2 @@ v2 :> 1
InlineSizes == v1 :> 0 @@ v2 :> 0

Components == <<part, nvmetVars, lioVars, icVars, recVars, nfVars, scVars, dgVars>>

\* A component that is not explored has no state.
Off == "off"
NvOff ==
    /\ subsys = Off /\ port = Off /\ hostDirs = Off /\ idRecord = Off /\ restorePending = Off
    /\ nvOp = Off /\ portLock = Off /\ hostLock = Off /\ targetLock = Off /\ held = Off /\ listed = Off
    /\ refused = Off /\ cachedId = Off /\ raced = Off /\ mdtsAttr = Off /\ boot = Off /\ nvCalls = Off
    /\ nvFaults = Off
LioOff ==
    /\ tpg = Off /\ acl = Off /\ lioOp = Off /\ lioHeld = Off /\ lioRecord = Off /\ lioGranted = Off
    /\ lioWithdrawn = Off /\ lioPending = Off /\ lioBoot = Off /\ lioCalls = Off /\ lioFaults = Off
IcOff ==
    /\ wish = Off /\ claimed = Off /\ pvs = Off /\ rsv = Off /\ serial = Off /\ place = Off
    /\ mark = Off /\ owners = Off /\ call = Off /\ sent = Off /\ moves = Off /\ claimCalls = Off
RecOff ==
    /\ seen = Off /\ durable = Off /\ serves = {} /\ intent = Off /\ grant = Off /\ pipe = Off
    /\ late = Off /\ told = {} /\ recFaults = Off /\ recRetries = Off
NfOff ==
    /\ owner = Off /\ mgr = Off /\ mu = Off /\ etab = Off /\ nfsd = Off /\ helper = Off
    /\ exportDir = Off /\ fsMark = Off /\ fsNext = Off /\ nfOp = Off /\ todo = Off /\ withdrawn = Off
    /\ nfCalls = Off /\ nfFaults = Off /\ nfBoots = Off
ScOff ==
    /\ class = Off /\ binding = Off /\ classC = Off /\ bindingC = Off /\ so = Off
    /\ promise = Off /\ scBounds = Off
DgOff ==
    /\ dgClass = Off /\ api = Off /\ cache = Off /\ terminating = Off /\ born = Off
    /\ create = Off /\ pass = Off

\* A kernel without param_mdts may come with a reboot.
StorageInit ==
    /\ part \in Parts
    /\ IF part = "nvmet" THEN NvInit /\ mdtsAttr ELSE NvOff
    /\ IF part = "lio" THEN LioInit ELSE LioOff
    /\ IF part = "claims" THEN InitIC ELSE IcOff
    /\ IF part = "recovery" THEN RecInit ELSE RecOff
    /\ IF part = "nfs" THEN NfInit ELSE NfOff
    /\ IF part = "class" THEN ScInit ELSE ScOff
    /\ IF part = "guards" THEN DgInit ELSE DgOff

\* The components but p stand still.
Still(p) ==
    /\ UNCHANGED part
    /\ IF p = "nvmet" THEN TRUE ELSE UNCHANGED nvmetVars
    /\ IF p = "lio" THEN TRUE ELSE UNCHANGED lioVars
    /\ IF p = "claims" THEN TRUE ELSE UNCHANGED icVars
    /\ IF p = "recovery" THEN TRUE ELSE UNCHANGED recVars
    /\ IF p = "nfs" THEN TRUE ELSE UNCHANGED nfVars
    /\ IF p = "class" THEN TRUE ELSE UNCHANGED scVars
    /\ IF p = "guards" THEN TRUE ELSE UNCHANGED dgVars

StorageNext ==
    \/ part = "nvmet" /\ NvNext /\ Still("nvmet")
    \/ part = "lio" /\ LioNext /\ Still("lio")
    \/ part = "claims" /\ NextIC /\ Still("claims")
    \/ part = "recovery" /\ RecNext /\ Still("recovery")
    \/ part = "nfs" /\ NfNext /\ Still("nfs")
    \/ part = "class" /\ ScNext /\ Still("class")
    \/ part = "guards" /\ DgNext /\ Still("guards")

StorageSpec == StorageInit /\ [][StorageNext]_Components

\* The state of every component keeps its type.
StorageTypeOK ==
    CASE part = "nvmet" -> NvTypeOK
      [] part = "lio" -> LioTypeOK
      [] part = "claims" -> TypeOKIC
      [] part = "recovery" -> RecTypeOK
      [] part = "nfs" -> NfTypeOK
      [] part = "class" -> ScTypeOK
      [] part = "guards" -> DgTypeOK

\* Exports that share an NVMe-oF port and host entries do not disturb each
\* other: the namespace identity an initiator cached is the one it finds again
\* after any restart or failure, a transfer limit the port advertises is one
\* that every export linked to it allows, and creating and pruning the shared
\* entries never collide (nvme_identity.go, ensureMDTSLocked, hostLock and portLock).
SharedTargetHolds ==
    part = "nvmet" => NamespaceIdentityKept /\ PortHonoursLimits /\ NothingRaces

\* The targets serve a client only on the strength of a record.  iSCSI and NFS:
\* every initiator ACL and every line of the kernel's export table was recorded
\* before it was made, and what a successful withdrawal took away stays away
\* across failures, restarts and reboots (lio/target.go, nfs/manager.go); an
\* iSCSI portal that answers serves the LUN to every granted initiator.  NVMe-oF:
\* after a restart no port answers before every export of the complete request
\* is prepared, its identity and initiators included, or was refused
\* (protocol_handler.go Reconcile, server_export_restore.go).
ServesOnlyGranted ==
    [][CASE part = "lio" -> LioServesGranted' /\ LioWithdrawalHolds'
         [] part = "nfs" -> LedgerIsAhead' /\ WithdrawalHolds'
         [] part = "nvmet" -> ListensRestored
         [] OTHER -> TRUE]_Components

\* OneLifecyclePerSource: no two lifecycles ever own the same LV, zvol or
\* filesystem, however their reservations, adoptions and deletions interleave
\* (import_reservation.go, the agent's claim of the resource).
SourceHasOneLifecycle == part = "claims" => OneLifecyclePerSource

\* The configuration of a volume stays while it is needed.  RemovalIsSafe: no
\* finalizer is removed out of order or from under a volume the controller's
\* informers show.  MetadataKept: re-creating a StorageClass loses nothing an
\* administrator put on it.  ForeignKept: while the binding lives, its passes
\* leave alone a class that another object controls (volume_references.go,
\* pillarstorageclass_controller.go).
ConfigurationKept ==
    [][CASE part = "guards" -> RemovalIsSafe
         [] part = "class" -> MetadataKept' /\ ForeignKept
         [] OTHER -> TRUE]_Components
=============================================================================
