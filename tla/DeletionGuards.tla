--------------------------- MODULE DeletionGuards ---------------------------
(***************************************************************************)
(* The deletion guards of PillarStorageClass (the binding), PillarStore,   *)
(* PillarProtocol and PillarAgent (internal/controller): each controller   *)
(* keeps a finalizer on its objects until the lists it takes show nothing  *)
(* that needs them.  The lists come from informer caches that lag, each    *)
(* kind on its own, and the volumes they look for are created and deleted  *)
(* meanwhile.                                                              *)
(*                                                                         *)
(* One binding of one store and protocol is in use by one volume, through  *)
(* the StorageClass it generated ("gen") or through a hand-written one     *)
(* ("hand").  Another binding, of another store in the same pool, owns the *)
(* class "other".                                                          *)
(***************************************************************************)
EXTENDS Naturals, Sequences

VARIABLES
    dgClass,     \* the class of the volume's claim
    api,         \* the objects that exist
    cache,       \* the objects the informers show
    terminating, \* the objects with a deletion timestamp
    born,        \* the claims that were created so far
    create,      \* the CreateVolume call: "no", "resolved" or "recorded"
    pass         \* the pass of each controller's worker

dgVars == <<dgClass, api, cache, terminating, born, create, pass>>

Controllers == {"class", "store", "protocol", "agent"}
GuardedBy == [c \in Controllers |-> IF c = "class" THEN "binding" ELSE c]
Configs == {GuardedBy[c] : c \in Controllers}
ClaimUids == {"claim", "reclaim"}                 \* one name, two UIDs
VolumeObjects == {"claim", "rec", "pv"}                  \* the claim, PillarVolumeState and PV of the volume
ObjectKinds == {ClaimUids, {"rec"}, {"pv"}, {"class"}} \cup {{o} : o \in Configs}

\* Where a pass is: idle, at one of its lists, about to delete the generated
\* StorageClass, or about to remove the finalizer.
AtRest == 0
AtClass == 6
AtFinalizer == 7
NotBusy == [at |-> AtRest, seen |-> {}, knew |-> {}]

DgInit ==
    /\ dgClass \in {"gen", "hand"}
    /\ api = Configs \cup {"class"}
    /\ cache = api
    /\ terminating = {} /\ born = {} /\ create = "no"
    /\ pass = [c \in Controllers |-> NotBusy]

\* The store that the StorageClasses of a list belong to: the one whose binding
\* owns the class, or recorded it; a class of no listed binding has none.
storageClassStores(lists) ==
    [n \in {"other"} \cup (IF "binding" \in lists THEN {"gen"} ELSE {}) |->
        IF n = "gen" THEN "store" ELSE "store2"]

\* A volume whose class is attributed blocks that store only; any other volume
\* blocks every store it lies in.
volumeBlocksStore(scName, lists) ==
    IF scName \in DOMAIN storageClassStores(lists)
    THEN storageClassStores(lists)[scName] = "store"
    ELSE TRUE

claimByNameOnly(lists) ==
    IF "claim" \in lists THEN dgClass ELSE IF "reclaim" \in lists THEN "other" ELSE ""

\* The class of the claim that the PillarVolumeState records; a claim of the
\* same name with another UID is another claim.
pvcOfVolumeState(lists) == IF "claim" \in lists THEN dgClass ELSE ""

\* The class a PillarVolumeState is attributed to: that of its PV, else that
\* of its claim, else none.
ClassOfRecord(lists) == IF "pv" \in lists THEN dgClass ELSE pvcOfVolumeState(lists)

\* The blockers among what a pass of each controller has seen.
bindingVolumeReferences(lists) ==
    \/ "pv" \in lists /\ dgClass = "gen"
    \/ /\ "rec" \in lists
       /\ IF ClassOfRecord(lists) = "" THEN {"store", "protocol"} \subseteq lists
                                      ELSE ClassOfRecord(lists) = "gen"

pvcsOfStorageClass(lists) == "claim" \in lists /\ dgClass = "gen"

storeDeletionBlockers(lists) ==
    \/ "binding" \in lists
    \/ "pv" \in lists /\ volumeBlocksStore(dgClass, lists)
    \/ "rec" \in lists /\ volumeBlocksStore(ClassOfRecord(lists), lists)

agentBlockedByPVsOnly(lists) == lists \cap {"store", "pv"} # {}

agentDeletionBlockers(lists) == lists \cap {"store", "pv", "rec"} # {}

protocolDeletionBlockers(lists) == "binding" \in lists

Blocked(c, lists) ==
    CASE c = "class" -> pvcsOfStorageClass(lists) \/ bindingVolumeReferences(lists)
      [] c = "store" -> storeDeletionBlockers(lists)
      [] c = "agent" -> agentDeletionBlockers(lists)
      [] c = "protocol" -> protocolDeletionBlockers(lists)

\* The kinds the pass of a controller lists, in the order of the lists.  The
\* binding's controller reads the claims twice.
ListOrder(c) ==
    CASE c = "class" -> <<ClaimUids, {"store", "protocol"}, {"pv"}, ClaimUids, {"rec"}>>
      [] c = "store" -> <<{"binding", "class"}, {"pv"}, ClaimUids, {"rec"}>>
      [] c = "agent" -> <<{"store"}, {"pv"}, {"rec"}>>
      [] c = "protocol" -> <<{"binding"}>>

PassAt(c) == pass[c].at

\* The k-th list (or Get) of a pass, from the informer.  What blocks after one
\* list blocks after all of them, so the pass ends there.
ListNext(c, k, before, knew) ==
    LET lists == before \cup (cache \cap ListOrder(c)[k]) IN
    pass' = [pass EXCEPT ![c] =
        IF Blocked(c, lists) THEN NotBusy
        ELSE IF k < Len(ListOrder(c)) THEN [at |-> k + 1, seen |-> lists, knew |-> knew]
        ELSE [at |-> IF c = "class" THEN AtClass ELSE AtFinalizer, seen |-> {}, knew |-> knew]]

\* A pass starts for an object that is being deleted and has its finalizer.  A
\* call that fails only makes it start over.
reconcileDelete(c) ==
    /\ PassAt(c) = AtRest
    /\ GuardedBy[c] \in terminating \cap api
    /\ ListNext(c, 1, {}, cache \cap VolumeObjects)
    /\ UNCHANGED <<dgClass, api, cache, terminating, born, create>>

listVolumeReferences(c) ==
    /\ PassAt(c) \in DOMAIN ListOrder(c)
    /\ ListNext(c, PassAt(c), pass[c].seen, pass[c].knew)
    /\ UNCHANGED <<dgClass, api, cache, terminating, born, create>>

\* The binding's controller deletes the generated StorageClass first.
DeleteOwnedClass ==
    /\ PassAt("class") = AtClass
    /\ api' = IF "class" \in cache THEN api \ {"class"} ELSE api
    /\ pass' = [pass EXCEPT !["class"].at = AtFinalizer]
    /\ UNCHANGED <<dgClass, cache, terminating, born, create>>

RemoveFinalizer(c) ==
    /\ PassAt(c) = AtFinalizer
    /\ api' = api \ {GuardedBy[c]}
    /\ pass' = [pass EXCEPT ![c] = NotBusy]
    /\ UNCHANGED <<dgClass, cache, terminating, born, create>>

\* The informer of one kind catches up.
CacheAdvances ==
    /\ \E k \in ObjectKinds :
          /\ cache \cap k # api \cap k
          /\ cache' = (cache \ k) \cup (api \cap k)
    /\ pass' = [c \in Controllers |-> [pass[c] EXCEPT !.knew = @ \cap cache']]
    /\ UNCHANGED <<dgClass, api, terminating, born, create>>

\* CreateVolume reads the configuration the class names; a generated class
\* names its binding, a hand-written one the store and the protocol.
resolveClassLayer ==
    /\ create = "no" /\ "claim" \in api
    /\ {"store", "protocol", "agent"} \subseteq cache
    /\ dgClass = "gen" => {"class", "binding"} \subseteq cache
    /\ create' = "resolved"
    /\ UNCHANGED <<dgClass, api, cache, terminating, born, pass>>

\* It then records the lifecycle, and the provisioner creates the PV once the
\* call succeeded; a call may fail at any time.
RecordVolume ==
    /\ create = "resolved"
    /\ api' = api \cup {"rec"} /\ create' = "recorded"
    /\ UNCHANGED <<dgClass, cache, terminating, born, pass>>

ProvisionVolume ==
    /\ create = "recorded"
    /\ api' = api \cup {"pv"} /\ create' = "no"
    /\ UNCHANGED <<dgClass, cache, terminating, born, pass>>

CreateFails ==
    /\ create # "no" /\ create' = "no"
    /\ UNCHANGED <<dgClass, api, cache, terminating, born, pass>>

\* DeleteVolume, or the reaper when there is no PV, needs the agent; the record
\* goes first and the PV after it.
DestroyVolume ==
    /\ create = "no" /\ "claim" \notin api /\ "agent" \in cache
    /\ \/ "rec" \in api /\ api' = api \ {"rec"}
       \/ "rec" \notin api /\ "pv" \in api /\ api' = api \ {"pv"}
    /\ UNCHANGED <<dgClass, cache, terminating, born, create, pass>>

\* People create, delete and re-create the claim, delete configuration, and
\* remove the record of a volume by force.
EditObjects ==
    /\ \/ \E n \in ClaimUids \ born :
             /\ n = "reclaim" => "claim" \in born \ api
             /\ api' = api \cup {n} /\ born' = born \cup {n} /\ UNCHANGED terminating
       \/ \E n \in ClaimUids \cap api : api' = api \ {n} /\ UNCHANGED <<born, terminating>>
       \/ \E o \in (Configs \cap api) \ terminating :
             terminating' = terminating \cup {o} /\ UNCHANGED <<api, born>>
       \/ /\ {"rec", "pv"} \subseteq api
          /\ api' = api \ {"rec"} /\ UNCHANGED <<born, terminating>>
    /\ UNCHANGED <<dgClass, cache, create, pass>>

DgNext ==
    \/ \E c \in Controllers : reconcileDelete(c) \/ listVolumeReferences(c) \/ RemoveFinalizer(c)
    \/ DeleteOwnedClass \/ CacheAdvances
    \/ resolveClassLayer \/ RecordVolume \/ ProvisionVolume \/ CreateFails \/ DestroyVolume
    \/ EditObjects

DgSpec == DgInit /\ [][DgNext]_dgVars
-----------------------------------------------------------------------------
\* The objects, the caches and the passes keep their type.
DgTypeOK ==
    /\ api \subseteq UNION ObjectKinds /\ cache \subseteq UNION ObjectKinds
    /\ terminating \subseteq Configs /\ born \subseteq ClaimUids
    /\ \A c \in Controllers : pass[c].seen \subseteq UNION ObjectKinds /\ pass[c].knew \subseteq VolumeObjects

\* What of the volume the informers showed to a controller from the start of
\* its pass, and that still exists.
KnownTo(c) == pass[c].knew \cap api

\* No finalizer is removed from an object while a volume that the controller's
\* informers showed throughout its pass needs it, and never out of order: the
\* binding outlives the claims and volumes of its class, the store and the
\* protocol outlive the binding, and the agent outlives its stores and every
\* volume on it (reconcileDelete of the four controllers, volume_references.go).
RemovalIsSafe ==
    \A c \in Controllers : GuardedBy[c] \in api \ api' =>
        CASE c = "class" -> dgClass = "gen" => KnownTo(c) = {}
          [] c = "store" -> "binding" \notin api /\ KnownTo(c) \subseteq {"claim"}
          [] c = "protocol" -> "binding" \notin api
          [] c = "agent" -> "store" \notin api /\ KnownTo(c) \subseteq {"claim"}
=============================================================================
