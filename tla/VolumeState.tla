---------------------------- MODULE VolumeState ----------------------------
(***************************************************************************)
(* The PillarVolumeState object of one volume name and the status writes   *)
(* the controller makes to it (internal/csi/volume_fencing.go).            *)
(*                                                                         *)
(* Every write is updateVolumeState: a fresh read, a check that the object *)
(* still has the UID the caller pinned, a mutation, and a resourceVersion  *)
(* compare-and-swap retried on conflict.  One write is therefore one step  *)
(* on the current object, or an error that changes nothing.  Each write    *)
(* below is a condition under which it commits and the object it commits.  *)
(***************************************************************************)
EXTENDS FencingMark, FiniteSets

CONSTANTS
    Nodes,       \* CSI nodes a volume may be published to
    NoNode,      \* the empty node name
    StorageNode, \* the node hosting the volume's PillarAgent
    Specs        \* the volumes considered

\* What is fixed for a volume when its record is created: MULTI_NODE or
\* SINGLE_NODE access mode, spec.resolved.localAttach, and whether the claim
\* imports an existing zvol.
VolumeSpec == [shareable : BOOLEAN, localAttach : BOOLEAN, imported : BOOLEAN]

ASSUME NodesAssumption == NoNode \notin Nodes
ASSUME SpecsAssumption == Specs \subseteq VolumeSpec

VARIABLE spec  \* of the volume this is about; never changes

Shareable == spec.shareable
LocalAttach == spec.localAttach
Imported == spec.imported

Phases == {"Provisioning", "CreatePartial", "Ready"}

VolumePublication == [node : Nodes, local : BOOLEAN, revoking : BOOLEAN]

PillarVolumeState ==
    [uid : UIDs \cup {NoUID}, gen : Gens, phase : Phases, deleting : BOOLEAN,
     pubs : SUBSET VolumePublication, localAttachNode : Nodes \cup {NoNode},
     importAcquired : BOOLEAN]

NewVolumeState(uid) ==
    [uid |-> uid, gen |-> 0, phase |-> "Provisioning", deleting |-> FALSE,
     pubs |-> {}, localAttachNode |-> NoNode, importAcquired |-> FALSE]

NoVolumeState == NewVolumeState(NoUID)

\* The lifecycle a caller pinned is still the one of the object.
Pinned(s, uid) == uid # NoUID /\ s.uid = uid

\* The bump part of updateVolumeState: the write commits a new generation.
Bump(s) == [s EXCEPT !.gen = @ + 1]

fenceTokenOfNext(s) == [uid |-> s.uid, gen |-> s.gen + 1]

fenceToken(s) == [uid |-> s.uid, gen |-> s.gen]

----------------------------------------------------------------------------
(* CreateVolume: claimOperation, persistCreatePartial, persistVolumeReady. *)

CanClaim(s, uid) == Pinned(s, uid) /\ ~s.deleting

claimOperation(s) == Bump(s)

persistCreatePartial(s) ==
    [s EXCEPT !.phase = "CreatePartial", !.importAcquired = @ \/ Imported]

CanPersistReady(s, uid) == Pinned(s, uid) /\ ~s.deleting

persistVolumeReady(s) == [s EXCEPT !.phase = "Ready"]

----------------------------------------------------------------------------
(* ControllerPublishVolume.                                                *)

\* isLocalAttachPublish: a direct attachment on the storage node.
isLocalAttachPublish(node) == LocalAttach /\ ~Shareable /\ node = StorageNode

Publication(node) ==
    [node |-> node, local |-> isLocalAttachPublish(node), revoking |-> FALSE]

SharesAlways(cur, pub) == cur.node # pub.node \/ cur = pub

\* checkPublicationConflict and canSharePublication.  The local flag of a
\* node never changes here, so records of one node differ only by revoking.
Compatible(cur, pub) ==
    IF cur.node # pub.node THEN Shareable ELSE cur = pub

CanReserve(s, uid, pub) ==
    Pinned(s, uid) /\ ~s.deleting /\ \A cur \in s.pubs : Compatible(cur, pub)

reserveUnfenced(s, pub) ==
    [s EXCEPT !.pubs = @ \cup {pub},
              !.localAttachNode = IF pub.local THEN pub.node ELSE @]

reservePublicationState(s, pub) ==
    Bump([s EXCEPT !.pubs = @ \cup {pub},
                   !.localAttachNode = IF pub.local THEN pub.node ELSE @])

CanClearLocalAttach(s, uid, node) ==
    Pinned(s, uid) /\ (s.localAttachNode = node => \A p \in s.pubs : ~p.local)

clearLocalAttachUnfenced(s, node) ==
    IF s.localAttachNode = node THEN [s EXCEPT !.localAttachNode = NoNode] ELSE s

clearLocalAttachNode(s, node) ==
    IF s.localAttachNode = node THEN Bump([s EXCEPT !.localAttachNode = NoNode])
    ELSE s

----------------------------------------------------------------------------
(* ControllerUnpublishVolume.                                              *)

PublicationsOf(s, node) == {p \in s.pubs : p.node = node}

Revoke(s, node) ==
    (s.pubs \ PublicationsOf(s, node))
        \cup {[p EXCEPT !.revoking = TRUE] : p \in PublicationsOf(s, node)}

fencePublications(s, node) == Bump([s EXCEPT !.pubs = Revoke(s, node)])

\* Only while the generation the revoke was fenced at is still current.
CanRelease(s, tok) == Pinned(s, tok.uid) /\ s.gen = tok.gen

releasePublication(s, node) ==
    Bump([s EXCEPT !.pubs = @ \ PublicationsOf(s, node)])

----------------------------------------------------------------------------
(* DeleteVolume and ReapAbandonedVolume.                                   *)

CanMarkDeletingPublished(s) == s.uid # NoUID

\* The record is already marked, or no publication is recorded.
CanMarkDeleting(s) == s.uid # NoUID /\ (s.deleting \/ s.pubs = {})

markVolumeDeleting(s) ==
    IF s.deleting THEN s ELSE Bump([s EXCEPT !.deleting = TRUE])

neverReleaseOnly(s) == FALSE

\* importNeverAdopted: the teardown must not touch the pre-existing source.
releaseOnlyTeardown(s) == Imported /\ ~s.importAcquired

reapablePhase(s) == s.uid # NoUID /\ s.phase # "Ready"

----------------------------------------------------------------------------
(* desiredVolumeState: what a resync sends, from one read of the object.   *)

\* status.exportSpec is recorded with CreatePartial; a deletion ends resync.
CanResync(s) == s.uid # NoUID /\ ~s.deleting /\ s.phase # "Provisioning"

DesiredHostsWithRevoking(s) == {p.node : p \in {q \in s.pubs : ~q.local}}

DesiredHosts(s) == {p.node : p \in {q \in s.pubs : ~q.local /\ ~q.revoking}}

DesiredLocal(s) == s.localAttachNode # NoNode
=============================================================================
