--------------------------- MODULE VolumeControl ---------------------------
(***************************************************************************)
(* The life of one volume name across the controller, the API server and   *)
(* the agent of its storage node.                                          *)
(*                                                                         *)
(* A worker is one running call of a controller process: a CSI call, an    *)
(* export resync or restore, or the reaper.  Workers share nothing but the *)
(* PillarVolumeState: the per-volume lock orders the calls of one process  *)
(* only, "it does not order this call against another controller process"  *)
(* (export_resync.go), and CreateVolume does not take it.                  *)
(*                                                                         *)
(* A call may time out or lose its process between any two steps.  The     *)
(* agent request it then leaves behind still executes at some later time,  *)
(* or never.  A status write and the request sent right after it are one   *)
(* step: a crash between them is a request that never executes.            *)
(*                                                                         *)
(* The agent serves a request in one step.  FencedAgent models what is     *)
(* inside that step, and shows that it acts as one.                        *)
(***************************************************************************)
EXTENDS VolumeState

CONSTANTS
    Workers,    \* calls that run at the same time
    Foreign,    \* owner of the zvol before any lifecycle adopted it
    Calls,      \* the controller's entry points that are used
    Faults,     \* agent faults that happen: "restart", "reboot"
    StartReady, \* TRUE: start with a volume that is Ready
    MaxStray    \* bound on requests left behind

ASSUME ForeignAssumption == Foreign \notin UIDs \cup {NoUID}
ASSUME MaxStrayAssumption == MaxStray \in Nat
ASSUME StartReadyAssumption == StartReady \in BOOLEAN /\ (StartReady => 2 \in Gens)

VARIABLES
    pvs,      \* the PillarVolumeState of the name, or NoVolumeState
    used,     \* UIDs the API server has handed out
    claim,    \* the PersistentVolumeClaim still exists
    pv,       \* a PersistentVolume refers to the volume
    worker,   \* the calls
    stray,    \* requests whose caller is gone
    mark,     \* the agent's fencing mark of the volume ID
    vol,      \* owner of the backend volume, NoUID when there is none
    exp,      \* the target: exported, hosts in its ACL, namespace enabled
    gated,    \* exportRestorePending
    reported, \* history: lifecycles whose CreateVolume reported success
    reaped,   \* history: lifecycles the reaper marked deleting
    overlap,  \* history: two CreateVolume calls of the name ran at once
    granted,  \* history: nodes whose publish succeeded and still stands
    voided    \* history: publish calls an unpublish or a reboot overtook

object == <<spec, pvs, used>>
cluster == <<claim, pv>>
agent == <<mark, vol, exp, gated>>
history == <<reported, reaped, overlap, granted, voided>>
vars == <<object, cluster, worker, stray, agent, history>>

Kinds == {"create", "export", "unexport", "delete", "release", "allow",
          "deny", "attach", "reconcile", "restore"}

Request == [kind : Kinds, tok : Token, node : Nodes \cup {NoNode},
            hosts : SUBSET Nodes, local : BOOLEAN]

NoRequest == [kind |-> "none"]

\* What a worker does next, or which answer it waits for.
Waits == {"backend", "export", "unexport", "destroy", "release", "local",
          "enable", "reenable", "grant", "deny"}
PCs == Waits \cup {"idle", "ensure", "claimBackend", "resume", "claimExport",
                   "reap", "reserve"}

IdleWorker == [pc |-> "idle", tok |-> NoToken, node |-> NoNode, seen |-> NoNode,
               req |-> NoRequest, answered |-> FALSE]

NoExport == [up |-> FALSE, hosts |-> {}, on |-> TRUE]

TypeOK ==
    /\ spec \in VolumeSpec
    /\ pvs \in PillarVolumeState
    /\ used \subseteq UIDs
    /\ claim \in BOOLEAN /\ pv \in BOOLEAN /\ gated \in BOOLEAN
    /\ worker \in [Workers -> [pc : PCs, tok : Token, node : Nodes \cup {NoNode},
                               seen : Nodes \cup {NoNode},
                               req : Request \cup {NoRequest},
                               answered : BOOLEAN]]
    /\ stray \subseteq Request
    /\ mark \in fencingMark
    /\ vol \in UIDs \cup {NoUID, Foreign}
    /\ exp \in [up : BOOLEAN, hosts : SUBSET Nodes, on : BOOLEAN]
    /\ reported \subseteq UIDs /\ reaped \subseteq UIDs
    /\ overlap \in BOOLEAN
    /\ granted \subseteq Nodes /\ voided \subseteq Workers

InitEmpty ==
    /\ pvs = NoVolumeState /\ used = {}
    /\ mark = ZeroMark
    /\ vol = IF Imported THEN Foreign ELSE NoUID
    /\ exp = NoExport
    /\ pv = FALSE /\ reported = {}

\* What CreateVolume leaves: two generations claimed, backend and export up.
InitReady ==
    \E u \in UIDs :
        LET s == persistVolumeReady(persistCreatePartial(
                     claimOperation(claimOperation(NewVolumeState(u)))))
        IN /\ pvs = s /\ used = {u}
           /\ mark = AdmittedMark(fenceToken(s), ZeroMark)
           /\ vol = u
           /\ exp = [NoExport EXCEPT !.up = TRUE]
           /\ pv = TRUE /\ reported = {u}

Init ==
    /\ spec \in Specs
    /\ IF StartReady THEN InitReady ELSE InitEmpty
    /\ claim = TRUE
    /\ worker = [w \in Workers |-> IdleWorker]
    /\ stray = {}
    /\ gated = FALSE
    /\ reaped = {} /\ overlap = FALSE /\ granted = {} /\ voided = {}

----------------------------------------------------------------------------
(* Steps of a worker.                                                      *)

Idle(w) == worker[w].pc = "idle"

NewRequest(kind, tok) ==
    [kind |-> kind, tok |-> tok, node |-> NoNode, hosts |-> {}, local |-> FALSE]

\* The worker sends req and waits for its answer.
Call(w, pc, req) ==
    worker' = [worker EXCEPT ![w].pc = pc, ![w].tok = req.tok,
                             ![w].req = req, ![w].answered = FALSE]

Proceed(w, pc, uid) ==
    worker' = [worker EXCEPT ![w].pc = pc, ![w].tok = [uid |-> uid, gen |-> 0],
                             ![w].req = NoRequest, ![w].answered = FALSE]

Return(w) == worker' = [worker EXCEPT ![w] = IdleWorker]

Waiting(w) == worker[w].req # NoRequest /\ ~worker[w].answered

Answered(w, pc) == worker[w].pc = pc /\ worker[w].answered

\* updateVolumeState's write; Gens bounds the generations explored.
Commit(s) == s.gen \in Gens /\ pvs' = s /\ UNCHANGED <<spec, used>>

----------------------------------------------------------------------------
(* CreateVolume.                                                           *)

Creating(w) == worker[w].pc \in {"ensure", "claimBackend", "backend", "resume",
                                 "claimExport", "export"}

\* A Ready volume is answered from its record.  Otherwise the claim must
\* still exist (refuseAbandonedClaim).
BeginCreate(w) ==
    /\ "CreateVolume" \in Calls
    /\ Idle(w)
    /\ IF pvs.uid # NoUID /\ pvs.phase = "Ready" /\ ~pvs.deleting
       THEN reported' = reported \cup {pvs.uid} /\ UNCHANGED <<worker, overlap>>
       ELSE /\ claim /\ Proceed(w, "ensure", NoUID)
            /\ overlap' = (overlap \/ \E v \in Workers : Creating(v))
            /\ UNCHANGED reported
    /\ UNCHANGED <<object, cluster, stray, agent, reaped, granted, voided>>

\* The record is durable before any agent call; a lifecycle in
\* CreatePartial has its backend volume and only exports it again.
EnsureVolumeState(w) ==
    /\ worker[w].pc = "ensure"
    /\ \/ /\ pvs.uid = NoUID
          /\ \E u \in UIDs \ used :
                /\ pvs' = NewVolumeState(u) /\ used' = used \cup {u}
                /\ UNCHANGED spec
                /\ Proceed(w, "claimBackend", u)
       \/ /\ pvs.uid # NoUID /\ ~pvs.deleting
          /\ Proceed(w, IF pvs.phase = "CreatePartial" THEN "resume"
                        ELSE "claimBackend", pvs.uid)
          /\ UNCHANGED object
    /\ UNCHANGED <<cluster, stray, agent, history>>

\* createBackend / importBackend: claim a generation, call the agent.
CreateBackend(w) ==
    /\ worker[w].pc = "claimBackend"
    /\ CanClaim(pvs, worker[w].tok.uid)
    /\ Commit(claimOperation(pvs))
    /\ Call(w, "backend", NewRequest("create", fenceToken(pvs')))
    /\ UNCHANGED <<cluster, stray, agent, history>>

CommitBackend(w) ==
    /\ Answered(w, "backend")
    /\ Pinned(pvs, worker[w].tok.uid)
    /\ Commit(persistCreatePartial(pvs))
    /\ Proceed(w, "claimExport", worker[w].tok.uid)
    /\ UNCHANGED <<cluster, stray, agent, history>>

\* A retry records the partial state again when its export spec differs.
ResumePartial(w) ==
    /\ worker[w].pc = "resume"
    /\ \/ Pinned(pvs, worker[w].tok.uid) /\ Commit(persistCreatePartial(pvs))
       \/ UNCHANGED object
    /\ Proceed(w, "claimExport", worker[w].tok.uid)
    /\ UNCHANGED <<cluster, stray, agent, history>>

ExportVolume(w) ==
    /\ worker[w].pc = "claimExport"
    /\ CanClaim(pvs, worker[w].tok.uid)
    /\ Commit(claimOperation(pvs))
    /\ Call(w, "export", NewRequest("export", fenceToken(pvs')))
    /\ UNCHANGED <<cluster, stray, agent, history>>

\* Success is reported after the Ready record; a crash may intervene.
RecordReady(w) ==
    /\ Answered(w, "export")
    /\ CanPersistReady(pvs, worker[w].tok.uid)
    /\ Commit(persistVolumeReady(pvs))
    /\ reported' \in {reported, reported \cup {pvs.uid}}
    /\ Return(w)
    /\ UNCHANGED <<cluster, stray, agent, reaped, overlap, granted, voided>>

----------------------------------------------------------------------------
(* DeleteVolume and ReapAbandonedVolume: mark, tear down, forget.          *)

teardownMarkedVolume(w, s) ==
    IF releaseOnlyTeardown(s)
    THEN Call(w, "release", NewRequest("release", fenceToken(s)))
    ELSE Call(w, "unexport", NewRequest("unexport", fenceToken(s)))

DeleteVolume(w) ==
    /\ "DeleteVolume" \in Calls
    /\ Idle(w)
    /\ CanMarkDeleting(pvs)
    /\ Commit(markVolumeDeleting(pvs))
    /\ teardownMarkedVolume(w, pvs')
    /\ UNCHANGED <<cluster, stray, agent, history>>

\* provisioningAbandoned: claim and PersistentVolume are read before the
\* mark is committed.
BeginReap(w) ==
    /\ "ReapAbandonedVolume" \in Calls
    /\ Idle(w)
    /\ reapablePhase(pvs) /\ ~claim /\ ~pv
    /\ Proceed(w, "reap", pvs.uid)
    /\ UNCHANGED <<object, cluster, stray, agent, history>>

ReapUnchecked(w) ==
    /\ worker[w].pc = "reap"
    /\ CanMarkDeleting(pvs)
    /\ Commit(markVolumeDeleting(pvs))
    /\ teardownMarkedVolume(w, pvs')
    /\ reaped' = IF pvs.deleting THEN reaped ELSE reaped \cup {pvs.uid}
    /\ UNCHANGED <<cluster, stray, agent, reported, overlap, granted, voided>>

\* The phase is checked again inside the write that marks the lifecycle.
ReapAbandoned(w) ==
    /\ worker[w].pc = "reap"
    /\ CanMarkDeleting(pvs)
    /\ pvs.deleting \/ (pvs.uid = worker[w].tok.uid /\ reapablePhase(pvs))
    /\ Commit(markVolumeDeleting(pvs))
    /\ teardownMarkedVolume(w, pvs')
    /\ reaped' = IF pvs.deleting THEN reaped ELSE reaped \cup {pvs.uid}
    /\ UNCHANGED <<cluster, stray, agent, reported, overlap, granted, voided>>

DestroyBackend(w) ==
    /\ Answered(w, "unexport")
    /\ Call(w, "destroy", NewRequest("delete", worker[w].tok))
    /\ UNCHANGED <<object, cluster, stray, agent, history>>

\* The record goes last, and only the one of this lifecycle.
FinishDelete(w) ==
    /\ Answered(w, "destroy") \/ Answered(w, "release")
    /\ pvs' = IF Pinned(pvs, worker[w].tok.uid) THEN NoVolumeState ELSE pvs
    /\ Return(w)
    /\ UNCHANGED <<spec, used, cluster, stray, agent, history>>

----------------------------------------------------------------------------
(* ControllerPublishVolume.                                                *)

\* resolvePublishTarget: the record read here is used to the end.
BeginPublish(w, node) ==
    /\ "ControllerPublishVolume" \in Calls
    /\ Idle(w)
    /\ pvs.uid # NoUID /\ ~releaseOnlyTeardown(pvs)
    /\ worker' = [worker EXCEPT ![w].pc = "reserve", ![w].node = node,
                                ![w].tok = [uid |-> pvs.uid, gen |-> 0],
                                ![w].seen = pvs.localAttachNode]
    /\ voided' = voided \ {w}
    /\ UNCHANGED <<object, cluster, stray, agent, reported, reaped, overlap, granted>>

SetLocalAttach(w, pc, local, tok) ==
    Call(w, pc, [NewRequest("attach", tok) EXCEPT !.local = local])

AllowInitiator(w, tok) ==
    Call(w, "grant", [NewRequest("allow", tok) EXCEPT !.node = worker[w].node])

\* Reserve, then start finishLocalPublish, restorePublishedExport or the
\* grant.
ReservePublication(w) ==
    LET pub == Publication(worker[w].node) IN
    /\ worker[w].pc = "reserve"
    /\ CanReserve(pvs, worker[w].tok.uid, pub)
    /\ Commit(reservePublicationState(pvs, pub))
    /\ IF pub.local THEN SetLocalAttach(w, "local", TRUE, fenceToken(pvs'))
       ELSE IF LocalAttach THEN SetLocalAttach(w, "enable", FALSE, fenceToken(pvs'))
       ELSE AllowInitiator(w, fenceToken(pvs'))
    /\ UNCHANGED <<cluster, stray, agent, history>>

\* Returning from local attach: clear the record under a new generation and
\* enable again at that generation.
ClearLocalAttach(w) ==
    /\ Answered(w, "enable") /\ worker[w].seen # NoNode
    /\ CanClearLocalAttach(pvs, worker[w].tok.uid, worker[w].seen)
    /\ Commit(clearLocalAttachNode(pvs, worker[w].seen))
    /\ SetLocalAttach(w, "reenable", FALSE, fenceToken(pvs'))
    /\ UNCHANGED <<cluster, stray, agent, history>>

GrantPublication(w) ==
    /\ \/ Answered(w, "enable") /\ worker[w].seen = NoNode
       \/ Answered(w, "reenable")
    /\ AllowInitiator(w, worker[w].tok)
    /\ UNCHANGED <<object, cluster, stray, agent, history>>

FinishPublish(w) ==
    /\ Answered(w, "grant") \/ Answered(w, "local")
    /\ Return(w)
    /\ granted' = IF w \in voided THEN granted ELSE granted \cup {worker[w].node}
    /\ UNCHANGED <<object, cluster, stray, agent, reported, reaped, overlap, voided>>

----------------------------------------------------------------------------
(* ControllerUnpublishVolume.                                              *)

\* fencePublications, then DenyInitiator; a local publication has no
\* initiator to deny.
FencePublications(w, node) ==
    /\ "ControllerUnpublishVolume" \in Calls
    /\ Idle(w)
    /\ PublicationsOf(pvs, node) # {}
    /\ Commit(fencePublications(pvs, node))
    /\ worker' = [worker EXCEPT
            ![w].pc = "deny", ![w].tok = fenceToken(pvs'), ![w].node = node,
            ![w].req = [NewRequest("deny", fenceToken(pvs')) EXCEPT !.node = node],
            ![w].answered = isLocalAttachPublish(node)]
    /\ granted' = granted \ {node}
    /\ voided' = voided \cup {v \in Workers : worker[v].node = node}
    /\ UNCHANGED <<cluster, stray, agent, reported, reaped, overlap>>

ReleasePublication(w) ==
    /\ Answered(w, "deny")
    /\ CanRelease(pvs, worker[w].tok)
    /\ Commit(releasePublication(pvs, worker[w].node))
    /\ Return(w)
    /\ UNCHANGED <<cluster, stray, agent, history>>

----------------------------------------------------------------------------
(* Export resync.  Its outcome is only recorded on a condition, so the     *)
(* request is sent without a waiting worker.                               *)

Desired(kind) ==
    [NewRequest(kind, fenceToken(pvs)) EXCEPT !.hosts = DesiredHosts(pvs),
                                              !.local = DesiredLocal(pvs)]

Leave(req) == Cardinality(stray) < MaxStray /\ stray' = stray \cup {req}

ReconcileVolumeExport ==
    /\ "ReconcileVolumeExport" \in Calls
    /\ CanResync(pvs)
    /\ Leave(Desired("reconcile"))
    /\ UNCHANGED <<object, cluster, worker, agent, history>>

\* The complete state of the agent is sent even when it exports nothing.
RestoreAgentExports ==
    /\ gated
    /\ Leave(IF CanResync(pvs) THEN Desired("restore")
             ELSE NewRequest("restore", NoToken))
    /\ UNCHANGED <<object, cluster, worker, agent, history>>

\* A call returns an error, times out, or its process dies.  A request not
\* yet answered may still arrive.
Abandon(w) ==
    /\ ~Idle(w)
    /\ Return(w)
    /\ UNCHANGED stray \/ (Waiting(w) /\ Leave(worker[w].req))
    /\ UNCHANGED <<object, cluster, agent, history>>

----------------------------------------------------------------------------
(* The agent serves one request.                                           *)

Class(kind) == CASE kind \in {"unexport", "deny", "release"} -> "revoke"
                 [] kind = "delete" -> "destroy"
                 [] OTHER -> "grant"

Gatekept == {"export", "allow", "attach", "reconcile"}

\* Reconcile prepares and links the export; an absent device fails it.
Reconciled(r) == [up |-> TRUE, hosts |-> r.hosts, on |-> ~r.local]

Mutate(r) ==
    \/ /\ r.kind = "create" /\ (Imported => vol # NoUID)
       /\ vol' = r.tok.uid /\ UNCHANGED exp
    \/ /\ r.kind = "export" /\ vol # NoUID
       /\ exp' = [exp EXCEPT !.up = TRUE, !.on = TRUE] /\ UNCHANGED vol
    \/ r.kind = "unexport" /\ exp' = NoExport /\ UNCHANGED vol
    \/ r.kind = "delete" /\ vol' = NoUID /\ UNCHANGED exp
    \/ /\ r.kind = "allow"
       /\ exp' = [exp EXCEPT !.hosts = @ \cup {r.node}] /\ UNCHANGED vol
    \/ /\ r.kind = "deny"
       /\ exp' = [exp EXCEPT !.hosts = @ \ {r.node}] /\ UNCHANGED vol
    \/ /\ r.kind = "attach" /\ exp.up
       /\ exp' = [exp EXCEPT !.on = ~r.local] /\ UNCHANGED vol
    \/ /\ r.kind \in {"reconcile", "restore"} /\ vol # NoUID
       /\ exp' = Reconciled(r) /\ UNCHANGED vol

AppliedMark(r) ==
    LET m == AdmittedMark(r.tok, mark)
    IN IF r.kind = "delete" THEN EndedMark(m) ELSE m

Admitted(r) == Admits(r.tok, Class(r.kind), mark)

\* The request is admitted and its mutation succeeds.
Apply(r) ==
    /\ r.kind # "release"
    /\ r.kind \in Gatekept => ~gated
    /\ Admitted(r)
    /\ mark' = AppliedMark(r)
    /\ Mutate(r)
    /\ gated' = (gated /\ r.kind # "restore")

\* ReleaseVolume: unexport what the lifecycle owns, then retire it.
ReleaseVolume(r) ==
    /\ r.kind = "release"
    /\ UNCHANGED gated
    /\ \/ AlreadyRetired(r.tok, mark) /\ UNCHANGED <<mark, vol, exp>>
       \/ /\ ~AlreadyRetired(r.tok, mark) /\ r.tok.uid # mark.uid
          /\ mark' = RetireDisowned(r.tok, mark) /\ UNCHANGED <<vol, exp>>
       \/ /\ Owns(r.tok, mark) /\ Admitted(r)
          /\ mark' = RetireOwned(r.tok, mark)
          /\ vol' = IF vol = r.tok.uid THEN Foreign ELSE vol
          /\ exp' = NoExport

\* The request fails: refused, or admitted and failing before it changed
\* the resource.  A restore opens the gate whatever becomes of its items.
Fail(r) ==
    /\ mark' \in {mark} \cup {m \in {AdmittedMark(r.tok, mark)} :
                                  Admitted(r) /\ r.kind # "release"}
    /\ gated' = (gated /\ r.kind # "restore")
    /\ UNCHANGED <<vol, exp>>

Serve(w) ==
    /\ Waiting(w)
    /\ Apply(worker[w].req) \/ ReleaseVolume(worker[w].req)
    /\ worker' = [worker EXCEPT ![w].answered = TRUE]
    /\ UNCHANGED <<object, cluster, stray, history>>

ServeFails(w) ==
    /\ Waiting(w)
    /\ Fail(worker[w].req)
    /\ Return(w)
    /\ UNCHANGED <<object, cluster, stray, history>>

ServeStray(r) ==
    /\ r \in stray
    /\ Apply(r) \/ ReleaseVolume(r) \/ Fail(r)
    /\ stray' = stray \ {r}
    /\ UNCHANGED <<object, cluster, worker, history>>

\* The agent process restarts: nothing is exported for single volumes until
\* the controller sent the complete state.
Restart ==
    /\ "restart" \in Faults
    /\ gated' = TRUE
    /\ UNCHANGED <<object, cluster, worker, stray, mark, vol, exp, history>>

\* The storage node reboots: its target configuration is gone.
Reboot ==
    /\ "reboot" \in Faults
    /\ gated' = TRUE /\ exp' = NoExport
    /\ granted' = {} /\ voided' = Workers
    /\ UNCHANGED <<object, cluster, worker, stray, mark, vol, reported, reaped, overlap>>

----------------------------------------------------------------------------
(* The claim's owner, and the provisioner acting on a reported success.    *)

DeleteClaim ==
    /\ "ReapAbandonedVolume" \in Calls
    /\ claim /\ claim' = FALSE
    /\ UNCHANGED <<object, pv, worker, stray, agent, history>>

CreatePersistentVolume ==
    /\ "ReapAbandonedVolume" \in Calls
    /\ ~pv /\ pvs.uid \in reported
    /\ pv' = TRUE
    /\ UNCHANGED <<object, claim, worker, stray, agent, history>>

\* Reclaim policy Retain: the object goes, the volume stays.
DeletePersistentVolume ==
    /\ "ReapAbandonedVolume" \in Calls
    /\ pv /\ pv' = FALSE
    /\ UNCHANGED <<object, claim, worker, stray, agent, history>>

----------------------------------------------------------------------------
CreateStep(w) ==
    \/ BeginCreate(w) \/ EnsureVolumeState(w) \/ CreateBackend(w)
    \/ CommitBackend(w) \/ ResumePartial(w) \/ ExportVolume(w) \/ RecordReady(w)

DeleteStep(w) ==
    \/ DeleteVolume(w) \/ BeginReap(w) \/ ReapAbandoned(w)
    \/ DestroyBackend(w) \/ FinishDelete(w)

PublishStep(w) ==
    \/ \E n \in Nodes : BeginPublish(w, n)
    \/ ReservePublication(w) \/ ClearLocalAttach(w) \/ GrantPublication(w)
    \/ FinishPublish(w)

UnpublishStep(w) ==
    \/ \E n \in Nodes : FencePublications(w, n)
    \/ ReleasePublication(w)

AgentStep ==
    \/ \E w \in Workers : Serve(w) \/ ServeFails(w)
    \/ \E r \in stray : ServeStray(r)
    \/ Restart \/ Reboot

ClusterStep ==
    DeleteClaim \/ CreatePersistentVolume \/ DeletePersistentVolume

Next ==
    \/ \E w \in Workers :
          CreateStep(w) \/ DeleteStep(w) \/ PublishStep(w) \/ UnpublishStep(w)
          \/ Abandon(w)
    \/ ReconcileVolumeExport \/ RestoreAgentExports
    \/ AgentStep
    \/ ClusterStep

Spec == Init /\ [][Next]_vars

----------------------------------------------------------------------------
(* Properties.                                                             *)

\* A host is in the ACL only while the current record still names its node
\* in a network publication.  revokePublications keeps the record until the
\* revoke succeeded, and no delayed grant, resync or restore of an earlier
\* generation or lifecycle can put the host back once the record is gone.
NoUnrecordedGrant ==
    \A n \in exp.hosts : \E p \in pvs.pubs : p.node = n /\ ~p.local

\* While a successful publish stands, that is until its node is unpublished
\* or the storage node reboots, no other call and no delayed request takes
\* its access away: a network publication keeps its host in the ACL of an
\* enabled namespace, a local one keeps the namespace disabled
\* (ControllerPublishVolume, restorePublishedExport).
GrantsStand ==
    \A n \in granted : IF isLocalAttachPublish(n) THEN ~exp.up \/ ~exp.on
                        ELSE n \in exp.hosts /\ exp.on

\* Two nodes never hold successful publications of a SINGLE_NODE volume at
\* once, and a second host is never admitted, however publishes on several
\* controllers interleave (checkPublicationConflict).
SingleNodeExclusive ==
    ~Shareable => Cardinality(granted) <= 1 /\ Cardinality(exp.hosts) <= 1

\* A backend volume or target never outlives the record of the lifecycle
\* that owns it: CreateVolume writes the record before any agent call,
\* DeleteVolume removes it last, and a delayed create, export or resync of
\* an ended lifecycle brings nothing back.
NothingOrphaned ==
    /\ vol \in UIDs => pvs.uid = vol
    /\ exp.up => vol \in UIDs

\* A backend volume is destroyed only for a lifecycle marked deleting, with
\* no standing publication, and never before that lifecycle adopted it
\* (markVolumeDeleting, releaseOnlyTeardown).
DestroysOnlyRetired ==
    [][vol # NoUID /\ vol' = NoUID =>
           vol \in UIDs /\ pvs.uid = vol /\ pvs.deleting /\ granted = {}]_vars

\* The reaper ends no lifecycle whose CreateVolume reported success:
\* "CreateVolume reports success only after the record is Ready, so a
\* lifecycle that is not Ready never had a PersistentVolume"
\* (volume_reap.go).
ReapsNothingReported == reaped \cap reported = {}

\* The same as long as no two CreateVolume calls of the name overlapped: a
\* claim, its PersistentVolume and the record may change between the
\* reaper's reads and its write, and its write checks the phase again
\* (ReapAbandonedVolume).
ReapsOnlyUnreported == overlap \/ ReapsNothingReported

----------------------------------------------------------------------------
(* Liveness.  The caller retries DeleteVolume until it succeeds; a step    *)
(* that is tried again and again does not fail every time; a call that     *)
(* waits forever runs into its deadline.                                   *)

ServeDelete(pc) == \E w \in Workers : worker[w].pc = pc /\ Serve(w)

Fairness ==
    /\ \A w \in Workers : WF_vars(Abandon(w))
    /\ SF_vars(\E w \in Workers : DeleteVolume(w))
    /\ \A pc \in {"unexport", "destroy", "release"} : SF_vars(ServeDelete(pc))
    /\ SF_vars(\E w \in Workers : DestroyBackend(w))
    /\ SF_vars(\E w \in Workers : FinishDelete(w))

FairSpec == Spec /\ Fairness

\* A lifecycle marked deleting is eventually gone, whatever the calls and
\* requests of other controllers do in between: "Any failure keeps the
\* record (still marked deleting) for the retry" (teardownMarkedVolume).
DeletionCompletes ==
    \A u \in UIDs : (pvs.uid = u /\ pvs.deleting) ~> (pvs.uid # u)
=============================================================================
