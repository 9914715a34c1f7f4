------------------------- MODULE VolumeCore_proofs --------------------------
(***************************************************************************)
(* The inductive invariant of VolumeControl, what every write of the       *)
(* record, every mark the agent writes and every step of a call leaves     *)
(* behind, and the steps of the agent.  Core relates the record, the       *)
(* fencing mark, the backend volume and every request that may still       *)
(* execute, the delayed ones included.                                     *)
(***************************************************************************)
EXTENDS VolumeControl, TLAPS

\* A call of the controller, with what it holds between its steps.
Worker == [pc : PCs, tok : Token, node : Nodes \cup {NoNode},
           seen : Nodes \cup {NoNode}, req : Request \cup {NoRequest},
           answered : BOOLEAN]

\* Where ControllerPublishVolume waits for the agent.
Publishes == {"local", "enable", "reenable", "grant"}

\* The kind of request a worker waits for.
KindOf(pc) ==
    CASE pc = "backend" -> "create"
      [] pc = "export" -> "export"
      [] pc = "unexport" -> "unexport"
      [] pc = "destroy" -> "delete"
      [] pc = "release" -> "release"
      [] pc = "grant" -> "allow"
      [] pc = "deny" -> "deny"
      [] OTHER -> "attach"

\* What a worker is about to do fits what it holds.
WellFormed(k) ==
    /\ k.pc \in Waits => k.req \in Request /\ k.req.kind = KindOf(k.pc) /\ k.req.tok = k.tok
    /\ k.pc \notin Waits => k.req = NoRequest /\ k.answered = FALSE
    /\ k.pc \in Publishes \cup {"reserve", "deny"} => k.node \in Nodes
    /\ k.pc \in {"grant", "deny"} => k.req.node = k.node
    /\ k.pc = "release" => k.tok.uid # NoUID

\* A request about one host names it; a release names its lifecycle.
Addressed(r) ==
    /\ r.kind \in {"allow", "deny"} => r.node \in Nodes
    /\ r.kind = "release" => r.tok.uid # NoUID

\* TypeOK, with what calls and delayed requests hold by where they are.
TypeInv ==
    /\ TypeOK
    /\ \A w \in Workers : WellFormed(worker[w])
    /\ \A r \in stray : Addressed(r)

\* The part of TypeInv about running calls.
CallsTyped == worker \in [Workers -> Worker] /\ \A w \in Workers : WellFormed(worker[w])

\* The step changes the call of w, to this.
Becomes(w, pc, tok, node, req, answered) ==
    /\ worker'[w].pc = pc /\ worker'[w].tok = tok /\ worker'[w].node = node
    /\ worker'[w].req = req /\ worker'[w].answered = answered
    /\ \A v \in Workers \ {w} : worker'[v] = worker[v]

\* The requests that may still execute.
Alive == stray \cup ({worker[w].req : w \in Workers} \ {NoRequest})

\* The mark refuses every grant of the lifecycle for good.
Retired(u) == u \in mark.endedUIDs \/ (mark.uid = u /\ mark.ended)

\* The lifecycle made the backend volume its own, perhaps long ago.
Adopted(u) == vol = u \/ Retired(u)

\* The request belongs to the lifecycle of the record.
Current(r) == r.tok.uid = pvs.uid /\ pvs.uid # NoUID

\* What the unexport at this token achieved still holds.
Torn(t) == Retired(t.uid) \/ (mark.uid = t.uid /\ mark.gen >= t.gen /\ ~exp.up)

\* Requests that bring up the volume or its target; the ones that end it.
Raises == {"create", "export", "reconcile", "restore"}

Teardown == {"unexport", "delete", "release"}

\* The mark is of a lifecycle that was, and the volume is of the mark's.
MarkInv ==
    /\ mark.uid \in used \cup {NoUID} /\ mark.endedUIDs \subseteq used
    /\ mark.uid = NoUID => mark.endedUIDs = {} /\ ~mark.ended
    /\ mark.uid \in mark.endedUIDs => mark.ended
    /\ vol \in UIDs => vol = mark.uid /\ ~mark.ended
    /\ mark.ended /\ mark.uid \notin mark.endedUIDs => vol = NoUID
    /\ exp.up => vol \in UIDs
    /\ ~Imported => vol # Foreign

\* Every lifecycle but the record's is retired; a deleted volume has no
\* publications; a record past Provisioning has its backend volume.
RecordInv ==
    /\ pvs.uid \in used \cup {NoUID}
    /\ pvs.uid = NoUID => pvs = NoVolumeState
    /\ \A u \in used : u = pvs.uid \/ Retired(u)
    /\ pvs.deleting => pvs.pubs = {}
    /\ pvs.phase # "Provisioning" => Adopted(pvs.uid)
    /\ pvs.importAcquired => pvs.phase # "Provisioning"
    /\ \A p \in pvs.pubs : p.local = isLocalAttachPublish(p.node)

\* What a request may still ask for: nothing from the future, no teardown of
\* a volume that stays, no export of a volume that was never there.
RequestOK(r) ==
    /\ r.tok.uid \in used \/ (r.tok.uid = NoUID /\ r.kind = "restore")
    /\ Current(r) => r.tok.gen <= pvs.gen
    /\ Current(r) /\ r.kind \in Teardown => pvs.deleting
    /\ Current(r) /\ r.kind \in Raises /\ pvs.deleting => r.tok.gen < pvs.gen
    /\ r.kind \in {"export", "reconcile", "restore"} /\ r.tok.uid # NoUID => Adopted(r.tok.uid)
    /\ r.kind \in {"unexport", "delete"} /\ Imported => Adopted(r.tok.uid)
    /\ r.kind = "delete" => Torn(r.tok)
    /\ r.kind = "release" => Imported

\* A lifecycle's teardown carries a later generation than what raised it.
Later(q, t) ==
    q.kind \in Raises /\ t.kind \in Teardown /\ q.tok.uid = t.tok.uid => q.tok.gen < t.tok.gen

\* What a call may rely on once its request was answered.
CallOK(w) ==
    /\ worker[w].pc \notin {"idle", "ensure"} => worker[w].tok.uid \in used
    /\ worker[w].pc = "backend" /\ worker[w].answered => Adopted(worker[w].tok.uid)
    /\ worker[w].pc \in {"resume", "claimExport"} => Adopted(worker[w].tok.uid)
    /\ worker[w].pc = "unexport" /\ worker[w].answered => Torn(worker[w].tok)
    /\ worker[w].pc \in {"destroy", "release"} /\ worker[w].answered => Retired(worker[w].tok.uid)

\* The inductive invariant.
Core ==
    /\ TypeInv /\ MarkInv /\ RecordInv
    /\ \A r \in Alive : RequestOK(r)
    /\ \A q, t \in Alive : Later(q, t)
    /\ \A w \in Workers : CallOK(w)

\* What the agent may do with a request.
AgentActs(r) == Apply(r) \/ ReleaseVolume(r) \/ Fail(r)

\* No write goes back: the lifecycle keeps its record, its generation never
\* falls, a deletion is final and claims a generation of its own; or the
\* record is gone; or a lifecycle begins that never was before.
RecordGrows ==
    /\ spec' = spec /\ used \subseteq used'
    /\ \/ /\ pvs'.uid = pvs.uid /\ pvs'.gen >= pvs.gen /\ (pvs.deleting => pvs'.deleting)
          /\ pvs'.deleting => pvs.deleting \/ pvs'.gen > pvs.gen
       \/ pvs'.uid = NoUID
       \/ pvs'.uid \notin used

\* The record names the node and does not revoke it.
Standing(n) == \E p \in pvs.pubs : p.node = n /\ ~p.revoking

\* The record names the node in a network publication.
Recorded(n) == \E p \in pvs.pubs : p.node = n /\ ~p.local

\* A publish that was not overtaken has its reservation; a revoke at the
\* current generation has fenced the node.
PubCall(w) ==
    /\ worker[w].pc \in Publishes /\ w \notin voided =>
          worker[w].tok.uid = pvs.uid /\ Standing(worker[w].node)
    /\ worker[w].pc = "deny" /\ worker[w].tok = fenceToken(pvs) => ~Standing(worker[w].node)

\* The inductive invariant about publications.
PubInv ==
    /\ \A w \in Workers : PubCall(w)
    /\ \A n \in granted : Standing(n)
    /\ ~Shareable => \A p, q \in pvs.pubs : p.node = q.node

\* What CreateVolume, DeleteVolume and the reaper ask of the agent.
LifecycleKinds == {"create", "export", "unexport", "delete", "release"}

\* The step moves the call of w within CreateVolume, DeleteVolume or the
\* reaper, or ends it.
LifecycleMove(w) ==
    /\ \A v \in Workers \ {w} : worker'[v] = worker[v]
    /\ worker'[w] = worker[w] \/ worker'[w].pc \notin Publishes \cup {"deny"}
    /\ \A r \in Alive' : r \in Alive \/ (r.kind \in LifecycleKinds /\ r.local = FALSE)

\* The steps of CreateVolume, DeleteVolume and the reaper leave the
\* publications alone, or happen while there are none.
Undisturbed ==
    \/ pvs'.uid = pvs.uid /\ pvs'.gen >= pvs.gen /\ pvs'.pubs = pvs.pubs
       /\ pvs'.localAttachNode = pvs.localAttachNode
    \/ pvs.pubs = {} /\ pvs'.pubs = {} /\ pvs'.localAttachNode = NoNode

USE GensAssumption, NoUIDAssumption, NodesAssumption, SpecsAssumption,
    ForeignAssumption, MaxStrayAssumption, StartReadyAssumption

----------------------------------------------------------------------------
(* Calls of the controller.                                                *)

\* KindOf, value by value.
LEMMA KindOfIs ==
    /\ KindOf("backend") = "create" /\ KindOf("export") = "export"
    /\ KindOf("unexport") = "unexport" /\ KindOf("destroy") = "delete"
    /\ KindOf("release") = "release" /\ KindOf("grant") = "allow" /\ KindOf("deny") = "deny"
    /\ KindOf("local") = "attach" /\ KindOf("enable") = "attach" /\ KindOf("reenable") = "attach"
BY Zenon DEF KindOf

\* The request of a waiting call is typed and is the one it waits for.
LEMMA RequestsFit ==
    ASSUME TypeInv, NEW w \in Workers, worker[w].req # NoRequest
    PROVE  /\ worker[w].req \in Request /\ worker[w].pc \in Waits
           /\ Addressed(worker[w].req)
           /\ worker[w].req.kind = KindOf(worker[w].pc) /\ worker[w].req.tok = worker[w].tok
<1>1. WellFormed(worker[w]) /\ worker[w] \in Worker
  BY Zenon DEF TypeInv, TypeOK, Worker
<1>2. worker[w].pc \in Waits
  BY Zenon, <1>1 DEF WellFormed
<1>3. QED BY Zenon, <1>1, <1>2 DEF WellFormed, Addressed, KindOf, Waits, Publishes

\* A call that sends a request waits for it.
LEMMA CallEffect ==
    ASSUME TypeInv, NEW w \in Workers, NEW pc \in Waits, NEW req \in Request,
           Call(w, pc, req), req.kind = KindOf(pc),
           pc \in Publishes \cup {"deny"} => worker[w].node \in Nodes,
           pc \in {"grant", "deny"} => req.node = worker[w].node,
           pc = "release" => req.tok.uid # NoUID
    PROVE  CallsTyped' /\ Becomes(w, pc, req.tok, worker[w].node, req, FALSE)
<1>0. worker \in [Workers -> Worker] /\ \A v \in Workers : WellFormed(worker[v])
  BY Zenon DEF TypeInv, TypeOK, Worker
<1>1. worker'[w] = [worker[w] EXCEPT !.pc = pc, !.tok = req.tok, !.req = req, !.answered = FALSE]
  BY Zenon, <1>0 DEF Call
<1>2. \A v \in Workers \ {w} : worker'[v] = worker[v]
  BY Zenon, <1>0 DEF Call
<1>3. worker' \in [Workers -> Worker]
  <2>1. worker'[w] \in Worker
    <3>1. req.tok \in Token /\ pc \in PCs
      BY Zenon DEF Request, PCs
    <3>2. QED BY Zenon, <1>0, <1>1, <3>1 DEF Worker
  <2>2. worker' = [v \in Workers |-> worker'[v]]
    BY Zenon, <1>0 DEF Call
  <2>3. QED BY Zenon, <1>0, <1>2, <2>1, <2>2
<1>4. WellFormed(worker'[w])
  BY <1>0, <1>1 DEF WellFormed, Worker, Waits, Publishes
<1>5. Becomes(w, pc, req.tok, worker[w].node, req, FALSE)
  BY <1>0, <1>1, <1>2 DEF Becomes, Worker
<1>6. QED BY Zenon, <1>0, <1>2, <1>3, <1>4, <1>5 DEF CallsTyped

\* A call that goes on to another step holds no request.
LEMMA ProceedEffect ==
    ASSUME TypeInv, NEW w \in Workers, NEW uid \in UIDs \cup {NoUID},
           NEW pc \in {"ensure", "claimBackend", "resume", "claimExport", "reap"},
           Proceed(w, pc, uid)
    PROVE  CallsTyped' /\ Becomes(w, pc, [uid |-> uid, gen |-> 0], worker[w].node, NoRequest, FALSE)
<1>0. worker \in [Workers -> Worker] /\ \A v \in Workers : WellFormed(worker[v])
  BY Zenon DEF TypeInv, TypeOK, Worker
<1>1. worker'[w] = [worker[w] EXCEPT !.pc = pc, !.tok = [uid |-> uid, gen |-> 0],
                                     !.req = NoRequest, !.answered = FALSE]
  BY Zenon, <1>0 DEF Proceed
<1>2. \A v \in Workers \ {w} : worker'[v] = worker[v]
  BY Zenon, <1>0 DEF Proceed
<1>3. worker' \in [Workers -> Worker]
  <2>1. worker'[w] \in Worker
    <3>1. [uid |-> uid, gen |-> 0] \in Token /\ pc \in PCs
      BY Zenon DEF Token, PCs
    <3>2. QED BY Zenon, <1>0, <1>1, <3>1 DEF Worker
  <2>2. worker' = [v \in Workers |-> worker'[v]]
    BY Zenon, <1>0 DEF Proceed
  <2>3. QED BY Zenon, <1>0, <1>2, <2>1, <2>2
<1>4. WellFormed(worker'[w])
  BY <1>0, <1>1 DEF WellFormed, Worker, Waits, Publishes
<1>5. Becomes(w, pc, [uid |-> uid, gen |-> 0], worker[w].node, NoRequest, FALSE)
  BY <1>0, <1>1, <1>2 DEF Becomes, Worker
<1>6. QED BY Zenon, <1>0, <1>2, <1>3, <1>4, <1>5 DEF CallsTyped

\* A call that returns leaves its worker idle.
LEMMA ReturnEffect ==
    ASSUME TypeInv, NEW w \in Workers, Return(w)
    PROVE  CallsTyped' /\ Becomes(w, "idle", NoToken, NoNode, NoRequest, FALSE)
<1>0. worker \in [Workers -> Worker] /\ \A v \in Workers : WellFormed(worker[v])
  BY Zenon DEF TypeInv, TypeOK, Worker
<1>1. worker'[w] = IdleWorker /\ \A v \in Workers \ {w} : worker'[v] = worker[v]
  BY Zenon, <1>0 DEF Return
<1>2. IdleWorker \in Worker /\ WellFormed(IdleWorker)
  BY Zenon DEF IdleWorker, Worker, PCs, Token, NoToken, WellFormed, Waits, Publishes
<1>3. QED BY Zenon, <1>0, <1>1, <1>2 DEF Return, IdleWorker, CallsTyped, Becomes

\* An answer reaches the call that waits and changes nothing else of it.
LEMMA ServedEffect ==
    ASSUME TypeInv, NEW w \in Workers, Waiting(w),
           worker' = [worker EXCEPT ![w].answered = TRUE]
    PROVE  CallsTyped' /\ Becomes(w, worker[w].pc, worker[w].tok, worker[w].node, worker[w].req, TRUE)
<1>0. worker \in [Workers -> Worker] /\ \A v \in Workers : WellFormed(worker[v])
  BY Zenon DEF TypeInv, TypeOK, Worker
<1>1. /\ worker'[w] = [worker[w] EXCEPT !.answered = TRUE]
      /\ \A v \in Workers \ {w} : worker'[v] = worker[v]
  BY Zenon, <1>0
<1>2. worker'[w] \in Worker
  BY Zenon, <1>0, <1>1 DEF Worker
<1>3. worker[w].pc \in Waits
  BY Zenon, RequestsFit DEF Waiting
<1>4. WellFormed(worker'[w])
  BY <1>0, <1>1, <1>3 DEF WellFormed, Worker
<1>5. Becomes(w, worker[w].pc, worker[w].tok, worker[w].node, worker[w].req, TRUE)
  BY <1>0, <1>1 DEF Becomes, Worker
<1>6. QED BY Zenon, <1>0, <1>1, <1>2, <1>4, <1>5 DEF CallsTyped

----------------------------------------------------------------------------
(* Writes of the record.                                                   *)

\* What a record holds.
LEMMA RecordFields ==
    ASSUME NEW s \in PillarVolumeState
    PROVE  /\ s.uid \in UIDs \cup {NoUID} /\ s.gen \in Gens /\ s.gen \in Nat
           /\ s.phase \in Phases /\ s.deleting \in BOOLEAN
           /\ s.pubs \subseteq VolumePublication
           /\ s.localAttachNode \in Nodes \cup {NoNode}
           /\ s.importAcquired \in BOOLEAN
BY Zenon DEF PillarVolumeState

\* What each write of the record changes, and that it leaves a record.
LEMMA NewVolumeStateIs ==
    /\ NoVolumeState \in PillarVolumeState /\ NoVolumeState.uid = NoUID
    /\ NoVolumeState.pubs = {} /\ NoVolumeState.deleting = FALSE
    /\ NoVolumeState.phase = "Provisioning" /\ NoVolumeState.importAcquired = FALSE
    /\ NoVolumeState.localAttachNode = NoNode /\ NoVolumeState.gen = 0
    /\ \A u \in UIDs :
         /\ NewVolumeState(u) \in PillarVolumeState /\ NewVolumeState(u).uid = u
         /\ NewVolumeState(u).pubs = {} /\ NewVolumeState(u).deleting = FALSE
         /\ NewVolumeState(u).phase = "Provisioning" /\ NewVolumeState(u).importAcquired = FALSE
         /\ NewVolumeState(u).localAttachNode = NoNode /\ NewVolumeState(u).gen = 0
BY Zenon DEF NewVolumeState, NoVolumeState, PillarVolumeState, Phases

\* claimOperation advances the generation and nothing else.
LEMMA ClaimIs ==
    ASSUME pvs \in PillarVolumeState, Commit(claimOperation(pvs))
    PROVE  /\ pvs' \in PillarVolumeState /\ pvs'.gen = pvs.gen + 1
           /\ pvs'.uid = pvs.uid /\ pvs'.phase = pvs.phase /\ pvs'.deleting = pvs.deleting
           /\ pvs'.pubs = pvs.pubs /\ pvs'.localAttachNode = pvs.localAttachNode
           /\ pvs'.importAcquired = pvs.importAcquired
           /\ spec' = spec /\ used' = used
BY Zenon DEF Commit, claimOperation, Bump, PillarVolumeState

\* persistCreatePartial records the phase.
LEMMA CreatePartialIs ==
    ASSUME pvs \in PillarVolumeState, spec \in VolumeSpec, Commit(persistCreatePartial(pvs))
    PROVE  /\ pvs' \in PillarVolumeState /\ pvs'.phase = "CreatePartial"
           /\ pvs'.uid = pvs.uid /\ pvs'.gen = pvs.gen /\ pvs'.deleting = pvs.deleting
           /\ pvs'.pubs = pvs.pubs /\ pvs'.localAttachNode = pvs.localAttachNode
           /\ spec' = spec /\ used' = used
BY Zenon DEF Commit, persistCreatePartial, PillarVolumeState, Phases, VolumeSpec, Imported

\* persistVolumeReady records the phase.
LEMMA ReadyIs ==
    ASSUME pvs \in PillarVolumeState, Commit(persistVolumeReady(pvs))
    PROVE  /\ pvs' \in PillarVolumeState /\ pvs'.phase = "Ready"
           /\ pvs'.uid = pvs.uid /\ pvs'.gen = pvs.gen /\ pvs'.deleting = pvs.deleting
           /\ pvs'.pubs = pvs.pubs /\ pvs'.localAttachNode = pvs.localAttachNode
           /\ pvs'.importAcquired = pvs.importAcquired
           /\ spec' = spec /\ used' = used
BY Zenon DEF Commit, persistVolumeReady, PillarVolumeState, Phases

\* markVolumeDeleting advances the generation the first time.
LEMMA DeletingIs ==
    ASSUME pvs \in PillarVolumeState, Commit(markVolumeDeleting(pvs))
    PROVE  /\ pvs' \in PillarVolumeState /\ pvs'.deleting = TRUE
           /\ pvs'.gen = IF pvs.deleting THEN pvs.gen ELSE pvs.gen + 1
           /\ pvs'.uid = pvs.uid /\ pvs'.phase = pvs.phase /\ pvs'.pubs = pvs.pubs
           /\ pvs'.localAttachNode = pvs.localAttachNode
           /\ pvs'.importAcquired = pvs.importAcquired
           /\ spec' = spec /\ used' = used
BY Zenon DEF Commit, markVolumeDeleting, Bump, PillarVolumeState

\* reservePublicationState adds one publication at a new generation.
LEMMA ReserveIs ==
    ASSUME pvs \in PillarVolumeState, NEW pub \in VolumePublication,
           Commit(reservePublicationState(pvs, pub))
    PROVE  /\ pvs' \in PillarVolumeState /\ pvs'.gen = pvs.gen + 1
           /\ pvs'.pubs = pvs.pubs \cup {pub}
           /\ pvs'.localAttachNode = IF pub.local THEN pub.node ELSE pvs.localAttachNode
           /\ pvs'.uid = pvs.uid /\ pvs'.phase = pvs.phase /\ pvs'.deleting = pvs.deleting
           /\ pvs'.importAcquired = pvs.importAcquired
           /\ spec' = spec /\ used' = used
BY Zenon DEF Commit, reservePublicationState, Bump, PillarVolumeState, VolumePublication

\* clearLocalAttachNode clears no more than the local node.
LEMMA ClearLocalAttachIs ==
    ASSUME pvs \in PillarVolumeState, NEW n \in Nodes, Commit(clearLocalAttachNode(pvs, n))
    PROVE  /\ pvs' \in PillarVolumeState
           /\ pvs'.gen \in {pvs.gen, pvs.gen + 1}
           /\ pvs'.localAttachNode \in {NoNode, pvs.localAttachNode}
           /\ pvs'.uid = pvs.uid /\ pvs'.phase = pvs.phase /\ pvs'.deleting = pvs.deleting
           /\ pvs'.pubs = pvs.pubs /\ pvs'.importAcquired = pvs.importAcquired
           /\ spec' = spec /\ used' = used
BY Zenon DEF Commit, clearLocalAttachNode, Bump, PillarVolumeState

\* Revoking a node keeps every publication, and marks those of the node.
LEMMA RevokeIs ==
    ASSUME pvs \in PillarVolumeState, NEW n \in Nodes
    PROVE  /\ Revoke(pvs, n) \subseteq VolumePublication
           /\ \A p \in Revoke(pvs, n) :
                \/ p \in pvs.pubs /\ p.node # n
                \/ p.node = n /\ p.revoking /\ \E q \in pvs.pubs : q.node = n /\ q.local = p.local
           /\ \A q \in pvs.pubs : \E p \in Revoke(pvs, n) :
                p.node = q.node /\ p.local = q.local /\ (q.node # n => p = q)
<1>1. pvs.pubs \subseteq VolumePublication
  BY Zenon, RecordFields
<1>2. ASSUME NEW p \in pvs.pubs
      PROVE  /\ [p EXCEPT !.revoking = TRUE] \in VolumePublication
             /\ [p EXCEPT !.revoking = TRUE].node = p.node
             /\ [p EXCEPT !.revoking = TRUE].local = p.local
             /\ [p EXCEPT !.revoking = TRUE].revoking
  BY Zenon, <1>1 DEF VolumePublication
<1>3. QED BY Zenon, <1>1, <1>2 DEF Revoke, PublicationsOf

\* fencePublications marks the publications of a node at a new generation.
LEMMA FenceIs ==
    ASSUME pvs \in PillarVolumeState, NEW n \in Nodes, Commit(fencePublications(pvs, n))
    PROVE  /\ pvs' \in PillarVolumeState /\ pvs'.gen = pvs.gen + 1
           /\ pvs'.pubs = Revoke(pvs, n)
           /\ pvs'.uid = pvs.uid /\ pvs'.phase = pvs.phase /\ pvs'.deleting = pvs.deleting
           /\ pvs'.localAttachNode = pvs.localAttachNode
           /\ pvs'.importAcquired = pvs.importAcquired
           /\ spec' = spec /\ used' = used
BY Zenon, RevokeIs DEF Commit, fencePublications, Bump, PillarVolumeState

\* releasePublication drops the publications of a node.
LEMMA ReleaseIs ==
    ASSUME pvs \in PillarVolumeState, NEW n \in Nodes, Commit(releasePublication(pvs, n))
    PROVE  /\ pvs' \in PillarVolumeState /\ pvs'.gen = pvs.gen + 1
           /\ pvs'.pubs = {p \in pvs.pubs : p.node # n}
           /\ pvs'.uid = pvs.uid /\ pvs'.phase = pvs.phase /\ pvs'.deleting = pvs.deleting
           /\ pvs'.localAttachNode = pvs.localAttachNode
           /\ pvs'.importAcquired = pvs.importAcquired
           /\ spec' = spec /\ used' = used
BY Zenon DEF Commit, releasePublication, PublicationsOf, Bump, PillarVolumeState

\* The record CreateVolume leaves behind.
LEMMA ReadyRecordIs ==
    ASSUME NEW u \in UIDs, spec \in VolumeSpec, 2 \in Gens,
           pvs = persistVolumeReady(persistCreatePartial(
                     claimOperation(claimOperation(NewVolumeState(u)))))
    PROVE  /\ pvs \in PillarVolumeState
           /\ pvs.uid = u /\ pvs.gen = 2 /\ pvs.phase = "Ready" /\ pvs.deleting = FALSE
           /\ pvs.pubs = {} /\ pvs.localAttachNode = NoNode
<1> DEFINE Records == [uid : UIDs \cup {NoUID}, gen : Nat, phase : Phases, deleting : BOOLEAN,
                       pubs : SUBSET VolumePublication, localAttachNode : Nodes \cup {NoNode},
                       importAcquired : BOOLEAN]
           Fresh(s) == s.uid = u /\ s.deleting = FALSE /\ s.pubs = {} /\ s.localAttachNode = NoNode
<1>1. NewVolumeState(u) \in Records /\ Fresh(NewVolumeState(u)) /\ NewVolumeState(u).gen = 0
  BY Zenon DEF NewVolumeState, Phases
<1>2. ASSUME NEW s \in Records, Fresh(s)
      PROVE  /\ claimOperation(s) \in Records /\ Fresh(claimOperation(s))
             /\ claimOperation(s).gen = s.gen + 1
             /\ persistCreatePartial(s) \in Records /\ Fresh(persistCreatePartial(s))
             /\ persistCreatePartial(s).gen = s.gen
             /\ persistVolumeReady(s) \in Records /\ Fresh(persistVolumeReady(s))
             /\ persistVolumeReady(s).gen = s.gen /\ persistVolumeReady(s).phase = "Ready"
  <2>1. /\ claimOperation(s) \in Records /\ Fresh(claimOperation(s))
        /\ claimOperation(s).gen = s.gen + 1
    BY <1>2 DEF claimOperation, Bump
  <2>2. /\ persistCreatePartial(s) \in Records /\ Fresh(persistCreatePartial(s))
        /\ persistCreatePartial(s).gen = s.gen
    BY Zenon, <1>2 DEF persistCreatePartial, Imported, VolumeSpec, Phases
  <2>3. /\ persistVolumeReady(s) \in Records /\ Fresh(persistVolumeReady(s))
        /\ persistVolumeReady(s).gen = s.gen /\ persistVolumeReady(s).phase = "Ready"
    BY Zenon, <1>2 DEF persistVolumeReady, Phases
  <2>4. QED BY Zenon, <2>1, <2>2, <2>3
<1>3. pvs \in Records /\ Fresh(pvs) /\ pvs.gen = 2 /\ pvs.phase = "Ready"
  <2> HIDE DEF Records, Fresh
  <2>1. /\ claimOperation(NewVolumeState(u)) \in Records /\ Fresh(claimOperation(NewVolumeState(u)))
        /\ claimOperation(NewVolumeState(u)).gen = 1
    BY <1>1, <1>2
  <2>2. PICK s \in Records : /\ s = claimOperation(claimOperation(NewVolumeState(u)))
                             /\ Fresh(s) /\ s.gen = 2
    BY <1>2, <2>1
  <2>3. QED BY Zenon, <1>2, <2>2
<1>4. QED BY Zenon, <1>3 DEF PillarVolumeState

----------------------------------------------------------------------------
(* Requests and the calls that send them.                                  *)

\* A request without hosts.
LEMMA NewRequestIs ==
    ASSUME NEW kind \in Kinds, NEW tok \in Token
    PROVE  /\ NewRequest(kind, tok) \in Request
           /\ NewRequest(kind, tok).kind = kind /\ NewRequest(kind, tok).tok = tok
           /\ NewRequest(kind, tok).node = NoNode /\ NewRequest(kind, tok).hosts = {}
           /\ NewRequest(kind, tok).local = FALSE
BY Zenon DEF NewRequest, Request

\* A request of the teardown or creation: it addresses no node.
LEMMA CallNew ==
    ASSUME TypeInv, NEW w \in Workers, NEW pc \in Waits \ (Publishes \cup {"deny"}), NEW kind,
           kind = KindOf(pc), NEW tok \in Token, Call(w, pc, NewRequest(kind, tok)),
           pc = "release" => tok.uid # NoUID
    PROVE  CallsTyped' /\ Becomes(w, pc, tok, worker[w].node, NewRequest(kind, tok), FALSE)
<1>1. kind \in Kinds
  BY Zenon DEF KindOf, Kinds
<1>2. pc \notin Publishes \cup {"deny"} /\ pc \notin {"grant", "deny"} /\ pc \in Waits
  BY Zenon DEF Publishes
<1>3. NewRequest(kind, tok) \in Request /\ NewRequest(kind, tok).kind = kind
      /\ NewRequest(kind, tok).tok = tok
  BY Zenon, <1>1, NewRequestIs
<1>4. PICK q \in Request : q = NewRequest(kind, tok)
  BY Zenon, <1>3
<1>5. Call(w, pc, q) /\ q.kind = KindOf(pc) /\ q.tok = tok
  BY Zenon, <1>3, <1>4
<1>6. CallsTyped' /\ Becomes(w, pc, q.tok, worker[w].node, q, FALSE)
  BY Zenon, <1>2, <1>5, CallEffect
<1>7. QED BY Zenon, <1>4, <1>5, <1>6

\* The token of a record carries its lifecycle and generation.
LEMMA TokenTyped ==
    ASSUME NEW s \in PillarVolumeState
    PROVE  /\ fenceToken(s) \in Token
           /\ fenceToken(s).uid = s.uid /\ fenceToken(s).gen = s.gen
BY Zenon DEF fenceToken, Token, PillarVolumeState

\* The publication ControllerPublishVolume records.
LEMMA PublicationIs ==
    ASSUME spec \in VolumeSpec, NEW n \in Nodes
    PROVE  /\ Publication(n) \in VolumePublication /\ Publication(n).node = n
           /\ Publication(n).local = isLocalAttachPublish(n)
           /\ Publication(n).revoking = FALSE
           /\ isLocalAttachPublish(n) \in BOOLEAN
BY Zenon DEF Publication, VolumePublication, isLocalAttachPublish, LocalAttach, Shareable, VolumeSpec

\* The publish call reads the record it works from.
LEMMA BeginPublishEffect ==
    ASSUME TypeInv, NEW w \in Workers, NEW n \in Nodes, BeginPublish(w, n)
    PROVE  CallsTyped' /\ Becomes(w, "reserve", [uid |-> pvs.uid, gen |-> 0], n, NoRequest, FALSE)
<1>0. worker \in [Workers -> Worker] /\ \A v \in Workers : WellFormed(worker[v])
  BY Zenon DEF TypeInv, TypeOK, Worker
<1>1. /\ worker'[w] = [worker[w] EXCEPT !.pc = "reserve", !.node = n,
                                        !.tok = [uid |-> pvs.uid, gen |-> 0],
                                        !.seen = pvs.localAttachNode]
      /\ \A v \in Workers \ {w} : worker'[v] = worker[v]
      /\ worker' = [v \in Workers |-> worker'[v]]
  BY Zenon, <1>0 DEF BeginPublish
<1>2. pvs.uid \in UIDs \cup {NoUID} /\ pvs.localAttachNode \in Nodes \cup {NoNode}
  BY Zenon, RecordFields DEF TypeInv, TypeOK
<1>3. [uid |-> pvs.uid, gen |-> 0] \in Token /\ "reserve" \in PCs
  BY Zenon, <1>2 DEF Token, PCs
<1>4. worker'[w] \in Worker
  BY Zenon, <1>0, <1>1, <1>2, <1>3 DEF Worker
<1>5. worker[w].req = NoRequest /\ worker[w].answered = FALSE
  BY Zenon, <1>0 DEF BeginPublish, Idle, WellFormed, Waits
<1>6. WellFormed(worker'[w]) /\ worker'[w].req = NoRequest /\ worker'[w].pc = "reserve"
  BY <1>0, <1>1, <1>5 DEF WellFormed, Worker, Waits, Publishes
<1>7. Becomes(w, "reserve", [uid |-> pvs.uid, gen |-> 0], n, NoRequest, FALSE)
  BY <1>0, <1>1, <1>5 DEF Becomes, Worker
<1>8. QED BY Zenon, <1>0, <1>1, <1>4, <1>6, <1>7 DEF CallsTyped

\* setLocalAttach sends one request about the exporting target.
LEMMA SetLocalAttachEffect ==
    ASSUME TypeInv, NEW w \in Workers, NEW pc \in {"local", "enable", "reenable"},
           NEW b \in BOOLEAN, NEW tok \in Token, worker[w].node \in Nodes,
           SetLocalAttach(w, pc, b, tok)
    PROVE  \E q \in Request :
           /\ q.kind = "attach" /\ q.tok = tok /\ q.hosts = {} /\ q.local = b
           /\ CallsTyped' /\ Becomes(w, pc, tok, worker[w].node, q, FALSE)
<1>1. [NewRequest("attach", tok) EXCEPT !.local = b] \in Request
  BY Zenon DEF NewRequest, Request, Kinds
<1>2. PICK q \in Request : q = [NewRequest("attach", tok) EXCEPT !.local = b]
  BY Zenon, <1>1
<1>3. q.kind = "attach" /\ q.tok = tok /\ q.hosts = {} /\ q.local = b
  BY Zenon, <1>2 DEF NewRequest
<1>4. Call(w, pc, q) /\ q.kind = KindOf(pc) /\ pc \in Waits /\ pc \notin {"grant", "deny", "release"}
  BY Zenon, <1>2, <1>3, KindOfIs DEF SetLocalAttach, Waits
<1>5. CallsTyped' /\ Becomes(w, pc, q.tok, worker[w].node, q, FALSE)
  BY Zenon, <1>3, <1>4, CallEffect
<1>6. QED BY Zenon, <1>3, <1>5

\* AllowInitiator sends one request about the host of the node.
LEMMA AllowInitiatorEffect ==
    ASSUME TypeInv, NEW w \in Workers, NEW tok \in Token, worker[w].node \in Nodes,
           AllowInitiator(w, tok)
    PROVE  \E q \in Request :
           /\ q.kind = "allow" /\ q.tok = tok /\ q.node = worker[w].node
           /\ q.hosts = {} /\ q.local = FALSE
           /\ CallsTyped' /\ Becomes(w, "grant", tok, worker[w].node, q, FALSE)
<1>1. [NewRequest("allow", tok) EXCEPT !.node = worker[w].node] \in Request
  BY Zenon DEF NewRequest, Request, Kinds
<1>2. PICK q \in Request : q = [NewRequest("allow", tok) EXCEPT !.node = worker[w].node]
  BY Zenon, <1>1
<1>3. q.kind = "allow" /\ q.tok = tok /\ q.node = worker[w].node /\ q.hosts = {} /\ q.local = FALSE
  BY Zenon, <1>2 DEF NewRequest
<1>4. Call(w, "grant", q) /\ q.kind = KindOf("grant") /\ "grant" \in Waits
  BY Zenon, <1>2, <1>3, KindOfIs DEF AllowInitiator, Waits
<1>5. CallsTyped' /\ Becomes(w, "grant", q.tok, worker[w].node, q, FALSE)
  BY Zenon, <1>3, <1>4, CallEffect
<1>6. QED BY Zenon, <1>3, <1>5

\* What the reservation leaves, and which request it sends.
LEMMA ReserveEffect ==
    ASSUME TypeInv, NEW w \in Workers, ReservePublication(w)
    PROVE  /\ worker[w].node \in Nodes
           /\ pvs' \in PillarVolumeState /\ pvs'.gen = pvs.gen + 1
           /\ pvs'.pubs = pvs.pubs \cup {Publication(worker[w].node)}
           /\ pvs'.uid = pvs.uid /\ pvs'.phase = pvs.phase /\ pvs'.deleting = pvs.deleting
           /\ pvs'.importAcquired = pvs.importAcquired
           /\ ~LocalAttach => pvs'.localAttachNode = pvs.localAttachNode
           /\ spec' = spec /\ used' = used
           /\ \E pc \in Publishes, q \in Request :
                /\ Becomes(w, pc, fenceToken(pvs'), worker[w].node, q, FALSE)
                /\ q.tok = fenceToken(pvs') /\ q.hosts = {}
                /\ q.kind \in {"attach", "allow"}
                /\ ~LocalAttach => /\ pc = "grant" /\ q.kind = "allow" /\ q.local = FALSE
                                   /\ q.node = worker[w].node
<1>0. /\ pvs \in PillarVolumeState /\ spec \in VolumeSpec
      /\ worker[w].node \in Nodes /\ Publication(worker[w].node) \in VolumePublication
  BY Zenon, PublicationIs DEF TypeInv, TypeOK, ReservePublication, WellFormed
<1>1. /\ pvs' \in PillarVolumeState /\ pvs'.gen = pvs.gen + 1
      /\ pvs'.pubs = pvs.pubs \cup {Publication(worker[w].node)}
      /\ pvs'.uid = pvs.uid /\ pvs'.phase = pvs.phase /\ pvs'.deleting = pvs.deleting
      /\ pvs'.importAcquired = pvs.importAcquired
      /\ spec' = spec /\ used' = used
      /\ ~Publication(worker[w].node).local => pvs'.localAttachNode = pvs.localAttachNode
  BY Zenon, <1>0, ReserveIs DEF ReservePublication
<1>2. ~LocalAttach => Publication(worker[w].node).local = FALSE
  BY Zenon, <1>0, PublicationIs DEF isLocalAttachPublish
<1>3. fenceToken(pvs') \in Token
  BY Zenon, <1>1, TokenTyped
<1>4. CASE LocalAttach /\ SetLocalAttach(w, "local", TRUE, fenceToken(pvs'))
  <2>1. PICK q \in Request : /\ q.kind = "attach" /\ q.tok = fenceToken(pvs') /\ q.hosts = {}
                             /\ Becomes(w, "local", fenceToken(pvs'), worker[w].node, q, FALSE)
    BY Zenon, <1>0, <1>3, <1>4, SetLocalAttachEffect
  <2>2. QED BY Zenon, <1>0, <1>1, <1>4, <2>1 DEF Publishes
<1>5. CASE LocalAttach /\ SetLocalAttach(w, "enable", FALSE, fenceToken(pvs'))
  <2>1. PICK q \in Request : /\ q.kind = "attach" /\ q.tok = fenceToken(pvs') /\ q.hosts = {}
                             /\ Becomes(w, "enable", fenceToken(pvs'), worker[w].node, q, FALSE)
    BY Zenon, <1>0, <1>3, <1>5, SetLocalAttachEffect
  <2>2. QED BY Zenon, <1>0, <1>1, <1>5, <2>1 DEF Publishes
<1>6. CASE AllowInitiator(w, fenceToken(pvs'))
  <2>1. PICK q \in Request : /\ q.kind = "allow" /\ q.tok = fenceToken(pvs') /\ q.hosts = {}
                             /\ q.local = FALSE /\ q.node = worker[w].node
                             /\ Becomes(w, "grant", fenceToken(pvs'), worker[w].node, q, FALSE)
    BY Zenon, <1>0, <1>3, <1>6, AllowInitiatorEffect
  <2>2. QED BY Zenon, <1>0, <1>1, <1>2, <2>1 DEF Publishes
<1>7. QED BY Zenon, <1>2, <1>4, <1>5, <1>6 DEF ReservePublication

\* The unpublish call fences the records of its node and denies the host.
LEMMA FencePublicationsEffect ==
    ASSUME TypeInv, NEW w \in Workers, NEW n \in Nodes, FencePublications(w, n)
    PROVE  \E q \in Request :
           /\ q.kind = "deny" /\ q.tok = fenceToken(pvs') /\ q.node = n
           /\ q.hosts = {} /\ q.local = FALSE
           /\ CallsTyped' /\ Becomes(w, "deny", fenceToken(pvs'), n, q, isLocalAttachPublish(n))
<1>0. /\ worker \in [Workers -> Worker] /\ \A v \in Workers : WellFormed(worker[v])
      /\ pvs \in PillarVolumeState /\ spec \in VolumeSpec
  BY Zenon DEF TypeInv, TypeOK, Worker
<1>1. fenceToken(pvs') \in Token /\ isLocalAttachPublish(n) \in BOOLEAN
  BY Zenon, <1>0, FenceIs, TokenTyped, PublicationIs DEF FencePublications
<1>2. [NewRequest("deny", fenceToken(pvs')) EXCEPT !.node = n] \in Request
  BY Zenon, <1>1 DEF NewRequest, Request, Kinds
<1>3. PICK q \in Request : q = [NewRequest("deny", fenceToken(pvs')) EXCEPT !.node = n]
  BY Zenon, <1>2
<1>4. q.kind = "deny" /\ q.tok = fenceToken(pvs') /\ q.node = n /\ q.hosts = {} /\ q.local = FALSE
  BY Zenon, <1>3 DEF NewRequest
<1>5. worker' = [worker EXCEPT ![w].pc = "deny", ![w].tok = fenceToken(pvs'), ![w].node = n,
                               ![w].req = q, ![w].answered = isLocalAttachPublish(n)]
  BY Zenon, <1>3 DEF FencePublications
<1>6. /\ worker'[w] = [worker[w] EXCEPT !.pc = "deny", !.tok = fenceToken(pvs'), !.node = n,
                                        !.req = q, !.answered = isLocalAttachPublish(n)]
      /\ \A v \in Workers \ {w} : worker'[v] = worker[v]
      /\ worker' = [v \in Workers |-> worker'[v]]
  BY Zenon, <1>0, <1>5
<1>7. worker'[w] \in Worker
  <2>1. "deny" \in PCs
    BY Zenon DEF PCs, Waits
  <2>2. QED BY ONLY Zenon, <1>0, <1>1, <1>6, <2>1 DEF Worker
<1>8. WellFormed(worker'[w])
  BY <1>0, <1>4, <1>6, KindOfIs DEF WellFormed, Worker, Waits, Publishes
<1>9. Becomes(w, "deny", fenceToken(pvs'), n, q, isLocalAttachPublish(n))
  BY <1>0, <1>6 DEF Becomes, Worker
<1>10. QED BY <1>0, <1>4, <1>6, <1>7, <1>8, <1>9 DEF CallsTyped

\* What a resync asks for.
LEMMA DesiredIs ==
    ASSUME pvs \in PillarVolumeState, NEW kind \in {"reconcile", "restore"}
    PROVE  /\ Desired(kind) \in Request
           /\ Desired(kind).kind = kind /\ Desired(kind).tok = fenceToken(pvs)
           /\ Desired(kind).hosts = DesiredHosts(pvs) /\ Desired(kind).local = DesiredLocal(pvs)
<1>1. fenceToken(pvs) \in Token
  BY Zenon, TokenTyped
<1>2. DesiredHosts(pvs) \subseteq Nodes /\ DesiredLocal(pvs) \in BOOLEAN
  BY Zenon, RecordFields DEF DesiredHosts, DesiredLocal, VolumePublication
<1>3. QED BY Zenon, <1>1, <1>2 DEF Desired, NewRequest, Request, Kinds

----------------------------------------------------------------------------
(* Marks of the agent.                                                     *)

\* The marks the agent writes are marks.
LEMMA MarkFields ==
    ASSUME NEW m \in fencingMark
    PROVE  /\ m.uid \in UIDs \cup {NoUID} /\ m.gen \in Gens /\ m.gen \in Nat /\ m.ended \in BOOLEAN
           /\ m.endedUIDs \subseteq UIDs
BY Zenon DEF fencingMark

\* The mark after an admission.
LEMMA AdmittedMarkIs ==
    ASSUME NEW m \in fencingMark, NEW tok \in Token
    PROVE  /\ AdmittedMark(tok, m) \in fencingMark
           /\ AdmittedMark(tok, m).uid = tok.uid \/ (tok.uid = NoUID /\ m.uid = NoUID)
           /\ AdmittedMark(tok, m).gen = tok.gen
           /\ tok.uid # NoUID /\ tok.uid = m.uid =>
                /\ AdmittedMark(tok, m).ended = m.ended
                /\ AdmittedMark(tok, m).endedUIDs = m.endedUIDs
           /\ tok.uid # m.uid =>
                /\ AdmittedMark(tok, m).ended = FALSE
                /\ m.uid # NoUID => AdmittedMark(tok, m).endedUIDs = m.endedUIDs \cup {m.uid}
                /\ m.uid = NoUID => AdmittedMark(tok, m).endedUIDs = {}
BY Zenon DEF AdmittedMark, fencingMark, Token, Exists

\* The mark after a destroy.
LEMMA EndedMarkIs ==
    ASSUME NEW m \in fencingMark
    PROVE  /\ EndedMark(m) \in fencingMark /\ EndedMark(m).ended = TRUE
           /\ EndedMark(m).uid = m.uid /\ EndedMark(m).gen = m.gen
           /\ EndedMark(m).endedUIDs = m.endedUIDs
BY Zenon DEF EndedMark, fencingMark

\* The mark after a release by another lifecycle than its own.
LEMMA RetireDisownedIs ==
    ASSUME NEW m \in fencingMark, NEW tok \in Token, tok.uid # NoUID
    PROVE  /\ RetireDisowned(tok, m) \in fencingMark
           /\ m.uid = NoUID =>
                /\ RetireDisowned(tok, m).uid = tok.uid /\ RetireDisowned(tok, m).gen = tok.gen
                /\ RetireDisowned(tok, m).ended = TRUE /\ RetireDisowned(tok, m).endedUIDs = {tok.uid}
           /\ m.uid # NoUID =>
                /\ RetireDisowned(tok, m).uid = m.uid /\ RetireDisowned(tok, m).gen = m.gen
                /\ RetireDisowned(tok, m).ended = m.ended
                /\ RetireDisowned(tok, m).endedUIDs = m.endedUIDs \cup {tok.uid}
<1>1. tok.uid \in UIDs /\ tok.gen \in Gens
  BY Zenon DEF Token
<1>2. QED BY Zenon, <1>1 DEF RetireDisowned, Exists, fencingMark, ZeroMark

\* The mark after a release by its own lifecycle.
LEMMA RetireOwnedIs ==
    ASSUME NEW m \in fencingMark, NEW tok \in Token, tok.uid # NoUID
    PROVE  /\ RetireOwned(tok, m) \in fencingMark
           /\ RetireOwned(tok, m).uid = tok.uid /\ RetireOwned(tok, m).gen = tok.gen
           /\ RetireOwned(tok, m).ended = TRUE
           /\ RetireOwned(tok, m).endedUIDs = AdmittedMark(tok, m).endedUIDs \cup {tok.uid}
<1>1. tok.uid \in UIDs /\ tok.gen \in Gens
  BY Zenon DEF Token
<1>2. AdmittedMark(tok, m) \in fencingMark /\ AdmittedMark(tok, m).uid = tok.uid
      /\ AdmittedMark(tok, m).gen = tok.gen
  BY Zenon, AdmittedMarkIs
<1>3. QED BY Zenon, <1>1, <1>2 DEF RetireOwned, fencingMark

\* What an admission says about the lifecycle it admits.
LEMMA AdmittedGrant ==
    ASSUME MarkInv, mark \in fencingMark, NEW tok \in Token, Admits(tok, "grant", mark)
    PROVE  /\ tok.uid # NoUID /\ ~Retired(tok.uid)
           /\ mark.uid = tok.uid => ~mark.ended /\ tok.gen >= mark.gen
           /\ mark.uid # NoUID /\ mark.uid # tok.uid => mark.ended
BY Zenon DEF Admits, AdmitNewLifecycle, AdmitTerminalRetry, AdmitCurrent, Owns, Exists, MarkInv, Retired

\* What any admission says about the lifecycle it admits.
LEMMA AdmittedAny ==
    ASSUME MarkInv, mark \in fencingMark, NEW tok \in Token, NEW op, Admits(tok, op, mark)
    PROVE  /\ tok.uid # NoUID /\ tok.uid \notin mark.endedUIDs
           /\ mark.uid = tok.uid => tok.gen >= mark.gen
           /\ mark.uid # NoUID /\ mark.uid # tok.uid => mark.ended
<1>1. tok.gen \in Nat /\ mark.gen \in Nat
  BY Zenon DEF Token, fencingMark
<1>2. QED BY <1>1 DEF Admits, AdmitNewLifecycle, AdmitTerminalRetry, AdmitCurrent, Owns, Exists, MarkInv

\* The fencing class of every kind of request.
LEMMA ClassIs ==
    /\ \A k \in {"create", "export", "allow", "attach", "reconcile", "restore"} : Class(k) = "grant"
    /\ \A k \in {"unexport", "deny", "release"} : Class(k) = "revoke"
    /\ Class("delete") = "destroy"
BY Zenon DEF Class

----------------------------------------------------------------------------
(* Requests that may still execute.                                        *)

\* The types a controller's step needs.
LEMMA CoreTypes ==
    ASSUME Core, NEW w \in Workers
    PROVE  /\ pvs \in PillarVolumeState /\ spec \in VolumeSpec /\ used \subseteq UIDs
           /\ pvs.gen \in Nat /\ pvs.deleting \in BOOLEAN /\ pvs.uid \in UIDs \cup {NoUID}
           /\ pvs.uid # NoUID => pvs.uid \in used
           /\ worker[w].tok \in Token /\ worker[w].tok.uid \in UIDs \cup {NoUID}
           /\ WellFormed(worker[w]) /\ CallOK(w) /\ TypeInv /\ RecordInv
<1>1. worker[w].tok \in Token
  BY Zenon DEF Core, TypeInv, TypeOK
<1>2. QED BY Zenon, <1>1, RecordFields DEF Core, TypeInv, TypeOK, Token, RecordInv

\* A request that may still execute is typed.
LEMMA AliveFits ==
    ASSUME TypeInv, NEW r \in Alive
    PROVE  /\ r \in Request /\ Addressed(r) /\ r.tok \in Token
           /\ r.tok.uid \in UIDs \cup {NoUID} /\ r.tok.gen \in Nat
<1>1. r \in Request /\ Addressed(r)
  BY RequestsFit DEF Alive, TypeInv, TypeOK
<1>2. QED BY Zenon, <1>1 DEF Request, Token

\* The request a call waits for may still execute.
LEMMA AliveHeld ==
    ASSUME TypeInv, NEW w \in Workers, worker[w].pc \in Waits
    PROVE  /\ worker[w].req \in Alive /\ worker[w].req.tok = worker[w].tok
           /\ worker[w].req.kind = KindOf(worker[w].pc)
<1>1. /\ worker[w].req \in Request /\ worker[w].req.tok = worker[w].tok
      /\ worker[w].req.kind = KindOf(worker[w].pc)
  BY Zenon DEF TypeInv, WellFormed
<1>2. worker[w].req.kind \in Kinds
  BY Zenon, <1>1 DEF Request
<1>3. NoRequest.kind \notin Kinds
  BY Zenon DEF NoRequest, Kinds
<1>4. QED BY Zenon, <1>1, <1>2, <1>3 DEF Alive

\* A step of a call adds at most the request it sends.
LEMMA AliveBecomes ==
    ASSUME TypeInv, NEW w \in Workers, NEW pc, NEW tok, NEW node, NEW req, NEW answered,
           Becomes(w, pc, tok, node, req, answered),
           stray' \subseteq stray \cup ({worker[w].req} \ {NoRequest})
    PROVE  Alive' \subseteq Alive \cup ({req} \ {NoRequest})
BY Zenon DEF Becomes, Alive

\* A revoke of the record's lifecycle is not from its future.
LEMMA DenyPast ==
    ASSUME Core, NEW w \in Workers, worker[w].pc = "deny"
    PROVE  /\ worker[w].tok.uid \in used
           /\ worker[w].tok.uid = pvs.uid => worker[w].tok.gen <= pvs.gen
<1>1. worker[w].req \in Alive /\ worker[w].req.tok = worker[w].tok
  BY Zenon, AliveHeld DEF Core, Waits
<1>2. worker[w].tok.uid \in used
  BY Zenon DEF Core, CallOK
<1>3. worker[w].tok.uid = pvs.uid => pvs.uid # NoUID
  BY Zenon, <1>2 DEF Core, TypeInv, TypeOK
<1>4. QED BY Zenon, <1>1, <1>2, <1>3 DEF Core, RequestOK, Current

----------------------------------------------------------------------------
(* The agent serves requests, late or repeated.                            *)

\* Every mark the agent writes for a request, by what became of it.
LEMMA MarkAfter ==
    ASSUME Core, NEW r \in Alive, AgentActs(r)
    PROVE  \/ mark' = mark
           \/ /\ Admitted(r) /\ r.kind # "release" /\ mark' = AdmittedMark(r.tok, mark)
              /\ r.kind = "delete" => UNCHANGED <<vol, exp>>
           \/ /\ Admitted(r) /\ r.kind = "delete" /\ Apply(r)
              /\ mark' = EndedMark(AdmittedMark(r.tok, mark))
           \/ /\ r.kind = "release" /\ r.tok.uid # mark.uid
              /\ mark' = RetireDisowned(r.tok, mark) /\ UNCHANGED <<vol, exp>>
           \/ /\ r.kind = "release" /\ Admitted(r) /\ Owns(r.tok, mark)
              /\ mark' = RetireOwned(r.tok, mark) /\ exp' = NoExport
              /\ vol' = IF vol = r.tok.uid THEN Foreign ELSE vol
BY Zenon DEF AgentActs, Apply, ReleaseVolume, Fail, AppliedMark

\* The mark only moves forward, and forgets no lifecycle that ended.
LEMMA MarkMoves ==
    ASSUME Core, NEW r \in Alive, AgentActs(r)
    PROVE  /\ mark' \in fencingMark /\ mark.endedUIDs \subseteq mark'.endedUIDs
           /\ mark'.uid \in used \cup {NoUID} /\ mark'.endedUIDs \subseteq used
           /\ mark'.uid = NoUID => mark'.endedUIDs = {} /\ ~mark'.ended
           /\ mark'.uid \in mark'.endedUIDs => mark'.ended
           /\ mark.uid # NoUID =>
                \/ mark'.uid = mark.uid /\ mark'.gen >= mark.gen /\ (mark.ended => mark'.ended)
                \/ mark.ended /\ mark.uid \in mark'.endedUIDs
<1>0. /\ r.tok \in Token /\ r.tok.uid \in UIDs \cup {NoUID} /\ r.tok.gen \in Nat
      /\ r.kind = "release" => r.tok.uid # NoUID
  BY Zenon, AliveFits DEF Core, Addressed
<1>1. /\ mark \in fencingMark /\ MarkInv /\ RequestOK(r)
      /\ mark.uid \in UIDs \cup {NoUID} /\ mark.gen \in Nat /\ mark.endedUIDs \subseteq UIDs
      /\ mark.ended \in BOOLEAN
  BY Zenon, MarkFields DEF Core, TypeInv, TypeOK
<1>2. CASE mark' = mark
  BY <1>1, <1>2 DEF MarkInv
<1>3. ASSUME Admitted(r)
      PROVE  /\ r.tok.uid \in used /\ r.tok.uid # NoUID /\ r.tok.uid \notin mark.endedUIDs
             /\ mark.uid = r.tok.uid => r.tok.gen >= mark.gen
             /\ mark.uid # NoUID /\ mark.uid # r.tok.uid => mark.ended
  <2>1. /\ r.tok.uid # NoUID /\ r.tok.uid \notin mark.endedUIDs
        /\ mark.uid = r.tok.uid => r.tok.gen >= mark.gen
        /\ mark.uid # NoUID /\ mark.uid # r.tok.uid => mark.ended
    BY Zenon, <1>0, <1>1, <1>3, AdmittedAny DEF Admitted
  <2>2. QED BY Zenon, <1>1, <2>1 DEF RequestOK
<1>4. ASSUME Admitted(r)
      PROVE  /\ AdmittedMark(r.tok, mark) \in fencingMark
             /\ AdmittedMark(r.tok, mark).uid = r.tok.uid /\ AdmittedMark(r.tok, mark).gen = r.tok.gen
             /\ r.tok.uid = mark.uid =>
                  /\ AdmittedMark(r.tok, mark).ended = mark.ended
                  /\ AdmittedMark(r.tok, mark).endedUIDs = mark.endedUIDs
             /\ r.tok.uid # mark.uid =>
                  /\ AdmittedMark(r.tok, mark).ended = FALSE
                  /\ mark.uid # NoUID =>
                       AdmittedMark(r.tok, mark).endedUIDs = mark.endedUIDs \cup {mark.uid}
                  /\ mark.uid = NoUID => AdmittedMark(r.tok, mark).endedUIDs = {}
  <2>1. r.tok.uid # NoUID
    BY Zenon, <1>3, <1>4
  <2>2. mark \in fencingMark /\ r.tok \in Token
    BY Zenon, <1>0, <1>1
  <2>3. QED BY ONLY ZenonT(30), <2>1, <2>2, AdmittedMarkIs
<1>5. CASE Admitted(r) /\ mark' = AdmittedMark(r.tok, mark)
  BY Zenon, <1>1, <1>3, <1>4, <1>5 DEF MarkInv
<1>6. CASE Admitted(r) /\ mark' = EndedMark(AdmittedMark(r.tok, mark))
  <2>1. PICK m \in fencingMark : m = AdmittedMark(r.tok, mark)
    BY Zenon, <1>4, <1>6
  <2>2. /\ mark' \in fencingMark /\ mark'.ended = TRUE /\ mark'.uid = m.uid
        /\ mark'.gen = m.gen /\ mark'.endedUIDs = m.endedUIDs
    BY Zenon, <1>6, <2>1, EndedMarkIs
  <2>3. QED BY Zenon, <1>1, <1>3, <1>4, <1>6, <2>1, <2>2 DEF MarkInv
<1>7. CASE r.kind = "release" /\ r.tok.uid # mark.uid /\ mark' = RetireDisowned(r.tok, mark)
  <2>1. r.tok.uid \in used
    BY Zenon, <1>1, <1>7 DEF RequestOK
  <2>2. /\ mark' \in fencingMark
        /\ mark.uid = NoUID => /\ mark'.uid = r.tok.uid /\ mark'.ended = TRUE
                               /\ mark'.endedUIDs = {r.tok.uid}
        /\ mark.uid # NoUID => /\ mark'.uid = mark.uid /\ mark'.gen = mark.gen
                               /\ mark'.ended = mark.ended
                               /\ mark'.endedUIDs = mark.endedUIDs \cup {r.tok.uid}
    BY Zenon, <1>0, <1>1, <1>7, RetireDisownedIs
  <2>3. QED BY <1>1, <1>7, <2>1, <2>2 DEF MarkInv
<1>8. CASE r.kind = "release" /\ Admitted(r) /\ Owns(r.tok, mark) /\ mark' = RetireOwned(r.tok, mark)
  <2>1. r.tok.uid = mark.uid
    BY Zenon, <1>8 DEF Owns
  <2>2. /\ mark' \in fencingMark /\ mark'.uid = r.tok.uid /\ mark'.gen = r.tok.gen
        /\ mark'.ended = TRUE
        /\ mark'.endedUIDs = AdmittedMark(r.tok, mark).endedUIDs \cup {r.tok.uid}
    <3>1. r.tok \in Token /\ mark \in fencingMark /\ r.tok.uid # NoUID
      BY Zenon, <1>0, <1>1, <1>8
    <3>2. QED BY ONLY Zenon, <3>1, <1>8, RetireOwnedIs
  <2>3. QED BY Zenon, <1>1, <1>3, <1>4, <1>8, <2>1, <2>2 DEF MarkInv
<1>9. QED BY Zenon, <1>2, <1>5, <1>6, <1>7, <1>8, MarkAfter

\* A retired lifecycle stays retired, and one that adopted the volume
\* either keeps it or is retired.
LEMMA RetiredStays ==
    ASSUME Core, NEW r \in Alive, AgentActs(r), NEW u \in UIDs, Retired(u)
    PROVE  Retired(u)'
BY Zenon, MarkMoves DEF Retired

\* A target is only raised over the volume of its own lifecycle.
LEMMA RaisedByOwner ==
    ASSUME Core, NEW r \in Alive, Admitted(r), r.kind \in {"export", "reconcile", "restore"}
    PROVE  vol = r.tok.uid /\ mark.uid = vol /\ ~mark.ended /\ vol \in UIDs
<1>0. r.tok \in Token /\ r.tok.uid \in UIDs \cup {NoUID} /\ mark \in fencingMark /\ RequestOK(r)
  BY Zenon, AliveFits DEF Core, TypeInv, TypeOK
<1>1. Class(r.kind) = "grant"
  BY Zenon DEF Class
<1>2. r.tok.uid # NoUID /\ ~Retired(r.tok.uid)
  BY Zenon, <1>0, <1>1, AdmittedGrant DEF Admitted, Core
<1>3. vol = r.tok.uid
  BY Zenon, <1>0, <1>2 DEF RequestOK, Adopted
<1>4. QED BY Zenon, <1>0, <1>2, <1>3 DEF Core, MarkInv

\* A delete finds nothing exported: the unexport of its teardown saw to it,
\* and nothing raised the target since.
LEMMA DeletesUnexported ==
    ASSUME Core, NEW r \in Alive, Admitted(r), r.kind = "delete"
    PROVE  ~exp.up
<1>0. r.tok \in Token /\ mark \in fencingMark /\ RequestOK(r) /\ MarkInv
  BY Zenon, AliveFits DEF Core, TypeInv, TypeOK
<1>1. /\ r.tok.uid # NoUID /\ r.tok.uid \notin mark.endedUIDs
      /\ mark.uid # NoUID /\ mark.uid # r.tok.uid => mark.ended
  BY Zenon, <1>0, AdmittedAny DEF Admitted
<1>2. CASE mark.uid = r.tok.uid /\ ~mark.ended
  BY Zenon, <1>0, <1>1, <1>2 DEF RequestOK, Torn, Retired
<1>3. CASE mark.uid = NoUID \/ mark.ended
  BY Zenon, <1>0, <1>3 DEF MarkInv
<1>4. QED BY Zenon, <1>1, <1>2, <1>3

\* The agent keeps MarkInv.
LEMMA AgentKeepsMark ==
    ASSUME Core, NEW r \in Alive, AgentActs(r), UNCHANGED object
    PROVE  MarkInv'
<1>0. /\ r.tok \in Token /\ r.tok.uid \in UIDs \cup {NoUID} /\ r.kind \in Kinds
      /\ mark \in fencingMark /\ RequestOK(r) /\ MarkInv
      /\ exp \in [up : BOOLEAN, hosts : SUBSET Nodes, on : BOOLEAN]
  BY Zenon, AliveFits DEF Core, TypeInv, TypeOK, Request
<1>1. /\ mark'.uid \in used' \cup {NoUID} /\ mark'.endedUIDs \subseteq used'
      /\ mark'.uid = NoUID => mark'.endedUIDs = {} /\ ~mark'.ended
      /\ mark'.uid \in mark'.endedUIDs => mark'.ended
  BY Zenon, MarkMoves DEF object
<1>2. Imported' <=> Imported
  BY Zenon DEF object, Imported
<1> DEFINE Owned == /\ vol' \in UIDs => vol' = mark'.uid /\ ~mark'.ended
                    /\ mark'.ended /\ mark'.uid \notin mark'.endedUIDs => vol' = NoUID
<1>3. ASSUME Admitted(r), mark' = AdmittedMark(r.tok, mark), vol' = vol PROVE Owned
  <2>1. /\ r.tok.uid # NoUID /\ r.tok.uid \notin mark.endedUIDs
        /\ mark.uid # NoUID /\ mark.uid # r.tok.uid => mark.ended
    BY Zenon, <1>0, <1>3, AdmittedAny DEF Admitted
  <2>2. CASE mark.uid = r.tok.uid
    <3>1. mark'.uid = mark.uid /\ mark'.ended = mark.ended /\ mark'.endedUIDs = mark.endedUIDs
      BY ONLY Zenon, <1>0, <1>3, <2>1, <2>2, AdmittedMarkIs
    <3>2. QED BY Zenon, <1>0, <1>3, <3>1 DEF MarkInv
  <2>3. CASE mark.uid # r.tok.uid
    <3>1. mark'.ended = FALSE
      BY ONLY Zenon, <1>0, <1>3, <2>1, <2>3, AdmittedMarkIs
    <3>2. vol \notin UIDs
      BY Zenon, <1>0, <2>1, <2>3 DEF MarkInv
    <3>3. QED BY Zenon, <1>3, <3>1, <3>2
  <2>4. QED BY Zenon, <2>2, <2>3
<1>4. CASE Fail(r)
  <2>1. CASE mark' = mark
    BY Zenon, <1>0, <1>1, <1>2, <1>4, <2>1 DEF Fail, MarkInv
  <2>2. CASE Admitted(r) /\ mark' = AdmittedMark(r.tok, mark)
    <3>1. Owned
      BY Zenon, <1>3, <1>4, <2>2 DEF Fail
    <3>2. QED BY Zenon, <1>0, <1>1, <1>2, <1>4, <3>1 DEF Fail, MarkInv
  <2>3. QED BY Zenon, <1>4, <2>1, <2>2 DEF Fail
<1>5. CASE Apply(r) /\ r.kind \in {"unexport", "deny", "allow", "attach", "export", "reconcile", "restore"}
  <2>1. vol' = vol /\ mark' = AdmittedMark(r.tok, mark) /\ Admitted(r)
    BY Zenon, <1>5 DEF Apply, Mutate, AppliedMark
  <2>2. Owned
    BY Zenon, <1>3, <2>1
  <2>3. exp'.up => vol \in UIDs
    <3>1. CASE r.kind \in {"export", "reconcile", "restore"}
      BY Zenon, <2>1, <3>1, RaisedByOwner
    <3>2. CASE r.kind \in {"unexport", "deny", "allow", "attach"}
      <4>1. exp'.up => exp.up
        BY <1>0, <1>5, <3>2 DEF Apply, Mutate, NoExport
      <4>2. QED BY Zenon, <1>0, <4>1 DEF MarkInv
    <3>3. QED BY Zenon, <1>5, <3>1, <3>2
  <2>4. QED BY Zenon, <1>0, <1>1, <1>2, <2>1, <2>2, <2>3 DEF MarkInv
<1>6. CASE Apply(r) /\ r.kind = "create"
  <2>1. vol' = r.tok.uid /\ exp' = exp /\ mark' = AdmittedMark(r.tok, mark) /\ Admitted(r)
    BY Zenon, <1>6 DEF Apply, Mutate, AppliedMark
  <2>2. r.tok.uid # NoUID /\ (mark.uid = r.tok.uid => ~mark.ended)
    BY Zenon, <1>0, <1>6, <2>1, AdmittedGrant, ClassIs DEF Admitted
  <2>3. mark'.uid = r.tok.uid /\ mark'.ended = FALSE
    <3>1. CASE mark.uid = r.tok.uid
      BY ONLY Zenon, <1>0, <2>1, <2>2, <3>1, AdmittedMarkIs DEF fencingMark
    <3>2. CASE mark.uid # r.tok.uid
      BY ONLY Zenon, <1>0, <2>1, <2>2, <3>2, AdmittedMarkIs
    <3>3. QED BY Zenon, <3>1, <3>2
  <2>4. QED BY Zenon, <1>0, <1>1, <1>2, <2>1, <2>2, <2>3 DEF MarkInv
<1>7. CASE Apply(r) /\ r.kind = "delete"
  <2>1. vol' = NoUID /\ exp' = exp /\ Admitted(r)
    BY Zenon, <1>7 DEF Apply, Mutate
  <2>2. ~exp.up
    BY Zenon, <1>7, <2>1, DeletesUnexported
  <2>3. QED BY Zenon, <1>0, <1>1, <1>2, <2>1, <2>2 DEF MarkInv
<1>8. CASE ReleaseVolume(r)
  <2>0. Imported /\ r.kind = "release" /\ r.tok.uid # NoUID
    BY Zenon, <1>0, <1>8, AliveFits DEF ReleaseVolume, RequestOK, Addressed, Core
  <2>1. CASE UNCHANGED <<mark, vol, exp>>
    BY Zenon, <1>0, <1>1, <1>2, <2>1 DEF MarkInv
  <2>2. CASE r.tok.uid # mark.uid /\ mark' = RetireDisowned(r.tok, mark) /\ UNCHANGED <<vol, exp>>
    <3>1. CASE mark.uid = NoUID
      <4>1. mark'.uid \in mark'.endedUIDs
        <5>1. mark'.uid = r.tok.uid /\ mark'.endedUIDs = {r.tok.uid}
          BY ONLY Zenon, <1>0, <2>0, <2>2, <3>1, RetireDisownedIs
        <5>2. QED BY Zenon, <5>1
      <4>2. QED BY Zenon, <1>0, <1>1, <1>2, <2>0, <2>2, <3>1, <4>1 DEF MarkInv
    <3>2. CASE mark.uid # NoUID
      <4>1. /\ mark'.uid = mark.uid /\ mark'.ended = mark.ended
            /\ mark'.endedUIDs = mark.endedUIDs \cup {r.tok.uid}
        BY Zenon, <1>0, <2>0, <2>2, <3>2, RetireDisownedIs
      <4>2. QED BY Zenon, <1>0, <1>1, <1>2, <2>0, <2>2, <3>2, <4>1 DEF MarkInv
    <3>3. QED BY Zenon, <3>1, <3>2
  <2>3. CASE /\ Owns(r.tok, mark) /\ mark' = RetireOwned(r.tok, mark) /\ exp' = NoExport
             /\ vol' = IF vol = r.tok.uid THEN Foreign ELSE vol
    <3>1. mark'.uid \in mark'.endedUIDs /\ mark'.uid = mark.uid
      <4>1. /\ mark'.uid = r.tok.uid
            /\ mark'.endedUIDs = AdmittedMark(r.tok, mark).endedUIDs \cup {r.tok.uid}
        BY ONLY Zenon, <1>0, <2>0, <2>3, RetireOwnedIs
      <4>2. QED BY Zenon, <2>3, <4>1 DEF Owns
    <3>2. vol' \notin UIDs /\ exp'.up = FALSE
      BY Zenon, <1>0, <2>3 DEF MarkInv, Owns, NoExport
    <3>3. QED BY Zenon, <1>1, <1>2, <2>0, <3>1, <3>2 DEF MarkInv
  <2>4. QED BY Zenon, <1>8, <2>1, <2>2, <2>3 DEF ReleaseVolume
<1>9. QED BY Zenon, <1>0, <1>4, <1>5, <1>6, <1>7, <1>8 DEF AgentActs, Kinds, Apply

\* A lifecycle that made the volume its own keeps it until it is retired.
LEMMA AdoptedStays ==
    ASSUME Core, NEW r \in Alive, AgentActs(r), NEW u \in UIDs, Adopted(u)
    PROVE  Adopted(u)'
<1>0. /\ r.tok \in Token /\ mark \in fencingMark /\ MarkInv /\ r.kind \in Kinds
  BY Zenon, AliveFits DEF Core, TypeInv, TypeOK, Request
<1>1. CASE Retired(u)
  BY Zenon, <1>1, RetiredStays DEF Adopted
<1>2. CASE vol = u /\ vol' # u
  <2>1. mark.uid = u /\ ~mark.ended /\ u # NoUID
    BY Zenon, <1>0, <1>2 DEF MarkInv
  <2>2. ASSUME Admitted(r) PROVE r.tok.uid = u
    BY Zenon, <1>0, <2>1, <2>2, AdmittedAny DEF Admitted
  <2>3. CASE Apply(r) /\ r.kind = "delete"
    <3>1. Admitted(r) /\ mark' = EndedMark(AdmittedMark(r.tok, mark))
      BY Zenon, <2>3 DEF Apply, AppliedMark
    <3>2. AdmittedMark(r.tok, mark) \in fencingMark /\ AdmittedMark(r.tok, mark).uid = u
      BY ONLY Zenon, <1>0, <2>1, <2>2, <3>1, AdmittedMarkIs
    <3>3. mark'.uid = u /\ mark'.ended
      BY Zenon, <3>1, <3>2, EndedMarkIs
    <3>4. QED BY Zenon, <3>3 DEF Adopted, Retired
  <2>4. CASE Apply(r) /\ r.kind # "delete"
    <3>1. vol' = vol \/ vol' = r.tok.uid
      BY Zenon, <2>4 DEF Apply, Mutate
    <3>2. QED BY Zenon, <1>2, <2>2, <2>4, <3>1 DEF Apply
  <2>5. CASE ReleaseVolume(r)
    <3>1. Owns(r.tok, mark) /\ Admitted(r) /\ mark' = RetireOwned(r.tok, mark)
      BY Zenon, <1>2, <2>5 DEF ReleaseVolume
    <3>2. mark'.uid = u /\ mark'.ended
      BY ONLY Zenon, <1>0, <2>1, <2>2, <3>1, RetireOwnedIs
    <3>3. QED BY Zenon, <3>2 DEF Adopted, Retired
  <2>6. CASE Fail(r)
    BY Zenon, <1>2, <2>6 DEF Fail
  <2>7. QED BY Zenon, <2>3, <2>4, <2>5, <2>6 DEF AgentActs
<1>3. QED BY Zenon, <1>1, <1>2 DEF Adopted

\* No delayed request raises a target that a teardown took down.
LEMMA TornStays ==
    ASSUME Core, NEW r \in Alive, AgentActs(r),
           NEW t \in Alive, t.kind \in Teardown, Torn(t.tok)
    PROVE  Torn(t.tok)'
<1>0. /\ r.tok \in Token /\ t.tok \in Token /\ r.tok.gen \in Nat /\ t.tok.gen \in Nat
      /\ mark \in fencingMark /\ MarkInv /\ mark.gen \in Nat
      /\ exp \in [up : BOOLEAN, hosts : SUBSET Nodes, on : BOOLEAN]
      /\ Later(r, t) /\ t.tok.uid \in used /\ used \subseteq UIDs
  BY Zenon, AliveFits, MarkFields DEF Core, TypeInv, TypeOK, RequestOK, Teardown
<1>1. CASE Retired(t.tok.uid)
  BY Zenon, <1>0, <1>1, RetiredStays DEF Torn
<1>2. CASE ~Retired(t.tok.uid)
  <2>1. mark.uid = t.tok.uid /\ mark.gen >= t.tok.gen /\ ~exp.up /\ ~mark.ended
    BY Zenon, <1>2 DEF Torn, Retired
  <2>2. mark'.uid = mark.uid /\ mark'.gen >= mark.gen /\ mark'.gen \in Nat
    BY Zenon, <1>0, <2>1, MarkMoves, MarkFields
  <2>3. ~exp'.up
    <3>1. CASE Apply(r) /\ r.kind \in {"export", "reconcile", "restore"}
      <4>1. Admitted(r)
        BY Zenon, <3>1 DEF Apply
      <4>2. r.tok.uid = mark.uid
        BY Zenon, <3>1, <4>1, RaisedByOwner
      <4>3. r.tok.gen >= mark.gen
        BY Zenon, <1>0, <4>1, <4>2, AdmittedAny DEF Admitted
      <4>4. r.tok.gen < t.tok.gen
        BY Zenon, <1>0, <2>1, <3>1, <4>2 DEF Later, Raises
      <4>5. QED BY <1>0, <2>1, <4>3, <4>4
    <3>2. CASE Apply(r) /\ r.kind \notin {"export", "reconcile", "restore"}
      BY <1>0, <2>1, <3>2 DEF Apply, Mutate, NoExport
    <3>3. CASE ReleaseVolume(r) \/ Fail(r)
      BY <2>1, <3>3 DEF ReleaseVolume, Fail, NoExport
    <3>4. QED BY Zenon, <3>1, <3>2, <3>3 DEF AgentActs
  <2>4. QED BY <1>0, <2>1, <2>2, <2>3 DEF Torn
<1>3. QED BY Zenon, <1>1, <1>2

\* The agent keeps what Core says about the record, requests and other calls.
LEMMA AgentKeeps ==
    ASSUME Core, NEW r \in Alive, AgentActs(r), UNCHANGED object, Alive' \subseteq Alive
    PROVE  /\ MarkInv' /\ RecordInv'
           /\ \A q \in Alive' : RequestOK(q)'
           /\ \A q, t \in Alive' : Later(q, t)
           /\ \A w \in Workers : worker'[w] = worker[w] => CallOK(w)'
<1>0. used \subseteq UIDs /\ RecordInv /\ used' = used /\ pvs' = pvs /\ spec' = spec
  BY Zenon DEF Core, TypeInv, TypeOK, object
<1>1. MarkInv'
  BY Zenon, AgentKeepsMark
<1>2. \A u \in used : (Retired(u) => Retired(u)') /\ (Adopted(u) => Adopted(u)')
  BY Zenon, <1>0, RetiredStays, AdoptedStays
<1>3. RecordInv'
  <2>1. /\ pvs'.uid \in used' \cup {NoUID}
        /\ pvs'.uid = NoUID => pvs' = NoVolumeState
        /\ pvs'.deleting => pvs'.pubs = {}
        /\ pvs'.importAcquired => pvs'.phase # "Provisioning"
        /\ \A p \in pvs'.pubs : p.local = isLocalAttachPublish(p.node)'
    BY Zenon, <1>0 DEF RecordInv, isLocalAttachPublish, LocalAttach, Shareable
  <2>2. \A u \in used' : u = pvs'.uid \/ Retired(u)'
    BY Zenon, <1>0, <1>2 DEF RecordInv
  <2>3. pvs'.phase # "Provisioning" => Adopted(pvs.uid)'
    <3>1. pvs.uid = NoUID => pvs.phase = "Provisioning"
      BY Zenon, <1>0, NewVolumeStateIs DEF RecordInv
    <3>2. QED BY Zenon, <1>0, <1>2, <3>1 DEF RecordInv
  <2>4. QED BY Zenon, <1>0, <2>1, <2>2, <2>3 DEF RecordInv, Adopted
<1>4. ASSUME NEW q \in Alive' PROVE RequestOK(q)'
  <2>0. RequestOK(q) /\ q \in Alive
    BY Zenon, <1>4 DEF Core
  <2>1. q.kind = "delete" => Torn(q.tok)'
    BY Zenon, <2>0, TornStays DEF RequestOK, Teardown
  <2>2. q.tok.uid # NoUID => q.tok.uid \in used
    BY Zenon, <2>0 DEF RequestOK
  <2>3. /\ q.kind \in {"export", "reconcile", "restore"} /\ q.tok.uid # NoUID => Adopted(q.tok.uid)'
        /\ q.kind \in {"unexport", "delete"} /\ Imported => Adopted(q.tok.uid)'
    BY Zenon, <1>2, <2>0, <2>2 DEF RequestOK
  <2>4. QED BY Zenon, <1>0, <2>0, <2>1, <2>3 DEF RequestOK, Current, Imported
<1>5. \A q, t \in Alive' : Later(q, t)
  BY Zenon DEF Core
<1>6. ASSUME NEW w \in Workers, worker'[w] = worker[w] PROVE CallOK(w)'
  <2>0. CallOK(w)
    BY Zenon DEF Core
  <2>1. worker[w].pc = "unexport" /\ worker[w].answered => Torn(worker[w].tok)'
    <3>1. SUFFICES ASSUME worker[w].pc = "unexport", worker[w].answered
                   PROVE  Torn(worker[w].tok)'
      BY Zenon
    <3>2. /\ worker[w].req \in Alive /\ worker[w].req.tok = worker[w].tok
          /\ worker[w].req.kind = "unexport"
      BY Zenon, <3>1, AliveHeld, KindOfIs DEF Core, Waits
    <3>3. PICK t \in Alive : t = worker[w].req
      BY Zenon, <3>2
    <3>4. Torn(t.tok)
      BY Zenon, <2>0, <3>1, <3>2, <3>3 DEF CallOK
    <3>5. Torn(t.tok)'
      BY Zenon, <3>2, <3>3, <3>4, TornStays DEF Teardown
    <3>6. QED BY Zenon, <1>6, <3>2, <3>3, <3>5 DEF Torn, Retired
  <2>2. QED BY Zenon, <1>0, <1>2, <1>6, <2>0, <2>1 DEF CallOK, Torn, Retired, Adopted
<1>7. QED BY Zenon, <1>1, <1>3, <1>4, <1>5, <1>6

\* What the answer of a request means to the call that waits for it.
LEMMA AnswerMeans ==
    ASSUME Core, NEW w \in Workers, Serve(w)
    PROVE  CallOK(w)'
<1>0. /\ worker[w].req \in Alive /\ worker[w].req.tok = worker[w].tok /\ CallOK(w)
      /\ worker[w].req.kind = KindOf(worker[w].pc) /\ worker[w].pc \in Waits
      /\ mark \in fencingMark /\ MarkInv /\ used \subseteq UIDs
  BY Zenon, RequestsFit, AliveHeld DEF Serve, Waiting, Core, TypeInv, TypeOK
<1>1. PICK r \in Alive : r = worker[w].req
  BY Zenon, <1>0
<1>2. /\ r.tok \in Token /\ r.tok = worker[w].tok /\ r.kind = KindOf(worker[w].pc)
      /\ r.tok.gen \in Nat /\ RequestOK(r) /\ AgentActs(r)
      /\ Apply(r) \/ ReleaseVolume(r)
  BY Zenon, <1>0, <1>1, AliveFits DEF Core, Serve, AgentActs
<1>3. worker'[w].pc = worker[w].pc /\ worker'[w].tok = worker[w].tok
  BY Zenon, ServedEffect DEF Serve, Becomes, Core
<1>4. ASSUME Admitted(r)
      PROVE  /\ AdmittedMark(r.tok, mark) \in fencingMark
             /\ AdmittedMark(r.tok, mark).uid = r.tok.uid
             /\ AdmittedMark(r.tok, mark).gen = r.tok.gen
  <2>1. r.tok.uid # NoUID
    BY Zenon, <1>0, <1>2, <1>4, AdmittedAny DEF Admitted
  <2>2. QED BY ONLY Zenon, <1>0, <1>2, <2>1, AdmittedMarkIs
<1>5. worker[w].pc \notin {"idle", "ensure"} => worker[w].tok.uid \in used'
  BY Zenon, <1>0 DEF Serve, object, CallOK
<1>6. ASSUME worker[w].pc = "backend" PROVE Adopted(r.tok.uid)'
  <2>1. r.kind = "create"
    BY Zenon, <1>2, <1>6, KindOfIs
  <2>2. vol' = r.tok.uid
    BY Zenon, <1>2, <2>1 DEF Apply, Mutate, ReleaseVolume
  <2>3. QED BY Zenon, <2>2 DEF Adopted
<1>7. ASSUME worker[w].pc \in {"resume", "claimExport"} PROVE FALSE
  BY Zenon, <1>0, <1>7 DEF Waits
<1>8. ASSUME worker[w].pc = "unexport" PROVE Torn(r.tok)'
  <2>1. r.kind = "unexport"
    BY Zenon, <1>2, <1>8, KindOfIs
  <2>2. Admitted(r) /\ mark' = AdmittedMark(r.tok, mark) /\ exp' = NoExport
    BY Zenon, <1>2, <2>1 DEF Apply, AppliedMark, Mutate, ReleaseVolume
  <2>3. mark'.uid = r.tok.uid /\ mark'.gen = r.tok.gen
    BY Zenon, <1>4, <2>2
  <2>4. QED BY <1>2, <2>2, <2>3 DEF Torn, NoExport
<1>9. ASSUME worker[w].pc = "destroy" PROVE Retired(r.tok.uid)'
  <2>1. r.kind = "delete"
    BY Zenon, <1>2, <1>9, KindOfIs
  <2>2. Admitted(r) /\ mark' = EndedMark(AdmittedMark(r.tok, mark))
    BY Zenon, <1>2, <2>1 DEF Apply, AppliedMark, ReleaseVolume
  <2>3. mark'.uid = r.tok.uid /\ mark'.ended
    BY Zenon, <1>4, <2>2, EndedMarkIs
  <2>4. QED BY Zenon, <2>3 DEF Retired
<1>10. ASSUME worker[w].pc = "release" PROVE Retired(r.tok.uid)'
  <2>1. r.kind = "release" /\ r.tok.uid # NoUID
    BY Zenon, <1>2, <1>10, KindOfIs, AliveFits DEF Addressed, Core
  <2>2. ReleaseVolume(r)
    BY Zenon, <1>2, <2>1 DEF Apply
  <2>3. CASE AlreadyRetired(r.tok, mark) /\ UNCHANGED mark
    BY Zenon, <2>3 DEF AlreadyRetired, Retired
  <2>4. CASE mark' = RetireDisowned(r.tok, mark)
    <3>1. r.tok.uid \in mark'.endedUIDs
      <4>1. mark'.endedUIDs = {r.tok.uid} \/ mark'.endedUIDs = mark.endedUIDs \cup {r.tok.uid}
        BY ONLY Zenon, <1>0, <1>2, <2>1, <2>4, RetireDisownedIs
      <4>2. QED BY Zenon, <4>1
    <3>2. QED BY Zenon, <3>1 DEF Retired
  <2>5. CASE mark' = RetireOwned(r.tok, mark)
    <3>1. mark'.uid = r.tok.uid /\ mark'.ended
      BY ONLY Zenon, <1>0, <1>2, <2>1, <2>5, RetireOwnedIs
    <3>2. QED BY Zenon, <3>1 DEF Retired
  <2>6. QED BY Zenon, <2>2, <2>3, <2>4, <2>5 DEF ReleaseVolume
<1>11. QED BY Zenon, <1>2, <1>3, <1>5, <1>6, <1>7, <1>8, <1>9, <1>10 DEF CallOK, Torn, Retired, Adopted

\* The agent keeps Core.
LEMMA AgentStepCore ==
    ASSUME Core, TypeInv', AgentStep
    PROVE  Core'
<1>0. TypeInv' /\ TypeInv
  BY Zenon DEF Core
<1>1. ASSUME NEW w \in Workers, Serve(w) PROVE Core'
  <2>1. worker[w].req \in Alive /\ AgentActs(worker[w].req) /\ stray' = stray
    BY Zenon, <1>0, <1>1 DEF Serve, AgentActs, Alive, Waiting
  <2>2. Becomes(w, worker[w].pc, worker[w].tok, worker[w].node, worker[w].req, TRUE)
    BY Zenon, <1>0, <1>1, ServedEffect DEF Serve
  <2>3. Alive' \subseteq Alive
    BY Zenon, <2>1, <2>2 DEF Becomes, Alive
  <2>4. CallOK(w)'
    BY Zenon, <1>1, AnswerMeans
  <2>5. \A v \in Workers \ {w} : worker'[v] = worker[v]
    BY Zenon, <2>2 DEF Becomes
  <2>6. UNCHANGED object
    BY Zenon, <1>1 DEF Serve
  <2>7. PICK r \in Alive : r = worker[w].req
    BY Zenon, <2>1
  <2>8. AgentActs(r)
    BY Zenon, <2>1, <2>7
  <2>9. /\ MarkInv' /\ RecordInv'
        /\ \A q \in Alive' : RequestOK(q)'
        /\ \A q, t \in Alive' : Later(q, t)
        /\ \A v \in Workers : worker'[v] = worker[v] => CallOK(v)'
    BY Zenon, <2>3, <2>6, <2>8, AgentKeeps
  <2>10. QED BY Zenon, <1>0, <2>4, <2>5, <2>9 DEF Core
<1>2. ASSUME NEW w \in Workers, ServeFails(w) PROVE Core'
  <2>1. worker[w].req \in Alive /\ AgentActs(worker[w].req) /\ UNCHANGED object /\ stray' = stray
    BY Zenon, <1>0, <1>2 DEF ServeFails, AgentActs, Alive, Waiting
  <2>2. Becomes(w, "idle", NoToken, NoNode, NoRequest, FALSE)
    BY Zenon, <1>0, <1>2, ReturnEffect DEF ServeFails
  <2>3. Alive' \subseteq Alive
    BY Zenon, <1>0, <2>1, <2>2, AliveBecomes
  <2>4. CallOK(w)'
    BY Zenon, <2>2 DEF CallOK, Becomes
  <2>5. \A v \in Workers \ {w} : worker'[v] = worker[v]
    BY Zenon, <2>2 DEF Becomes
  <2>6. PICK r \in Alive : r = worker[w].req /\ AgentActs(r)
    BY Zenon, <2>1
  <2>7. /\ MarkInv' /\ RecordInv'
        /\ \A q \in Alive' : RequestOK(q)'
        /\ \A q, t \in Alive' : Later(q, t)
        /\ \A v \in Workers : worker'[v] = worker[v] => CallOK(v)'
    BY Zenon, <2>1, <2>3, <2>6, AgentKeeps
  <2>8. QED BY Zenon, <1>0, <2>4, <2>5, <2>7 DEF Core
<1>3. ASSUME NEW r \in stray, ServeStray(r) PROVE Core'
  <2>1. r \in Alive /\ AgentActs(r) /\ UNCHANGED object /\ UNCHANGED worker
    BY Zenon, <1>3 DEF ServeStray, AgentActs, Alive
  <2>2. Alive' \subseteq Alive
    BY Zenon, <1>3 DEF ServeStray, Alive
  <2>3. QED BY Zenon, <1>0, <2>1, <2>2, AgentKeeps DEF Core
<1>4. CASE Restart \/ Reboot
  <2>1. UNCHANGED <<object, worker, stray, mark, vol>> /\ (exp'.up => exp.up)
    BY <1>4 DEF Restart, Reboot, NoExport
  <2>2. Alive' = Alive
    BY Zenon, <2>1 DEF Alive
  <2>3. MarkInv' /\ RecordInv'
    BY Zenon, <2>1 DEF Core, MarkInv, RecordInv, object, Imported, Retired, Adopted,
                isLocalAttachPublish, LocalAttach, Shareable
  <2>4. ASSUME NEW q \in Alive' PROVE RequestOK(q)'
    BY Zenon, <2>1, <2>2 DEF Core, RequestOK, object, Imported, Retired, Adopted, Current, Torn
  <2>5. ASSUME NEW w \in Workers PROVE CallOK(w)'
    BY Zenon, <2>1 DEF Core, CallOK, object, Retired, Adopted, Torn
  <2>6. QED BY Zenon, <1>0, <2>2, <2>3, <2>4, <2>5 DEF Core
<1>5. QED BY Zenon, <1>1, <1>2, <1>3, <1>4 DEF AgentStep
=============================================================================
