------------------------ MODULE VolumeGrants_proofs -------------------------
(***************************************************************************)
(* Publications of a volume and the abandoned-volume reaper: the invariants*)
(* about the nodes that were granted access, the lifecycles that were      *)
(* reported, and what the agent destroys.                                  *)
(***************************************************************************)
EXTENDS VolumeCore_proofs

USE GensAssumption, NoUIDAssumption, NodesAssumption, SpecsAssumption,
    ForeignAssumption, MaxStrayAssumption, StartReadyAssumption

----------------------------------------------------------------------------
(* CreateVolume, DeleteVolume and the reaper disturb no publication.       *)

\* The calls are typed.
LEMMA WorkersAre ==
    ASSUME TypeInv
    PROVE  worker \in [Workers -> Worker]
BY Zenon DEF TypeInv, TypeOK, Worker

\* Sending such a request is a move of the lifecycle,
LEMMA CallMoves ==
    ASSUME TypeInv, NEW w \in Workers, NEW pc \in PCs \ (Publishes \cup {"deny"}),
           NEW kind \in LifecycleKinds, NEW tok, Call(w, pc, NewRequest(kind, tok)),
           UNCHANGED stray
    PROVE  LifecycleMove(w)
<1>1. worker \in [Workers -> Worker]
  BY Zenon, WorkersAre
<1>2. worker'[w].pc = pc /\ worker'[w].req = NewRequest(kind, tok)
  BY Zenon, <1>1 DEF Call, Worker
<1>3. \A v \in Workers \ {w} : worker'[v] = worker[v]
  BY Zenon, <1>1 DEF Call
<1>4. NewRequest(kind, tok).kind = kind /\ NewRequest(kind, tok).local = FALSE
  BY Zenon DEF NewRequest
<1>5. Alive' \subseteq Alive \cup {NewRequest(kind, tok)}
  BY Zenon, <1>2, <1>3 DEF Alive
<1>6. QED BY Zenon, <1>2, <1>3, <1>4, <1>5 DEF LifecycleMove

\* so is going on to another step,
LEMMA ProceedMoves ==
    ASSUME TypeInv, NEW w \in Workers, NEW pc \in PCs \ (Publishes \cup {"deny"}), NEW uid,
           Proceed(w, pc, uid), UNCHANGED stray
    PROVE  LifecycleMove(w)
<1>1. worker \in [Workers -> Worker]
  BY Zenon, WorkersAre
<1>2. worker'[w].pc = pc /\ worker'[w].req = NoRequest
  BY Zenon, <1>1 DEF Proceed, Worker
<1>3. \A v \in Workers \ {w} : worker'[v] = worker[v]
  BY Zenon, <1>1 DEF Proceed
<1>4. Alive' \subseteq Alive
  BY Zenon, <1>2, <1>3 DEF Alive
<1>5. QED BY Zenon, <1>2, <1>3, <1>4 DEF LifecycleMove

\* and so is returning.
LEMMA ReturnMoves ==
    ASSUME TypeInv, NEW w \in Workers, Return(w),
           stray' \subseteq stray \cup ({worker[w].req} \ {NoRequest})
    PROVE  LifecycleMove(w)
<1>1. Becomes(w, "idle", NoToken, NoNode, NoRequest, FALSE)
  BY Zenon, ReturnEffect
<1>2. Alive' \subseteq Alive
  BY Zenon, <1>1, AliveBecomes
<1>3. QED BY Zenon, <1>1, <1>2 DEF LifecycleMove, Becomes, Publishes

\* CreateVolume, DeleteVolume and the reaper disturb no publication.
LEMMA LifecycleStep ==
    ASSUME Core, TypeInv', NEW w \in Workers, CreateStep(w) \/ DeleteStep(w)
    PROVE  /\ LifecycleMove(w) /\ Undisturbed /\ RecordGrows /\ spec' = spec
           /\ UNCHANGED <<stray, agent, granted, voided>>
<1>0. /\ pvs \in PillarVolumeState /\ spec \in VolumeSpec /\ TypeInv /\ RecordInv
      /\ pvs.gen \in Nat /\ pvs'.gen \in Nat /\ pvs.deleting \in BOOLEAN
      /\ {"ensure", "claimBackend", "backend", "resume", "claimExport", "export", "reap",
          "unexport", "release", "destroy"} \subseteq PCs \ (Publishes \cup {"deny"})
  BY Zenon, CoreTypes, RecordFields DEF TypeInv, TypeOK, PCs, Waits, Publishes
<1>1. UNCHANGED object => Undisturbed /\ RecordGrows /\ spec' = spec
  BY <1>0 DEF Undisturbed, RecordGrows, object
<1>2. CASE BeginCreate(w)
  <2>1. UNCHANGED <<object, stray, agent, granted, voided>>
    BY Zenon, <1>2 DEF BeginCreate
  <2>2. CASE UNCHANGED worker
    BY Zenon, <1>1, <2>1, <2>2 DEF LifecycleMove, Alive
  <2>3. CASE Proceed(w, "ensure", NoUID)
    BY Zenon, <1>0, <1>1, <2>1, <2>3, ProceedMoves
  <2>4. QED BY Zenon, <1>2, <2>2, <2>3 DEF BeginCreate
<1>3. CASE EnsureVolumeState(w)
  <2>1. UNCHANGED <<stray, agent, granted, voided>> /\ spec' = spec
    BY Zenon, <1>3 DEF EnsureVolumeState, history, object
  <2>2. LifecycleMove(w)
    BY Zenon, <1>0, <1>3, <2>1, ProceedMoves DEF EnsureVolumeState
  <2>3. Undisturbed /\ RecordGrows
    BY <1>0, <1>1, <1>3, NewVolumeStateIs DEF EnsureVolumeState, Undisturbed, RecordGrows, RecordInv
  <2>4. QED BY Zenon, <2>1, <2>2, <2>3
<1>4. CASE CreateBackend(w) \/ ExportVolume(w)
  <2>1. UNCHANGED <<stray, agent, granted, voided>> /\ Commit(claimOperation(pvs))
    BY Zenon, <1>4 DEF CreateBackend, ExportVolume, history
  <2>2. LifecycleMove(w)
    BY Zenon, <1>0, <1>4, <2>1, CallMoves DEF CreateBackend, ExportVolume, LifecycleKinds
  <2>3. Undisturbed /\ RecordGrows /\ spec' = spec
    BY <1>0, <2>1, ClaimIs DEF Undisturbed, RecordGrows
  <2>4. QED BY Zenon, <2>1, <2>2, <2>3
<1>5. CASE CommitBackend(w) \/ ResumePartial(w)
  <2>1. /\ UNCHANGED <<stray, agent, granted, voided>>
        /\ Proceed(w, "claimExport", worker[w].tok.uid)
        /\ Commit(persistCreatePartial(pvs)) \/ UNCHANGED object
    BY Zenon, <1>5 DEF CommitBackend, ResumePartial, history
  <2>2. LifecycleMove(w)
    BY Zenon, <1>0, <2>1, ProceedMoves
  <2>3. Undisturbed /\ RecordGrows /\ spec' = spec
    BY <1>0, <1>1, <2>1, CreatePartialIs DEF Undisturbed, RecordGrows
  <2>4. QED BY Zenon, <2>1, <2>2, <2>3
<1>6. CASE RecordReady(w)
  <2>1. /\ UNCHANGED <<stray, agent, granted, voided>> /\ Return(w)
        /\ Commit(persistVolumeReady(pvs))
    BY Zenon, <1>6 DEF RecordReady
  <2>2. LifecycleMove(w)
    BY Zenon, <1>0, <2>1, ReturnMoves
  <2>3. Undisturbed /\ RecordGrows /\ spec' = spec
    BY <1>0, <2>1, ReadyIs DEF Undisturbed, RecordGrows
  <2>4. QED BY Zenon, <2>1, <2>2, <2>3
<1>7. CASE DeleteVolume(w) \/ ReapAbandoned(w)
  <2>1. /\ UNCHANGED <<stray, agent, granted, voided>>
        /\ Commit(markVolumeDeleting(pvs)) /\ teardownMarkedVolume(w, pvs')
    BY Zenon, <1>7 DEF DeleteVolume, ReapAbandoned, history
  <2>2. LifecycleMove(w)
    BY Zenon, <1>0, <2>1, CallMoves DEF teardownMarkedVolume, LifecycleKinds
  <2>3. /\ pvs'.deleting = TRUE /\ pvs'.gen = IF pvs.deleting THEN pvs.gen ELSE pvs.gen + 1
        /\ pvs'.uid = pvs.uid /\ pvs'.pubs = pvs.pubs
        /\ pvs'.localAttachNode = pvs.localAttachNode /\ spec' = spec /\ used' = used
    BY Zenon, <1>0, <2>1, DeletingIs
  <2>4. pvs'.gen >= pvs.gen /\ (pvs.deleting \/ pvs'.gen > pvs.gen)
    BY <1>0, <2>3
  <2>5. Undisturbed /\ RecordGrows
    BY Zenon, <2>3, <2>4 DEF Undisturbed, RecordGrows
  <2>6. QED BY Zenon, <2>1, <2>2, <2>3, <2>5
<1>8. CASE BeginReap(w)
  BY Zenon, <1>0, <1>1, <1>8, ProceedMoves DEF BeginReap, history
<1>9. CASE DestroyBackend(w)
  BY Zenon, <1>0, <1>1, <1>9, CallMoves DEF DestroyBackend, history, LifecycleKinds
<1>10. CASE FinishDelete(w)
  <2>1. UNCHANGED <<stray, agent, granted, voided, spec, used>> /\ Return(w)
    BY Zenon, <1>10 DEF FinishDelete, history
  <2>2. LifecycleMove(w)
    BY Zenon, <1>0, <2>1, ReturnMoves
  <2>3. CASE Pinned(pvs, worker[w].tok.uid)
    <3>1. worker[w].pc \in {"destroy", "release"} /\ pvs' = NoVolumeState
      BY Zenon, <1>10, <2>3 DEF FinishDelete, Answered
    <3>2. /\ worker[w].req \in Alive /\ worker[w].req.tok = worker[w].tok
          /\ worker[w].req.kind \in Teardown
      BY Zenon, <1>0, <3>1, AliveHeld, KindOfIs DEF Waits, Teardown
    <3>3. pvs.deleting
      BY Zenon, <2>3, <3>2 DEF Core, RequestOK, Current, Pinned
    <3>4. QED BY Zenon, <1>0, <2>1, <2>2, <3>1, <3>3, NewVolumeStateIs DEF Undisturbed, RecordGrows, RecordInv
  <2>4. CASE ~Pinned(pvs, worker[w].tok.uid)
    BY <1>0, <1>10, <2>1, <2>2, <2>4 DEF FinishDelete, Undisturbed, RecordGrows
  <2>5. QED BY Zenon, <2>3, <2>4
<1>11. QED BY Zenon, <1>2, <1>3, <1>4, <1>5, <1>6, <1>7, <1>8, <1>9, <1>10 DEF CreateStep, DeleteStep

----------------------------------------------------------------------------
(* Reservations and revocations.                                           *)

\* What a step must keep for the publications to stand.
LEMMA PubKeeps ==
    ASSUME Core, Core', PubInv, spec' = spec, pvs'.uid = pvs.uid, pvs'.gen >= pvs.gen,
           \A n \in Nodes : \/ Standing(n) => Standing(n)'
                            \/ n \notin granted' /\ \A v \in Workers : worker[v].node = n => v \in voided',
           pvs'.gen = pvs.gen => \A n \in Nodes : Standing(n)' => Standing(n),
           \A v \in Workers : \/ PubCall(v)'
                              \/ worker'[v] = worker[v] /\ (v \in voided => v \in voided'),
           \A n \in granted' : n \in granted \/ Standing(n)',
           ~Shareable => \A p, q \in pvs'.pubs : p.node = q.node
    PROVE  PubInv'
<1>0. pvs.gen \in Nat /\ pvs'.gen \in Nat /\ granted' \subseteq Nodes
  BY Zenon, RecordFields DEF Core, TypeInv, TypeOK
<1>1. ASSUME NEW v \in Workers, worker'[v] = worker[v], v \in voided => v \in voided'
      PROVE  PubCall(v)'
  <2>0. PubCall(v) /\ WellFormed(worker[v])
    BY Zenon DEF PubInv, Core, TypeInv
  <2>1. ASSUME worker[v].pc \in Publishes, v \notin voided'
        PROVE  worker[v].tok.uid = pvs.uid /\ Standing(worker[v].node)'
    BY Zenon, <1>1, <2>0, <2>1 DEF PubCall, WellFormed
  <2>2. ASSUME worker[v].pc = "deny", worker[v].tok = fenceToken(pvs')
        PROVE  ~Standing(worker[v].node)'
    <3>1. worker[v].tok.uid = pvs.uid /\ worker[v].tok.gen = pvs'.gen
      BY <2>2 DEF fenceToken
    <3>2. pvs'.gen = pvs.gen
      BY <1>0, <2>2, <3>1, DenyPast
    <3>3. worker[v].tok = fenceToken(pvs)
      BY Zenon, <2>2, <3>2 DEF fenceToken
    <3>4. worker[v].node \in Nodes
      BY Zenon, <2>0, <2>2 DEF WellFormed
    <3>5. QED BY Zenon, <1>1, <2>0, <2>2, <3>2, <3>3, <3>4 DEF PubCall
  <2>3. QED BY Zenon, <1>1, <2>1, <2>2 DEF PubCall, Standing
<1>2. \A n \in granted' : Standing(n)'
  BY Zenon, <1>0 DEF PubInv
<1>3. (~Shareable => \A p, q \in pvs.pubs : p.node = q.node)'
  BY Zenon DEF Shareable
<1>4. QED BY Zenon, <1>1, <1>2, <1>3 DEF PubInv

\* Moves of the lifecycle keep PubInv.
LEMMA LifecyclePub ==
    ASSUME Core, Core', PubInv, NEW w \in Workers, LifecycleMove(w), Undisturbed,
           spec' = spec, UNCHANGED <<granted, voided>>
    PROVE  PubInv'
<1>1. \A v \in Workers : PubCall(v)' \/ worker'[v] = worker[v]
  BY Zenon DEF LifecycleMove, PubCall
<1>2. CASE pvs'.uid = pvs.uid /\ pvs'.gen >= pvs.gen /\ pvs'.pubs = pvs.pubs
  <2>1. \A n \in Nodes : Standing(n)' <=> Standing(n)
    BY Zenon, <1>2 DEF Standing
  <2>2. QED BY Zenon, <1>1, <1>2, <2>1, PubKeeps DEF PubInv
<1>3. CASE pvs.pubs = {} /\ pvs'.pubs = {}
  <2>1. \A n : ~Standing(n) /\ ~Standing(n)'
    BY Zenon, <1>3 DEF Standing
  <2>2. granted' = {}
    BY Zenon, <2>1 DEF PubInv
  <2>3. ASSUME NEW v \in Workers, worker'[v] = worker[v] PROVE PubCall(v)'
    BY Zenon, <2>1, <2>3 DEF PubInv, PubCall
  <2>4. QED BY Zenon, <1>1, <1>3, <2>2, <2>3 DEF PubInv
<1>4. QED BY Zenon, <1>2, <1>3 DEF Undisturbed

\* Steps that change neither the record nor what a call is waiting for.
LEMMA SettledPub ==
    ASSUME Core, Core', PubInv, UNCHANGED object, granted' \subseteq granted, voided \subseteq voided',
           \A v \in Workers : \/ worker'[v] = worker[v] \/ worker'[v].pc \notin Publishes \cup {"deny"}
                              \/ /\ worker'[v].pc = worker[v].pc /\ worker'[v].tok = worker[v].tok
                                 /\ worker'[v].node = worker[v].node
    PROVE  PubInv'
<1>1. UNCHANGED <<spec, pvs, used>>
  BY Zenon DEF object
<1>2. ASSUME NEW v \in Workers PROVE PubCall(v)'
  <2>1. PubCall(v)
    BY Zenon DEF PubInv
  <2>2. CASE worker'[v].pc \notin Publishes \cup {"deny"}
    BY Zenon, <2>2 DEF PubCall
  <2>3. CASE /\ worker'[v].pc = worker[v].pc /\ worker'[v].tok = worker[v].tok
             /\ worker'[v].node = worker[v].node
    BY Zenon, <1>1, <2>1, <2>3 DEF PubCall, Standing, fenceToken
  <2>4. QED BY Zenon, <2>2, <2>3
<1>3. QED BY Zenon, <1>1, <1>2 DEF PubInv, Standing, Shareable

\* ControllerPublishVolume keeps PubInv.
LEMMA PublishPub ==
    ASSUME Core, Core', PubInv, NEW w \in Workers, PublishStep(w)
    PROVE  PubInv'
<1>0. /\ pvs \in PillarVolumeState /\ spec \in VolumeSpec /\ TypeInv /\ RecordInv /\ pvs.gen \in Nat
      /\ WellFormed(worker[w])
  BY Zenon, CoreTypes
<1>1. ASSUME NEW n \in Nodes, BeginPublish(w, n) PROVE PubInv'
  <2>1. Becomes(w, "reserve", [uid |-> pvs.uid, gen |-> 0], n, NoRequest, FALSE)
    BY Zenon, <1>0, <1>1, BeginPublishEffect
  <2>2. UNCHANGED <<spec, pvs, granted>> /\ voided' = voided \ {w}
    BY Zenon, <1>1 DEF BeginPublish, object
  <2>3. PubCall(w)'
    BY Zenon, <2>1 DEF PubCall, Becomes, Publishes
  <2>4. QED BY <1>0, <2>1, <2>2, <2>3, PubKeeps DEF Becomes, Standing, PubInv
<1>2. CASE ReservePublication(w)
  <2>1. /\ worker[w].node \in Nodes /\ pvs'.gen = pvs.gen + 1 /\ pvs'.uid = pvs.uid
        /\ pvs'.pubs = pvs.pubs \cup {Publication(worker[w].node)} /\ spec' = spec
    BY Zenon, <1>0, <1>2, ReserveEffect
  <2>2. PICK pc \in Publishes, q \in Request :
           Becomes(w, pc, fenceToken(pvs'), worker[w].node, q, FALSE)
    BY Zenon, <1>0, <1>2, ReserveEffect
  <2>3. UNCHANGED <<granted, voided>>
    BY Zenon, <1>2 DEF ReservePublication, history
  <2>4. /\ Publication(worker[w].node).node = worker[w].node
        /\ ~Publication(worker[w].node).revoking
    BY Zenon, <1>0, <2>1, PublicationIs
  <2>5. Standing(worker[w].node)' /\ \A n \in Nodes : Standing(n) => Standing(n)'
    <3>1. Publication(worker[w].node) \in pvs'.pubs
      BY Zenon, <2>1
    <3>2. \E p \in pvs'.pubs : p.node = worker[w].node /\ ~p.revoking
      BY Zenon, <2>4, <3>1
    <3>3. PICK n0 : n0 = worker[w].node
      BY Zenon
    <3>4. Standing(n0)'
      BY Zenon, <3>2, <3>3 DEF Standing
    <3>5. \A n \in Nodes : Standing(n) => Standing(n)'
      BY Zenon, <2>1 DEF Standing
    <3>6. QED BY Zenon, <2>2, <3>2, <3>5 DEF Standing, Becomes
  <2>6. PubCall(w)'
    <3>1. worker'[w].pc \in Publishes /\ worker'[w].tok.uid = pvs'.uid /\ worker'[w].node = worker[w].node
      BY <2>2 DEF Becomes, fenceToken
    <3>2. QED BY Zenon, <2>4, <2>1, <3>1 DEF PubCall, Standing, Publishes
  <2>7. ~Shareable => \A p, q2 \in pvs'.pubs : p.node = q2.node
    <3>1. ASSUME ~Shareable, NEW cur \in pvs.pubs PROVE cur.node = worker[w].node
      BY Zenon, <1>2, <2>4, <3>1 DEF ReservePublication, CanReserve, Compatible
    <3>2. QED BY Zenon, <2>1, <2>4, <3>1
  <2>8. QED BY <1>0, <2>1, <2>2, <2>3, <2>5, <2>6, <2>7, PubKeeps DEF Becomes
<1>3. CASE ClearLocalAttach(w)
  <2>1. /\ worker[w].pc = "enable" /\ worker[w].seen \in Nodes /\ worker[w].node \in Nodes
        /\ worker[w].tok.uid = pvs.uid
    <3>1. worker[w].seen \in Nodes \cup {NoNode}
      BY Zenon DEF Core, TypeInv, TypeOK
    <3>2. QED BY Zenon, <1>0, <1>3, <3>1
          DEF ClearLocalAttach, Answered, CanClearLocalAttach, Pinned, WellFormed, Publishes
  <2>2. /\ pvs' \in PillarVolumeState /\ pvs'.gen >= pvs.gen /\ pvs'.pubs = pvs.pubs
        /\ pvs'.uid = pvs.uid /\ spec' = spec
    BY <1>0, <1>3, <2>1, ClearLocalAttachIs DEF ClearLocalAttach
  <2>3. fenceToken(pvs') \in Token /\ fenceToken(pvs').uid = pvs.uid
    BY Zenon, <2>2, TokenTyped
  <2>4. Becomes(w, "reenable", fenceToken(pvs'), worker[w].node, worker'[w].req, FALSE)
    <3>1. PICK tok \in Token : tok = fenceToken(pvs')
      BY Zenon, <2>3
    <3>2. SetLocalAttach(w, "reenable", FALSE, tok)
      BY Zenon, <1>3, <3>1 DEF ClearLocalAttach
    <3>3. PICK q \in Request : Becomes(w, "reenable", tok, worker[w].node, q, FALSE)
      BY Zenon, <1>0, <2>1, <3>2, SetLocalAttachEffect
    <3>4. QED BY Zenon, <3>1, <3>3 DEF Becomes
  <2>5. UNCHANGED <<granted, voided>>
    BY Zenon, <1>3 DEF ClearLocalAttach, history
  <2>6. PubCall(w)'
    <3>1. PubCall(w)
      BY Zenon DEF PubInv
    <3>2. QED BY Zenon, <2>1, <2>2, <2>3, <2>4, <2>5, <3>1 DEF PubCall, Becomes, Standing, Publishes
  <2>7. QED BY Zenon, <1>0, <2>2, <2>4, <2>5, <2>6, PubKeeps DEF Becomes, Standing, PubInv
<1>4. CASE GrantPublication(w)
  <2>1. /\ worker[w].pc \in {"enable", "reenable"} /\ worker[w].node \in Nodes /\ worker[w].tok \in Token
        /\ UNCHANGED <<object, granted, voided>>
    BY Zenon, <1>0, <1>4, CoreTypes DEF GrantPublication, Answered, WellFormed, Publishes, history
  <2>2. PICK q \in Request : Becomes(w, "grant", worker[w].tok, worker[w].node, q, FALSE)
    BY Zenon, <1>0, <1>4, <2>1, AllowInitiatorEffect DEF GrantPublication
  <2>3. PubCall(w)'
    <3>1. PubCall(w)
      BY Zenon DEF PubInv
    <3>2. QED BY Zenon, <2>1, <2>2, <3>1 DEF PubCall, Becomes, Standing, Publishes, object
  <2>4. QED BY <1>0, <2>1, <2>2, <2>3, PubKeeps DEF Becomes, Standing, PubInv, object
<1>5. CASE FinishPublish(w)
  <2>1. /\ worker[w].pc \in {"grant", "local"} /\ UNCHANGED <<object, voided>>
        /\ granted' = IF w \in voided THEN granted ELSE granted \cup {worker[w].node}
    BY Zenon, <1>5 DEF FinishPublish, Answered
  <2>2. Becomes(w, "idle", NoToken, NoNode, NoRequest, FALSE)
    BY Zenon, <1>0, <1>5, ReturnEffect DEF FinishPublish
  <2>3. PubCall(w)'
    BY Zenon, <2>2 DEF PubCall, Becomes, Publishes
  <2>4. w \notin voided => Standing(worker[w].node)
    BY Zenon, <2>1 DEF PubInv, PubCall, Publishes
  <2>5. pvs' = pvs /\ spec' = spec
    BY Zenon, <2>1 DEF object
  <2>6. \A n : Standing(n) <=> Standing(n)'
    BY Zenon, <2>5 DEF Standing
  <2>7. \A n \in granted' : n \in granted \/ Standing(n)
    BY Zenon, <2>1, <2>4
  <2>8. QED BY <1>0, <2>1, <2>2, <2>3, <2>5, <2>6, <2>7, PubKeeps DEF Becomes, PubInv
<1>6. QED BY Zenon, <1>1, <1>2, <1>3, <1>4, <1>5 DEF PublishStep

\* ControllerUnpublishVolume keeps PubInv.
LEMMA UnpublishPub ==
    ASSUME Core, Core', PubInv, NEW w \in Workers, UnpublishStep(w)
    PROVE  PubInv'
<1>0. /\ pvs \in PillarVolumeState /\ spec \in VolumeSpec /\ TypeInv /\ RecordInv /\ pvs.gen \in Nat
      /\ WellFormed(worker[w]) /\ pvs.pubs \subseteq VolumePublication
  BY Zenon, CoreTypes, RecordFields
<1>1. ASSUME NEW n \in Nodes, FencePublications(w, n) PROVE PubInv'
  <2>1. /\ pvs'.gen = pvs.gen + 1 /\ pvs'.uid = pvs.uid /\ pvs'.pubs = Revoke(pvs, n) /\ spec' = spec
    BY Zenon, <1>0, <1>1, FenceIs DEF FencePublications
  <2>2. PICK q \in Request :
           Becomes(w, "deny", fenceToken(pvs'), n, q, isLocalAttachPublish(n))
    BY Zenon, <1>0, <1>1, FencePublicationsEffect
  <2>3. granted' = granted \ {n} /\ voided' = voided \cup {v \in Workers : worker[v].node = n}
    BY Zenon, <1>1 DEF FencePublications
  <2>4. /\ \A p \in pvs'.pubs : (p \in pvs.pubs /\ p.node # n) \/ (p.node = n /\ p.revoking)
        /\ \A p \in pvs.pubs : p.node # n => p \in pvs'.pubs
    BY <1>0, <2>1, RevokeIs
  <2>5. \A m \in Nodes : m # n /\ Standing(m) => Standing(m)'
    BY Zenon, <2>4 DEF Standing
  <2>6. PubCall(w)'
    BY Zenon, <2>2, <2>4 DEF PubCall, Becomes, Standing, Publishes
  <2>7. ~Shareable => \A p, p2 \in pvs'.pubs : p.node = p2.node
    <3>1. \A p \in pvs'.pubs : \E q0 \in pvs.pubs : q0.node = p.node
      BY SMTT(20), <1>0, <2>1, RevokeIs
    <3>2. QED BY <3>1 DEF PubInv
  <2>8. QED BY <1>0, <2>1, <2>2, <2>3, <2>5, <2>6, <2>7, PubKeeps DEF Becomes
<1>2. CASE ReleasePublication(w)
  <2>0. /\ worker[w].pc = "deny" /\ worker[w].node \in Nodes /\ worker[w].tok \in Token
        /\ worker[w].tok.uid = pvs.uid /\ worker[w].tok.gen = pvs.gen
        /\ UNCHANGED <<granted, voided>>
    BY Zenon, <1>0, <1>2, CoreTypes DEF ReleasePublication, Answered, WellFormed, CanRelease, Pinned, history
  <2>1. /\ pvs'.gen = pvs.gen + 1 /\ pvs'.uid = pvs.uid /\ spec' = spec
        /\ pvs'.pubs = {p \in pvs.pubs : p.node # worker[w].node}
    BY Zenon, <1>0, <1>2, <2>0, ReleaseIs DEF ReleasePublication
  <2>2. Becomes(w, "idle", NoToken, NoNode, NoRequest, FALSE)
    BY Zenon, <1>0, <1>2, ReturnEffect DEF ReleasePublication
  <2>3. worker[w].tok = fenceToken(pvs)
    BY Zenon, <2>0 DEF Token, fenceToken
  <2>4. ~Standing(worker[w].node)
    BY Zenon, <2>0, <2>3 DEF PubInv, PubCall
  <2>5. \A m \in Nodes : Standing(m) => Standing(m)'
    BY Zenon, <2>1, <2>4 DEF Standing
  <2>6. PubCall(w)'
    BY Zenon, <2>2 DEF PubCall, Becomes, Publishes
  <2>7. QED BY <1>0, <2>0, <2>1, <2>2, <2>5, <2>6, PubKeeps DEF Becomes, PubInv
<1>3. QED BY Zenon, <1>1, <1>2 DEF UnpublishStep

\* Every step keeps PubInv.
LEMMA NextPub ==
    ASSUME Core, Core', PubInv, [Next]_vars
    PROVE  PubInv'
<1>0. TypeInv /\ TypeInv'
  BY Zenon DEF Core
<1>1. ASSUME NEW w \in Workers, CreateStep(w) \/ DeleteStep(w) PROVE PubInv'
  BY Zenon, <1>0, <1>1, LifecycleStep, LifecyclePub
<1>2. ASSUME NEW w \in Workers, PublishStep(w) \/ UnpublishStep(w) PROVE PubInv'
  BY Zenon, <1>0, <1>2, PublishPub, UnpublishPub
<1>3. ASSUME NEW w \in Workers, Abandon(w) \/ ServeFails(w) PROVE PubInv'
  <2>1. Becomes(w, "idle", NoToken, NoNode, NoRequest, FALSE)
    BY Zenon, <1>0, <1>3, ReturnEffect DEF Abandon, ServeFails
  <2>2. UNCHANGED <<object, granted, voided>>
    BY Zenon, <1>3 DEF Abandon, ServeFails, history
  <2>3. QED BY Zenon, <1>0, <2>1, <2>2, SettledPub DEF Becomes, Publishes
<1>4. ASSUME NEW w \in Workers, Serve(w) PROVE PubInv'
  <2>1. Becomes(w, worker[w].pc, worker[w].tok, worker[w].node, worker[w].req, TRUE)
    BY Zenon, <1>0, <1>4, ServedEffect DEF Serve
  <2>2. UNCHANGED <<object, granted, voided>>
    BY Zenon, <1>4 DEF Serve, history
  <2>3. QED BY Zenon, <1>0, <2>1, <2>2, SettledPub DEF Becomes
<1>5. CASE \/ ReconcileVolumeExport \/ RestoreAgentExports \/ ClusterStep \/ UNCHANGED vars
           \/ Restart \/ Reboot \/ \E r \in stray : ServeStray(r)
  <2>1. UNCHANGED <<object, worker>> /\ granted' \subseteq granted /\ voided \subseteq voided'
    BY Zenon, <1>0, <1>5
    DEF ReconcileVolumeExport, RestoreAgentExports, ClusterStep, DeleteClaim, CreatePersistentVolume,
        DeletePersistentVolume, vars, Restart, Reboot, ServeStray, history, TypeInv, TypeOK
  <2>2. QED BY Zenon, <1>0, <2>1, SettledPub
<1>6. QED BY Zenon, <1>1, <1>2, <1>3, <1>4, <1>5 DEF Next, AgentStep

\* PubInv holds at the start.
LEMMA InitPub ==
    ASSUME Init
    PROVE  PubInv
<1>0. spec \in VolumeSpec
  BY Zenon DEF Init
<1>1. pvs.pubs = {}
  BY Zenon, <1>0, NewVolumeStateIs, ReadyRecordIs DEF Init, InitEmpty, InitReady
<1>2. QED BY Zenon, <1>1 DEF Init, PubInv, PubCall, IdleWorker, Publishes

\* What the agent destroys was given up: no grant stands, the lifecycle owns
\* it and is being deleted.
LEMMA DestroysRetired ==
    ASSUME Core, PubInv, NEW r \in Alive, AgentActs(r), vol # NoUID, vol' = NoUID
    PROVE  vol \in UIDs /\ pvs.uid = vol /\ pvs.deleting /\ granted = {}
<1>0. /\ r.tok \in Token /\ mark \in fencingMark /\ MarkInv /\ RecordInv /\ RequestOK(r)
      /\ used \subseteq UIDs /\ vol \in UIDs \cup {Foreign} /\ r.kind \in Kinds
  BY Zenon, AliveFits DEF Core, TypeInv, TypeOK, Request
<1>1. Apply(r) /\ r.kind = "delete" /\ Admitted(r)
  <2>1. CASE Apply(r)
    <3>1. Admitted(r) /\ Mutate(r)
      BY Zenon, <2>1 DEF Apply
    <3>2. r.tok.uid # NoUID
      BY Zenon, <1>0, <3>1, AdmittedAny DEF Admitted
    <3>3. QED BY Zenon, <2>1, <3>1, <3>2 DEF Mutate
  <2>2. CASE ReleaseVolume(r) \/ Fail(r)
    BY Zenon, <2>2 DEF ReleaseVolume, Fail
  <2>3. QED BY Zenon, <2>1, <2>2 DEF AgentActs
<1>2. r.tok.uid \in used /\ r.tok.uid \notin mark.endedUIDs /\ Torn(r.tok)
  BY Zenon, <1>0, <1>1, AdmittedAny DEF RequestOK, Admitted
<1>3. mark.uid = r.tok.uid /\ ~mark.ended
  BY Zenon, <1>0, <1>2 DEF Torn, Retired, MarkInv
<1>4. vol = r.tok.uid
  <2>1. CASE vol \in UIDs
    BY Zenon, <1>0, <1>3, <2>1 DEF MarkInv
  <2>2. CASE vol = Foreign
    BY Zenon, <1>0, <1>1, <1>2, <1>3, <2>2 DEF MarkInv, RequestOK, Adopted, Retired
  <2>3. QED BY Zenon, <1>0, <2>1, <2>2
<1>5. pvs.uid = r.tok.uid /\ pvs.uid # NoUID
  BY Zenon, <1>0, <1>2, <1>3 DEF RecordInv, Retired
<1>6. pvs.deleting /\ pvs.pubs = {}
  BY Zenon, <1>0, <1>1, <1>5 DEF RequestOK, Current, Teardown, RecordInv
<1>7. granted = {}
  BY Zenon, <1>6 DEF PubInv, Standing
<1>8. QED BY Zenon, <1>0, <1>2, <1>4, <1>5, <1>6, <1>7

\* Only the agent, serving a request, removes a backend volume.
LEMMA DestroyedByAgent ==
    ASSUME Core, TypeInv', [Next]_vars, vol # NoUID, vol' = NoUID
    PROVE  \E r \in Alive : AgentActs(r)
<1>1. ASSUME NEW w \in Workers, CreateStep(w) \/ DeleteStep(w) PROVE FALSE
  BY Zenon, <1>1, LifecycleStep DEF agent
<1>2. ASSUME NEW w \in Workers, PublishStep(w) \/ UnpublishStep(w) \/ Abandon(w) PROVE FALSE
  BY Zenon, <1>2
  DEF PublishStep, BeginPublish, ReservePublication, ClearLocalAttach, GrantPublication,
      FinishPublish, UnpublishStep, FencePublications, ReleasePublication, Abandon, agent
<1>3. ASSUME NEW w \in Workers, Serve(w) \/ ServeFails(w)
      PROVE  worker[w].req \in Alive /\ AgentActs(worker[w].req)
  BY Zenon, <1>3 DEF Serve, ServeFails, Waiting, Alive, AgentActs
<1>4. ASSUME NEW r \in stray, ServeStray(r) PROVE r \in Alive /\ AgentActs(r)
  BY Zenon, <1>4 DEF ServeStray, Alive, AgentActs
<1>5. CASE \/ ReconcileVolumeExport \/ RestoreAgentExports \/ ClusterStep \/ UNCHANGED vars
           \/ Restart \/ Reboot
  BY Zenon, <1>5
  DEF ReconcileVolumeExport, RestoreAgentExports, ClusterStep, DeleteClaim, CreatePersistentVolume,
      DeletePersistentVolume, vars, Restart, Reboot, agent
<1>6. QED BY Zenon, <1>1, <1>2, <1>3, <1>4, <1>5 DEF Next, AgentStep

----------------------------------------------------------------------------
(* The abandoned-volume reaper.                                            *)

\* A running CreateVolume works for a lifecycle nobody reported.
CreateCall(w) ==
    /\ worker[w].pc = "ensure" => pvs.phase # "Ready" \/ pvs.deleting
    /\ Creating(w) /\ worker[w].pc # "ensure" =>
          /\ worker[w].tok.uid \notin reported
          /\ worker[w].tok.uid = pvs.uid => pvs.phase # "Ready"

\* As long as no two CreateVolume calls overlapped, the lifecycle of a
\* running one is not reported, and a reported one is Ready.
ReapInv ==
    /\ reported \subseteq used /\ reaped \subseteq used
    /\ pvs.uid \in reaped => pvs.deleting
    /\ ~overlap =>
          /\ reaped \cap reported = {}
          /\ pvs.uid \in reported => pvs.phase = "Ready"
          /\ \A v, w \in Workers : Creating(v) /\ Creating(w) => v = w
          /\ \A w \in Workers : CreateCall(w)

\* Steps outside CreateVolume.
LEMMA OutsideCreate ==
    ASSUME Core, ReapInv, used' = used, UNCHANGED <<reported, overlap>>,
           \A w \in Workers : Creating(w)' =>
               Creating(w) /\ worker'[w].pc = worker[w].pc /\ worker'[w].tok = worker[w].tok,
           \/ pvs'.uid = pvs.uid /\ pvs'.phase = pvs.phase /\ (pvs.deleting => pvs'.deleting)
           \/ pvs' = NoVolumeState,
           \/ reaped' = reaped
           \/ /\ reaped' = reaped \cup {pvs.uid} /\ pvs.uid \in used /\ pvs.phase # "Ready"
              /\ pvs'.uid = pvs.uid /\ pvs'.deleting
    PROVE  ReapInv'
<1>0. NoUID \notin used /\ NoVolumeState.uid = NoUID /\ NoVolumeState.phase = "Provisioning"
  BY Zenon, NewVolumeStateIs DEF Core, TypeInv, TypeOK
<1>1. reported' \subseteq used' /\ reaped' \subseteq used'
  BY Zenon DEF ReapInv
<1>2. pvs'.uid \in reaped' => pvs'.deleting
  BY <1>0 DEF ReapInv
<1>3. ASSUME ~overlap
      PROVE  /\ reaped' \cap reported' = {}
             /\ pvs'.uid \in reported' => pvs'.phase = "Ready"
             /\ \A v, w \in Workers : Creating(v)' /\ Creating(w)' => v = w
             /\ \A w \in Workers : CreateCall(w)'
  <2>1. reaped' \cap reported' = {} /\ (pvs'.uid \in reported' => pvs'.phase = "Ready")
    BY <1>0, <1>3 DEF ReapInv
  <2>2. \A v, w \in Workers : Creating(v)' /\ Creating(w)' => v = w
    BY Zenon, <1>3 DEF ReapInv
  <2>3. ASSUME NEW w \in Workers PROVE CreateCall(w)'
    <3>1. CreateCall(w)
      BY Zenon, <1>3 DEF ReapInv
    <3>2. CASE Creating(w)'
      BY Zenon, <1>0, <3>1, <3>2 DEF CreateCall
    <3>3. CASE ~Creating(w)'
      BY Zenon, <3>3 DEF CreateCall, Creating
    <3>4. QED BY Zenon, <3>2, <3>3
  <2>4. QED BY Zenon, <2>1, <2>2, <2>3
<1>4. QED BY Zenon, <1>1, <1>2, <1>3 DEF ReapInv

\* CreateVolume keeps ReapInv.
LEMMA CreateReap ==
    ASSUME Core, Core', ReapInv, NEW w \in Workers, CreateStep(w)
    PROVE  ReapInv'
<1>0. /\ pvs \in PillarVolumeState /\ spec \in VolumeSpec /\ TypeInv /\ RecordInv /\ used \subseteq UIDs
      /\ pvs.uid \in UIDs \cup {NoUID}
      /\ pvs.uid # NoUID => pvs.uid \in used
      /\ worker[w].tok.uid \in UIDs \cup {NoUID} /\ pvs.deleting \in BOOLEAN
  BY Zenon, CoreTypes
<1>1. CASE BeginCreate(w)
  <2>0. UNCHANGED <<spec, pvs, used, reaped>>
    BY Zenon, <1>1 DEF BeginCreate, object
  <2>1. CASE /\ pvs.uid # NoUID /\ pvs.phase = "Ready" /\ ~pvs.deleting
             /\ reported' = reported \cup {pvs.uid} /\ UNCHANGED <<worker, overlap>>
    <3>1. pvs.uid \notin reaped /\ pvs.uid \in used
      BY Zenon, <1>0, <2>1 DEF ReapInv
    <3>2. ASSUME ~overlap, NEW v \in Workers PROVE CreateCall(v)'
      <4>1. CreateCall(v)
        BY Zenon, <3>2 DEF ReapInv
      <4>2. QED BY Zenon, <2>0, <2>1, <4>1 DEF CreateCall, Creating
    <3>3. QED BY Zenon, <2>0, <2>1, <3>1, <3>2 DEF ReapInv, Creating
  <2>2. CASE /\ ~(pvs.uid # NoUID /\ pvs.phase = "Ready" /\ ~pvs.deleting)
             /\ Proceed(w, "ensure", NoUID)
             /\ overlap' = (overlap \/ \E v \in Workers : Creating(v)) /\ UNCHANGED reported
    <3>1. Becomes(w, "ensure", [uid |-> NoUID, gen |-> 0], worker[w].node, NoRequest, FALSE)
      BY Zenon, <1>0, <2>2, ProceedEffect
    <3>2. pvs.phase # "Ready" \/ pvs.deleting
      BY Zenon, <1>0, <2>2, NewVolumeStateIs DEF RecordInv
    <3>3. ASSUME ~overlap', NEW v \in Workers PROVE CreateCall(v)' /\ (Creating(v)' => v = w)
      BY Zenon, <2>0, <2>2, <3>1, <3>2, <3>3 DEF CreateCall, Creating, Becomes
    <3>4. QED BY Zenon, <2>0, <2>2, <3>3 DEF ReapInv
  <2>3. QED BY Zenon, <1>1, <2>1, <2>2 DEF BeginCreate
<1>2. CASE EnsureVolumeState(w)
  <2>0. UNCHANGED <<reported, reaped, overlap>> /\ worker[w].pc = "ensure" /\ Creating(w)
    BY Zenon, <1>2 DEF EnsureVolumeState, history, Creating
  <2>1. ASSUME NEW u \in UIDs \ used, pvs.uid = NoUID, pvs' = NewVolumeState(u),
               used' = used \cup {u}, Proceed(w, "claimBackend", u)
        PROVE  ReapInv'
    <3>1. Becomes(w, "claimBackend", [uid |-> u, gen |-> 0], worker[w].node, NoRequest, FALSE)
      BY Zenon, <1>0, <2>1, ProceedEffect
    <3>2. pvs'.uid = u /\ pvs'.phase = "Provisioning"
      BY Zenon, <2>1, NewVolumeStateIs
    <3>3. ASSUME ~overlap, NEW v \in Workers PROVE CreateCall(v)' /\ (Creating(v)' => v = w)
      <4>1. v # w => ~Creating(v)
        BY Zenon, <2>0, <3>3 DEF ReapInv
      <4>2. u \notin reported
        BY Zenon DEF ReapInv
      <4>3. QED BY SMTT(20), <2>0, <3>1, <3>2, <4>1, <4>2 DEF CreateCall, Creating, Becomes
    <3>4. QED BY Zenon, <2>0, <2>1, <3>2, <3>3 DEF ReapInv
  <2>2. ASSUME NEW pc \in {"resume", "claimBackend"}, pvs.uid # NoUID, ~pvs.deleting,
               Proceed(w, pc, pvs.uid), UNCHANGED object
        PROVE  ReapInv'
    <3>1. Becomes(w, pc, [uid |-> pvs.uid, gen |-> 0], worker[w].node, NoRequest, FALSE)
      BY Zenon, <1>0, <2>2, ProceedEffect
    <3>2. UNCHANGED <<pvs, used>>
      BY Zenon, <2>2 DEF object
    <3>3. ASSUME ~overlap, NEW v \in Workers PROVE CreateCall(v)' /\ (Creating(v)' => v = w)
      <4>1. v # w => ~Creating(v)
        BY Zenon, <2>0, <3>3 DEF ReapInv
      <4>2. pvs.phase # "Ready" /\ pvs.uid \notin reported
        BY Zenon, <2>0, <2>2, <3>3 DEF ReapInv, CreateCall
      <4>3. QED BY <2>0, <3>1, <3>2, <4>1, <4>2 DEF CreateCall, Creating, Becomes
    <3>4. QED BY Zenon, <2>0, <3>2, <3>3 DEF ReapInv
  <2>3. QED BY Zenon, <1>2, <2>1, <2>2 DEF EnsureVolumeState
<1>3. ASSUME NEW pc \in {"claimExport", "backend", "export"}, NEW tok, NEW node, NEW req, NEW b,
             Becomes(w, pc, tok, node, req, b), tok.uid = worker[w].tok.uid,
             Creating(w), worker[w].pc # "ensure", UNCHANGED <<reported, reaped, overlap, used>>,
             pvs'.uid = pvs.uid, pvs'.deleting = pvs.deleting,
             pvs'.phase = pvs.phase \/ (pvs'.phase = "CreatePartial" /\ pvs.uid = worker[w].tok.uid)
      PROVE  ReapInv'
  <2>1. ASSUME ~overlap, NEW v \in Workers PROVE CreateCall(v)' /\ (Creating(v)' => v = w)
    <3>1. v # w => ~Creating(v)
      BY Zenon, <1>3, <2>1 DEF ReapInv
    <3>2. CreateCall(w)
      BY Zenon, <2>1 DEF ReapInv
    <3>3. CASE v = w
      BY Zenon, <1>3, <3>2, <3>3 DEF CreateCall, Creating, Becomes
    <3>4. CASE v # w
      BY Zenon, <1>3, <3>1, <3>4 DEF CreateCall, Creating, Becomes
    <3>5. QED BY Zenon, <3>3, <3>4
  <2>2. ASSUME ~overlap PROVE pvs'.uid \in reported' => pvs'.phase = "Ready"
    <3>1. CreateCall(w)
      BY Zenon, <2>2 DEF ReapInv
    <3>2. QED BY Zenon, <1>3, <2>2, <3>1 DEF ReapInv, CreateCall
  <2>3. QED BY Zenon, <1>3, <2>1, <2>2 DEF ReapInv
<1>4. CASE CreateBackend(w) \/ ExportVolume(w)
  <2>1. /\ worker[w].pc \in {"claimBackend", "claimExport"} /\ UNCHANGED <<reported, reaped, overlap>>
        /\ Commit(claimOperation(pvs)) /\ pvs.uid = worker[w].tok.uid
    BY Zenon, <1>4 DEF CreateBackend, ExportVolume, history, CanClaim, Pinned
  <2>2. /\ pvs' \in PillarVolumeState /\ pvs'.uid = pvs.uid /\ pvs'.phase = pvs.phase
        /\ pvs'.deleting = pvs.deleting /\ used' = used
    BY Zenon, <1>0, <2>1, ClaimIs
  <2>3. fenceToken(pvs') \in Token /\ fenceToken(pvs').uid = pvs.uid
    BY Zenon, <2>2, TokenTyped
  <2>4. PICK pc \in {"backend", "export"} : \E kind :
           Becomes(w, pc, fenceToken(pvs'), worker[w].node, NewRequest(kind, fenceToken(pvs')), FALSE)
    BY Zenon, <1>0, <1>4, <2>3, CallNew, KindOfIs DEF CreateBackend, ExportVolume, Waits, Publishes
  <2>5. PICK req : Becomes(w, pc, fenceToken(pvs'), worker[w].node, req, FALSE)
    BY Zenon, <2>4
  <2>6. Creating(w) /\ worker[w].pc # "ensure"
    BY Zenon, <2>1 DEF Creating
  <2>7. PICK tok : tok = fenceToken(pvs')
    BY Zenon
  <2>8. Becomes(w, pc, tok, worker[w].node, req, FALSE) /\ tok.uid = worker[w].tok.uid
    BY Zenon, <2>1, <2>3, <2>5, <2>7
  <2>9. UNCHANGED <<reported, reaped, overlap, used>> /\ pc \in {"claimExport", "backend", "export"}
    BY Zenon, <2>1, <2>2, <2>5
  <2>10. pvs'.uid = pvs.uid /\ pvs'.deleting = pvs.deleting /\ pvs'.phase = pvs.phase
    BY Zenon, <2>2
  <2>11. QED BY Zenon, <1>3, <2>6, <2>8, <2>9, <2>10
<1>5. CASE CommitBackend(w) \/ ResumePartial(w)
  <2>1. /\ worker[w].pc \in {"backend", "resume"} /\ UNCHANGED <<reported, reaped, overlap>>
        /\ Proceed(w, "claimExport", worker[w].tok.uid)
        /\ \/ Commit(persistCreatePartial(pvs)) /\ pvs.uid = worker[w].tok.uid
           \/ UNCHANGED object
    BY Zenon, <1>5 DEF CommitBackend, ResumePartial, history, Answered, Pinned
  <2>2. /\ pvs'.uid = pvs.uid /\ pvs'.deleting = pvs.deleting /\ used' = used
        /\ pvs'.phase = pvs.phase \/ (pvs'.phase = "CreatePartial" /\ pvs.uid = worker[w].tok.uid)
    BY Zenon, <1>0, <2>1, CreatePartialIs DEF object
  <2>3. Becomes(w, "claimExport", [uid |-> worker[w].tok.uid, gen |-> 0], worker[w].node, NoRequest, FALSE)
    BY Zenon, <1>0, <2>1, ProceedEffect
  <2>4. Creating(w) /\ worker[w].pc # "ensure"
    BY Zenon, <2>1 DEF Creating
  <2>5. QED BY Zenon, <1>3, <2>1, <2>2, <2>3, <2>4
<1>6. CASE RecordReady(w)
  <2>1. /\ worker[w].pc = "export" /\ UNCHANGED <<reaped, overlap>> /\ Commit(persistVolumeReady(pvs))
        /\ pvs.uid # NoUID /\ ~pvs.deleting /\ reported' \in {reported, reported \cup {pvs.uid}}
    BY Zenon, <1>6 DEF RecordReady, Answered, CanPersistReady, Pinned
  <2>2. /\ pvs'.uid = pvs.uid /\ pvs'.phase = "Ready" /\ pvs'.deleting = pvs.deleting /\ used' = used
    BY Zenon, <1>0, <2>1, ReadyIs
  <2>3. Becomes(w, "idle", NoToken, NoNode, NoRequest, FALSE)
    BY Zenon, <1>0, <1>6, ReturnEffect DEF RecordReady
  <2>4. ASSUME ~overlap, NEW v \in Workers PROVE ~Creating(v)'
    <3>1. v # w => ~Creating(v)
      BY Zenon, <2>1, <2>4 DEF ReapInv, Creating
    <3>2. QED BY Zenon, <2>3, <3>1 DEF Creating, Becomes
  <2>5. ASSUME ~overlap, NEW v \in Workers PROVE CreateCall(v)'
    BY Zenon, <2>4, <2>5 DEF CreateCall, Creating
  <2>6. pvs.uid \notin reaped /\ pvs.uid \in used
    BY Zenon, <1>0, <2>1 DEF ReapInv
  <2>7. QED BY Zenon, <2>1, <2>2, <2>4, <2>5, <2>6 DEF ReapInv
<1>7. QED BY Zenon, <1>1, <1>2, <1>4, <1>5, <1>6 DEF CreateStep

\* Other calls begin no CreateVolume and move none.
LEMMA OutsideCalls ==
    ASSUME TypeInv, NEW w \in Workers,
           DeleteStep(w) \/ PublishStep(w) \/ UnpublishStep(w) \/ Abandon(w),
           NEW v \in Workers, Creating(v)'
    PROVE  Creating(v) /\ worker'[v].pc = worker[v].pc /\ worker'[v].tok = worker[v].tok
<1>0. worker \in [Workers -> Worker]
  BY Zenon DEF TypeInv, TypeOK, Worker
<1>1. CASE v # w
  <2>1. worker'[v] = worker[v]
    BY Zenon, <1>0, <1>1 DEF DeleteStep, PublishStep, UnpublishStep, Abandon, DeleteVolume, BeginReap,
       ReapAbandoned, DestroyBackend, FinishDelete, BeginPublish, ReservePublication,
       ClearLocalAttach, GrantPublication, FinishPublish, FencePublications, ReleasePublication,
       teardownMarkedVolume, SetLocalAttach, AllowInitiator, Call, Proceed, Return
  <2>2. QED BY Zenon, <2>1 DEF Creating
<1>2. CASE v = w
  <2>1. ASSUME NEW pc, NEW req, Call(w, pc, req) PROVE worker'[w].pc = pc
    BY Zenon, <1>0, <2>1 DEF Call, Worker
  <2>2. ASSUME NEW pc, NEW uid, Proceed(w, pc, uid) PROVE worker'[w].pc = pc
    BY Zenon, <1>0, <2>2 DEF Proceed, Worker
  <2>3. ASSUME Return(w) PROVE worker'[w].pc = "idle"
    BY Zenon, <1>0, <2>3 DEF Return, IdleWorker
  <2>4. ASSUME DeleteStep(w) PROVE ~Creating(w)'
    BY Zenon, <2>1, <2>2, <2>3, <2>4 DEF DeleteStep, DeleteVolume, BeginReap, ReapAbandoned, DestroyBackend,
       FinishDelete, teardownMarkedVolume, Creating
  <2>5. ASSUME PublishStep(w) PROVE ~Creating(w)'
    <3>1. ASSUME NEW n \in Nodes, BeginPublish(w, n) PROVE worker'[w].pc = "reserve"
      BY Zenon, <1>0, <3>1 DEF BeginPublish, Worker
    <3>2. QED BY Zenon, <2>1, <2>3, <2>5, <3>1 DEF PublishStep, ReservePublication, ClearLocalAttach,
             GrantPublication, FinishPublish, SetLocalAttach, AllowInitiator, Creating
  <2>6. ASSUME UnpublishStep(w) PROVE ~Creating(w)'
    <3>1. ASSUME NEW n \in Nodes, FencePublications(w, n) PROVE worker'[w].pc = "deny"
      BY Zenon, <1>0, <3>1 DEF FencePublications, Worker
    <3>2. QED BY Zenon, <2>3, <2>6, <3>1 DEF UnpublishStep, ReleasePublication, Creating
  <2>7. ASSUME Abandon(w) PROVE ~Creating(w)'
    BY Zenon, <2>3, <2>7 DEF Abandon, Creating
  <2>8. QED BY Zenon, <1>2, <2>4, <2>5, <2>6, <2>7
<1>3. QED BY Zenon, <1>1, <1>2

\* DeleteVolume and the reaper keep ReapInv.
LEMMA DeleteReap ==
    ASSUME Core, ReapInv, NEW w \in Workers, DeleteStep(w)
    PROVE  ReapInv'
<1>0. /\ pvs \in PillarVolumeState /\ TypeInv /\ RecordInv /\ pvs.deleting \in BOOLEAN
      /\ pvs.uid # NoUID => pvs.uid \in used
  BY Zenon, CoreTypes
<1>1. UNCHANGED <<reported, overlap>>
  BY Zenon DEF DeleteStep, DeleteVolume, BeginReap, ReapAbandoned, DestroyBackend, FinishDelete, history
<1>2. \A v \in Workers : Creating(v)' =>
         Creating(v) /\ worker'[v].pc = worker[v].pc /\ worker'[v].tok = worker[v].tok
  BY Zenon, <1>0, OutsideCalls
<1>3. CASE BeginReap(w) \/ DestroyBackend(w) \/ FinishDelete(w)
  <2>1. used' = used /\ reaped' = reaped /\ (pvs' = pvs \/ pvs' = NoVolumeState)
    BY Zenon, <1>3 DEF BeginReap, DestroyBackend, FinishDelete, object, history
  <2>2. QED BY Zenon, <1>1, <1>2, <2>1, OutsideCreate
<1>4. CASE DeleteVolume(w) \/ ReapAbandoned(w)
  <2>1. Commit(markVolumeDeleting(pvs))
    BY Zenon, <1>4 DEF DeleteVolume, ReapAbandoned
  <2>2. pvs'.uid = pvs.uid /\ pvs'.phase = pvs.phase /\ pvs'.deleting /\ used' = used
    BY Zenon, <1>0, <2>1, DeletingIs
  <2>3. \/ reaped' = reaped
        \/ reaped' = reaped \cup {pvs.uid} /\ pvs.uid \in used /\ pvs.phase # "Ready"
    BY Zenon, <1>0, <1>4, NewVolumeStateIs
    DEF DeleteVolume, ReapAbandoned, history, CanMarkDeleting, reapablePhase
  <2>4. QED BY Zenon, <1>1, <1>2, <2>2, <2>3, OutsideCreate
<1>5. QED BY Zenon, <1>3, <1>4 DEF DeleteStep

\* Publishing and unpublishing keep ReapInv.
LEMMA PublicationReap ==
    ASSUME Core, ReapInv, NEW w \in Workers, PublishStep(w) \/ UnpublishStep(w) \/ Abandon(w)
    PROVE  ReapInv'
<1>0. pvs \in PillarVolumeState /\ TypeInv /\ spec \in VolumeSpec
  BY Zenon, CoreTypes
<1>1. UNCHANGED <<reported, reaped, overlap>>
  BY Zenon DEF PublishStep, BeginPublish, ReservePublication, ClearLocalAttach, GrantPublication,
         FinishPublish, UnpublishStep, FencePublications, ReleasePublication, Abandon, history
<1>2. \A v \in Workers : Creating(v)' =>
         Creating(v) /\ worker'[v].pc = worker[v].pc /\ worker'[v].tok = worker[v].tok
  BY Zenon, <1>0, OutsideCalls
<1>3. pvs'.uid = pvs.uid /\ pvs'.phase = pvs.phase /\ pvs'.deleting = pvs.deleting /\ used' = used
  <2>1. CASE \/ \E n \in Nodes : BeginPublish(w, n)
             \/ GrantPublication(w) \/ FinishPublish(w) \/ Abandon(w)
    BY Zenon, <2>1 DEF BeginPublish, GrantPublication, FinishPublish, Abandon, object
  <2>2. CASE ReservePublication(w)
    BY Zenon, <1>0, <2>2 DEF ReservePublication, Commit, reservePublicationState, Bump, PillarVolumeState
  <2>3. CASE ClearLocalAttach(w)
    BY Zenon, <1>0, <2>3 DEF ClearLocalAttach, Commit, clearLocalAttachNode, Bump, PillarVolumeState
  <2>4. CASE \E n \in Nodes : FencePublications(w, n)
    BY Zenon, <1>0, <2>4 DEF FencePublications, Commit, fencePublications, Bump, PillarVolumeState
  <2>5. CASE ReleasePublication(w)
    BY Zenon, <1>0, <2>5 DEF ReleasePublication, Commit, releasePublication, Bump, PillarVolumeState
  <2>6. QED BY Zenon, <2>1, <2>2, <2>3, <2>4, <2>5 DEF PublishStep, UnpublishStep
<1>4. QED BY Zenon, <1>1, <1>2, <1>3, OutsideCreate

\* Every step keeps ReapInv.
LEMMA NextReap ==
    ASSUME Core, Core', ReapInv, [Next]_vars
    PROVE  ReapInv'
<1>1. CASE \/ ReconcileVolumeExport \/ RestoreAgentExports \/ AgentStep \/ ClusterStep
           \/ UNCHANGED vars
  <2>1. UNCHANGED <<pvs, used, reported, reaped, overlap>>
    BY Zenon, <1>1 DEF ReconcileVolumeExport, RestoreAgentExports, AgentStep, Serve, ServeFails, ServeStray,
       Restart, Reboot, ClusterStep, DeleteClaim, CreatePersistentVolume, DeletePersistentVolume,
       object, history, vars
  <2>2. ASSUME NEW v \in Workers, Creating(v)'
        PROVE  Creating(v) /\ worker'[v].pc = worker[v].pc /\ worker'[v].tok = worker[v].tok
    <3>0. worker \in [Workers -> Worker]
      BY Zenon DEF Core, TypeInv, TypeOK, Worker
    <3>1. CASE UNCHANGED worker
      BY Zenon, <2>2, <3>1 DEF Creating
    <3>2. CASE \E w \in Workers : Serve(w) \/ ServeFails(w)
      <4>1. PICK w \in Workers : Serve(w) \/ ServeFails(w)
        BY Zenon, <3>2
      <4>2. CASE worker' = [worker EXCEPT ![w].answered = TRUE]
        BY Zenon, <2>2, <3>0, <4>2 DEF Creating, Worker
      <4>3. CASE worker' = [worker EXCEPT ![w] = IdleWorker]
        BY Zenon, <2>2, <3>0, <4>3 DEF Creating, IdleWorker
      <4>4. QED BY Zenon, <4>1, <4>2, <4>3 DEF Serve, ServeFails, Return
    <3>3. QED BY Zenon, <1>1, <3>1, <3>2 DEF ReconcileVolumeExport, RestoreAgentExports, AgentStep, ServeStray,
       Restart, Reboot, ClusterStep, DeleteClaim, CreatePersistentVolume, DeletePersistentVolume, vars
  <2>3. QED BY Zenon, <2>1, <2>2, OutsideCreate
<1>2. QED BY Zenon, <1>1, CreateReap, DeleteReap, PublicationReap DEF Next

\* ReapInv holds at the start.
LEMMA InitReap ==
    ASSUME Init, Core
    PROVE  ReapInv
<1>1. ~overlap /\ reaped = {} /\ \A w \in Workers : worker[w].pc = "idle"
  BY Zenon DEF Init, IdleWorker
<1>2. reported \subseteq used /\ (pvs.uid \in reported => pvs.phase = "Ready")
  <2>1. CASE ~StartReady
    BY Zenon, <2>1 DEF Init, InitEmpty
  <2>2. CASE StartReady
    <3>1. PICK u \in UIDs : /\ pvs = persistVolumeReady(persistCreatePartial(
                                        claimOperation(claimOperation(NewVolumeState(u)))))
                            /\ used = {u} /\ reported = {u}
      BY Zenon, <2>2 DEF Init, InitReady
    <3>2. spec \in VolumeSpec /\ 2 \in Gens
      BY Zenon, <2>2, StartReadyAssumption DEF Core, TypeInv, TypeOK
    <3>3. QED BY Zenon, <3>1, <3>2, ReadyRecordIs
  <2>3. QED BY Zenon, <2>1, <2>2, StartReadyAssumption
<1>3. QED BY Zenon, <1>1, <1>2 DEF ReapInv, CreateCall, Creating
=============================================================================
