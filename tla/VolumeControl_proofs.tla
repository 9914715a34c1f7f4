------------------------ MODULE VolumeControl_proofs ------------------------
(***************************************************************************)
(* The steps of the controllers keep Core.                                 *)
(***************************************************************************)
EXTENDS VolumeCore_proofs

USE GensAssumption, NoUIDAssumption, NodesAssumption, SpecsAssumption,
    ForeignAssumption, MaxStrayAssumption, StartReadyAssumption

\* A write of the record leaves every older request in order.
LEMMA RequestStays ==
    ASSUME Core, TypeInv', UNCHANGED agent, RecordGrows, NEW r \in Alive
    PROVE  RequestOK(r)'
<1>0. /\ RequestOK(r) /\ r.tok.gen \in Nat /\ pvs.gen \in Nat /\ pvs'.gen \in Nat
      /\ pvs.deleting \in BOOLEAN /\ pvs'.deleting \in BOOLEAN
  BY Zenon, AliveFits, RecordFields DEF Core, TypeInv, TypeOK
<1>1. Current(r)' => /\ Current(r) /\ pvs'.gen >= pvs.gen /\ (pvs.deleting => pvs'.deleting)
                     /\ pvs'.deleting => pvs.deleting \/ pvs'.gen > pvs.gen
  BY Zenon, <1>0 DEF RecordGrows, Current, RequestOK
<1>2. /\ r.tok.uid \in used' \/ (r.tok.uid = NoUID /\ r.kind = "restore")
      /\ Current(r)' => r.tok.gen <= pvs'.gen
      /\ Current(r)' /\ r.kind \in Teardown => pvs'.deleting
      /\ Current(r)' /\ r.kind \in Raises /\ pvs'.deleting => r.tok.gen < pvs'.gen
  BY <1>0, <1>1 DEF RequestOK, RecordGrows
<1>3. QED BY Zenon, <1>0, <1>2 DEF RequestOK, RecordGrows, agent, Imported, Adopted, Retired, Torn

\* What a write of the record and the request sent with it must satisfy.
LEMMA ControllerKeeps ==
    ASSUME Core, TypeInv', UNCHANGED agent, RecordGrows, RecordInv',
           NEW w \in Workers, \A v \in Workers \ {w} : worker'[v] = worker[v], CallOK(w)',
           NEW q, Alive' \subseteq Alive \cup {q},
           q \in Alive \/ (RequestOK(q)' /\ \A t \in Alive : Later(q, t) /\ Later(t, q))
    PROVE  Core'
<1>1. MarkInv'
  BY Zenon DEF Core, MarkInv, RecordGrows, agent, Imported
<1>2. \A r \in Alive' : RequestOK(r)'
  BY Zenon, RequestStays
<1>3. \A r, t \in Alive' : Later(r, t)
  <2>1. Later(q, q)
    BY Zenon DEF Later, Raises, Teardown
  <2>2. QED BY Zenon, <2>1 DEF Core
<1>4. ASSUME NEW v \in Workers \ {w} PROVE CallOK(v)'
  <2>1. worker'[v] = worker[v] /\ CallOK(v)
    BY Zenon DEF Core
  <2>2. QED BY Zenon, <2>1 DEF CallOK, RecordGrows, agent, Adopted, Retired, Torn
<1>5. QED BY Zenon, <1>1, <1>2, <1>3, <1>4 DEF Core

\* A step of a call that sends nothing.
LEMMA ControllerKeepsQuiet ==
    ASSUME Core, TypeInv', UNCHANGED agent, RecordGrows, RecordInv',
           NEW w \in Workers, \A v \in Workers \ {w} : worker'[v] = worker[v], CallOK(w)',
           Alive' \subseteq Alive
    PROVE  Core'
<1>1. CASE Alive = {}
  <2>1. MarkInv'
    BY Zenon DEF Core, MarkInv, RecordGrows, agent, Imported
  <2>2. ASSUME NEW v \in Workers \ {w} PROVE CallOK(v)'
    <3>1. worker'[v] = worker[v] /\ CallOK(v)
      BY Zenon DEF Core
    <3>2. QED BY Zenon, <3>1 DEF CallOK, RecordGrows, agent, Adopted, Retired, Torn
  <2>3. QED BY Zenon, <1>1, <2>1, <2>2 DEF Core
<1>2. CASE Alive # {}
  BY Zenon, <1>2, ControllerKeeps
<1>3. QED BY Zenon, <1>1, <1>2

\* A step outside the volume keeps Core.
LEMMA Unmoved ==
    ASSUME Core, UNCHANGED <<object, worker, stray, agent>>, TypeInv'
    PROVE  Core'
<1>1. Alive' = Alive
  BY Zenon DEF Alive
<1>2. MarkInv' /\ RecordInv'
  BY Zenon DEF Core, MarkInv, RecordInv, object, agent, Imported, Retired, Adopted,
         isLocalAttachPublish, LocalAttach, Shareable
<1>3. ASSUME NEW q \in Alive' PROVE RequestOK(q)'
  BY Zenon, <1>1 DEF Core, RequestOK, object, agent, Imported, Retired, Adopted, Current, Torn
<1>4. ASSUME NEW w \in Workers PROVE CallOK(w)'
  BY Zenon DEF Core, CallOK, object, agent, Retired, Adopted, Torn
<1>5. QED BY Zenon, <1>1, <1>2, <1>3, <1>4 DEF Core

\* A write that keeps the lifecycle.
LEMMA RecordKept ==
    ASSUME Core, UNCHANGED agent, spec' = spec, used' = used, pvs.uid # NoUID, pvs'.uid = pvs.uid,
           pvs'.deleting => pvs'.pubs = {},
           pvs'.phase # "Provisioning" => Adopted(pvs.uid),
           pvs'.importAcquired => pvs'.phase # "Provisioning",
           \A p \in pvs'.pubs : p.local = isLocalAttachPublish(p.node)
    PROVE  RecordInv'
BY Zenon DEF Core, RecordInv, agent, Adopted, Retired, isLocalAttachPublish, LocalAttach, Shareable

\* A step that writes nothing keeps the record in order.
LEMMA ObjectKept ==
    ASSUME Core, UNCHANGED agent, UNCHANGED object
    PROVE  RecordInv' /\ RecordGrows
<1>1. RecordInv'
  BY Zenon DEF Core, RecordInv, object, agent, Adopted, Retired, isLocalAttachPublish, LocalAttach, Shareable
<1>2. pvs.gen \in Nat
  BY Zenon, RecordFields DEF Core, TypeInv, TypeOK
<1>3. QED BY <1>1, <1>2 DEF object, RecordGrows

\* No teardown of the lifecycle exists before its record is marked deleting.
LEMMA NoTeardownYet ==
    ASSUME Core, ~pvs.deleting, pvs.uid # NoUID, NEW q, q.tok.uid = pvs.uid, q.kind \notin Teardown
    PROVE  \A t \in Alive : Later(q, t) /\ Later(t, q)
BY Zenon DEF Core, RequestOK, Current, Later

\* Claiming a generation for a request that raises the volume or its target.
LEMMA ClaimCore ==
    ASSUME Core, TypeInv', NEW w \in Workers, NEW pc \in {"backend", "export"},
           NEW kind \in {"create", "export"}, kind = "export" => Adopted(pvs.uid),
           CanClaim(pvs, worker[w].tok.uid), Commit(claimOperation(pvs)), UNCHANGED <<stray, agent>>,
           Becomes(w, pc, fenceToken(pvs'), worker[w].node, NewRequest(kind, fenceToken(pvs')), FALSE)
    PROVE  Core'
<1>0. pvs \in PillarVolumeState /\ pvs.gen \in Nat /\ pvs.uid \in used /\ RecordInv /\ TypeInv
      /\ pvs.uid # NoUID /\ ~pvs.deleting
  BY Zenon, CoreTypes DEF CanClaim, Pinned
<1>1. /\ pvs' \in PillarVolumeState /\ pvs'.gen = pvs.gen + 1
      /\ pvs'.uid = pvs.uid /\ pvs'.phase = pvs.phase /\ pvs'.deleting = pvs.deleting
      /\ pvs'.pubs = pvs.pubs /\ pvs'.localAttachNode = pvs.localAttachNode
      /\ pvs'.importAcquired = pvs.importAcquired
      /\ spec' = spec /\ used' = used
  BY Zenon, <1>0, ClaimIs
<1>2. RecordGrows
  BY <1>0, <1>1 DEF RecordGrows
<1>3. RecordInv'
  BY Zenon, <1>0, <1>1, RecordKept DEF RecordInv
<1>4. PICK q : /\ q = NewRequest(kind, fenceToken(pvs')) /\ q.kind = kind
               /\ q.tok.uid = pvs.uid /\ q.tok.gen = pvs'.gen
  <2>1. fenceToken(pvs') \in Token /\ fenceToken(pvs').uid = pvs.uid /\ fenceToken(pvs').gen = pvs'.gen
    BY Zenon, <1>1, TokenTyped
  <2>2. /\ NewRequest(kind, fenceToken(pvs')).kind = kind
        /\ NewRequest(kind, fenceToken(pvs')).tok = fenceToken(pvs')
    BY Zenon DEF NewRequest
  <2>3. QED BY Zenon, <2>1, <2>2
<1>5. Alive' \subseteq Alive \cup {q}
  BY Zenon, <1>4 DEF Becomes, Alive
<1>6. RequestOK(q)'
  <2>1. Adopted(pvs.uid) => Adopted(pvs.uid)'
    BY Zenon, <1>1 DEF Adopted, Retired, agent
  <2>2. q.kind \in {"create", "export"} /\ (q.kind = "export" => Adopted(pvs.uid)')
    BY Zenon, <1>4, <2>1
  <2>3. q.tok.gen <= pvs'.gen
    BY <1>0, <1>1, <1>4
  <2>4. QED BY Zenon, <1>0, <1>1, <1>4, <2>2, <2>3 DEF RequestOK, Current, Teardown
<1>7. \A t \in Alive : Later(q, t) /\ Later(t, q)
  BY Zenon, <1>0, <1>4, NoTeardownYet DEF Teardown
<1>8. CallOK(w)'
  BY Zenon, <1>0, <1>1, TokenTyped DEF CallOK, Becomes
<1>9. \A v \in Workers \ {w} : worker'[v] = worker[v]
  BY Zenon DEF Becomes
<1>10. QED BY Zenon, <1>2, <1>3, <1>5, <1>6, <1>7, <1>8, <1>9, ControllerKeeps

\* CreateVolume keeps Core.
LEMMA CreateStepCore ==
    ASSUME Core, TypeInv', NEW w \in Workers, CreateStep(w)
    PROVE  Core'
<1>0. /\ pvs \in PillarVolumeState /\ spec \in VolumeSpec /\ used \subseteq UIDs
      /\ pvs.gen \in Nat /\ pvs.deleting \in BOOLEAN /\ pvs.uid \in UIDs \cup {NoUID}
      /\ pvs.uid # NoUID => pvs.uid \in used
      /\ worker[w].tok \in Token /\ worker[w].tok.uid \in UIDs \cup {NoUID}
      /\ CallOK(w) /\ TypeInv /\ RecordInv
  BY Zenon, CoreTypes
<1>1. TypeInv'
  BY Zenon
<1>2. ASSUME NEW pc \in {"ensure", "claimBackend", "resume", "claimExport"},
             NEW uid \in UIDs \cup {NoUID}, Proceed(w, pc, uid),
             pc # "ensure" => uid \in used',
             pc \in {"resume", "claimExport"} => Adopted(uid),
             UNCHANGED <<stray, agent>>, RecordInv', RecordGrows
      PROVE  Core'
  <2>1. Becomes(w, pc, [uid |-> uid, gen |-> 0], worker[w].node, NoRequest, FALSE)
    BY Zenon, <1>0, <1>2, ProceedEffect
  <2>2. Alive' \subseteq Alive
    BY Zenon, <1>2, <2>1 DEF Becomes, Alive
  <2>3. CallOK(w)'
    BY <1>2, <2>1 DEF CallOK, Becomes, agent, Adopted, Retired
  <2>4. QED BY Zenon, <1>1, <1>2, <2>1, <2>2, <2>3, ControllerKeepsQuiet DEF Becomes
<1>3. CASE BeginCreate(w)
  <2>1. CASE UNCHANGED worker
    BY Zenon, <1>1, <1>3, <2>1, Unmoved DEF BeginCreate
  <2>2. CASE Proceed(w, "ensure", NoUID)
    BY Zenon, <1>2, <1>3, <2>2, ObjectKept DEF BeginCreate
  <2>3. QED BY Zenon, <1>3, <2>1, <2>2 DEF BeginCreate
<1>4. CASE EnsureVolumeState(w)
  <2>1. ASSUME NEW u \in UIDs \ used, pvs.uid = NoUID, pvs' = NewVolumeState(u),
               used' = used \cup {u}, UNCHANGED spec, Proceed(w, "claimBackend", u)
        PROVE  Core'
    <3>1. /\ pvs'.uid = u /\ pvs'.pubs = {} /\ pvs'.deleting = FALSE
          /\ pvs'.phase = "Provisioning" /\ pvs'.importAcquired = FALSE
      BY Zenon, <2>1, NewVolumeStateIs
    <3>2. RecordGrows
      BY Zenon, <2>1, <3>1 DEF RecordGrows
    <3>3. \A v \in used : Retired(v)'
      BY Zenon, <1>0, <1>4, <2>1 DEF RecordInv, EnsureVolumeState, agent, Retired
    <3>4. RecordInv'
      BY Zenon, <2>1, <3>1, <3>3 DEF RecordInv
    <3>5. QED BY Zenon, <1>2, <1>4, <2>1, <3>2, <3>4 DEF EnsureVolumeState
  <2>2. CASE /\ pvs.uid # NoUID /\ UNCHANGED object
             /\ Proceed(w, IF pvs.phase = "CreatePartial" THEN "resume" ELSE "claimBackend", pvs.uid)
    <3>1. RecordInv' /\ RecordGrows /\ used' = used /\ UNCHANGED <<stray, agent>>
      BY Zenon, <1>4, <2>2, ObjectKept DEF EnsureVolumeState, object
    <3>2. CASE pvs.phase = "CreatePartial"
      BY Zenon, <1>0, <1>2, <2>2, <3>1, <3>2 DEF RecordInv
    <3>3. CASE pvs.phase # "CreatePartial"
      BY Zenon, <1>0, <1>2, <2>2, <3>1, <3>3
    <3>4. QED BY Zenon, <3>2, <3>3
  <2>3. QED BY Zenon, <1>4, <2>1, <2>2 DEF EnsureVolumeState
<1>5. CASE CreateBackend(w)
  <2>1. fenceToken(pvs') \in Token
    BY Zenon, <1>1, TokenTyped DEF TypeInv, TypeOK
  <2>2. Becomes(w, "backend", fenceToken(pvs'), worker[w].node, NewRequest("create", fenceToken(pvs')), FALSE)
    BY Zenon, <1>0, <1>5, <2>1, KindOfIs, CallNew DEF CreateBackend, Waits, Publishes
  <2>3. QED BY Zenon, <1>1, <1>5, <2>2, ClaimCore DEF CreateBackend
<1>6. CASE ExportVolume(w)
  <2>1. fenceToken(pvs') \in Token
    BY Zenon, <1>1, TokenTyped DEF TypeInv, TypeOK
  <2>2. Becomes(w, "export", fenceToken(pvs'), worker[w].node, NewRequest("export", fenceToken(pvs')), FALSE)
    BY Zenon, <1>0, <1>6, <2>1, KindOfIs, CallNew DEF ExportVolume, Waits, Publishes
  <2>3. Adopted(pvs.uid)
    BY Zenon, <1>0, <1>6 DEF ExportVolume, CallOK, CanClaim, Pinned
  <2>4. QED BY Zenon, <1>1, <1>6, <2>2, <2>3, ClaimCore DEF ExportVolume
<1>7. CASE CommitBackend(w) \/ ResumePartial(w)
  <2>1. /\ Adopted(worker[w].tok.uid) /\ worker[w].tok.uid \in used
        /\ Proceed(w, "claimExport", worker[w].tok.uid) /\ UNCHANGED <<stray, agent>>
    BY Zenon, <1>0, <1>7 DEF CommitBackend, ResumePartial, CallOK, Answered
  <2>2. CASE Pinned(pvs, worker[w].tok.uid) /\ Commit(persistCreatePartial(pvs))
    <3>1. /\ pvs'.phase = "CreatePartial" /\ pvs'.uid = pvs.uid /\ pvs'.gen = pvs.gen
          /\ pvs'.deleting = pvs.deleting /\ pvs'.pubs = pvs.pubs /\ spec' = spec /\ used' = used
      BY Zenon, <1>0, <2>2, CreatePartialIs
    <3>2. RecordGrows
      BY <1>0, <3>1 DEF RecordGrows
    <3>3. RecordInv'
      BY Zenon, <1>0, <2>1, <2>2, <3>1, RecordKept DEF RecordInv, Pinned
    <3>4. QED BY Zenon, <1>0, <1>2, <2>1, <3>1, <3>2, <3>3
  <2>3. CASE UNCHANGED object
    BY Zenon, <1>0, <1>2, <2>1, <2>3, ObjectKept DEF object
  <2>4. QED BY Zenon, <1>7, <2>2, <2>3 DEF CommitBackend, ResumePartial
<1>8. CASE RecordReady(w)
  <2>1. /\ pvs'.phase = "Ready" /\ pvs'.uid = pvs.uid /\ pvs'.gen = pvs.gen
        /\ pvs'.deleting = pvs.deleting /\ pvs'.pubs = pvs.pubs
        /\ spec' = spec /\ used' = used /\ pvs.uid # NoUID /\ pvs.uid = worker[w].tok.uid
    BY Zenon, <1>0, <1>8, ReadyIs DEF RecordReady, CanPersistReady, Pinned
  <2>2. Adopted(pvs.uid)
    <3>1. worker[w].req \in Alive /\ worker[w].req.tok = worker[w].tok /\ worker[w].req.kind = "export"
      BY Zenon, <1>0, <1>8, AliveHeld, KindOfIs DEF RecordReady, Answered, Waits
    <3>2. QED BY Zenon, <2>1, <3>1 DEF Core, RequestOK
  <2>3. RecordGrows
    BY <1>0, <2>1 DEF RecordGrows
  <2>4. RecordInv'
    BY Zenon, <1>0, <1>8, <2>1, <2>2, RecordKept DEF RecordInv, RecordReady
  <2>5. Becomes(w, "idle", NoToken, NoNode, NoRequest, FALSE) /\ UNCHANGED <<stray, agent>>
    BY Zenon, <1>0, <1>8, ReturnEffect DEF RecordReady
  <2>6. Alive' \subseteq Alive /\ CallOK(w)'
    BY Zenon, <2>5 DEF Becomes, Alive, CallOK
  <2>7. QED BY Zenon, <1>1, <2>3, <2>4, <2>5, <2>6, ControllerKeepsQuiet DEF Becomes
<1>9. QED BY Zenon, <1>3, <1>4, <1>5, <1>6, <1>7, <1>8 DEF CreateStep

\* Marking the lifecycle deleting and starting its teardown.
LEMMA TeardownCore ==
    ASSUME Core, TypeInv', NEW w \in Workers, CanMarkDeleting(pvs), Commit(markVolumeDeleting(pvs)),
           teardownMarkedVolume(w, pvs'), UNCHANGED <<stray, agent>>
    PROVE  Core'
<1>0. /\ pvs \in PillarVolumeState /\ pvs.gen \in Nat /\ pvs.deleting \in BOOLEAN
      /\ RecordInv /\ TypeInv /\ pvs.uid # NoUID /\ pvs.uid \in used
      /\ pvs.pubs = {}
  BY Zenon, CoreTypes DEF CanMarkDeleting, RecordInv
<1>1. /\ pvs' \in PillarVolumeState /\ pvs'.deleting = TRUE
      /\ pvs'.gen = IF pvs.deleting THEN pvs.gen ELSE pvs.gen + 1
      /\ pvs'.uid = pvs.uid /\ pvs'.phase = pvs.phase /\ pvs'.pubs = pvs.pubs
      /\ pvs'.importAcquired = pvs.importAcquired
      /\ spec' = spec /\ used' = used
  BY Zenon, <1>0, DeletingIs
<1>2. RecordGrows
  BY <1>0, <1>1 DEF RecordGrows
<1>3. RecordInv'
  BY Zenon, <1>0, <1>1, RecordKept DEF RecordInv
<1>4. fenceToken(pvs') \in Token /\ fenceToken(pvs').uid = pvs.uid /\ fenceToken(pvs').gen = pvs'.gen
  BY Zenon, <1>1, TokenTyped
<1>5. ASSUME NEW pc \in {"unexport", "release"}, Call(w, pc, NewRequest(pc, fenceToken(pvs'))),
             pc = "release" => Imported, pc = "unexport" /\ Imported => Adopted(pvs.uid)
      PROVE  Core'
  <2>1. Becomes(w, pc, fenceToken(pvs'), worker[w].node, NewRequest(pc, fenceToken(pvs')), FALSE)
    BY Zenon, <1>0, <1>4, <1>5, KindOfIs, CallNew DEF Waits, Publishes
  <2>2. PICK q : q = NewRequest(pc, fenceToken(pvs'))
    BY Zenon
  <2>3. q.kind = pc /\ q.tok.uid = pvs.uid /\ q.tok.gen = pvs'.gen
    BY Zenon, <1>4, <2>2 DEF NewRequest
  <2>4. Alive' \subseteq Alive \cup {q}
    BY Zenon, <2>1, <2>2 DEF Becomes, Alive
  <2>5. RequestOK(q)'
    BY <1>0, <1>1, <1>5, <2>3
    DEF RequestOK, Current, Teardown, Raises, Adopted, Retired, agent, Imported
  <2>6. ASSUME NEW t \in Alive PROVE Later(q, t) /\ Later(t, q)
    <3>1. RequestOK(t) /\ t.tok.gen \in Nat
      BY Zenon, AliveFits DEF Core
    <3>2. QED BY <1>0, <1>1, <2>3, <3>1 DEF RequestOK, Current, Later, Raises, Teardown
  <2>7. CallOK(w)'
    BY Zenon, <1>0, <1>1, <1>4, <2>1 DEF CallOK, Becomes
  <2>8. \A v \in Workers \ {w} : worker'[v] = worker[v]
    BY Zenon, <2>1 DEF Becomes
  <2>9. QED BY Zenon, <1>2, <1>3, <2>4, <2>5, <2>6, <2>7, <2>8, ControllerKeeps
<1>6. CASE releaseOnlyTeardown(pvs')
  <2>1. Imported /\ Call(w, "release", NewRequest("release", fenceToken(pvs')))
    BY Zenon, <1>6 DEF releaseOnlyTeardown, teardownMarkedVolume
  <2>2. QED BY Zenon, <1>5, <2>1
<1>7. CASE ~releaseOnlyTeardown(pvs')
  <2>1. Call(w, "unexport", NewRequest("unexport", fenceToken(pvs')))
    BY Zenon, <1>7 DEF teardownMarkedVolume
  <2>2. Imported => Adopted(pvs.uid)
    BY Zenon, <1>0, <1>1, <1>7 DEF releaseOnlyTeardown, Imported, RecordInv
  <2>3. QED BY Zenon, <1>5, <2>1, <2>2
<1>8. QED BY Zenon, <1>6, <1>7

\* DeleteVolume and the reaper keep Core.
LEMMA DeleteStepCore ==
    ASSUME Core, TypeInv', NEW w \in Workers, DeleteStep(w)
    PROVE  Core'
<1>0. /\ pvs \in PillarVolumeState /\ used \subseteq UIDs /\ pvs.uid \in UIDs \cup {NoUID}
      /\ pvs.uid # NoUID => pvs.uid \in used
      /\ worker[w].tok \in Token /\ CallOK(w) /\ TypeInv /\ RecordInv
  BY Zenon, CoreTypes
<1>1. TypeInv'
  BY Zenon
<1>2. CASE DeleteVolume(w) \/ ReapAbandoned(w)
  BY Zenon, <1>1, <1>2, TeardownCore DEF DeleteVolume, ReapAbandoned
<1>3. CASE BeginReap(w)
  <2>1. Becomes(w, "reap", [uid |-> pvs.uid, gen |-> 0], worker[w].node, NoRequest, FALSE)
    BY Zenon, <1>0, <1>3, ProceedEffect DEF BeginReap
  <2>2. RecordInv' /\ RecordGrows /\ UNCHANGED <<object, stray, agent>>
    BY Zenon, <1>3, ObjectKept DEF BeginReap
  <2>3. Alive' \subseteq Alive
    BY Zenon, <2>1, <2>2 DEF Becomes, Alive
  <2>4. CallOK(w)'
    BY <1>0, <1>3, <2>1, <2>2 DEF CallOK, Becomes, BeginReap, reapablePhase, object
  <2>5. QED BY Zenon, <1>1, <2>1, <2>2, <2>3, <2>4, ControllerKeepsQuiet DEF Becomes
<1>4. CASE DestroyBackend(w)
  <2>0. /\ worker[w].pc = "unexport" /\ worker[w].answered /\ UNCHANGED <<object, stray, agent>>
        /\ Call(w, "destroy", NewRequest("delete", worker[w].tok))
    BY Zenon, <1>4 DEF DestroyBackend, Answered
  <2>1. Becomes(w, "destroy", worker[w].tok, worker[w].node, NewRequest("delete", worker[w].tok), FALSE)
    BY Zenon, <1>0, <2>0, KindOfIs, CallNew DEF Waits, Publishes
  <2>2. RecordInv' /\ RecordGrows
    BY Zenon, <2>0, ObjectKept
  <2>3. PICK t \in Alive : t.kind = "unexport" /\ t.tok = worker[w].tok
    BY Zenon, <1>0, <2>0, AliveHeld, KindOfIs DEF Waits
  <2>4. PICK q : q = NewRequest("delete", worker[w].tok)
    BY Zenon
  <2>5. q.kind = "delete" /\ q.tok = t.tok
    BY Zenon, <2>3, <2>4 DEF NewRequest
  <2>6. Alive' \subseteq Alive \cup {q}
    BY <2>0, <2>1, <2>4 DEF Becomes, Alive
  <2>7. RequestOK(t)' /\ Torn(t.tok)
    BY Zenon, <1>0, <1>1, <2>0, <2>2, <2>3, RequestStays DEF CallOK
  <2>8. RequestOK(q)'
    BY Zenon, <2>0, <2>3, <2>5, <2>7 DEF RequestOK, Current, Teardown, Raises, Torn, Retired, agent
  <2>9. ASSUME NEW r \in Alive PROVE Later(q, r) /\ Later(r, q)
    <3>1. Later(r, t)
      BY Zenon DEF Core
    <3>2. QED BY Zenon, <2>3, <2>5, <3>1 DEF Later, Raises, Teardown
  <2>10. CallOK(w)'
    BY Zenon, <1>0, <2>0, <2>1 DEF CallOK, Becomes, object
  <2>11. \A v \in Workers \ {w} : worker'[v] = worker[v]
    BY Zenon, <2>1 DEF Becomes
  <2>12. QED BY Zenon, <1>1, <2>0, <2>2, <2>6, <2>8, <2>9, <2>10, <2>11, ControllerKeeps
<1>5. CASE FinishDelete(w)
  <2>1. Becomes(w, "idle", NoToken, NoNode, NoRequest, FALSE) /\ UNCHANGED <<stray, agent, spec, used>>
    BY Zenon, <1>0, <1>5, ReturnEffect DEF FinishDelete
  <2>2. Alive' \subseteq Alive /\ CallOK(w)'
    BY Zenon, <2>1 DEF Becomes, Alive, CallOK
  <2>3. CASE Pinned(pvs, worker[w].tok.uid)
    <3>1. pvs' = NoVolumeState /\ Retired(pvs.uid)
      BY Zenon, <1>0, <1>5, <2>3 DEF FinishDelete, Pinned, CallOK, Answered
    <3>2. RecordGrows
      BY Zenon, <2>1, <3>1, NewVolumeStateIs DEF RecordGrows
    <3>3. \A u \in used : Retired(u)'
      BY Zenon, <1>0, <2>1, <3>1 DEF RecordInv, agent, Retired
    <3>4. RecordInv'
      BY Zenon, <2>1, <3>1, <3>3, NewVolumeStateIs DEF RecordInv
    <3>5. QED BY Zenon, <1>1, <2>1, <2>2, <3>2, <3>4, ControllerKeepsQuiet DEF Becomes
  <2>4. CASE ~Pinned(pvs, worker[w].tok.uid)
    <3>1. RecordInv' /\ RecordGrows
      BY Zenon, <1>5, <2>1, <2>4, ObjectKept DEF FinishDelete, object
    <3>2. QED BY Zenon, <1>1, <2>1, <2>2, <3>1, ControllerKeepsQuiet DEF Becomes
  <2>5. QED BY Zenon, <2>3, <2>4
<1>6. QED BY Zenon, <1>2, <1>3, <1>4, <1>5 DEF DeleteStep

\* A publish or unpublish request at the generation just read or written.
LEMMA NodeRequestCore ==
    ASSUME Core, TypeInv', UNCHANGED <<stray, agent>>, RecordGrows, RecordInv',
           pvs'.uid = pvs.uid, pvs'.uid # NoUID,
           NEW w \in Workers, NEW pc \in Publishes \cup {"deny"}, NEW q, NEW tok, NEW node, NEW b,
           Becomes(w, pc, tok, node, q, b),
           q.kind \in {"attach", "allow", "deny"}, q.tok = tok, tok.uid \in used',
           tok.uid = pvs.uid => tok.gen <= pvs'.gen
    PROVE  Core'
<1>1. Alive' \subseteq Alive \cup {q}
  BY Zenon DEF Becomes, Alive
<1>2. RequestOK(q)'
  BY Zenon DEF RequestOK, Current, Teardown, Raises
<1>3. \A t \in Alive : Later(q, t) /\ Later(t, q)
  BY Zenon DEF Later, Raises, Teardown
<1>4. CallOK(w)'
  BY Zenon DEF CallOK, Becomes, Publishes
<1>5. \A v \in Workers \ {w} : worker'[v] = worker[v]
  BY Zenon DEF Becomes
<1>6. QED BY Zenon, <1>1, <1>2, <1>3, <1>4, <1>5, ControllerKeeps

\* ControllerPublishVolume keeps Core.
LEMMA PublishStepCore ==
    ASSUME Core, TypeInv', NEW w \in Workers, PublishStep(w)
    PROVE  Core'
<1>0. /\ pvs \in PillarVolumeState /\ used \subseteq UIDs /\ pvs.gen \in Nat
      /\ pvs.uid # NoUID => pvs.uid \in used
      /\ worker[w].tok \in Token /\ CallOK(w) /\ WellFormed(worker[w]) /\ TypeInv /\ RecordInv
  BY Zenon, CoreTypes
<1>1. TypeInv'
  BY Zenon
<1>2. ASSUME NEW n \in Nodes, BeginPublish(w, n) PROVE Core'
  <2>1. Becomes(w, "reserve", [uid |-> pvs.uid, gen |-> 0], n, NoRequest, FALSE)
    BY Zenon, <1>0, <1>2, BeginPublishEffect
  <2>2. RecordInv' /\ RecordGrows /\ UNCHANGED <<object, stray, agent>>
    BY Zenon, <1>2, ObjectKept DEF BeginPublish
  <2>3. Alive' \subseteq Alive
    BY Zenon, <2>1, <2>2 DEF Becomes, Alive
  <2>4. CallOK(w)'
    BY <1>0, <1>2, <2>1, <2>2 DEF CallOK, Becomes, BeginPublish, object
  <2>5. QED BY Zenon, <1>1, <2>1, <2>2, <2>3, <2>4, ControllerKeepsQuiet DEF Becomes
<1>3. CASE ReservePublication(w)
  <2>0. /\ worker[w].node \in Nodes /\ pvs.uid # NoUID /\ ~pvs.deleting
        /\ pvs'.gen = pvs.gen + 1 /\ pvs'.uid = pvs.uid /\ pvs'.phase = pvs.phase
        /\ pvs'.pubs = pvs.pubs \cup {Publication(worker[w].node)}
        /\ pvs'.deleting = pvs.deleting /\ pvs'.importAcquired = pvs.importAcquired
        /\ spec' = spec /\ used' = used /\ UNCHANGED <<stray, agent>>
        /\ pvs' \in PillarVolumeState
    BY Zenon, <1>0, <1>3, ReserveEffect DEF ReservePublication, CanReserve, Pinned
  <2>1. RecordGrows
    BY <1>0, <2>0 DEF RecordGrows
  <2>2. \A p \in pvs'.pubs : p.local = isLocalAttachPublish(p.node)
    <3>1. /\ Publication(worker[w].node).node = worker[w].node
          /\ Publication(worker[w].node).local = isLocalAttachPublish(worker[w].node)
      BY Zenon, <1>0, <2>0, PublicationIs DEF TypeInv, TypeOK
    <3>2. QED BY Zenon, <1>0, <2>0, <3>1 DEF RecordInv
  <2>3. RecordInv'
    BY Zenon, <1>0, <2>0, <2>2, RecordKept DEF RecordInv
  <2>4. PICK pc \in Publishes, q \in Request :
               /\ Becomes(w, pc, fenceToken(pvs'), worker[w].node, q, FALSE)
               /\ q.tok = fenceToken(pvs') /\ q.kind \in {"attach", "allow"}
    BY Zenon, <1>0, <1>3, ReserveEffect
  <2>5. fenceToken(pvs').uid = pvs.uid /\ fenceToken(pvs').gen = pvs'.gen /\ pvs'.gen <= pvs'.gen
    BY <1>0, <2>0, TokenTyped
  <2>6. PICK tok : tok = fenceToken(pvs')
    BY Zenon
  <2>7. Becomes(w, pc, tok, worker[w].node, q, FALSE) /\ q.tok = tok /\ tok.uid \in used'
        /\ tok.gen <= pvs'.gen
    BY Zenon, <1>0, <2>0, <2>4, <2>5, <2>6
  <2>8. QED BY Zenon, <1>1, <2>0, <2>1, <2>3, <2>4, <2>7, NodeRequestCore
<1>4. CASE ClearLocalAttach(w)
  <2>0. worker[w].node \in Nodes /\ worker[w].seen \in Nodes
    BY Zenon, <1>0, <1>4 DEF ClearLocalAttach, Answered, WellFormed, Publishes, TypeInv, TypeOK
  <2>1. /\ pvs' \in PillarVolumeState /\ pvs'.gen \in {pvs.gen, pvs.gen + 1} /\ pvs'.uid = pvs.uid
        /\ pvs'.phase = pvs.phase /\ pvs'.pubs = pvs.pubs /\ pvs.uid # NoUID
        /\ pvs'.deleting = pvs.deleting /\ pvs'.importAcquired = pvs.importAcquired
        /\ spec' = spec /\ used' = used /\ UNCHANGED <<stray, agent>>
    BY Zenon, <1>0, <1>4, <2>0, ClearLocalAttachIs DEF ClearLocalAttach, CanClearLocalAttach, Pinned
  <2>2. RecordGrows
    BY <1>0, <2>1 DEF RecordGrows
  <2>3. RecordInv'
    BY Zenon, <1>0, <2>1, RecordKept DEF RecordInv
  <2>4. fenceToken(pvs') \in Token /\ fenceToken(pvs').uid = pvs.uid /\ fenceToken(pvs').gen = pvs'.gen
        /\ pvs'.gen <= pvs'.gen
    BY <1>0, <2>1, TokenTyped
  <2>5. PICK q \in Request : /\ q.kind = "attach" /\ q.tok = fenceToken(pvs')
                             /\ Becomes(w, "reenable", fenceToken(pvs'), worker[w].node, q, FALSE)
    BY Zenon, <1>0, <1>4, <2>0, <2>4, SetLocalAttachEffect DEF ClearLocalAttach
  <2>6. PICK tok : tok = fenceToken(pvs')
    BY Zenon
  <2>7. Becomes(w, "reenable", tok, worker[w].node, q, FALSE) /\ q.tok = tok /\ tok.uid \in used'
        /\ tok.gen <= pvs'.gen /\ "reenable" \in Publishes
    BY Zenon, <1>0, <2>1, <2>4, <2>5, <2>6 DEF Publishes
  <2>8. QED BY Zenon, <1>1, <2>1, <2>2, <2>3, <2>5, <2>7, NodeRequestCore
<1>5. CASE GrantPublication(w)
  <2>0. /\ worker[w].node \in Nodes /\ worker[w].pc \in {"enable", "reenable"}
        /\ UNCHANGED <<object, stray, agent>> /\ AllowInitiator(w, worker[w].tok)
    BY Zenon, <1>0, <1>5 DEF GrantPublication, Answered, WellFormed, Publishes
  <2>1. PICK q \in Request : /\ q.kind = "allow" /\ q.tok = worker[w].tok
                             /\ Becomes(w, "grant", worker[w].tok, worker[w].node, q, FALSE)
    BY Zenon, <1>0, <2>0, AllowInitiatorEffect
  <2>2. RecordInv' /\ RecordGrows
    BY Zenon, <2>0, ObjectKept
  <2>3. PICK t \in Alive : t.tok = worker[w].tok /\ RequestOK(t)
    BY Zenon, <1>0, <2>0, AliveHeld DEF Waits, Core
  <2>4. Alive' \subseteq Alive \cup {q}
    BY <2>0, <2>1 DEF Becomes, Alive
  <2>5. RequestOK(t)'
    BY Zenon, <1>1, <2>0, <2>2, RequestStays
  <2>6. worker[w].tok.uid \in used
    BY Zenon, <1>0, <2>0 DEF CallOK
  <2>7. RequestOK(q)'
    BY Zenon, <2>0, <2>1, <2>3, <2>5, <2>6 DEF RequestOK, Current, Teardown, Raises, object
  <2>8. \A r \in Alive : Later(q, r) /\ Later(r, q)
    BY Zenon, <2>1 DEF Later, Raises, Teardown
  <2>9. CallOK(w)'
    BY Zenon, <2>0, <2>1, <2>6 DEF CallOK, Becomes, object
  <2>10. \A v \in Workers \ {w} : worker'[v] = worker[v]
    BY Zenon, <2>1 DEF Becomes
  <2>11. QED BY Zenon, <1>1, <2>0, <2>2, <2>4, <2>7, <2>8, <2>9, <2>10, ControllerKeeps
<1>6. CASE FinishPublish(w)
  <2>1. Becomes(w, "idle", NoToken, NoNode, NoRequest, FALSE) /\ UNCHANGED <<object, stray, agent>>
    BY Zenon, <1>0, <1>6, ReturnEffect DEF FinishPublish
  <2>2. Alive' \subseteq Alive /\ CallOK(w)'
    BY Zenon, <2>1 DEF Becomes, Alive, CallOK
  <2>3. QED BY Zenon, <1>1, <2>1, <2>2, ObjectKept, ControllerKeepsQuiet DEF Becomes
<1>7. QED BY Zenon, <1>2, <1>3, <1>4, <1>5, <1>6 DEF PublishStep

\* ControllerUnpublishVolume keeps Core.
LEMMA UnpublishStepCore ==
    ASSUME Core, TypeInv', NEW w \in Workers, UnpublishStep(w)
    PROVE  Core'
<1>0. /\ pvs \in PillarVolumeState /\ pvs.gen \in Nat
      /\ pvs.uid # NoUID => pvs.uid \in used
      /\ CallOK(w) /\ WellFormed(worker[w]) /\ TypeInv /\ RecordInv
  BY Zenon, CoreTypes
<1>1. TypeInv'
  BY Zenon
<1>2. ASSUME NEW n \in Nodes, FencePublications(w, n) PROVE Core'
  <2>0. pvs.uid # NoUID
    BY Zenon, <1>0, <1>2, NewVolumeStateIs DEF FencePublications, PublicationsOf, RecordInv
  <2>1. /\ pvs'.gen = pvs.gen + 1 /\ pvs'.uid = pvs.uid /\ pvs'.phase = pvs.phase
        /\ pvs'.pubs = Revoke(pvs, n) /\ pvs' \in PillarVolumeState
        /\ pvs'.deleting = pvs.deleting /\ pvs'.importAcquired = pvs.importAcquired
        /\ spec' = spec /\ used' = used /\ UNCHANGED <<stray, agent>>
    BY Zenon, <1>0, <1>2, FenceIs DEF FencePublications
  <2>2. RecordGrows
    BY <1>0, <2>1 DEF RecordGrows
  <2>3. \A p \in pvs'.pubs : p.local = isLocalAttachPublish(p.node)
    BY <1>0, <2>1, RevokeIs DEF RecordInv
  <2>4. pvs'.deleting => pvs'.pubs = {}
    BY Zenon, <1>0, <1>2, <2>1 DEF RecordInv, FencePublications, PublicationsOf
  <2>5. RecordInv'
    BY Zenon, <1>0, <2>0, <2>1, <2>3, <2>4, RecordKept DEF RecordInv
  <2>6. PICK q \in Request : /\ q.kind = "deny" /\ q.tok = fenceToken(pvs')
                             /\ Becomes(w, "deny", fenceToken(pvs'), n, q, isLocalAttachPublish(n))
    BY Zenon, <1>0, <1>2, FencePublicationsEffect
  <2>7. fenceToken(pvs').uid = pvs.uid /\ fenceToken(pvs').gen = pvs'.gen /\ pvs'.gen <= pvs'.gen
    BY <1>0, <2>1, TokenTyped
  <2>8. PICK tok : tok = fenceToken(pvs')
    BY Zenon
  <2>9. Becomes(w, "deny", tok, n, q, isLocalAttachPublish(n)) /\ q.tok = tok /\ tok.uid \in used'
        /\ tok.gen <= pvs'.gen
    BY Zenon, <1>0, <2>0, <2>1, <2>6, <2>7, <2>8
  <2>10. QED BY Zenon, <1>1, <2>0, <2>1, <2>2, <2>5, <2>6, <2>9, NodeRequestCore
<1>3. CASE ReleasePublication(w)
  <2>0. worker[w].node \in Nodes /\ pvs.uid # NoUID
    BY Zenon, <1>0, <1>3 DEF ReleasePublication, Answered, WellFormed, CanRelease, Pinned
  <2>1. /\ pvs'.gen = pvs.gen + 1 /\ pvs'.uid = pvs.uid /\ pvs'.phase = pvs.phase
        /\ pvs'.pubs = {p \in pvs.pubs : p.node # worker[w].node}
        /\ pvs'.deleting = pvs.deleting /\ pvs'.importAcquired = pvs.importAcquired
        /\ spec' = spec /\ used' = used /\ UNCHANGED <<stray, agent>>
    BY Zenon, <1>0, <1>3, <2>0, ReleaseIs DEF ReleasePublication
  <2>2. RecordGrows
    BY <1>0, <2>1 DEF RecordGrows
  <2>3. RecordInv'
    BY Zenon, <1>0, <2>0, <2>1, RecordKept DEF RecordInv
  <2>4. Becomes(w, "idle", NoToken, NoNode, NoRequest, FALSE)
    BY Zenon, <1>0, <1>3, ReturnEffect DEF ReleasePublication
  <2>5. Alive' \subseteq Alive /\ CallOK(w)'
    BY Zenon, <2>1, <2>4 DEF Becomes, Alive, CallOK
  <2>6. QED BY Zenon, <1>1, <2>1, <2>2, <2>3, <2>4, <2>5, ControllerKeepsQuiet DEF Becomes
<1>4. QED BY Zenon, <1>2, <1>3 DEF UnpublishStep

\* A call that is given up keeps Core.
LEMMA AbandonCore ==
    ASSUME Core, TypeInv', NEW w \in Workers, Abandon(w)
    PROVE  Core'
<1>1. TypeInv' /\ TypeInv
  BY Zenon DEF Core
<1>2. Becomes(w, "idle", NoToken, NoNode, NoRequest, FALSE) /\ UNCHANGED <<object, agent>>
  BY Zenon, <1>1, ReturnEffect DEF Abandon
<1>3. Alive' \subseteq Alive /\ CallOK(w)'
  BY Zenon, <1>2 DEF Becomes, Alive, CallOK, Abandon, Leave, Waiting
<1>4. QED BY Zenon, <1>1, <1>2, <1>3, ObjectKept, ControllerKeepsQuiet DEF Becomes

\* The requests a resync leaves to the agent.
LEMMA ResyncCore ==
    ASSUME Core, TypeInv', ReconcileVolumeExport \/ RestoreAgentExports
    PROVE  Core'
<1>0. /\ TypeInv /\ RecordInv /\ pvs \in PillarVolumeState /\ pvs.gen \in Nat /\ TypeInv'
      /\ UNCHANGED <<object, worker, agent>>
  BY Zenon, RecordFields
  DEF Core, TypeInv, TypeOK, ReconcileVolumeExport, RestoreAgentExports
<1>1. RecordInv' /\ RecordGrows
  BY Zenon, <1>0, ObjectKept
<1>2. PICK q : /\ stray' = stray \cup {q} /\ q.kind \in {"reconcile", "restore"}
               /\ \/ CanResync(pvs) /\ q.tok = fenceToken(pvs)
                  \/ q.kind = "restore" /\ q.tok = NoToken
  <2>1. \A kind \in {"reconcile", "restore"} :
            Desired(kind).kind = kind /\ Desired(kind).tok = fenceToken(pvs)
    BY Zenon, <1>0, DesiredIs
  <2>2. NewRequest("restore", NoToken).kind = "restore" /\ NewRequest("restore", NoToken).tok = NoToken
    BY Zenon DEF NewRequest
  <2>3. QED BY Zenon, <2>1, <2>2 DEF ReconcileVolumeExport, RestoreAgentExports, Leave
<1>3. Alive' \subseteq Alive \cup {q}
  BY Zenon, <1>0, <1>2 DEF Alive
<1>4. RequestOK(q)' /\ \A t \in Alive : Later(q, t) /\ Later(t, q)
  <2>1. CASE CanResync(pvs) /\ q.tok = fenceToken(pvs)
    <3>1. /\ q.tok.uid = pvs.uid /\ q.tok.gen = pvs.gen /\ pvs.uid # NoUID /\ ~pvs.deleting
          /\ Adopted(pvs.uid) /\ pvs.uid \in used
      BY Zenon, <1>0, <2>1, TokenTyped DEF CanResync, RecordInv
    <3>2. RequestOK(q)'
      BY <1>0, <1>2, <3>1 DEF RequestOK, Current, Teardown, Raises, Adopted, Retired, agent, object
    <3>3. QED BY Zenon, <1>2, <3>1, <3>2, NoTeardownYet DEF Teardown
  <2>2. CASE q.kind = "restore" /\ q.tok = NoToken
    <3>1. q.tok.uid = NoUID
      BY <2>2 DEF NoToken
    <3>2. RequestOK(q)'
      BY Zenon, <2>2, <3>1 DEF RequestOK, Current, Teardown
    <3>3. ASSUME NEW t \in Alive PROVE Later(q, t) /\ Later(t, q)
      <4>1. RequestOK(t) /\ used \subseteq UIDs
        BY Zenon DEF Core, TypeInv, TypeOK
      <4>2. QED BY Zenon, <2>2, <3>1, <4>1 DEF RequestOK, Later, Teardown, Raises
    <3>4. QED BY Zenon, <3>2, <3>3
  <2>3. QED BY Zenon, <1>2, <2>1, <2>2
<1>5. \A r \in Alive' : RequestOK(r)'
  BY Zenon, <1>0, <1>1, <1>3, <1>4, RequestStays
<1>6. \A r, t \in Alive' : Later(r, t)
  <2>1. Later(q, q)
    BY Zenon DEF Later, Raises, Teardown
  <2>2. QED BY Zenon, <1>3, <1>4, <2>1 DEF Core
<1>7. MarkInv'
  BY Zenon, <1>0 DEF Core, MarkInv, agent, object, Imported
<1>8. ASSUME NEW w \in Workers PROVE CallOK(w)'
  BY Zenon, <1>0 DEF Core, CallOK, object, agent, Retired, Adopted, Torn
<1>9. QED BY Zenon, <1>0, <1>1, <1>5, <1>6, <1>7, <1>8 DEF Core

\* Core holds at the start.
LEMMA InitCore ==
    ASSUME Init, TypeInv
    PROVE  Core
<1>0. TypeInv /\ spec \in VolumeSpec /\ UIDs \cap {NoUID, Foreign} = {} /\ Foreign # NoUID
  BY Zenon DEF Init
<1>1. Alive = {}
  BY Zenon DEF Init, Alive, IdleWorker
<1>2. \A w \in Workers : CallOK(w)
  BY Zenon DEF Init, IdleWorker, CallOK
<1>3. CASE InitEmpty
  <2>1. /\ mark.uid = NoUID /\ mark.endedUIDs = {} /\ mark.ended = FALSE
    BY Zenon, <1>3 DEF InitEmpty, ZeroMark
  <2>2. MarkInv
    BY Zenon, <1>0, <1>3, <2>1 DEF InitEmpty, MarkInv, NoExport
  <2>3. RecordInv
    BY Zenon, <1>3, NewVolumeStateIs DEF InitEmpty, RecordInv
  <2>4. QED BY Zenon, <1>0, <1>1, <1>2, <2>2, <2>3 DEF Core
<1>4. CASE StartReady /\ InitReady
  <2>1. PICK u \in UIDs :
           /\ pvs = persistVolumeReady(persistCreatePartial(
                        claimOperation(claimOperation(NewVolumeState(u)))))
           /\ used = {u} /\ mark = AdmittedMark(fenceToken(pvs), ZeroMark) /\ vol = u
           /\ exp = [NoExport EXCEPT !.up = TRUE]
    BY Zenon, <1>4 DEF InitReady
  <2>2. /\ pvs \in PillarVolumeState /\ pvs.uid = u /\ pvs.gen = 2 /\ pvs.phase = "Ready"
        /\ pvs.deleting = FALSE /\ pvs.pubs = {}
    BY Zenon, <1>0, <1>4, <2>1, ReadyRecordIs
  <2>3. mark.uid = u /\ mark.ended = FALSE /\ mark.endedUIDs = {}
    <3>1. ZeroMark \in fencingMark /\ ZeroMark.uid = NoUID
      BY Zenon DEF ZeroMark, fencingMark
    <3>2. fenceToken(pvs) \in Token /\ fenceToken(pvs).uid = u /\ u # NoUID
      BY Zenon, <2>2, TokenTyped
    <3>3. QED BY ONLY Zenon, <2>1, <3>1, <3>2, AdmittedMarkIs
  <2>4. MarkInv
    BY Zenon, <1>0, <2>1, <2>3 DEF MarkInv
  <2>5. RecordInv
    BY Zenon, <2>1, <2>2 DEF RecordInv, Adopted
  <2>6. QED BY Zenon, <1>0, <1>1, <1>2, <2>4, <2>5 DEF Core
<1>5. QED BY Zenon, <1>3, <1>4 DEF Init

\* Under Core nothing is orphaned.
LEMMA CoreUnorphaned ==
    ASSUME Core
    PROVE  NothingOrphaned
<1>1. MarkInv /\ RecordInv
  BY Zenon DEF Core
<1>2. ASSUME vol \in UIDs PROVE pvs.uid = vol
  BY Zenon, <1>1, <1>2 DEF MarkInv, RecordInv, Retired
<1>3. QED BY Zenon, <1>1, <1>2 DEF NothingOrphaned, MarkInv
=============================================================================
