------------------------ MODULE VolumeSafety_proofs -------------------------
(***************************************************************************)
(* Types of VolumeControl and what it promises, for every value of the     *)
(* constants: the invariants of the modules below are inductive together.  *)
(***************************************************************************)
EXTENDS VolumeControl_proofs, VolumeGrants_proofs

-----------------------------------------------------------------------------
(* Volumes without localAttach: the hosts the agent admits are the ones    *)
(* the record names, and a grant that was reported stays.  With            *)
(* localAttach two publishes that overlap can break this (the run          *)
(* local_attach_race), so the theorems are about the other volumes.        *)

\* The nodes whose hosts the request puts into the ACL.
AdmitsNode(r, n) ==
    \/ r.kind = "allow" /\ n = r.node
    \/ r.kind \in {"reconcile", "restore"} /\ n \in r.hosts

\* The request takes the host of a node out, other than by teardown.
Removes(r, n) ==
    \/ r.kind = "deny" /\ n = r.node
    \/ r.kind \in {"reconcile", "restore"} /\ n \notin r.hosts

\* The mark refuses the grants of the record's lifecycle up to gen.
Refused(gen) == Retired(pvs.uid) \/ (mark.uid = pvs.uid /\ gen < mark.gen)

\* What the agent was told about the node since this generation holds.
Holds(n) == n \in exp.hosts /\ mark.uid = pvs.uid /\ ~mark.ended

\* A request that may still admit a host: the record names the node, or the
\* mark refuses the request.
NetRequest(r) ==
    /\ r.kind # "attach" /\ r.local = FALSE
    /\ Current(r) => \A n \in Nodes : AdmitsNode(r, n) =>
          /\ Recorded(n) \/ Refused(r.tok.gen)
          /\ r.tok.gen = pvs.gen => Standing(n)

\* A call that was answered: a denied host is out and stays out; a granted
\* one is in and no request still on its way takes it out.
NetCall(w) ==
    /\ worker[w].pc = "deny" /\ worker[w].answered /\ worker[w].tok = fenceToken(pvs) =>
          /\ worker[w].node \notin exp.hosts
          /\ Retired(pvs.uid) \/ (mark.uid = pvs.uid /\ mark.gen >= pvs.gen)
    /\ worker[w].pc = "grant" /\ w \notin voided =>
          /\ \A r \in Alive : Current(r) /\ Removes(r, worker[w].node) => r.tok.gen < worker[w].tok.gen
          /\ worker[w].answered => Holds(worker[w].node) /\ mark.gen >= worker[w].tok.gen

\* The inductive invariant about the ACL.
NetInv ==
    /\ exp.on /\ pvs.localAttachNode = NoNode
    /\ \A n \in exp.hosts : Recorded(n)
    /\ \A r \in Alive : NetRequest(r)
    /\ \A w \in Workers : NetCall(w)
    /\ \A n \in granted : /\ Holds(n)
                          /\ \A r \in Alive : Current(r) /\ Removes(r, n) => r.tok.gen < mark.gen

USE GensAssumption, NoUIDAssumption, NodesAssumption, SpecsAssumption,
    ForeignAssumption, MaxStrayAssumption, StartReadyAssumption

----------------------------------------------------------------------------
(* The record and the requests of the controllers.                         *)

\* A request from before the step does not belong to a lifecycle that just
\* began, and is not from the future of the one it belongs to.
LEMMA CurrentBefore ==
    ASSUME Core, RecordGrows, NEW r \in Alive, Current(r)'
    PROVE  /\ Current(r) /\ pvs'.uid = pvs.uid /\ pvs'.gen >= pvs.gen
           /\ r.tok.gen <= pvs.gen /\ r.tok.gen \in Nat
<1>1. RequestOK(r) /\ r.tok.gen \in Nat
  BY Zenon, AliveFits DEF Core
<1>2. pvs'.uid # NoUID /\ r.tok.uid = pvs'.uid
  BY Zenon DEF Current
<1>3. r.tok.uid \in used
  BY Zenon, <1>1, <1>2 DEF RequestOK
<1>4. pvs'.uid = pvs.uid /\ pvs'.gen >= pvs.gen
  BY Zenon, <1>2, <1>3 DEF RecordGrows
<1>5. QED BY Zenon, <1>1, <1>2, <1>4 DEF Current, RequestOK

\* What a write of the record and the request sent with it must satisfy.
LEMMA ControllerNet ==
    ASSUME Core, Core', PubInv, PubInv', NetInv, RecordGrows, UNCHANGED <<mark, exp>>,
           pvs'.localAttachNode = NoNode, pvs'.uid = pvs.uid \/ pvs.pubs = {},
           \A n \in Nodes : Recorded(n) =>
               Recorded(n)' \/ (/\ n \notin exp.hosts /\ ~Standing(n)
                                /\ Retired(pvs.uid) \/ (mark.uid = pvs.uid /\ mark.gen >= pvs.gen)),
           pvs'.gen = pvs.gen => \A n \in Nodes : Standing(n) => Standing(n)',
           \A r \in Alive' : r \in Alive \/
               /\ r.kind # "attach" /\ r.local = FALSE
               /\ Current(r)' => \A n \in Nodes : /\ AdmitsNode(r, n) => Recorded(n)' /\ Standing(n)'
                                                  /\ Removes(r, n) => ~Standing(n)',
           \A v \in Workers : \/ worker'[v] = worker[v] /\ (v \in voided => v \in voided')
                              \/ /\ worker'[v].pc \in {"grant", "deny"} => ~worker'[v].answered
                                 /\ worker'[v].pc = "grant" => worker'[v].tok.gen > pvs.gen,
           \A n \in granted' : n \in granted \/ \E v \in Workers :
               worker[v].pc = "grant" /\ worker[v].answered /\ v \notin voided /\ worker[v].node = n
    PROVE  NetInv'
<1>0. /\ pvs.gen \in Nat /\ pvs'.gen \in Nat /\ mark.gen \in Nat /\ exp.hosts \subseteq Nodes
      /\ granted' \subseteq Nodes /\ used \subseteq UIDs
  BY Zenon, RecordFields, MarkFields DEF Core, TypeInv, TypeOK
<1>1. \A n \in exp'.hosts : Recorded(n)'
  BY Zenon, <1>0 DEF NetInv
<1>2. ASSUME NEW r \in Alive' PROVE NetRequest(r)'
  <2>1. CASE r \in Alive
    <3>0. NetRequest(r)
      BY Zenon, <2>1 DEF NetInv
    <3>1. ASSUME Current(r)', NEW n \in Nodes, AdmitsNode(r, n)
          PROVE  (Recorded(n) \/ Refused(r.tok.gen))' /\ (r.tok.gen = pvs'.gen => Standing(n)')
      <4>0. /\ Current(r) /\ pvs'.uid = pvs.uid /\ pvs'.gen >= pvs.gen
            /\ r.tok.gen <= pvs.gen /\ r.tok.gen \in Nat
        BY Zenon, <2>1, <3>1, CurrentBefore
      <4>1. Recorded(n) \/ Refused(r.tok.gen)
        BY Zenon, <3>0, <3>1, <4>0 DEF NetRequest
      <4>2. r.tok.gen = pvs.gen => Standing(n)
        BY Zenon, <3>0, <3>1, <4>0 DEF NetRequest
      <4>3. Recorded(n)' \/ Retired(pvs.uid) \/ (mark.uid = pvs.uid /\ r.tok.gen < mark.gen)
        BY <1>0, <4>0, <4>1, <4>2 DEF Refused
      <4>4. QED BY <1>0, <4>0, <4>2, <4>3 DEF Refused, Retired
    <3>2. QED BY Zenon, <3>0, <3>1 DEF NetRequest, AdmitsNode, Refused, Retired, Recorded, Standing, Current
  <2>2. CASE r \notin Alive
    BY <1>2, <2>2 DEF NetRequest, AdmitsNode, Refused, Retired, Recorded, Standing, Current
  <2>3. QED BY Zenon, <2>1, <2>2
<1>3. ASSUME NEW n \in Nodes, Standing(n)', NEW r \in Alive', Current(r)', Removes(r, n)
      PROVE  r \in Alive /\ Current(r) /\ r.tok.gen <= pvs.gen /\ r.tok.gen \in Nat
  BY Zenon, <1>3, CurrentBefore
<1>4. ASSUME NEW v \in Workers PROVE NetCall(v)'
  <2>0. PubCall(v)' /\ WellFormed(worker'[v])
    BY Zenon DEF PubInv, Core, TypeInv
  <2>1. CASE worker'[v] = worker[v] /\ (v \in voided => v \in voided')
    <3>0. NetCall(v)
      BY Zenon DEF NetInv
    <3>1. ASSUME worker[v].pc = "deny", worker[v].answered, worker[v].tok = fenceToken(pvs')
          PROVE  /\ worker[v].node \notin exp.hosts /\ pvs'.gen = pvs.gen /\ pvs'.uid = pvs.uid
                 /\ Retired(pvs.uid) \/ (mark.uid = pvs.uid /\ mark.gen >= pvs.gen)
      <4>1. worker[v].tok.uid = pvs'.uid /\ worker[v].tok.gen = pvs'.gen /\ worker[v].tok.uid \in used
        BY <3>1, DenyPast DEF fenceToken
      <4>2. pvs'.uid = pvs.uid /\ pvs'.gen >= pvs.gen
        BY Zenon, <1>0, <4>1 DEF RecordGrows
      <4>3. pvs'.gen = pvs.gen
        BY <1>0, <3>1, <4>1, <4>2, DenyPast
      <4>4. worker[v].tok = fenceToken(pvs)
        BY Zenon, <3>1, <4>2, <4>3 DEF fenceToken
      <4>5. QED BY Zenon, <3>0, <3>1, <4>2, <4>3, <4>4 DEF NetCall
    <3>2. ASSUME worker[v].pc = "grant", v \notin voided'
          PROVE  /\ \A r \in Alive' : Current(r)' /\ Removes(r, worker[v].node) =>
                                         r.tok.gen < worker[v].tok.gen
                 /\ worker[v].answered => Holds(worker[v].node)' /\ mark.gen >= worker[v].tok.gen
      <4>1. /\ worker[v].node \in Nodes /\ worker[v].tok.uid = pvs'.uid
            /\ \E p \in pvs'.pubs : p.node = worker[v].node /\ ~p.revoking
        BY Zenon, <2>0, <2>1, <3>2 DEF PubCall, WellFormed, Publishes, Standing
      <4>2. PICK n \in Nodes : n = worker[v].node
        BY Zenon, <4>1
      <4>3. Standing(n)'
        BY Zenon, <4>1, <4>2 DEF Standing
      <4>4. \A r \in Alive' : Current(r)' /\ Removes(r, n) => r \in Alive /\ Current(r)
        BY Zenon, <1>3, <4>3
      <4>5. pvs'.uid = pvs.uid
        BY Zenon, <2>1, <3>2, <4>1 DEF PubInv, PubCall, Publishes
      <4>6. v \notin voided
        BY Zenon, <2>1, <3>2
      <4>7. /\ \A r \in Alive : Current(r) /\ Removes(r, n) => r.tok.gen < worker[v].tok.gen
            /\ worker[v].answered => Holds(n) /\ mark.gen >= worker[v].tok.gen
        BY Zenon, <3>0, <3>2, <4>2, <4>6 DEF NetCall
      <4>8. QED BY Zenon, <2>1, <4>2, <4>4, <4>5, <4>7 DEF Holds
    <3>3. QED BY Zenon, <2>1, <3>1, <3>2 DEF NetCall, Retired, Holds, Current, Removes
  <2>2. CASE /\ worker'[v].pc \in {"grant", "deny"} => ~worker'[v].answered
             /\ worker'[v].pc = "grant" => worker'[v].tok.gen > pvs.gen
    <3>1. ASSUME worker'[v].pc = "grant", v \notin voided'
          PROVE  \A r \in Alive' : Current(r)' /\ Removes(r, worker'[v].node) =>
                                         r.tok.gen < worker'[v].tok.gen
      <4>0. worker'[v].tok.gen \in Nat
        <5>1. TypeInv'
          BY Zenon DEF Core
        <5>2. worker'[v].tok \in Token
          BY <5>1 DEF TypeInv, TypeOK
        <5>3. QED BY Zenon, <5>2 DEF Token
      <4>1. /\ worker'[v].node \in Nodes
            /\ \E p \in pvs'.pubs : p.node = worker'[v].node /\ ~p.revoking
        BY Zenon, <2>0, <3>1 DEF PubCall, WellFormed, Publishes, Standing
      <4>2. PICK n \in Nodes : n = worker'[v].node
        BY Zenon, <4>1
      <4>3. Standing(n)'
        BY Zenon, <4>1, <4>2 DEF Standing
      <4>4. \A r \in Alive' : Current(r)' /\ Removes(r, n) => r.tok.gen <= pvs.gen /\ r.tok.gen \in Nat
        BY Zenon, <1>3, <4>3
      <4>5. QED BY <1>0, <2>2, <3>1, <4>0, <4>2, <4>4
    <3>2. QED BY Zenon, <2>2, <3>1 DEF NetCall, Current, Removes
  <2>3. QED BY Zenon, <2>1, <2>2
<1>5. ASSUME NEW n \in granted'
      PROVE  Holds(n)' /\ \A r \in Alive' : Current(r)' /\ Removes(r, n) => r.tok.gen < mark.gen
  <2>0. n \in Nodes /\ Standing(n)'
    BY Zenon, <1>0, <1>5 DEF PubInv
  <2>1. CASE n \in granted
    <3>1. Holds(n) /\ \A r \in Alive : Current(r) /\ Removes(r, n) => r.tok.gen < mark.gen
      BY Zenon, <2>1 DEF NetInv
    <3>2. Standing(n)
      BY Zenon, <2>1 DEF PubInv
    <3>3. pvs'.uid = pvs.uid
      BY Zenon, <3>2 DEF Standing
    <3>4. QED BY Zenon, <1>3, <2>0, <3>1, <3>3 DEF Holds
  <2>2. CASE n \notin granted
    <3>1. PICK v \in Workers : worker[v].pc = "grant" /\ worker[v].answered
                               /\ v \notin voided /\ worker[v].node = n
      BY Zenon, <1>5, <2>2
    <3>2. NetCall(v) /\ PubCall(v) /\ worker[v].tok.gen \in Nat
      BY Zenon DEF NetInv, PubInv, Core, TypeInv, TypeOK, Token
    <3>3. pvs'.uid = pvs.uid
      BY Zenon, <3>1, <3>2 DEF PubCall, Publishes, Standing
    <3>4. /\ Holds(n) /\ mark.gen >= worker[v].tok.gen
          /\ \A r \in Alive : Current(r) /\ Removes(r, n) => r.tok.gen < worker[v].tok.gen
      BY Zenon, <3>1, <3>2 DEF NetCall
    <3>5. ASSUME NEW r \in Alive', Current(r)', Removes(r, n) PROVE r.tok.gen < mark.gen
      <4>1. r \in Alive /\ Current(r) /\ r.tok.gen \in Nat
        BY Zenon, <1>3, <2>0, <3>5
      <4>2. QED BY <1>0, <3>2, <3>4, <3>5, <4>1
    <3>6. QED BY Zenon, <3>3, <3>4, <3>5 DEF Holds
  <2>3. QED BY Zenon, <2>1, <2>2
<1>6. QED BY Zenon, <1>1, <1>2, <1>4, <1>5 DEF NetInv, Holds, Current, Removes

\* CreateVolume, DeleteVolume and the reaper keep NetInv.
LEMMA LifecycleNet ==
    ASSUME Core, Core', PubInv, PubInv', NetInv, NEW w \in Workers,
           LifecycleMove(w), Undisturbed, RecordGrows, UNCHANGED <<agent, granted, voided>>
    PROVE  NetInv'
<1>1. UNCHANGED <<mark, exp, granted, voided>>
  BY Zenon DEF agent
<1>2. pvs'.localAttachNode = NoNode /\ (pvs'.uid = pvs.uid \/ pvs.pubs = {})
  BY Zenon DEF Undisturbed, NetInv
<1>3. \A n \in Nodes : (Recorded(n) => Recorded(n)') /\ (Standing(n) => Standing(n)')
  BY Zenon DEF Undisturbed, Recorded, Standing
<1>4. ASSUME NEW r \in Alive'
      PROVE  r \in Alive \/ /\ r.kind # "attach" /\ r.local = FALSE
                            /\ \A n \in Nodes : ~AdmitsNode(r, n) /\ ~Removes(r, n)
  BY Zenon DEF LifecycleMove, LifecycleKinds, AdmitsNode, Removes
<1>5. \A v \in Workers : worker'[v] = worker[v] \/ worker'[v].pc \notin {"grant", "deny"}
  BY Zenon DEF LifecycleMove, Publishes
<1>6. QED BY Zenon, <1>1, <1>2, <1>3, <1>4, <1>5, ControllerNet

\* A call of a volume without localAttach never waits for SetLocalAttach.
LEMMA NeverAttaches ==
    ASSUME TypeInv, NetInv, NEW w \in Workers
    PROVE  worker[w].pc \notin {"local", "enable", "reenable"}
<1>1. SUFFICES ASSUME worker[w].pc \in {"local", "enable", "reenable"} PROVE FALSE
  BY Zenon
<1>2. worker[w].req \in Alive /\ worker[w].req.kind = "attach"
  BY Zenon, <1>1, AliveHeld, KindOfIs DEF Waits
<1>3. QED BY Zenon, <1>2 DEF NetInv, NetRequest

\* ControllerPublishVolume keeps NetInv.
LEMMA PublishNet ==
    ASSUME Core, Core', PubInv, PubInv', NetInv, ~LocalAttach, NEW w \in Workers, PublishStep(w)
    PROVE  NetInv'
<1>0. /\ pvs \in PillarVolumeState /\ spec \in VolumeSpec /\ TypeInv /\ RecordInv /\ pvs.gen \in Nat
      /\ pvs.localAttachNode = NoNode
  BY Zenon, CoreTypes DEF NetInv
<1>1. ASSUME NEW n \in Nodes, BeginPublish(w, n) PROVE NetInv'
  <2>1. Becomes(w, "reserve", [uid |-> pvs.uid, gen |-> 0], n, NoRequest, FALSE)
    BY Zenon, <1>0, <1>1, BeginPublishEffect
  <2>2. /\ UNCHANGED <<spec, pvs, used, stray, mark, exp, granted>> /\ voided' = voided \ {w}
    BY Zenon, <1>1 DEF BeginPublish, object, agent
  <2>3. RecordGrows
    BY <1>0, <2>2 DEF RecordGrows
  <2>4. Alive' \subseteq Alive
    BY Zenon, <2>1, <2>2 DEF Becomes, Alive
  <2>5. QED BY Zenon, <1>0, <2>1, <2>2, <2>3, <2>4, ControllerNet DEF Becomes, Standing, Recorded
<1>2. CASE ReservePublication(w)
  <2>1. /\ worker[w].node \in Nodes /\ pvs'.gen = pvs.gen + 1 /\ pvs'.uid = pvs.uid
        /\ pvs'.deleting = pvs.deleting
        /\ pvs'.pubs = pvs.pubs \cup {Publication(worker[w].node)} /\ spec' = spec /\ used' = used
        /\ pvs'.localAttachNode = pvs.localAttachNode
    BY Zenon, <1>0, <1>2, ReserveEffect
  <2>2. PICK q \in Request :
           /\ Becomes(w, "grant", fenceToken(pvs'), worker[w].node, q, FALSE)
           /\ q.kind = "allow" /\ q.local = FALSE /\ q.node = worker[w].node
    BY Zenon, <1>0, <1>2, ReserveEffect
  <2>3. UNCHANGED <<granted, voided, stray, mark, exp>>
    BY Zenon, <1>2 DEF ReservePublication, history, agent
  <2>4. /\ Publication(worker[w].node).node = worker[w].node
        /\ ~Publication(worker[w].node).revoking /\ ~Publication(worker[w].node).local
    BY Zenon, <1>0, <2>1, PublicationIs DEF isLocalAttachPublish
  <2>5. /\ \A n \in Nodes : (Standing(n) => Standing(n)') /\ (Recorded(n) => Recorded(n)')
        /\ \A n \in Nodes : n = q.node => Standing(n)' /\ Recorded(n)'
    BY Zenon, <2>1, <2>2, <2>4 DEF Standing, Recorded
  <2>6. Alive' \subseteq Alive \cup {q}
    BY Zenon, <2>2, <2>3 DEF Becomes, Alive
  <2>7. \A n \in Nodes : ~Removes(q, n) /\ (AdmitsNode(q, n) => n = q.node)
    BY Zenon, <2>2 DEF Removes, AdmitsNode
  <2>8. RecordGrows
    BY <1>0, <2>1 DEF RecordGrows
  <2>9. worker'[w].answered = FALSE /\ worker'[w].tok.gen > pvs.gen
        /\ \A v \in Workers \ {w} : worker'[v] = worker[v]
    BY <1>0, <2>1, <2>2 DEF Becomes, fenceToken
  <2>10. QED BY Zenon, <1>0, <2>1, <2>2, <2>3, <2>5, <2>6, <2>7, <2>8, <2>9, ControllerNet
<1>3. CASE ClearLocalAttach(w) \/ GrantPublication(w)
  BY Zenon, <1>0, <1>3, NeverAttaches DEF ClearLocalAttach, GrantPublication, Answered
<1>4. CASE FinishPublish(w)
  <2>1. /\ worker[w].pc = "grant" /\ worker[w].answered
        /\ UNCHANGED <<spec, pvs, used, voided, stray, mark, exp>>
        /\ granted' = IF w \in voided THEN granted ELSE granted \cup {worker[w].node}
    BY Zenon, <1>0, <1>4, NeverAttaches DEF FinishPublish, Answered, object, agent
  <2>2. Becomes(w, "idle", NoToken, NoNode, NoRequest, FALSE)
    BY Zenon, <1>0, <1>4, ReturnEffect DEF FinishPublish
  <2>3. Alive' \subseteq Alive
    BY Zenon, <2>1, <2>2 DEF Becomes, Alive
  <2>4. RecordGrows
    BY <1>0, <2>1 DEF RecordGrows
  <2>5. \A n \in granted' : n \in granted \/ (w \notin voided /\ worker[w].node = n)
    BY Zenon, <2>1
  <2>6. QED BY Zenon, <1>0, <2>1, <2>2, <2>3, <2>4, <2>5, ControllerNet DEF Becomes, Standing, Recorded
<1>5. QED BY Zenon, <1>1, <1>2, <1>3, <1>4 DEF PublishStep

\* ControllerUnpublishVolume keeps NetInv.
LEMMA UnpublishNet ==
    ASSUME Core, Core', PubInv, PubInv', NetInv, ~LocalAttach, NEW w \in Workers, UnpublishStep(w)
    PROVE  NetInv'
<1>0. /\ pvs \in PillarVolumeState /\ spec \in VolumeSpec /\ TypeInv /\ RecordInv /\ pvs.gen \in Nat
      /\ WellFormed(worker[w]) /\ pvs.localAttachNode = NoNode
  BY Zenon, CoreTypes DEF NetInv
<1>1. ASSUME NEW n \in Nodes, FencePublications(w, n) PROVE NetInv'
  <2>1. /\ pvs'.gen = pvs.gen + 1 /\ pvs'.uid = pvs.uid /\ pvs'.pubs = Revoke(pvs, n)
        /\ pvs'.deleting = pvs.deleting /\ pvs'.localAttachNode = pvs.localAttachNode
        /\ spec' = spec /\ used' = used
    BY Zenon, <1>0, <1>1, FenceIs DEF FencePublications
  <2>2. PICK q \in Request :
           /\ Becomes(w, "deny", fenceToken(pvs'), n, q, isLocalAttachPublish(n))
           /\ q.kind = "deny" /\ q.node = n /\ q.local = FALSE
    BY Zenon, <1>0, <1>1, FencePublicationsEffect
  <2>3. /\ granted' = granted \ {n} /\ voided' = voided \cup {v \in Workers : worker[v].node = n}
        /\ UNCHANGED <<stray, mark, exp>>
    BY Zenon, <1>1 DEF FencePublications, agent
  <2>4. /\ \A p \in pvs'.pubs : p.node = n => p.revoking
        /\ \A p \in pvs.pubs : \E p2 \in pvs'.pubs : p2.node = p.node /\ p2.local = p.local
    BY <1>0, <2>1, RevokeIs
  <2>5. \A m \in Nodes : Recorded(m) => Recorded(m)'
    BY <2>4 DEF Recorded
  <2>6. \A m \in Nodes : ~AdmitsNode(q, m) /\ (Removes(q, m) => ~Standing(m)')
    BY Zenon, <2>2, <2>4 DEF AdmitsNode, Removes, Standing
  <2>7. Alive' \subseteq Alive \cup {q}
    BY Zenon, <2>2, <2>3 DEF Becomes, Alive
  <2>8. RecordGrows
    BY <1>0, <2>1 DEF RecordGrows
  <2>9. worker'[w].pc = "deny" /\ ~worker'[w].answered /\ \A v \in Workers \ {w} : worker'[v] = worker[v]
    BY Zenon, <2>2 DEF Becomes, isLocalAttachPublish
  <2>10. \A r \in Alive' : r \in Alive \/
            /\ r.kind # "attach" /\ r.local = FALSE
            /\ Current(r)' => \A m \in Nodes : /\ AdmitsNode(r, m) => Recorded(m)' /\ Standing(m)'
                                               /\ Removes(r, m) => ~Standing(m)'
    BY Zenon, <2>2, <2>6, <2>7
  <2>11. \A v \in Workers : \/ worker'[v] = worker[v] /\ (v \in voided => v \in voided')
                            \/ /\ worker'[v].pc \in {"grant", "deny"} => ~worker'[v].answered
                               /\ worker'[v].pc = "grant" => worker'[v].tok.gen > pvs.gen
    BY Zenon, <2>3, <2>9
  <2>12. pvs'.gen # pvs.gen /\ granted' \subseteq granted
    BY <1>0, <2>1, <2>3
  <2>13. QED BY Zenon, <1>0, <2>1, <2>3, <2>5, <2>8, <2>10, <2>11, <2>12, ControllerNet
<1>2. CASE ReleasePublication(w)
  <2>0. /\ worker[w].pc = "deny" /\ worker[w].answered /\ worker[w].node \in Nodes
        /\ worker[w].tok \in Token /\ worker[w].tok.uid = pvs.uid /\ worker[w].tok.gen = pvs.gen
        /\ UNCHANGED <<granted, voided, stray, mark, exp>>
    BY Zenon, <1>0, <1>2, CoreTypes
    DEF ReleasePublication, Answered, WellFormed, CanRelease, Pinned, history, agent
  <2>1. /\ pvs'.gen = pvs.gen + 1 /\ pvs'.uid = pvs.uid /\ spec' = spec /\ used' = used
        /\ pvs'.pubs = {p \in pvs.pubs : p.node # worker[w].node}
        /\ pvs'.deleting = pvs.deleting /\ pvs'.localAttachNode = pvs.localAttachNode
    BY Zenon, <1>0, <1>2, <2>0, ReleaseIs DEF ReleasePublication
  <2>2. Becomes(w, "idle", NoToken, NoNode, NoRequest, FALSE)
    BY Zenon, <1>0, <1>2, ReturnEffect DEF ReleasePublication
  <2>3. worker[w].tok = fenceToken(pvs)
    BY Zenon, <2>0 DEF Token, fenceToken
  <2>4. ~Standing(worker[w].node)
    BY Zenon, <2>0, <2>3 DEF PubInv, PubCall
  <2>5. /\ worker[w].node \notin exp.hosts
        /\ Retired(pvs.uid) \/ (mark.uid = pvs.uid /\ mark.gen >= pvs.gen)
    BY Zenon, <2>0, <2>3 DEF NetInv, NetCall
  <2>6. \A m \in Nodes : m # worker[w].node => (Recorded(m) => Recorded(m)')
    BY Zenon, <2>1 DEF Recorded
  <2>7. Alive' \subseteq Alive
    BY <2>0, <2>2 DEF Becomes, Alive
  <2>8. RecordGrows
    BY <1>0, <2>1 DEF RecordGrows
  <2>9. worker'[w].pc = "idle" /\ \A v \in Workers \ {w} : worker'[v] = worker[v]
    BY Zenon, <2>2 DEF Becomes
  <2>10. \A n \in Nodes : Recorded(n) =>
             Recorded(n)' \/ (/\ n \notin exp.hosts /\ ~Standing(n)
                              /\ Retired(pvs.uid) \/ (mark.uid = pvs.uid /\ mark.gen >= pvs.gen))
    BY Zenon, <2>4, <2>5, <2>6
  <2>11. \A v \in Workers : \/ worker'[v] = worker[v] /\ (v \in voided => v \in voided')
                            \/ /\ worker'[v].pc \in {"grant", "deny"} => ~worker'[v].answered
                               /\ worker'[v].pc = "grant" => worker'[v].tok.gen > pvs.gen
    BY Zenon, <2>0, <2>9
  <2>12. pvs'.gen # pvs.gen
    BY <1>0, <2>1
  <2>13. QED BY Zenon, <1>0, <2>0, <2>1, <2>7, <2>8, <2>10, <2>11, <2>12, ControllerNet
<1>3. QED BY Zenon, <1>1, <1>2 DEF UnpublishStep

\* A call that is given up keeps NetInv.
LEMMA AbandonNet ==
    ASSUME Core, Core', PubInv, PubInv', NetInv, NEW w \in Workers, Abandon(w)
    PROVE  NetInv'
<1>1. UNCHANGED <<spec, pvs, used, mark, exp, granted, voided>> /\ pvs.gen \in Nat
  BY Zenon, CoreTypes DEF Abandon, object, agent, history
<1>2. Becomes(w, "idle", NoToken, NoNode, NoRequest, FALSE)
  BY Zenon, ReturnEffect DEF Abandon, Core
<1>3. Alive' \subseteq Alive
  BY Zenon, <1>2 DEF Becomes, Alive, Abandon, Leave, Waiting
<1>4. RecordGrows
  BY <1>1 DEF RecordGrows
<1>5. QED BY Zenon, <1>1, <1>2, <1>3, <1>4, ControllerNet DEF Becomes, Standing, Recorded, NetInv

\* A resync sends exactly the hosts whose publications stand.
LEMMA ResyncNet ==
    ASSUME Core, Core', PubInv, PubInv', NetInv, ~LocalAttach, ReconcileVolumeExport \/ RestoreAgentExports
    PROVE  NetInv'
<1>0. /\ pvs \in PillarVolumeState /\ RecordInv /\ pvs.gen \in Nat /\ pvs.localAttachNode = NoNode
      /\ pvs.pubs \subseteq VolumePublication
      /\ UNCHANGED <<spec, pvs, used, worker, mark, exp, granted, voided>>
  BY Zenon, RecordFields
  DEF Core, TypeInv, TypeOK, NetInv, ReconcileVolumeExport, RestoreAgentExports, object, agent, history
<1>1. \A n \in Nodes : n \in DesiredHosts(pvs) <=> Standing(n)
  <2>1. \A p \in pvs.pubs : ~p.local
    BY Zenon, <1>0 DEF RecordInv, isLocalAttachPublish
  <2>2. QED BY Zenon, <2>1 DEF DesiredHosts, Standing
<1>2. \A n \in Nodes : Standing(n) => Recorded(n)
  BY Zenon, <1>0 DEF RecordInv, isLocalAttachPublish, Standing, Recorded
<1>3. \A kind \in {"reconcile", "restore"} :
         /\ Desired(kind).kind = kind /\ Desired(kind).hosts = DesiredHosts(pvs)
         /\ Desired(kind).local = FALSE
  BY Zenon, <1>0, DesiredIs DEF DesiredLocal
<1>4. /\ NewRequest("restore", NoToken).kind = "restore" /\ NewRequest("restore", NoToken).local = FALSE
      /\ NewRequest("restore", NoToken).tok.uid = NoUID
  BY Zenon DEF NewRequest, NoToken
<1>5. PICK q : /\ stray' = stray \cup {q} /\ q.kind \in {"reconcile", "restore"} /\ q.local = FALSE
               /\ q.hosts = DesiredHosts(pvs) \/ q.tok.uid = NoUID
  BY Zenon, <1>3, <1>4 DEF ReconcileVolumeExport, RestoreAgentExports, Leave
<1>6. Alive' \subseteq Alive \cup {q}
  BY Zenon, <1>0, <1>5 DEF Alive
<1>7. Current(q)' => \A n \in Nodes : /\ AdmitsNode(q, n) => Recorded(n)' /\ Standing(n)'
                                      /\ Removes(q, n) => ~Standing(n)'
  BY Zenon, <1>0, <1>1, <1>2, <1>5 DEF Current, AdmitsNode, Removes, Recorded, Standing
<1>8. RecordGrows
  BY <1>0 DEF RecordGrows
<1>9. \A n \in Nodes : (Standing(n) => Standing(n)') /\ (Recorded(n) => Recorded(n)')
  BY Zenon, <1>0 DEF Standing, Recorded
<1>10. QED BY Zenon, <1>0, <1>5, <1>6, <1>7, <1>8, <1>9, ControllerNet

----------------------------------------------------------------------------
(* The agent serves requests, late or repeated.                            *)

\* The ACL after a mutation, by the kind of the request.
LEMMA MutateHosts ==
    ASSUME NEW r, Mutate(r), exp \in [up : BOOLEAN, hosts : SUBSET Nodes, on : BOOLEAN]
    PROVE  /\ r.kind \in {"create", "export", "delete", "attach"} => exp'.hosts = exp.hosts
           /\ r.kind = "unexport" => exp'.hosts = {}
           /\ r.kind = "allow" => exp'.hosts = exp.hosts \cup {r.node}
           /\ r.kind = "deny" => exp'.hosts = exp.hosts \ {r.node}
           /\ r.kind \in {"reconcile", "restore"} => exp'.hosts = r.hosts
           /\ exp.on /\ r.kind # "attach" /\ r.local = FALSE => exp'.on
           /\ r.kind \in Kinds \ {"release"}
<1>1. r.kind \in {"create", "export", "delete", "attach"} => exp'.hosts = exp.hosts
  <2>1. r.kind \in {"create", "delete"} => exp' = exp
    BY Zenon DEF Mutate
  <2>2. r.kind = "export" => exp'.hosts = exp.hosts
    BY Zenon DEF Mutate
  <2>3. r.kind = "attach" => exp'.hosts = exp.hosts
    <3>1. r.kind = "attach" => exp' = [exp EXCEPT !.on = ~r.local]
      BY Zenon DEF Mutate
    <3>2. QED BY Zenon, <3>1
  <2>4. QED BY Zenon, <2>1, <2>2, <2>3
<1>2. r.kind = "unexport" => exp'.hosts = {}
  BY DEF Mutate, NoExport
<1>3. /\ r.kind = "allow" => exp'.hosts = exp.hosts \cup {r.node}
      /\ r.kind = "deny" => exp'.hosts = exp.hosts \ {r.node}
  BY Zenon DEF Mutate
<1>4. r.kind \in {"reconcile", "restore"} => exp'.hosts = r.hosts
  BY DEF Mutate, Reconciled
<1>5. ASSUME exp.on, r.kind # "attach", r.local = FALSE PROVE exp'.on
  <2>1. r.kind \in {"create", "delete"} => exp' = exp
    BY Zenon DEF Mutate
  <2>2. r.kind \in {"export", "unexport", "allow", "deny"} => exp'.on
    <3>1. r.kind \in {"allow", "deny"} => exp'.on = exp.on
      BY Zenon DEF Mutate
    <3>2. r.kind = "export" => exp'.on = TRUE
      BY Zenon DEF Mutate
    <3>3. r.kind = "unexport" => exp'.on = TRUE
      BY DEF Mutate, NoExport
    <3>4. QED BY Zenon, <1>5, <3>1, <3>2, <3>3
  <2>3. r.kind \in {"reconcile", "restore"} => exp'.on = ~r.local
    BY DEF Mutate, Reconciled
  <2>4. r.kind \in {"create", "delete", "export", "unexport", "allow", "deny", "reconcile", "restore"}
    BY Zenon, <1>5 DEF Mutate
  <2>5. QED BY Zenon, <1>5, <2>1, <2>2, <2>3, <2>4
<1>6. r.kind \in Kinds \ {"release"}
  BY Zenon DEF Mutate, Kinds
<1>7. QED BY Zenon, <1>1, <1>2, <1>3, <1>4, <1>5, <1>6

\* A host enters the ACL only for a standing lifecycle, by a request that
\* is not older than the mark.
LEMMA HostsGrow ==
    ASSUME Core, NetInv, NEW r \in Alive, AgentActs(r), NEW n \in Nodes, n \in exp'.hosts, n \notin exp.hosts
    PROVE  /\ AdmitsNode(r, n) /\ Current(r) /\ ~Retired(pvs.uid)
           /\ mark.uid = pvs.uid => r.tok.gen >= mark.gen
<1>0. /\ r.tok \in Token /\ mark \in fencingMark /\ MarkInv /\ RecordInv /\ RequestOK(r)
      /\ exp \in [up : BOOLEAN, hosts : SUBSET Nodes, on : BOOLEAN] /\ used \subseteq UIDs
      /\ r.kind # "attach"
  BY Zenon, AliveFits DEF Core, TypeInv, TypeOK, NetInv, NetRequest
<1>1. Apply(r) /\ r.kind \in {"allow", "reconcile", "restore"} /\ AdmitsNode(r, n)
  <2>1. CASE Apply(r)
    BY Zenon, <1>0, <2>1, MutateHosts DEF Apply, AdmitsNode, Kinds
  <2>2. CASE ReleaseVolume(r) \/ Fail(r)
    BY <2>2 DEF ReleaseVolume, Fail, NoExport
  <2>3. QED BY Zenon, <2>1, <2>2 DEF AgentActs
<1>2. Admits(r.tok, "grant", mark)
  BY Zenon, <1>1, ClassIs DEF Apply, Admitted
<1>3. /\ r.tok.uid # NoUID /\ ~Retired(r.tok.uid)
      /\ mark.uid = r.tok.uid => r.tok.gen >= mark.gen
  BY Zenon, <1>0, <1>2, AdmittedGrant
<1>4. r.tok.uid = pvs.uid
  BY Zenon, <1>0, <1>3 DEF RequestOK, RecordInv
<1>5. QED BY Zenon, <1>1, <1>3, <1>4 DEF Current

\* No request still under way takes the host of a standing grant away.
LEMMA HoldsStays ==
    ASSUME Core, PubInv, NetInv, NEW r \in Alive, AgentActs(r), NEW n \in Nodes, Standing(n), Holds(n),
           Current(r) /\ Removes(r, n) => r.tok.gen < mark.gen
    PROVE  n \in exp'.hosts /\ mark'.uid = pvs.uid /\ ~mark'.ended
<1>0. /\ r.tok \in Token /\ r.tok.gen \in Nat /\ mark \in fencingMark /\ MarkInv /\ RecordInv /\ RequestOK(r)
      /\ exp \in [up : BOOLEAN, hosts : SUBSET Nodes, on : BOOLEAN] /\ used \subseteq UIDs
      /\ mark.gen \in Nat /\ r.kind \in Kinds
  BY Zenon, AliveFits, MarkFields DEF Core, TypeInv, TypeOK, Request
<1>1. /\ pvs.uid # NoUID /\ ~pvs.deleting /\ mark.uid = pvs.uid /\ ~mark.ended /\ n \in exp.hosts
  BY Zenon, <1>0, NewVolumeStateIs DEF RecordInv, Standing, Holds
<1>2. ASSUME Admitted(r)
      PROVE  Current(r) /\ r.kind \notin Teardown /\ ~Removes(r, n)
  <2>1. r.tok.uid = mark.uid /\ r.tok.gen >= mark.gen
    BY Zenon, <1>0, <1>1, <1>2, AdmittedAny DEF Admitted
  <2>2. QED BY <1>0, <1>1, <2>1 DEF Current, RequestOK
<1>3. n \in exp'.hosts
  <2>1. CASE Apply(r)
    <3>1. r.kind \notin Teardown /\ ~Removes(r, n) /\ Mutate(r)
      BY Zenon, <1>2, <2>1 DEF Apply
    <3>2. QED BY Zenon, <1>0, <1>1, <3>1, MutateHosts DEF Removes, Teardown, Kinds
  <2>2. CASE ReleaseVolume(r)
    BY Zenon, <1>1, <1>2, <2>2 DEF ReleaseVolume, Teardown
  <2>3. CASE Fail(r)
    BY Zenon, <1>1, <2>3 DEF Fail
  <2>4. QED BY Zenon, <2>1, <2>2, <2>3 DEF AgentActs
<1>4. mark'.uid = mark.uid
  BY Zenon, <1>0, <1>1, MarkMoves
<1>5. ~mark'.ended
  <2>1. CASE mark' = mark
    BY Zenon, <1>1, <2>1
  <2>2. CASE Admitted(r) /\ mark' = AdmittedMark(r.tok, mark)
    <3>1. r.tok.uid = mark.uid /\ r.tok.uid # NoUID
      BY Zenon, <1>1, <1>2, <2>2 DEF Current
    <3>2. mark'.ended = mark.ended
      BY ONLY Zenon, <1>0, <2>2, <3>1, AdmittedMarkIs
    <3>3. QED BY Zenon, <1>1, <3>2
  <2>3. CASE r.kind = "release" /\ mark' = RetireDisowned(r.tok, mark)
    <3>1. r.tok.uid # NoUID /\ mark.uid # NoUID
      BY Zenon, <1>1, <2>3, AliveFits DEF Addressed, Core
    <3>2. mark'.ended = mark.ended
      BY ONLY Zenon, <1>0, <2>3, <3>1, RetireDisownedIs
    <3>3. QED BY Zenon, <1>1, <3>2
  <2>4. QED BY Zenon, <1>2, <2>1, <2>2, <2>3, MarkAfter DEF Teardown
<1>6. QED BY Zenon, <1>1, <1>3, <1>4, <1>5

\* The mark goes on refusing what it refused.
LEMMA RefusedStays ==
    ASSUME Core, NEW r \in Alive, AgentActs(r), UNCHANGED object, pvs.uid # NoUID, NEW gen \in Nat
    PROVE  /\ Refused(gen) => Refused(gen)'
           /\ Retired(pvs.uid) \/ (mark.uid = pvs.uid /\ mark.gen >= gen) =>
                 (Retired(pvs.uid) \/ (mark.uid = pvs.uid /\ mark.gen >= gen))'
<1>0. /\ mark \in fencingMark /\ mark.gen \in Nat /\ MarkInv /\ pvs.uid \in UIDs \cup {NoUID} /\ pvs' = pvs
  BY Zenon, MarkFields, RecordFields DEF Core, TypeInv, TypeOK, object
<1>1. mark'.gen \in Nat
  BY Zenon, MarkMoves, MarkFields
<1>2. Retired(pvs.uid) => Retired(pvs.uid)'
  <2>1. PICK u \in UIDs : u = pvs.uid
    BY Zenon, <1>0
  <2>2. Retired(u) => Retired(u)'
    BY Zenon, RetiredStays
  <2>3. QED BY Zenon, <1>0, <2>1, <2>2 DEF Retired
<1>3. mark.uid = pvs.uid => Retired(pvs.uid)' \/ (mark'.uid = pvs.uid /\ mark'.gen >= mark.gen)
  BY Zenon, <1>0, MarkMoves DEF Retired
<1>4. QED BY <1>0, <1>1, <1>2, <1>3 DEF Refused

\* What the agent does with a request keeps NetInv.
LEMMA ServedNet ==
    ASSUME Core, Core', PubInv, PubInv', NetInv, NEW r \in Alive, AgentActs(r),
           UNCHANGED <<object, granted, voided>>, Alive' \subseteq Alive,
           \A v \in Workers : \/ worker'[v] = worker[v] \/ worker'[v].pc \notin {"grant", "deny"}
                              \/ NetCall(v)'
    PROVE  NetInv'
<1>0. /\ pvs' = pvs /\ spec' = spec /\ mark.gen \in Nat /\ mark'.gen \in Nat /\ pvs.gen \in Nat
      /\ exp \in [up : BOOLEAN, hosts : SUBSET Nodes, on : BOOLEAN] /\ exp'.hosts \subseteq Nodes
      /\ granted \subseteq Nodes
      /\ mark.uid # NoUID /\ ~mark.ended => mark'.uid = mark.uid /\ mark'.gen >= mark.gen
  BY Zenon, MarkMoves, MarkFields, RecordFields DEF Core, TypeInv, TypeOK, object
<1>1. exp'.on
  <2>1. exp.on /\ r.kind # "attach" /\ r.local = FALSE
    BY Zenon DEF NetInv, NetRequest
  <2>2. Mutate(r) => exp'.on
    BY Zenon, <1>0, <2>1, MutateHosts
  <2>3. QED BY <2>1, <2>2 DEF AgentActs, Apply, ReleaseVolume, Fail, NoExport
<1>2. \A n \in Nodes : Recorded(n)' = Recorded(n) /\ Standing(n)' = Standing(n)
  BY Zenon, <1>0 DEF Recorded, Standing
<1>3. \A q \in Alive : (Current(q)' <=> Current(q)) /\ q.tok.gen \in Nat
  BY Zenon, <1>0, AliveFits DEF Current, Core
<1>4. \A n \in exp'.hosts : Recorded(n)'
  <2>1. ASSUME NEW n \in exp'.hosts, n \notin exp.hosts PROVE Recorded(n)
    <3>1. /\ AdmitsNode(r, n) /\ Current(r) /\ ~Retired(pvs.uid)
          /\ mark.uid = pvs.uid => r.tok.gen >= mark.gen
      BY Zenon, <1>0, <2>1, HostsGrow
    <3>2. NetRequest(r) /\ r.tok.gen \in Nat
      BY Zenon, <1>3 DEF NetInv
    <3>3. QED BY <1>0, <3>1, <3>2 DEF NetRequest, Refused
  <2>2. QED BY Zenon, <1>0, <1>2, <2>1 DEF NetInv
<1>5. ASSUME NEW q \in Alive' PROVE NetRequest(q)'
  <2>1. NetRequest(q) /\ q \in Alive /\ q.tok.gen \in Nat
    BY Zenon, <1>3, <1>5 DEF NetInv
  <2>2. Current(q) => (Refused(q.tok.gen) => Refused(q.tok.gen)')
    BY Zenon, <2>1, RefusedStays DEF Current
  <2>3. QED BY Zenon, <1>0, <1>2, <1>3, <2>1, <2>2 DEF NetRequest, AdmitsNode
<1>6. ASSUME NEW v \in Workers, worker'[v] = worker[v] PROVE NetCall(v)'
  <2>0. NetCall(v) /\ PubCall(v) /\ WellFormed(worker[v]) /\ worker[v].tok.gen \in Nat
    BY Zenon DEF NetInv, PubInv, Core, TypeInv, TypeOK, Token
  <2>1. ASSUME worker[v].pc = "deny", worker[v].answered, worker[v].tok = fenceToken(pvs)
        PROVE  /\ worker[v].node \notin exp'.hosts
               /\ (Retired(pvs.uid) \/ (mark.uid = pvs.uid /\ mark.gen >= pvs.gen))'
    <3>0. pvs.uid # NoUID /\ worker[v].node \in Nodes
      <4>1. worker[v].tok.uid \in used /\ worker[v].tok.uid = pvs.uid
        BY <2>1, DenyPast DEF fenceToken
      <4>2. QED BY Zenon, <2>0, <2>1, <4>1 DEF WellFormed, Core, TypeInv, TypeOK
    <3>1. /\ worker[v].node \notin exp.hosts /\ ~Standing(worker[v].node)
          /\ Retired(pvs.uid) \/ (mark.uid = pvs.uid /\ mark.gen >= pvs.gen)
      BY Zenon, <2>0, <2>1 DEF NetCall, PubCall
    <3>2. (Retired(pvs.uid) \/ (mark.uid = pvs.uid /\ mark.gen >= pvs.gen))'
      <4>1. PICK gen \in Nat : gen = pvs.gen
        BY Zenon, <1>0
      <4>2. (Retired(pvs.uid) \/ (mark.uid = pvs.uid /\ mark.gen >= gen))'
        BY Zenon, <3>0, <3>1, <4>1, RefusedStays
      <4>3. QED BY Zenon, <1>0, <4>1, <4>2 DEF Retired
    <3>3. ASSUME worker[v].node \in exp'.hosts PROVE FALSE
      <4>1. PICK n \in Nodes : n = worker[v].node
        BY Zenon, <3>0
      <4>2. /\ AdmitsNode(r, n) /\ Current(r) /\ ~Retired(pvs.uid)
            /\ mark.uid = pvs.uid => r.tok.gen >= mark.gen
        BY Zenon, <3>1, <3>3, <4>1, HostsGrow
      <4>3. r.tok.gen <= pvs.gen /\ NetRequest(r) /\ r.tok.gen \in Nat
        BY Zenon, <1>3, <4>2 DEF Core, RequestOK, NetInv
      <4>4. r.tok.gen = pvs.gen
        BY SMTT(20), <1>0, <3>1, <4>2, <4>3
      <4>5. QED BY Zenon, <3>1, <4>1, <4>2, <4>3, <4>4 DEF NetRequest
    <3>4. QED BY Zenon, <3>2, <3>3
  <2>2. ASSUME worker[v].pc = "grant", v \notin voided
        PROVE  /\ \A q \in Alive' : Current(q)' /\ Removes(q, worker[v].node) => q.tok.gen < worker[v].tok.gen
               /\ worker[v].answered =>
                     /\ worker[v].node \in exp'.hosts /\ mark'.uid = pvs.uid /\ ~mark'.ended
                     /\ mark'.gen >= worker[v].tok.gen
    <3>1. \A q \in Alive : Current(q) /\ Removes(q, worker[v].node) => q.tok.gen < worker[v].tok.gen
      BY Zenon, <2>0, <2>2 DEF NetCall
    <3>2. ASSUME worker[v].answered
          PROVE  /\ worker[v].node \in exp'.hosts /\ mark'.uid = pvs.uid /\ ~mark'.ended
                 /\ mark'.gen >= worker[v].tok.gen
      <4>1. PICK n \in Nodes : n = worker[v].node
        BY Zenon, <2>0, <2>2 DEF WellFormed, Publishes
      <4>2. Holds(n) /\ mark.gen >= worker[v].tok.gen /\ Standing(n)
        BY Zenon, <2>0, <2>2, <3>2, <4>1 DEF NetCall, PubCall, Publishes
      <4>3. Current(r) /\ Removes(r, n) => r.tok.gen < mark.gen
        BY <1>0, <1>3, <2>0, <3>1, <4>1, <4>2
      <4>4. n \in exp'.hosts /\ mark'.uid = pvs.uid /\ ~mark'.ended
        BY Zenon, <4>2, <4>3, HoldsStays
      <4>5. pvs.uid # NoUID
        BY Zenon, <4>2, NewVolumeStateIs DEF Standing, Core, RecordInv
      <4>6. mark'.gen >= mark.gen /\ mark.gen \in Nat /\ mark'.gen \in Nat
        BY Zenon, <1>0, <4>2, <4>5 DEF Holds
      <4>7. worker[v].tok.gen \in Nat
        BY Zenon, <2>0
      <4>8. mark'.gen >= worker[v].tok.gen
        BY ONLY <4>2, <4>6, <4>7
      <4>9. QED BY Zenon, <4>1, <4>4, <4>8
    <3>3. QED BY Zenon, <1>3, <3>1, <3>2
  <2>3. (worker[v].pc = "deny" /\ worker[v].answered /\ worker[v].tok = fenceToken(pvs) =>
            /\ worker[v].node \notin exp.hosts
            /\ Retired(pvs.uid) \/ (mark.uid = pvs.uid /\ mark.gen >= pvs.gen))'
    BY Zenon, <1>0, <1>6, <2>1
  <2>4. (worker[v].pc = "grant" /\ v \notin voided =>
            /\ \A q \in Alive : Current(q) /\ Removes(q, worker[v].node) => q.tok.gen < worker[v].tok.gen
            /\ worker[v].answered => Holds(worker[v].node) /\ mark.gen >= worker[v].tok.gen)'
    BY Zenon, <1>0, <1>6, <2>2 DEF Holds, Removes
  <2>5. QED BY Zenon, <2>3, <2>4 DEF NetCall
<1>7. ASSUME NEW v \in Workers PROVE NetCall(v)'
  <2>1. CASE worker'[v].pc \notin {"grant", "deny"}
    BY Zenon, <2>1 DEF NetCall
  <2>2. QED BY Zenon, <1>6, <2>1
<1>8. ASSUME NEW n \in granted
      PROVE  /\ n \in exp'.hosts /\ mark'.uid = pvs.uid /\ ~mark'.ended
             /\ \A q \in Alive' : Current(q)' /\ Removes(q, n) => q.tok.gen < mark'.gen
  <2>1. /\ n \in Nodes /\ Standing(n) /\ Holds(n)
        /\ \A q \in Alive : Current(q) /\ Removes(q, n) => q.tok.gen < mark.gen
    BY Zenon, <1>0, <1>8 DEF PubInv, NetInv
  <2>2. n \in exp'.hosts /\ mark'.uid = pvs.uid /\ ~mark'.ended
    BY Zenon, <2>1, HoldsStays
  <2>3. pvs.uid # NoUID
    BY Zenon, <2>1, NewVolumeStateIs DEF Standing, Core, RecordInv
  <2>4. mark'.gen >= mark.gen
    BY Zenon, <1>0, <2>1, <2>3 DEF Holds
  <2>5. QED BY <1>0, <1>3, <2>1, <2>2, <2>4
<1>9. pvs'.localAttachNode = NoNode
  BY Zenon, <1>0 DEF NetInv
<1>10. QED BY Zenon, <1>0, <1>1, <1>4, <1>5, <1>7, <1>8, <1>9 DEF NetInv, Holds, Current, Removes

\* What the answer of AllowInitiator or DenyInitiator means.
LEMMA AnswerNet ==
    ASSUME Core, Core', PubInv, NetInv, NEW w \in Workers, Serve(w), worker[w].pc \in {"grant", "deny"}
    PROVE  NetCall(w)'
<1>0. /\ worker[w].req \in Alive /\ worker[w].req.tok = worker[w].tok
      /\ worker[w].req.kind = KindOf(worker[w].pc) /\ worker[w].req.node = worker[w].node
      /\ worker[w].tok \in Token /\ worker[w].tok.gen \in Nat
      /\ mark \in fencingMark /\ MarkInv /\ NetCall(w) /\ PubCall(w) /\ TypeInv
      /\ exp \in [up : BOOLEAN, hosts : SUBSET Nodes, on : BOOLEAN]
  BY Zenon, AliveHeld DEF Core, TypeInv, TypeOK, WellFormed, Waits, NetInv, PubInv, Token
<1>1. PICK r \in Alive : r = worker[w].req
  BY Zenon, <1>0
<1>2. r.kind = IF worker[w].pc = "grant" THEN "allow" ELSE "deny"
  BY Zenon, <1>0, <1>1, KindOfIs
<1>3. /\ Apply(r) /\ r.tok \in Token /\ UNCHANGED <<spec, pvs, used, stray, voided>>
  BY Zenon, <1>0, <1>1, <1>2 DEF Serve, ReleaseVolume, object, history
<1>4. Admitted(r) /\ mark' = AdmittedMark(r.tok, mark) /\ Mutate(r)
  BY Zenon, <1>2, <1>3 DEF Apply, AppliedMark
<1>5. r.tok.uid # NoUID
  BY Zenon, <1>0, <1>3, <1>4, AdmittedAny DEF Admitted
<1>6. mark'.uid = r.tok.uid /\ mark'.gen = r.tok.gen
  BY ONLY Zenon, <1>0, <1>3, <1>4, <1>5, AdmittedMarkIs
<1>7. Becomes(w, worker[w].pc, worker[w].tok, worker[w].node, worker[w].req, TRUE)
  BY Zenon, <1>0, ServedEffect DEF Serve
<1>8. Alive' \subseteq Alive
  BY Zenon, <1>3, <1>7 DEF Becomes, Alive
<1>9. CASE worker[w].pc = "deny"
  <2>1. worker[w].node \notin exp'.hosts
    <3>1. r.kind = "deny"
      BY Zenon, <1>2, <1>9
    <3>2. exp'.hosts = exp.hosts \ {r.node}
      BY Zenon, <1>0, <1>4, <3>1, MutateHosts
    <3>3. QED BY Zenon, <1>0, <1>1, <3>2
  <2>2. ASSUME worker[w].tok = fenceToken(pvs) PROVE mark'.uid = pvs.uid /\ mark'.gen >= pvs.gen
    <3>1. worker[w].tok.uid = pvs.uid /\ worker[w].tok.gen = pvs.gen
      BY <2>2 DEF fenceToken
    <3>2. mark'.uid = pvs.uid /\ mark'.gen = pvs.gen /\ pvs.gen \in Nat
      BY Zenon, <1>0, <1>1, <1>6, <3>1
    <3>3. QED BY ONLY <3>2
  <2>3. QED BY Zenon, <1>3, <1>7, <1>9, <2>1, <2>2 DEF NetCall, Becomes, Retired, fenceToken
<1>10. CASE worker[w].pc = "grant"
  <2>1. worker[w].node \in exp'.hosts
    BY ONLY Zenon, <1>0, <1>1, <1>2, <1>4, <1>10, MutateHosts
  <2>2. Admits(r.tok, "grant", mark)
    BY Zenon, <1>2, <1>4, <1>10, ClassIs DEF Admitted
  <2>3. mark.uid = r.tok.uid => ~mark.ended
    BY Zenon, <1>0, <1>3, <2>2, AdmittedGrant
  <2>4. ~mark'.ended
    <3>1. \/ r.tok.uid = mark.uid /\ mark'.ended = mark.ended
          \/ r.tok.uid # mark.uid /\ mark'.ended = FALSE
      BY ONLY Zenon, <1>0, <1>3, <1>4, <1>5, AdmittedMarkIs
    <3>2. QED BY Zenon, <2>3, <3>1
  <2>5. ASSUME w \notin voided
        PROVE  /\ mark'.uid = pvs.uid /\ mark'.gen >= worker[w].tok.gen
               /\ \A q \in Alive : Current(q) /\ Removes(q, worker[w].node) => q.tok.gen < worker[w].tok.gen
    <3>1. /\ worker[w].tok.uid = pvs.uid
          /\ \A q \in Alive : Current(q) /\ Removes(q, worker[w].node) => q.tok.gen < worker[w].tok.gen
      BY Zenon, <1>0, <1>10, <2>5 DEF PubCall, NetCall, Publishes
    <3>2. mark'.uid = worker[w].tok.uid /\ mark'.gen = worker[w].tok.gen /\ worker[w].tok.gen \in Nat
      BY Zenon, <1>0, <1>1, <1>6
    <3>3. QED BY ONLY <3>1, <3>2
  <2>6. QED BY Zenon, <1>3, <1>7, <1>8, <1>10, <2>1, <2>4, <2>5 DEF NetCall, Becomes, Holds, Current, Removes
<1>11. QED BY Zenon, <1>9, <1>10

\* The agent keeps NetInv.
LEMMA AgentNet ==
    ASSUME Core, Core', PubInv, PubInv', NetInv, AgentStep
    PROVE  NetInv'
<1>0. TypeInv
  BY Zenon DEF Core
<1>1. ASSUME NEW w \in Workers, Serve(w) PROVE NetInv'
  <2>1. worker[w].req \in Alive /\ AgentActs(worker[w].req) /\ UNCHANGED <<object, stray, granted, voided>>
    BY Zenon, <1>1 DEF Serve, AgentActs, Alive, Waiting, history
  <2>2. Becomes(w, worker[w].pc, worker[w].tok, worker[w].node, worker[w].req, TRUE)
    BY Zenon, <1>0, <1>1, ServedEffect DEF Serve
  <2>3. Alive' \subseteq Alive
    BY Zenon, <2>1, <2>2 DEF Becomes, Alive
  <2>4. PICK r \in Alive : r = worker[w].req /\ AgentActs(r)
    BY Zenon, <2>1
  <2>5. \A v \in Workers : \/ worker'[v] = worker[v] \/ worker'[v].pc \notin {"grant", "deny"}
                           \/ NetCall(v)'
    BY Zenon, <1>1, <2>2, AnswerNet DEF Becomes
  <2>6. QED BY Zenon, <2>1, <2>3, <2>4, <2>5, ServedNet
<1>2. ASSUME NEW w \in Workers, ServeFails(w) PROVE NetInv'
  <2>1. worker[w].req \in Alive /\ AgentActs(worker[w].req) /\ UNCHANGED <<object, stray, granted, voided>>
    BY Zenon, <1>2 DEF ServeFails, AgentActs, Alive, Waiting, history
  <2>2. Becomes(w, "idle", NoToken, NoNode, NoRequest, FALSE)
    BY Zenon, <1>0, <1>2, ReturnEffect DEF ServeFails
  <2>3. Alive' \subseteq Alive
    BY Zenon, <2>1, <2>2 DEF Becomes, Alive
  <2>4. PICK r \in Alive : r = worker[w].req /\ AgentActs(r)
    BY Zenon, <2>1
  <2>5. \A v \in Workers : worker'[v] = worker[v] \/ worker'[v].pc \notin {"grant", "deny"}
    BY Zenon, <2>2 DEF Becomes
  <2>6. QED BY Zenon, <2>1, <2>3, <2>4, <2>5, ServedNet
<1>3. ASSUME NEW r \in stray, ServeStray(r) PROVE NetInv'
  <2>1. r \in Alive /\ AgentActs(r) /\ UNCHANGED <<object, worker, granted, voided>>
    BY Zenon, <1>3 DEF ServeStray, AgentActs, Alive, history
  <2>2. Alive' \subseteq Alive
    BY Zenon, <1>3 DEF ServeStray, Alive
  <2>3. QED BY Zenon, <2>1, <2>2, ServedNet
<1>4. CASE Restart
  <2>1. UNCHANGED <<spec, pvs, used, worker, stray, mark, exp, granted, voided>>
    BY Zenon, <1>4 DEF Restart, object, history
  <2>2. Alive' = Alive
    BY Zenon, <2>1 DEF Alive
  <2>3. QED BY Zenon, <2>1, <2>2 DEF NetInv, NetRequest, NetCall, Recorded, Standing, Refused, Retired,
                              Holds, Current, AdmitsNode, Removes, fenceToken
<1>5. CASE Reboot
  <2>1. /\ UNCHANGED <<spec, pvs, used, worker, stray, mark>>
        /\ exp'.on = TRUE /\ exp'.hosts = {} /\ granted' = {} /\ voided' = Workers
    BY Zenon, <1>5 DEF Reboot, object, NoExport
  <2>2. Alive' = Alive
    BY Zenon, <2>1 DEF Alive
  <2>3. \A r \in Alive' : NetRequest(r)'
    BY <2>1, <2>2 DEF NetInv, NetRequest, Recorded, Standing, Refused, Retired, Current, AdmitsNode
  <2>4. \A w \in Workers : NetCall(w)'
    BY Zenon, <2>1, <2>2 DEF NetInv, NetCall, Retired, Holds, fenceToken
  <2>5. QED BY Zenon, <2>1, <2>3, <2>4 DEF NetInv
<1>6. QED BY Zenon, <1>1, <1>2, <1>3, <1>4, <1>5 DEF AgentStep

\* NetInv holds at the start.
LEMMA InitNet ==
    ASSUME Init
    PROVE  NetInv
<1>0. spec \in VolumeSpec
  BY Zenon DEF Init
<1>1. Alive = {}
  BY Zenon DEF Init, Alive, IdleWorker
<1>2. pvs.localAttachNode = NoNode
  BY Zenon, <1>0, NewVolumeStateIs, ReadyRecordIs DEF Init, InitEmpty, InitReady
<1>3. exp.on = TRUE /\ exp.hosts = {}
  BY DEF Init, InitEmpty, InitReady, NoExport
<1>4. QED BY Zenon, <1>1, <1>2, <1>3 DEF Init, NetInv, NetCall, IdleWorker

-----------------------------------------------------------------------------
(* The types and the properties.                                           *)

\* TypeInv, by the part of the state it is about: the history,
HistoryTyped ==
    /\ reported \subseteq UIDs /\ reaped \subseteq UIDs
    /\ overlap \in BOOLEAN
    /\ granted \subseteq Nodes /\ voided \subseteq Workers

\* the PillarVolumeState object,
ObjectTyped == spec \in VolumeSpec /\ pvs \in PillarVolumeState /\ used \subseteq UIDs

\* the agent,
AgentTyped ==
    /\ mark \in fencingMark /\ vol \in UIDs \cup {NoUID, Foreign}
    /\ exp \in [up : BOOLEAN, hosts : SUBSET Nodes, on : BOOLEAN] /\ gated \in BOOLEAN

\* the requests that left their caller,
StrayTyped == stray \subseteq Request /\ \A r \in stray : Addressed(r)

\* and the claim and the persistent volume.
ClusterTyped == claim \in BOOLEAN /\ pv \in BOOLEAN

USE GensAssumption, NoUIDAssumption, NodesAssumption, SpecsAssumption,
    ForeignAssumption, MaxStrayAssumption, StartReadyAssumption

----------------------------------------------------------------------------
(* Every step keeps the types.                                             *)

\* These parts are TypeInv.
LEMMA TypeInvParts ==
    TypeInv <=> /\ CallsTyped /\ HistoryTyped /\ ObjectTyped /\ AgentTyped
                /\ StrayTyped /\ ClusterTyped
BY Zenon DEF TypeInv, TypeOK, Worker, CallsTyped, HistoryTyped, ObjectTyped, AgentTyped,
       StrayTyped, ClusterTyped

\* Parts that hold after a step are TypeInv after it.
LEMMA TypeInvNext ==
    ASSUME CallsTyped', HistoryTyped', ObjectTyped', AgentTyped', StrayTyped', ClusterTyped'
    PROVE  TypeInv'
BY Zenon DEF TypeInv, TypeOK, Worker, CallsTyped, HistoryTyped, ObjectTyped, AgentTyped,
       StrayTyped, ClusterTyped

\* What a step leaves alone keeps its type.
LEMMA PartsUnchanged ==
    ASSUME TypeInv
    PROVE  /\ UNCHANGED object => ObjectTyped'
           /\ UNCHANGED cluster => ClusterTyped'
           /\ UNCHANGED worker => CallsTyped'
           /\ UNCHANGED stray => StrayTyped'
           /\ UNCHANGED agent => AgentTyped'
           /\ UNCHANGED history => HistoryTyped'
BY Zenon, TypeInvParts DEF CallsTyped, HistoryTyped, ObjectTyped, AgentTyped, StrayTyped,
                    ClusterTyped, object, cluster, agent, history

\* CreateVolume keeps the types.
LEMMA CreateStepTyped ==
    ASSUME TypeInv, NEW w \in Workers, CreateStep(w)
    PROVE  TypeInv'
<1>0. /\ pvs \in PillarVolumeState /\ worker[w] \in Worker /\ spec \in VolumeSpec
      /\ worker[w].tok.uid \in UIDs \cup {NoUID} /\ pvs.uid \in UIDs \cup {NoUID}
      /\ used \subseteq UIDs /\ pvs.gen \in Nat
      /\ reported \subseteq UIDs /\ HistoryTyped
  BY Zenon, TypeInvParts, RecordFields DEF CallsTyped, HistoryTyped, ObjectTyped, Worker, Token
<1>1. CASE BeginCreate(w)
  <2>1. CallsTyped'
    BY Zenon, <1>0, <1>1, ProceedEffect, PartsUnchanged DEF BeginCreate, CallsTyped
  <2>2. HistoryTyped'
    BY Zenon, <1>0, <1>1 DEF BeginCreate, HistoryTyped
  <2>3. QED BY Zenon, <1>1, <2>1, <2>2, PartsUnchanged, TypeInvNext DEF BeginCreate
<1>2. CASE EnsureVolumeState(w)
  <2>1. CallsTyped'
    BY Zenon, <1>0, <1>2, ProceedEffect DEF EnsureVolumeState, CallsTyped
  <2>2. ObjectTyped'
    BY <1>0, <1>2, NewVolumeStateIs, PartsUnchanged DEF EnsureVolumeState, ObjectTyped
  <2>3. QED BY Zenon, <1>2, <2>1, <2>2, PartsUnchanged, TypeInvNext DEF EnsureVolumeState
<1>3. CASE CreateBackend(w) \/ ExportVolume(w)
  <2>1. ObjectTyped'
    BY Zenon, <1>0, <1>3, ClaimIs DEF CreateBackend, ExportVolume, ObjectTyped
  <2>2. CallsTyped'
    <3>1. fenceToken(pvs') \in Token
      BY Zenon, <2>1, TokenTyped DEF ObjectTyped
    <3>2. CASE Call(w, "backend", NewRequest("create", fenceToken(pvs')))
      BY Zenon, <3>1, <3>2, KindOfIs, CallNew DEF Waits, Publishes
    <3>3. CASE Call(w, "export", NewRequest("export", fenceToken(pvs')))
      BY Zenon, <3>1, <3>3, KindOfIs, CallNew DEF Waits, Publishes
    <3>4. QED BY Zenon, <1>3, <3>2, <3>3 DEF CreateBackend, ExportVolume
  <2>3. QED BY Zenon, <1>3, <2>1, <2>2, PartsUnchanged, TypeInvNext DEF CreateBackend, ExportVolume
<1>4. CASE CommitBackend(w) \/ ResumePartial(w)
  <2>1. ObjectTyped'
    BY Zenon, <1>0, <1>4, CreatePartialIs, PartsUnchanged DEF CommitBackend, ResumePartial, ObjectTyped
  <2>2. CallsTyped'
    BY Zenon, <1>0, <1>4, ProceedEffect DEF CommitBackend, ResumePartial, CallsTyped
  <2>3. QED BY Zenon, <1>4, <2>1, <2>2, PartsUnchanged, TypeInvNext DEF CommitBackend, ResumePartial
<1>5. CASE RecordReady(w)
  <2>1. ObjectTyped'
    BY Zenon, <1>0, <1>5, ReadyIs DEF RecordReady, ObjectTyped
  <2>2. CallsTyped' /\ HistoryTyped'
    BY Zenon, <1>0, <1>5, ReturnEffect DEF RecordReady, CallsTyped, HistoryTyped, CanPersistReady, Pinned
  <2>3. QED BY Zenon, <1>5, <2>1, <2>2, PartsUnchanged, TypeInvNext DEF RecordReady
<1>6. QED BY Zenon, <1>1, <1>2, <1>3, <1>4, <1>5 DEF CreateStep

\* DeleteVolume and the reaper keep the types.
LEMMA DeleteStepTyped ==
    ASSUME TypeInv, NEW w \in Workers, DeleteStep(w)
    PROVE  TypeInv'
<1>0. /\ pvs \in PillarVolumeState /\ worker[w] \in Worker /\ spec \in VolumeSpec
      /\ worker[w].tok \in Token /\ pvs.uid \in UIDs \cup {NoUID}
      /\ used \subseteq UIDs /\ HistoryTyped
  BY Zenon, TypeInvParts, RecordFields DEF CallsTyped, ObjectTyped, Worker
<1>1. CASE DeleteVolume(w) \/ ReapAbandoned(w)
  <2>1. ObjectTyped'
    BY Zenon, <1>0, <1>1, DeletingIs DEF DeleteVolume, ReapAbandoned, ObjectTyped
  <2>2. CallsTyped'
    <3>1. fenceToken(pvs') \in Token /\ fenceToken(pvs').uid # NoUID
      BY Zenon, <1>0, <1>1, <2>1, DeletingIs, TokenTyped
      DEF ObjectTyped, DeleteVolume, ReapAbandoned, CanMarkDeleting
    <3>2. CASE Call(w, "release", NewRequest("release", fenceToken(pvs')))
      BY Zenon, <3>1, <3>2, KindOfIs, CallNew DEF Waits, Publishes
    <3>3. CASE Call(w, "unexport", NewRequest("unexport", fenceToken(pvs')))
      BY Zenon, <3>1, <3>3, KindOfIs, CallNew DEF Waits, Publishes
    <3>4. QED BY Zenon, <1>1, <3>2, <3>3 DEF DeleteVolume, ReapAbandoned, teardownMarkedVolume
  <2>3. HistoryTyped'
    BY Zenon, <1>0, <1>1 DEF DeleteVolume, ReapAbandoned, HistoryTyped, history, CanMarkDeleting
  <2>4. QED BY Zenon, <1>1, <2>1, <2>2, <2>3, PartsUnchanged, TypeInvNext DEF DeleteVolume, ReapAbandoned
<1>2. CASE BeginReap(w)
  <2>1. CallsTyped'
    BY Zenon, <1>0, <1>2, ProceedEffect DEF BeginReap, CallsTyped
  <2>2. QED BY Zenon, <1>2, <2>1, PartsUnchanged, TypeInvNext DEF BeginReap
<1>3. CASE DestroyBackend(w)
  <2>1. CallsTyped'
    BY Zenon, <1>0, <1>3, KindOfIs, CallNew DEF DestroyBackend, Waits, Publishes
  <2>2. QED BY Zenon, <1>3, <2>1, PartsUnchanged, TypeInvNext DEF DestroyBackend
<1>4. CASE FinishDelete(w)
  <2>1. CallsTyped'
    BY Zenon, <1>4, ReturnEffect DEF FinishDelete, CallsTyped
  <2>2. ObjectTyped'
    BY Zenon, <1>0, <1>4, NewVolumeStateIs DEF FinishDelete, ObjectTyped
  <2>3. QED BY Zenon, <1>4, <2>1, <2>2, PartsUnchanged, TypeInvNext DEF FinishDelete
<1>5. QED BY Zenon, <1>1, <1>2, <1>3, <1>4 DEF DeleteStep

\* ControllerPublishVolume keeps the types.
LEMMA PublishStepTyped ==
    ASSUME TypeInv, NEW w \in Workers, PublishStep(w)
    PROVE  TypeInv'
<1>0. /\ pvs \in PillarVolumeState /\ worker[w] \in Worker /\ spec \in VolumeSpec
      /\ worker[w].tok \in Token /\ WellFormed(worker[w]) /\ worker[w].seen \in Nodes \cup {NoNode}
      /\ used \subseteq UIDs /\ HistoryTyped
  BY Zenon, TypeInvParts DEF CallsTyped, ObjectTyped, Worker
<1>1. ASSUME NEW n \in Nodes, BeginPublish(w, n) PROVE TypeInv'
  <2>1. CallsTyped'
    BY Zenon, <1>1, BeginPublishEffect DEF CallsTyped
  <2>2. HistoryTyped'
    BY Zenon, <1>0, <1>1 DEF BeginPublish, HistoryTyped
  <2>3. QED BY Zenon, <1>1, <2>1, <2>2, PartsUnchanged, TypeInvNext DEF BeginPublish
<1>2. CASE ReservePublication(w)
  <2>1. worker[w].node \in Nodes /\ Publication(worker[w].node) \in VolumePublication
    BY Zenon, <1>0, <1>2, PublicationIs DEF ReservePublication, WellFormed
  <2>2. ObjectTyped'
    BY Zenon, <1>0, <1>2, <2>1, ReserveIs DEF ReservePublication, ObjectTyped
  <2>3. CallsTyped'
    <3>1. fenceToken(pvs') \in Token
      BY Zenon, <2>2, TokenTyped DEF ObjectTyped
    <3>2. CASE SetLocalAttach(w, "local", TRUE, fenceToken(pvs'))
      BY Zenon, <2>1, <3>1, <3>2, SetLocalAttachEffect DEF CallsTyped
    <3>3. CASE SetLocalAttach(w, "enable", FALSE, fenceToken(pvs'))
      BY Zenon, <2>1, <3>1, <3>3, SetLocalAttachEffect DEF CallsTyped
    <3>4. CASE AllowInitiator(w, fenceToken(pvs'))
      BY Zenon, <2>1, <3>1, <3>4, AllowInitiatorEffect DEF CallsTyped
    <3>5. QED BY Zenon, <1>2, <3>2, <3>3, <3>4 DEF ReservePublication
  <2>4. QED BY Zenon, <1>2, <2>2, <2>3, PartsUnchanged, TypeInvNext DEF ReservePublication
<1>3. CASE ClearLocalAttach(w)
  <2>1. worker[w].node \in Nodes /\ worker[w].seen \in Nodes
    BY Zenon, <1>0, <1>3 DEF ClearLocalAttach, Answered, WellFormed, Publishes
  <2>2. ObjectTyped'
    BY Zenon, <1>0, <1>3, <2>1, ClearLocalAttachIs DEF ClearLocalAttach, ObjectTyped
  <2>3. fenceToken(pvs') \in Token
    BY Zenon, <2>2, TokenTyped DEF ObjectTyped
  <2>4. CallsTyped'
    BY Zenon, <1>3, <2>1, <2>3, SetLocalAttachEffect DEF ClearLocalAttach, CallsTyped
  <2>5. QED BY Zenon, <1>3, <2>2, <2>4, PartsUnchanged, TypeInvNext DEF ClearLocalAttach
<1>4. CASE GrantPublication(w)
  <2>1. worker[w].node \in Nodes
    BY Zenon, <1>0, <1>4 DEF GrantPublication, Answered, WellFormed, Publishes
  <2>2. CallsTyped'
    BY Zenon, <1>0, <1>4, <2>1, AllowInitiatorEffect DEF GrantPublication, CallsTyped
  <2>3. QED BY Zenon, <1>4, <2>2, PartsUnchanged, TypeInvNext DEF GrantPublication
<1>5. CASE FinishPublish(w)
  <2>1. worker[w].node \in Nodes
    BY Zenon, <1>0, <1>5 DEF FinishPublish, Answered, WellFormed, Publishes
  <2>2. CallsTyped' /\ HistoryTyped'
    BY Zenon, <1>0, <1>5, <2>1, ReturnEffect DEF FinishPublish, CallsTyped, HistoryTyped
  <2>3. QED BY Zenon, <1>5, <2>2, PartsUnchanged, TypeInvNext DEF FinishPublish
<1>6. QED BY Zenon, <1>1, <1>2, <1>3, <1>4, <1>5 DEF PublishStep

\* ControllerUnpublishVolume keeps the types.
LEMMA UnpublishStepTyped ==
    ASSUME TypeInv, NEW w \in Workers, UnpublishStep(w)
    PROVE  TypeInv'
<1>0. /\ pvs \in PillarVolumeState /\ spec \in VolumeSpec /\ WellFormed(worker[w])
      /\ used \subseteq UIDs /\ HistoryTyped
  BY Zenon, TypeInvParts DEF CallsTyped, ObjectTyped
<1>1. ASSUME NEW n \in Nodes, FencePublications(w, n) PROVE TypeInv'
  <2>1. CallsTyped'
    BY Zenon, <1>1, FencePublicationsEffect DEF CallsTyped
  <2>2. ObjectTyped'
    BY Zenon, <1>0, <1>1, FenceIs DEF FencePublications, ObjectTyped
  <2>3. HistoryTyped'
    BY Zenon, <1>0, <1>1 DEF FencePublications, HistoryTyped
  <2>4. QED BY Zenon, <1>1, <2>1, <2>2, <2>3, PartsUnchanged, TypeInvNext DEF FencePublications
<1>2. CASE ReleasePublication(w)
  <2>1. worker[w].node \in Nodes
    BY Zenon, <1>0, <1>2 DEF ReleasePublication, Answered, WellFormed
  <2>2. ObjectTyped' /\ CallsTyped'
    BY Zenon, <1>0, <1>2, <2>1, ReleaseIs, ReturnEffect DEF ReleasePublication, ObjectTyped, CallsTyped
  <2>3. QED BY Zenon, <1>2, <2>2, PartsUnchanged, TypeInvNext DEF ReleasePublication
<1>3. QED BY Zenon, <1>1, <1>2 DEF UnpublishStep

\* The resync requests are typed.
LEMMA ResyncTyped ==
    ASSUME TypeInv, ReconcileVolumeExport \/ RestoreAgentExports
    PROVE  TypeInv'
<1>0. stray \subseteq Request /\ (\A r \in stray : Addressed(r)) /\ pvs \in PillarVolumeState
  BY Zenon DEF TypeInv, TypeOK
<1>1. ASSUME NEW kind \in {"reconcile", "restore"}
      PROVE  Desired(kind) \in Request /\ Addressed(Desired(kind))
  BY Zenon, <1>0, DesiredIs DEF Addressed
<1>2. NewRequest("restore", NoToken) \in Request /\ Addressed(NewRequest("restore", NoToken))
  <2>1. NoToken \in Token
    BY Zenon DEF Token, NoToken
  <2>2. QED BY Zenon, <2>1, NewRequestIs DEF Addressed, Kinds
<1>3. StrayTyped'
  BY Zenon, <1>0, <1>1, <1>2 DEF StrayTyped, ReconcileVolumeExport, RestoreAgentExports, Leave
<1>4. QED BY Zenon, <1>3, PartsUnchanged, TypeInvNext DEF ReconcileVolumeExport, RestoreAgentExports

\* A call that is given up leaves its request behind.
LEMMA AbandonTyped ==
    ASSUME TypeInv, NEW w \in Workers, Abandon(w)
    PROVE  TypeInv'
<1>1. CallsTyped'
  BY Zenon, ReturnEffect DEF Abandon, CallsTyped
<1>2. StrayTyped'
  BY Zenon, RequestsFit, TypeInvParts DEF Abandon, StrayTyped, Leave, Waiting
<1>3. QED BY Zenon, <1>1, <1>2, PartsUnchanged, TypeInvNext DEF Abandon

\* Whatever the agent does with a request keeps its state typed.
LEMMA AgentActionTyped ==
    ASSUME AgentTyped, NEW r \in Request, Addressed(r),
           Apply(r) \/ ReleaseVolume(r) \/ Fail(r)
    PROVE  AgentTyped'
<1>0. /\ r.tok \in Token /\ r.hosts \subseteq Nodes /\ r.local \in BOOLEAN
      /\ r.tok.uid \in UIDs \cup {NoUID}
      /\ mark \in fencingMark /\ gated \in BOOLEAN
      /\ exp \in [up : BOOLEAN, hosts : SUBSET Nodes, on : BOOLEAN]
      /\ vol \in UIDs \cup {NoUID, Foreign}
  BY Zenon DEF Request, AgentTyped, Token
<1>1. AdmittedMark(r.tok, mark) \in fencingMark
  BY Zenon, <1>0, AdmittedMarkIs
<1>2. NoExport \in [up : BOOLEAN, hosts : SUBSET Nodes, on : BOOLEAN]
  BY Zenon DEF NoExport
<1>3. CASE Apply(r)
  <2>1. mark' \in fencingMark
    BY Zenon, <1>1, <1>3, EndedMarkIs DEF Apply, AppliedMark
  <2>2. vol' \in UIDs \cup {NoUID, Foreign}
    BY Zenon, <1>0, <1>3 DEF Apply, Mutate
  <2>3. exp' \in [up : BOOLEAN, hosts : SUBSET Nodes, on : BOOLEAN]
    <3>1. CASE exp' = exp \/ exp' = NoExport
      BY Zenon, <1>0, <1>2, <3>1
    <3>2. CASE exp' = [exp EXCEPT !.up = TRUE, !.on = TRUE] \/ exp' = [exp EXCEPT !.on = ~r.local]
      BY Zenon, <1>0, <3>2
    <3>3. CASE r.kind = "allow" /\ exp' = [exp EXCEPT !.hosts = @ \cup {r.node}]
      BY Zenon, <1>0, <3>3 DEF Addressed
    <3>4. CASE exp' = [exp EXCEPT !.hosts = @ \ {r.node}]
      BY Zenon, <1>0, <3>4
    <3>5. CASE exp' = Reconciled(r)
      BY Zenon, <1>0, <3>5 DEF Reconciled
    <3>6. QED BY Zenon, <1>3, <3>1, <3>2, <3>3, <3>4, <3>5 DEF Apply, Mutate
  <2>4. gated' \in BOOLEAN
    BY Zenon, <1>0, <1>3 DEF Apply
  <2>5. QED BY Zenon, <2>1, <2>2, <2>3, <2>4 DEF AgentTyped
<1>4. CASE ReleaseVolume(r)
  <2>1. r.tok.uid # NoUID
    BY Zenon, <1>4 DEF ReleaseVolume, Addressed
  <2>2. mark' \in fencingMark
    <3>1. RetireDisowned(r.tok, mark) \in fencingMark /\ RetireOwned(r.tok, mark) \in fencingMark
      BY Zenon, <1>0, <2>1, RetireDisownedIs, RetireOwnedIs
    <3>2. QED BY Zenon, <1>0, <1>4, <3>1 DEF ReleaseVolume
  <2>3. QED BY Zenon, <1>0, <1>2, <1>4, <2>2 DEF ReleaseVolume, AgentTyped
<1>5. CASE Fail(r)
  BY Zenon, <1>0, <1>1, <1>5 DEF Fail, AgentTyped
<1>6. QED BY Zenon, <1>3, <1>4, <1>5

\* The agent keeps the types.
LEMMA AgentStepTyped ==
    ASSUME TypeInv, AgentStep
    PROVE  TypeInv'
<1>0. AgentTyped /\ StrayTyped /\ HistoryTyped
  BY Zenon, TypeInvParts
<1>1. ASSUME NEW w \in Workers, Serve(w) PROVE TypeInv'
  <2>1. AgentTyped'
    BY Zenon, <1>0, <1>1, RequestsFit, AgentActionTyped DEF Serve, Waiting
  <2>2. CallsTyped'
    BY Zenon, <1>1, ServedEffect DEF Serve, CallsTyped
  <2>3. QED BY Zenon, <1>1, <2>1, <2>2, PartsUnchanged, TypeInvNext DEF Serve
<1>2. ASSUME NEW w \in Workers, ServeFails(w) PROVE TypeInv'
  <2>1. AgentTyped'
    BY Zenon, <1>0, <1>2, RequestsFit, AgentActionTyped DEF ServeFails, Waiting
  <2>2. CallsTyped'
    BY Zenon, <1>2, ReturnEffect DEF ServeFails, CallsTyped
  <2>3. QED BY Zenon, <1>2, <2>1, <2>2, PartsUnchanged, TypeInvNext DEF ServeFails
<1>3. ASSUME NEW r \in stray, ServeStray(r) PROVE TypeInv'
  <2>1. AgentTyped' /\ StrayTyped'
    BY Zenon, <1>0, <1>3, AgentActionTyped DEF ServeStray, StrayTyped
  <2>2. QED BY Zenon, <1>3, <2>1, PartsUnchanged, TypeInvNext DEF ServeStray
<1>4. CASE Restart \/ Reboot
  <2>1. AgentTyped'
    <3>1. NoExport \in [up : BOOLEAN, hosts : SUBSET Nodes, on : BOOLEAN]
      BY Zenon DEF NoExport
    <3>2. CASE Restart
      BY Zenon, <1>0, <3>2 DEF Restart, AgentTyped
    <3>3. CASE Reboot
      BY Zenon, <1>0, <3>1, <3>3 DEF Reboot, AgentTyped
    <3>4. QED BY Zenon, <1>4, <3>2, <3>3
  <2>2. HistoryTyped'
    BY Zenon, <1>0, <1>4, PartsUnchanged DEF Restart, Reboot, HistoryTyped
  <2>3. QED BY Zenon, <1>4, <2>1, <2>2, PartsUnchanged, TypeInvNext DEF Restart, Reboot
<1>5. QED BY Zenon, <1>1, <1>2, <1>3, <1>4 DEF AgentStep

\* The cluster keeps the types.
LEMMA ClusterStepTyped ==
    ASSUME TypeInv, ClusterStep
    PROVE  TypeInv'
<1>1. ClusterTyped'
  BY Zenon, TypeInvParts
  DEF ClusterTyped, ClusterStep, DeleteClaim, CreatePersistentVolume, DeletePersistentVolume
<1>2. QED BY Zenon, <1>1, PartsUnchanged, TypeInvNext
          DEF ClusterStep, DeleteClaim, CreatePersistentVolume, DeletePersistentVolume

\* A step that changes nothing keeps the types.
LEMMA StutterTyped ==
    ASSUME TypeInv, UNCHANGED vars
    PROVE  TypeInv'
BY Zenon, PartsUnchanged, TypeInvNext DEF vars

\* The types hold at the start.
LEMMA InitTyped ==
    ASSUME Init
    PROVE  TypeInv
<1>1. spec \in VolumeSpec
  BY Zenon DEF Init
<1>2. CallsTyped
  BY Zenon DEF Init, CallsTyped, IdleWorker, Worker, PCs, Token, NoToken, WellFormed, Waits, Publishes
<1>3. ZeroMark \in fencingMark /\ NoToken \in Token
  BY Zenon DEF ZeroMark, fencingMark, Token, NoToken
<1>4. ObjectTyped /\ AgentTyped /\ HistoryTyped /\ StrayTyped /\ ClusterTyped
  <2>1. CASE InitEmpty
    BY Zenon, <1>1, <1>3, <2>1, NewVolumeStateIs
    DEF Init, InitEmpty, ObjectTyped, AgentTyped, HistoryTyped, StrayTyped, ClusterTyped, NoExport
  <2>2. CASE StartReady /\ InitReady
    <3>1. PICK u \in UIDs :
             /\ pvs = persistVolumeReady(persistCreatePartial(
                          claimOperation(claimOperation(NewVolumeState(u)))))
             /\ used = {u} /\ mark = AdmittedMark(fenceToken(pvs), ZeroMark) /\ vol = u
             /\ exp = [NoExport EXCEPT !.up = TRUE] /\ pv = TRUE /\ reported = {u}
      BY Zenon, <2>2 DEF InitReady
    <3>2. pvs \in PillarVolumeState
      BY Zenon, <1>1, <2>2, <3>1, ReadyRecordIs
    <3>3. mark \in fencingMark
      BY Zenon, <1>3, <3>1, <3>2, TokenTyped, AdmittedMarkIs
    <3>4. exp \in [up : BOOLEAN, hosts : SUBSET Nodes, on : BOOLEAN]
      BY Zenon, <3>1 DEF NoExport
    <3>5. QED BY Zenon, <1>1, <3>1, <3>2, <3>3, <3>4
              DEF Init, ObjectTyped, AgentTyped, HistoryTyped, StrayTyped, ClusterTyped
  <2>3. QED BY Zenon, <2>1, <2>2 DEF Init
<1>5. QED BY Zenon, <1>2, <1>4, TypeInvParts

\* Every step keeps the types.
LEMMA NextTyped ==
    ASSUME TypeInv, [Next]_vars
    PROVE  TypeInv'
BY Zenon, CreateStepTyped, DeleteStepTyped, PublishStepTyped, UnpublishStepTyped, AbandonTyped,
   ResyncTyped, AgentStepTyped, ClusterStepTyped, StutterTyped DEF Next

\* In every reachable state of the controller, the API server and the agent
\* all state has its type, every waiting call holds the request it waits
\* for, and a release always names a lifecycle.
THEOREM TypeCorrect == Spec => []TypeOK
<1>1. Init => TypeInv
  BY Zenon, InitTyped
<1>2. TypeInv /\ [Next]_vars => TypeInv'
  BY Zenon, NextTyped
<1>3. TypeInv => TypeOK
  BY Zenon DEF TypeInv
<1>4. QED BY <1>1, <1>2, <1>3, PTL DEF Spec

----------------------------------------------------------------------------
(* No orphans, no unrecorded grants, one publisher.                        *)

\* Every step keeps Core.
LEMMA NextCore ==
    ASSUME Core, [Next]_vars
    PROVE  Core'
<1>0. TypeInv'
  BY Zenon, NextTyped DEF Core
<1>1. CASE ClusterStep
  BY Zenon, <1>0, <1>1, Unmoved
  DEF ClusterStep, DeleteClaim, CreatePersistentVolume, DeletePersistentVolume
<1>2. CASE UNCHANGED vars
  BY Zenon, <1>0, <1>2, Unmoved DEF vars
<1>3. QED BY Zenon, <1>0, <1>1, <1>2, CreateStepCore, DeleteStepCore, PublishStepCore, UnpublishStepCore,
             AbandonCore, ResyncCore, AgentStepCore DEF Next

\* No backend volume and no target outlives the record of the lifecycle
\* that owns it, for any number of controllers, retries, delayed requests
\* and lifecycles of the name: CreateVolume records before it calls the
\* agent, DeleteVolume forgets last, the mark refuses the rest.
THEOREM NothingIsOrphaned == Spec => []NothingOrphaned
<1>1. Init => Core
  BY Zenon, InitTyped, InitCore
<1>2. Core /\ [Next]_vars => Core'
  BY Zenon, NextCore
<1>3. Core => NothingOrphaned
  BY Zenon, CoreUnorphaned
<1>4. QED BY <1>1, <1>2, <1>3, PTL DEF Spec

\* DeleteVolume and the reaper destroy a backend volume only for the
\* lifecycle that owns it, marked deleting, when no publication stands;
\* delayed and repeated requests of any lifecycle included.
THEOREM DestroysOnlyTheRetired == Spec => DestroysOnlyRetired
<1>1. Init => Core /\ PubInv
  BY Zenon, InitTyped, InitCore, InitPub
<1>2. Core /\ PubInv /\ [Next]_vars => Core' /\ PubInv'
  BY Zenon, NextCore, NextPub
<1>3. ASSUME Core, PubInv, [Next]_vars
      PROVE  [vol # NoUID /\ vol' = NoUID =>
                  vol \in UIDs /\ pvs.uid = vol /\ pvs.deleting /\ granted = {}]_vars
  <2>1. SUFFICES ASSUME vol # NoUID, vol' = NoUID
                 PROVE  vol \in UIDs /\ pvs.uid = vol /\ pvs.deleting /\ granted = {}
    BY Zenon
  <2>2. \E r \in Alive : AgentActs(r)
    BY Zenon, <1>2, <1>3, <2>1, DestroyedByAgent DEF Core
  <2>3. QED BY Zenon, <1>3, <2>1, <2>2, DestroysRetired
<1>4. QED BY <1>1, <1>2, <1>3, PTL DEF Spec, DestroysOnlyRetired

\* ReapAbandonedVolume marks only lifecycles CreateVolume never reported,
\* as long as no two CreateVolume calls of the volume run at once: the
\* second look at the phase, inside the write, is what makes it hold
\* against a CreateVolume that finishes between the reaper's reads and its
\* mark.
THEOREM ReapsTheUnreported == Spec => []ReapsOnlyUnreported
<1>1. Init => Core /\ ReapInv
  BY Zenon, InitTyped, InitCore, InitReap
<1>2. Core /\ ReapInv /\ [Next]_vars => (Core /\ ReapInv)'
  BY Zenon, NextCore, NextReap
<1>3. Core /\ ReapInv => ReapsOnlyUnreported
  BY Zenon DEF ReapInv, ReapsOnlyUnreported, ReapsNothingReported
<1>4. QED BY <1>1, <1>2, <1>3, PTL DEF Spec

\* Every step keeps NetInv.
LEMMA NextNet ==
    ASSUME Core, Core', PubInv, PubInv', ~LocalAttach, NetInv, [Next]_vars
    PROVE  NetInv'
<1>1. CASE ClusterStep \/ UNCHANGED vars
  <2>1. UNCHANGED <<spec, pvs, used, worker, stray, mark, exp, granted, voided>>
    BY Zenon, <1>1 DEF ClusterStep, DeleteClaim, CreatePersistentVolume, DeletePersistentVolume, vars,
                object, agent, history
  <2>2. Alive' = Alive
    BY Zenon, <2>1 DEF Alive
  <2>3. QED BY Zenon, <2>1, <2>2 DEF NetInv, NetRequest, NetCall, Recorded, Standing, Refused, Retired,
                              Holds, Current, AdmitsNode, Removes, fenceToken
<1>2. ASSUME NEW w \in Workers, CreateStep(w) \/ DeleteStep(w) PROVE NetInv'
  <2>1. TypeInv'
    BY Zenon DEF Core
  <2>2. QED BY Zenon, <1>2, <2>1, LifecycleStep, LifecycleNet
<1>3. QED BY Zenon, <1>1, <1>2, PublishNet, UnpublishNet, AbandonNet, ResyncNet, AgentNet
          DEF Next

\* The volume is what it was created as.
LEMMA SpecNeverChanges ==
    ASSUME Core, TypeInv', [Next]_vars
    PROVE  LocalAttach' = LocalAttach
<1>1. spec' = spec
  <2>1. ASSUME NEW w \in Workers, CreateStep(w) \/ DeleteStep(w) PROVE spec' = spec
    BY Zenon, <2>1, LifecycleStep
  <2>2. ASSUME NEW w \in Workers, PublishStep(w) \/ UnpublishStep(w) \/ Abandon(w) PROVE spec' = spec
    BY Zenon, <2>2
    DEF PublishStep, BeginPublish, ReservePublication, ClearLocalAttach, GrantPublication,
        FinishPublish, UnpublishStep, FencePublications, ReleasePublication, Abandon, object, Commit
  <2>3. CASE ReconcileVolumeExport \/ RestoreAgentExports \/ AgentStep \/ ClusterStep \/ UNCHANGED vars
    BY Zenon, <2>3
    DEF ReconcileVolumeExport, RestoreAgentExports, AgentStep, Serve, ServeFails, ServeStray, Restart,
        Reboot, ClusterStep, DeleteClaim, CreatePersistentVolume, DeletePersistentVolume, vars, object
  <2>4. QED BY Zenon, <2>1, <2>2, <2>3 DEF Next
<1>2. QED BY Zenon, <1>1 DEF LocalAttach

\* What is known in every reachable state.
GrantInv == Core /\ PubInv /\ (~LocalAttach => NetInv)

\* The three invariants together are inductive.
LEMMA GrantInvHolds == Spec => []GrantInv
<1>1. Init => GrantInv
  BY Zenon, InitTyped, InitCore, InitPub, InitNet DEF GrantInv
<1>2. GrantInv /\ [Next]_vars => GrantInv'
  <2>1. SUFFICES ASSUME GrantInv, [Next]_vars PROVE GrantInv'
    BY Zenon
  <2>2. Core /\ PubInv /\ (~LocalAttach => NetInv)
    BY Zenon, <2>1 DEF GrantInv
  <2>3. Core' /\ PubInv' /\ LocalAttach' = LocalAttach
    <3>1. Core'
      BY Zenon, <2>1, <2>2, NextCore
    <3>2. TypeInv'
      BY Zenon, <3>1 DEF Core
    <3>3. QED BY Zenon, <2>1, <2>2, <3>1, <3>2, NextPub, SpecNeverChanges
  <2>4. ~LocalAttach => NetInv'
    BY Zenon, <2>1, <2>2, <2>3, NextNet
  <2>5. QED BY Zenon, <2>3, <2>4 DEF GrantInv
<1>3. QED BY <1>1, <1>2, PTL DEF Spec

\* A host is in the ACL only while the record names its node in a network
\* publication: the record goes after the revoke, and no delayed grant,
\* resync or restore brings the host back (revokePublications).
THEOREM NoGrantIsUnrecorded == Spec => [](~LocalAttach => NoUnrecordedGrant)
<1>1. GrantInv => (~LocalAttach => NoUnrecordedGrant)
  BY Zenon DEF GrantInv, NetInv, Recorded, NoUnrecordedGrant
<1>2. QED BY <1>1, GrantInvHolds, PTL

\* While a successful publish stands, its host stays in the ACL of an
\* enabled namespace (ControllerPublishVolume against every other call).
THEOREM PublicationsStand == Spec => [](~LocalAttach => GrantsStand)
<1>1. GrantInv => (~LocalAttach => GrantsStand)
  BY Zenon DEF GrantInv, NetInv, Holds, GrantsStand, isLocalAttachPublish
<1>2. QED BY <1>1, GrantInvHolds, PTL

\* Counting a set all of whose elements are equal.
LEMMA OneOfOneNode ==
    ASSUME NEW S, \A m, n \in S : m = n
    PROVE  Cardinality(S) <= 1
<1> DEFINE Count(f, T) == IF T = {} THEN 0 ELSE 1 + f[T \ {CHOOSE x : x \in T}]
           Counts(f) == f = [T \in SUBSET S |-> Count(f, T)]
           one == [T \in SUBSET S |-> IF T = {} THEN 0 ELSE 1]
<1>1. Cardinality(S) = (CHOOSE f : Counts(f))[S]
  BY Zenon DEF Cardinality
<1>2. ASSUME NEW T \in SUBSET S, T # {} PROVE T \ {CHOOSE x : x \in T} = {}
  BY Zenon, <1>2
<1>3. \A T \in SUBSET S : one[T] = Count(one, T)
  <2>1. one[{}] = 0
    BY Zenon
  <2>2. QED BY <1>2, <2>1
<1>4. Counts(one)
  BY Zenon, <1>3
<1>5. PICK f : Counts(f) /\ Cardinality(S) = f[S]
  BY Zenon, <1>1, <1>4
<1>6. f[{}] = 0 /\ f[S] = Count(f, S)
  BY Zenon, <1>5
<1>7. QED BY <1>2, <1>5, <1>6

\* Two nodes never hold successful publications of a SINGLE_NODE volume at
\* once, with or without localAttach (checkPublicationConflict).
THEOREM OnePublisher == Spec => [](~Shareable => Cardinality(granted) <= 1)
<1>1. GrantInv => (~Shareable => Cardinality(granted) <= 1)
  <2>1. SUFFICES ASSUME PubInv, ~Shareable PROVE \A m, n \in granted : m = n
    BY Zenon, OneOfOneNode DEF GrantInv
  <2>2. QED BY <2>1 DEF PubInv, Standing
<1>2. QED BY <1>1, GrantInvHolds, PTL

\* Without localAttach the agent never admits a second host either.
THEOREM OneHostAdmitted == Spec => [](~LocalAttach => SingleNodeExclusive)
<1>1. GrantInv => (~LocalAttach => SingleNodeExclusive)
  <2>1. SUFFICES ASSUME PubInv, NetInv, ~Shareable
                 PROVE  Cardinality(granted) <= 1 /\ Cardinality(exp.hosts) <= 1
    BY Zenon DEF GrantInv, SingleNodeExclusive
  <2>2. \A m, n \in granted : m = n
    BY <2>1 DEF PubInv, Standing
  <2>3. \A m, n \in exp.hosts : m = n
    BY Zenon, <2>1 DEF PubInv, NetInv, Recorded
  <2>4. QED BY Zenon, <2>2, <2>3, OneOfOneNode
<1>2. QED BY <1>1, GrantInvHolds, PTL
=============================================================================
