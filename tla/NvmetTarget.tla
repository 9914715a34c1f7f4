---------------------------- MODULE NvmetTarget ----------------------------
(***************************************************************************)
(* The NVMe-oF target of one storage node, written through configfs by the *)
(* agent (internal/agent/nvmeof, protocol_handler.go, nvme_identity.go).   *)
(*                                                                         *)
(* All volumes share one TCP port and their initiators share the host      *)
(* entries.  A call holds the target lock of its volumes and is a sequence *)
(* of configfs writes; calls of different volumes interleave between two   *)
(* writes, serialised only by the port lock and the host locks.  A write   *)
(* may fail, the agent may die between two, and a reboot empties configfs, *)
(* after which the controller sends the complete export state.             *)
(*                                                                         *)
(* Fencing (FencedAgent) keeps out requests older than the controller's    *)
(* record, so a call carries the record of the moment it starts.           *)
(***************************************************************************)
EXTENDS Naturals, Sequences

LOCAL INSTANCE SequencesExt

CONSTANTS
    NvVolumes,    \* exported volumes, sharing one port
    NvHosts,      \* initiators
    NvWorkers,    \* concurrent calls
    NvIdle,       \* the lock holder when there is none
    NvLimit,      \* MaxDataTransferSize of each volume; 0 is nil or no limit
    NvInline,     \* InlineDataSize of each volume; 0 is nil
    NvLegacy,     \* volumes that may have been exported before identities were pinned
    NvMaxCalls, NvMaxFaults, NvMaxBoots

VARIABLES
    subsys,     \* configfs: nvmet/subsystems/<nqn> of each volume
    port,       \* configfs: nvmet/ports/<id> with its subsystem links
    hostDirs,   \* configfs: nvmet/hosts/<nqn>
    idRecord,   \* durable identity record of each volume, or NoIdentity
    restorePending, \* Server.exportRestorePending
    nvOp,       \* per worker, the steps its call has still to take
    portLock, hostLock, targetLock,
    held,       \* volumes whose device the storage node holds for itself
    listed,     \* the controller's record of each export
    refused,    \* exports whose entry some complete request reported failed
    cachedId,       \* identity the initiators cached, NoIdentity before the first
    raced,      \* a call failed though nothing it needed was missing or broken
    mdtsAttr,   \* the running kernel's ports have param_mdts
    boot, nvCalls, nvFaults

nvmetVars == <<subsys, port, hostDirs, idRecord, restorePending, nvOp,
               portLock, hostLock, targetLock, held, listed, refused, cachedId,
               raced, mdtsAttr, boot, nvCalls, nvFaults>>

\* An identifier: none, DeriveIdentity of the NQN, or what the kernel made up
\* when the object was created in a boot.
NoId == 0
Derived == 1
KernelRandom(b) == b + 1

NoIdentity == [serial |-> NoId, uuid |-> NoId]
DeriveIdentity == [serial |-> Derived, uuid |-> Derived]

Absent == [dir |-> FALSE, serial |-> NoId, hosts |-> {}, ns |-> FALSE,
           uuid |-> NoId, enabled |-> FALSE]
NoPort == [dir |-> FALSE, inline |-> 0, mdts |-> 0, links |-> {}]
NoCall == [rpc |-> "none", todo |-> <<>>, vols |-> {}, fenced |-> {},
           bad |-> {}, fresh |-> FALSE]
Unexported == [exported |-> FALSE, hosts |-> {}, local |-> FALSE]

Step(do, v, h) == [do |-> do, v |-> v, h |-> h]
NoHost == NvIdle

\* An export made before identities were pinned, with its initiators connected,
\* that the first complete request has adopted: its identifiers are the kernel's.
Legacy == [serial |-> KernelRandom(1), uuid |-> KernelRandom(1)]
LegacyExport ==
    [dir |-> TRUE, serial |-> KernelRandom(1), hosts |-> NvHosts, ns |-> TRUE,
     uuid |-> KernelRandom(1), enabled |-> TRUE]
LegacyPort(old) ==
    IF old = {} THEN NoPort
    ELSE [dir |-> TRUE, inline |-> NvInline[CHOOSE v \in old : TRUE], mdts |-> 0,
          links |-> old]

NvInit ==
  \E old \in SUBSET NvLegacy :
    /\ subsys = [v \in NvVolumes |-> IF v \in old THEN LegacyExport ELSE Absent]
    /\ port = LegacyPort(old)
    /\ hostDirs = IF old = {} THEN {} ELSE NvHosts
    /\ idRecord = [v \in NvVolumes |-> IF v \in old THEN Legacy ELSE NoIdentity]
    /\ restorePending = (old = {})
    /\ nvOp = [w \in NvWorkers |-> NoCall]
    /\ portLock = NvIdle
    /\ hostLock = [h \in NvHosts |-> NvIdle]
    /\ targetLock = [v \in NvVolumes |-> NvIdle]
    /\ held = {}
    /\ listed = [v \in NvVolumes |->
                    IF v \in old
                    THEN [exported |-> TRUE, hosts |-> NvHosts, local |-> FALSE]
                    ELSE Unexported]
    /\ refused = {}
    /\ cachedId = [v \in NvVolumes |-> IF v \in old THEN Legacy ELSE NoIdentity]
    /\ raced = FALSE
    /\ mdtsAttr \in BOOLEAN
    /\ boot = 1 /\ nvCalls = 0 /\ nvFaults = 0

(***************************************************************************)
(* Calls as sequences of configfs steps.                                   *)
(***************************************************************************)
\* AllowHost, and DenyHost with the prune it goes on to: the host lock is held
\* from the first step to the second.
AllowHost(v, h) == <<Step("hostDir", v, h), Step("hostLink", v, h)>>
DenyHost(v, h) == <<Step("hostUnlink", v, h)>>

\* Hosts in the order a call visits them.
Each(hs, Steps(_)) ==
    LET order == SetToSeq(hs)
    IN  FlattenSeq([i \in DOMAIN order |-> Steps(order[i])])

RevokeHostsExcept(v, keep) ==
    Each(subsys[v].hosts \ keep, LAMBDA h : DenyHost(v, h))

\* Prepare: subsystem, grants, namespace; everything but the port.
Prepare(v, hs, local) ==
    <<Step("identity", v, NoHost), Step("subsystem", v, NoHost),
      Step("serial", v, NoHost)>>
        \o Each(hs, LAMBDA h : AllowHost(v, h))
        \o <<Step("namespace", v, NoHost)>>
        \o (IF local THEN <<Step("disable", v, NoHost)>> ELSE <<>>)
        \o <<Step("uuid", v, NoHost)>>
        \o (IF local THEN <<>> ELSE <<Step("enable", v, NoHost)>>)

Link(v) == <<Step("port", v, NoHost), Step("link", v, NoHost)>>

Apply(v) == Prepare(v, {}, FALSE) \o Link(v)

\* Remove, then the identity record: the namespace no host holds any more.
Teardown(v) ==
    <<Step("unlink", v, NoHost), Step("nsRemove", v, NoHost)>>
        \o RevokeHostsExcept(v, {})
        \o <<Step("subRemove", v, NoHost), Step("forget", v, NoHost)>>

\* restoreRank: the exports that require a value of the port come first.
RequestOrder(vs) ==
    LET asks == {v \in vs : NvInline[v] # 0 \/ NvLimit[v] # 0}
    IN  SetToSeq(asks) \o SetToSeq(vs \ asks)

ReconcileLinksEach(vs) ==
    LET one(v) == Prepare(v, listed[v].hosts, listed[v].local)
                    \o RevokeHostsExcept(v, listed[v].hosts) \o Link(v)
        order == RequestOrder(vs)
    IN  FlattenSeq([i \in DOMAIN order |-> one(order[i])])

\* Reconcile: prepareExport of every entry, then the links, in request order.
Reconcile(vs) ==
    LET one(v) == Prepare(v, listed[v].hosts, listed[v].local)
                    \o RevokeHostsExcept(v, listed[v].hosts)
        order == RequestOrder(vs)
    IN  FlattenSeq([i \in DOMAIN order |-> one(order[i])])
          \o FlattenSeq([i \in DOMAIN order |-> Link(order[i])])

\* lockTargets: a call starts once it has the target locks of its volumes.
Begin(w, rpc, vs, steps) ==
    /\ nvOp[w] = NoCall
    /\ nvCalls < NvMaxCalls
    /\ \A v \in vs : targetLock[v] = NvIdle
    /\ nvOp' = [nvOp EXCEPT ![w] =
                  [rpc |-> rpc, todo |-> steps, vols |-> vs, bad |-> {},
                   fresh |-> rpc = "complete" /\ restorePending /\ port.links = {},
                   fenced |-> {v \in vs : rpc # "export" /\ listed[v].local}]]
    /\ targetLock' = [v \in NvVolumes |-> IF v \in vs THEN w ELSE targetLock[v]]
    /\ nvCalls' = nvCalls + 1
    /\ UNCHANGED <<subsys, port, hostDirs, idRecord, restorePending, portLock,
                   hostLock, held, cachedId, raced, mdtsAttr, boot, nvFaults>>

\* checkExportRestoreDone gates every call that can make a port listen.
Gate == ~restorePending

\* CreateVolume exports a volume until the record says that it is exported.
ExportVolume(w, v) ==
    /\ Gate /\ ~listed[v].exported
    /\ Begin(w, "export", {v}, Apply(v))
    /\ UNCHANGED <<listed, refused>>

\* The record stops listing the export before the agent is asked to remove it.
UnexportVolume(w, v) ==
    /\ Begin(w, "unexport", {v}, Teardown(v))
    /\ listed' = [listed EXCEPT ![v] = Unexported]
    /\ UNCHANGED refused

\* A publication is recorded before it is granted and struck out before it is
\* revoked.
AllowInitiator(w, v, h) ==
    /\ Gate /\ listed[v].exported
    /\ Begin(w, "allow", {v}, AllowHost(v, h))
    /\ listed' = [listed EXCEPT ![v].hosts = @ \cup {h}]
    /\ UNCHANGED refused

DenyInitiator(w, v, h) ==
    /\ listed[v].exported
    /\ Begin(w, "deny", {v}, DenyHost(v, h))
    /\ listed' = [listed EXCEPT ![v].hosts = @ \ {h}]
    /\ UNCHANGED refused

SetLocalAttach(w, v, local) ==
    /\ Gate /\ listed[v].exported
    /\ Begin(w, "local", {v},
             <<Step(IF local THEN "disable" ELSE "enable", v, NoHost)>>)
    /\ listed' = [listed EXCEPT ![v].local = local]
    /\ UNCHANGED refused

\* The complete request lists every export of the record; a request for one
\* volume is gated like an export.
ReconcileState(w, v) ==
    /\ Gate /\ listed[v].exported
    /\ Begin(w, "reconcile", {v}, Reconcile({v}))
    /\ UNCHANGED <<listed, refused>>

ReconcileComplete(w) ==
    LET vs == {v \in NvVolumes : listed[v].exported}
    IN  /\ Begin(w, "complete", vs, Reconcile(vs))
        /\ UNCHANGED <<listed, refused>>

(***************************************************************************)
(* One step of a call.                                                     *)
(***************************************************************************)
At(w, do) == nvOp[w].todo # <<>> /\ Head(nvOp[w].todo).do = do
Vol(w) == Head(nvOp[w].todo).v
Host(w) == Head(nvOp[w].todo).h

Advance(w) == nvOp' = [nvOp EXCEPT ![w].todo = Tail(@)]
Then(w, do) ==
    nvOp' = [nvOp EXCEPT ![w].todo = <<Step(do, Vol(w), Host(w))>> \o Tail(@)]

\* An entry that fails ends; the entries of other volumes go on.
Failed(w) ==
    nvOp' = [nvOp EXCEPT ![w].todo = SelectSeq(@, LAMBDA s : s.v # Vol(w)),
                         ![w].bad = @ \cup {Vol(w)}]

WantForgetsRecord(v) ==
    [serial |-> IF subsys[v].dir THEN subsys[v].serial ELSE Derived,
     uuid   |-> IF subsys[v].enabled THEN subsys[v].uuid ELSE Derived]

\* resolveNVMeIdentity: identifiers of live kernel objects win over the
\* record, the record over the derived ones; what cannot be derived is stored.
Want(v) ==
    LET base == IF idRecord[v] # NoIdentity THEN idRecord[v] ELSE DeriveIdentity
    IN  [serial |-> IF subsys[v].dir THEN subsys[v].serial ELSE base.serial,
         uuid   |-> IF subsys[v].enabled THEN subsys[v].uuid ELSE base.uuid]

resolveNVMeIdentity(w) ==
    LET v == Vol(w)
    IN  /\ At(w, "identity")
        /\ idRecord' = [idRecord EXCEPT ![v] =
                          IF Want(v) = DeriveIdentity THEN NoIdentity ELSE Want(v)]
        /\ Advance(w)
        /\ UNCHANGED <<subsys, port, hostDirs, portLock, hostLock, cachedId, raced>>

\* desiredIdentity, as the steps after resolveNVMeIdentity use it.
Desired(v) == IF idRecord[v] = NoIdentity THEN DeriveIdentity ELSE idRecord[v]

\* createSubsystem: the directory comes with a serial of the kernel's, which
\* is then replaced.
MadeSubsystem(v) ==
    IF subsys[v].dir THEN subsys[v]
    ELSE [subsys[v] EXCEPT !.dir = TRUE, !.serial = KernelRandom(boot)]

createSubsystem(w) ==
    LET v == Vol(w)
    IN  /\ \/ /\ At(w, "subsystem")
              /\ subsys' = [subsys EXCEPT ![v] = MadeSubsystem(v)]
           \/ /\ At(w, "serial")
              /\ subsys' = [subsys EXCEPT ![v].serial = Desired(v).serial]
        /\ Advance(w)
        /\ UNCHANGED <<port, hostDirs, idRecord, portLock, hostLock, cachedId, raced>>

\* What an initiator that can reach the namespace caches of it.
Visible(v, s, links) == s.ns /\ s.enabled /\ s.hosts # {} /\ v \in links
Cached(s, links) ==
    [v \in NvVolumes |->
       IF cachedId[v] = NoIdentity /\ Visible(v, s[v], links)
       THEN [serial |-> s[v].serial, uuid |-> s[v].uuid]
       ELSE cachedId[v]]

\* createNamespace and ensureNamespaceIdentity: an enabled namespace must
\* already carry the identity, a disabled one is given it.
createNamespace(w) ==
    LET v == Vol(w)
        wrong == subsys[v].enabled /\ subsys[v].uuid # Desired(v).uuid
    IN  /\ \/ /\ At(w, "namespace")
              /\ subsys' = [subsys EXCEPT ![v] =
                              IF @.ns THEN @
                              ELSE [@ EXCEPT !.ns = TRUE,
                                             !.uuid = KernelRandom(boot)]]
              /\ Advance(w)
              /\ UNCHANGED raced
           \/ /\ At(w, "uuid")
              /\ IF wrong
                 THEN Failed(w) /\ raced' = TRUE /\ UNCHANGED subsys
                 ELSE /\ subsys' = [subsys EXCEPT ![v].uuid = Desired(v).uuid]
                      /\ Advance(w)
                      /\ UNCHANGED raced
        /\ UNCHANGED <<port, hostDirs, idRecord, portLock, hostLock, cachedId>>

\* enableNamespace holds a claim on the device across the write, so it fails
\* while the storage node holds the device.  A missing namespace is an error.
enableNamespace(w) ==
    LET v == Vol(w)
    IN  /\ At(w, "enable")
        /\ IF ~subsys[v].ns \/ (~subsys[v].enabled /\ v \in held)
           THEN Failed(w) /\ UNCHANGED <<subsys, cachedId>>
           ELSE /\ subsys' = [subsys EXCEPT ![v].enabled = TRUE]
                /\ cachedId' = Cached(subsys', port.links)
                /\ Advance(w)
        /\ UNCHANGED <<port, hostDirs, idRecord, portLock, hostLock, raced>>

\* Disabling tells the connected initiators that the namespace is gone, and
\* they drop what they cached.
disableNamespace(w) ==
    LET v == Vol(w)
    IN  /\ At(w, "disable")
        /\ IF ~subsys[v].ns
           THEN Failed(w) /\ UNCHANGED <<subsys, cachedId>>
           ELSE /\ subsys' = [subsys EXCEPT ![v].enabled = FALSE]
                /\ cachedId' = [cachedId EXCEPT ![v] = NoIdentity]
                /\ Advance(w)
        /\ UNCHANGED <<port, hostDirs, idRecord, portLock, hostLock, raced>>

(***************************************************************************)
(* The shared port.                                                        *)
(***************************************************************************)
\* setPortMDTSFloors: the smallest limit the volumes of one request ask for.
SmallestLimit(vs) ==
    LET limits == {NvLimit[v] : v \in vs} \ {0}
    IN  IF limits = {} THEN 0
        ELSE CHOOSE l \in limits : \A k \in limits : l <= k

FrozenPortAllowsAnyLimit(v) == NvInline[v] \in {0, port.inline}

\* ensureInlineDataSizeLocked and linkedPortMDTSAllows: a port with a linked
\* subsystem is frozen.  It serves an export that asks for its inline size or
\* for none, and whose limit is at least its own; a port without a limit
\* serves any, and the nodes cap their devices themselves.
FrozenPortAllows(v) ==
    /\ NvInline[v] \in {0, port.inline}
    /\ NvLimit[v] = 0 \/ port.mdts = 0 \/ port.mdts <= NvLimit[v]

\* ensurePortLocked: an idle port takes the values of the export, its limit
\* lowered to that of the exports it is linked with (idlePortMDTS).  A kernel
\* without param_mdts advertises none.
ConfiguredPort(w, v) ==
    IF port.links # {} THEN port
    ELSE [port EXCEPT !.dir = TRUE, !.inline = NvInline[v],
                      !.mdts = IF mdtsAttr THEN SmallestLimit(nvOp[w].vols) ELSE 0]

\* verifyPrepared refuses to link what is not prepared; ensurePortLocked
\* refuses a conflict and removes a port it created (prunePortLocked).
ensurePort(w) ==
    LET v == Vol(w)
        s == subsys[v]
        prepared == s.ns /\ s.enabled = (v \notin nvOp[w].fenced)
        allowed == port.links = {} \/ FrozenPortAllows(v)
    IN  /\ At(w, "port")
        /\ portLock = NvIdle
        /\ IF prepared /\ allowed
           THEN /\ port' = ConfiguredPort(w, v)
                /\ portLock' = w
                /\ Advance(w)
                /\ UNCHANGED raced
           ELSE /\ Failed(w)
                /\ raced' = (raced \/ ~prepared \/ nvOp[w].fresh)
                /\ UNCHANGED <<port, portLock>>
        /\ UNCHANGED <<subsys, hostDirs, idRecord, hostLock, cachedId>>

linkSubsystemToPort(w) ==
    LET v == Vol(w)
    IN  /\ At(w, "link")
        /\ portLock' = NvIdle
        /\ IF port.dir
           THEN /\ port' = [port EXCEPT !.links = @ \cup {v}]
                /\ cachedId' = Cached(subsys, port'.links)
                /\ Advance(w)
                /\ UNCHANGED raced
           ELSE Failed(w) /\ raced' = TRUE /\ UNCHANGED <<port, cachedId>>
        /\ UNCHANGED <<subsys, hostDirs, idRecord, hostLock>>

\* A mutant of the pruning: the entry goes while a subsystem is linked.
PrunesLinkedPort == [port EXCEPT !.dir = FALSE]

\* prunePortLocked: rmdir, unless another subsystem is linked to the port.
prunePortLocked == IF port.links = {} THEN NoPort ELSE port

\* unlinkFromPort: remove the link, then the port unless another subsystem is
\* linked to it, under one hold of the port lock.
unlinkFromPort(w) ==
    LET v == Vol(w)
    IN  /\ \/ /\ At(w, "unlink")
              /\ portLock = NvIdle
              /\ v \in port.links
              /\ port' = [port EXCEPT !.links = @ \ {v}]
              /\ portLock' = w
              /\ Then(w, "portPrune")
           \/ /\ At(w, "unlink")
              /\ portLock = NvIdle
              /\ v \notin port.links
              /\ Advance(w)
              /\ UNCHANGED <<port, portLock>>
           \/ /\ At(w, "portPrune")
              /\ port' = prunePortLocked
              /\ portLock' = NvIdle
              /\ Advance(w)
        /\ UNCHANGED <<subsys, hostDirs, idRecord, hostLock, cachedId, raced>>

(***************************************************************************)
(* The shared host entries.                                                *)
(***************************************************************************)
\* AllowHost makes the allowed_hosts directory with all its parents, and the
\* kernel makes a subsystem of a missing one.  A host entry that disappeared
\* between the two steps is the race the host lock excludes.
allowHost(w) ==
    LET v == Vol(w)
        h == Host(w)
    IN  /\ \/ /\ At(w, "hostDir")
              /\ hostLock[h] = NvIdle
              /\ hostDirs' = hostDirs \cup {h}
              /\ hostLock' = [hostLock EXCEPT ![h] = w]
              /\ Advance(w)
              /\ UNCHANGED <<subsys, cachedId, raced>>
           \/ /\ At(w, "hostLink")
              /\ hostLock' = [hostLock EXCEPT ![h] = NvIdle]
              /\ subsys' = [subsys EXCEPT ![v] =
                              [MadeSubsystem(v) EXCEPT !.hosts =
                                 @ \cup ({h} \cap hostDirs)]]
              /\ cachedId' = Cached(subsys', port.links)
              /\ IF h \in hostDirs
                 THEN Advance(w) /\ UNCHANGED raced
                 ELSE Failed(w) /\ raced' = TRUE
              /\ UNCHANGED hostDirs
        /\ UNCHANGED <<port, idRecord, portLock>>

\* hostReferenced scans every subsystem; an entry still granted somewhere stays.
hostReferenced(h) == \E v \in NvVolumes : h \in subsys[v].hosts

denyHostUnlocked(w) ==
    LET v == Vol(w)
        h == Host(w)
    IN  /\ \/ /\ At(w, "hostUnlink")
              /\ subsys' = [subsys EXCEPT ![v].hosts = @ \ {h}]
              /\ Then(w, IF h \in subsys[v].hosts THEN "hostPrune" ELSE "hostTidy")
              /\ UNCHANGED hostDirs
           \/ /\ At(w, "hostPrune") \/ At(w, "hostTidy")
              /\ hostDirs' = IF hostReferenced(h) THEN hostDirs
                             ELSE hostDirs \ {h}
              /\ Advance(w)
              /\ UNCHANGED subsys
        /\ UNCHANGED <<port, idRecord, portLock, hostLock, cachedId, raced>>

denyHost(w) ==
    LET v == Vol(w)
        h == Host(w)
    IN  /\ \/ /\ At(w, "hostUnlink")
              /\ hostLock[h] = NvIdle
              /\ subsys' = [subsys EXCEPT ![v].hosts = @ \ {h}]
              /\ hostLock' = [hostLock EXCEPT ![h] = w]
              /\ Then(w, IF h \in subsys[v].hosts THEN "hostPrune" ELSE "hostTidy")
              /\ UNCHANGED hostDirs
           \/ /\ At(w, "hostPrune") \/ At(w, "hostTidy")
              /\ hostDirs' = IF hostReferenced(h) THEN hostDirs
                             ELSE hostDirs \ {h}
              /\ hostLock' = [hostLock EXCEPT ![h] = NvIdle]
              /\ Advance(w)
              /\ UNCHANGED subsys
        /\ UNCHANGED <<port, idRecord, portLock, cachedId, raced>>

(***************************************************************************)
(* The end of Remove, and of a call.                                       *)
(***************************************************************************)
\* A subsystem still linked or granted cannot be removed.
removeSubsystem(w) ==
    LET v == Vol(w)
        s == subsys[v]
    IN  /\ \/ /\ At(w, "nsRemove")
              /\ subsys' = [subsys EXCEPT ![v].ns = FALSE, ![v].uuid = NoId,
                                          ![v].enabled = FALSE]
              /\ Advance(w)
              /\ UNCHANGED <<idRecord, raced, cachedId>>
           \/ /\ At(w, "subRemove")
              /\ IF s.hosts = {} /\ v \notin port.links
                 THEN /\ subsys' = [subsys EXCEPT ![v] = Absent]
                      /\ Advance(w)
                      /\ UNCHANGED raced
                 ELSE Failed(w) /\ raced' = TRUE /\ UNCHANGED subsys
              /\ UNCHANGED <<idRecord, cachedId>>
           \/ /\ At(w, "forget")
              /\ idRecord' = [idRecord EXCEPT ![v] = NoIdentity]
              /\ cachedId' = [cachedId EXCEPT ![v] = NoIdentity]
              /\ Advance(w)
              /\ UNCHANGED <<subsys, raced>>
        /\ UNCHANGED <<port, hostDirs, portLock, hostLock>>

NvStep(w) ==
    /\ \/ resolveNVMeIdentity(w)
       \/ createSubsystem(w)
       \/ createNamespace(w)
       \/ enableNamespace(w)
       \/ disableNamespace(w)
       \/ ensurePort(w)
       \/ linkSubsystemToPort(w)
       \/ unlinkFromPort(w)
       \/ allowHost(w)
       \/ denyHost(w)
       \/ removeSubsystem(w)
    /\ UNCHANGED <<restorePending, targetLock, held, listed, refused, mdtsAttr,
                   boot, nvCalls, nvFaults>>

\* A step fails.  A failed link prunes a port that serves nothing, and a
\* failed prune puts the link back (linkSubsystemToPort, unlinkFromPort,
\* DenyHost): the error leaves the export as it was.
StepFails(w) ==
    LET v == Vol(w)
        h == Host(w)
        relink == At(w, "portPrune")
        regrant == At(w, "hostPrune")
    IN  /\ nvFaults < NvMaxFaults
        /\ nvOp[w].todo # <<>>
        /\ nvFaults' = nvFaults + 1
        /\ Failed(w)
        /\ port' = IF relink THEN [port EXCEPT !.links = @ \cup {v}]
                   ELSE IF At(w, "link") /\ port.links = {} THEN NoPort
                   ELSE port
        /\ subsys' = IF regrant THEN [subsys EXCEPT ![v].hosts = @ \cup {h}]
                     ELSE subsys
        /\ portLock' = IF portLock = w THEN NvIdle ELSE portLock
        /\ hostLock' = [x \in NvHosts |->
                          IF hostLock[x] = w THEN NvIdle ELSE hostLock[x]]
        /\ UNCHANGED <<hostDirs, idRecord, restorePending, targetLock, held,
                       listed, refused, cachedId, raced, mdtsAttr, boot, nvCalls>>

\* A call returns.  The complete request opens the gate whatever failed in
\* it; the answer to an export may be lost before it is recorded.
CallReturns(w) ==
    LET c == nvOp[w]
    IN  /\ c # NoCall /\ c.todo = <<>>
        /\ nvOp' = [nvOp EXCEPT ![w] = NoCall]
        /\ targetLock' = [v \in NvVolumes |->
                            IF v \in c.vols THEN NvIdle ELSE targetLock[v]]
        /\ restorePending' = (restorePending /\ c.rpc # "complete")
        /\ refused' = IF c.rpc = "complete" THEN refused \cup c.bad ELSE refused
        /\ \E recorded \in BOOLEAN :
             listed' = [v \in NvVolumes |->
                          IF c.rpc = "export" /\ v \in c.vols \ c.bad /\ recorded
                          THEN [listed[v] EXCEPT !.exported = TRUE]
                          ELSE listed[v]]
        /\ UNCHANGED <<subsys, port, hostDirs, idRecord, portLock, hostLock,
                       held, cachedId, raced, mdtsAttr, boot, nvCalls, nvFaults>>

\* The agent dies: configfs stays, the restarted agent waits for a complete
\* request.
AgentDies ==
    /\ nvOp' = [w \in NvWorkers |-> NoCall]
    /\ portLock' = NvIdle
    /\ hostLock' = [h \in NvHosts |-> NvIdle]
    /\ targetLock' = [v \in NvVolumes |-> NvIdle]
    /\ restorePending' = TRUE

AgentRestarts ==
    /\ nvFaults < NvMaxFaults
    /\ nvFaults' = nvFaults + 1
    /\ AgentDies
    /\ UNCHANGED <<subsys, port, hostDirs, idRecord, held, listed, refused,
                   cachedId, raced, mdtsAttr, boot, nvCalls>>

\* configfs is empty again, under a kernel with or without param_mdts.
StorageNodeReboots ==
    /\ boot < NvMaxBoots
    /\ boot' = boot + 1
    /\ AgentDies
    /\ subsys' = [v \in NvVolumes |-> Absent]
    /\ port' = NoPort
    /\ hostDirs' = {}
    /\ held' = {}
    /\ mdtsAttr' \in BOOLEAN
    /\ UNCHANGED <<idRecord, listed, refused, cachedId, raced, nvCalls, nvFaults>>

\* The node plugin of the storage node claims a device whose namespace it read
\* disabled, and lets go of it.
NodeHolds(v) ==
    /\ held' = IF v \in held THEN held \ {v} ELSE held \cup {v}
    /\ v \in held \/ (listed[v].local /\ subsys[v].ns /\ ~subsys[v].enabled)
    /\ UNCHANGED <<subsys, port, hostDirs, idRecord, restorePending, nvOp,
                   portLock, hostLock, targetLock, listed, refused, cachedId,
                   raced, mdtsAttr, boot, nvCalls, nvFaults>>

NvNext ==
    \/ \E w \in NvWorkers, v \in NvVolumes :
         \/ ExportVolume(w, v)
         \/ UnexportVolume(w, v)
         \/ ReconcileState(w, v)
         \/ \E h \in NvHosts : AllowInitiator(w, v, h) \/ DenyInitiator(w, v, h)
         \/ \E local \in BOOLEAN : SetLocalAttach(w, v, local)
    \/ \E w \in NvWorkers :
         ReconcileComplete(w) \/ NvStep(w) \/ StepFails(w) \/ CallReturns(w)
    \/ \E v \in NvVolumes : NodeHolds(v)
    \/ AgentRestarts
    \/ StorageNodeReboots

NvSpec == NvInit /\ [][NvNext]_nvmetVars

(***************************************************************************)
(* Properties.                                                             *)
(***************************************************************************)
Ids == 0 .. NvMaxBoots + 1

NvTypeOK ==
    /\ \A v \in NvVolumes :
         /\ subsys[v].serial \in Ids /\ subsys[v].uuid \in Ids
         /\ subsys[v].hosts \subseteq NvHosts
         /\ subsys[v].ns => subsys[v].dir
         /\ subsys[v].enabled => subsys[v].ns
    /\ port.links \subseteq NvVolumes /\ (port.links # {} => port.dir)
    /\ hostDirs \subseteq NvHosts
    /\ portLock \in NvWorkers \cup {NvIdle}

\* After a restart the first subsystem a port is linked to makes the port
\* answer for all: by then every export of the complete request is fully
\* prepared, its initiators included, or its entry was refused
\* (protocol_handler.go Reconcile, server_export_restore.go).
Ready(v) ==
    /\ subsys[v].ns
    /\ subsys[v].serial = Desired(v).serial /\ subsys[v].uuid = Desired(v).uuid
    /\ listed[v].hosts \subseteq subsys[v].hosts
ListensRestored ==
    restorePending /\ port.links = {} /\ port'.links # {} =>
        \E w \in NvWorkers :
          \A v \in NvVolumes : listed[v].exported /\ v \notin nvOp[w].bad => Ready(v)

RestoredBeforeListening == [][ListensRestored]_nvmetVars

\* The namespace identity an initiator cached is the one it finds after every
\* reconnect, across agent restarts, reboots, failed calls and retries, of
\* every export that each restore put back (nvme_identity.go, identity.go).
NamespaceIdentityKept ==
    \A v \in NvVolumes \ refused :
      Visible(v, subsys[v], port.links) => cachedId[v].uuid = subsys[v].uuid

\* The same for the whole identity, the subsystem serial included, as the
\* contract of nvme_identity.go states it.
IdentityKept ==
    \A v \in NvVolumes :
      Visible(v, subsys[v], port.links) =>
        cachedId[v] = [serial |-> subsys[v].serial, uuid |-> subsys[v].uuid]

\* Creating and pruning the shared port and host entries never collide, and a
\* restore never fails over the values its own exports ask of the port: what
\* fails a call is a failing write, a held device or an export it does not
\* know (hostLock, portLock, setPortMDTSFloors in internal/agent).
NothingRaces == ~raced

\* A port that advertises a transfer limit never advertises a larger one than
\* any export linked to it allows, whatever order they were linked in and
\* whatever was restored with them (ensureMDTSLocked: "Only a port limit larger
\* than a non-zero request fails, instead of letting hosts send commands
\* larger than the volume allows").
PortHonoursLimits ==
    port.mdts # 0 => \A v \in port.links : NvLimit[v] # 0 => port.mdts <= NvLimit[v]
====
