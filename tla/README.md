# pillar-csi in TLA+

pillar-csi is a Kubernetes CSI driver. This directory holds TLA+ models of the
parts of it whose correctness depends on the order of events, TLC
configurations that explore them on small instances, and TLAPS proofs of what
matters most for every size. Paths below are relative to `src/`.

## The system

| Part | Where it runs | State | What changes it |
|---|---|---|---|
| CSI controller service (`internal/csi/controller.go`) | controller processes; a former leader may still be running calls | none of its own; per-volume locks in memory | Create, Delete, Publish, Unpublish, Expand |
| PillarVolumeState record (`internal/csi/volume_fencing.go`) | API server | UID, publication generation, phase, deletion mark, publications, local-attach node, adoption | status writes, each a UID-pinned compare-and-swap |
| Export resync and restore (`internal/csi/export_resync.go`) | controller | none | sends one volume's, or one agent's complete, desired exports |
| Reaper (`internal/csi/volume_reap.go`) | controller | none | ends lifecycles whose claim is gone |
| Backend reservations (`internal/csi/import_reservation.go`) | API server | one object per imported zvol or LV | import, delete |
| Ownership recovery (`internal/csi/recovery.go`, `internal/agent/server_recovery.go`) | controller, agent | recovery intent, mark transfer | recover |
| CRD reconcilers (`internal/controller`) | controller | status and finalizers of PillarAgent, PillarStore, PillarProtocol, PillarStorageClass | reconcile |
| Agent fencing (`internal/agent/fencing.go`) | agent on the storage node | one durable mark file per volume, one lock per volume | every mutating RPC |
| Agent RPCs (`internal/agent/server_*.go`, `protocol_handler*.go`) | agent | backend volume, target configuration, restore gate | Create, Import, Expand, Delete, Release, Export, Unexport, Allow, Deny, SetLocalAttach, ReconcileState |
| Targets (`internal/agent/nvmeof`, `lio`, `nfs`) | agent, kernel | subsystem, namespace, ACL; NFS export records | the RPCs above |
| Backends (`internal/agent/backend`) | agent, kernel | zvols, LVs, directories | create, expand, delete, import |
| Node service (`internal/csi/node.go` and the files beside it) | node plugin | stage records, mounts, transport sessions, device-mapper claims | Stage, Unstage, Publish, Unpublish, Expand, trim |
| Initiators (`internal/iscsi`, `internal/csi/nvmeof_*.go`) | node plugin, kernel | sessions | connect, disconnect, recovery |

How they interact. A volume name has a *lifecycle* from the creation of its
PillarVolumeState to its removal, identified by the object's UID. Every write
that orders something commits a new *publication generation*. A request to the
agent carries the pair (UID, generation) as its token. The agent keeps, per
volume, a durable *mark* with the lifecycle that owns the volume ID and the
highest generation it admitted, and checks the token in the critical section
that also performs the mutation. This is what keeps calls of a former leader,
late retries and requests overtaken by newer ones away from the data; nothing
else does, because locks are local to a process.

What makes it hard: several controller processes; calls that time out and whose
request still arrives; a name deleted and created again; agent restarts and
power losses between the mark and the mutation, or before a rename is synced;
reads of the record used after the record changed; a storage node that both
serves a volume and mounts it. `PROJECT.json` lists these hazards one by one,
each with the line where it bites and the property that would catch it.

## Modules

| Module | Models |
|---|---|
| `FencingMark` | tokens, marks, `admitFencingToken`, `pinImportSource`, `retireFence`: pure operators |
| `FencedAgent` | the agent's critical sections for one volume ID, with crashes and power losses |
| `FencedResource` | abstract: what the fencing promises about the order of mutations |
| `FencedAgent_proofs` | theorems about `FencedAgent` |
| `VolumeState` | the PillarVolumeState and each status write: pure operators |
| `VolumeControl` | controller calls, the record, claim and PersistentVolume, and the agent, composed |
| `VolumeCore_proofs`, `VolumeControl_proofs`, `VolumeGrants_proofs`, `VolumeSafety_proofs` | theorems about `VolumeControl`: the core invariant, the controllers' steps, publications and the reaper, and the theorems |
| `NodeStage` | one volume on one node: stage, unstage, publish, repair, and the agent's export beside it |
| `NodeStage_proofs` | theorems about `NodeStage` and `IscsiLogin` |
| `ImportClaims` | several claims after one zvol, LV or filesystem: scans, reservations, the agent's claim |
| `Recovery` | the transfer of an adopted LV from a lost cluster's lifecycle to a new one |
| `NvmetTarget` | the NVMe-oF target: configfs writes of several volumes on one port |
| `LioTarget` | the iSCSI target of one volume, configfs step by configfs step |
| `NfsExports` | NFS admission: ledger, kernel table, helper, proxies of adopted filesystems |
| `BlockBackends` | zvols and LVs: create, expand, delete, import, against an administrator |
| `DatasetBackend`, `DirectoryBackend` | mounting and adopting ZFS datasets and quota directories |
| `ZfsSpace` | the space and quota arithmetic of the ZFS backend against OpenZFS's accounting |
| `IscsiSession`, `IscsiLogin` | the node's iSCSI initiator: sessions and their recovery; the login negotiation |
| `NvmeHost` | NVMe-oF connect and disconnect, transfer limits, periodic trim, growth |
| `IscsiSession_proofs` | theorems about `IscsiSession` |
| `StorageClassSync` | the StorageClass a PillarStorageClass generates, and its re-creation |
| `Loops_proofs` | theorems about `NvmeHost`, `Recovery` and `StorageClassSync` |
| `DeletionGuards` | the finalizers of the configuration objects |
| `Readiness` | how the state of node, agent, pool and Secret reaches the class's Ready condition |
| `MCFencedAgent`, `MCAgent`, `MCVolumeControl`, `MCNodeStage`, `MCStorage`, `MCLoops` | sets, symmetries and compositions for TLC |

Operators ending in what they get wrong (`AdmitsRetired`,
`AdmittedMarkDropsPin`, `DesiredHostsWithRevoking`, `ReapUnchecked`...) are
faulty variants of the definition that follows them. No specification uses
them; putting one in the place of the right definition shows that a property
can fail.

### FencedAgent

State: `mark` is the mark file as a reader sees it; `disk` is the set of marks
one of which a power loss leaves behind (a rename whose directory fsync did not
complete adds to it, a completed one leaves a single mark); `lock` is the
request inside the volume's fencing lock; `pend` holds RPCs between two
critical sections (ReconcileState between prepare and link, ReleaseVolume
between its two retirements); `lv` is what the volume ID's locator names on the
node. `last`, `dead`, `deleted`, `released`, `adopted` are history.

Actions: `Request` is the start of a fenced RPC (`fencedChecked`: lock, read,
admit, check, persist), `Mutate`, `MutateFails`, `RecordEnded`,
`RecordEndedFails` its end (`runFencedMutation`); the `...Fails` variants are a
mark write whose rename happened but was not synced. `RetryPinnedDelete`,
`RecheckLink`, `ImportVolume`, `ReleaseVolume`, `ReleaseOwned`,
`ReleaseUnexport`, `ReleaseRetire` are the other ways into the lock.
`Crash` loses lock and half-finished RPCs, `PowerLoss` also chooses a mark of
`disk`, `ReplaceResource` is an administrator working on LVs. A request that is
refused, or fails before its rename, changes nothing and is no action.

Any token may arrive at any time, so controllers, network and retries are all
in the environment.

### VolumeControl

A *worker* is one running controller call: its program counter, the token it
holds, the agent request it waits for, and what it read earlier. Workers share
only `pvs`. The per-volume lock orders the calls of one process, and
CreateVolume does not take it; runs with two workers are two processes, the run
with one worker is the one-process case.

A status write and the request sent right after it are one action (a crash in
between is a request that never executes). The agent serves a request in one
action, `Serve` or `ServeFails`; that it acts as one is what `FencedAgent`
shows. `Abandon` is an error, a deadline or the loss of the process at any
point; the request may stay behind in `stray` and execute later or never.
Resync and restore requests always go through `stray`.

`claim`, `pv` are the claim and the PersistentVolume the reaper looks at;
`gated` is the agent's restore gate; `exp` is the target (up, ACL, namespace
enabled); `vol` is the owner of the backend volume. `spec` is fixed per
behaviour: access mode, localAttach, import. The access mode is one of the
volume here and one of each publication in the code; `canSharePublication`
refuses mixed modes.

### NodeStage

State: what the host holds (`mnt` the staging mount, `binds` the pods' targets,
`fs` the superblock they share, `claim` the device-mapper target of a local
attach, `sess` the transport session), `rec` the stage record as a read sees it
and as a reboot may leave it, `enabled` and `agent` the namespace and the step
of `enableNamespace` (from `claimed` on it holds its exclusive descriptor), and
what kubelet was told (`staged`, `unstaged`, `wanted`, `published`). `kind` is
fixed per behaviour: local, network or NFS, and writable, read-only or raw
block.

The per-volume lock admits one call at a time (`op`, `pc`); a call advances by
one system call per action, each of which may fail, and `PluginCrash`,
`Reboot`, `FilesystemDies` and the agent act between any two. kubelet is
external: it publishes only after a stage that succeeded since the last boot
and unstages only when every target it asked for was unpublished. The in-memory
state machine is absent, as `cmd/node` starts the server without it.

A pod target can also be bound while nothing is staged (`bare`): the publish
then shows the directory under the staging path. `PublishedShowsVolume` says
that this never counts as a publish of the volume.

### The storage node

These modules follow one pattern. A call is a sequence of steps, one per
configfs write, command, durable write or read of a kernel table; the lock the
code takes is a variable; any step may fail, the agent may die between two, and
a reboot clears what the kernel holds and keeps what is on disk. What an
administrator or another process may do to the same objects is an action of its
own. Which requests are fresh is `FencedAgent`'s subject and is not repeated.

- `NvmetTarget`: two volumes share a port and host entries. `subsys`, `port`,
  `hostDirs` are configfs; `idRecord` is the durable identity record;
  `restorePending` is the restore gate; `nvOp[w]` is the list of writes a call
  still has to make. Calls of different volumes interleave between two writes,
  ordered only by `portLock`, `hostLock` and `targetLock`. `cachedId` is what an
  initiator saw before; `mdtsAttr` says whether this kernel's ports can advertise
  a transfer limit at all, which may change with a reboot.
- `LioTarget`: targets share nothing, so one target with its portal group
  (`tpg`), node ACLs (`acl`) and one call at a time. `lioGranted` and
  `lioWithdrawn` are what callers were told.
- `NfsExports`: `owner` is `owner.json`, `mgr` the manager's memory, `etab` and
  `nfsd` the kernel, `helper` the process that holds the runtime, `exportDir`
  the proxy mounts, `fsMark` the mark of an adopted filesystem.
- `BlockBackends`, `DatasetBackend`: every command names its volume by NAME,
  and which volume has the name may change between two commands; UUIDs and
  GUIDs are never reused, kernel device numbers are. A request may override the
  provisioning mode of the LVM backend (`EffectiveMode`).
- `DirectoryBackend`: the walk over a tree whose inodes may have names outside.
- `ZfsSpace`: pure arithmetic on a chain of datasets; the reference is
  OpenZFS's accounting, which is external.

### Imports and recovery

`ImportClaims` takes every read and write of the API server as a step, and the
replicas of the controller share nothing else. Scenarios are two claims that
name the same LV under two names, an import and a creation of one zvol, and two
adoptions of one filesystem path. `Recovery` has the operator's record and
authorization, the controller's and the agent's side of the transfer, the late
requests of the lost cluster, and the mark as seen and as on disk.

### The worker node

`IscsiSession` separates what the kernel keeps (session, connection, disk, data
not yet written) from the session objects of the process, which a restart loses.
Volume calls, recovery loops, the event dispatcher and the supervisor interleave;
an event may be lost. `IscsiLogin` plays the negotiation against a target that
answers, delays and proposes in any order; a completed login is corrected by
`finalizeNegotiated` and started (`StartConnection`), and a retry asks for the
session of the last login that was started (`handle`). In `NvmeHost` the CSI calls, the
trimmer and the transfer-limit reconciler share the volume lock, while the
kernel's controllers reconnect, die and are reused on their own; a mount or the
stage record that follows it may fail.

### The configuration objects

All three modules have informers that lag, each kind on its own, calls that fail
and controller restarts. In `StorageClassSync` a copy of an object is its value
and whether it is still the current version, which is all that resourceVersion
decides. In `DeletionGuards` four controllers list what needs their object, one
kind after the other, while a volume is created and deleted. In `Readiness`
events and requeue intervals put a controller into its work queue, also in the
middle of a pass.

### Compositions

`VolumeControl` composes the controller with the agent, `NodeStage` the node
plugin with the agent's namespace switch. `MCAgent`, `MCStorage` and `MCLoops`
put components into one run that share no state: `part` names the one that
moves, so the state spaces add. The properties of such a run say for each part
what holds there, and each of their conjuncts has a faulty variant of its own.

## Runs

| Run | Instance | Shows |
|---|---|---|
| `fenced_agent` | 2 lifecycles, 2 generations, 2 LVs, one RPC between phases; and the four backend modules | the properties of `FencedAgent` and of the backends below |
| `release_durability` | the same with 1 LV | fails: see Findings |
| `lifecycle` | 2 lifecycles, 2 workers, generations to 4, 1 late request; created and imported volumes | `NothingOrphaned`, `DestroysOnlyRetired`, `ReapsOnlyUnreported` |
| `publish` | storage node and one other, 2 workers, generations to 7, reboots; SINGLE_NODE and MULTI_NODE. A localAttach volume with one call at a time and generations to 10 | `NoUnrecordedGrant`, `GrantsStand`, `SingleNodeExclusive` |
| `local_attach_race` | a localAttach volume, 2 workers at a time, generations to 8 | fails: see Findings |
| `reap_race` | 2 workers, CreateVolume and reaper | fails: see Findings |
| `deletion` | 1 lifecycle, 2 workers, restarts, fairness | `DeletionCompletes` |
| `deletion_import` | the same for an import | fails: see Findings |
| `node_stage` | 2 targets, all eight kinds, 2 filesystem shutdowns, fairness | the properties of `NodeStage` below |
| `storage` | the seven components of `MCStorage` | the properties of the targets, imports and configuration below |
| `zvol_shrink` | the zvol backend alone | fails: see Findings |
| `loops` | the four components of `MCLoops`, fairness | the properties of the loops below |

Properties of `FencedAgent`:

- `NoStaleMutation`, `ImplementsPromise`: a request that mutates is never older
  than one that already did, and a lifecycle followed by another never acts
  again (refinement of `FencedResource`);
- `MarkCoversMutations`, `MarkNeverRegresses`: whatever a power loss leaves
  covers every mutation executed, and the durable mark only moves forward;
- `DeleteIsDurable`, `NoGrantAfterDelete`: a reported deletion is durable and
  final for its lifecycle;
- `DestroysOnlyAdopted`: a volume ID that adopted an LV destroys no other one,
  and no preserved one, in any later lifecycle.

Properties of `VolumeControl`:

- `NoUnrecordedGrant`: no initiator has access without a publication on record;
- `GrantsStand`: a successful publish keeps its access until it is unpublished
  or the storage node reboots, whatever late requests arrive;
- `SingleNodeExclusive`: a SINGLE_NODE volume is never published twice;
- `NothingOrphaned`: neither backend volume nor target outlives its record;
- `DestroysOnlyRetired`: nothing is destroyed that is published, not marked
  deleting, or was never adopted;
- `ReapsOnlyUnreported`: the reaper ends nothing that was reported created, as
  long as CreateVolume calls of one name do not overlap;
- `DeletionCompletes`: a deletion that was marked is eventually finished.

Properties of `NodeStage`:

- `NeverServedWhileMounted`: the namespace is not enabled while the storage
  node has the volume mounted, however the node's claim and check and the
  agent's claim and write interleave;
- `NoMountOutlivesDevice`: neither claim nor session goes away under a mount;
- `UnstageLeavesNothing`: a successful unstage leaves no mount, claim or
  record, also after stagings that failed half-way;
- `StagedIsRecorded`: a reported stage survives a power loss;
- `PublishedShowsVolume`, `BoundStaysStaged`: a published pod sees the volume,
  and its staging mount is not taken away by a repair or a rollback;
- `PublishRecovers`: a dead writable filesystem used by one pod is repaired by
  repeating NodePublishVolume alone.

Properties of the backends (`MCAgent`):

- `AdoptedIsExamined`: the LV an import adopts is the pinned one on the device
  it holds, and idle (a zvol is exempt: its request pins no identity, and
  the claim is given up before the answer); a dataset pin is the recorded GUID; an accepted directory
  owns its whole project quota;
- `DatasetsHold`: closing a mountpoint never changes a mounted root; the
  capacity reported is what OpenZFS admits; the adopted quota is the one that
  binds.

Properties of the targets, imports and configuration (`MCStorage`):

- `SharedTargetHolds`: exports that share a port do not disturb each other. An
  initiator finds the namespace identity it cached, a port that
  advertises a transfer limit advertises none above that of an export linked to
  it, and creating and pruning shared entries never collide;
- `ServesOnlyGranted`: an iSCSI portal that answers serves the volume to every
  initiator whose grant was reported, and one whose withdrawal was reported has
  no ACL until it is allowed again; whatever is in the NFS export table is in
  the durable ledger, and an answered withdrawal holds; after a restart no
  NVMe-oF port answers before the complete state is prepared;
- `SourceHasOneLifecycle`: two claims never manage one zvol, LV or filesystem;
- `RecoveryIsSafe`: never do two clusters serve the LV, and what was answered as
  committed survives a power loss;
- `ConfigurationKept`: no finalizer is removed out of order or from under a
  volume the informers showed; re-creating a StorageClass loses nothing an
  administrator put on it and leaves alone a class another object controls, also one
  it took over between the read of a pass and its write.

Properties of the loops (`MCLoops`):

- `QueuedWritesKept`: a logout never discards writes queued for a broken session;
- `BrokenSessionRecovers`: a broken session with a disk is logged in again, removed,
  or left to a logout, even when its event was lost;
- `LoginAgrees`: a completed login left both sides with the same parameters,
  but for the two corrections `finalizeNegotiated` makes on this side, and all
  configured authentication done;
- `OneController`: a subsystem never has two controllers at once;
- `TrimIsSound`: a trim brings no stage record back, and one that reports
  success covered the filesystem, also when it grew meanwhile;
- `TransferLimitApplied`: devices of a target that advertises no limit are capped;
- `ClassReadinessSettles`: once the world stops changing, the class is Ready
  exactly if its storage can serve it.

### Bounds

Two lifecycles are enough for a late request to meet a successor; the mark
treats all predecessors alike (`endedUIDs`), and the proofs cover any number.
Generations in `lifecycle` allow each lifecycle two claimed operations, the
deletion and two repeated ones; in `publish` two full publish and unpublish
rounds after the two generations of CreateVolume, and for a localAttach volume a
move to the storage node and back with its extra generations. Beyond the bound a write
is not taken, so longer histories are cut, not changed. `MaxStray` bounds late
requests waiting at one time, not their number over a behaviour. In `node_stage` two targets are what a
repair needs to meet another pod, and two shutdowns let the filesystem die again
after its repair; crashes, reboots and failures are not bounded. Symmetry is
over UIDs and workers, which no definition tells apart; runs with a liveness
property do not use it.

In `storage` two NVMe-oF volumes are what sharing needs, with four calls, one
failing write and two reboots, so that a restore can itself be interrupted and
repeated; the first kernel has `param_mdts`, one without it may come with a
reboot. iSCSI has two initiators and six calls, enough for export, two
grants, a revoke and a retry. NFS has one managed dataset and one adopted
filesystem. `Recovery` and `StorageClassSync` are proved for any number of failing
calls and explored with two and one. In `fenced_agent` two identities per backend let a volume be replaced
under its name, and reusing one of two device numbers lets the replacement look
the same. A chain of three datasets has an ancestor with an ancestor. Each
component has its bound on calls, faults and interventions as a named constant
of its module. In `loops` two kernel sessions, two objects and two recovery
loops let an old loop meet a new session; two controller names let a second one
appear; `Readiness` is explored with one change of the world and one failing
call, at any point of any pass.

`CHECK_DEADLOCK FALSE` stands where a bound on generations, calls or changes, or
a claim that is gone for good, ends all activity.

### Fairness

`DeletionCompletes` assumes: a call that waits runs into its deadline (weak
fairness of `Abandon`, a gRPC deadline); the external-provisioner repeats
DeleteVolume, and a request repeated for ever does not fail every time (strong
fairness of `DeleteVolume`, `DestroyBackend`, `FinishDelete` and of the agent
serving each of the three teardown requests). Nothing is assumed of creates,
of late requests or of restarts.

`PublishRecovers` assumes that kubelet repeats a publish that did not succeed,
that a call in progress goes on (weak fairness of `PublishStep`), and that no
step of a publish fails every time (strong fairness of each successful step).
Crashes and reboots stay unrestricted; the property is about pods that stay
staged and wanted.

`BrokenSessionRecovers`: goroutines keep running, the supervisor's ticker keeps
firing, a volume call that began goes on, and the kernel's recovery timer
expires (weak fairness). The number of faults is bounded, so a login is not
refused for ever; lost events are not excluded.

`TransferLimitApplied`: CSI calls, trimmer and reconciler keep running, their waits are
bounded in the code, and the kernel finishes a connect or a removal it began.

`ClassReadinessSettles`: informers deliver, the requeue intervals of the agent
and the class controller elapse, and a worker takes what is queued, which is
what controller-runtime provides. `MCLoops` states these per component.

## Proofs

`FencedAgent_proofs` proves, for every set of lifecycles, generations and LVs
and from the named assumptions on the constants only:

- `Invariance`: the inductive invariant `IInv` holds always;
- `TypeCorrect`, `FreshMutations`, `MarksCover`, `DeletesAreDurable`,
  `NoGrantsAfterDelete`: the invariants above;
- `DestroysNothingElse`, `MarksNeverRegress`: the action properties;
- `Refinement`: `FencedAgent` implements `FencedResource`.

The argument. That a request is fresh when it mutates follows from the mark it
was admitted against, and that mark has to be right even if a power loss
replaced it by an older unsynced one. `IInv` therefore speaks about *every*
mark in `disk`: each is well formed, is no newer than the visible one, and
remembers all of the past (`DiskInv`: retired lifecycles, the last mutation,
reported deletions, adopted LVs, prepared exports). `LockInv` says that the
request inside the lock carries the token of all of them, which holds because
`persistFencingMark` re-syncs an unchanged mark before the mutation starts. The
lemmas `AdmittedMarkAdvances`, `EndedMarkAdvances`, `PinnedMarkAdvances`,
`RetireDisownedAdvances` and `RetireOwnedAdvances` show that every mark the
agent writes advances the one it read; `AdvanceDisk` lifts this to `disk`.

`NodeStage_proofs` proves, for every set of target paths, every subset of
`StageKind` and any number of filesystem shutdowns:

- `NodeInvariant`: the inductive invariant `IInv` of that module holds always;
- `NodeTypeCorrect`, `NodeNeverServedWhileMounted`, `NodeNoMountOutlivesDevice`,
  `NodeUnstageLeavesNothing`, `NodeStagedIsRecorded`, `NodePublishedShowsVolume`
  and `NodeBoundStaysStaged`: the invariants of `NodeStage`.

The argument. None of them is inductive, because a call that is half done, or
was abandoned by a crash, leaves the host between two of the states they
describe. `ClaimInv` says that the device-mapper claim and the agent's exclusive
descriptor never coexist and that whatever is mounted, about to be mounted or
staged is `Fenced`: the device exists and the namespace is off. `MountInv` says
which mounts a call in progress may meet: pod binds exist only over a recorded
staging mount, the rollback of a stage runs only without them, and an unstage
runs only when kubelet wants no target. `KubeletInv` relates what kubelet was
told to the host; there `staged => mnt \/ writeProbed` is what keeps a publish
from binding the bare directory, since only a write-probed staging can lose its
mount, and its publish goes through the repair. The proof has one lemma per
call and one step per action.

The `Volume..._proofs` modules prove about `VolumeControl`, for every set of
workers (controller calls running at once), lifecycles, generations, nodes and
kinds of volume, any number of delayed requests, and from the named assumptions
on the constants only:

- `TypeCorrect`: `TypeOK`;
- `NothingIsOrphaned`: `NothingOrphaned`;
- `DestroysOnlyTheRetired`: the action property `DestroysOnlyRetired`;
- `ReapsTheUnreported`: `ReapsOnlyUnreported`;
- `OnePublisher`: at most one node holds a successful publication of a
  SINGLE_NODE volume;
- `NoGrantIsUnrecorded`, `PublicationsStand`, `OneHostAdmitted`: without
  localAttach, `NoUnrecordedGrant`, `GrantsStand` and `SingleNodeExclusive`.

The argument. A request may execute long after its caller is gone, so none of
the properties is inductive: each needs a bound on what the requests that are
still alive (`Alive`: held by a call or left behind in `stray`) may do. `Core` is
that bound for the lifecycle of a volume. Every lifecycle the name ever had,
except the record's, is retired in the mark; the backend volume belongs to the
lifecycle of the mark, and a target stands only over such a volume (`MarkInv`,
`RecordInv`). A live request of the record's lifecycle is of no later generation
than the record, and once the record is being deleted a request that would
raise the volume or its target is of an earlier one (`RequestOK`). A teardown
is later than everything that raises (`Later`), which is what lets the mark of
the teardown refuse a late create or export. A call whose request was answered
may rely on what it did (`CallOK`): adopted stays adopted or retired, torn down
stays torn down. The agent's steps keep `Core` because the mark only moves
forward (`MarkMoves`), the controllers' because the record does (`RecordGrows`).

`PubInv` adds publications: a publish that was not overtaken still has its
reservation, and a revoke at the record's generation has fenced its node.
`ReapInv` adds what CreateVolume reported. It is conditional on `~overlap`, as
the property is: two CreateVolume calls of one volume that overlap do break it
(run `reap_race`). `NetInv` relates the ACL to the record. Whatever may still
admit a host names a node of the record or is refused by the mark
(`NetRequest`), a denied host is out for good at that generation, and no live
request takes a granted host out (`NetCall`). It is about volumes without
localAttach because with it two publishes that overlap leave the namespace
disabled under a publication (run `local_attach_race`); localAttach volumes stay
with the `publish` run, which checks them with one controller process.

`NodeStage_proofs` proves about `IscsiLogin`, for every set of login keys, rules,
offers, defaults and limits:

- `LoginsAgree`, `LgTypeCorrect`: `LoginAgrees` and `LgTypeOK`. The corrections
  of `finalizeNegotiated` are the only differences between the two sides.

The argument: both sides are in the same stage and disagree only about keys the
initiator has settled and not announced yet (`NegotiationInv`; that a value
resolved twice is the value resolved once, `ResolveAgain`, is what makes answer
and proposal agree), and CHAP is over before the operational stage begins
(`ChapInv`).

`IscsiSession_proofs` proves, for any number of kernel sessions, session objects,
recovery goroutines, calls, faults and restarts of the process
(`IsAssumption`: there is at least one session object, and a recovery goroutine
is not a CSI call):

- `WritesAreKept`: `QueuedWritesKept`;
- `SessionsTyped`: `IsTypeOK`.

The argument. Logout looks at the state of the session, and destroys it several
steps later; between the two a recovery may finish or give up, the connection
may break again, an event may remove the object, a scan may adopt the kernel
session under another object and the process may restart. `IsInv` closes that
gap. `ObjectInv`: at most one object is not removed, the one `byKey` names, but
for the object of a teardown whose kernel session is already gone; and an object
in `LoggingOut` has no dirty disk unless its flush is still to come. `IndexInv`:
what `bySID`, the goroutines and the supervisor's list refer to existed, so a
stale reference is to a session that is gone and never to a later one. `CallInv`:
what each step of the call may rely on, above all that a call about to destroy
has flushed the disk, or lost its object to an event that says the session is
gone. `KernelInv` is what the kernel guarantees: session identifiers are not
used again, and a session that does not exist has no disk. `IsInv` itself was
model-checked on the instance of `MCLoops` before it was proved.

`Loops_proofs` proves, for every number of controller slots, blocks and chunk
size, every set of new lifecycles (`Heirs`) other than the lost one
(`RecAssumption`), and every set of parameters and metadata in which the values
that stand for "none" do not occur (`ScAssumption`):

- `OneControllerOnly`, `TrimSound`, `NhTypeCorrect`: `OneController`,
  `TrimIsSound` and `NhTypeOK` of `NvmeHost`;
- `RecoveryStaysSafe`: `RecoveryIsSafe` of `Recovery`;
- `TransfersAreFinal`: the action property `TransferIsFinal` of `Recovery`;
- `MetadataIsKept`, `ForeignClassesKept`, `ClassesTyped`: `MetadataKept`,
  `ForeignKept` (which the `storage` run checks as parts of `ConfigurationKept`;
  the second although another object may take the class over at any moment)
  and `ScTypeOK` of `StorageClassSync`.

The argument for `NvmeHost`: between the look at the controllers and the write to
`/dev/nvme-fabrics` the volume lock keeps other calls out and the kernel only
removes (`ControllerInv`); whoever rewrites the stage record holds that lock, and
nothing stages an unstaged volume without it (`LockInv`); and a trim that reached
the size it measured has covered the filesystem, because the last chunk extends
to the end of the filesystem as it is under the lock (`CoverInv`).

For `Recovery` (`RecInv`): the visible mark and the durable one differ in their
owner only while a transfer is renamed and not yet synced, and in that window
nobody is served; so a power loss that undoes the transfer takes nothing away
from anybody, and whoever was told of success owns the durable mark.

For `StorageClassSync` (`ScInv`): a copy of an object that is marked current is
equal to the object (`CopiesTrue`), a pass that is about to delete the class has
recorded its metadata on the binding and read a class of the binding's own
(`RecreatesSafely`), and while the class is gone every copy in use, however old,
leads to its re-creation with that metadata and none to the step that clears the
record (`PromiseRecorded`).

Only model-checked, and why:

- liveness (`PublishRecovers`, `DeletionCompletes` and the liveness properties of
  `MCLoops`): out of the prover's reach;
- `LioTarget`: a configuration is a sequence of configfs steps cut at any point,
  and what a cut sequence leaves needs induction over it;
- `ImportClaims`: its property is about the scenarios the run enumerates and does
  not hold for every set of them;
- `DeletionGuards`: it has no constants, so the run is exhaustive already;
- `NvmetTarget`, `NfsExports`, `Readiness` and the backends (`BlockBackends`,
  `DatasetBackend`, `DirectoryBackend`, `ZfsSpace`);
- localAttach volumes, as said above.

## Findings

Five places where the code and a comment of the repository disagree, each with
a run that exhibits it:

- `release_durability`: `retireFence` reports a repeated release successful
  without syncing the mark its first attempt renamed;
- `local_attach_race`: with two controller processes, `restorePublishedExport`
  acts on a record read before its reservation and leaves `localAttachNode` set
  under a remote publish; a resync then disables the namespace;
- `reap_race`: `persistCreatePartial` of an overlapping CreateVolume takes a
  Ready record back to CreatePartial, and the reaper takes the lifecycle for
  one that never had a PersistentVolume;
- `deletion_import`: `persistCreatePartial` sets `importAcquired` on a lifecycle
  whose release-only teardown is already under way; its retry then chooses a
  teardown the agent refuses for ever;
- `zvol_shrink`: `Expand` of the zvol backend sets `volsize` without comparing
  it, and a smaller expansion that arrives last shrinks the volume. The trace starts
  with the zvol the larger one has already grown.

Further disagreements, met while modelling and not kept as runs. The first three
are stated as properties that TLC finds violated: the first two when they are
added to the `storage` run, the third with `NfMaxCalls = 4` and
`NfMaxFaults = 2`, beyond the bounds of that run. The others come from reading
the code.

- `IdentityKept` of `NvmetTarget`: `nvme_identity.go:36` says that "every export
  must present the same identity each time", the subsystem serial included. After
  a reboot, a call that creates the subsystem directory and stops before it
  writes the serial leaves the random serial of the kernel there. The next call
  takes that live serial over the recorded one (`nvme_identity.go:94`), stores
  it and exports with it. `NamespaceIdentityKept` is what holds.
- `PartialIsDurable` of `Recovery`: `csi/recovery.go:734` says "The transfer is
  durable" where the mark may be renamed and not synced. The answer itself waits
  for the sync (`AnsweredIsDurable`).
- `MarkBoundsAdmissions` of `NfsExports`: after a withdrawal whose durable write
  failed, a repeated DenyInitiator finds nothing to change and reports success.
  `WithdrawalHolds` counts a denial only where the export was recorded.
- `pillarstorageclass_controller.go:806` says the carry-over record cannot lose
  metadata to "a failed create or a controller restart". It can when the
  administrator also takes the binding's edit back while the record is pending
  and the class informer still shows the deleted class. `MetadataKept` therefore
  frees the promise when the binding is edited during a re-create.
- `volume_references.go` says the objects a volume was provisioned through must
  not be deleted as long as the volume exists. A CreateVolume under way when
  the guards look, or a volume the caches do not show yet, is not seen by them.
  `RemovalIsSafe` speaks of what the informers showed.
- `reconcileDelete` of the PillarStorageClass controller is said to delete "the
  owned StorageClass" (line 1106); it deletes the class of that name whoever
  controls it. `ForeignKept` is about the passes of a living binding.
- `reconcileNormal` of the PillarStore controller is said to clear the capacity
  whenever the pool's state is unknown; the early return for an agent that is
  not ready keeps it.
- `statemachine.go` says that NodeUnstageVolume of a partially staged volume
  "detaches the volume". Without a stage record the unstage succeeds and leaves
  the session connected (`nhUnstage` of `NvmeHost`). The next stage takes the
  session over, and `OneController` shows that it opens no second one.

## Not modelled

- The in-memory lifecycle state machine (`statemachine.go`). The controller sets
  it from the record just before the one read that decides anything, and
  `cmd/node` starts its server without one.
- The agent's drain: one flag, checked again under the lock that Drain takes.
- The connection manager, telemetry, credentials, webhooks and process start-up:
  no protocol state.
- In the agent: the revoke-only legacy mark of unadopted filesystems, exports of
  block volumes with the ACL turned off, lazy unmounts of a dataset in use, backstore attributes and TLS keys.
- In the controller: filesystem fields of the record, capacity bookkeeping of
  ControllerExpandVolume, conditions, events and back-off; the deletion of a
  PillarStorageClass's own class.
- On the node: in `NodeStage` the preserve-original pin, the migration of old
  records, the LIO form of the export and the iSCSI session parameters; the bind
  mounts of the file driver; PDU and netlink encoding.
- zfs(8), lvm(8), exportfs(8), configfs and the kernel's initiators are external
  and modelled by what the code in `internal/` relies on.

## Plan

1. Proofs of `OneLifecyclePerSource` for `ImportClaims` and of the safety of
   `Recovery`.
2. The file driver's node service beside `NodeStage`.
3. Composition of `Recovery` with `FencedAgent`, which now share only the shape
   of the mark.
