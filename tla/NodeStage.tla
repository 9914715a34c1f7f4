----------------------------- MODULE NodeStage -----------------------------
(***************************************************************************)
(* One volume on one node: NodeStageVolume, NodeUnstageVolume,             *)
(* NodePublishVolume and NodeUnpublishVolume of the node plugin            *)
(* (internal/csi/node.go, devicemapper.go), and the agent of the same host *)
(* turning the volume's NVMe-oF namespace on and off                       *)
(* (internal/agent/nvmeof/local_attach.go).                                *)
(*                                                                         *)
(* Every node call runs under the per-volume lock, so one is in progress   *)
(* at a time; it advances one system call at a time, and the plugin, the   *)
(* host, the filesystem and the agent may act between two of its steps.    *)
(***************************************************************************)
EXTENDS Naturals

CONSTANTS
    Targets,    \* target paths of the pods that may use the volume
    Kinds,      \* the stagings considered
    MaxDeaths   \* bound on kernel shutdowns of the filesystem in a behaviour

\* How the volume reaches the node (a device-mapper claim on the storage node
\* itself, a transport session, or an NFS mount) and what is staged of it.
StageKind == [mode : {"local", "network", "nfs"}, access : {"rw", "ro", "block"}]

ASSUME KindsAssumption == Kinds \subseteq StageKind
ASSUME MaxDeathsAssumption == MaxDeaths \in Nat

VARIABLES
    kind,      \* of the volume this is about; never changes
    op,        \* the call holding the volume lock
    pc,        \* its next step
    tgt,       \* the targets a publish is about: {} or one
    rec,       \* the stage state file: what a read sees, what a reboot may leave
    mnt,       \* the staging path has a mount entry
    binds,     \* targets bound to the staged volume
    bare,      \* targets bound to the directory under an unmounted staging path
    fs,        \* the mounted superblock: "none" when nothing mounts it
    claim,     \* the device-mapper target over the backend device exists
    sess,      \* the transport session is connected
    enabled,   \* the nvmet namespace reads enable=1
    agent,     \* enableNamespace: holds its O_EXCL descriptor unless "idle"
    staged,    \* kubelet: the last NodeStageVolume succeeded, nothing since
    unstaged,  \* kubelet: NodeUnstageVolume succeeded, nothing since
    wanted,    \* kubelet: targets it asked to publish and not yet unpublished
    published, \* kubelet: targets whose NodePublishVolume succeeded
    deaths     \* filesystem shutdowns so far

host == <<mnt, binds, bare, fs, claim, sess>>
export == <<enabled, agent>>
kubelet == <<staged, unstaged, wanted, published>>
vars == <<kind, op, pc, tgt, rec, host, export, kubelet, deaths>>

Ops == {"none", "stage", "unstage", "publish", "republish"}

Steps == {"none", "probe", "rewrite", "attach", "check", "mount", "verify",
          "write", "undo", "release", "forget", "orphan", "unmount", "detach",
          "existing", "repair", "remount", "reprobe", "bind", "confirm"}

\* The types; and the per-volume lock is held exactly while a call has a step
\* left, whichever way it returns (volumeLockSet: defer unlock).
TypeOK ==
    /\ kind \in Kinds /\ op \in Ops /\ pc \in Steps
    /\ op = "none" <=> pc = "none"
    /\ tgt \in {{}} \cup {{t} : t \in Targets}
    /\ rec \in [seen : BOOLEAN, disk : SUBSET BOOLEAN]
    /\ mnt \in BOOLEAN /\ binds \subseteq Targets /\ bare \subseteq Targets
    /\ fs \in {"none", "live", "dead"} /\ (fs = "none" <=> ~mnt /\ binds = {})
    /\ claim \in BOOLEAN /\ sess \in BOOLEAN /\ enabled \in BOOLEAN
    /\ agent \in {"idle", "claimed", "written"}
    /\ staged \in BOOLEAN /\ unstaged \in BOOLEAN
    /\ wanted \subseteq Targets /\ published \subseteq Targets
    /\ deaths \in 0..MaxDeaths

Init ==
    /\ kind \in Kinds
    /\ op = "none" /\ pc = "none" /\ tgt = {}
    /\ rec = [seen |-> FALSE, disk |-> {FALSE}]
    /\ mnt = FALSE /\ binds = {} /\ bare = {} /\ fs = "none"
    /\ claim = FALSE /\ sess = FALSE
    /\ enabled \in BOOLEAN /\ agent = "idle"
    /\ staged = FALSE /\ unstaged = FALSE /\ wanted = {} /\ published = {}
    /\ deaths = 0

----------------------------------------------------------------------------
(* What the calls are built from.                                          *)

local == kind.mode = "local"

\* Writable filesystems are write-probed and repaired; a read-only stage, NFS
\* and raw block are only checked to be readable.
writeProbed == kind.access = "rw" /\ kind.mode # "nfs"

At(o, p) == op = o /\ pc = p

Goto(p) == pc' = p /\ UNCHANGED <<op, tgt>>

Return == op' = "none" /\ pc' = "none" /\ tgt' = {}

\* Mounter.Unmount of the staging path: pod binds keep the superblock.
UnmountStaged ==
    /\ mnt' = FALSE
    /\ fs' = IF binds = {} THEN "none" ELSE fs
    /\ UNCHANGED <<binds, bare, claim, sess>>

\* Mounter.Unmount of a target path.
UnmountTarget(t) ==
    /\ binds' = binds \ {t} /\ bare' = bare \ {t}
    /\ fs' = IF ~mnt /\ binds \ {t} = {} THEN "none" ELSE fs
    /\ UNCHANGED <<mnt, claim, sess>>

\* The device the staging mounts exists.
DevicePresent == (local => claim) /\ (kind.mode = "network" => sess)

\* FormatAndMount, MountExisting, or the bind of the device node.  Mounting a
\* filesystem whose superblock is still pinned re-attaches that superblock.
MountStaged ==
    /\ DevicePresent
    /\ mnt' = TRUE
    /\ fs' = IF fs = "none" \/ kind.access = "block" THEN "live" ELSE fs
    /\ UNCHANGED <<binds, bare, claim, sess>>

\* HasOtherMounts: pod binds share the staged superblock.
HasOtherMounts == binds # {}

\* execDeviceMapper.Remove fails busy under a mounted filesystem; a bind of
\* the device node does not hold the device open.
CanRemoveClaim == ~claim \/ kind.access = "block" \/ fs = "none"

RemoveClaim ==
    /\ CanRemoveClaim
    /\ claim' = FALSE
    /\ UNCHANGED <<mnt, binds, bare, fs, sess>>

\* writeStageState acknowledges only after the directory sync.
WriteRecord == rec' = [seen |-> TRUE, disk |-> {TRUE}]

\* It failed before the rename, or after it.
WriteRecordFails ==
    rec' \in {rec, [seen |-> TRUE, disk |-> rec.disk \cup {TRUE}]}

\* deleteStageState does not sync the directory.
DeleteRecord ==
    rec' = [seen |-> FALSE, disk |-> rec.disk \cup {FALSE}]

\* Variables no step of a node call writes.
Outside == UNCHANGED <<kind, export, deaths>>

----------------------------------------------------------------------------
(* NodeStageVolume.                                                        *)

NodeStageVolume ==
    /\ op = "none"
    /\ op' = "stage" /\ tgt' = {}
    /\ pc' = IF rec.seen /\ mnt THEN "probe" ELSE "attach"
    /\ staged' = FALSE /\ unstaged' = FALSE
    /\ UNCHANGED <<rec, host, wanted, published>> /\ Outside

StageFailsLocked ==
    /\ At("stage", "probe") \/ At("stage", "attach")
    /\ Goto("none")
    /\ UNCHANGED <<rec, host, kubelet>> /\ Outside

\* Returns with nothing to undo: the state file or the probe is inconclusive,
\* a dead mount is kept, or the attach failed before it claimed the device.
StageFails ==
    /\ At("stage", "probe") \/ At("stage", "attach")
    /\ Return
    /\ UNCHANGED <<rec, host, kubelet>> /\ Outside

StageProbeUsable ==
    /\ At("stage", "probe") /\ fs = "live"
    /\ Goto("rewrite")
    /\ UNCHANGED <<rec, host, kubelet>> /\ Outside

DropsPinned == writeProbed /\ fs = "dead"

\* dropUnusableStagedMount: the gate before the unmount of a dead mount.
MayDropStaged == writeProbed /\ fs = "dead" /\ ~HasOtherMounts

StageProbeDrop ==
    /\ At("stage", "probe") /\ MayDropStaged
    /\ UnmountStaged
    /\ Goto("attach")
    /\ UNCHANGED <<rec, kubelet>> /\ Outside

RewriteSkipped ==
    /\ At("stage", "rewrite")
    /\ Return
    /\ staged' = TRUE
    /\ UNCHANGED <<rec, host, unstaged, wanted, published>> /\ Outside

\* Idempotent success, acknowledged only after a durable rewrite.
StageRewrite ==
    /\ At("stage", "rewrite")
    /\ WriteRecord
    /\ Return
    /\ staged' = TRUE
    /\ UNCHANGED <<host, unstaged, wanted, published>> /\ Outside

StageRewriteFails ==
    /\ At("stage", "rewrite")
    /\ WriteRecordFails
    /\ Return
    /\ UNCHANGED <<host, kubelet>> /\ Outside

AttachDuringEnable ==
    /\ claim' = (claim \/ local)
    /\ sess' = (sess \/ kind.mode = "network")
    /\ UNCHANGED <<mnt, binds, bare, fs>>

\* EnsureLinear cannot create the claim over a device held exclusively.
Attach ==
    /\ claim' = (claim \/ local)
    /\ local => claim \/ agent = "idle"
    /\ sess' = (sess \/ kind.mode = "network")
    /\ UNCHANGED <<mnt, binds, bare, fs>>

StageAttach ==
    /\ At("stage", "attach")
    /\ Attach
    /\ Goto(IF local THEN "check" ELSE "mount")
    /\ UNCHANGED <<rec, kubelet>> /\ Outside

\* The claim or session exists, and then a read-back, the device node or the
\* wait for the device fails: the call returns without undoing it.
StageAttachFails ==
    /\ At("stage", "attach")
    /\ Attach
    /\ Return
    /\ UNCHANGED <<rec, kubelet>> /\ Outside

\* A local stage is rolled back, an NFS mount removed; a transport session is
\* left to the next attempt.
failStaged == IF kind.mode \in {"local", "nfs"} THEN Goto("undo") ELSE Return

\* attachLocal reads the export state once the claim exists.
StageCheckExport ==
    /\ At("stage", "check")
    /\ Goto(IF enabled THEN "undo" ELSE "mount")
    /\ UNCHANGED <<rec, host, kubelet>> /\ Outside

StageAdoptMount ==
    /\ At("stage", "mount") /\ mnt /\ (writeProbed => fs = "live")
    /\ Goto("verify")
    /\ UNCHANGED <<rec, host, kubelet>> /\ Outside

StageDropLeftover ==
    /\ At("stage", "mount") /\ mnt /\ MayDropStaged
    /\ UnmountStaged
    /\ Goto("mount")
    /\ UNCHANGED <<rec, kubelet>> /\ Outside

\* A dead leftover mount is kept on purpose, with the attach that serves it.
StageKeepsLeftover ==
    /\ At("stage", "mount") /\ mnt /\ writeProbed
    /\ Return
    /\ UNCHANGED <<rec, host, kubelet>> /\ Outside

StageMount ==
    /\ At("stage", "mount") /\ ~mnt
    /\ MountStaged
    /\ Goto("verify")
    /\ UNCHANGED <<rec, kubelet>> /\ Outside

StageVerify ==
    /\ At("stage", "verify") /\ fs = "live"
    /\ Goto("write")
    /\ UNCHANGED <<rec, host, kubelet>> /\ Outside

\* The export read, the mount or the probe after it failed.
StageFailsAttached ==
    /\ \/ At("stage", "check")
       \/ At("stage", "mount") /\ (mnt => ~writeProbed)
       \/ At("stage", "verify")
    /\ failStaged
    /\ UNCHANGED <<rec, host, kubelet>> /\ Outside

StageWrite ==
    /\ At("stage", "write")
    /\ WriteRecord
    /\ Return
    /\ staged' = TRUE
    /\ UNCHANGED <<host, unstaged, wanted, published>> /\ Outside

StageWriteFails ==
    /\ At("stage", "write")
    /\ WriteRecordFails
    /\ failStaged
    /\ UNCHANGED <<host, kubelet>> /\ Outside

----------------------------------------------------------------------------
(* abortLocal, and the cleanup of an NFS mount.                            *)

ReleasesBeforeUnmount ==
    /\ At("stage", "undo")
    /\ UNCHANGED host
    /\ IF local THEN Goto("release") ELSE Return
    /\ UNCHANGED <<rec, kubelet>> /\ Outside

AbortUnmount ==
    /\ At("stage", "undo")
    /\ UnmountStaged
    /\ IF local THEN Goto("release") ELSE Return
    /\ UNCHANGED <<rec, kubelet>> /\ Outside

AbortRelease ==
    /\ At("stage", "release")
    /\ RemoveClaim
    /\ Goto("forget")
    /\ UNCHANGED <<rec, kubelet>> /\ Outside

AbortForget ==
    /\ At("stage", "forget")
    /\ DeleteRecord
    /\ Return
    /\ UNCHANGED <<host, kubelet>> /\ Outside

AbortFails ==
    /\ op = "stage" /\ pc \in {"undo", "release", "forget"}
    /\ Return
    /\ UNCHANGED <<rec, host, kubelet>> /\ Outside

----------------------------------------------------------------------------
(* NodeUnstageVolume.                                                      *)

\* kubelet unstages only after every target was unpublished.
NodeUnstageVolume ==
    /\ op = "none" /\ wanted = {}
    /\ op' = "unstage" /\ tgt' = {}
    /\ pc' = IF rec.seen THEN "unmount" ELSE "orphan"
    /\ staged' = FALSE /\ unstaged' = FALSE
    /\ UNCHANGED <<rec, host, wanted, published>> /\ Outside

Unstaged ==
    /\ Return
    /\ unstaged' = TRUE
    /\ UNCHANGED <<staged, wanted, published>> /\ Outside

UnstageIgnoresOrphan ==
    /\ At("unstage", "orphan") /\ ~mnt
    /\ UNCHANGED <<rec, host>>
    /\ Unstaged

\* No state file: checkUnstagedWithoutState, then removeOrphanLocal.
UnstageOrphan ==
    /\ At("unstage", "orphan") /\ ~mnt
    /\ RemoveClaim
    /\ UNCHANGED rec
    /\ Unstaged

UnstageUnmount ==
    /\ At("unstage", "unmount")
    /\ UnmountStaged
    /\ Goto("detach")
    /\ UNCHANGED <<rec, kubelet>> /\ Outside

\* releaseLocal, or the protocol handler's Detach.
UnstageDetach ==
    /\ At("unstage", "detach")
    /\ IF local THEN RemoveClaim
       ELSE sess' = FALSE /\ UNCHANGED <<mnt, binds, bare, fs, claim>>
    /\ Goto("forget")
    /\ UNCHANGED <<rec, kubelet>> /\ Outside

UnstageForget ==
    /\ At("unstage", "forget")
    /\ DeleteRecord
    /\ UNCHANGED host
    /\ Unstaged

UnstageFails ==
    /\ op = "unstage"
    /\ Return
    /\ UNCHANGED <<rec, host, kubelet>> /\ Outside

----------------------------------------------------------------------------
(* NodePublishVolume and NodeUnpublishVolume.                              *)

Publishing(p) == op \in {"publish", "republish"} /\ pc = p

\* kubelet publishes what it staged.
NodePublishVolume(t) ==
    /\ op = "none" /\ staged
    /\ op' = "publish" /\ pc' = "existing" /\ tgt' = {t}
    /\ wanted' = wanted \cup {t} /\ published' = published \ {t}
    /\ UNCHANGED <<rec, host, staged, unstaged>> /\ Outside

Published ==
    /\ Return
    /\ published' = published \cup tgt
    /\ UNCHANGED <<rec, staged, unstaged, wanted>> /\ Outside

\* publishedByExistingBind.  The directory under a bare bind is usable.
PublishExistingUsable ==
    /\ Publishing("existing")
    /\ \/ tgt \subseteq binds /\ fs = "live"
       \/ tgt \subseteq bare
    /\ UNCHANGED host
    /\ Published

PublishExistingDrop(t) ==
    /\ Publishing("existing") /\ tgt = {t}
    /\ t \in binds /\ writeProbed /\ fs = "dead"
    /\ UnmountTarget(t)
    /\ Goto("repair")
    /\ UNCHANGED <<rec, kubelet>> /\ Outside

PublishFresh ==
    /\ Publishing("existing") /\ tgt \cap (binds \cup bare) = {}
    /\ Goto(IF writeProbed THEN "repair" ELSE "bind")
    /\ UNCHANGED <<rec, host, kubelet>> /\ Outside

PublishStagedUnchecked ==
    /\ Publishing("repair") /\ (mnt => fs = "live")
    /\ Goto("bind")
    /\ UNCHANGED <<rec, host, kubelet>> /\ Outside

\* ensureHealthyStagedMount: usable, or never staged here.
PublishStagedUsable ==
    /\ Publishing("repair")
    /\ IF mnt THEN fs = "live" ELSE ~rec.seen
    /\ Goto("bind")
    /\ UNCHANGED <<rec, host, kubelet>> /\ Outside

PublishKeepsDead ==
    /\ Publishing("repair") /\ mnt /\ fs = "dead"
    /\ Return
    /\ UNCHANGED <<rec, host, kubelet>> /\ Outside

\* dropDeadStagedMountForRepair.
PublishDropStaged ==
    /\ Publishing("repair") /\ mnt /\ MayDropStaged
    /\ UnmountStaged
    /\ Goto("remount")
    /\ UNCHANGED <<rec, kubelet>> /\ Outside

PublishMissingGivesUp ==
    /\ Publishing("repair") /\ ~mnt /\ rec.seen
    /\ Return
    /\ UNCHANGED <<rec, host, kubelet>> /\ Outside

\* An earlier repair unmounted and did not get to the re-mount.
PublishStagedMissing ==
    /\ Publishing("repair") /\ ~mnt /\ rec.seen
    /\ Goto("remount")
    /\ UNCHANGED <<rec, host, kubelet>> /\ Outside

PublishRemount ==
    /\ Publishing("remount")
    /\ MountStaged
    /\ Goto("reprobe")
    /\ UNCHANGED <<rec, kubelet>> /\ Outside

PublishReprobe ==
    /\ Publishing("reprobe") /\ fs = "live"
    /\ Goto("bind")
    /\ UNCHANGED <<rec, host, kubelet>> /\ Outside

\* mountNodePublish binds whatever the staging path shows.  There is no
\* device file to bind under an unmounted raw block staging.
PublishBind ==
    /\ Publishing("bind") /\ (kind.access = "block" => mnt)
    /\ IF mnt THEN binds' = binds \cup tgt /\ UNCHANGED bare
       ELSE bare' = bare \cup tgt /\ UNCHANGED binds
    /\ UNCHANGED <<mnt, fs, claim, sess>>
    /\ IF writeProbed
       THEN Goto("confirm") /\ UNCHANGED <<rec, kubelet>> /\ Outside
       ELSE Published

\* bindWithStagedRepair repairs and retries a failed bind once.
PublishBindFails ==
    /\ Publishing("bind")
    /\ IF writeProbed /\ op = "publish"
       THEN op' = "republish" /\ pc' = "repair" /\ UNCHANGED tgt
       ELSE Return
    /\ UNCHANGED <<rec, host, kubelet>> /\ Outside

\* verifyFreshPublishBind.
PublishConfirm ==
    /\ Publishing("confirm") /\ (tgt \subseteq binds => fs = "live")
    /\ UNCHANGED host
    /\ Published

PublishUnconfirmed(t) ==
    /\ Publishing("confirm") /\ tgt = {t}
    /\ UnmountTarget(t) \/ UNCHANGED host
    /\ Return
    /\ UNCHANGED <<rec, kubelet>> /\ Outside

PublishFails ==
    /\ \E p \in {"existing", "repair", "remount", "reprobe"} : Publishing(p)
    /\ Return
    /\ UNCHANGED <<rec, host, kubelet>> /\ Outside

NodeUnpublishVolume(t) ==
    /\ op = "none"
    /\ UnmountTarget(t)
    /\ wanted' = wanted \ {t} /\ published' = published \ {t}
    /\ UNCHANGED <<op, pc, tgt, rec, staged, unstaged>> /\ Outside

NodeUnpublishFails(t) ==
    /\ op = "none"
    /\ published' = published \ {t}
    /\ UNCHANGED <<op, pc, tgt, rec, host, staged, unstaged, wanted>> /\ Outside

----------------------------------------------------------------------------
(* The agent of the host that exports the volume.  Other controllers'      *)
(* orders decide when it enables or disables; here it may at any time.     *)

AgentUnchanged == UNCHANGED <<kind, op, pc, tgt, rec, host, kubelet, deaths>>

\* enableNamespace: an exclusive open, which a device-mapper target refuses.
EnableClaim ==
    /\ local /\ agent = "idle" /\ ~enabled /\ ~claim
    /\ agent' = "claimed"
    /\ UNCHANGED enabled /\ AgentUnchanged

EnableWrite ==
    /\ agent = "claimed"
    /\ agent' = "written" /\ enabled' = TRUE
    /\ AgentUnchanged

\* Also after a failed write, and by the death of the process.
EnableRelease ==
    /\ agent # "idle"
    /\ agent' = "idle"
    /\ UNCHANGED enabled /\ AgentUnchanged

DisableNamespace ==
    /\ local /\ agent = "idle" /\ enabled
    /\ enabled' = FALSE
    /\ UNCHANGED agent /\ AgentUnchanged

----------------------------------------------------------------------------
(* Faults.                                                                 *)

\* A kernel shutdown of the mounted filesystem, or a lost device.
FilesystemDies ==
    /\ fs = "live" /\ deaths < MaxDeaths
    /\ fs' = "dead" /\ deaths' = deaths + 1
    /\ UNCHANGED <<kind, op, pc, tgt, rec, mnt, binds, bare, claim, sess,
                   export, kubelet>>

\* The plugin dies inside a call; mounts, claims and sessions are the host's.
PluginCrash ==
    /\ op # "none"
    /\ Return
    /\ UNCHANGED <<rec, host, kubelet>> /\ Outside

\* The host reboots: only what is on disk survives.
Reboot ==
    /\ Return
    /\ \E seen \in rec.disk : rec' = [seen |-> seen, disk |-> {seen}]
    /\ mnt' = FALSE /\ binds' = {} /\ bare' = {} /\ fs' = "none"
    /\ claim' = FALSE /\ sess' = FALSE
    /\ enabled' = FALSE /\ agent' = "idle"
    /\ staged' = FALSE /\ unstaged' = FALSE /\ wanted' = {} /\ published' = {}
    /\ UNCHANGED <<kind, deaths>>

----------------------------------------------------------------------------
Stage ==
    \/ NodeStageVolume \/ StageFails
    \/ StageProbeUsable \/ StageProbeDrop \/ StageRewrite \/ StageRewriteFails
    \/ StageAttach \/ StageAttachFails \/ StageCheckExport
    \/ StageAdoptMount \/ StageDropLeftover \/ StageKeepsLeftover
    \/ StageMount \/ StageVerify \/ StageFailsAttached
    \/ StageWrite \/ StageWriteFails
    \/ AbortUnmount \/ AbortRelease \/ AbortForget \/ AbortFails

Unstage ==
    \/ NodeUnstageVolume \/ UnstageOrphan
    \/ UnstageUnmount \/ UnstageDetach \/ UnstageForget \/ UnstageFails

PublishStep ==
    \/ \E t \in Targets : PublishExistingDrop(t) \/ PublishUnconfirmed(t)
    \/ PublishExistingUsable \/ PublishFresh
    \/ PublishStagedUsable \/ PublishKeepsDead
    \/ PublishDropStaged \/ PublishStagedMissing
    \/ PublishRemount \/ PublishReprobe
    \/ PublishBind \/ PublishBindFails \/ PublishConfirm \/ PublishFails

Publish ==
    \/ \E t \in Targets : \/ NodePublishVolume(t)
                          \/ NodeUnpublishVolume(t) \/ NodeUnpublishFails(t)
    \/ PublishStep

Agent == EnableClaim \/ EnableWrite \/ EnableRelease \/ DisableNamespace

Next == Stage \/ Unstage \/ Publish \/ Agent
           \/ FilesystemDies \/ PluginCrash \/ Reboot

Spec == Init /\ [][Next]_vars

\* kubelet retries a publish until it succeeds, a call does not hang, and no
\* step of it fails every time it is tried.
PublishFairness ==
    /\ WF_vars(PublishStep)
    /\ SF_vars(\E t \in wanted \ published : NodePublishVolume(t))
    /\ SF_vars(\E t \in Targets : PublishExistingDrop(t))
    /\ SF_vars(PublishExistingUsable) /\ SF_vars(PublishFresh)
    /\ SF_vars(PublishStagedUsable) /\ SF_vars(PublishDropStaged)
    /\ SF_vars(PublishStagedMissing) /\ SF_vars(PublishRemount)
    /\ SF_vars(PublishReprobe) /\ SF_vars(PublishBind) /\ SF_vars(PublishConfirm)

FairSpec == Spec /\ PublishFairness

----------------------------------------------------------------------------
\* The export comment of nvmet_export_state.go: "the data is never served to
\* remote initiators while the storage node has it mounted", at its staging
\* path or in a pod.
NeverServedWhileMounted == (local /\ (mnt \/ binds # {})) => ~enabled

\* abortLocal: "no mount ever references a removed device-mapper device", and
\* NodeUnstageVolume does not disconnect a transport under a mount.
NoMountOutlivesDevice == (mnt \/ binds # {}) => DevicePresent

\* A successful NodeUnstageVolume leaves no mount, no pod bind, no claim that
\* keeps the export fenced, and no record, whatever attempts failed before it.
UnstageLeavesNothing ==
    unstaged => ~mnt /\ binds = {} /\ bare = {} /\ ~claim /\ ~rec.seen

\* A stage reported as done is on durable storage: no reboot loses its record
\* (the idempotency check rewrites a record whose directory sync failed).
StagedIsRecorded == staged => rec.disk = {TRUE}

\* A target reported as published shows the staged volume, never the empty
\* directory under it (ensureHealthyStagedMount binds "whatever is there" only
\* when there is no record).
PublishedShowsVolume == published \subseteq binds

\* A staging mount is never taken away under pods that use the volume:
\* HasOtherMounts gates every repair, and no failed stage rolls one back.
BoundStaysStaged == binds # {} => mnt

\* Issue #172: a pod whose writable filesystem entered kernel shutdown does not
\* stay unpublished for ever while it is the only one that uses the volume:
\* kubelet's retries of NodePublishVolume repair the staging mount.
PublishRecovers ==
    \A t \in Targets :
        <>[](writeProbed /\ staged /\ wanted = {t}) => []<>(t \in published)
=============================================================================
