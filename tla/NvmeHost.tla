------------------------------ MODULE NvmeHost ------------------------------
(***************************************************************************)
(* The node's side of one NVMe-oF volume beside its CSI calls: connecting  *)
(* and disconnecting the subsystem (nvmeof_connector.go,                   *)
(* nvmeof_tcp_handler.go), the reconciler that caps the request size of    *)
(* targets without an MDTS (nvmeof_mdts*.go), the periodic trim (trim.go)  *)
(* and the growth of the filesystem (node_expand.go).                      *)
(*                                                                         *)
(* The calls, the trimmer and the reconciler share the volume lock.  The   *)
(* kernel keeps the controllers, which reconnect and are removed on their  *)
(* own.  A controller is known by its name, a small number that is reused. *)
(***************************************************************************)
EXTENDS Naturals, FiniteSets

CONSTANTS
    Slots,             \* controller names
    MaxBlocks,         \* size of the filesystem, in blocks
    trimChunkBlocks,
    RecheckPasses,     \* nvmeofMDTSRecheckPasses
    NhMaxCalls, NhMaxFaults, NhMaxRestarts

ASSUME NhAssumption ==
    Slots \subseteq Nat /\ MaxBlocks \in Nat \ {0} /\ trimChunkBlocks \in Nat

VARIABLES
    ctl,       \* controllers: "none", "new", "live", "connecting", "deleting"
    capped,    \* their devices are at or below the limit
    mdts,      \* what each answers to Identify Controller: 0 or 1
    target,    \* what the target answers from the next connection on
    rec,       \* the stage record exists
    mounted,   \* the controller whose device is mounted at the staging path, or 0
    fs, disk,  \* filesystem and device size
    lock,      \* the volume lock: "free", "csi", "trim"
    csi,       \* the CSI call: pc and device
    trim,      \* the attempt: pc, offset, measured size, blocks trimmed
    lim,       \* the pass: "idle", "ask", "cap"
    asked,     \* the controllers it asks
    advertised,\* the cached answer: controllers and passes left
    unstaged,  \* the last call that completed was an unstage
    short,     \* an attempt that succeeded left blocks untrimmed
    nhCalls, nhFaults, nhRestarts

nhVars == <<ctl, capped, mdts, target, rec, mounted, fs, disk, lock, csi, trim, lim,
            asked, advertised, unstaged, short, nhCalls, nhFaults, nhRestarts>>

ctrlVars == <<ctl, capped, mdts, target>>
volVars == <<rec, mounted, fs, disk, unstaged>>
trimVars == <<trim, short>>
limVars == <<lim, asked, advertised>>
nhBounds == <<nhCalls, nhFaults, nhRestarts>>

noTrim == [pc |-> "idle", offset |-> 0, size |-> 0, covered |-> 0]
noAnswer == [sig |-> {}, left |-> 0]
noCall == [pc |-> "idle", dev |-> 0]

NhInit ==
    /\ ctl = [s \in Slots |-> "none"]
    /\ capped = [s \in Slots |-> FALSE]
    /\ mdts = [s \in Slots |-> 0]
    /\ target \in {0, 1}
    /\ rec = FALSE /\ mounted = 0
    /\ fs = 1 /\ disk = 1
    /\ lock = "free"
    /\ csi = noCall /\ trim = noTrim
    /\ lim = "idle" /\ asked = {} /\ advertised = noAnswer
    /\ unstaged = FALSE /\ short = FALSE
    /\ nhCalls = 0 /\ nhFaults = 0 /\ nhRestarts = 0

nhFault == nhFaults < NhMaxFaults /\ nhFaults' = nhFaults + 1

\* isDyingControllerState and the states that count as connected.
activeControllers == {s \in Slots : ctl[s] \in {"new", "live", "connecting"}}
liveControllers == {s \in Slots : ctl[s] = "live"}
deviceLive == mounted \in liveControllers

----------------------------------------------------------------------------
(* CSI calls, under the volume lock.                                       *)

nhCall(first) ==
    /\ csi.pc = "idle" /\ lock = "free"
    /\ nhCalls < NhMaxCalls /\ nhCalls' = nhCalls + 1
    /\ lock' = "csi" /\ csi' = [pc |-> first, dev |-> mounted]
    /\ UNCHANGED <<ctrlVars, trimVars, limVars, nhFaults, nhRestarts>>

nhGoto(pc) == csi' = [csi EXCEPT !.pc = pc] /\ UNCHANGED lock
nhReturn == csi' = noCall /\ lock' = "free"

\* A volume that is staged is only capped again (limitStagedNVMeoF).
nhStage ==
    /\ nhCall(IF rec /\ mounted # 0 THEN "limit" ELSE "connect")
    /\ unstaged' = FALSE
    /\ UNCHANGED <<rec, mounted, fs, disk>>

\* Connect: a live or reconnecting controller is kept.
isConnected ==
    /\ csi.pc = "connect"
    /\ nhGoto(IF activeControllers # {} THEN "poll" ELSE "dying")
    /\ UNCHANGED <<ctrlVars, volVars, trimVars, limVars, nhBounds>>

waitForNothing ==
    /\ csi.pc = "dying"
    /\ nhGoto("write") /\ UNCHANGED nhFaults
    /\ UNCHANGED <<ctrlVars, volVars, trimVars, limVars, nhCalls, nhRestarts>>

\* WaitForDyingControllers, bounded.
WaitForDyingControllers ==
    /\ csi.pc = "dying"
    /\ \/ /\ \A s \in Slots : ctl[s] # "deleting"
          /\ nhGoto("write") /\ UNCHANGED nhFaults
       \/ nhReturn /\ nhFault
    /\ UNCHANGED <<ctrlVars, volVars, trimVars, limVars, nhCalls, nhRestarts>>

\* The write to /dev/nvme-fabrics creates a controller.
connectFabrics ==
    /\ csi.pc = "write"
    /\ \/ \E s \in Slots :
            /\ ctl[s] = "none" /\ \A t \in Slots : t < s => ctl[t] # "none"
            /\ ctl' = [ctl EXCEPT ![s] = "new"]
            /\ mdts' = [mdts EXCEPT ![s] = target]
            /\ nhGoto("poll") /\ UNCHANGED nhFaults
       \/ nhReturn /\ nhFault /\ UNCHANGED <<ctl, mdts>>
    /\ UNCHANGED <<capped, target, volVars, trimVars, limVars, nhCalls, nhRestarts>>

\* GetDevicePath takes any namespace of the subsystem; the poll is bounded.
GetDevicePath ==
    /\ csi.pc = "poll"
    /\ \/ \E s \in Slots :
            /\ ctl[s] \in {"live", "connecting", "deleting"}
            /\ csi' = [pc |-> "limit", dev |-> s]
            /\ UNCHANGED <<lock, nhFaults>>
       \/ nhReturn /\ nhFault
       \/ (\A s \in Slots : ctl[s] = "none") /\ nhReturn /\ UNCHANGED nhFaults
    /\ UNCHANGED <<ctrlVars, volVars, trimVars, limVars, nhCalls, nhRestarts>>

\* controllersAdvertiseMDTS and capNVMeoFDevices.
advertiseMDTS(cs) == \E s \in cs : mdts[s] # 0
capNVMeoFDevices == [s \in Slots |-> capped[s] \/ s \in activeControllers]

\* LimitNVMeoFTransferSize, then the mount and the stage record, each of which
\* may fail: the session stays, and after a failed record the mount too.
LimitNVMeoFTransferSize ==
    LET usable == liveControllers # {} /\ ctl[csi.dev] \in {"live", "connecting"} IN
    /\ csi.pc = "limit"
    /\ capped' = IF liveControllers # {} /\ ~advertiseMDTS(liveControllers)
                 THEN capNVMeoFDevices ELSE capped
    /\ \/ /\ usable
          /\ mounted' = csi.dev /\ rec' = TRUE /\ UNCHANGED nhFaults
       \/ /\ usable /\ nhFault
          /\ mounted' \in {mounted, csi.dev} /\ UNCHANGED rec
       \/ ~usable /\ UNCHANGED <<rec, mounted, nhFaults>>
    /\ nhReturn
    /\ UNCHANGED <<ctl, mdts, target, fs, disk, unstaged, trimVars, limVars, nhCalls, nhRestarts>>

\* Without a record there is nothing to disconnect by: a session that a failed
\* stage left behind stays. The call fails while its mount is there
\* (checkUnstagedWithoutState).
nhUnstage ==
    \/ /\ rec
       /\ nhCall("delete")
       /\ mounted' = 0
       /\ UNCHANGED <<rec, fs, disk, unstaged>>
    \/ /\ ~rec /\ mounted = 0
       /\ csi.pc = "idle" /\ lock = "free"
       /\ nhCalls < NhMaxCalls /\ nhCalls' = nhCalls + 1
       /\ unstaged' = TRUE
       /\ UNCHANGED <<ctrlVars, rec, mounted, fs, disk, lock, csi, trimVars, limVars, nhFaults, nhRestarts>>

\* Disconnect: every controller is deleted, then waited for.
DeleteSubsystemControllers ==
    /\ csi.pc = "delete"
    /\ \/ /\ ctl' = [s \in Slots |-> IF ctl[s] = "none" THEN "none" ELSE "deleting"]
          /\ nhGoto("gone") /\ UNCHANGED nhFaults
       \/ nhReturn /\ nhFault /\ UNCHANGED ctl
    /\ UNCHANGED <<capped, mdts, target, volVars, trimVars, limVars, nhCalls, nhRestarts>>

waitControllerRemoved ==
    /\ csi.pc = "gone"
    /\ \/ /\ \A s \in Slots : ctl[s] = "none"
          /\ rec' = FALSE /\ unstaged' = TRUE
          /\ UNCHANGED nhFaults
       \/ nhFault /\ UNCHANGED <<rec, unstaged>>
    /\ nhReturn
    /\ UNCHANGED <<ctrlVars, mounted, fs, disk, trimVars, limVars, nhCalls, nhRestarts>>

nhExpand ==
    /\ nhCall("resize")
    /\ UNCHANGED volVars

\* A mutant of the rescan: the size asked for is taken for the device's.
rescanTrustsRequest == {MaxBlocks}

\* rescanNVMeDevice: what the device measures once the poll ends, the new
\* size or, when the rescan did not reach it in time, the old one.
rescanNVMeDevice == {disk, fs}

\* ResizeFS fills the device it finds, or fails.
ResizeFS ==
    /\ csi.pc = "resize"
    /\ fs' \in IF deviceLive THEN rescanNVMeDevice ELSE {fs}
    /\ nhReturn
    /\ UNCHANGED <<ctrlVars, rec, mounted, disk, unstaged, trimVars, limVars, nhBounds>>

----------------------------------------------------------------------------
(* The periodic trim.                                                      *)

\* considerRecord: the record is there and due.
considerRecord ==
    /\ trim.pc = "idle" /\ rec
    /\ nhCalls < NhMaxCalls /\ nhCalls' = nhCalls + 1
    /\ trim' = [noTrim EXCEPT !.pc = "chunk"]
    /\ UNCHANGED <<ctrlVars, volVars, lock, csi, short, limVars, nhFaults, nhRestarts>>

tryLockIgnored == TRUE

\* tryLock does not wait for a CSI call.
tryLock == lock = "free"

\* sysfsDeviceMatcher: the mounted device still belongs to the subsystem.
sysfsDeviceMatches == ctl[mounted] # "none"

verifyMount == mounted # 0 /\ sysfsDeviceMatches

\* trimVolume and trimChunk up to the discard: the lock, the record and the
\* mount, measured with the first chunk.
trimChunk ==
    /\ trim.pc = "chunk"
    /\ IF ~tryLock \/ ~rec
       THEN trim' = noTrim /\ UNCHANGED lock
       ELSE /\ lock' = "trim"
            /\ trim' = IF ~verifyMount
                       THEN [trim EXCEPT !.pc = "record"]
                       ELSE [trim EXCEPT !.pc = "discard",
                                         !.size = IF trim.offset = 0 THEN fs ELSE @]
    /\ UNCHANGED <<ctrlVars, volVars, csi, short, limVars, nhBounds>>

lastChunk == trim.size <= trimChunkBlocks \/ trim.offset >= trim.size - trimChunkBlocks

chunkEndBounded == trim.offset + trimChunkBlocks

\* The last chunk extends to the end of the filesystem.
chunkEnd == IF lastChunk THEN MaxBlocks ELSE trim.offset + trimChunkBlocks

nhMin(a, b) == IF a < b THEN a ELSE b

fitrim ==
    /\ trim.pc = "discard"
    /\ \/ /\ deviceLive
          /\ trim' = [pc |-> IF lastChunk THEN "success" ELSE "chunk",
                      offset |-> trim.offset + trimChunkBlocks, size |-> trim.size,
                      covered |-> IF trim.covered >= trim.offset
                                  THEN nhMin(chunkEnd, fs) ELSE trim.covered]
          /\ lock' = IF lastChunk THEN lock ELSE "free"
          /\ UNCHANGED nhFaults
       \/ /\ trim' = [trim EXCEPT !.pc = "record"] /\ UNCHANGED lock
          /\ nhFault \/ (~deviceLive /\ UNCHANGED nhFaults)
    /\ UNCHANGED <<ctrlVars, volVars, csi, short, limVars, nhCalls, nhRestarts>>

\* finish reads the record of a finished attempt.
finishTrim ==
    /\ trim.pc \in {"success", "record"}
    /\ short' = (short \/ (trim.pc = "success" /\ trim.covered < fs))
    /\ trim' = [trim EXCEPT !.pc = IF rec THEN "write" ELSE "unlock"]
    /\ UNCHANGED <<ctrlVars, volVars, lock, csi, limVars, nhBounds>>

\* recordAttempt writes it back with the time of the attempt.
recordAttempt ==
    /\ trim.pc \in {"write", "unlock"}
    /\ rec' = (rec \/ trim.pc = "write")
    /\ trim' = noTrim
    /\ lock' = IF lock = "trim" THEN "free" ELSE lock
    /\ UNCHANGED <<ctrlVars, mounted, fs, disk, unstaged, csi, short, limVars, nhBounds>>

----------------------------------------------------------------------------
(* The transfer limit reconciler.                                          *)

\* What the pass applies: nothing for a record that is gone.
limitTarget == rec

devicesWithin == \A s \in activeControllers : capped[s]

cachedForever == advertised.sig = liveControllers

\* The cached answer: the same controllers, and not stale.
cachedAnswer == advertised.sig = liveControllers /\ advertised.left > 0

\* reconcile until it asks the controllers; without a live controller the
\* record stays pending and the answer is dropped.
reconcile ==
    /\ lim = "idle" /\ limitTarget
    /\ IF activeControllers # {} /\ (devicesWithin \/ (liveControllers # {} /\ cachedAnswer))
       THEN /\ advertised' = [advertised EXCEPT !.left = IF @ > 0 THEN @ - 1 ELSE 0]
            /\ UNCHANGED <<lim, asked>>
       ELSE IF liveControllers = {}
       THEN advertised' = noAnswer /\ UNCHANGED <<lim, asked>>
       ELSE lim' = "ask" /\ asked' = liveControllers /\ UNCHANGED advertised
    /\ UNCHANGED <<ctrlVars, volVars, lock, csi, trimVars, nhBounds>>

\* prune: the record is gone.
pruneAnswer ==
    /\ lim = "idle" /\ ~limitTarget /\ advertised # noAnswer
    /\ advertised' = noAnswer
    /\ UNCHANGED <<ctrlVars, volVars, lock, csi, trimVars, lim, asked, nhBounds>>

\* Identify Controller, without the lock.
controllersAdvertiseMDTS ==
    /\ lim = "ask"
    /\ IF ~(asked \subseteq liveControllers)
       THEN lim' = "idle" /\ UNCHANGED advertised
       ELSE IF advertiseMDTS(asked)
       THEN lim' = "idle" /\ advertised' = [sig |-> asked, left |-> RecheckPasses]
       ELSE lim' = "cap" /\ advertised' = noAnswer
    /\ asked' = {}
    /\ UNCHANGED <<ctrlVars, volVars, lock, csi, trimVars, nhBounds>>

\* capLocked: the lock is not waited for, the record is read again.
capLocked ==
    /\ lim = "cap" /\ lim' = "idle"
    /\ capped' = IF lock = "free" /\ limitTarget THEN capNVMeoFDevices ELSE capped
    /\ UNCHANGED <<ctl, mdts, target, volVars, lock, csi, trimVars, asked, advertised, nhBounds>>

----------------------------------------------------------------------------
(* The kernel, the target and the process.                                 *)

Connected(s) ==
    /\ ctl[s] \in {"new", "connecting"}
    /\ ctl' = [ctl EXCEPT ![s] = "live"]
    /\ mdts' = [mdts EXCEPT ![s] = target]
    /\ UNCHANGED <<capped, target, volVars, lock, csi, trimVars, limVars, nhBounds>>

ConnectionLost(s) ==
    /\ ctl[s] = "live" /\ nhFault
    /\ ctl' = [ctl EXCEPT ![s] = "connecting"]
    /\ UNCHANGED <<capped, mdts, target, volVars, lock, csi, trimVars, limVars, nhCalls, nhRestarts>>

\* ctrl_loss_tmo expires.
ControllerLost(s) ==
    /\ ctl[s] \in {"new", "connecting"}
    /\ ctl' = [ctl EXCEPT ![s] = "deleting"]
    /\ UNCHANGED <<capped, mdts, target, volVars, lock, csi, trimVars, limVars, nhBounds>>

ControllerRemoved(s) ==
    /\ ctl[s] = "deleting"
    /\ ctl' = [ctl EXCEPT ![s] = "none"]
    /\ capped' = [capped EXCEPT ![s] = FALSE]
    /\ UNCHANGED <<mdts, target, volVars, lock, csi, trimVars, limVars, nhBounds>>

\* The target restarts on another kernel.
TargetChanges ==
    /\ nhFault /\ target' = 1 - target
    /\ \A s \in Slots : ctl[s] # "live"
    /\ UNCHANGED <<ctl, capped, mdts, volVars, lock, csi, trimVars, limVars, nhCalls, nhRestarts>>

\* ControllerExpandVolume on the storage node.
DiskGrows ==
    /\ disk < MaxBlocks /\ disk' = disk + 1
    /\ UNCHANGED <<ctrlVars, rec, mounted, fs, unstaged, lock, csi, trimVars, limVars, nhBounds>>

NodeRestart ==
    /\ nhRestarts < NhMaxRestarts /\ nhRestarts' = nhRestarts + 1
    /\ lock' = "free" /\ csi' = noCall /\ trim' = noTrim
    /\ lim' = "idle" /\ asked' = {} /\ advertised' = noAnswer
    /\ UNCHANGED <<ctrlVars, volVars, short, nhCalls, nhFaults>>

CsiStep ==
    \/ isConnected \/ WaitForDyingControllers \/ connectFabrics \/ GetDevicePath
    \/ LimitNVMeoFTransferSize \/ DeleteSubsystemControllers \/ waitControllerRemoved
    \/ ResizeFS

TrimStep == trimChunk \/ fitrim \/ finishTrim \/ recordAttempt
LimStep == reconcile \/ pruneAnswer \/ controllersAdvertiseMDTS \/ capLocked

NhNext ==
    \/ nhStage \/ nhUnstage \/ nhExpand \/ CsiStep
    \/ considerRecord \/ TrimStep
    \/ LimStep
    \/ \E s \in Slots : \/ Connected(s) \/ ConnectionLost(s)
                        \/ ControllerLost(s) \/ ControllerRemoved(s)
    \/ TargetChanges \/ DiskGrows \/ NodeRestart

\* The handlers and loops keep running, the waits are bounded and the kernel
\* finishes what it started.
NhFairness ==
    /\ WF_nhVars(CsiStep) /\ WF_nhVars(TrimStep) /\ WF_nhVars(LimStep)
    /\ \A s \in Slots : WF_nhVars(ControllerRemoved(s)) /\ WF_nhVars(Connected(s))

NhSpec == NhInit /\ [][NhNext]_nhVars /\ NhFairness

NhTypeOK ==
    /\ ctl \in [Slots -> {"none", "new", "live", "connecting", "deleting"}]
    /\ mounted \in Slots \cup {0}
    /\ fs \in 1..MaxBlocks /\ disk \in fs..MaxBlocks
    /\ lock \in {"free", "csi", "trim"}

\* A volume never has two controllers of its subsystem at once: a connection
\* is not opened beside a controller the kernel is still removing, whose
\* namespace the new stage could pick up (WaitForDyingControllers).
OneController == Cardinality({s \in Slots : ctl[s] # "none"}) <= 1

\* Neither a trim that was running nor anything else brings the stage record
\* back after an unstage completed (recordAttempt: "a record that is gone is
\* not recreated"; trimVolume takes the volume lock for each chunk).
UnstageIsFinal == unstaged => ~rec

\* A trim that reports success discarded the whole filesystem, although the
\* filesystem may grow between two chunks (trimChunk: "the last chunk extends
\* to the end of the filesystem").
SuccessCoversFilesystem == ~short

\* The trim ledger is sound: no attempt is recorded for a volume that was
\* unstaged, and a pass recorded as successful covered the whole filesystem,
\* also one that grew between two chunks (trim.go).
TrimIsSound == UnstageIsFinal /\ SuccessCoversFilesystem

\* Devices of a target without an MDTS are capped in the end, also after the
\* target was replaced behind a controller that kept its name
\* (transferLimitReconciler).
LimitApplied ==
    (rec /\ liveControllers # {} /\ ~advertiseMDTS(liveControllers)) ~>
        (~rec \/ liveControllers = {} \/ advertiseMDTS(liveControllers) \/ devicesWithin)

=============================================================================
