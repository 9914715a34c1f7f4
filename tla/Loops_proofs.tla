---------------------------- MODULE Loops_proofs ----------------------------
(***************************************************************************)
(* Proofs about the loops that run beside the CSI calls, for every value   *)
(* of their constants: the controllers and the trim ledger of NvmeHost,    *)
(* the transfer of a volume's ownership in Recovery, and the reconcile     *)
(* passes of StorageClassSync.                                             *)
(***************************************************************************)
EXTENDS NvmeHost, Recovery, StorageClassSync, TLAPS

\* Counting a set all of whose elements are equal.
LEMMA AtMostOne ==
    ASSUME NEW S, \A x, y \in S : x = y
    PROVE  Cardinality(S) <= 1
<1> DEFINE Count(f, T) == IF T = {} THEN 0 ELSE 1 + f[T \ {CHOOSE x : x \in T}]
           Counts(f) == f = [T \in SUBSET S |-> Count(f, T)]
           one == [T \in SUBSET S |-> IF T = {} THEN 0 ELSE 1]
<1>1. Cardinality(S) = (CHOOSE f : Counts(f))[S]
  BY Zenon DEF Cardinality
<1>2. ASSUME NEW T \in SUBSET S, T # {} PROVE T \ {CHOOSE x : x \in T} = {}
  BY Zenon, <1>2
<1>3. \A T \in SUBSET S : one[T] = Count(one, T)
  <2>1. one[{}] = 0
    BY Zenon
  <2>2. QED BY <1>2, <2>1
<1>4. Counts(one)
  BY Zenon, <1>3
<1>5. PICK f : Counts(f) /\ Cardinality(S) = f[S]
  BY Zenon, <1>1, <1>4
<1>6. f[{}] = 0 /\ f[S] = Count(f, S)
  BY Zenon, <1>5
<1>7. QED BY <1>2, <1>5, <1>6
----------------------------------------------------------------------------
(* NvmeHost.                                                               *)

USE NhAssumption

\* NodeStageVolume before its record exists.
Staging == {"connect", "dying", "write", "poll", "limit"}
\* The trimmer between taking the volume lock and giving it back.
Trimming == {"discard", "success", "record", "write", "unlock"}

\* The types, with those of the calls.
NhTyped ==
    /\ NhTypeOK
    /\ csi \in [pc : {"idle", "delete", "gone", "resize"} \cup Staging, dev : Slots \cup {0}]
    /\ trim \in [pc : {"idle", "chunk"} \cup Trimming, offset : Nat, size : Nat, covered : Nat]
    /\ rec \in BOOLEAN /\ unstaged \in BOOLEAN /\ short \in BOOLEAN

\* A new controller is only written while the subsystem has none.
ControllerInv ==
    /\ \A s, t \in Slots : ctl[s] # "none" /\ ctl[t] # "none" => s = t
    /\ csi.pc \in {"dying", "write"} => activeControllers = {}
    /\ csi.pc = "write" => \A s \in Slots : ctl[s] = "none"

\* The volume lock is held by whoever changes or rewrites the record.
LockInv ==
    /\ csi.pc # "idle" <=> lock = "csi"
    /\ trim.pc \in Trimming <=> lock = "trim"
    /\ csi.pc \in Staging => ~unstaged
    /\ unstaged => ~rec
    /\ trim.pc = "write" => rec

\* Every chunk but the last ends within what was measured.
CoverInv ==
    /\ ~short
    /\ trim.pc \in {"chunk", "discard"} => trim.covered >= trim.offset
    /\ trim.pc = "discard" \/ trim.offset > 0 => trim.size <= fs
    /\ trim.pc = "success" => trim.covered >= fs

\* The inductive invariant.
NhInv == NhTyped /\ ControllerInv /\ LockInv /\ CoverInv

\* NhInv holds at the start.
LEMMA InitNh ==
    ASSUME NhInit
    PROVE  NhInv
<1>1. NhTyped
  <2>1. NhTypeOK
    BY DEF NhInit, NhTypeOK
  <2>2. csi \in [pc : {"idle", "delete", "gone", "resize"} \cup Staging, dev : Slots \cup {0}]
    BY Zenon DEF NhInit, noCall
  <2>3. trim \in [pc : {"idle", "chunk"} \cup Trimming, offset : Nat, size : Nat, covered : Nat]
    BY Zenon DEF NhInit, noTrim
  <2>4. QED BY Zenon, <2>1, <2>2, <2>3 DEF NhInit, NhTyped
<1>2. ControllerInv /\ LockInv
  BY Zenon DEF NhInit, ControllerInv, LockInv, Trimming, Staging, noCall, noTrim
<1>3. CoverInv
  BY DEF NhInit, CoverInv, noTrim
<1>4. QED BY Zenon, <1>1, <1>2, <1>3 DEF NhInv

\* What the actions assign, one record at a time.
LEMMA CsiTyped ==
    ASSUME NhTyped, [NhNext]_nhVars
    PROVE  csi' \in [pc : {"idle", "delete", "gone", "resize"} \cup Staging, dev : Slots \cup {0}]
<1>0. csi \in [pc : {"idle", "delete", "gone", "resize"} \cup Staging, dev : Slots \cup {0}]
      /\ mounted \in Slots \cup {0}
  BY Zenon DEF NhTyped, NhTypeOK
<1>1. CASE csi' = csi
  BY Zenon, <1>0, <1>1
<1>2. CASE csi' = noCall
  BY Zenon, <1>2 DEF noCall
<1>3. ASSUME NEW pc \in {"connect", "dying", "write", "poll", "limit", "delete", "gone", "resize"},
             csi' = [csi EXCEPT !.pc = pc] \/ csi' = [pc |-> pc, dev |-> mounted]
      PROVE  csi' \in [pc : {"idle", "delete", "gone", "resize"} \cup Staging, dev : Slots \cup {0}]
  BY <1>0, <1>3 DEF Staging
<1>4. CASE GetDevicePath
  BY <1>0, <1>2, <1>4 DEF GetDevicePath, nhReturn, Staging
<1>5. CASE nhStage \/ nhUnstage \/ nhExpand
  BY Zenon, <1>1, <1>3, <1>5 DEF nhStage, nhUnstage, nhExpand, nhCall
<1>6. CASE CsiStep /\ ~GetDevicePath
  BY Zenon, <1>2, <1>3, <1>6 DEF CsiStep, isConnected, WaitForDyingControllers, connectFabrics,
     LimitNVMeoFTransferSize, DeleteSubsystemControllers, waitControllerRemoved, ResizeFS,
     nhGoto, nhReturn
<1>7. CASE \/ considerRecord \/ TrimStep \/ LimStep \/ TargetChanges \/ DiskGrows \/ UNCHANGED nhVars
           \/ \E s \in Slots : Connected(s) \/ ConnectionLost(s) \/ ControllerLost(s) \/ ControllerRemoved(s)
  BY Zenon, <1>1, <1>7 DEF considerRecord, TrimStep, trimChunk, fitrim, finishTrim, recordAttempt, LimStep,
     reconcile, pruneAnswer, controllersAdvertiseMDTS, capLocked, TargetChanges, DiskGrows, nhVars,
     Connected, ConnectionLost, ControllerLost, ControllerRemoved
<1>8. CASE NodeRestart
  BY Zenon, <1>2, <1>8 DEF NodeRestart
<1>9. QED BY Zenon, <1>4, <1>5, <1>6, <1>7, <1>8 DEF NhNext, CsiStep

\* The trimmer keeps the types.
LEMMA TrimTyped ==
    ASSUME NhTyped, [NhNext]_nhVars
    PROVE  /\ trim' \in [pc : {"idle", "chunk"} \cup Trimming, offset : Nat, size : Nat, covered : Nat]
           /\ short' \in BOOLEAN
<1>0. /\ trim \in [pc : {"idle", "chunk"} \cup Trimming, offset : Nat, size : Nat, covered : Nat]
      /\ short \in BOOLEAN /\ fs \in Nat
  BY DEF NhTyped, NhTypeOK
<1>1. CASE considerRecord \/ trimChunk \/ finishTrim \/ recordAttempt
  <2>1. CASE considerRecord \/ recordAttempt
    BY <1>0, <2>1 DEF considerRecord, recordAttempt, noTrim, trimVars
  <2>2. CASE trimChunk
    <3>1. short' = short
      BY Zenon, <2>2 DEF trimChunk
    <3>2. CASE trim' = noTrim
      BY Zenon, <1>0, <3>1, <3>2 DEF noTrim
    <3>3. CASE trim' = [trim EXCEPT !.pc = "record"]
      BY Zenon, <1>0, <3>1, <3>3 DEF Trimming
    <3>4. CASE trim' = [trim EXCEPT !.pc = "discard", !.size = IF trim.offset = 0 THEN fs ELSE @]
      BY Zenon, <1>0, <3>1, <3>4 DEF Trimming
    <3>5. QED BY Zenon, <2>2, <3>2, <3>3, <3>4 DEF trimChunk
  <2>3. CASE finishTrim
    BY Zenon, <1>0, <2>3 DEF finishTrim, Trimming
  <2>4. QED BY Zenon, <1>1, <2>1, <2>2, <2>3
<1>2. CASE fitrim
  <2>1. trim.offset + trimChunkBlocks \in Nat /\ nhMin(chunkEnd, fs) \in Nat
    BY <1>0 DEF nhMin, chunkEnd
  <2>2. QED BY <1>0, <1>2, <2>1 DEF fitrim, Trimming
<1>3. CASE nhStage \/ nhUnstage \/ nhExpand \/ CsiStep
  BY Zenon, <1>0, <1>3 DEF nhStage, nhUnstage, nhExpand, nhCall, CsiStep, isConnected, WaitForDyingControllers,
     connectFabrics, GetDevicePath, LimitNVMeoFTransferSize, DeleteSubsystemControllers,
     waitControllerRemoved, ResizeFS, trimVars
<1>4. CASE \/ LimStep \/ TargetChanges \/ DiskGrows \/ UNCHANGED nhVars
           \/ \E s \in Slots : Connected(s) \/ ConnectionLost(s) \/ ControllerLost(s) \/ ControllerRemoved(s)
  BY Zenon, <1>0, <1>4 DEF LimStep, reconcile, pruneAnswer, controllersAdvertiseMDTS, capLocked, TargetChanges,
     DiskGrows, nhVars, trimVars, Connected, ConnectionLost, ControllerLost, ControllerRemoved
<1>5. CASE NodeRestart
  BY Zenon, <1>0, <1>5 DEF NodeRestart, noTrim
<1>6. QED BY Zenon, <1>1, <1>2, <1>3, <1>4, <1>5 DEF NhNext, TrimStep

\* Connecting and disconnecting keep the types.
LEMMA ControllersTyped ==
    ASSUME NhTyped, [NhNext]_nhVars
    PROVE  /\ ctl' \in [Slots -> {"none", "new", "live", "connecting", "deleting"}]
           /\ lock' \in {"free", "csi", "trim"}
<1>0. /\ ctl \in [Slots -> {"none", "new", "live", "connecting", "deleting"}]
      /\ lock \in {"free", "csi", "trim"}
  BY Zenon DEF NhTyped, NhTypeOK
<1> USE DEF ctrlVars
<1>1. CASE nhStage \/ nhUnstage \/ nhExpand \/ isConnected \/ WaitForDyingControllers
  BY Zenon, <1>0, <1>1 DEF nhStage, nhUnstage, nhExpand, nhCall, isConnected, WaitForDyingControllers, nhGoto, nhReturn
<1>2. CASE connectFabrics \/ GetDevicePath \/ LimitNVMeoFTransferSize
  BY Zenon, <1>0, <1>2 DEF connectFabrics, GetDevicePath, LimitNVMeoFTransferSize, nhGoto, nhReturn
<1>3. CASE DeleteSubsystemControllers \/ waitControllerRemoved \/ ResizeFS
  BY Zenon, <1>0, <1>3 DEF DeleteSubsystemControllers, waitControllerRemoved, ResizeFS, nhGoto, nhReturn
<1>4. CASE considerRecord \/ TrimStep \/ LimStep \/ TargetChanges \/ DiskGrows \/ UNCHANGED nhVars
  BY Zenon, <1>0, <1>4 DEF considerRecord, TrimStep, trimChunk, fitrim, finishTrim, recordAttempt, LimStep,
     reconcile, pruneAnswer, controllersAdvertiseMDTS, capLocked, TargetChanges, DiskGrows, nhVars
<1>5. CASE \E s \in Slots : Connected(s) \/ ConnectionLost(s) \/ ControllerLost(s) \/ ControllerRemoved(s)
  BY Zenon, <1>0, <1>5 DEF Connected, ConnectionLost, ControllerLost, ControllerRemoved
<1>6. CASE NodeRestart
  BY Zenon, <1>0, <1>6 DEF NodeRestart
<1>7. QED BY Zenon, <1>1, <1>2, <1>3, <1>4, <1>5, <1>6 DEF NhNext, CsiStep

\* Staging, resizing, unstaging and restarts keep the types.
LEMMA VolumeTyped ==
    ASSUME NhTyped, [NhNext]_nhVars
    PROVE  /\ mounted' \in Slots \cup {0} /\ fs' \in 1..MaxBlocks /\ disk' \in fs'..MaxBlocks
           /\ rec' \in BOOLEAN /\ unstaged' \in BOOLEAN
<1>0. /\ mounted \in Slots \cup {0} /\ fs \in 1..MaxBlocks /\ disk \in fs..MaxBlocks
      /\ rec \in BOOLEAN /\ unstaged \in BOOLEAN /\ csi.dev \in Slots \cup {0}
  BY Zenon DEF NhTyped, NhTypeOK
<1> USE DEF volVars
<1>1. CASE nhStage \/ nhUnstage \/ nhExpand
  BY Zenon, <1>0, <1>1 DEF nhStage, nhUnstage, nhExpand
<1>2. CASE UNCHANGED volVars
  BY Zenon, <1>0, <1>2
<1>3. CASE LimitNVMeoFTransferSize \/ waitControllerRemoved
  <2>1. UNCHANGED <<fs, disk>> /\ mounted' \in {mounted, csi.dev}
        /\ rec' \in {rec, TRUE, FALSE} /\ unstaged' \in {unstaged, TRUE}
    BY Zenon, <1>3 DEF LimitNVMeoFTransferSize, waitControllerRemoved
  <2>2. QED BY Zenon, <1>0, <2>1
<1>4. CASE ResizeFS \/ DiskGrows
  <2>1. UNCHANGED <<mounted, rec, unstaged>>
    BY Zenon, <1>4 DEF ResizeFS, DiskGrows
  <2>2. /\ fs' \in {fs, disk} /\ disk' \in {disk, disk + 1} /\ disk' <= MaxBlocks
        /\ fs' = fs \/ disk' = disk
    BY <1>0, <1>4 DEF ResizeFS, rescanNVMeDevice, DiskGrows
  <2>3. QED BY <1>0, <2>1, <2>2
<1>5. CASE recordAttempt
  BY Zenon, <1>0, <1>5 DEF recordAttempt
<1>6. CASE \/ isConnected \/ WaitForDyingControllers \/ connectFabrics \/ GetDevicePath
           \/ DeleteSubsystemControllers \/ considerRecord \/ trimChunk \/ fitrim \/ finishTrim
           \/ LimStep \/ TargetChanges \/ NodeRestart \/ UNCHANGED nhVars
           \/ \E s \in Slots : Connected(s) \/ ConnectionLost(s) \/ ControllerLost(s) \/ ControllerRemoved(s)
  BY Zenon, <1>2, <1>6 DEF isConnected, WaitForDyingControllers, connectFabrics, GetDevicePath,
     DeleteSubsystemControllers, considerRecord, trimChunk, fitrim, finishTrim, LimStep,
     reconcile, pruneAnswer, controllersAdvertiseMDTS, capLocked, TargetChanges, nhVars, NodeRestart,
     Connected, ConnectionLost, ControllerLost, ControllerRemoved
<1>7. QED BY Zenon, <1>1, <1>3, <1>4, <1>5, <1>6 DEF NhNext, CsiStep, TrimStep

\* Every step keeps the types.
LEMMA NextNhTyped ==
    ASSUME NhTyped, [NhNext]_nhVars
    PROVE  NhTyped'
BY Zenon, CsiTyped, TrimTyped, ControllersTyped, VolumeTyped DEF NhTyped, NhTypeOK

\* Every step keeps ControllerInv.
LEMMA NextController ==
    ASSUME NhInv, [NhNext]_nhVars
    PROVE  ControllerInv'
<1>0. /\ ctl \in [Slots -> {"none", "new", "live", "connecting", "deleting"}] /\ ControllerInv
      /\ csi \in [pc : {"idle", "delete", "gone", "resize"} \cup Staging, dev : Slots \cup {0}]
  BY Zenon DEF NhInv, NhTyped, NhTypeOK
<1> USE DEF ControllerInv, activeControllers, ctrlVars
<1>1. CASE nhStage \/ nhUnstage \/ nhExpand
  BY <1>0, <1>1 DEF nhStage, nhUnstage, nhExpand, nhCall
<1>2. CASE isConnected \/ WaitForDyingControllers
  BY <1>0, <1>2 DEF isConnected, WaitForDyingControllers, nhGoto, nhReturn, noCall
<1>3. CASE connectFabrics
  BY <1>0, <1>3 DEF connectFabrics, nhGoto, nhReturn, noCall
<1>4. CASE GetDevicePath \/ LimitNVMeoFTransferSize \/ waitControllerRemoved \/ ResizeFS
  BY <1>0, <1>4 DEF GetDevicePath, LimitNVMeoFTransferSize, waitControllerRemoved, ResizeFS, nhReturn, noCall
<1>5. CASE DeleteSubsystemControllers
  BY <1>0, <1>5 DEF DeleteSubsystemControllers, nhGoto, nhReturn, noCall
<1>6. CASE considerRecord \/ TrimStep \/ LimStep \/ TargetChanges \/ DiskGrows
  BY Zenon, <1>0, <1>6 DEF considerRecord, TrimStep, trimChunk, fitrim, finishTrim, recordAttempt, LimStep,
     reconcile, pruneAnswer, controllersAdvertiseMDTS, capLocked, TargetChanges, DiskGrows
<1>7. ASSUME NEW s \in Slots,
             Connected(s) \/ ConnectionLost(s) \/ ControllerLost(s) \/ ControllerRemoved(s)
      PROVE  ControllerInv'
  <2>1. csi' = csi /\ ctl[s] # "none" /\ \A t \in Slots \ {s} : ctl'[t] = ctl[t]
    BY <1>0, <1>7 DEF Connected, ConnectionLost, ControllerLost, ControllerRemoved
  <2>2. ctl[s] = "deleting" => ctl'[s] = "none"
    BY Zenon, <1>0, <1>7 DEF Connected, ConnectionLost, ControllerLost, ControllerRemoved
  <2>3. QED BY Zenon, <1>0, <2>1, <2>2
<1>8. CASE NodeRestart \/ UNCHANGED nhVars
  BY <1>0, <1>8 DEF NodeRestart, noCall, nhVars
<1>9. QED BY Zenon, <1>1, <1>2, <1>3, <1>4, <1>5, <1>6, <1>7, <1>8 DEF NhNext, CsiStep

\* Every step keeps LockInv.
LEMMA NextLock ==
    ASSUME NhInv, [NhNext]_nhVars
    PROVE  LockInv'
<1>0. /\ LockInv /\ rec \in BOOLEAN /\ unstaged \in BOOLEAN
      /\ csi \in [pc : {"idle", "delete", "gone", "resize"} \cup Staging, dev : Slots \cup {0}]
      /\ trim \in [pc : {"idle", "chunk"} \cup Trimming, offset : Nat, size : Nat, covered : Nat]
  BY Zenon DEF NhInv, NhTyped
<1> USE DEF LockInv, Staging, Trimming, volVars, trimVars
<1>1. CASE nhStage \/ nhExpand
  BY <1>0, <1>1 DEF nhStage, nhExpand, nhCall
<1>2. CASE nhUnstage
  BY <1>0, <1>2 DEF nhUnstage, nhCall
<1>3. CASE isConnected \/ WaitForDyingControllers \/ connectFabrics \/ GetDevicePath
  <2>1. UNCHANGED <<volVars, trimVars>>
    BY Zenon, <1>3 DEF isConnected, WaitForDyingControllers, connectFabrics, GetDevicePath
  <2>2. CASE csi' = noCall /\ lock' = "free" /\ csi.pc \in Staging
    BY Zenon, <1>0, <2>1, <2>2 DEF noCall
  <2>3. ASSUME lock' = lock, csi.pc \in Staging, csi'.pc \in Staging PROVE LockInv'
    BY Zenon, <1>0, <2>1, <2>3
  <2>4. CASE isConnected
    BY Zenon, <1>0, <2>3, <2>4 DEF isConnected, nhGoto
  <2>5. CASE WaitForDyingControllers
    BY Zenon, <1>0, <2>2, <2>3, <2>5 DEF WaitForDyingControllers, nhGoto, nhReturn
  <2>6. CASE connectFabrics
    BY Zenon, <1>0, <2>2, <2>3, <2>6 DEF connectFabrics, nhGoto, nhReturn
  <2>7. CASE GetDevicePath
    BY <1>0, <2>2, <2>3, <2>7 DEF GetDevicePath, nhReturn
  <2>8. QED BY Zenon, <1>3, <2>4, <2>5, <2>6, <2>7
<1>4. CASE LimitNVMeoFTransferSize \/ DeleteSubsystemControllers \/ waitControllerRemoved \/ ResizeFS
  <2>1. CASE LimitNVMeoFTransferSize
    BY Zenon, <1>0, <2>1 DEF LimitNVMeoFTransferSize, nhReturn, noCall
  <2>2. CASE DeleteSubsystemControllers
    BY <1>0, <2>2 DEF DeleteSubsystemControllers, nhGoto, nhReturn, noCall
  <2>3. CASE waitControllerRemoved
    BY <1>0, <2>3 DEF waitControllerRemoved, nhReturn, noCall
  <2>4. CASE ResizeFS
    BY Zenon, <1>0, <2>4 DEF ResizeFS, nhReturn, noCall
  <2>5. QED BY Zenon, <1>4, <2>1, <2>2, <2>3, <2>4
<1>5. CASE considerRecord \/ trimChunk
  <2>1. CASE considerRecord
    BY Zenon, <1>0, <2>1 DEF considerRecord, noTrim
  <2>2. CASE trimChunk
    <3>1. UNCHANGED volVars /\ csi' = csi /\ trim.pc = "chunk"
      BY Zenon, <2>2 DEF trimChunk
    <3>2. CASE trim' = noTrim /\ lock' = lock
      BY Zenon, <1>0, <3>1, <3>2 DEF noTrim
    <3>3. CASE trim'.pc \in {"record", "discard"} /\ lock = "free" /\ lock' = "trim"
      BY Zenon, <1>0, <3>1, <3>3
    <3>4. QED BY Zenon, <1>0, <2>2, <3>2, <3>3 DEF trimChunk, tryLock
  <2>3. QED BY Zenon, <1>5, <2>1, <2>2
<1>6. CASE fitrim \/ finishTrim \/ recordAttempt
  <2>1. CASE fitrim
    BY <1>0, <2>1 DEF fitrim
  <2>2. CASE finishTrim
    BY Zenon, <1>0, <2>2 DEF finishTrim
  <2>3. CASE recordAttempt
    BY Zenon, <1>0, <2>3 DEF recordAttempt, noTrim
  <2>4. QED BY Zenon, <1>6, <2>1, <2>2, <2>3
<1>7. CASE \/ LimStep \/ TargetChanges \/ DiskGrows
           \/ \E s \in Slots : Connected(s) \/ ConnectionLost(s) \/ ControllerLost(s) \/ ControllerRemoved(s)
  BY <1>0, <1>7 DEF LimStep, reconcile, pruneAnswer, controllersAdvertiseMDTS, capLocked, TargetChanges,
     DiskGrows, Connected, ConnectionLost, ControllerLost, ControllerRemoved
<1>8. CASE NodeRestart \/ UNCHANGED nhVars
  BY <1>0, <1>8 DEF NodeRestart, noCall, noTrim, nhVars
<1>9. QED BY Zenon, <1>1, <1>2, <1>3, <1>4, <1>5, <1>6, <1>7, <1>8 DEF NhNext, CsiStep, TrimStep

\* Every step keeps CoverInv.
LEMMA NextCover ==
    ASSUME NhInv, [NhNext]_nhVars
    PROVE  CoverInv'
<1>0. /\ CoverInv /\ LockInv /\ fs \in 1..MaxBlocks /\ disk \in fs..MaxBlocks
      /\ trim \in [pc : {"idle", "chunk"} \cup Trimming, offset : Nat, size : Nat, covered : Nat]
  BY Zenon DEF NhInv, NhTyped, NhTypeOK
<1> USE DEF CoverInv, volVars, trimVars
<1>1. CASE nhStage \/ nhUnstage \/ nhExpand
  BY <1>0, <1>1 DEF nhStage, nhUnstage, nhExpand, nhCall
<1>2. CASE \/ isConnected \/ WaitForDyingControllers \/ connectFabrics \/ GetDevicePath
           \/ LimitNVMeoFTransferSize \/ DeleteSubsystemControllers \/ waitControllerRemoved
  BY <1>0, <1>2 DEF isConnected, WaitForDyingControllers, connectFabrics, GetDevicePath,
     LimitNVMeoFTransferSize, DeleteSubsystemControllers, waitControllerRemoved
<1>3. CASE ResizeFS
  <2>1. trim' = trim /\ short' = short /\ fs' \in Nat /\ fs <= fs' /\ trim.pc \notin Trimming
    BY <1>0, <1>3 DEF ResizeFS, rescanNVMeDevice, LockInv
  <2>2. QED BY <1>0, <2>1 DEF Trimming
<1>4. CASE considerRecord \/ trimChunk
  <2>1. CASE considerRecord
    BY <1>0, <2>1 DEF considerRecord, noTrim
  <2>2. CASE trimChunk
    <3>1. fs' = fs /\ short' = short /\ trim.pc = "chunk"
      BY Zenon, <2>2 DEF trimChunk
    <3>2. CASE trim' = noTrim
      BY <1>0, <3>1, <3>2 DEF noTrim
    <3>3. CASE trim' = [trim EXCEPT !.pc = "record"]
      BY Zenon, <1>0, <3>1, <3>3
    <3>4. CASE trim' = [trim EXCEPT !.pc = "discard", !.size = IF trim.offset = 0 THEN fs ELSE @]
      BY <1>0, <3>1, <3>4
    <3>5. QED BY Zenon, <2>2, <3>2, <3>3, <3>4 DEF trimChunk
  <2>3. QED BY Zenon, <1>4, <2>1, <2>2
<1>5. CASE fitrim
  <2>0. fs' = fs /\ short' = short /\ trim.pc = "discard"
    BY Zenon, <1>5 DEF fitrim
  <2>1. CASE trim' = [trim EXCEPT !.pc = "record"]
    BY Zenon, <1>0, <2>0, <2>1
  <2>2. CASE trim' = [pc |-> IF lastChunk THEN "success" ELSE "chunk",
                      offset |-> trim.offset + trimChunkBlocks, size |-> trim.size,
                      covered |-> IF trim.covered >= trim.offset
                                  THEN nhMin(chunkEnd, fs) ELSE trim.covered]
    <3>1. trim'.size = trim.size /\ trim.size <= fs /\ trim'.offset = trim.offset + trimChunkBlocks
          /\ trim'.covered = nhMin(chunkEnd, fs)
      BY Zenon, <1>0, <2>0, <2>2
    <3>2. CASE lastChunk
      <4>1. trim'.covered = fs /\ trim'.pc = "success"
        BY <1>0, <2>2, <3>1, <3>2 DEF nhMin, chunkEnd
      <4>2. QED BY <1>0, <2>0, <3>1, <4>1
    <3>3. CASE ~lastChunk
      <4>1. trim'.covered = trim.offset + trimChunkBlocks /\ trim'.pc = "chunk"
        BY <1>0, <2>2, <3>1, <3>3 DEF nhMin, chunkEnd, lastChunk
      <4>2. QED BY <1>0, <2>0, <3>1, <4>1
    <3>4. QED BY Zenon, <3>2, <3>3
  <2>3. QED BY Zenon, <1>5, <2>1, <2>2 DEF fitrim
<1>6. CASE finishTrim
  <2>1. ~(trim.pc = "success" /\ trim.covered < fs)
    BY <1>0
  <2>2. fs' = fs /\ short' = FALSE /\ trim'.pc \in {"write", "unlock"}
        /\ trim'.offset = trim.offset /\ trim'.size = trim.size
    <3>1. short' = FALSE
      BY Zenon, <1>0, <1>6, <2>1 DEF finishTrim
    <3>2. QED BY Zenon, <1>0, <1>6, <3>1 DEF finishTrim
  <2>3. trim.offset > 0 => trim.size <= fs
    BY Zenon, <1>0
  <2>4. QED BY Zenon, <2>2, <2>3
<1>7. CASE recordAttempt
  BY <1>0, <1>7 DEF recordAttempt, noTrim
<1>8. CASE \/ LimStep \/ TargetChanges \/ DiskGrows
           \/ \E s \in Slots : Connected(s) \/ ConnectionLost(s) \/ ControllerLost(s) \/ ControllerRemoved(s)
  BY <1>0, <1>8 DEF LimStep, reconcile, pruneAnswer, controllersAdvertiseMDTS, capLocked, TargetChanges,
     DiskGrows, Connected, ConnectionLost, ControllerLost, ControllerRemoved
<1>9. CASE NodeRestart \/ UNCHANGED nhVars
  BY <1>0, <1>9 DEF NodeRestart, noTrim, nhVars
<1>10. QED BY Zenon, <1>1, <1>2, <1>3, <1>4, <1>5, <1>6, <1>7, <1>8, <1>9 DEF NhNext, CsiStep, TrimStep

\* NhInv is invariant.
LEMMA NhInvHolds == NhSpec => []NhInv
<1>1. NhInv /\ [NhNext]_nhVars => NhInv'
  BY Zenon, NextNhTyped, NextController, NextLock, NextCover DEF NhInv
<1>2. QED BY <1>1, InitNh, PTL DEF NhSpec

\* Whatever the kernel, the target and restarts of the node plugin do, a
\* stage never writes a second controller for the volume's subsystem:
\* WaitForDyingControllers comes between the look at the controllers and the
\* write to /dev/nvme-fabrics, and only the kernel moves in between.
THEOREM OneControllerOnly == NhSpec => []OneController
<1>1. ASSUME NhInv PROVE OneController
  <2>1. \A s, t \in {u \in Slots : ctl[u] # "none"} : s = t
    BY Zenon, <1>1 DEF NhInv, ControllerInv
  <2>2. QED BY Zenon, <2>1, AtMostOne DEF OneController
<1>2. QED BY <1>1, NhInvHolds, PTL

\* The trimmer never brings back the record of an unstaged volume, and what
\* it records as a success covered the filesystem as it is then, for every
\* size, chunk size and interleaving with NodeExpandVolume.
THEOREM TrimSound == NhSpec => []TrimIsSound
<1>1. NhInv => TrimIsSound
  BY Zenon DEF NhInv, LockInv, CoverInv, TrimIsSound, UnstageIsFinal, SuccessCoversFilesystem
<1>2. QED BY <1>1, NhInvHolds, PTL

\* The state of the volume keeps its type; the filesystem never outgrows its
\* device.
THEOREM NhTypeCorrect == NhSpec => []NhTypeOK
<1>1. NhInv => NhTypeOK
  BY Zenon DEF NhInv, NhTyped
<1>2. QED BY <1>1, NhInvHolds, PTL

HIDE NhAssumption

-----------------------------------------------------------------------------
(* Recovery.                                                               *)

USE RecAssumption

\* Marks as TransferVolumeOwnership and the tokens leave them.
Marks == [uid : Heirs \cup {OldLife}, gen : Nat, ended : BOOLEAN, endedUIDs : SUBSET (Heirs \cup {OldLife}),
          transfer : [to : Heirs \cup {NoLife}, from : Nat, gen : Nat]]

\* The records of a recovery.
Intents == [phase : {"absent", "new", "RecoveryPending", "CreatePartial", "Ready"}, oldGen : Nat, gen : Nat]

\* The mark the agent reads is the durable one, or the one of a transfer that
\* may still be undone, and then nothing is served.  Only the owner of the mark
\* is served, and who was told of a transfer owns the durable mark.
RecInv ==
    /\ RecTypeOK
    /\ seen \in Marks /\ durable \in Marks
    /\ intent \in [Heirs -> Intents]
    /\ durable.uid \in {seen.uid, OldLife}
    /\ serves \subseteq {seen.uid}
    /\ seen.uid # durable.uid => serves = {}
    /\ AnsweredIsDurable

\* The fields of a mark.
LEMMA MarkFields ==
    ASSUME NEW m \in Marks
    PROVE  /\ m.uid \in Heirs \cup {OldLife} /\ m.gen \in Nat
           /\ m.endedUIDs \in SUBSET (Heirs \cup {OldLife})
           /\ \A g \in Nat : [m EXCEPT !.gen = g] \in Marks /\ [m EXCEPT !.gen = g].uid = m.uid
  BY Zenon DEF Marks

\* A write of the mark that keeps its owner.
LEMMA OwnMark ==
    ASSUME RecInv, NEW g \in Nat, NEW how, WriteMark([seen EXCEPT !.gen = g], how)
    PROVE  /\ seen' \in Marks /\ durable' \in Marks /\ seen'.uid = seen.uid
           /\ durable'.uid \in {durable.uid, seen.uid}
           /\ how = "synced" => durable'.uid = seen.uid
           /\ recFaults' \in 0..RecMaxFaults
<1>1. /\ [seen EXCEPT !.gen = g] \in Marks /\ [seen EXCEPT !.gen = g].uid = seen.uid
      /\ recFaults \in Nat
  BY MarkFields DEF RecInv, RecTypeOK
<1>2. QED BY <1>1 DEF WriteMark, RecInv

\* A step that moves no mark to another owner keeps the invariant, if it serves
\* nobody but the owner, and that only on a durable mark.
LEMMA OwnerStays ==
    ASSUME RecInv, seen' \in Marks, durable' \in Marks, seen'.uid = seen.uid,
           durable'.uid \in {durable.uid, seen.uid},
           serves' \subseteq serves \/ (serves' \subseteq serves \cup {seen.uid} /\ durable'.uid = seen.uid),
           told' = told \/ (told' = told \cup {seen.uid} /\ durable'.uid = seen.uid /\ seen.uid \in Heirs),
           intent' \in [Heirs -> Intents],
           late' \subseteq Heirs, recFaults' \in 0..RecMaxFaults, recRetries' \in 0..RecMaxRetries
    PROVE  RecInv'
<1>1. /\ seen'.uid \in Heirs \cup {OldLife} /\ durable'.uid \in Heirs \cup {OldLife}
      /\ seen.uid \in Heirs \cup {OldLife}
  BY Zenon, MarkFields DEF RecInv
<1>2. serves' \subseteq {seen.uid} /\ (seen'.uid # durable'.uid => serves' = {})
  BY Zenon DEF RecInv
<1>3. AnsweredIsDurable'
  <2>1. told # {} => durable.uid = seen.uid
    BY Zenon DEF RecInv, RecTypeOK, AnsweredIsDurable
  <2>2. QED BY <2>1 DEF RecInv, AnsweredIsDurable
<1>4. RecTypeOK'
  BY Zenon, <1>1, <1>2 DEF RecInv, RecTypeOK
<1>5. QED BY Zenon, <1>1, <1>2, <1>3, <1>4 DEF RecInv

\* Everything stays.
LEMMA RecUnchanged ==
    ASSUME RecInv
    PROVE  /\ seen \in Marks /\ durable \in Marks /\ late \subseteq Heirs
           /\ recFaults \in 0..RecMaxFaults /\ recRetries \in 0..RecMaxRetries
           /\ intent \in [Heirs -> Intents]
           /\ seen.gen \in Nat /\ \A n \in Heirs : intent[n].gen \in Nat
  BY Zenon, MarkFields DEF RecInv, RecTypeOK, Intents

LEMMA PowerLossInv ==
    ASSUME RecInv, PowerLoss
    PROVE  RecInv'
<1>0. /\ seen \in Marks /\ durable \in Marks
      /\ recFaults \in 0..RecMaxFaults /\ recRetries \in 0..RecMaxRetries
  BY Zenon, RecUnchanged
<1>1. PICK m \in {seen, durable} : seen' = m /\ durable' = m
  BY Zenon DEF PowerLoss
<1>2. m.uid \in Heirs \cup {OldLife} /\ recFaults' \in 0..RecMaxFaults
  BY <1>0, MarkFields DEF PowerLoss
<1>3. RecTypeOK' /\ serves' = {}
  BY Zenon, <1>0, <1>1, <1>2 DEF PowerLoss, RecInv, RecTypeOK
<1>4. AnsweredIsDurable'
  <2>1. told # {} => durable.uid = seen.uid
    BY Zenon DEF RecInv, RecTypeOK, AnsweredIsDurable
  <2>2. QED BY Zenon, <1>1, <2>1 DEF PowerLoss, RecInv, AnsweredIsDurable
<1>5. QED BY Zenon, <1>0, <1>1, <1>3, <1>4 DEF RecInv, PowerLoss

LEMMA OldInv ==
    ASSUME RecInv, NEW g \in 1..2, NEW how, OldGrants(g, how) \/ OldRevokes(g, how)
    PROVE  RecInv'
<1>0. /\ WriteMark([seen EXCEPT !.gen = g], how) /\ seen.uid = OldLife /\ g \in Nat
      /\ serves' \subseteq serves \/ (serves' \subseteq serves \cup {seen.uid} /\ how = "synced")
      /\ UNCHANGED <<intent, late, told, recRetries>>
  BY DEF OldGrants, OldRevokes, AdmitsToken
<1>1. QED BY Zenon, <1>0, OwnMark, OwnerStays, RecUnchanged

LEMMA OperatorInv ==
    ASSUME RecInv, NEW n \in Heirs,
           \/ OperatorDeclares(n) \/ OperatorAuthorizes(n) \/ Expire(n)
           \/ adoptRecoveryIntent(n) \/ recoverVolume(n) \/ recoveryTransfer(n)
           \/ persistCreatePartial(n) \/ GiveUp(n)
    PROVE  RecInv'
<1>0. /\ seen \in Marks /\ durable \in Marks /\ late \subseteq Heirs
      /\ recFaults \in 0..RecMaxFaults /\ recRetries \in 0..RecMaxRetries
      /\ intent \in [Heirs -> Intents]
      /\ seen.gen \in Nat
  BY Zenon, RecUnchanged
<1>1. /\ UNCHANGED <<seen, durable, told, recFaults>> /\ serves' \subseteq serves
      /\ late' \subseteq late \cup {n}
      /\ recRetries' = recRetries \/ (recRetries < RecMaxRetries /\ recRetries' = recRetries + 1)
  BY Zenon DEF OperatorDeclares, OperatorAuthorizes, Expire, adoptRecoveryIntent, recoverVolume,
         recoveryTransfer, persistCreatePartial, GiveUp
<1>2. intent' \in [Heirs -> Intents]
  <2>1. \/ intent' = intent
        \/ intent' = [intent EXCEPT ![n] = [phase |-> "new", oldGen |-> seen.gen, gen |-> 0]]
        \/ intent' = [intent EXCEPT ![n] = adoptRecoveryPhase(@)]
        \/ intent' = [intent EXCEPT ![n].phase = "CreatePartial"]
    BY Zenon DEF OperatorDeclares, OperatorAuthorizes, Expire, adoptRecoveryIntent, recoverVolume,
       recoveryTransfer, persistCreatePartial, GiveUp
  <2>2. \A i \in Intents :
            /\ adoptRecoveryPhase(i) \in Intents
            /\ [i EXCEPT !.phase = "CreatePartial"] \in Intents
    BY Zenon DEF adoptRecoveryPhase, NewGeneration, Intents
  <2>3. [phase |-> "new", oldGen |-> seen.gen, gen |-> 0] \in Intents
    BY Zenon, <1>0 DEF Intents
  <2>4. QED BY ZenonT(30), <1>0, <2>1, <2>2, <2>3
<1>3. recRetries' \in 0..RecMaxRetries
  BY <1>0, <1>1
<1>4. QED BY Zenon, <1>0, <1>1, <1>2, <1>3, OwnerStays

LEMMA AdminInv ==
    ASSUME RecInv, AdminStops
    PROVE  RecInv'
<1>1. UNCHANGED <<seen, durable, intent, late, told, recFaults, recRetries>> /\ serves' \subseteq serves
  BY Zenon DEF AdminStops
<1>2. QED BY Zenon, <1>1, RecUnchanged, OwnerStays

LEMMA ExportInv ==
    ASSUME RecInv, NEW n \in Heirs, NEW how, exportRecovered(n, how) \/ publishRecovered(n, how)
    PROVE  RecInv'
<1>0. /\ seen \in Marks /\ durable \in Marks /\ late \subseteq Heirs
      /\ recFaults \in 0..RecMaxFaults /\ recRetries \in 0..RecMaxRetries
      /\ intent \in [Heirs -> Intents]
      /\ seen.gen \in Nat /\ intent[n].gen + 1 \in Nat
  BY RecUnchanged
<1>1. intent' \in [Heirs -> Intents]
  BY <1>0 DEF exportRecovered, publishRecovered, Intents
<1>2. \/ /\ seen.uid = n /\ WriteMark([seen EXCEPT !.gen = intent[n].gen + 1], how)
         /\ serves' \subseteq serves \/ (serves' \subseteq serves \cup {n} /\ how = "synced")
      \/ UNCHANGED <<seen, durable, recFaults, serves>>
  BY Zenon DEF exportRecovered, publishRecovered, AdmitsToken
<1>3. UNCHANGED <<late, told, recRetries>>
  BY Zenon DEF exportRecovered, publishRecovered
<1>4. QED BY Zenon, <1>0, <1>1, <1>2, <1>3, OwnMark, OwnerStays

LEMMA TransferInv ==
    ASSUME RecInv, NEW n \in Heirs, TransferVolumeOwnership(n)
    PROVE  RecInv'
<1>0. /\ seen \in Marks /\ durable \in Marks /\ late \subseteq Heirs
      /\ recFaults \in 0..RecMaxFaults /\ recRetries \in 0..RecMaxRetries
      /\ intent \in [Heirs -> Intents]
      /\ seen.gen \in Nat /\ seen.uid \in Heirs \cup {OldLife}
      /\ seen.endedUIDs \in SUBSET (Heirs \cup {OldLife})
  BY Zenon, RecUnchanged, MarkFields
<1>1. late' \subseteq Heirs /\ UNCHANGED <<serves, intent, recRetries>>
  BY Zenon, <1>0 DEF TransferVolumeOwnership
<1>2. ASSUME NEW how, seen.uid = n, WriteMark(seen, how),
             Answered(n, IF how = "synced" THEN "committed" ELSE "unknown")
      PROVE  RecInv'
  <2>1. /\ seen' = seen /\ durable' \in {seen, durable} /\ recFaults' \in 0..RecMaxFaults
        /\ how = "synced" => durable' = seen
    BY <1>0, <1>2 DEF WriteMark
  <2>2. told' = told \/ (told' = told \cup {seen.uid} /\ how = "synced")
    BY Zenon, <1>2 DEF Answered
  <2>3. QED BY Zenon, <1>0, <1>1, <1>2, <2>1, <2>2, OwnerStays
<1>3. ASSUME NEW how \in {"synced", "unsynced", "failed"}, seen.uid = OldLife, serves = {},
             WriteMark(transferAdmittedMark(n), how),
             Answered(n, CASE how = "synced" -> "committed"
                           [] how = "unsynced" -> "unknown"
                           [] OTHER -> "error")
      PROVE  RecInv'
  <2>1. transferAdmittedMark(n) \in Marks /\ transferAdmittedMark(n).uid = n
    BY Zenon, <1>0 DEF transferAdmittedMark, Marks, NewGeneration
  <2>2. durable.uid = OldLife /\ told = {}
    BY Zenon, <1>3 DEF RecInv, RecTypeOK, AnsweredIsDurable
  <2>3. /\ seen' \in {seen, transferAdmittedMark(n)} /\ durable' \in {durable, transferAdmittedMark(n)}
        /\ how = "synced" => durable' = transferAdmittedMark(n) /\ seen' = transferAdmittedMark(n)
        /\ how # "synced" => durable' = durable
        /\ recFaults' \in 0..RecMaxFaults
    BY <1>0, <1>3 DEF WriteMark
  <2>4. told' = IF how = "synced" THEN {n} ELSE {}
    BY Zenon, <1>3, <2>2 DEF Answered
  <2>5. AnsweredIsDurable'
    BY Zenon, <2>1, <2>2, <2>3, <2>4 DEF AnsweredIsDurable
  <2>6. seen'.uid \in {OldLife, n} /\ durable'.uid \in {seen'.uid, OldLife} /\ durable'.uid \in {OldLife, n}
    BY Zenon, <1>3, <2>1, <2>2, <2>3
  <2>7. RecTypeOK'
    BY Zenon, <1>0, <1>1, <1>3, <2>3, <2>4, <2>6 DEF RecTypeOK
  <2>8. QED BY Zenon, <1>0, <1>1, <1>3, <2>1, <2>3, <2>5, <2>6, <2>7 DEF RecInv
<1>4. ASSUME Answered(n, "error"), UNCHANGED <<seen, durable, recFaults>>
      PROVE  RecInv'
  <2>1. told' = told
    BY Zenon, <1>4 DEF Answered
  <2>2. QED BY Zenon, <1>0, <1>1, <1>4, <2>1, OwnerStays
<1>5. QED BY Zenon, <1>2, <1>3, <1>4
          DEF TransferVolumeOwnership, retryCommitted, transferAdmitted, verifyTransferEvidence,
              exportAdmitsInitiators, inspectOwnExports

\* The invariant is inductive.
LEMMA RecInvHolds == RecSpec => []RecInv
<1>1. RecInit => RecInv
  <2>1. SUFFICES ASSUME RecInit PROVE RecInv
    BY Zenon
  <2>2. seen \in Marks /\ seen.uid = OldLife /\ durable = seen
    BY Zenon, <2>1 DEF RecInit, Marks, NoTransfer
  <2>3. intent \in [Heirs -> Intents]
    BY Zenon, <2>1 DEF RecInit, NoIntent, Intents
  <2>4. RecTypeOK
    <3>1. 0 \in 0..RecMaxFaults /\ 0 \in 0..RecMaxRetries
      OBVIOUS
    <3>2. QED BY Zenon, <2>1, <2>2, <3>1 DEF RecInit, RecTypeOK
  <2>5. QED BY Zenon, <2>1, <2>2, <2>3, <2>4 DEF RecInit, RecInv, AnsweredIsDurable
<1>2. RecInv /\ [RecNext]_recVars => RecInv'
  <2>1. SUFFICES ASSUME RecInv, [RecNext]_recVars PROVE RecInv'
    BY Zenon
  <2>2. CASE UNCHANGED recVars
    BY Zenon, <2>1, <2>2 DEF recVars, RecInv, RecTypeOK, AnsweredIsDurable
  <2>3. QED BY Zenon, <2>1, <2>2, PowerLossInv, AdminInv, OldInv, OperatorInv, ExportInv, TransferInv DEF RecNext
<1>3. QED BY <1>1, <1>2, PTL DEF RecSpec

\* However many records want the LV and however often calls are retried, the
\* power is lost or a mark is not synced, one lifecycle at most is served and
\* what TransferVolumeOwnership answered as committed stays committed.
THEOREM RecoveryStaysSafe == RecSpec => []RecoveryIsSafe
<1>1. RecInv => RecoveryIsSafe
  <2>1. SUFFICES ASSUME RecInv PROVE RecoveryIsSafe
    BY Zenon
  <2>2. \A x, y \in serves : x = y
    BY Zenon, <2>1 DEF RecInv
  <2>3. OneClusterServes
    BY Zenon, <2>2, AtMostOne DEF OneClusterServes
  <2>4. QED BY Zenon, <2>1, <2>3 DEF RecInv, RecoveryIsSafe
<1>2. QED BY <1>1, RecInvHolds, PTL

\* A transfer that is on disk is final, for any number of recovery records:
\* every write that follows it is a write of its own mark.
THEOREM TransfersAreFinal == RecSpec => TransferIsFinal
<1>1. RecInv /\ [RecNext]_recVars => [durable.uid # OldLife => durable'.uid = durable.uid]_recVars
  <2>1. SUFFICES ASSUME RecInv, RecNext, durable.uid # OldLife PROVE durable'.uid = durable.uid
    BY Zenon
  <2>2. seen.uid = durable.uid
    BY Zenon, <2>1 DEF RecInv
  <2>3. ASSUME NEW m \in Marks, m.uid = seen.uid, NEW how, WriteMark(m, how)
        PROVE  durable'.uid = durable.uid
    BY Zenon, <2>2, <2>3 DEF WriteMark
  <2>4. \A g \in Nat : [seen EXCEPT !.gen = g] \in Marks /\ [seen EXCEPT !.gen = g].uid = seen.uid
    BY Zenon, <2>1, MarkFields DEF RecInv
  <2>5. CASE PowerLoss
    BY Zenon, <2>2, <2>5 DEF PowerLoss
  <2>6. ASSUME NEW n \in Heirs, TransferVolumeOwnership(n) PROVE durable'.uid = durable.uid
    BY Zenon, <2>1, <2>2, <2>3, <2>6 DEF TransferVolumeOwnership, retryCommitted, transferAdmitted, RecInv
  <2>7. ASSUME NEW g \in 1..2, NEW how, OldGrants(g, how) \/ OldRevokes(g, how)
        PROVE  durable'.uid = durable.uid
    BY Zenon, <2>1, <2>2, <2>7 DEF OldGrants, OldRevokes, AdmitsToken
  <2>8. ASSUME NEW n \in Heirs, NEW how, exportRecovered(n, how) \/ publishRecovered(n, how)
        PROVE  durable'.uid = durable.uid
    <3>1. intent[n].gen + 1 \in Nat
      BY <2>1, RecUnchanged
    <3>2. QED BY Zenon, <2>3, <2>4, <2>8, <3>1 DEF exportRecovered, publishRecovered
  <2>9. ASSUME NEW n \in Heirs,
               \/ OperatorDeclares(n) \/ OperatorAuthorizes(n) \/ Expire(n)
               \/ adoptRecoveryIntent(n) \/ recoverVolume(n) \/ recoveryTransfer(n)
               \/ persistCreatePartial(n) \/ GiveUp(n)
        PROVE  durable'.uid = durable.uid
    BY Zenon, <2>9 DEF OperatorDeclares, OperatorAuthorizes, Expire, adoptRecoveryIntent, recoverVolume,
       recoveryTransfer, persistCreatePartial, GiveUp
  <2>10. QED BY Zenon, <2>1, <2>5, <2>6, <2>7, <2>8, <2>9 DEF RecNext, AdminStops
<1>2. QED BY <1>1, RecInvHolds, PTL DEF RecSpec, TransferIsFinal

HIDE RecAssumption

-----------------------------------------------------------------------------
(* StorageClassSync.                                                       *)

\* The values the pass of the binding's worker takes.
Copies(S) == [val : S, cur : BOOLEAN]
Bindings == Copies(BindingStates)
Keepsakes == ScMetas \cup {Blank}
Passes ==
    {ScIdle} \cup [at : {"get", "clear"}, b : Bindings]
             \cup [at : {"apply"}, b : Bindings, check : Bindings]
             \cup [at : {"record", "delete", "create"}, b : Bindings, c : Copies(Classes), carry : Keepsakes]

\* The pass holds the copy of the binding it started with.
Started == so.at \in {"get", "apply", "record", "delete", "create"}
Recreating == so.at \in {"record", "delete"}

\* A copy that is current is equal to the object.
CopiesTrue ==
    /\ classC.cur => classC.val = class
    /\ bindingC.cur => bindingC.val = binding
    /\ so.at # "idle" /\ so.b.cur => so.b.val = binding
    /\ so.at = "apply" /\ so.check.cur => so.check.val = binding
    /\ Recreating /\ so.c.cur => so.c.val = class /\ classC.val = class
    /\ Started /\ so.b.cur => bindingC.val.params = binding.params

\* What the pass that re-creates the class relies on.
RecreatesSafely ==
    /\ Recreating => /\ so.c.val.owner # "other" /\ so.carry = so.c.val.meta
                     /\ storageClassImmutableDrift(so.c.val, so.b.val)
    /\ so.at \in {"delete", "create"} => binding.carry = so.carry
    /\ so.at = "delete" /\ so.c.cur /\ promise # Free => class = NoClass \/ so.b.cur

\* While a class that is promised is gone, the record on the binding has its
\* metadata, and every copy in use leads to the re-creation.
PromiseRecorded ==
    class = NoClass /\ promise # Free =>
      /\ binding.carry = promise
      /\ bindingC.val.params = binding.params
      /\ Started => so.b.val.params = binding.params
      /\ classC.val # NoClass => classC.val.meta = promise /\ storageClassImmutableDrift(classC.val, binding)
      /\ so.at \in {"record", "delete", "create"} => so.carry = promise
      /\ so.at = "apply" => so.check.val.carry = promise
      /\ so.at # "clear"

ScTyped ==
    /\ class \in Classes \cup {NoClass} /\ classC \in Copies(Classes \cup {NoClass})
    /\ binding \in BindingStates /\ bindingC \in Bindings
    /\ promise \in Keepsakes \cup {Free}
    /\ so \in Passes

ScInv == ScTyped /\ CopiesTrue /\ RecreatesSafely /\ PromiseRecorded /\ MetadataKept

\* The fields of the values.
LEMMA ScFields ==
    /\ \A c \in Classes : c # NoClass /\ c.meta \in Keepsakes /\ c.params \in ScParams
                          /\ \A m \in Keepsakes : /\ [c EXCEPT !.meta = m] \in Classes
                                                  /\ [c EXCEPT !.meta = m].meta = m
                                                  /\ [c EXCEPT !.meta = m].owner = c.owner
    /\ \A b \in BindingStates : b.params \in ScParams /\ b.carry \in Keepsakes \cup {NoCarry}
    /\ \A S : \A k \in Copies(S) : /\ k.val \in S /\ k.cur \in BOOLEAN
                                   /\ Stale(k) \in Copies(S) /\ Stale(k).val = k.val /\ Stale(k).cur = FALSE
    /\ \A S : \A x \in S : Copy(x) \in Copies(S) /\ Copy(x).val = x /\ Copy(x).cur = TRUE
    /\ Free \notin Keepsakes /\ NoCarry \notin Keepsakes
<1>1. \A c \in Classes : c # NoClass /\ c.meta \in Keepsakes /\ c.params \in ScParams
  BY DEF Classes, Keepsakes, NoClass
<1>2. \A c \in Classes : \A m \in Keepsakes : /\ [c EXCEPT !.meta = m] \in Classes
                                              /\ [c EXCEPT !.meta = m].meta = m
                                              /\ [c EXCEPT !.meta = m].owner = c.owner
  BY Zenon DEF Classes, Keepsakes
<1>3. \A b \in BindingStates : b.params \in ScParams /\ b.carry \in Keepsakes \cup {NoCarry}
  BY Zenon DEF BindingStates, Keepsakes
<1>4. \A S : \A k \in Copies(S) : /\ k.val \in S /\ k.cur \in BOOLEAN
                                   /\ Stale(k) \in Copies(S) /\ Stale(k).val = k.val /\ Stale(k).cur = FALSE
  BY Zenon DEF Copies, Stale
<1>5. \A S : \A x \in S : Copy(x) \in Copies(S) /\ Copy(x).val = x /\ Copy(x).cur = TRUE
  BY Zenon DEF Copies, Copy
<1>6. Free \notin Keepsakes /\ NoCarry \notin Keepsakes
  BY Zenon, ScAssumption DEF Free, NoCarry, Blank, Keepsakes
<1>7. QED BY Zenon, <1>1, <1>2, <1>3, <1>4, <1>5, <1>6

\* An outdated copy, and a new one.
LEMMA StaleIs ==
    ASSUME NEW S, NEW k \in Copies(S)
    PROVE  Stale(k) \in Copies(S) /\ Stale(k).val = k.val /\ ~Stale(k).cur /\ Stale(k).cur \in BOOLEAN
  BY Zenon, ScFields

\* The fields of a pass.
LEMMA PassFields ==
    ASSUME NEW p \in Passes
    PROVE  /\ p.at \in {"idle", "get", "apply", "record", "delete", "create", "clear"}
           /\ p.at = "idle" => p = ScIdle
           /\ p.at \in {"get", "clear"} => p \in [at : {"get", "clear"}, b : Bindings]
           /\ p.at = "apply" => p \in [at : {"apply"}, b : Bindings, check : Bindings]
           /\ p.at \in {"record", "delete", "create"} =>
                p \in [at : {"record", "delete", "create"}, b : Bindings, c : Copies(Classes), carry : Keepsakes]
           /\ p.at # "idle" => p.b \in Bindings
           /\ p.at = "apply" => p.check \in Bindings
           /\ p.at \in {"record", "delete", "create"} => p.c \in Copies(Classes) /\ p.carry \in Keepsakes
  BY DEF Passes, ScIdle

\* The class made of a binding.
LEMMA DesiredIs ==
    ASSUME NEW b \in BindingStates, NEW m \in Keepsakes
    PROVE  /\ desiredStorageClassFor(b, m) \in Classes /\ desiredStorageClassFor(b, m).meta = m
           /\ desiredStorageClassFor(b, m).driver = "block" /\ desiredStorageClassFor(b, m).params = b.params
  BY Zenon DEF desiredStorageClassFor, Classes, BindingStates, Keepsakes

\* The pass ends without a write, or the caches are listed anew.
LEMMA PassEnds ==
    ASSUME ScInv, so' = ScIdle, UNCHANGED <<class, binding, promise>>,
           classC' \in {classC, Copy(class)}, bindingC' \in {bindingC, Copy(binding)}
    PROVE  ScInv'
<1>1. so'.at = "idle"
  BY Zenon DEF ScIdle
<1>2. /\ classC' \in Copies(Classes \cup {NoClass}) /\ bindingC' \in Bindings
      /\ classC'.cur => classC'.val = class
      /\ bindingC'.cur => bindingC'.val = binding
      /\ classC'.val \in {classC.val, class} /\ bindingC'.val \in {bindingC.val, binding}
  <2>1. /\ classC \in Copies(Classes \cup {NoClass}) /\ class \in Classes \cup {NoClass}
        /\ bindingC \in Copies(BindingStates) /\ binding \in BindingStates
        /\ classC.cur => classC.val = class
        /\ bindingC.cur => bindingC.val = binding
    BY Zenon DEF ScInv, ScTyped, CopiesTrue, Bindings
  <2>2. /\ Copy(class) \in Copies(Classes \cup {NoClass}) /\ Copy(class).val = class
        /\ Copy(binding) \in Copies(BindingStates) /\ Copy(binding).val = binding
    BY Zenon, <2>1, ScFields
  <2>3. QED BY ONLY Zenon, <2>1, <2>2, classC' \in {classC, Copy(class)},
                    bindingC' \in {bindingC, Copy(binding)} DEF Bindings
<1>3. ScTyped'
  BY Zenon, <1>2 DEF ScInv, ScTyped, Passes
<1>4. CopiesTrue' /\ RecreatesSafely'
  BY Zenon, <1>1, <1>2 DEF CopiesTrue, RecreatesSafely, Recreating, Started
<1>5. PromiseRecorded'
  BY Zenon, <1>1, <1>2 DEF ScInv, PromiseRecorded, Started
<1>6. QED BY Zenon, <1>3, <1>4, <1>5 DEF ScInv, MetadataKept

LEMMA InformerInv ==
    ASSUME ScInv, InformerAdvances
    PROVE  ScInv'
<1>1. /\ classC' \in Copies(Classes \cup {NoClass}) /\ bindingC' \in Bindings
      /\ classC'.cur => classC'.val = class
      /\ bindingC'.cur => bindingC'.val = binding
      /\ classC'.val \in {classC.val, class} /\ bindingC'.val \in {bindingC.val, binding}
      /\ UNCHANGED <<class, binding, so, promise>>
  <2>1. /\ classC \in Copies(Classes \cup {NoClass}) /\ class \in Classes \cup {NoClass}
        /\ bindingC \in Copies(BindingStates) /\ binding \in BindingStates
        /\ classC.cur => classC.val = class
        /\ bindingC.cur => bindingC.val = binding
    BY Zenon DEF ScInv, ScTyped, CopiesTrue, Bindings
  <2>2. /\ Copy(class) \in Copies(Classes \cup {NoClass}) /\ Copy(class).val = class
        /\ Copy(binding) \in Copies(BindingStates) /\ Copy(binding).val = binding
    BY Zenon, <2>1, ScFields
  <2>3. QED BY ONLY Zenon, <2>1, <2>2, InformerAdvances DEF Bindings, InformerAdvances
<1>2. ScTyped'
  BY Zenon, <1>1 DEF ScInv, ScTyped
<1>3. CopiesTrue' /\ RecreatesSafely'
  BY Zenon, <1>1 DEF ScInv, CopiesTrue, RecreatesSafely, Recreating, Started
<1>4. PromiseRecorded'
  BY Zenon, <1>1 DEF ScInv, PromiseRecorded, Started
<1>5. QED BY Zenon, <1>1, <1>2, <1>3, <1>4 DEF ScInv, MetadataKept

\* The class is created, with the metadata that is promised.
LEMMA ClassCreated ==
    ASSUME ScInv, class = NoClass, NEW b \in BindingStates, NEW m \in Keepsakes,
           WriteClass(desiredStorageClassFor(b, m)), UNCHANGED <<binding, bindingC>>,
           promise # Free => m = promise, promise' = IF promise = Free THEN m ELSE promise,
           so' = ScIdle \/ (/\ so' \in [at : {"clear"}, b : Bindings]
                            /\ so'.b.cur => so'.b.val = binding)
    PROVE  ScInv'
<1>1. class' \in Classes /\ class' # NoClass /\ class'.meta = m
  BY Zenon, DesiredIs, ScFields DEF WriteClass
<1>2. classC' \in Copies(Classes \cup {NoClass}) /\ classC'.cur = FALSE
  <2>1. classC' = Stale(classC) /\ classC \in Copies(Classes \cup {NoClass})
    BY Zenon, <1>1 DEF WriteClass, ScInv, ScTyped
  <2>2. QED BY Zenon, <2>1, ScFields
<1>3. so' \in Passes /\ so'.at \in {"idle", "clear"}
  BY DEF Passes, ScIdle
<1>4. promise' = m
  BY Zenon
<1>5. ScTyped'
  BY Zenon, <1>1, <1>2, <1>3, <1>4 DEF ScInv, ScTyped
<1>6. CopiesTrue'
  <2>1. so'.at # "idle" /\ so'.b.cur => so'.b.val = binding'
    BY DEF ScIdle
  <2>2. QED BY Zenon, <1>2, <1>3, <2>1 DEF ScInv, CopiesTrue, Recreating, Started
<1>7. RecreatesSafely' /\ PromiseRecorded' /\ MetadataKept'
  BY Zenon, <1>1, <1>3, <1>4 DEF RecreatesSafely, PromiseRecorded, MetadataKept, Recreating
<1>8. QED BY Zenon, <1>5, <1>6, <1>7 DEF ScInv

\* The pass deletes the class whose drift it saw, or finds it gone.
LEMMA ClassDeleted ==
    ASSUME ScInv, so.at = "delete", Preconditions, WriteClass(NoClass),
           UNCHANGED <<binding, bindingC, promise>>,
           so' = ScIdle \/ so' = [so EXCEPT !.at = "create"]
    PROVE  ScInv'
<1>0. /\ class \in Classes \cup {NoClass} /\ classC \in Copies(Classes \cup {NoClass})
      /\ so \in [at : {"record", "delete", "create"}, b : Bindings, c : Copies(Classes), carry : Keepsakes]
      /\ binding.carry = so.carry /\ Recreating /\ Started
  BY Zenon, PassFields DEF ScInv, ScTyped, RecreatesSafely, Recreating, Started
<1>1. /\ class' = NoClass /\ classC' \in Copies(Classes \cup {NoClass}) /\ classC'.val = classC.val
      /\ classC'.cur => classC'.val = NoClass
  <2>1. classC' \in {classC, Stale(classC)} /\ (class # NoClass => classC' = Stale(classC))
    BY ONLY Zenon, WriteClass(NoClass) DEF WriteClass
  <2>2. Stale(classC) \in Copies(Classes \cup {NoClass}) /\ Stale(classC).val = classC.val /\ ~Stale(classC).cur
    BY Zenon, <1>0, StaleIs
  <2>3. class = NoClass => (classC.cur => classC.val = NoClass)
    BY Zenon DEF ScInv, CopiesTrue
  <2>4. QED BY Zenon, <1>0, <2>1, <2>2, <2>3 DEF WriteClass
<1>2. /\ so' \in Passes /\ so'.at \in {"idle", "create"}
      /\ so'.at # "idle" => so'.b = so.b /\ so'.carry = so.carry
  BY <1>0 DEF Passes, ScIdle
<1>3. ScTyped'
  BY Zenon, <1>1, <1>2 DEF ScInv, ScTyped
<1>4. CopiesTrue'
  <2>1. so.b.cur => so.b.val = binding /\ bindingC.val.params = binding.params
    BY Zenon, <1>0 DEF ScInv, CopiesTrue, Recreating
  <2>2. bindingC.cur => bindingC.val = binding
    BY Zenon DEF ScInv, CopiesTrue
  <2>3. QED BY Zenon, <1>1, <1>2, <2>1, <2>2 DEF CopiesTrue, Recreating, Started
<1>5. RecreatesSafely'
  BY Zenon, <1>0, <1>2 DEF RecreatesSafely, Recreating
<1>6. PromiseRecorded'
  <2>1. CASE class = NoClass
    BY Zenon, <1>0, <1>1, <1>2, <2>1 DEF ScInv, PromiseRecorded, Started
  <2>2. CASE class # NoClass /\ promise # Free
    <3>1. /\ so.c.cur /\ so.c.val = class /\ classC.val = class /\ so.carry = so.c.val.meta
          /\ storageClassImmutableDrift(so.c.val, so.b.val) /\ so.b.cur
      BY Zenon, <1>0, <2>2 DEF ScInv, CopiesTrue, RecreatesSafely, Preconditions
    <3>2. so.b.val = binding /\ bindingC.val.params = binding.params
      BY Zenon, <1>0, <3>1 DEF ScInv, CopiesTrue, Recreating
    <3>3. class.meta = promise
      BY Zenon, <2>2 DEF ScInv, MetadataKept
    <3>4. QED BY Zenon, <1>0, <1>1, <1>2, <3>1, <3>2, <3>3 DEF PromiseRecorded, Started
  <2>3. QED BY Zenon, <2>1, <2>2 DEF PromiseRecorded
<1>7. MetadataKept'
  BY Zenon, <1>1 DEF MetadataKept
<1>8. QED BY Zenon, <1>3, <1>4, <1>5, <1>6, <1>7 DEF ScInv

LEMMA ReconcileInv ==
    ASSUME ScInv, ReconcileClass
    PROVE  ScInv'
<1>1. /\ so'.at = "get" /\ so'.b = bindingC
      /\ UNCHANGED <<class, binding, classC, bindingC, promise>>
  BY Zenon DEF ReconcileClass
<1>2. so' \in Passes
  BY Zenon DEF ReconcileClass, ScInv, ScTyped, Passes
<1>3. ScTyped'
  BY Zenon, <1>1, <1>2 DEF ScInv, ScTyped
<1>4. CopiesTrue' /\ RecreatesSafely'
  BY Zenon, <1>1 DEF ScInv, CopiesTrue, RecreatesSafely, Recreating
<1>5. PromiseRecorded' /\ MetadataKept'
  BY Zenon, <1>1 DEF ScInv, PromiseRecorded, MetadataKept
<1>6. QED BY Zenon, <1>3, <1>4, <1>5 DEF ScInv

LEMMA GetInv ==
    ASSUME ScInv, GetClass
    PROVE  ScInv'
<1>0. /\ so.at = "get" /\ so.b \in Bindings /\ Started
      /\ UNCHANGED <<class, binding, classC, bindingC, promise>>
      /\ class \in Classes \cup {NoClass} /\ classC.val \in Classes \cup {NoClass}
      /\ classC \in Copies(Classes \cup {NoClass}) /\ binding \in BindingStates
  BY Zenon, PassFields, ScFields DEF GetClass, ScInv, ScTyped, Started
<1>1. CASE so' = ScIdle
  BY Zenon, <1>0, <1>1, PassEnds
<1>2. ASSUME classC.val # NoClass, storageClassImmutableDrift(classC.val, so.b.val), recreateStorageClass
      PROVE  ScInv'
  <2>1. /\ so'.at = "record" /\ so'.b = so.b /\ so'.c = classC /\ so'.carry = classC.val.meta
        /\ classC.val.owner # "other"
    BY Zenon, <1>2 DEF recreateStorageClass
  <2>2. classC \in Copies(Classes) /\ classC.val.meta \in Keepsakes
    BY Zenon, <1>0, <1>2, ScFields DEF Copies
  <2>3. so' \in Passes
    BY Zenon, <1>0, <1>2, <2>2 DEF recreateStorageClass, Passes
  <2>4. ScTyped'
    BY Zenon, <1>0, <2>3 DEF ScInv, ScTyped
  <2>5. CopiesTrue' /\ RecreatesSafely'
    BY Zenon, <1>0, <1>2, <2>1 DEF ScInv, CopiesTrue, RecreatesSafely, Recreating, Started
  <2>6. PromiseRecorded' /\ MetadataKept'
    BY Zenon, <1>0, <1>2, <2>1 DEF ScInv, PromiseRecorded, MetadataKept, Started
  <2>7. QED BY Zenon, <2>4, <2>5, <2>6 DEF ScInv
<1>3. ASSUME classC.val = NoClass \/ ~storageClassImmutableDrift(classC.val, so.b.val),
             so' = [at |-> "apply", b |-> so.b, check |-> carryOverCheckpoint(classC.val = NoClass)]
      PROVE  ScInv'
  <2>1. /\ so'.at = "apply" /\ so'.b = so.b
        /\ so'.check = IF classC.val = NoClass THEN Copy(binding) ELSE so.b
    BY Zenon, <1>3 DEF carryOverCheckpoint
  <2>2. Copy(binding) \in Bindings /\ Copy(binding).val = binding
    BY Zenon, <1>0, ScFields DEF Bindings
  <2>3. so' \in Passes
    BY Zenon, <1>0, <1>3, <2>2 DEF carryOverCheckpoint, Passes
  <2>4. ScTyped'
    BY Zenon, <1>0, <2>3 DEF ScInv, ScTyped
  <2>5. CopiesTrue' /\ RecreatesSafely'
    BY Zenon, <1>0, <2>1, <2>2 DEF ScInv, CopiesTrue, RecreatesSafely, Recreating, Started
  <2>6. class = NoClass /\ promise # Free => classC.val = NoClass
    BY Zenon, <1>0, <1>3 DEF ScInv, PromiseRecorded, storageClassImmutableDrift
  <2>7. PromiseRecorded' /\ MetadataKept'
    BY Zenon, <1>0, <2>1, <2>2, <2>6 DEF ScInv, PromiseRecorded, MetadataKept, Started
  <2>8. QED BY Zenon, <2>4, <2>5, <2>7 DEF ScInv
<1>4. QED BY Zenon, <1>1, <1>2, <1>3 DEF GetClass, ScFails

LEMMA ApplyInv ==
    ASSUME ScInv, CreateOrUpdate
    PROVE  ScInv'
<1>0. /\ so.at = "apply" /\ so.b \in Bindings /\ so.check \in Bindings /\ Started
      /\ so.b.val \in BindingStates /\ so.check.val \in BindingStates
      /\ so.check.cur => so.check.val = binding
      /\ UNCHANGED <<binding, bindingC>>
      /\ promise' = IF class = NoClass /\ class' # NoClass /\ promise = Free THEN class'.meta ELSE promise
      /\ class \in Classes \cup {NoClass} /\ classC.val \in Classes \cup {NoClass}
      /\ classC.cur => classC.val = class
  BY Zenon, PassFields, ScFields DEF CreateOrUpdate, ScInv, ScTyped, CopiesTrue, Started, Bindings
<1>1. AfterApply => so' = ScIdle \/ (so' \in [at : {"clear"}, b : Bindings] /\ so'.b = so.check)
  BY <1>0 DEF AfterApply
<1>2. CASE so' = ScIdle /\ UNCHANGED <<class, classC>>
  BY Zenon, <1>0, <1>2, PassEnds
<1>3. ASSUME classC.val = NoClass, class = NoClass, AfterApply,
             WriteClass(desiredStorageClassFor(so.b.val, CreatedMeta))
      PROVE  ScInv'
  <2>1. CreatedMeta \in Keepsakes /\ (promise # Free => CreatedMeta = promise)
    <3>1. so.check.val.carry \in Keepsakes \cup {NoCarry} /\ NoCarry \notin Keepsakes
      BY Zenon, <1>0, ScFields
    <3>2. promise # Free => so.check.val.carry = promise /\ promise \in Keepsakes
      BY Zenon, <1>0, <1>3 DEF ScInv, ScTyped, PromiseRecorded
    <3>3. QED BY Zenon, <3>1, <3>2 DEF CreatedMeta, pendingCarryOver, Keepsakes
  <2>2. class' \in Classes /\ class' # NoClass /\ class'.meta = CreatedMeta
    <3>1. class' = desiredStorageClassFor(so.b.val, CreatedMeta)
      BY Zenon, <1>3 DEF WriteClass
    <3>2. class' \in Classes /\ class'.meta = CreatedMeta
      BY Zenon, <1>0, <2>1, <3>1, DesiredIs
    <3>3. QED BY Zenon, <3>2, ScFields
  <2>3. QED BY Zenon, <1>0, <1>1, <1>3, <2>1, <2>2, ClassCreated
<1>4. ASSUME classC.val # NoClass, classC.val.owner # "other", AfterApply, NEW next,
             next = desiredStorageClassFor(so.b.val, classC.val.meta),
             next # classC.val => classC.cur /\ ~storageClassImmutableDrift(classC.val, so.b.val),
             IF next = classC.val THEN UNCHANGED <<class, classC>> ELSE WriteClass(next)
      PROVE  ScInv'
  <2>0. classC.val \in Classes /\ classC.val.meta \in Keepsakes /\ next \in Classes /\ next # NoClass
        /\ next.meta = classC.val.meta /\ next.driver = "block" /\ next.params = so.b.val.params
    BY ZenonT(30), <1>0, <1>4, ScFields, DesiredIs
  <2>1. class = NoClass => promise = Free /\ class' = class
    <3>1. SUFFICES ASSUME class = NoClass PROVE promise = Free /\ class' = class
      BY Zenon
    <3>2. next = classC.val
      BY Zenon, <1>0, <1>4, <3>1
    <3>3. ~storageClassImmutableDrift(classC.val, so.b.val) /\ class' = class
      BY Zenon, <1>4, <2>0, <3>2 DEF storageClassImmutableDrift
    <3>4. promise = Free
      BY Zenon, <1>0, <1>4, <3>1, <3>3 DEF ScInv, PromiseRecorded, storageClassImmutableDrift
    <3>5. QED BY Zenon, <3>3, <3>4
  <2>2. /\ promise' = promise /\ class' \in Classes \cup {NoClass}
        /\ class' # NoClass => class # NoClass /\ class'.meta = class.meta
    BY Zenon, <1>0, <1>4, <2>0, <2>1 DEF WriteClass
  <2>3. classC' \in Copies(Classes \cup {NoClass}) /\ (classC'.cur => classC'.val = class')
    <3>1. classC \in Copies(Classes \cup {NoClass})
      BY Zenon DEF ScInv, ScTyped
    <3>2. Stale(classC) \in Copies(Classes \cup {NoClass}) /\ ~Stale(classC).cur
      BY Zenon, <3>1, ScFields
    <3>3. QED BY Zenon, <1>0, <1>4, <3>1, <3>2 DEF WriteClass
  <2>4. /\ so' \in Passes /\ so'.at \in {"idle", "clear"}
        /\ so'.at # "idle" => so'.b = so.check
    BY <1>1, <1>4 DEF Passes, ScIdle
  <2>5. ScTyped'
    BY Zenon, <1>0, <2>2, <2>3, <2>4 DEF ScInv, ScTyped
  <2>6. CopiesTrue'
    BY Zenon, <1>0, <2>3, <2>4 DEF ScInv, CopiesTrue, Recreating, Started
  <2>7. RecreatesSafely' /\ MetadataKept'
    BY Zenon, <2>2, <2>4 DEF ScInv, RecreatesSafely, MetadataKept, Recreating
  <2>8. PromiseRecorded'
    <3>1. class' = NoClass => promise' = Free
      BY Zenon, <1>4, <2>0, <2>1, <2>2 DEF WriteClass
    <3>2. QED BY Zenon, <3>1 DEF PromiseRecorded
  <2>9. QED BY Zenon, <2>5, <2>6, <2>7, <2>8 DEF ScInv
<1>5. QED BY Zenon, <1>0, <1>2, <1>3, <1>4 DEF CreateOrUpdate, ScFails

\* The record is written, or removed, when the copy of the binding is current.
LEMMA RecordInv ==
    ASSUME ScInv, RecordCarryOver
    PROVE  ScInv'
<1>0. /\ so.at = "record" /\ so.b \in Bindings /\ so.carry \in Keepsakes /\ Recreating /\ Started
      /\ so \in [at : {"record", "delete", "create"}, b : Bindings, c : Copies(Classes), carry : Keepsakes]
      /\ UNCHANGED <<class, classC, promise>> /\ binding \in BindingStates /\ bindingC \in Bindings
  BY Zenon, PassFields DEF RecordCarryOver, ScInv, ScTyped, Recreating, Started
<1>1. CASE ~so.b.cur
  BY Zenon, <1>0, <1>1, PassEnds DEF RecordCarryOver, recordCarryOver, ScFails
<1>2. CASE so.b.cur
  <2>1. /\ so.b.val = binding /\ bindingC.val.params = binding.params
        /\ WriteBinding([binding EXCEPT !.carry = so.carry])
        /\ so' = [so EXCEPT !.at = "delete", !.b.val.carry = so.carry]
    BY Zenon, <1>0, <1>2 DEF RecordCarryOver, recordCarryOver, ScInv, CopiesTrue
  <2>2. /\ binding' \in BindingStates /\ binding'.carry = so.carry /\ binding'.params = binding.params
        /\ binding' = [binding EXCEPT !.carry = so.carry]
    BY Zenon, <1>0, <2>1 DEF WriteBinding, BindingStates, Keepsakes
  <2>3. /\ bindingC' \in Bindings /\ bindingC'.val = bindingC.val
        /\ bindingC'.cur => bindingC'.val = binding'
    <3>1. Stale(bindingC) \in Bindings /\ Stale(bindingC).val = bindingC.val /\ ~Stale(bindingC).cur
      BY Zenon, <1>0, ScFields DEF Bindings
    <3>2. bindingC.cur => bindingC.val = binding
      BY Zenon DEF ScInv, CopiesTrue
    <3>3. QED BY Zenon, <1>0, <2>1, <3>1, <3>2 DEF WriteBinding
  <2>4. /\ so'.at = "delete" /\ so'.carry = so.carry /\ so'.c = so.c
        /\ so'.b.cur = so.b.cur /\ so'.b.val = binding' /\ so'.b \in Bindings
    BY Zenon, <1>0, <2>1, <2>2 DEF Bindings, Copies
  <2>5. so' \in Passes
    BY Zenon, <1>0, <2>1, <2>4 DEF Passes
  <2>6. ScTyped'
    BY Zenon, <1>0, <2>2, <2>3, <2>5 DEF ScInv, ScTyped
  <2>7. CopiesTrue'
    BY Zenon, <1>0, <2>1, <2>2, <2>3, <2>4 DEF ScInv, CopiesTrue, Recreating, Started
  <2>8. RecreatesSafely'
    <3>1. /\ so.c.val.owner # "other" /\ so.carry = so.c.val.meta
          /\ storageClassImmutableDrift(so.c.val, so.b.val)
      BY Zenon, <1>0 DEF ScInv, RecreatesSafely
    <3>2. storageClassImmutableDrift(so'.c.val, so'.b.val)
      BY Zenon, <2>1, <2>2, <2>4, <3>1 DEF storageClassImmutableDrift
    <3>3. QED BY Zenon, <1>0, <1>2, <2>2, <2>4, <3>1, <3>2 DEF RecreatesSafely, Recreating
  <2>9. PromiseRecorded' /\ MetadataKept'
    BY Zenon, <1>0, <2>1, <2>2, <2>3, <2>4
    DEF ScInv, PromiseRecorded, MetadataKept, Started, storageClassImmutableDrift
  <2>10. QED BY Zenon, <2>6, <2>7, <2>8, <2>9 DEF ScInv
<1>3. QED BY Zenon, <1>0, <1>1, <1>2, ScFields DEF Bindings

\* The record goes once the class exists.
LEMMA RecordCleared ==
    ASSUME ScInv, so.at = "clear", recordCarryOver(NoCarry), so' = ScIdle, UNCHANGED <<class, classC, promise>>
    PROVE  ScInv'
<1>0. /\ binding \in BindingStates /\ bindingC \in Bindings
      /\ so.b.cur => so.b.val = binding
      /\ class = NoClass => promise = Free
  BY Zenon DEF ScInv, ScTyped, CopiesTrue, PromiseRecorded
<1>1. CASE UNCHANGED <<binding, bindingC>>
  BY Zenon, <1>1, PassEnds
<1>2. CASE WriteBinding([binding EXCEPT !.carry = NoCarry])
  <2>1. binding' \in BindingStates
    BY Zenon, <1>0, <1>2 DEF WriteBinding, BindingStates
  <2>2. bindingC' \in Bindings /\ (bindingC'.cur => bindingC'.val = binding')
    <3>1. Stale(bindingC) \in Bindings /\ ~Stale(bindingC).cur
      BY Zenon, <1>0, StaleIs DEF Bindings
    <3>2. bindingC.cur => bindingC.val = binding
      BY Zenon DEF ScInv, CopiesTrue
    <3>3. QED BY Zenon, <1>0, <1>2, <3>1, <3>2 DEF WriteBinding
  <2>3. so' \in Passes /\ so'.at = "idle"
    BY Zenon DEF Passes, ScIdle
  <2>4. ScTyped'
    BY Zenon, <2>1, <2>2, <2>3 DEF ScInv, ScTyped
  <2>5. CopiesTrue' /\ RecreatesSafely'
    BY Zenon, <2>2, <2>3 DEF ScInv, CopiesTrue, RecreatesSafely, Recreating, Started
  <2>6. PromiseRecorded' /\ MetadataKept'
    BY Zenon, <1>0 DEF ScInv, PromiseRecorded, MetadataKept
  <2>7. QED BY Zenon, <2>4, <2>5, <2>6 DEF ScInv
<1>3. QED BY Zenon, <1>1, <1>2 DEF recordCarryOver

\* The answer to the write of the record is lost.
LEMMA RecordUnanswered ==
    ASSUME ScInv, so.at = "record", recordCarryOver(so.carry), so' = ScIdle, UNCHANGED <<class, classC, promise>>
    PROVE  ScInv'
<1>0. /\ binding \in BindingStates /\ bindingC \in Bindings /\ so.carry \in Keepsakes
  BY Zenon, PassFields DEF ScInv, ScTyped
<1>1. CASE UNCHANGED <<binding, bindingC>>
  BY Zenon, <1>1, PassEnds
<1>2. CASE WriteBinding([binding EXCEPT !.carry = so.carry])
  <2>1. binding' \in BindingStates /\ binding'.carry = so.carry /\ binding'.params = binding.params
    BY Zenon, <1>0, <1>2 DEF WriteBinding, BindingStates, Keepsakes
  <2>2. /\ bindingC' \in Bindings /\ bindingC'.val = bindingC.val
        /\ bindingC'.cur => bindingC'.val = binding'
    <3>1. Stale(bindingC) \in Bindings /\ Stale(bindingC).val = bindingC.val /\ ~Stale(bindingC).cur
      BY Zenon, <1>0, StaleIs DEF Bindings
    <3>2. bindingC.cur => bindingC.val = binding
      BY Zenon DEF ScInv, CopiesTrue
    <3>3. QED BY Zenon, <1>0, <1>2, <3>1, <3>2 DEF WriteBinding
  <2>3. so' \in Passes /\ so'.at = "idle"
    BY Zenon DEF Passes, ScIdle
  <2>4. ScTyped'
    BY Zenon, <2>1, <2>2, <2>3 DEF ScInv, ScTyped
  <2>5. CopiesTrue' /\ RecreatesSafely'
    BY Zenon, <2>2, <2>3 DEF ScInv, CopiesTrue, RecreatesSafely, Recreating, Started
  <2>6. PromiseRecorded' /\ MetadataKept'
    BY Zenon, <2>1, <2>2, <2>3
    DEF ScInv, PromiseRecorded, MetadataKept, Started, storageClassImmutableDrift
  <2>7. QED BY Zenon, <2>4, <2>5, <2>6 DEF ScInv
<1>3. QED BY Zenon, <1>1, <1>2 DEF recordCarryOver

LEMMA ReplaceInv ==
    ASSUME ScInv, so.at = "create", class = NoClass,
           WriteClass(desiredStorageClassFor(so.b.val, so.carry)), UNCHANGED <<binding, bindingC>>,
           promise' = IF promise = Free THEN so.carry ELSE promise,
           so' = ScIdle \/ so' = [at |-> "clear", b |-> so.b]
    PROVE  ScInv'
<1>1. /\ so.b \in Bindings /\ so.b.val \in BindingStates /\ so.carry \in Keepsakes
      /\ so.b.cur => so.b.val = binding
      /\ promise # Free => so.carry = promise
  BY Zenon, PassFields, ScFields DEF ScInv, ScTyped, CopiesTrue, PromiseRecorded, Bindings
<1>2. so' = ScIdle \/ (so' \in [at : {"clear"}, b : Bindings] /\ so'.b = so.b)
  BY <1>1
<1>3. QED BY Zenon, <1>1, <1>2, ClassCreated

LEMMA AnswerLostInv ==
    ASSUME ScInv, AnswerLost
    PROVE  ScInv'
<1>1. so' = ScIdle /\ so.at \in {"record", "delete", "create", "clear"}
  BY Zenon DEF AnswerLost, ScFails
<1>2. CASE so.at = "record"
  BY Zenon, <1>1, <1>2, RecordUnanswered DEF AnswerLost
<1>3. CASE so.at = "clear"
  BY Zenon, <1>1, <1>3, RecordCleared DEF AnswerLost
<1>4. CASE so.at = "delete"
  BY Zenon, <1>1, <1>4, ClassDeleted DEF AnswerLost
<1>5. CASE so.at = "create"
  BY Zenon, <1>1, <1>5, ReplaceInv DEF AnswerLost
<1>6. QED BY Zenon, <1>1, <1>2, <1>3, <1>4, <1>5

\* What an edit makes of the copies a pass holds.
LEMMA OutdatedIs ==
    ASSUME so \in Passes, PassOutdated
    PROVE  /\ so' \in Passes /\ so'.at = so.at
           /\ so.at # "idle" => so'.b = IF binding' # binding THEN Stale(so.b) ELSE so.b
           /\ so.at = "apply" => so'.check = IF binding' # binding THEN Stale(so.check) ELSE so.check
           /\ so.at \in {"record", "delete", "create"} =>
                so'.carry = so.carry /\ so'.c = IF class' # class THEN Stale(so.c) ELSE so.c
<1>1. CASE so.at = "idle"
  <2>1. so' = [f \in {"at"} |-> "idle"]
    BY Zenon, <1>1, PassFields DEF PassOutdated, ScIdle
  <2>2. so' = ScIdle
    BY Zenon, <2>1 DEF ScIdle
  <2>3. QED BY Zenon, <1>1, <2>2 DEF Passes, ScIdle
<1>2. CASE so.at \in {"get", "clear"}
  <2>1. so \in [at : {"get", "clear"}, b : Bindings]
    BY Zenon, <1>2, PassFields
  <2>2. so' = [at |-> so.at, b |-> IF binding' # binding THEN Stale(so.b) ELSE so.b]
    BY Zenon, <2>1 DEF PassOutdated
  <2>3. Stale(so.b) \in Bindings /\ so.b \in Bindings
    BY Zenon, <2>1, StaleIs DEF Bindings
  <2>4. so' \in [at : {"get", "clear"}, b : Bindings]
    BY Zenon, <1>2, <2>2, <2>3
  <2>5. QED BY Zenon, <1>2, <2>2, <2>4 DEF Passes
<1>3. CASE so.at = "apply"
  <2>1. so \in [at : {"apply"}, b : Bindings, check : Bindings]
    BY Zenon, <1>3, PassFields
  <2>2. so' = [at |-> so.at, b |-> IF binding' # binding THEN Stale(so.b) ELSE so.b,
               check |-> IF binding' # binding THEN Stale(so.check) ELSE so.check]
    BY Zenon, <2>1 DEF PassOutdated
  <2>3. Stale(so.b) \in Bindings /\ Stale(so.check) \in Bindings
    BY Zenon, <2>1, StaleIs DEF Bindings
  <2>4. so' \in [at : {"apply"}, b : Bindings, check : Bindings]
    BY Zenon, <1>3, <2>1, <2>2, <2>3
  <2>5. QED BY Zenon, <1>3, <2>2, <2>4 DEF Passes
<1>4. CASE so.at \in {"record", "delete", "create"}
  <2>1. so \in [at : {"record", "delete", "create"}, b : Bindings, c : Copies(Classes), carry : Keepsakes]
    BY Zenon, <1>4, PassFields
  <2>2. so' = [at |-> so.at, b |-> IF binding' # binding THEN Stale(so.b) ELSE so.b,
               c |-> IF class' # class THEN Stale(so.c) ELSE so.c, carry |-> so.carry]
    BY Zenon, <2>1 DEF PassOutdated
  <2>3. Stale(so.b) \in Bindings /\ Stale(so.c) \in Copies(Classes)
    BY Zenon, <2>1, StaleIs DEF Bindings
  <2>4. so' \in [at : {"record", "delete", "create"}, b : Bindings, c : Copies(Classes), carry : Keepsakes]
    BY Zenon, <1>4, <2>1, <2>2, <2>3
  <2>5. QED BY Zenon, <1>4, <2>2, <2>4 DEF Passes
<1>5. QED BY Zenon, <1>1, <1>2, <1>3, <1>4, PassFields

\* An edit of the binding ends a promise that is only recorded.
LEMMA EditBindingInv ==
    ASSUME ScInv, EditBinding
    PROVE  ScInv'
<1>0. /\ binding \in BindingStates /\ bindingC \in Bindings /\ so \in Passes
      /\ UNCHANGED <<class, classC>> /\ PassOutdated /\ binding' # binding
      /\ promise' = IF binding.carry = NoCarry THEN promise ELSE Free
  BY Zenon DEF EditBinding, ScInv, ScTyped
<1>1. PICK p \in ScParams, e \in BOOLEAN : WriteBinding([binding EXCEPT !.params = p, !.expands = e])
  BY Zenon DEF EditBinding
<1>2. binding' \in BindingStates /\ binding'.carry = binding.carry
  BY Zenon, <1>0, <1>1 DEF WriteBinding, BindingStates
<1>3. bindingC' \in Bindings /\ bindingC'.cur = FALSE
  <2>1. bindingC' = Stale(bindingC)
    BY Zenon, <1>0, <1>1 DEF WriteBinding
  <2>2. QED BY Zenon, <1>0, <2>1, StaleIs DEF Bindings
<1>4. /\ so' \in Passes /\ so'.at = so.at
      /\ so.at # "idle" => so'.b = Stale(so.b) /\ so.b \in Bindings
      /\ so.at = "apply" => so'.check = Stale(so.check) /\ so.check \in Bindings
      /\ so.at \in {"record", "delete", "create"} => so'.carry = so.carry /\ so'.c = so.c
  BY Zenon, <1>0, OutdatedIs, PassFields
<1>5. /\ so.at # "idle" => so'.b.cur = FALSE /\ so'.b.val = so.b.val
      /\ so.at = "apply" => so'.check.cur = FALSE /\ so'.check.val = so.check.val
  BY Zenon, <1>4, StaleIs DEF Bindings
<1>6. ScTyped'
  BY Zenon, <1>0, <1>2, <1>3, <1>4 DEF ScInv, ScTyped
<1>7. CopiesTrue'
  BY Zenon, <1>0, <1>3, <1>4, <1>5 DEF ScInv, CopiesTrue, Recreating, Started
<1>8. binding.carry \in Keepsakes => promise' = Free
  BY Zenon, <1>0, ScFields
<1>12. class = NoClass => promise' = Free
  BY Zenon, <1>0, <1>8 DEF ScInv, ScTyped, PromiseRecorded
<1>9. RecreatesSafely'
  <2>1. so.at = "delete" => promise' = Free
    BY Zenon, <1>0, <1>8, PassFields DEF ScInv, RecreatesSafely
  <2>2. QED BY Zenon, <1>0, <1>2, <1>4, <1>5, <2>1
            DEF ScInv, RecreatesSafely, Recreating, storageClassImmutableDrift
<1>10. PromiseRecorded' /\ MetadataKept'
  BY Zenon, <1>0, <1>12 DEF ScInv, PromiseRecorded, MetadataKept
<1>11. QED BY Zenon, <1>6, <1>7, <1>9, <1>10 DEF ScInv

\* The class that another object takes is a new one.
LEMMA TakenIs ==
    ASSUME NEW c \in Takeable, class \in Classes \cup {NoClass}
    PROVE  c \in Classes /\ c # class /\ (class # NoClass => class.owner = "none")
<1>1. CASE class = NoClass
  BY Zenon, <1>1, ScFields DEF Takeable
<1>2. CASE class # NoClass
  <2>1. c \in Classes /\ class.owner = "none" /\ c = [class EXCEPT !.owner = "other"] /\ class \in Classes
    BY Zenon, <1>2 DEF Takeable
  <2>2. c.owner = "other"
    BY ONLY Zenon, <2>1 DEF Classes
  <2>3. QED BY Zenon, <2>1, <2>2
<1>3. QED BY Zenon, <1>1, <1>2

\* An edit of the class, its deletion by hand, or another object that takes it.
LEMMA EditClassInv ==
    ASSUME ScInv, EditMetadata \/ DeleteByHand \/ AnotherTakes
    PROVE  ScInv'
<1>0. /\ class \in Classes \cup {NoClass} /\ classC \in Copies(Classes \cup {NoClass}) /\ so \in Passes
      /\ UNCHANGED <<binding, bindingC>> /\ PassOutdated
  BY Zenon DEF EditMetadata, DeleteByHand, AnotherTakes, ScInv, ScTyped
<1>1. \/ /\ class' \in Classes /\ class' # class /\ class' # NoClass /\ classC' = Stale(classC)
         /\ promise' = class'.meta /\ promise' \in Keepsakes
      \/ class' = NoClass /\ class' # class /\ classC' = Stale(classC) /\ promise' = Free
  <2>1. CASE DeleteByHand
    BY Zenon, <1>0, <2>1 DEF DeleteByHand, WriteClass
  <2>2. CASE EditMetadata
    <3>1. PICK m \in ScMetas \ {class.meta} : WriteClass([class EXCEPT !.meta = m]) /\ promise' = m
      BY Zenon, <2>2 DEF EditMetadata
    <3>2. m \in Keepsakes /\ m # class.meta
      BY Zenon, <3>1 DEF Keepsakes
    <3>3. [class EXCEPT !.meta = m] \in Classes /\ [class EXCEPT !.meta = m].meta = m
      <4>1. class \in Classes
        BY Zenon, <1>0, <2>2 DEF EditMetadata
      <4>2. QED BY ONLY Zenon, <3>2, <4>1 DEF Classes, Keepsakes
    <3>4. [class EXCEPT !.meta = m] # NoClass /\ [class EXCEPT !.meta = m] # class
      BY Zenon, <3>2, <3>3, ScFields
    <3>5. QED BY Zenon, <3>1, <3>2, <3>3, <3>4 DEF WriteClass
  <2>3. CASE AnotherTakes
    <3>1. PICK c \in Takeable : WriteClass(c) /\ promise' = c.meta
      BY Zenon, <2>3 DEF AnotherTakes
    <3>2. c \in Classes /\ c # class
      BY Zenon, <1>0, <3>1, TakenIs
    <3>3. c # NoClass /\ c.meta \in Keepsakes
      BY Zenon, <3>2, ScFields
    <3>4. QED BY Zenon, <3>1, <3>2, <3>3 DEF WriteClass
  <2>4. QED BY Zenon, <2>1, <2>2, <2>3
<1>2. classC' \in Copies(Classes \cup {NoClass}) /\ classC'.cur = FALSE
  BY Zenon, <1>0, <1>1, StaleIs
<1>3. /\ so' \in Passes /\ so'.at = so.at
      /\ so.at # "idle" => so'.b = so.b
      /\ so.at = "apply" => so'.check = so.check
      /\ so.at \in {"record", "delete", "create"} =>
           so'.carry = so.carry /\ so'.c = Stale(so.c) /\ so.c \in Copies(Classes)
  BY Zenon, <1>0, <1>1, OutdatedIs, PassFields
<1>4. so.at \in {"record", "delete", "create"} => so'.c.cur = FALSE /\ so'.c.val = so.c.val
  BY Zenon, <1>3, StaleIs
<1>5. ScTyped'
  BY Zenon, <1>0, <1>1, <1>2, <1>3 DEF ScInv, ScTyped
<1>6. CopiesTrue'
  BY Zenon, <1>0, <1>2, <1>3, <1>4 DEF ScInv, CopiesTrue, Recreating, Started
<1>7. RecreatesSafely'
  BY <1>0, <1>3, <1>4 DEF ScInv, RecreatesSafely, Recreating
<1>8. PromiseRecorded' /\ MetadataKept'
  BY Zenon, <1>1 DEF PromiseRecorded, MetadataKept
<1>9. QED BY Zenon, <1>5, <1>6, <1>7, <1>8 DEF ScInv

\* The invariant is inductive.
LEMMA ScInvHolds == ScSpec => []ScInv
<1>1. ScInit => ScInv
  <2>1. SUFFICES ASSUME ScInit PROVE ScInv
    BY Zenon
  <2>2. class \in Classes \cup {NoClass} /\ binding \in BindingStates
    <3>1. class \in {NoClass} \cup
              [owner : {"binding", "other", "none"}, driver : {"block", "files", "foreign"},
               params : ScParams, expands : {TRUE}, meta : ScMetas]
      BY Zenon, <2>1 DEF ScInit
    <3>2. class \in Classes \cup {NoClass}
      BY ONLY Zenon, <3>1 DEF Classes
    <3>5. binding \in [params : ScParams, expands : {TRUE}, carry : {NoCarry}]
      BY Zenon, <2>1 DEF ScInit
    <3>3. binding \in BindingStates
      BY ONLY Zenon, <3>5 DEF BindingStates
    <3>4. QED BY Zenon, <3>2, <3>3
  <2>3. /\ classC \in Copies(Classes \cup {NoClass}) /\ bindingC \in Bindings
        /\ classC.val = class /\ bindingC.val = binding
    BY Zenon, <2>1, <2>2, ScFields DEF ScInit, Bindings
  <2>4. so \in Passes /\ so.at = "idle"
    BY Zenon, <2>1 DEF ScInit, Passes, ScIdle
  <2>5. /\ promise \in Keepsakes \cup {Free}
        /\ class = NoClass => promise = Free
        /\ class # NoClass => promise = class.meta
    BY Zenon, <2>1, <2>2, ScFields DEF ScInit
  <2>6. ScTyped
    BY Zenon, <2>2, <2>3, <2>4, <2>5 DEF ScTyped
  <2>7. CopiesTrue /\ RecreatesSafely
    BY Zenon, <2>3, <2>4 DEF CopiesTrue, RecreatesSafely, Recreating, Started
  <2>8. QED BY Zenon, <2>5, <2>6, <2>7 DEF ScInv, PromiseRecorded, MetadataKept
<1>2. ScInv /\ [ScNext]_scVars => ScInv'
  <2>1. SUFFICES ASSUME ScInv, [ScNext]_scVars PROVE ScInv'
    BY Zenon
  <2>2. CASE UNCHANGED scVars
    BY <2>1, <2>2 DEF scVars, ScInv, ScTyped, CopiesTrue, RecreatesSafely, PromiseRecorded, MetadataKept,
                      Recreating, Started
  <2>3. CASE DeleteForRecreation
    BY Zenon, <2>1, <2>3, ClassDeleted, PassEnds DEF DeleteForRecreation, ScFails
  <2>4. CASE CreateReplacement
    BY Zenon, <2>1, <2>4, ReplaceInv, PassEnds DEF CreateReplacement, ScFails
  <2>5. CASE ClearCarryOver
    BY Zenon, <2>1, <2>5, RecordCleared DEF ClearCarryOver, ScFails
  <2>6. CASE CallFails \/ ControllerRestarts
    BY Zenon, <2>1, <2>6, PassEnds DEF CallFails, ControllerRestarts, ScFails
  <2>7. QED BY Zenon, <2>1, <2>2, <2>3, <2>4, <2>5, <2>6, ReconcileInv, GetInv, ApplyInv, RecordInv,
               AnswerLostInv, InformerInv, EditBindingInv, EditClassInv DEF ScNext
<1>3. QED BY <1>1, <1>2, PTL DEF ScSpec

\* The objects, their copies and the pass keep their type through every step of
\* reconcileStorageClass and recreateStorageClass.
THEOREM ClassesTyped == ScSpec => []ScTypeOK
<1>1. ScInv => ScTypeOK
  <2>1. SUFFICES ASSUME ScInv PROVE ScTypeOK
    BY Zenon
  <2>2. classC.val \in Classes \cup {NoClass} /\ bindingC.val \in BindingStates
    BY Zenon, <2>1, ScFields DEF ScInv, ScTyped, Bindings
  <2>3. QED BY Zenon, <2>1, <2>2, PassFields DEF ScInv, ScTyped, ScTypeOK, Keepsakes
<1>2. QED BY <1>1, ScInvHolds, PTL

\* recreateStorageClass loses nothing an administrator put on the class: a failed
\* call, a lost answer, a restart and lagging caches in any order leave the
\* metadata on the class or in the binding's record (storageClassCarryOverAnnotation).
THEOREM MetadataIsKept == ScSpec => []MetadataKept
<1>1. ScInv => MetadataKept
  BY Zenon DEF ScInv
<1>2. QED BY <1>1, ScInvHolds, PTL

\* Once another object controls the class, no step of the passes of a living
\* binding changes or deletes it, whenever they began and whatever their copies
\* show (the owner check of recreateStorageClass, the preconditions of its delete
\* and the version an update names).
THEOREM ForeignClassesKept == ScSpec => [][ForeignKept]_scVars
<1>1. ScInv /\ [ScNext]_scVars => [ForeignKept]_scVars
  <2>1. SUFFICES ASSUME ScInv, ScNext, class # NoClass, class.owner = "other", class' # class
                 PROVE  FALSE
    BY Zenon DEF ForeignKept
  <2>2. CASE CreateOrUpdate
    <3>1. classC.cur /\ classC.val.owner # "other"
      BY Zenon, <2>1, <2>2 DEF CreateOrUpdate
    <3>2. QED BY Zenon, <2>1, <3>1 DEF ScInv, CopiesTrue
  <2>3. CASE so.at = "delete" /\ Preconditions
    BY Zenon, <2>1, <2>3 DEF Preconditions, Recreating, ScInv, CopiesTrue, RecreatesSafely
  <2>4. CASE DeleteForRecreation
    BY Zenon, <2>1, <2>3, <2>4 DEF DeleteForRecreation
  <2>5. CASE CreateReplacement
    BY Zenon, <2>1, <2>5 DEF CreateReplacement
  <2>6. CASE AnswerLost
    <3>1. CASE so.at = "delete"
      BY Zenon, <2>1, <2>3, <2>6, <3>1 DEF AnswerLost
    <3>2. CASE so.at = "create"
      BY Zenon, <2>1, <2>6, <3>2 DEF AnswerLost
    <3>3. CASE so.at \in {"record", "clear"}
      BY Zenon, <2>1, <2>6, <3>3 DEF AnswerLost
    <3>4. QED BY Zenon, <2>6, <3>1, <3>2, <3>3 DEF AnswerLost
  <2>7. CASE EditMetadata \/ DeleteByHand
    BY Zenon, <2>1, <2>7 DEF EditMetadata, DeleteByHand
  <2>8. CASE AnotherTakes
    <3>1. PICK c \in Takeable : WriteClass(c)
      BY Zenon, <2>8 DEF AnotherTakes
    <3>2. class \in Classes \cup {NoClass}
      BY Zenon, <2>1 DEF ScInv, ScTyped
    <3>3. QED BY Zenon, <2>1, <3>1, <3>2, TakenIs
  <2>9. CASE ReconcileClass \/ GetClass \/ RecordCarryOver \/ ClearCarryOver \/ CallFails
             \/ ControllerRestarts \/ InformerAdvances \/ EditBinding
    BY Zenon, <2>1, <2>9 DEF ReconcileClass, GetClass, RecordCarryOver, ClearCarryOver, CallFails,
                             ControllerRestarts, InformerAdvances, EditBinding
  <2>10. QED BY Zenon, <2>1, <2>2, <2>4, <2>5, <2>6, <2>7, <2>8, <2>9 DEF ScNext
<1>2. QED BY <1>1, ScInvHolds, PTL DEF ScSpec
=============================================================================
