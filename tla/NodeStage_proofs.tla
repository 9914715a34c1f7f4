-------------------------- MODULE NodeStage_proofs --------------------------
(***************************************************************************)
(* Proofs about NodeStage and about the login of IscsiLogin that a staging *)
(* of the iSCSI protocol starts with, for every value of their constants.  *)
(*                                                                         *)
(* A call that is half done, or that a crash abandoned, leaves the host    *)
(* between the states the properties describe.  The invariant below says   *)
(* what each step of a call may find, and what is still true when nobody   *)
(* finishes it.                                                            *)
(***************************************************************************)
EXTENDS NodeStage, IscsiLogin, TLAPS

\* A mount entry of the staging path or of a pod.
Mounted == mnt \/ binds # {}

\* The device is the node's alone: once the claim exists the agent cannot
\* enable the namespace, so this ends only with the claim.
Fenced == DevicePresent /\ (local => ~enabled)

InStage(P) == op = "stage" /\ pc \in P

InUnstage(P) == op = "unstage" /\ pc \in P

InPublish(P) == op \in {"publish", "republish"} /\ pc \in P

\* The claim and the agent's exclusive descriptor exclude each other.
ClaimInv ==
    /\ claim => local /\ agent = "idle"
    /\ Mounted => Fenced
    /\ InStage({"probe", "rewrite", "verify", "write"}) => mnt
    /\ InStage({"check"}) => claim
    /\ InStage({"mount"}) => Fenced
    /\ staged => Fenced

\* Which mounts a call in progress may meet.
MountInv ==
    /\ binds # {} => mnt /\ rec.seen
    /\ bare = {}
    /\ binds \subseteq wanted
    /\ InStage(Steps \ {"probe", "rewrite"}) => binds = {}
    /\ InStage({"release", "forget"}) => ~mnt
    /\ InStage({"forget"}) => ~claim
    /\ op = "unstage" => wanted = {}
    /\ InUnstage({"detach", "forget"}) => ~mnt
    /\ InUnstage({"forget"}) => ~claim
    /\ InUnstage({"orphan"}) => ~rec.seen

\* What kubelet was told is true.
KubeletInv ==
    /\ staged => rec.seen /\ rec.disk = {TRUE} /\ (mnt \/ writeProbed)
    /\ op \in {"stage", "unstage"} => ~staged /\ ~unstaged
    /\ op \in {"publish", "republish"} => staged /\ tgt \subseteq wanted
    /\ InPublish({"repair", "remount", "reprobe"}) => writeProbed
    /\ InPublish({"bind", "reprobe", "confirm"}) => mnt
    /\ InPublish({"confirm"}) => tgt \subseteq binds
    /\ op \in {"publish", "republish"} => tgt \cap published = {}
    /\ published \subseteq binds
    /\ unstaged => /\ ~staged /\ op = "none" /\ wanted = {}
                   /\ ~mnt /\ ~claim /\ ~rec.seen

IInv == TypeOK /\ ClaimInv /\ MountInv /\ KubeletInv

----------------------------------------------------------------------------
(* Each action preserves the invariant.  The definitions below are used by *)
(* every step; a step names the action and the helpers it is made of.      *)

\* A write of the stage record that failed did not lose the record.
RecordKept ==
    /\ rec' \in [seen : BOOLEAN, disk : SUBSET BOOLEAN]
    /\ rec.seen => rec'.seen

\* writeStageState: before the rename nothing changed, after it the record is
\* visible.
LEMMA FailedWriteKeepsRecord ==
    ASSUME TypeOK, WriteRecordFails PROVE RecordKept
<1>1. CASE rec' = rec
  BY Zenon, <1>1 DEF TypeOK, RecordKept
<1>2. CASE rec' = [seen |-> TRUE, disk |-> rec.disk \cup {TRUE}]
  BY Zenon, <1>2 DEF TypeOK, RecordKept
<1>3. QED BY Zenon, <1>1, <1>2 DEF WriteRecordFails

USE KindsAssumption, MaxDeathsAssumption
USE DEF IInv, TypeOK, ClaimInv, MountInv, KubeletInv,
        Mounted, Fenced, InStage, InUnstage, InPublish,
        DevicePresent, local, writeProbed, Steps, Ops, StageKind,
        host, export, kubelet

\* A step of NodeStageVolume, its rollback included.
LEMMA StagePreserves == ASSUME IInv, Stage PROVE IInv'
<1>1. CASE NodeStageVolume
  BY Zenon, <1>1 DEF NodeStageVolume, Outside
<1>2. CASE StageFails
  BY Zenon, <1>2 DEF StageFails, At, Return, Outside
<1>3. CASE StageProbeUsable
  BY Zenon, <1>3 DEF StageProbeUsable, At, Goto, Outside
<1>4. CASE StageProbeDrop
  BY Zenon, <1>4 DEF StageProbeDrop, At, Goto, Outside, UnmountStaged, MayDropStaged,
     HasOtherMounts
<1>5. CASE StageRewrite
  BY Zenon, <1>5 DEF StageRewrite, At, Return, Outside, WriteRecord
<1>6. CASE StageRewriteFails
  <2>0. RecordKept
    BY Zenon, <1>6, FailedWriteKeepsRecord DEF StageRewriteFails
  <2>1. TypeOK'
    BY Zenon, <1>6, <2>0 DEF StageRewriteFails, At, Return, Outside, RecordKept
  <2>2. ClaimInv'
    BY Zenon, <1>6, <2>0 DEF StageRewriteFails, At, Return, Outside, RecordKept
  <2>3. MountInv'
    BY Zenon, <1>6, <2>0 DEF StageRewriteFails, At, Return, Outside, RecordKept
  <2>4. KubeletInv'
    BY Zenon, <1>6, <2>0 DEF StageRewriteFails, At, Return, Outside, RecordKept
  <2>5. QED BY Zenon, <2>1, <2>2, <2>3, <2>4
<1>7. CASE StageAttach
  BY Zenon, <1>7 DEF StageAttach, At, Goto, Outside, Attach
<1>8. CASE StageAttachFails
  BY Zenon, <1>8 DEF StageAttachFails, At, Return, Outside, Attach
<1>9. CASE StageCheckExport
  BY Zenon, <1>9 DEF StageCheckExport, At, Goto, Outside
<1>10. CASE StageAdoptMount
  BY Zenon, <1>10 DEF StageAdoptMount, At, Goto, Outside
<1>11. CASE StageDropLeftover
  BY Zenon, <1>11 DEF StageDropLeftover, At, Goto, Outside, UnmountStaged,
     MayDropStaged, HasOtherMounts
<1>12. CASE StageKeepsLeftover
  BY Zenon, <1>12 DEF StageKeepsLeftover, At, Return, Outside
<1>13. CASE StageMount
  BY Zenon, <1>13 DEF StageMount, At, Goto, Outside, MountStaged
<1>14. CASE StageVerify
  BY Zenon, <1>14 DEF StageVerify, At, Goto, Outside
<1>15. CASE StageFailsAttached
  BY Zenon, <1>15 DEF StageFailsAttached, At, Outside, failStaged, Goto, Return
<1>16. CASE StageWrite
  BY Zenon, <1>16 DEF StageWrite, At, Return, Outside, WriteRecord
<1>17. CASE StageWriteFails
  <2>0. RecordKept
    BY Zenon, <1>17, FailedWriteKeepsRecord DEF StageWriteFails
  <2>1. TypeOK'
    BY Zenon, <1>17, <2>0 DEF StageWriteFails, At, Outside, failStaged, Goto, Return,
       RecordKept
  <2>2. ClaimInv'
    BY Zenon, <1>17, <2>0 DEF StageWriteFails, At, Outside, failStaged, Goto, Return,
       RecordKept
  <2>3. MountInv'
    BY Zenon, <1>17, <2>0 DEF StageWriteFails, At, Outside, failStaged, Goto, Return,
       RecordKept
  <2>4. KubeletInv'
    BY Zenon, <1>17, <2>0 DEF StageWriteFails, At, Outside, failStaged, Goto, Return,
       RecordKept
  <2>5. QED BY Zenon, <2>1, <2>2, <2>3, <2>4
<1>18. CASE AbortUnmount
  BY Zenon, <1>18 DEF AbortUnmount, At, Goto, Return, Outside, UnmountStaged
<1>19. CASE AbortRelease
  BY Zenon, <1>19 DEF AbortRelease, At, Goto, Outside, RemoveClaim, CanRemoveClaim
<1>20. CASE AbortForget
  BY Zenon, <1>20 DEF AbortForget, At, Return, Outside, DeleteRecord
<1>21. CASE AbortFails
  BY Zenon, <1>21 DEF AbortFails, Return, Outside
<1>22. QED BY Zenon, <1>1, <1>2, <1>3, <1>4, <1>5, <1>6, <1>7, <1>8, <1>9, <1>10,
       <1>11, <1>12, <1>13, <1>14, <1>15, <1>16, <1>17, <1>18, <1>19, <1>20,
       <1>21 DEF Stage

\* A step of NodeUnstageVolume.
LEMMA UnstagePreserves == ASSUME IInv, Unstage PROVE IInv'
<1>1. CASE NodeUnstageVolume
  BY Zenon, <1>1 DEF NodeUnstageVolume, Outside
<1>2. CASE UnstageOrphan
  BY Zenon, <1>2 DEF UnstageOrphan, At, RemoveClaim, CanRemoveClaim, Unstaged, Return,
     Outside
<1>3. CASE UnstageUnmount
  BY Zenon, <1>3 DEF UnstageUnmount, At, Goto, Outside, UnmountStaged
<1>4. CASE UnstageDetach
  BY Zenon, <1>4 DEF UnstageDetach, At, Goto, Outside, RemoveClaim, CanRemoveClaim
<1>5. CASE UnstageForget
  BY Zenon, <1>5 DEF UnstageForget, At, DeleteRecord, Unstaged, Return, Outside
<1>6. CASE UnstageFails
  BY Zenon, <1>6 DEF UnstageFails, Return, Outside
<1>7. QED BY Zenon, <1>1, <1>2, <1>3, <1>4, <1>5, <1>6 DEF Unstage

\* A step of NodePublishVolume, or a NodeUnpublishVolume.
LEMMA PublishPreserves == ASSUME IInv, Publish PROVE IInv'
<1>1. ASSUME NEW t \in Targets, NodePublishVolume(t) PROVE IInv'
  BY Zenon, <1>1 DEF NodePublishVolume, Outside
<1>2. ASSUME NEW t \in Targets, NodeUnpublishVolume(t) PROVE IInv'
  <2>1. TypeOK'
    BY <1>2 DEF NodeUnpublishVolume, Outside, UnmountTarget
  <2>2. ClaimInv'
    BY Zenon, <1>2 DEF NodeUnpublishVolume, Outside, UnmountTarget
  <2>3. MountInv'
    BY Zenon, <1>2 DEF NodeUnpublishVolume, Outside, UnmountTarget
  <2>4. KubeletInv'
    BY Zenon, <1>2 DEF NodeUnpublishVolume, Outside, UnmountTarget
  <2>5. QED BY Zenon, <2>1, <2>2, <2>3, <2>4
<1>3. ASSUME NEW t \in Targets, NodeUnpublishFails(t) PROVE IInv'
  <2>1. TypeOK'
    BY <1>3 DEF NodeUnpublishFails, Outside
  <2>2. ClaimInv'
    BY Zenon, <1>3 DEF NodeUnpublishFails, Outside
  <2>3. MountInv'
    BY Zenon, <1>3 DEF NodeUnpublishFails, Outside
  <2>4. KubeletInv'
    BY Zenon, <1>3 DEF NodeUnpublishFails, Outside
  <2>5. QED BY Zenon, <2>1, <2>2, <2>3, <2>4
<1>4. ASSUME NEW t \in Targets, PublishExistingDrop(t) PROVE IInv'
  BY Zenon, <1>4 DEF PublishExistingDrop, Publishing, Goto, Outside, UnmountTarget
<1>5. ASSUME NEW t \in Targets, PublishUnconfirmed(t) PROVE IInv'
  BY Zenon, <1>5 DEF PublishUnconfirmed, Publishing, Return, Outside, UnmountTarget
<1>6. CASE PublishExistingUsable
  BY Zenon, <1>6 DEF PublishExistingUsable, Publishing, Published, Return, Outside
<1>7. CASE PublishFresh
  BY ZenonT(30), <1>7 DEF PublishFresh, Publishing, Goto, Outside
<1>8. CASE PublishStagedUsable
  BY ZenonT(30), <1>8 DEF PublishStagedUsable, Publishing, Goto, Outside
<1>9. CASE PublishKeepsDead
  BY Zenon, <1>9 DEF PublishKeepsDead, Publishing, Return, Outside
<1>10. CASE PublishDropStaged
  BY Zenon, <1>10 DEF PublishDropStaged, Publishing, Goto, Outside, UnmountStaged,
     MayDropStaged, HasOtherMounts
<1>11. CASE PublishStagedMissing
  BY Zenon, <1>11 DEF PublishStagedMissing, Publishing, Goto, Outside
<1>12. CASE PublishRemount
  BY ZenonT(30), <1>12 DEF PublishRemount, Publishing, Goto, Outside, MountStaged
<1>13. CASE PublishReprobe
  BY Zenon, <1>13 DEF PublishReprobe, Publishing, Goto, Outside
<1>14. CASE PublishBind
  BY ZenonT(30), <1>14 DEF PublishBind, Publishing, Goto, Outside, Published, Return
<1>15. CASE PublishBindFails
  BY Zenon, <1>15 DEF PublishBindFails, Publishing, Return, Outside
<1>16. CASE PublishConfirm
  BY Zenon, <1>16 DEF PublishConfirm, Publishing, Published, Return, Outside
<1>17. CASE PublishFails
  BY Zenon, <1>17 DEF PublishFails, Publishing, Return, Outside
<1>18. QED BY Zenon, <1>1, <1>2, <1>3, <1>4, <1>5, <1>6, <1>7, <1>8, <1>9, <1>10,
       <1>11, <1>12, <1>13, <1>14, <1>15, <1>16, <1>17 DEF Publish,
       PublishStep

\* A step of the agent's enableNamespace, or a disable.
LEMMA AgentPreserves == ASSUME IInv, Agent PROVE IInv'
<1>1. CASE EnableClaim
  <2>1. TypeOK'
    BY <1>1 DEF EnableClaim, AgentUnchanged
  <2>2. ClaimInv'
    BY Zenon, <1>1 DEF EnableClaim, AgentUnchanged
  <2>3. MountInv'
    BY Zenon, <1>1 DEF EnableClaim, AgentUnchanged
  <2>4. KubeletInv'
    BY Zenon, <1>1 DEF EnableClaim, AgentUnchanged
  <2>5. QED BY Zenon, <2>1, <2>2, <2>3, <2>4
<1>2. CASE EnableWrite
  <2>1. TypeOK'
    BY <1>2 DEF EnableWrite, AgentUnchanged
  <2>2. ClaimInv'
    BY Zenon, <1>2 DEF EnableWrite, AgentUnchanged
  <2>3. MountInv'
    BY Zenon, <1>2 DEF EnableWrite, AgentUnchanged
  <2>4. KubeletInv'
    BY Zenon, <1>2 DEF EnableWrite, AgentUnchanged
  <2>5. QED BY Zenon, <2>1, <2>2, <2>3, <2>4
<1>3. CASE EnableRelease
  <2>1. TypeOK'
    BY <1>3 DEF EnableRelease, AgentUnchanged
  <2>2. ClaimInv'
    BY Zenon, <1>3 DEF EnableRelease, AgentUnchanged
  <2>3. MountInv'
    BY Zenon, <1>3 DEF EnableRelease, AgentUnchanged
  <2>4. KubeletInv'
    BY Zenon, <1>3 DEF EnableRelease, AgentUnchanged
  <2>5. QED BY Zenon, <2>1, <2>2, <2>3, <2>4
<1>4. CASE DisableNamespace
  <2>1. TypeOK'
    BY ZenonT(30), <1>4 DEF DisableNamespace, AgentUnchanged
  <2>2. ClaimInv'
    BY Zenon, <1>4 DEF DisableNamespace, AgentUnchanged
  <2>3. MountInv'
    BY Zenon, <1>4 DEF DisableNamespace, AgentUnchanged
  <2>4. KubeletInv'
    BY Zenon, <1>4 DEF DisableNamespace, AgentUnchanged
  <2>5. QED BY Zenon, <2>1, <2>2, <2>3, <2>4
<1>5. QED BY Zenon, <1>1, <1>2, <1>3, <1>4 DEF Agent

\* A filesystem shutdown, a crash of the plugin, a reboot of the host.
LEMMA FaultsPreserve == ASSUME IInv, FilesystemDies \/ PluginCrash \/ Reboot PROVE IInv'
<1>1. CASE FilesystemDies
  <2>1. TypeOK'
    BY <1>1 DEF FilesystemDies
  <2>2. ClaimInv'
    BY Zenon, <1>1 DEF FilesystemDies
  <2>3. MountInv'
    BY Zenon, <1>1 DEF FilesystemDies
  <2>4. KubeletInv'
    BY Zenon, <1>1 DEF FilesystemDies
  <2>5. QED BY Zenon, <2>1, <2>2, <2>3, <2>4
<1>2. CASE PluginCrash
  BY ZenonT(30), <1>2 DEF PluginCrash, Return, Outside
<1>3. CASE Reboot
  <2>0. rec' \in [seen : BOOLEAN, disk : SUBSET BOOLEAN]
    <3>1. PICK seen \in rec.disk : rec' = [seen |-> seen, disk |-> {seen}]
      BY Zenon, <1>3 DEF Reboot
    <3>2. QED BY Zenon, <3>1
  <2>1. TypeOK'
    BY Zenon, <1>3, <2>0 DEF Reboot, Return
  <2>2. ClaimInv'
    BY Zenon, <1>3, <2>0 DEF Reboot, Return
  <2>3. MountInv'
    BY Zenon, <1>3, <2>0 DEF Reboot, Return
  <2>4. KubeletInv'
    BY Zenon, <1>3, <2>0 DEF Reboot, Return
  <2>5. QED BY Zenon, <2>1, <2>2, <2>3, <2>4
<1>4. QED BY Zenon, <1>1, <1>2, <1>3

HIDE DEF IInv, TypeOK, ClaimInv, MountInv, KubeletInv,
         Mounted, Fenced, InStage, InUnstage, InPublish,
         DevicePresent, local, writeProbed, Steps, Ops, StageKind,
         host, export, kubelet

\* Nothing is mounted, claimed or staged when the node comes up.
LEMMA InitIInv == ASSUME Init PROVE IInv
<1>1. TypeOK
  <2>1. rec \in [seen : BOOLEAN, disk : SUBSET BOOLEAN]
    BY Zenon DEF Init
  <2>2. deaths \in 0..MaxDeaths
    BY DEF Init
  <2>3. fs = "none" <=> ~mnt /\ binds = {}
    BY Zenon DEF Init
  <2>4. tgt \in {{}} \cup {{t} : t \in Targets}
    BY Zenon DEF Init
  <2>5. op \in Ops /\ pc \in Steps /\ (op = "none" <=> pc = "none")
    BY Zenon DEF Init, Ops, Steps
  <2>6. QED BY Zenon, <2>1, <2>2, <2>3, <2>4, <2>5 DEF Init, TypeOK
<1>2. ClaimInv
  BY Zenon DEF Init, ClaimInv, Mounted, InStage
<1>3. MountInv
  BY Zenon DEF Init, MountInv, InStage, InUnstage
<1>4. KubeletInv
  BY Zenon DEF Init, KubeletInv, InPublish
<1>5. QED BY Zenon, <1>1, <1>2, <1>3, <1>4 DEF IInv

\* A step that changes nothing.
LEMMA StutterPreserves == ASSUME IInv, UNCHANGED vars PROVE IInv'
<1> USE DEF vars, host, export, kubelet
<1>1. TypeOK'
  BY ZenonT(30) DEF IInv, TypeOK
<1>2. ClaimInv'
  BY Zenon DEF IInv, ClaimInv, Mounted, Fenced, DevicePresent, local, InStage
<1>3. MountInv'
  BY Zenon DEF IInv, MountInv, InStage, InUnstage
<1>4. KubeletInv'
  BY Zenon DEF IInv, KubeletInv, InPublish, writeProbed
<1>5. QED BY Zenon, <1>1, <1>2, <1>3, <1>4 DEF IInv

\* Every step of the system preserves the invariant.
LEMMA NextPreserves == IInv /\ [Next]_vars => IInv'
BY Zenon, StagePreserves, UnstagePreserves, PublishPreserves, AgentPreserves,
   FaultsPreserve, StutterPreserves
   DEF Next

\* Every state of a node satisfies the invariant, however many pods use the
\* volume, whichever way it is attached and whatever fails.
THEOREM NodeInvariant == Spec => []IInv
BY InitIInv, NextPreserves, PTL DEF Spec

----------------------------------------------------------------------------
(* What the invariant gives. *)

\* The calls, the host and the record keep their shape.
THEOREM NodeTypeCorrect == Spec => []TypeOK
<1>1. IInv => TypeOK
  BY Zenon DEF IInv
<1>2. QED BY <1>1, NodeInvariant, PTL

\* The agent never serves a volume that this node has mounted: its exclusive
\* open and the device-mapper claim exclude each other, and the claim outlives
\* every mount.
THEOREM NodeNeverServedWhileMounted == Spec => []NeverServedWhileMounted
<1>1. IInv => NeverServedWhileMounted
  BY Zenon DEF IInv, ClaimInv, Mounted, Fenced, NeverServedWhileMounted
<1>2. QED BY <1>1, NodeInvariant, PTL

\* abortLocal and NodeUnstageVolume never remove the device under a mount.
THEOREM NodeNoMountOutlivesDevice == Spec => []NoMountOutlivesDevice
<1>1. IInv => NoMountOutlivesDevice
  BY Zenon DEF IInv, ClaimInv, Mounted, Fenced, NoMountOutlivesDevice
<1>2. QED BY <1>1, NodeInvariant, PTL

\* A successful NodeUnstageVolume leaves no mount, bind, claim or record.
THEOREM NodeUnstageLeavesNothing == Spec => []UnstageLeavesNothing
<1>1. IInv => UnstageLeavesNothing
  BY Zenon DEF IInv, MountInv, KubeletInv, UnstageLeavesNothing
<1>2. QED BY <1>1, NodeInvariant, PTL

\* NodeStageVolume succeeds only with a record that no reboot can lose.
THEOREM NodeStagedIsRecorded == Spec => []StagedIsRecorded
<1>1. IInv => StagedIsRecorded
  BY Zenon DEF IInv, KubeletInv, StagedIsRecorded
<1>2. QED BY <1>1, NodeInvariant, PTL

\* NodePublishVolume never reports a target that shows the empty directory.
THEOREM NodePublishedShowsVolume == Spec => []PublishedShowsVolume
<1>1. IInv => PublishedShowsVolume
  BY Zenon DEF IInv, KubeletInv, PublishedShowsVolume
<1>2. QED BY <1>1, NodeInvariant, PTL

\* No repair and no rollback unmounts the staging path under a pod.
THEOREM NodeBoundStaysStaged == Spec => []BoundStaysStaged
<1>1. IInv => BoundStaysStaged
  BY Zenon DEF IInv, MountInv, BoundStaysStaged
<1>2. QED BY <1>1, NodeInvariant, PTL
----------------------------------------------------------------------------
(* IscsiLogin.                                                             *)

USE LgAssumption

\* The values of keys are numbers.
LEMMA LoginValues ==
    /\ LoginValue \subseteq Nat /\ 1 \in LoginValue
    /\ \A k \in LoginKeys : KeyOffer[k] \in LoginValue /\ KeyDefault[k] \in LoginValue
    /\ \A limit \in KeyLimits, k \in LoginKeys : limit[k] \in LoginValue
<1>1. \A limit \in KeyLimits, k \in LoginKeys : limit[k] \in Nat
  BY Zenon
<1>2. \A v \in UNION {{limit[k] : k \in LoginKeys} : limit \in KeyLimits} : v \in Nat
  <2>1. \A limit \in KeyLimits : {limit[k] : k \in LoginKeys} \subseteq Nat
    BY Zenon, <1>1
  <2>2. QED BY ONLY <2>1
<1>3. {1} \subseteq Nat
  BY SMT
<1>4. LoginValue \subseteq Nat
  BY Zenon, <1>2, <1>3 DEF LoginValue
<1>5. 1 \in LoginValue
  BY Zenon DEF LoginValue
<1>6. \A k \in LoginKeys : KeyOffer[k] \in LoginValue /\ KeyDefault[k] \in LoginValue
  BY Zenon DEF LoginValue
<1>7. ASSUME NEW limit \in KeyLimits, NEW k \in LoginKeys PROVE limit[k] \in LoginValue
  <2>1. limit[k] \in {limit[j] : j \in LoginKeys}
    BY Zenon
  <2>2. {limit[j] : j \in LoginKeys} \in {{f[j] : j \in LoginKeys} : f \in KeyLimits}
    BY Zenon
  <2>3. QED BY Zenon, <2>1, <2>2 DEF LoginValue
<1>8. QED BY Zenon, <1>4, <1>5, <1>6, <1>7

\* The states of chapState, and what it sends.
ChapStates == {"off", "awaitMethod", "awaitChallenge", "awaitMutual", "awaitResult", "done"}
ChapText == {"AuthMethod", "algorithm", "response", "challenge"}

\* The initiator's loginState.
LoginState ==
    [status : {"run", "failed", "done", "started"}, creds : {"none", "chap", "mutual"},
     csg : {"security", "operational"}, rounds : 0..maxLoginRounds,
     offered : BOOLEAN, answered : SUBSET LoginKeys, pending : SUBSET LoginKeys,
     val : [LoginKeys -> LoginValue], authAccepted : BOOLEAN, chap : ChapStates,
     send : SUBSET ChapText, hold : BOOLEAN]

\* The types; without a request on its way there is nothing in it.
LgTyped ==
    /\ lg \in LoginState
    /\ req \in [on : BOOLEAN, transit : BOOLEAN, offers : SUBSET LoginKeys,
                answers : SUBSET (LoginKeys \X LoginValue), chap : SUBSET ChapText]
    /\ tg \in [csg : {"security", "operational", "full"}, owes : SUBSET LoginKeys,
               asked : SUBSET LoginKeys, val : [LoginKeys -> LoginValue],
               accepted : BOOLEAN, proved : BOOLEAN]
    /\ req.on \/ req = NoReq

\* Both sides are in the same stage, and disagree only about keys the
\* initiator settled and still has to announce.
NegotiationInv ==
    /\ lg.csg = tg.csg
    /\ lg.offered => lg.csg = "operational"
    /\ req.on => lg.pending = {} /\ lg.send = {}
    /\ \A kv \in req.answers : kv[2] = lg.val[kv[1]]
    /\ \A k \in LoginKeys : k \notin lg.pending /\ (\A kv \in req.answers : kv[1] # k) =>
                               lg.val[k] = tg.val[k]

\* CHAP is over before the operational stage, and it is over only when the
\* target took the response and, if asked to, proved itself.
ChapInv ==
    /\ lg.chap = "off" <=> lg.creds = "none"
    /\ lg.creds # "none" /\ lg.csg = "operational" => lg.chap = "done"
    /\ lg.chap \in {"awaitResult", "awaitMutual"} =>
          "response" \in lg.send \/ "response" \in req.chap \/ tg.accepted
    /\ lg.chap = "awaitResult" => lg.creds = "chap"
    /\ lg.chap = "done" => tg.accepted /\ (lg.creds = "mutual" => tg.proved)

\* The inductive invariant.
LgInv ==
    /\ LgTyped
    /\ lg.status = "run" => NegotiationInv /\ ChapInv
    /\ LoginAgrees

\* Resolving a value that was resolved already changes nothing.
LEMMA ResolveAgain ==
    ASSUME NEW k \in LoginKeys, NEW v \in LoginValue
    PROVE  /\ resolveKey(k, v) \in LoginValue
           /\ resolveKey(k, resolveKey(k, v)) = resolveKey(k, v)
<1>1. KeyOffer[k] \in LoginValue /\ KeyOffer[k] \in Nat /\ v \in Nat /\ operationalOffers[k] = KeyOffer[k]
  BY Zenon, LoginValues DEF operationalOffers
<1>2. resolveKey(k, v) \in {KeyOffer[k], v}
  BY Zenon, <1>1 DEF resolveKey
<1>3. CASE resolveKey(k, v) = KeyOffer[k]
  <2>1. resolveKey(k, KeyOffer[k]) = KeyOffer[k]
    BY Zenon, <1>1 DEF resolveKey
  <2>2. QED BY Zenon, <1>1, <1>3, <2>1
<1>4. QED BY Zenon, <1>1, <1>2, <1>3

\* A login that starts over satisfies the invariant.
LEMMA NewLogin ==
    ASSUME NEW c \in {"none", "chap", "mutual"}, lg' = newLoginState(c), tg' = newTarget, req' = NoReq
    PROVE  LgInv'
<1>1. rfcDefaults \in [LoginKeys -> LoginValue]
  BY Zenon, LoginValues DEF rfcDefaults
<1>2. lg' \in LoginState
  BY <1>1 DEF newLoginState, LoginState, ChapStates, ChapText
<1>3. LgTyped'
  BY Zenon, <1>1, <1>2 DEF LgTyped, newTarget, NoReq
<1>4. /\ lg'.status = "run" /\ lg'.csg = "security" /\ lg'.offered = FALSE /\ lg'.val = rfcDefaults
      /\ lg'.creds = c /\ lg'.chap = (IF c = "none" THEN "off" ELSE "awaitMethod")
      /\ tg'.csg = "security" /\ tg'.val = rfcDefaults /\ req'.on = FALSE /\ req'.answers = {}
  BY Zenon DEF newLoginState, newTarget, NoReq
<1>5. NegotiationInv'
  BY Zenon, <1>4 DEF NegotiationInv
<1>6. ChapInv'
  BY Zenon, <1>4 DEF ChapInv
<1>7. QED BY Zenon, <1>3, <1>4, <1>5, <1>6 DEF LgInv, LoginAgrees
\* What the later stages of loginSession leave alone.
KeepsKeys(l, r) ==
    /\ r \in LoginState /\ r.creds = l.creds /\ r.offered = l.offered
    /\ r.pending = l.pending /\ r.val = l.val /\ r.rounds = l.rounds

\* A login that fails keeps its keys.
LEMMA FailedIs ==
    ASSUME NEW l \in LoginState, NEW r, r = [l EXCEPT !.status = "failed"]
    PROVE  /\ KeepsKeys(l, r) /\ r.csg = l.csg /\ r.chap = l.chap /\ r.send = l.send
           /\ r.status = "failed"
BY Zenon DEF KeepsKeys, LoginState

\* CHAP goes on to state c and has s to send.
Sends(l, r, c, s) ==
    r = [l EXCEPT !.chap = c, !.send = s] \/ r = [l EXCEPT !.chap = c, !.send = s, !.hold = TRUE]

\* A CHAP step keeps the keys.
LEMMA SentIs ==
    ASSUME NEW l \in LoginState, NEW c \in ChapStates, NEW s \in SUBSET ChapText, NEW r, Sends(l, r, c, s)
    PROVE  KeepsKeys(l, r) /\ r.csg = l.csg /\ r.chap = c /\ r.send = s /\ r.status = l.status
<1>1. CASE r = [l EXCEPT !.chap = c, !.send = s]
  BY Zenon, <1>1 DEF KeepsKeys, LoginState
<1>2. CASE r = [l EXCEPT !.chap = c, !.send = s, !.hold = TRUE]
  BY Zenon, <1>2 DEF KeepsKeys, LoginState
<1>3. QED BY Zenon, <1>1, <1>2 DEF Sends

\* What a response may say about keys.
LoginText == SUBSET (LoginKeys \X LoginValue)

\* The keys a text names.
KeysOf(text) == {kv[1] : kv \in text}

\* What a text changes: the named keys, which the initiator still has to
\* announce unless the text answers its offer.
Applied(l, text, r) ==
    /\ r \in LoginState /\ r.status = l.status /\ r.creds = l.creds /\ r.csg = l.csg
    /\ r.offered = l.offered /\ r.chap = l.chap /\ r.send = l.send
    /\ r.pending = (IF l.offered THEN l.pending ELSE l.pending \cup KeysOf(text))
    /\ \A k \in LoginKeys \ KeysOf(text) : r.val[k] = l.val[k]
    /\ \A k \in LoginKeys, v \in LoginValue :
          (k \in KeysOf(text) /\ \A kv \in text : kv[1] = k => kv[2] = v) => r.val[k] = resolveKey(k, v)

\* applyOperational does what Applied says.
LEMMA ApplyIs ==
    ASSUME NEW l \in LoginState, NEW text \in LoginText
    PROVE  Applied(l, text, applyOperational(l, text))
<1>0. PICK r : r = applyOperational(l, text)
  BY Zenon
<1> DEFINE keys == KeysOf(text)
           theirs(k) == (CHOOSE kv \in text : kv[1] = k)[2]
           new == [k \in LoginKeys |-> IF k \in keys THEN resolveKey(k, theirs(k)) ELSE l.val[k]]
<1>1. keys \subseteq LoginKeys
  BY Zenon DEF KeysOf, LoginText
<1>2. ASSUME NEW k \in keys
      PROVE  /\ theirs(k) \in LoginValue
             /\ \A v \in LoginValue : (\A kv \in text : kv[1] = k => kv[2] = v) => theirs(k) = v
  <2>1. PICK kv \in text : kv[1] = k
    BY Zenon, <1>2 DEF KeysOf
  <2>2. (CHOOSE x \in text : x[1] = k) \in text /\ (CHOOSE x \in text : x[1] = k)[1] = k
    BY Zenon, <2>1
  <2>3. QED BY Zenon, <2>2 DEF LoginText
<1>3. new \in [LoginKeys -> LoginValue]
  BY <1>1, <1>2, ResolveAgain DEF LoginState
<1>4. r = [l EXCEPT !.val = new,
                    !.pending = IF l.offered THEN l.pending ELSE l.pending \cup keys,
                    !.answered = IF l.offered THEN l.answered ELSE l.answered \cup keys]
  BY Zenon, <1>0 DEF applyOperational, KeysOf
<1> HIDE DEF new
<1>5. PICK p, a \in SUBSET LoginKeys :
         /\ r = [l EXCEPT !.val = new, !.pending = p, !.answered = a]
         /\ p = IF l.offered THEN l.pending ELSE l.pending \cup keys
  <2>1. l.pending \subseteq LoginKeys /\ l.answered \subseteq LoginKeys
    BY Zenon DEF LoginState
  <2>2. QED BY Zenon, <1>1, <1>4, <2>1
<1>6. r \in LoginState /\ r.val = new /\ r.pending = p
  BY Zenon, <1>3, <1>5 DEF LoginState
<1>7. /\ r.status = l.status /\ r.creds = l.creds /\ r.csg = l.csg
      /\ r.offered = l.offered /\ r.chap = l.chap /\ r.send = l.send
  BY Zenon, <1>5 DEF LoginState
<1>8. QED BY <1>0, <1>1, <1>2, <1>5, <1>6, <1>7 DEF new, Applied

\* applyAuthKey keeps the keys and CHAP.
LEMMA AuthKeyIs ==
    ASSUME NEW l \in LoginState, NEW auth, NEW r, r = applyAuthKey(l, auth)
    PROVE  /\ KeepsKeys(l, r) /\ r.csg = l.csg /\ r.chap = l.chap /\ r.send = l.send
           /\ r.status \in {l.status, "failed"}
BY Zenon DEF applyAuthKey, KeepsKeys, LoginState

\* One step of CHAP, when the login goes on.
LEMMA ChapIs ==
    ASSUME NEW l \in LoginState, NEW auth, NEW r, r = advanceCHAP(l, auth)
    PROVE  /\ KeepsKeys(l, r) /\ r.csg = l.csg /\ r.status \in {l.status, "failed"}
           /\ l.chap = "off" \/ l.csg # "security" => r.chap = l.chap /\ r.send = l.send
           /\ r.status = "run" /\ l.csg = "security" /\ l.chap # "off" =>
                 \/ l.chap = "awaitMethod" /\ r.chap = "awaitChallenge"
                 \/ l.chap = "awaitChallenge" /\ "response" \in r.send
                    /\ r.chap = (IF l.creds = "mutual" THEN "awaitMutual" ELSE "awaitResult")
                 \/ l.chap = "awaitMutual" /\ r.chap = "done" /\ auth = {"proof"}
                 \/ l.chap \in {"awaitResult", "done"} /\ r.chap = "done"
<1>1. CASE l.status # "run" \/ l.chap = "off" \/ l.csg # "security"
  BY <1>1 DEF advanceCHAP, KeepsKeys, LoginState
<1>2. CASE l.status = "run" /\ l.chap # "off" /\ l.csg = "security"
  <2>0. r = advance(l, auth)
    BY Zenon, <1>2 DEF advanceCHAP
  <2>1. CASE l.chap = "awaitMethod"
    <3>1. \/ r = [l EXCEPT !.status = "failed"]
          \/ r = [l EXCEPT !.chap = "awaitChallenge", !.send = {"algorithm"}, !.hold = TRUE]
      BY Zenon, <2>0, <2>1 DEF advance, onMethod
    <3>2. CASE r = [l EXCEPT !.status = "failed"]
      BY Zenon, <2>1, <3>2, FailedIs
    <3>3. CASE r = [l EXCEPT !.chap = "awaitChallenge", !.send = {"algorithm"}, !.hold = TRUE]
      <4>1. PICK c \in ChapStates, s \in SUBSET ChapText : c = "awaitChallenge" /\ s = {"algorithm"}
        BY Zenon DEF ChapStates, ChapText
      <4>2. Sends(l, r, c, s)
        BY Zenon, <3>3, <4>1 DEF Sends
      <4>3. KeepsKeys(l, r) /\ r.csg = l.csg /\ r.chap = c /\ r.send = s /\ r.status = l.status
        BY <4>2, SentIs
      <4>4. QED BY Zenon, <1>2, <2>1, <3>3, <4>1, <4>3
    <3>4. QED BY Zenon, <3>1, <3>2, <3>3
  <2>2. CASE l.chap = "awaitChallenge"
    <3>1. \/ r = [l EXCEPT !.status = "failed"]
          \/ r = [l EXCEPT !.chap = "awaitMutual", !.send = {"response", "challenge"}] /\ l.creds = "mutual"
          \/ r = [l EXCEPT !.chap = "awaitResult", !.send = {"response"}] /\ l.creds # "mutual"
      BY Zenon, <2>0, <2>2 DEF advance, onChallenge
    <3>2. CASE r = [l EXCEPT !.status = "failed"]
      BY Zenon, <2>2, <3>2, FailedIs
    <3>3. CASE r = [l EXCEPT !.chap = "awaitMutual", !.send = {"response", "challenge"}] /\ l.creds = "mutual"
      <4>1. PICK c \in ChapStates, s \in SUBSET ChapText : c = "awaitMutual" /\ s = {"response", "challenge"}
        BY Zenon DEF ChapStates, ChapText
      <4>2. Sends(l, r, c, s)
        BY Zenon, <3>3, <4>1 DEF Sends
      <4>3. KeepsKeys(l, r) /\ r.csg = l.csg /\ r.chap = c /\ r.send = s /\ r.status = l.status
        BY <4>2, SentIs
      <4>4. QED BY Zenon, <1>2, <2>2, <3>3, <4>1, <4>3
    <3>4. CASE r = [l EXCEPT !.chap = "awaitResult", !.send = {"response"}] /\ l.creds # "mutual"
      <4>1. PICK c \in ChapStates, s \in SUBSET ChapText : c = "awaitResult" /\ s = {"response"}
        BY Zenon DEF ChapStates, ChapText
      <4>2. Sends(l, r, c, s)
        BY Zenon, <3>4, <4>1 DEF Sends
      <4>3. KeepsKeys(l, r) /\ r.csg = l.csg /\ r.chap = c /\ r.send = s /\ r.status = l.status
        BY <4>2, SentIs
      <4>4. QED BY Zenon, <1>2, <2>2, <3>4, <4>1, <4>3
    <3>5. QED BY Zenon, <3>1, <3>2, <3>3, <3>4
  <2>3. CASE l.chap = "awaitMutual"
    <3>1. CASE auth = {"proof"}
      <4>1. r = [l EXCEPT !.chap = "done"]
        BY Zenon, <2>0, <2>3, <3>1 DEF advance, onMutualResponse
      <4>2. QED BY <1>2, <2>3, <3>1, <4>1 DEF KeepsKeys, LoginState, ChapStates
    <3>2. CASE auth # {"proof"}
      <4>1. r = [l EXCEPT !.status = "failed"]
        BY Zenon, <2>0, <2>3, <3>2 DEF advance, onMutualResponse
      <4>2. QED BY Zenon, <2>3, <4>1, FailedIs
    <3>3. QED BY Zenon, <3>1, <3>2
  <2>4. CASE l.chap \in {"awaitResult", "done"}
    BY <1>2, <2>0, <2>4 DEF advance, KeepsKeys, LoginState, ChapStates, ChapText
  <2>5. QED BY Zenon, <1>2, <2>1, <2>2, <2>3, <2>4 DEF LoginState, ChapStates
<1>3. QED BY Zenon, <1>1, <1>2

\* What finalizeNegotiated leaves of parameters both sides agreed on.
Corrected(v, w) ==
    /\ \A k \in LoginKeys : w[k] # v[k] =>
          \/ k = "FirstBurstLength" /\ w[k] < v[k] /\ w[k] = v["MaxBurstLength"]
          \/ k = "MaxOutstandingR2T" /\ v[k] = 0 /\ w[k] = 1
    /\ w["FirstBurstLength"] <= w["MaxBurstLength"]
    /\ w["MaxOutstandingR2T"] >= 1

\* finalizeNegotiated does what Corrected says.
LEMMA FinalizeIs ==
    ASSUME NEW v \in [LoginKeys -> LoginValue]
    PROVE  finalizeNegotiated(v) \in [LoginKeys -> LoginValue] /\ Corrected(v, finalizeNegotiated(v))
<1> DEFINE w == finalizeNegotiated(v)
<1>1. LoginValue \subseteq Nat /\ 1 \in LoginValue
  BY Zenon, LoginValues
<1>2. \A k \in LoginKeys : v[k] \in Nat /\ v[k] \in LoginValue
  BY Zenon, <1>1
<1>3. /\ "MaxBurstLength" \in LoginKeys /\ "FirstBurstLength" \in LoginKeys
      /\ "MaxOutstandingR2T" \in LoginKeys
  BY Zenon, KeysAssumption
<1>4. \A k \in LoginKeys : w[k] = IF k = "FirstBurstLength" /\ v[k] > v["MaxBurstLength"]
                                 THEN v["MaxBurstLength"]
                                 ELSE IF k = "MaxOutstandingR2T" /\ v[k] = 0 THEN 1 ELSE v[k]
  BY Zenon DEF finalizeNegotiated
<1>5. w \in [LoginKeys -> LoginValue]
  BY Zenon, <1>1, <1>2, <1>3 DEF finalizeNegotiated
<1> HIDE DEF w
<1>6. Corrected(v, w)
  BY ONLY <1>2, <1>3, <1>4 DEF Corrected
<1>7. QED BY Zenon, <1>5, <1>6 DEF w

\* transition and finish: the stage moves, or the login ends.
LEMMA TransitionIs ==
    ASSUME NEW l \in LoginState, l.status \in {"run", "failed"},
           NEW nsg \in {"stay", "operational", "full"}, NEW id, NEW r, r = transition(l, nsg, id)
    PROVE  /\ r \in LoginState /\ r.creds = l.creds /\ r.chap = l.chap /\ r.send = l.send
           /\ r.status \in {"run", "failed", "done"}
           /\ r.status # "done" => KeepsKeys(l, r)
           /\ r.status = "run" =>
                 /\ l.status = "run" /\ r.csg = (IF nsg = "stay" THEN l.csg ELSE nsg) /\ nsg # "full"
                 /\ nsg = "operational" /\ l.csg = "security" /\ l.chap # "off" => l.chap = "done"
           /\ r.status = "done" =>
                 /\ l.status = "run" /\ l.offered /\ l.csg = "operational" /\ l.pending = {}
                 /\ Corrected(l.val, r.val)
<1>1. CASE l.status # "run" \/ nsg = "stay"
  <2>1. r = l
    BY Zenon, <1>1 DEF transition
  <2>2. QED BY Zenon, <1>1, <2>1 DEF KeepsKeys
<1>2. CASE l.status = "run" /\ nsg = "full"
  <2>1. r = finish(l, id)
    BY Zenon, <1>2 DEF transition
  <2>2. CASE l.offered /\ l.csg = "operational" /\ l.pending = {} /\ id # 0
    <3>1. PICK w : w = finalizeNegotiated(l.val)
      BY Zenon
    <3>2. w \in [LoginKeys -> LoginValue] /\ Corrected(l.val, w)
      BY Zenon, <3>1, FinalizeIs DEF LoginState
    <3>3. r = [l EXCEPT !.status = "done", !.val = w]
      BY Zenon, <2>1, <2>2, <3>1 DEF finish
    <3>4. /\ r \in LoginState /\ r.status = "done" /\ r.val = w
          /\ r.creds = l.creds /\ r.chap = l.chap /\ r.send = l.send
      BY Zenon, <3>2, <3>3 DEF LoginState
    <3>5. QED BY Zenon, <1>2, <2>2, <3>2, <3>4
  <2>3. CASE ~(l.offered /\ l.csg = "operational" /\ l.pending = {} /\ id # 0)
    <3>1. r = [l EXCEPT !.status = "failed"]
      BY Zenon, <2>1, <2>3 DEF finish
    <3>2. KeepsKeys(l, r) /\ r.chap = l.chap /\ r.send = l.send /\ r.status = "failed"
      BY ONLY Zenon, <3>1, FailedIs, l \in LoginState
    <3>3. r \in LoginState /\ r.creds = l.creds
      BY ONLY Zenon, <3>2 DEF KeepsKeys
    <3>4. QED BY ONLY Zenon, <3>2, <3>3
  <2>4. QED BY Zenon, <2>2, <2>3
<1>3. CASE l.status = "run" /\ nsg = "operational"
  BY <1>3 DEF transition, securityDone, KeepsKeys, LoginState
<1>4. QED BY Zenon, <1>1, <1>2, <1>3

\* The target learns what the initiator announced: afterwards it differs at
\* most in keys whose announcement is still pending.
LEMMA LearnedIs ==
    ASSUME LgTyped, NegotiationInv, NEW t, t = Learned
    PROVE  /\ t \in [csg : {"security", "operational", "full"}, owes : SUBSET LoginKeys,
                     asked : SUBSET LoginKeys, val : [LoginKeys -> LoginValue],
                     accepted : BOOLEAN, proved : BOOLEAN]
           /\ t.csg = tg.csg /\ t.proved = tg.proved
           /\ tg.accepted => t.accepted
           /\ "response" \in req.chap => t.accepted
           /\ \A k \in LoginKeys \ lg.pending : t.val[k] = lg.val[k]
<1> DEFINE settled == {kv[1] : kv \in req.answers}
           value(k) == (CHOOSE kv \in req.answers : kv[1] = k)[2]
           new == [k \in LoginKeys |-> IF k \in settled THEN value(k) ELSE tg.val[k]]
<1>0. /\ tg \in [csg : {"security", "operational", "full"}, owes : SUBSET LoginKeys,
                 asked : SUBSET LoginKeys, val : [LoginKeys -> LoginValue],
                 accepted : BOOLEAN, proved : BOOLEAN]
      /\ req.answers \subseteq LoginKeys \X LoginValue /\ req.offers \subseteq LoginKeys
      /\ lg.val \in [LoginKeys -> LoginValue]
  BY Zenon DEF LgTyped, LoginState
<1>1. ASSUME NEW k \in settled PROVE value(k) = lg.val[k] /\ k \in LoginKeys
  <2>1. PICK kv \in req.answers : kv[1] = k
    BY Zenon, <1>1
  <2>2. (CHOOSE x \in req.answers : x[1] = k) \in req.answers /\ (CHOOSE x \in req.answers : x[1] = k)[1] = k
    BY Zenon, <2>1
  <2>3. QED BY <1>0, <2>1, <2>2 DEF NegotiationInv
<1>2. new \in [LoginKeys -> LoginValue]
  BY <1>0, <1>1
<1>3. \A k \in LoginKeys \ lg.pending : new[k] = lg.val[k]
  BY <1>0, <1>1 DEF NegotiationInv
<1>4. t = [tg EXCEPT !.val = new, !.asked = tg.asked \ settled, !.owes = tg.owes \cup req.offers,
                     !.accepted = tg.accepted \/ "response" \in req.chap]
  BY Zenon DEF Learned
<1> HIDE DEF new, settled
<1>5. /\ t.val = new /\ t.csg = tg.csg /\ t.proved = tg.proved
      /\ t.accepted = (tg.accepted \/ "response" \in req.chap)
  BY Zenon, <1>0, <1>4
<1>6. t \in [csg : {"security", "operational", "full"}, owes : SUBSET LoginKeys,
             asked : SUBSET LoginKeys, val : [LoginKeys -> LoginValue],
             accepted : BOOLEAN, proved : BOOLEAN]
  <2>1. PICK a, o \in SUBSET LoginKeys, b \in BOOLEAN :
           t = [tg EXCEPT !.val = new, !.asked = a, !.owes = o, !.accepted = b]
    <3>1. tg.asked \ settled \in SUBSET LoginKeys /\ tg.owes \cup req.offers \in SUBSET LoginKeys
          /\ (tg.accepted \/ "response" \in req.chap) \in BOOLEAN
      BY Zenon, <1>0
    <3>2. QED BY Zenon, <1>4, <3>1
  <2>2. QED BY Zenon, <1>0, <1>2, <2>1
<1>7. QED BY Zenon, <1>3, <1>5, <1>6

\* A response of the target keeps LgInv.
LEMMA RespondLg ==
    ASSUME LgInv, NEW answer \in SUBSET LoginKeys, NEW propose \in SUBSET LoginKeys,
           NEW limit \in KeyLimits, NEW auth, NEW nsg \in {"stay", "operational", "full"}, NEW id,
           Respond(answer, propose, limit, auth, nsg, id)
    PROVE  LgInv'
<1> DEFINE text == {<<k, resolveKey(k, limit[k])>> : k \in answer} \cup {<<k, limit[k]>> : k \in propose}
<1>0. /\ LgTyped /\ NegotiationInv /\ ChapInv /\ lg \in LoginState /\ lg.status = "run"
      /\ req.on /\ lg.pending = {} /\ lg.send = {} /\ req' = NoReq
  BY Zenon DEF LgInv, LgTyped, NegotiationInv, Respond
<1>1. PICK t : /\ t = Learned
               /\ answer \subseteq t.owes /\ t.owes = tg.owes \cup req.offers
               /\ propose # {} => tg.csg = "security"
               /\ propose \cap (tg.owes \cup req.offers) = {}
               /\ nsg = "operational" => t.csg = "security"
               /\ lg' = loginSession(text, auth, nsg, id)
               /\ tg' = [t EXCEPT
                           !.owes = @ \ answer, !.asked = @ \cup propose,
                           !.val = [k \in LoginKeys |-> IF k \in answer THEN resolveKey(k, limit[k]) ELSE @[k]],
                           !.csg = IF nsg = "stay" THEN @ ELSE nsg,
                           !.proved = @ \/ auth = {"proof"}]
  <2>1. PICK t : t = Learned /\ Learned.owes = tg.owes \cup req.offers
    BY Zenon, <1>0 DEF Learned, LgTyped
  <2>2. propose \subseteq MayPropose
    BY Zenon DEF Respond
  <2>3. (propose # {} => tg.csg = "security") /\ propose \cap (tg.owes \cup req.offers) = {}
    BY Zenon, <2>2 DEF MayPropose
  <2>4. QED BY Zenon, <2>1, <2>3 DEF Respond
<1>2. /\ t \in [csg : {"security", "operational", "full"}, owes : SUBSET LoginKeys,
                asked : SUBSET LoginKeys, val : [LoginKeys -> LoginValue],
                accepted : BOOLEAN, proved : BOOLEAN]
      /\ t.csg = tg.csg /\ t.proved = tg.proved
      /\ tg.accepted => t.accepted
      /\ "response" \in req.chap => t.accepted
      /\ \A k \in LoginKeys : t.val[k] = lg.val[k]
  BY <1>0, <1>1, LearnedIs
<1>3. \A k \in answer \cup propose : k \in LoginKeys /\ limit[k] \in LoginValue /\ resolveKey(k, limit[k]) \in LoginValue
  BY Zenon, LoginValues, ResolveAgain
<1>4. text \in LoginText /\ KeysOf(text) = answer \cup propose
  <2>1. \A kv \in text : kv \in LoginKeys \X LoginValue /\ kv[1] \in answer \cup propose
    BY <1>3
  <2>2. \A k \in answer : <<k, resolveKey(k, limit[k])>> \in text
    BY Zenon
  <2>3. \A k \in propose : <<k, limit[k]>> \in text
    BY Zenon
  <2>4. \A k \in answer \cup propose : \E kv \in text : kv[1] = k
    BY Zenon, <2>2, <2>3
  <2> HIDE DEF text
  <2>5. QED BY <2>1, <2>4 DEF KeysOf, LoginText
<1>5. \A k \in answer : \A kv \in text : kv[1] = k => kv[2] = resolveKey(k, limit[k])
  BY <1>1
<1>6. /\ tg'.csg = (IF nsg = "stay" THEN tg.csg ELSE nsg) /\ tg'.accepted = t.accepted
      /\ tg'.proved = (tg.proved \/ auth = {"proof"})
      /\ tg'.val = [k \in LoginKeys |-> IF k \in answer THEN resolveKey(k, limit[k]) ELSE t.val[k]]
  BY Zenon, <1>1, <1>2
<1>7. tg' \in [csg : {"security", "operational", "full"}, owes : SUBSET LoginKeys,
               asked : SUBSET LoginKeys, val : [LoginKeys -> LoginValue],
               accepted : BOOLEAN, proved : BOOLEAN]
  <2>1. [k \in LoginKeys |-> IF k \in answer THEN resolveKey(k, limit[k]) ELSE t.val[k]] \in [LoginKeys -> LoginValue]
    <3>1. t.val \in [LoginKeys -> LoginValue]
      BY Zenon, <1>2
    <3>2. QED BY ONLY Zenon, <1>3, <3>1
  <2>2. /\ t.owes \ answer \in SUBSET LoginKeys /\ t.asked \cup propose \in SUBSET LoginKeys
        /\ (IF nsg = "stay" THEN t.csg ELSE nsg) \in {"security", "operational", "full"}
        /\ (t.proved \/ auth = {"proof"}) \in BOOLEAN
    BY Zenon, <1>2
  <2>3. QED BY ONLY Zenon, <1>1, <1>2, <2>1, <2>2
<1>8. PICK l0, l1, l2 : /\ l0 = applyOperational(lg, text) /\ l1 = applyAuthKey(l0, auth)
                        /\ l2 = advanceCHAP(l1, auth) /\ lg' = transition(l2, nsg, id)
  BY Zenon, <1>1 DEF loginSession
<1> HIDE DEF text
\* The keys.
<1>9. Applied(lg, text, l0)
  BY Zenon, <1>0, <1>4, <1>8, ApplyIs
<1>10. /\ l0 \in LoginState /\ l0.status = "run" /\ l0.creds = lg.creds /\ l0.csg = lg.csg
       /\ l0.offered = lg.offered /\ l0.chap = lg.chap /\ l0.send = {}
       /\ l0.pending = (IF lg.offered THEN {} ELSE answer \cup propose)
       /\ \A k \in LoginKeys \ (answer \cup propose) : l0.val[k] = lg.val[k]
       /\ \A k \in answer : l0.val[k] = resolveKey(k, limit[k])
  <2>1. ASSUME NEW k \in answer PROVE l0.val[k] = resolveKey(k, resolveKey(k, limit[k]))
    BY <1>3, <1>4, <1>5, <1>9 DEF Applied
  <2>2. \A k \in answer : l0.val[k] = resolveKey(k, limit[k])
    BY Zenon, <1>3, <2>1, ResolveAgain
  <2>3. QED BY Zenon, <1>0, <1>4, <1>9, <2>2 DEF Applied
<1>11. l0.offered => propose = {}
  BY Zenon, <1>0, <1>1, <1>2, <1>10 DEF NegotiationInv
<1>12. \A k \in LoginKeys \ l0.pending : l0.val[k] = tg'.val[k]
  BY <1>2, <1>6, <1>10, <1>11
\* Authentication and the stage.
<1>13. /\ KeepsKeys(l0, l1) /\ l1.csg = lg.csg /\ l1.chap = lg.chap /\ l1.send = {}
       /\ l1.status \in {"run", "failed"}
  BY <1>8, <1>10, AuthKeyIs
<1>14. /\ KeepsKeys(l0, l2) /\ l2.csg = lg.csg /\ l2.status \in {"run", "failed"}
       /\ lg.chap = "off" \/ lg.csg # "security" => l2.chap = lg.chap /\ l2.send = {}
       /\ l2.status = "run" /\ lg.csg = "security" /\ lg.chap # "off" =>
             \/ lg.chap = "awaitMethod" /\ l2.chap = "awaitChallenge"
             \/ lg.chap = "awaitChallenge" /\ "response" \in l2.send
                /\ l2.chap = (IF lg.creds = "mutual" THEN "awaitMutual" ELSE "awaitResult")
             \/ lg.chap = "awaitMutual" /\ l2.chap = "done" /\ auth = {"proof"}
             \/ lg.chap \in {"awaitResult", "done"} /\ l2.chap = "done"
  <2>1. l1 \in LoginState /\ l1.creds = lg.creds
    BY Zenon, <1>10, <1>13 DEF KeepsKeys
  <2>2. KeepsKeys(l1, l2) => KeepsKeys(l0, l2)
    BY Zenon, <1>13 DEF KeepsKeys
  <2>3. QED BY <1>8, <1>13, <2>1, <2>2, ChapIs
<1>15. /\ lg' \in LoginState /\ lg'.creds = lg.creds /\ lg'.chap = l2.chap /\ lg'.send = l2.send
       /\ lg'.status \in {"run", "failed", "done"}
       /\ lg'.status # "done" => KeepsKeys(l0, lg')
       /\ lg'.status = "run" =>
             /\ l2.status = "run" /\ lg'.csg = (IF nsg = "stay" THEN lg.csg ELSE nsg) /\ nsg # "full"
             /\ nsg = "operational" /\ lg.csg = "security" /\ l2.chap # "off" => l2.chap = "done"
       /\ lg'.status = "done" =>
             /\ l2.status = "run" /\ lg.offered /\ lg.csg = "operational" /\ l0.pending = {}
             /\ Corrected(l0.val, lg'.val)
  <2>1. l2 \in LoginState /\ l2.creds = lg.creds /\ l2.val = l0.val /\ l2.pending = l0.pending
        /\ l2.offered = lg.offered
    BY Zenon, <1>10, <1>14 DEF KeepsKeys
  <2>2. KeepsKeys(l2, lg') => KeepsKeys(l0, lg')
    BY Zenon, <1>14 DEF KeepsKeys
  <2>3. /\ lg' \in LoginState /\ lg'.creds = l2.creds /\ lg'.chap = l2.chap /\ lg'.send = l2.send
        /\ lg'.status \in {"run", "failed", "done"}
        /\ lg'.status # "done" => KeepsKeys(l2, lg')
        /\ lg'.status = "run" =>
              /\ l2.status = "run" /\ lg'.csg = (IF nsg = "stay" THEN l2.csg ELSE nsg) /\ nsg # "full"
              /\ nsg = "operational" /\ l2.csg = "security" /\ l2.chap # "off" => l2.chap = "done"
        /\ lg'.status = "done" =>
              /\ l2.status = "run" /\ l2.offered /\ l2.csg = "operational" /\ l2.pending = {}
              /\ Corrected(l2.val, lg'.val)
    BY ONLY <1>8, <1>14, <2>1, TransitionIs, nsg \in {"stay", "operational", "full"}
  <2>4. QED BY Zenon, <1>14, <2>1, <2>2, <2>3
<1>16. lg'.status # "done" => lg'.offered = lg.offered /\ lg'.pending = l0.pending /\ lg'.val = l0.val
  BY Zenon, <1>10, <1>15 DEF KeepsKeys
<1>17. LgTyped'
  BY Zenon, <1>0, <1>7, <1>15 DEF LgTyped, NoReq
<1>18. ASSUME lg'.status = "run" PROVE NegotiationInv'
  BY <1>0, <1>6, <1>12, <1>15, <1>16, <1>18 DEF NegotiationInv, NoReq
\* What is settled about CHAP when the operational stage is reached.
<1>19. ASSUME l2.status = "run"
       PROVE  /\ l2.chap = "off" <=> lg.creds = "none"
              /\ lg.creds # "none" /\ lg.csg = "operational" => l2.chap = "done"
              /\ l2.chap \in {"awaitResult", "awaitMutual"} => "response" \in l2.send \/ tg'.accepted
              /\ l2.chap = "awaitResult" => lg.creds = "chap"
              /\ l2.chap = "done" => tg'.accepted /\ (lg.creds = "mutual" => tg'.proved)
  <2>1. lg.chap \in {"awaitResult", "awaitMutual"} => tg'.accepted
    BY Zenon, <1>0, <1>2, <1>6 DEF ChapInv
  <2>2. CASE lg.chap = "off" \/ lg.csg # "security"
    BY <1>0, <1>2, <1>6, <1>14, <2>1, <2>2 DEF ChapInv
  <2>3. CASE lg.chap # "off" /\ lg.csg = "security"
    BY Zenon, <1>0, <1>2, <1>6, <1>14, <1>19, <2>1, <2>3 DEF ChapInv, LoginState
  <2>4. QED BY Zenon, <2>2, <2>3
<1>20. ASSUME lg'.status = "run" PROVE ChapInv'
  <2>1. /\ lg'.chap = l2.chap /\ lg'.send = l2.send /\ lg'.creds = lg.creds /\ l2.status = "run"
    BY Zenon, <1>15, <1>20
  <2>2. lg.creds # "none" /\ lg'.csg = "operational" => l2.chap = "done"
    BY Zenon, <1>0, <1>15, <1>19, <1>20, <2>1 DEF LoginState
  <2>3. QED BY Zenon, <1>19, <2>1, <2>2 DEF ChapInv
<1>21. ASSUME lg'.status = "done" PROVE LoginAgrees'
  <2>1. \A k \in LoginKeys : l0.val[k] = tg'.val[k]
    BY Zenon, <1>12, <1>15, <1>21
  <2>2. /\ \A k \in LoginKeys : lg'.val[k] # tg'.val[k] =>
              \/ /\ k = "FirstBurstLength" /\ lg'.val[k] < tg'.val[k]
                 /\ lg'.val[k] = tg'.val["MaxBurstLength"]
              \/ k = "MaxOutstandingR2T" /\ tg'.val[k] = 0 /\ lg'.val[k] = 1
        /\ lg'.val["FirstBurstLength"] <= lg'.val["MaxBurstLength"]
        /\ lg'.val["MaxOutstandingR2T"] >= 1
    <3>1. "MaxBurstLength" \in LoginKeys
      BY Zenon, KeysAssumption
    <3>2. QED BY Zenon, <1>15, <1>21, <2>1, <3>1 DEF Corrected
  <2>3. QED BY Zenon, <1>15, <1>19, <1>21, <2>2 DEF LoginAgrees
<1>22. QED BY Zenon, <1>15, <1>17, <1>18, <1>20, <1>21 DEF LgInv, LoginAgrees
\* The target's response as LgNext offers it.
Response(answer, propose, limit, auth, nsg, id) ==
    /\ answer \in SUBSET LoginKeys /\ propose \in SUBSET LoginKeys
    /\ limit \in KeyLimits /\ nsg \in {"stay", "operational", "full"}
    /\ Respond(answer, propose, limit, auth, nsg, id)

\* The same, with the bounds on the response taken together.
LEMMA ResponseLg ==
    ASSUME LgInv, NEW answer, NEW propose, NEW limit, NEW auth, NEW nsg, NEW id,
           Response(answer, propose, limit, auth, nsg, id)
    PROVE  LgInv'
<1>1. /\ answer \in SUBSET LoginKeys /\ propose \in SUBSET LoginKeys
      /\ limit \in KeyLimits /\ nsg \in {"stay", "operational", "full"}
      /\ Respond(answer, propose, limit, auth, nsg, id)
  BY Zenon DEF Response
<1>2. QED BY ONLY LgInv, <1>1, RespondLg

\* The initiator's next request keeps LgInv.
LEMMA NextRequestLg == LgInv /\ nextRequest => LgInv'
<1>0. SUFFICES ASSUME LgInv, nextRequest PROVE LgInv'
  BY Zenon
<1>1. /\ LgTyped /\ lg \in LoginState /\ lg.status = "run" /\ req = NoReq /\ tg' = tg
      /\ NegotiationInv /\ ChapInv
  BY Zenon, <1>0 DEF LgInv, LgTyped, nextRequest
<1>2. CASE lg.rounds = maxLoginRounds
  <2>1. lg' = [lg EXCEPT !.status = "failed"] /\ req' = req
    BY Zenon, <1>0, <1>2 DEF nextRequest
  <2>2. lg' \in LoginState /\ lg'.status = "failed"
    BY Zenon, <1>1, <2>1, FailedIs DEF KeepsKeys
  <2>3. QED BY Zenon, <1>1, <2>1, <2>2 DEF LgInv, LgTyped, LoginAgrees
<1>3. CASE lg.rounds # maxLoginRounds
  <2>1. /\ req' = [on |-> TRUE, transit |-> ~lg.hold, offers |-> offerOperational(lg),
                   answers |-> {<<k, lg.val[k]>> : k \in lg.pending}, chap |-> lg.send]
        /\ lg' = [lg EXCEPT !.rounds = @ + 1, !.hold = FALSE, !.pending = {}, !.send = {},
                            !.offered = @ \/ lg.csg = "operational"]
    BY Zenon, <1>0, <1>3 DEF nextRequest
  <2>2. lg.rounds + 1 \in 0..maxLoginRounds
    BY <1>1, <1>3 DEF LoginState
  <2>3. /\ lg'.status = "run" /\ lg'.creds = lg.creds /\ lg'.csg = lg.csg /\ lg'.pending = {}
        /\ lg'.send = {} /\ lg'.val = lg.val /\ lg'.chap = lg.chap
        /\ lg'.offered = (lg.offered \/ lg.csg = "operational")
    BY Zenon, <1>1, <2>1 DEF LoginState
  <2>4. lg' \in LoginState
    <3>1. PICK n \in 0..maxLoginRounds, b \in BOOLEAN :
             lg' = [lg EXCEPT !.rounds = n, !.hold = FALSE, !.pending = {}, !.send = {}, !.offered = b]
      BY Zenon, <1>1, <2>1, <2>2 DEF LoginState
    <3>2. QED BY Zenon, <1>1, <3>1 DEF LoginState
  <2>5. /\ req'.on = TRUE /\ req'.chap = lg.send
        /\ req'.answers = {<<k, lg.val[k]>> : k \in lg.pending}
    BY Zenon, <2>1
  <2>6. req' \in [on : BOOLEAN, transit : BOOLEAN, offers : SUBSET LoginKeys,
                  answers : SUBSET (LoginKeys \X LoginValue), chap : SUBSET ChapText]
    <3>1. {<<k, lg.val[k]>> : k \in lg.pending} \in SUBSET (LoginKeys \X LoginValue)
      <4>1. \A k \in lg.pending : k \in LoginKeys /\ lg.val[k] \in LoginValue
        BY Zenon, <1>1 DEF LoginState
      <4>2. QED BY <4>1
    <3>2. offerOperational(lg) \in SUBSET LoginKeys
      <4>1. LoginKeys \ lg.answered \in SUBSET LoginKeys /\ {} \in SUBSET LoginKeys
        BY Zenon
      <4>2. QED BY Zenon, <4>1 DEF offerOperational
    <3>3. (~lg.hold) \in BOOLEAN /\ lg.send \in SUBSET ChapText
      BY <1>1 DEF LoginState
    <3>4. QED BY Zenon, <2>1, <3>1, <3>2, <3>3
  <2>7. LgTyped'
    BY Zenon, <1>1, <2>4, <2>5, <2>6 DEF LgTyped
  <2>8. NegotiationInv'
    <3>1. /\ lg'.csg = tg'.csg /\ (lg'.offered => lg'.csg = "operational")
          /\ \A kv \in req'.answers : kv[2] = lg'.val[kv[1]]
      <4>1. \A kv \in req'.answers : kv[2] = lg.val[kv[1]]
        BY <2>5
      <4>2. QED BY Zenon, <1>1, <2>3, <4>1 DEF NegotiationInv
    <3>2. ASSUME NEW k \in LoginKeys, \A kv \in req'.answers : kv[1] # k
          PROVE  lg'.val[k] = tg'.val[k]
      <4>1. ASSUME k \in lg.pending PROVE FALSE
        <5>1. <<k, lg.val[k]>> \in req'.answers
          BY Zenon, <2>5, <4>1
        <5>2. QED BY Zenon, <3>2, <5>1
      <4>2. QED BY <1>1, <2>3, <4>1 DEF NegotiationInv, NoReq
    <3>3. QED BY Zenon, <2>3, <3>1, <3>2 DEF NegotiationInv
  <2>9. ChapInv'
    BY <1>1, <2>3, <2>5 DEF ChapInv, NoReq
  <2>10. QED BY Zenon, <2>3, <2>7, <2>8, <2>9 DEF LgInv, LoginAgrees
<1>4. QED BY Zenon, <1>2, <1>3

\* A rejected login starts over or fails.
LEMMA RejectLg ==
    ASSUME LgInv, NEW why \in {"redirect", "noSession", "refused"}, Reject(why)
    PROVE  LgInv'
<1>1. /\ lg \in LoginState /\ lg.creds \in {"none", "chap", "mutual"}
      /\ tg' = newTarget /\ req' = NoReq
  BY Zenon DEF LgInv, LgTyped, LoginState, Reject
<1>2. lg' = newLoginState(lg.creds) \/ lg' = [lg EXCEPT !.status = "failed"]
  BY Zenon DEF Reject
<1>3. CASE lg' = [lg EXCEPT !.status = "failed"]
  <2>1. lg' \in LoginState /\ lg'.status = "failed"
    BY Zenon, <1>1, <1>3, FailedIs DEF KeepsKeys
  <2>2. rfcDefaults \in [LoginKeys -> LoginValue]
    BY Zenon, LoginValues DEF rfcDefaults
  <2>3. LgTyped'
    BY Zenon, <1>1, <2>1, <2>2 DEF LgTyped, newTarget, NoReq
  <2>4. QED BY Zenon, <2>1, <2>3 DEF LgInv, LoginAgrees
<1>4. QED BY <1>1, <1>2, <1>3, NewLogin

\* LgInv holds at the start.
LEMMA InitLg == LgInit => LgInv
<1>0. SUFFICES ASSUME LgInit PROVE LgInv
  BY Zenon
<1>1. PICK c \in {"none", "chap", "mutual"} : lg = newLoginState(c) /\ tg = newTarget /\ req = NoReq
  BY Zenon, <1>0 DEF LgInit
<1>2. rfcDefaults \in [LoginKeys -> LoginValue]
  BY Zenon, LoginValues DEF rfcDefaults
<1>3. lg \in LoginState
  BY <1>1, <1>2 DEF newLoginState, LoginState, ChapStates, ChapText
<1>4. LgTyped
  BY Zenon, <1>1, <1>2, <1>3 DEF LgTyped, newTarget, NoReq
<1>5. /\ lg.status = "run" /\ lg.csg = "security" /\ lg.offered = FALSE /\ lg.val = rfcDefaults
      /\ lg.creds = c /\ lg.chap = (IF c = "none" THEN "off" ELSE "awaitMethod")
      /\ tg.csg = "security" /\ tg.val = rfcDefaults /\ req.on = FALSE /\ req.answers = {}
  BY Zenon, <1>1 DEF newLoginState, newTarget, NoReq
<1>6. NegotiationInv
  BY Zenon, <1>5 DEF NegotiationInv
<1>7. ChapInv
  BY Zenon, <1>5 DEF ChapInv
<1>8. QED BY Zenon, <1>4, <1>5, <1>6, <1>7 DEF LgInv, LoginAgrees

\* LgInv is invariant.
LEMMA LgInvHolds == LgSpec => []LgInv
<1>1. LgInv /\ [LgNext]_lgVars => LgInv'
  <2>0. SUFFICES ASSUME LgInv, [LgNext]_lgVars PROVE LgInv'
    BY Zenon
  <2>1. CASE nextRequest
    BY Zenon, <2>0, <2>1, NextRequestLg
  <2>2. CASE req.on /\ \E answer \in SUBSET (tg.owes \cup req.offers), propose \in SUBSET MayPropose,
               limit \in KeyLimits, auth \in {{}, {"None"}, {"CHAP"}, {"challenge"}, {"proof"}},
               nsg \in {"stay", "operational", "full"}, id \in {0, 1} :
               Respond(answer, propose, limit, auth, nsg, id)
    <3>1. PICK answer \in SUBSET (tg.owes \cup req.offers), propose \in SUBSET MayPropose,
               limit \in KeyLimits, auth \in {{}, {"None"}, {"CHAP"}, {"challenge"}, {"proof"}},
               nsg \in {"stay", "operational", "full"}, id \in {0, 1} :
             Respond(answer, propose, limit, auth, nsg, id)
      BY Zenon, <2>2
    <3>2. answer \in SUBSET LoginKeys /\ propose \in SUBSET LoginKeys
      <4>1. tg.owes \subseteq LoginKeys /\ req.offers \subseteq LoginKeys /\ MayPropose \subseteq LoginKeys
        BY Zenon, <2>0 DEF LgInv, LgTyped, MayPropose
      <4>2. QED BY ONLY Zenon, <3>1, <4>1
    <3>3. Response(answer, propose, limit, auth, nsg, id)
      BY Zenon, <3>1, <3>2 DEF Response
    <3>4. QED BY Zenon, <2>0, <3>3, ResponseLg
  <2>3. CASE \E why \in {"redirect", "noSession", "refused"} : Reject(why)
    BY Zenon, <2>0, <2>3, RejectLg
  <2>4. CASE RetryLogin
    <3>1. /\ lg.creds \in {"none", "chap", "mutual"} /\ lg' = newLoginState(lg.creds)
          /\ tg' = newTarget /\ req' = NoReq
      BY Zenon, <2>0, <2>4 DEF RetryLogin, LgInv, LgTyped, LoginState
    <3>2. QED BY Zenon, <3>1, NewLogin
  <2>5. CASE UNCHANGED lgVars
    BY <2>0, <2>5 DEF lgVars, LgInv, LgTyped, NegotiationInv, ChapInv, LoginAgrees
  <2>6. CASE \E ok \in BOOLEAN : StartConnection(ok)
    <3>1. PICK v \in {"started", "failed"} : lg' = [lg EXCEPT !.status = v]
      BY Zenon, <2>6 DEF StartConnection
    <3>2. /\ lg \in LoginState /\ lg.status = "done" /\ req' = req /\ tg' = tg
      BY Zenon, <2>0, <2>6 DEF StartConnection, LgInv, LgTyped
    <3>3. lg' \in LoginState /\ lg'.status = v /\ lg'.val = lg.val /\ lg'.creds = lg.creds
      BY Zenon, <3>1, <3>2 DEF LoginState
    <3>4. LgTyped'
      BY Zenon, <2>0, <3>2, <3>3 DEF LgInv, LgTyped
    <3>5. LoginAgrees'
      BY Zenon, <2>0, <3>2, <3>3 DEF LgInv, LoginAgrees
    <3>6. QED BY Zenon, <3>1, <3>3, <3>4, <3>5 DEF LgInv
  <2>7. QED BY Zenon, <2>0, <2>1, <2>2, <2>3, <2>4, <2>5, <2>6 DEF LgNext
<1>2. QED BY <1>1, InitLg, PTL DEF LgSpec

\* A login that completes left both sides with the same parameters, but for
\* a first burst cut to the longest burst and an R2T raised from none to one
\* (login.go, finalizeNegotiated), and every configured authentication done
\* (finish, transition): for any keys, offers and limits and any number of
\* rounds, redirects, failed starts and repeated logins.
THEOREM LoginsAgree == LgSpec => []LoginAgrees
<1>1. LgInv => LoginAgrees
  BY Zenon DEF LgInv
<1>2. QED BY <1>1, LgInvHolds, PTL

\* The login state is typed: a key is only ever settled at a limit, an offer,
\* a default or one R2T (login.go, resolveKey, finalizeNegotiated), and rounds stay within
\* maxLoginRounds (nextRequest).
THEOREM LgTypeCorrect == LgSpec => []LgTypeOK
<1>1. LgInv => LgTypeOK
  BY Zenon DEF LgInv, LgTyped, LoginState, LgTypeOK
<1>2. QED BY <1>1, LgInvHolds, PTL
=============================================================================
