------------------------------ MODULE MCLoops -------------------------------
(***************************************************************************)
(* The parts of the system that keep working on their own, for TLC: the    *)
(* iSCSI sessions of the worker node, the iSCSI login, the NVMe-oF         *)
(* controllers with trim and expansion, and the readiness loops of the     *)
(* controller.  They share no state: a behaviour is one of the component   *)
(* that part names, while the others stay in an initial state.             *)
(***************************************************************************)
EXTENDS IscsiSession, IscsiLogin, NvmeHost, Readiness, TLC

VARIABLE part

LoopParts == {"session", "login", "nvme", "ready"}

\* The keys finalizeNegotiated relates, and a Boolean one of rule "or".  A
\* target may cut the longest burst below the first one, and allow no R2T.
Rules == [k \in LoginKeys |-> IF k = "InitialR2T" THEN "max" ELSE "min"]
Offers == "MaxBurstLength" :> 3 @@ "FirstBurstLength" :> 2 @@ "MaxOutstandingR2T" :> 1 @@ "InitialR2T" :> 0
Defaults == "MaxBurstLength" :> 2 @@ "FirstBurstLength" :> 1 @@ "MaxOutstandingR2T" :> 1 @@ "InitialR2T" :> 1
Choices == {"MaxBurstLength" :> 1 @@ "FirstBurstLength" :> 3 @@ "MaxOutstandingR2T" :> 0 @@ "InitialR2T" :> 0}

\* Of the initial states of a component that is not explored one is kept.
LoopsInit ==
    /\ part \in LoopParts
    /\ IsInit
    /\ LgInit /\ (part = "login" \/ lg = newLoginState("none"))
    /\ NhInit /\ (part = "nvme" \/ target = 0)
    /\ RdInit /\ (part = "ready" \/ (route = "node" /\ Serviceable))

LoopsNext ==
    \/ part = "session" /\ IsNext /\ UNCHANGED <<part, lgVars, nhVars, rdVars>>
    \/ part = "login" /\ LgNext /\ UNCHANGED <<part, isVars, nhVars, rdVars>>
    \/ part = "nvme" /\ NhNext /\ UNCHANGED <<part, isVars, lgVars, rdVars>>
    \/ part = "ready" /\ RdNext /\ UNCHANGED <<part, isVars, lgVars, nhVars>>

\* IsFairness, NhFairness and RdFairness of the component that runs.
LoopsFairness ==
    /\ WF_isVars(part = "session" /\ Supervise)
    /\ \A l \in RecoverLoops : WF_isVars(part = "session" /\ RecoverStep(l))
    /\ WF_isVars(part = "session" /\ VolumeCall /\ ~isAt(User, "idle"))
    /\ \A s \in Sids : WF_isVars(part = "session" /\ RecoveryTimesOut(s))
    /\ WF_nhVars(part = "nvme" /\ CsiStep)
    /\ WF_nhVars(part = "nvme" /\ TrimStep)
    /\ WF_nhVars(part = "nvme" /\ LimStep)
    /\ \A s \in Slots : WF_nhVars(part = "nvme" /\ ControllerRemoved(s))
                        /\ WF_nhVars(part = "nvme" /\ Connected(s))
    /\ WF_rdVars(part = "ready" /\ \E k \in Watched : Deliver(k))
    /\ \A c \in {"agent", "class"} : WF_rdVars(part = "ready" /\ TimerFires(c))
    /\ \A c \in RdControllers : WF_rdVars(part = "ready" /\ RdStep(c))

LoopsSpec == LoopsInit /\ [][LoopsNext]_<<part, isVars, lgVars, nhVars, rdVars>> /\ LoopsFairness

\* The state of every component keeps its type.
LoopsTypeOK == IsTypeOK /\ LgTypeOK /\ NhTypeOK /\ RdTypeOK

\* BrokenIsRecovered: a session that lost its connection while it carried a
\* disk is logged in again, removed, or left to a logout that started, even
\* when its event was lost or the process restarted (recovery.go, supervise).
BrokenSessionRecovers == part = "session" => BrokenIsRecovered

\* LimitApplied: devices of a target without an MDTS are capped in the end,
\* also after the target was replaced (transferLimitReconciler).
TransferLimitApplied == part = "nvme" => LimitApplied

\* ReadinessSettles: once the world stops changing, the class is Ready exactly
\* if its storage can serve it (SetupWithManager, RequeueAfter).
ClassReadinessSettles == part = "ready" => ReadinessSettles
=============================================================================
