------------------------------ MODULE Recovery ------------------------------
(***************************************************************************)
(* Moving an adopted LV from a lifecycle whose cluster is lost to a new    *)
(* one: the operator's recovery record and signed authorization, the       *)
(* controller's CreateVolume for it (internal/csi/recovery.go) and the     *)
(* agent's TransferVolumeOwnership (internal/agent/server_recovery.go).    *)
(*                                                                         *)
(* One LV, the old lifecycle and several records that want it.  The mark   *)
(* is a file: a write may fail, or be renamed into place and not synced,   *)
(* and then a power loss may undo it.  Requests of the old lifecycle, and  *)
(* transfers whose call was given up, arrive at any time.  A signature is  *)
(* what it signs: an authorization stands for its digest.  The identity    *)
(* and the preserve policy of the LV never change here.                    *)
(***************************************************************************)
EXTENDS Naturals, FiniteSets

CONSTANTS
    Heirs,            \* recovery records: UIDs of the new lifecycles
    OldLife,          \* the UID of the lost lifecycle
    NoLife,
    RecMaxGen, RecMaxFaults, RecMaxRetries

ASSUME RecAssumption == OldLife \notin Heirs /\ RecMaxFaults \in Nat /\ RecMaxRetries \in Nat

VARIABLES
    seen,      \* the mark as the agent reads it
    durable,   \* the mark a power loss cannot undo
    serves,    \* lifecycles whose export admits an initiator
    intent,    \* per record: spec.recovery and the status of the record
    grant,     \* per record: the authorization the operator signed, and expiry
    pipe,      \* per record: where its CreateVolume stands
    late,      \* transfer requests on their way to the agent
    told,      \* records whose transfer was answered as committed
    recFaults, recRetries

recVars == <<seen, durable, serves, intent, grant, pipe, late, told,
             recFaults, recRetries>>

NoTransfer == [to |-> NoLife, from |-> 0, gen |-> 0]
NoIntent == [phase |-> "absent", oldGen |-> 0, gen |-> 0]
NoGrant == [signed |-> FALSE, oldGen |-> 0, expired |-> FALSE]

\* The new generation every authorization names.
NewGeneration == 1

RecInit ==
    /\ seen = [uid |-> OldLife, gen |-> 1, ended |-> FALSE, endedUIDs |-> {},
               transfer |-> NoTransfer]
    /\ durable = seen
    /\ serves \in SUBSET {OldLife}
    /\ intent = [n \in Heirs |-> NoIntent]
    /\ grant = [n \in Heirs |-> NoGrant]
    /\ pipe = [n \in Heirs |-> "idle"]
    /\ late = {}
    /\ told = {}
    /\ recFaults = 0 /\ recRetries = 0

----------------------------------------------------------------------------
(* The mark as a file.                                                     *)

\* writeFencingMarkOutcome: durable, renamed but not synced, or not written.
WriteMark(m, how) ==
    /\ how \in {"synced", "unsynced", "failed"}
    /\ recFaults' = recFaults + (IF how = "synced" THEN 0 ELSE 1)
    /\ recFaults' <= RecMaxFaults
    /\ seen' = IF how = "failed" THEN seen ELSE m
    /\ durable' = IF how = "synced" THEN m ELSE durable

\* The storage node loses power: its exports are gone and an unsynced mark
\* may be.
PowerLoss ==
    /\ recFaults < RecMaxFaults /\ recFaults' = recFaults + 1
    /\ \E m \in {seen, durable} : seen' = m /\ durable' = m
    /\ serves' = {}
    /\ UNCHANGED <<intent, grant, pipe, late, told, recRetries>>

\* admitFencingToken for a lifecycle that acts on its own mark.
AdmitsToken(u, g) ==
    /\ seen.uid = u /\ u \notin seen.endedUIDs /\ ~seen.ended
    /\ g >= seen.gen

----------------------------------------------------------------------------
(* The old lifecycle: its controller may still send, or its requests come  *)
(* late.                                                                   *)

OldGrants(g, how) ==
    /\ AdmitsToken(OldLife, g)
    /\ WriteMark([seen EXCEPT !.gen = g], how)
    /\ serves' = IF how = "synced" THEN serves \cup {OldLife} ELSE serves
    /\ UNCHANGED <<intent, grant, pipe, late, told, recRetries>>

OldRevokes(g, how) ==
    /\ AdmitsToken(OldLife, g)
    /\ WriteMark([seen EXCEPT !.gen = g], how)
    /\ serves' = IF how = "synced" THEN serves \ {OldLife} ELSE serves
    /\ UNCHANGED <<intent, grant, pipe, late, told, recRetries>>

\* The storage administrator empties the access list without a token, the
\* supported way to stop a lost cluster's initiators.
AdminStops ==
    /\ OldLife \in serves
    /\ serves' = serves \ {OldLife}
    /\ UNCHANGED <<seen, durable, intent, grant, pipe, late, told, recFaults, recRetries>>

----------------------------------------------------------------------------
(* The operator.                                                           *)

\* A record whose spec.recovery names the owner and the generation observed.
OperatorDeclares(n) ==
    /\ intent[n].phase = "absent"
    /\ intent' = [intent EXCEPT ![n] = [phase |-> "new", oldGen |-> seen.gen, gen |-> 0]]
    /\ UNCHANGED <<seen, durable, serves, grant, pipe, late, told, recFaults, recRetries>>

\* The agent signs a snapshot for a live mark only, as the mark is now.
recoverySnapshot == {g \in {seen.gen} : ~seen.ended}

\* The operator signs the authorization that names the snapshot.
OperatorAuthorizes(n) ==
    /\ intent[n].phase # "absent" /\ ~grant[n].signed
    /\ seen.uid = OldLife /\ recoverySnapshot # {}
    /\ grant' = [grant EXCEPT ![n] = [signed |-> TRUE, oldGen |-> seen.gen, expired |-> FALSE]]
    /\ UNCHANGED <<seen, durable, serves, intent, pipe, late, told, recFaults, recRetries>>

Expire(n) ==
    /\ grant[n].signed /\ ~grant[n].expired
    /\ grant' = [grant EXCEPT ![n].expired = TRUE]
    /\ UNCHANGED <<seen, durable, serves, intent, pipe, late, told, recFaults, recRetries>>

----------------------------------------------------------------------------
(* The agent's side of the transfer.                                       *)

\* What an authorization binds, and so what its digest identifies.
AuthorizationDigest(n) == [to |-> n, from |-> grant[n].oldGen, gen |-> NewGeneration]

\* Signed by a trusted key, and within its window.
VerifyAuthorization(n) == grant[n].signed /\ ~grant[n].expired

\* The mark records this very transfer.
checkCommittedTransferRetry(n) == seen.transfer = AuthorizationDigest(n)

verifyTransferEvidenceNone == TRUE

\* What the agent reads from the kernel of its own exports.
inspectOwnExports == serves

exportAdmitsInitiators == inspectOwnExports # {}

\* The LV is idle.
verifyTransferEvidence == ~exportAdmitsInitiators

transferAdmitted(n) ==
    /\ ~seen.ended
    /\ seen.uid = OldLife
    /\ seen.gen = grant[n].oldGen
    /\ n \notin seen.endedUIDs

transferAdmittedMark(n) ==
    [uid |-> n, gen |-> NewGeneration, ended |-> FALSE,
     endedUIDs |-> seen.endedUIDs \cup {seen.uid},
     transfer |-> [to |-> n, from |-> seen.gen, gen |-> NewGeneration]]

retryUnsynced(n, how) ==
    /\ how = "synced"
    /\ UNCHANGED <<seen, durable, recFaults>>

\* The retry of a committed transfer syncs the mark again before it says so.
retryCommitted(n, how) == WriteMark(seen, how)

\* How an answer moves the call: recoveryTransfer sends an unknown outcome's
\* request once more, and reports it as unavailable the second time.
Answered(n, outcome) ==
    /\ told' = IF outcome = "committed" THEN told \cup {n} ELSE told
    /\ pipe' = [pipe EXCEPT ![n] =
         IF @ \notin {"transfer", "again"} THEN @
         ELSE CASE outcome = "committed" -> "partial"
                [] outcome = "unknown" /\ @ = "transfer" -> "resend"
                [] OTHER -> "idle"]

\* TransferVolumeOwnership.  A mark that already names the destination is
\* answered from its record, even when the authorization expired since.
TransferVolumeOwnership(n) ==
    /\ n \in late
    /\ late' = late \ {n}
    /\ \/ /\ seen.uid = n
          /\ checkCommittedTransferRetry(n)
          /\ \E how \in {"synced", "unsynced", "failed"} :
                /\ retryCommitted(n, how)
                /\ Answered(n, IF how = "synced" THEN "committed" ELSE "unknown")
       \/ /\ seen.uid # n
          /\ VerifyAuthorization(n)
          /\ transferAdmitted(n)
          /\ verifyTransferEvidence
          /\ \E how \in {"synced", "unsynced", "failed"} :
                /\ WriteMark(transferAdmittedMark(n), how)
                /\ Answered(n, CASE how = "synced" -> "committed"
                                 [] how = "unsynced" -> "unknown"
                                 [] OTHER -> "error")
       \/ /\ IF seen.uid = n THEN ~checkCommittedTransferRetry(n)
             ELSE ~VerifyAuthorization(n) \/ ~transferAdmitted(n) \/ ~verifyTransferEvidence
          /\ Answered(n, "error")
          /\ UNCHANGED <<seen, durable, recFaults>>
    /\ UNCHANGED <<serves, intent, grant, recRetries>>

----------------------------------------------------------------------------
(* CreateVolume of a recovery record.                                      *)

\* The declared generation is the record's first; a retry finds it recorded.
adoptRecoveryPhase(i) ==
    IF i.phase = "new" THEN [i EXCEPT !.phase = "RecoveryPending", !.gen = NewGeneration]
    ELSE i

adoptRecoveryIntent(n) ==
    /\ pipe[n] = "idle"
    /\ intent[n].phase \in {"new", "RecoveryPending", "CreatePartial"}
    /\ recRetries < RecMaxRetries /\ recRetries' = recRetries + 1
    /\ intent' = [intent EXCEPT ![n] = adoptRecoveryPhase(@)]
    /\ pipe' = [pipe EXCEPT ![n] = "inspect"]
    /\ UNCHANGED <<seen, durable, serves, grant, late, told, recFaults>>

\* markTransferredTo: what the agent reports names this lifecycle and the
\* declared transfer.
markTransferredTo(n) ==
    /\ seen.uid = n /\ seen.gen >= NewGeneration /\ ~seen.ended
    /\ OldLife \in seen.endedUIDs
    /\ seen.transfer = [to |-> n, from |-> intent[n].oldGen, gen |-> NewGeneration]

\* The controller asks for what the record declares, while the window is open.
recoveryMatchesIntent(n) == grant[n].oldGen = intent[n].oldGen
recoveryValidityWindow(n) == ~grant[n].expired
recoveryAuthorization(n) ==
    grant[n].signed /\ recoveryMatchesIntent(n) /\ recoveryValidityWindow(n)

\* The signed snapshot showed the generation the record declares.
verifyRecoverySnapshot(n) == grant[n].oldGen = intent[n].oldGen

\* Still the old lifecycle at that generation, and idle.
verifyLiveRecoveryMark(n) == seen.uid = OldLife /\ seen.gen = intent[n].oldGen
recoveryAdmittingExportCount == Cardinality(inspectOwnExports)
verifyRecoveryObservation(n) == recoveryAdmittingExportCount = 0

\* The request leaves when everything declared, signed and observed agrees.
transferRecoveredVolume(n) ==
    /\ recoveryAuthorization(n)
    /\ verifyRecoverySnapshot(n)
    /\ verifyLiveRecoveryMark(n)
    /\ verifyRecoveryObservation(n)

\* recoverVolume inspects, and transfers unless the mark says it happened.
recoverVolume(n) ==
    /\ pipe[n] = "inspect"
    /\ \/ /\ markTransferredTo(n)
          /\ pipe' = [pipe EXCEPT ![n] = "partial"]
          /\ UNCHANGED late
       \/ /\ ~markTransferredTo(n)
          /\ transferRecoveredVolume(n)
          /\ pipe' = [pipe EXCEPT ![n] = "transfer"]
          /\ late' = late \cup {n}
    /\ UNCHANGED <<seen, durable, serves, intent, grant, told, recFaults, recRetries>>

recoveryTransfer(n) ==
    /\ pipe[n] = "resend"
    /\ pipe' = [pipe EXCEPT ![n] = "again"]
    /\ late' = late \cup {n}
    /\ UNCHANGED <<seen, durable, serves, intent, grant, told, recFaults, recRetries>>

persistCreatePartial(n) ==
    /\ pipe[n] = "partial"
    /\ intent' = [intent EXCEPT ![n].phase = "CreatePartial"]
    /\ pipe' = [pipe EXCEPT ![n] = "export"]
    /\ UNCHANGED <<seen, durable, serves, grant, late, told, recFaults, recRetries>>

\* claimOperation issues a newer generation; ExportVolume is admitted under
\* the mark or the call ends, and a Ready record may serve.
exportRecovered(n, how) ==
    /\ pipe[n] = "export"
    /\ intent[n].gen < RecMaxGen
    /\ pipe' = [pipe EXCEPT ![n] = "idle"]
    /\ LET g == intent[n].gen + 1 IN
       IF AdmitsToken(n, g)
       THEN /\ WriteMark([seen EXCEPT !.gen = g], how)
            /\ intent' = [intent EXCEPT ![n].gen = g,
                            ![n].phase = IF how = "synced" THEN "Ready" ELSE @]
       ELSE /\ how = "synced"
            /\ intent' = [intent EXCEPT ![n].gen = g]
            /\ UNCHANGED <<seen, durable, recFaults>>
    /\ UNCHANGED <<serves, grant, late, told, recRetries>>

\* No publication before the recovered volume has been exported.
refuseRecoveryPending(n) == intent[n].phase = "Ready"

publishRecovered(n, how) ==
    /\ refuseRecoveryPending(n) /\ intent[n].gen < RecMaxGen
    /\ n \notin serves
    /\ intent' = [intent EXCEPT ![n].gen = @ + 1]
    /\ AdmitsToken(n, intent[n].gen + 1)
    /\ WriteMark([seen EXCEPT !.gen = intent[n].gen + 1], how)
    /\ serves' = IF how = "synced" THEN serves \cup {n} ELSE serves
    /\ UNCHANGED <<grant, pipe, late, told, recRetries>>

\* The call times out; its request may still be on the way.
GiveUp(n) ==
    /\ pipe[n] # "idle"
    /\ pipe' = [pipe EXCEPT ![n] = "idle"]
    /\ UNCHANGED <<seen, durable, serves, intent, grant, late, told, recFaults, recRetries>>

RecNext ==
    \/ PowerLoss
    \/ AdminStops
    \/ \E g \in 1..2, how \in {"synced", "unsynced", "failed"} :
          OldGrants(g, how) \/ OldRevokes(g, how)
    \/ \E n \in Heirs :
          \/ OperatorDeclares(n)
          \/ OperatorAuthorizes(n)
          \/ Expire(n)
          \/ TransferVolumeOwnership(n)
          \/ adoptRecoveryIntent(n)
          \/ recoverVolume(n)
          \/ recoveryTransfer(n)
          \/ persistCreatePartial(n)
          \/ GiveUp(n)
          \/ \E how \in {"synced", "unsynced", "failed"} :
                exportRecovered(n, how) \/ publishRecovered(n, how)

RecSpec == RecInit /\ [][RecNext]_recVars

RecTypeOK ==
    /\ seen.uid \in Heirs \cup {OldLife} /\ durable.uid \in Heirs \cup {OldLife}
    /\ serves \subseteq Heirs \cup {OldLife}
    /\ late \subseteq Heirs /\ told \subseteq Heirs
    /\ recFaults \in 0..RecMaxFaults /\ recRetries \in 0..RecMaxRetries

\* At no time do two lifecycles admit initiators to the LV, whatever request
\* of the lost cluster, retry of a transfer or power loss comes between: a
\* transfer finds the old initiators stopped and retires their lifecycle for
\* good (TransferVolumeOwnership: "a live observation must prove the LV
\* idle").
OneClusterServes == Cardinality(serves) <= 1

\* What was answered as COMMITTED or ALREADY_COMMITTED stays committed: after
\* any power loss the mark still belongs to a lifecycle that was told so
\* (TransferVolumeOwnership: "Re-sync the visible mark before acknowledging
\* ALREADY_COMMITTED").
AnsweredIsDurable == told # {} => durable.uid \in told

\* A forced recovery hands a volume to one cluster only, and answers success
\* only for a transfer that a power loss cannot undo (server_recovery.go,
\* recovery.go).
RecoveryIsSafe == OneClusterServes /\ AnsweredIsDurable

\* A transfer that is on disk is final: no request of the lost cluster, no
\* authorization of another record, no retry and no power loss moves the LV on
\* (transferAdmittedMark retires the old lifecycle in the mark itself).
TransferIsFinal == [][durable.uid # OldLife => durable'.uid = durable.uid]_recVars

\* persistCreatePartial of a recovery comes after "The transfer is durable".
PartialIsDurable ==
    \A n \in Heirs : intent[n].phase = "CreatePartial" => durable.uid # OldLife

=============================================================================
