----------------------------- MODULE NfsExports -----------------------------
(***************************************************************************)
(* NFS export admission on one storage node: nfs.Manager and the kernel    *)
(* runtime it owns (internal/agent/nfs), and the RPCs that drive it for    *)
(* managed datasets (protocol_handler_nfs.go) and for adopted filesystems, *)
(* which the agent binds to a proxy directory of its own                   *)
(* (server_filesystem.go, filesystem_proxy.go, filesystem_activation.go).  *)
(*                                                                         *)
(* A call holds the fencing lock of its volume, so calls of two volumes    *)
(* interleave; inside the manager they exclude each other with Manager.mu. *)
(* Every durable write, every exportfs run and every wait for the lock is  *)
(* a step of its own, so that the agent may die between any two.  Token    *)
(* admission is FencedAgent's subject: here a lifecycle is live or not.    *)
(***************************************************************************)
EXTENDS Naturals, Sequences

CONSTANTS
    NfVolumes,     \* volumes with an NFS export
    NfAdopted,     \* the ones that are adopted filesystems
    NfClients,     \* client addresses
    NfOpen,        \* volumes a call may export without an ACL
    NfMaxCalls, NfMaxFaults, NfMaxBoots

ASSUME NfAssumption == NfAdopted \subseteq NfVolumes /\ NfOpen \subseteq NfVolumes

VARIABLES
    owner,      \* owner.json: the desired exports, the ledger, our boot or not
    mgr,        \* Manager: its copy of owner.json and what it knows of itself
    mu,         \* the call that holds Manager.mu
    etab,       \* the admission table: pairs of a volume and a client
    nfsd,       \* kernel threads are running
    helper,     \* rpc.mountd and nfsdcld: none, up, or left by a dead agent
    exportDir,      \* the directory of each export: none, dir or mounted
    fsMark,     \* the durable fencing mark of each adopted filesystem
    fsNext,     \* the mark in the hands of the running call
    nfOp,       \* the running call of each volume
    todo,       \* the steps it has still to take
    withdrawn,  \* pairs whose withdrawal was answered and not granted since
    nfCalls, nfFaults, nfBoots

nfVars == <<owner, mgr, mu, etab, nfsd, helper, exportDir, fsMark, fsNext, nfOp, todo,
            withdrawn, nfCalls, nfFaults, nfBoots>>

NfRoot == "root"   \* the pseudoroot, exported to everyone with an export
NfAny == "*"
NfNobody == "nobody"

(***************************************************************************)
(* Exports and what owns them.                                             *)
(***************************************************************************)
NoExport == [on |-> FALSE, acl |-> TRUE, clients |-> {}]

\* Without an ACL the list of clients is dropped.
normalized(e) == [e EXCEPT !.clients = IF e.acl THEN @ ELSE {}]

clients(e) == IF ~e.on THEN {} ELSE IF e.acl THEN e.clients ELSE {NfAny}
Admissions(v, e) == {v} \X clients(e)

\* updateRoot: the clients of every export that is not known to be broken.
rootClients(desired, errs) ==
    LET live == {v \in NfVolumes : desired[v].on /\ v \notin errs}
    IN  IF \E v \in live : ~desired[v].acl THEN {NfAny}
        ELSE UNION {desired[v].clients : v \in live}
updateRoot(m) ==
    LET r == rootClients(m.desired, m.errs)
    IN  [m EXCEPT !.root = r, !.ledger = @ \cup ({NfRoot} \X r)]

\* exportfs and the table it keeps.
list == etab
nfGrant(row) == etab' = list \cup {row}
revoke(row) == etab' = list \ {row}

\* A row belongs to the manager when its ledger, not its policy, names it.
owned == {row \in list : row \in mgr.ledger}

rebuildLedger(m) ==
    [m EXCEPT !.ledger =
        UNION {Admissions(v, m.desired[v]) : v \in NfVolumes \ m.errs}
          \cup ({NfRoot} \X m.root)]

NfNoMark == [live |-> FALSE, exported |-> FALSE, open |-> FALSE, clients |-> {},
           claimed |-> FALSE, local |-> FALSE]
NewManager(here) ==
    [desired |-> [v \in NfVolumes |-> NoExport], root |-> {}, ledger |-> {},
     here |-> here, pid |-> FALSE, errs |-> {}, wanted |-> {}, started |-> FALSE,
     failed |-> FALSE, claimed |-> FALSE]
NfIdle == [rpc |-> "none", client |-> NfNobody, acl |-> TRUE, exact |-> FALSE,
           clients |-> {}, was |-> FALSE, ok |-> FALSE]

NfInit ==
    /\ owner = [desired |-> [v \in NfVolumes |-> NoExport], ledger |-> {},
                here |-> FALSE, pid |-> FALSE]
    /\ mgr = NewManager(FALSE)
    /\ mu = NfNobody
    /\ etab = {} /\ nfsd = FALSE /\ helper = "none"
    /\ exportDir = [v \in NfVolumes |-> IF v \in NfAdopted THEN "none" ELSE "mounted"]
    /\ fsMark = [v \in NfAdopted |-> NfNoMark]
    /\ fsNext = [v \in NfAdopted |-> NfNoMark]
    /\ nfOp = [v \in NfVolumes |-> NfIdle]
    /\ todo = [v \in NfVolumes |-> <<>>]
    /\ withdrawn = {}
    /\ nfCalls = 0 /\ nfFaults = 0 /\ nfBoots = 1

(***************************************************************************)
(* The calls as sequences of steps.                                        *)
(***************************************************************************)
converge == <<"plan", "persist", "revoke", "grant", "verify", "persist">>
runtimeStart == <<"boot", "save", "listen", "helpers", "save", "serve">>
startLocked == <<"load", "prune", "save">> \o runtimeStart \o <<"save", "started">>
                 \o converge \o <<"unlock">>
Put == <<"validate", "start", "lock", "put", "persist">> \o converge \o <<"done">>
rejectExport == <<"lock", "recheck">> \o converge \o <<"unlock", "error">>
ChangeClient == <<"start", "lock", "change", "persist", "settle", "done">>
Remove == <<"start", "lock", "remove", "persist", "settle", "done">>

\* The durable bound of what is published grows first and shrinks last.
exportFilesystem == <<"proxy", "grow", "mark">> \o Put \o <<"shrink", "mark">>
\* ReconcileState first mounts the proxy again, under a fence of its own.
reconcileFilesystem == <<"proxy", "mark">>
rollbackFilesystemExport == Remove \o <<"unproxy", "clear", "mark">>
unexportFilesystem == Remove \o <<"unproxy", "clear", "mark">>
changeFilesystemClient == <<"proxy", "bound", "mark">> \o ChangeClient \o <<"mark">>
denyFilesystemClient == ChangeClient \o <<"unbound", "mark">>
localFilesystem(local) ==
    IF local THEN <<"proxy", "attach", "mark">> ELSE <<"unproxy", "detach", "mark">>
releaseFilesystem == Remove \o <<"unproxy", "clear", "mark", "retire">>

NfSteps(v, rpc, exact) ==
    IF rpc = "start" THEN <<"start">>
    ELSE IF v \notin NfAdopted
    THEN CASE rpc = "export"   -> Put
           [] rpc = "unexport" -> Remove
           [] OTHER            -> ChangeClient
    ELSE CASE rpc = "import"   -> <<"pin", "mark">>
           [] rpc = "restore"  -> reconcileFilesystem
           [] rpc = "export"   -> (IF exact THEN reconcileFilesystem ELSE <<>>)
                                    \o exportFilesystem
           [] rpc = "unexport" -> unexportFilesystem
           [] rpc = "allow"    -> changeFilesystemClient
           [] rpc = "deny"     -> denyFilesystemClient
           [] rpc = "local"    -> localFilesystem(TRUE)
           [] rpc = "remote"   -> localFilesystem(FALSE)
           [] rpc = "release"  -> releaseFilesystem

\* What a call may admit again from the moment it is sent.
Regranted(v, op) ==
    {v} \X CASE op.rpc = "allow" -> {op.client}
             [] op.rpc = "export" /\ ~op.acl -> NfClients \cup {NfAny}
             [] op.rpc = "export" /\ op.acl -> op.clients
             [] OTHER -> {}

NfBegin(v, op) ==
    /\ nfOp[v].rpc = "none" /\ nfCalls < NfMaxCalls
    /\ nfOp' = [nfOp EXCEPT ![v] = op]
    /\ todo' = [todo EXCEPT ![v] = NfSteps(v, op.rpc, op.exact) \o <<"answer">>]
    /\ fsNext' = IF v \in NfAdopted THEN [fsNext EXCEPT ![v] = fsMark[v]] ELSE fsNext
    /\ withdrawn' = withdrawn \ Regranted(v, op)
    /\ nfCalls' = nfCalls + 1
    /\ UNCHANGED <<owner, mgr, mu, etab, nfsd, helper, exportDir, fsMark, nfFaults, nfBoots>>

\* A grant needs an imported, live lifecycle; a revocation of anything else
\* is answered at once and changes nothing.
filesystemOperationState(v, rpc) ==
    v \in NfAdopted /\ rpc # "import" => fsMark[v].live

\* ExportVolume keeps the clients it finds; ReconcileState (exact) replaces them.
NfExport(v, acl, exact, cs) ==
    /\ filesystemOperationState(v, "export")
    /\ ~acl => v \in NfOpen
    /\ ~exact => cs = {}
    /\ NfBegin(v, [NfIdle EXCEPT !.rpc = "export", !.acl = acl, !.exact = exact,
                   !.clients = cs,
                   !.was = v \in NfAdopted /\ fsMark[v].exported])

NfUnexport(v) ==
    /\ filesystemOperationState(v, "unexport")
    /\ NfBegin(v, [NfIdle EXCEPT !.rpc = "unexport"])

\* changeFilesystemClient refuses a filesystem that is not exported.
NfAllow(v, c) ==
    /\ filesystemOperationState(v, "allow")
    /\ v \in NfAdopted => fsMark[v].exported
    /\ NfBegin(v, [NfIdle EXCEPT !.rpc = "allow", !.client = c])

NfDeny(v, c) ==
    /\ filesystemOperationState(v, "deny")
    /\ NfBegin(v, [NfIdle EXCEPT !.rpc = "deny", !.client = c])

\* The agent starts the manager when it comes up.
NfStart(v) ==
    /\ ~mgr.started
    /\ NfBegin(v, [NfIdle EXCEPT !.rpc = "start"])

NfImport(v) ==
    /\ ~fsMark[v].live
    /\ NfBegin(v, [NfIdle EXCEPT !.rpc = "import"])

NfLocal(v, local) ==
    /\ filesystemOperationState(v, "local")
    /\ NfBegin(v, [NfIdle EXCEPT !.rpc = IF local THEN "local" ELSE "remote"])

\* ReconcileState of a filesystem that is only attached locally.
NfRestore(v) ==
    /\ filesystemOperationState(v, "restore")
    /\ fsMark[v].local
    /\ NfBegin(v, [NfIdle EXCEPT !.rpc = "restore"])

\* releaseFilesystemMutation: deleting refuses a published filesystem.
NfRelease(v, deleting) ==
    /\ filesystemOperationState(v, "release")
    /\ ~fsMark[v].local
    /\ deleting => ~fsMark[v].open /\ fsMark[v].clients = {}
    /\ NfBegin(v, [NfIdle EXCEPT !.rpc = "release"])

(***************************************************************************)
(* How a step continues.                                                   *)
(***************************************************************************)
NfAt(v, step) == todo[v] # <<>> /\ Head(todo[v]) = step
Continue(v) == todo' = [todo EXCEPT ![v] = Tail(@)] /\ UNCHANGED nfOp
Replace(v, steps) == todo' = [todo EXCEPT ![v] = steps] /\ UNCHANGED nfOp
Fault == nfFaults < NfMaxFaults /\ nfFaults' = nfFaults + 1
NoFault == UNCHANGED nfFaults

\* The steps of the call from one of them on, if it has that step before it.
From(v, step) ==
    LET at == {i \in DOMAIN todo[v] : todo[v][i] = step}
    IN  IF at = {} THEN <<>>
        ELSE SubSeq(todo[v], CHOOSE i \in at : \A j \in at : i <= j, Len(todo[v]))

\* A withdrawal goes on after a start that failed but left us the owner.
withdrawing(v) == nfOp[v].rpc \in {"deny", "unexport", "release", "rollback"}
AfterFailure(v) ==
    IF withdrawing(v) /\ From(v, "lock") # <<>> /\ mgr.started
    THEN From(v, "lock") ELSE <<"error">>

FailClosed(v) == Replace(v, <<"failClosed">> \o AfterFailure(v))
FailStart(v) == Replace(v, <<"failStart", "error">>)
Refuse(v) == Replace(v, <<"unlock", "error">>)

\* A call that failed.  A first export of an adopted filesystem is rolled
\* back, a later one leaves what was published before it alone.
NfError(v) ==
    /\ NfAt(v, "error")
    /\ IF v \in NfAdopted /\ nfOp[v].rpc = "export" /\ ~nfOp[v].was
       THEN /\ nfOp' = [nfOp EXCEPT ![v].rpc = "rollback"]
            /\ todo' = [todo EXCEPT ![v] = rollbackFilesystemExport \o <<"answer">>]
       ELSE /\ nfOp' = [nfOp EXCEPT ![v] = NfIdle]
            /\ todo' = [todo EXCEPT ![v] = <<>>]
    /\ UNCHANGED <<owner, mgr, mu, etab, nfsd, helper, exportDir, fsMark, fsNext, withdrawn,
                   nfCalls, nfFaults, nfBoots>>
Abort(v) ==
    /\ nfOp' = [nfOp EXCEPT ![v] = NfIdle]
    /\ todo' = [todo EXCEPT ![v] = <<>>]

nfRest == <<exportDir, fsMark, fsNext, withdrawn, nfCalls, nfBoots>>

(***************************************************************************)
(* The manager's lock and its start.                                       *)
(***************************************************************************)
Lock(v) ==
    /\ NfAt(v, "lock") /\ mu = NfNobody
    /\ mu' = v /\ Continue(v)
    /\ UNCHANGED <<owner, mgr, etab, nfsd, helper, nfFaults, nfRest>>

Unlock(v) ==
    /\ NfAt(v, "unlock")
    /\ mu' = NfNobody /\ Continue(v)
    /\ UNCHANGED <<owner, mgr, etab, nfsd, helper, nfFaults, nfRest>>

\* Put and an allowed client report an export that could not be activated.
Done(v) ==
    /\ NfAt(v, "done")
    /\ mu' = NfNobody
    /\ IF ~withdrawing(v) /\ v \in mgr.errs THEN Replace(v, <<"error">>) ELSE Continue(v)
    /\ UNCHANGED <<owner, mgr, etab, nfsd, helper, nfFaults, nfRest>>

\* healthLocked: the helpers, the threads and the listener are as we left them.
healthLocked == mgr.started /\ ~mgr.failed /\ nfsd /\ helper = "up"

Start(v) ==
    /\ NfAt(v, "start") /\ mu = NfNobody
    /\ \/ /\ healthLocked \/ (mgr.started /\ withdrawing(v))
          /\ Continue(v) /\ UNCHANGED mu
       \/ /\ mgr.failed \/ (mgr.started /\ ~healthLocked)
          /\ ~(mgr.started /\ withdrawing(v))
          /\ Replace(v, <<"error">>) /\ UNCHANGED mu
       \/ /\ ~mgr.started /\ ~mgr.failed
          /\ mu' = v
          /\ Replace(v, startLocked \o Tail(todo[v]))
    /\ UNCHANGED <<owner, mgr, etab, nfsd, helper, nfFaults, nfRest>>

\* ValidateFilesystemExport and runtime.validateExport: the directory is
\* mounted, and an adopted filesystem's mark still says it is exported.
ValidateFilesystemExport(v) == fsMark[v].live /\ fsMark[v].exported
beforeActivate(v) == v \in NfAdopted => ValidateFilesystemExport(v)
validateExport(v) == exportDir[v] = "mounted"

desiredEntriesUnowned(m) ==
    LET active == {v \in NfVolumes : m.desired[v].on}
        errs == {v \in active : ~(validateExport(v) /\ beforeActivate(v))}
        rows == UNION {Admissions(v, m.desired[v]) : v \in active \ errs}
        next == updateRoot([m EXCEPT !.errs = errs])
    IN  [next EXCEPT !.wanted = rows \cup ({NfRoot} \X next.root)]

\* desiredEntries: what should be admitted.  A broken export is left out and
\* remembered; one that is not re-enters the ledger before it is granted.
desiredEntries(m) ==
    LET active == {v \in NfVolumes : m.desired[v].on}
        errs == {v \in active : ~(validateExport(v) /\ beforeActivate(v))}
        rows == UNION {Admissions(v, m.desired[v]) : v \in active \ errs}
        next == updateRoot([m EXCEPT !.errs = errs, !.ledger = @ \cup rows])
    IN  [next EXCEPT !.wanted = rows \cup ({NfRoot} \X next.root)]

\* preflightActivation: an adopted export is recorded, or was granted.
guarded ==
    \E w \in NfAdopted :
        owner.desired[w].on \/ \E c \in NfClients \cup {NfAny} : <<w, c>> \in owner.ledger

loadState ==
    updateRoot([mgr EXCEPT !.desired = owner.desired, !.ledger = owner.ledger,
                           !.here = owner.here, !.pid = owner.pid])

Load(v) ==
    LET loaded == loadState
    IN  /\ NfAt(v, "load")
        /\ IF guarded THEN mgr' = desiredEntries(loaded) /\ Continue(v)
                      ELSE mgr' = loaded /\ Replace(v, From(v, "boot"))
        /\ UNCHANGED <<owner, mu, etab, nfsd, helper, nfFaults, nfRest>>

Prune(v) ==
    /\ NfAt(v, "prune")
    /\ \/ /\ owned \subseteq mgr.wanted
          /\ mgr' = rebuildLedger(mgr) /\ Continue(v) /\ NoFault /\ UNCHANGED etab
       \/ /\ \E row \in owned \ mgr.wanted : revoke(row)
          /\ NoFault /\ UNCHANGED <<mgr, todo, nfOp>>
       \/ /\ ~(owned \subseteq mgr.wanted)
          /\ Fault /\ FailStart(v) /\ UNCHANGED <<mgr, etab>>
    /\ UNCHANGED <<owner, mu, nfsd, helper, nfRest>>

\* persist replaces owner.json; when it fails the old file or the new one
\* is there.
Written == [desired |-> mgr.desired, ledger |-> mgr.ledger,
            here |-> mgr.here, pid |-> mgr.pid]

Save(v) ==
    /\ NfAt(v, "save")
    /\ \/ owner' = Written /\ Continue(v) /\ NoFault
       \/ owner' \in {owner, Written} /\ Fault /\ FailStart(v)
    /\ UNCHANGED <<mgr, mu, etab, nfsd, helper, nfRest>>

\* runtime.start up to its claim.  A helper of a dead agent is stopped when
\* owner.json names it and is foreign when it does not; no row of the table
\* and no listener may be foreign either.
checkDaemons == helper = "stale" => mgr.here /\ mgr.pid
stopOwnedDaemon == helper' = "none"
prepareKernel == mgr.here \/ ~nfsd
verifyExports == list \subseteq mgr.ledger
Boot(v) ==
    /\ NfAt(v, "boot")
    /\ IF checkDaemons THEN stopOwnedDaemon ELSE UNCHANGED helper
    /\ IF checkDaemons /\ prepareKernel /\ verifyExports
       THEN mgr' = [mgr EXCEPT !.here = TRUE, !.pid = FALSE] /\ Continue(v)
       ELSE FailStart(v) /\ UNCHANGED mgr
    /\ UNCHANGED <<owner, mu, etab, nfsd, nfFaults, nfRest>>

\* The server is ours from here on: its versions and its listener.
Listen(v) ==
    /\ NfAt(v, "listen")
    /\ mgr' = [mgr EXCEPT !.claimed = TRUE]
    /\ \/ Continue(v) /\ NoFault
       \/ Fault /\ FailStart(v)
    /\ UNCHANGED <<owner, mu, etab, nfsd, helper, nfRest>>

\* A helper runs before owner.json can name it.
startHelper(v) ==
    /\ NfAt(v, "helpers")
    /\ helper' = "up"
    /\ mgr' = [mgr EXCEPT !.pid = TRUE]
    /\ \/ Continue(v) /\ NoFault
       \/ Fault /\ FailStart(v)
    /\ UNCHANGED <<owner, mu, etab, nfsd, nfRest>>

\* startHelpers goes on once the helpers listen, with the kernel threads.
Serve(v) ==
    /\ NfAt(v, "serve")
    /\ \/ helper = "up" /\ nfsd' = TRUE /\ Continue(v) /\ NoFault
       \/ helper = "up" /\ Fault /\ FailStart(v) /\ UNCHANGED nfsd
       \/ helper # "up" /\ FailStart(v) /\ UNCHANGED <<nfsd, nfFaults>>
    /\ UNCHANGED <<owner, mgr, mu, etab, helper, nfRest>>

Started(v) ==
    /\ NfAt(v, "started")
    /\ mgr' = [mgr EXCEPT !.started = TRUE]
    /\ Continue(v)
    /\ UNCHANGED <<owner, mu, etab, nfsd, helper, nfFaults, nfRest>>

\* runtime.close: it stops the helpers, and the server if it has claimed it.
RuntimeClose(m) ==
    /\ helper' = IF helper = "up" THEN "none" ELSE helper
    /\ IF m.claimed THEN mgr' = [m EXCEPT !.claimed = FALSE] /\ nfsd' = FALSE
                    ELSE mgr' = m /\ UNCHANGED nfsd
RuntimeStuck(m) == mgr' = m /\ UNCHANGED <<nfsd, helper>>

\* A helper that exited meanwhile is a failure for good.
FailStartStep(v) ==
    /\ NfAt(v, "failStart")
    /\ LET m == [mgr EXCEPT !.failed = mgr.pid /\ helper = "none"]
       IN  \/ RuntimeClose(m) /\ NoFault
           \/ mgr.claimed /\ Fault /\ RuntimeStuck(m)
    /\ mu' = NfNobody /\ Continue(v)
    /\ UNCHANGED <<owner, etab, nfRest>>

(***************************************************************************)
(* Convergence.                                                            *)
(***************************************************************************)
Plan(v) ==
    /\ NfAt(v, "plan")
    /\ \/ mgr' = desiredEntries(mgr) /\ Continue(v) /\ NoFault
       \/ Fault /\ FailClosed(v) /\ UNCHANGED mgr
    /\ UNCHANGED <<owner, mu, etab, nfsd, helper, nfRest>>

Persist(v) ==
    /\ NfAt(v, "persist")
    /\ \/ owner' = Written /\ Continue(v) /\ NoFault
       \/ owner' \in {owner, Written} /\ Fault /\ FailClosed(v)
    /\ UNCHANGED <<mgr, mu, etab, nfsd, helper, nfRest>>

revokeObsolete(v) ==
    /\ NfAt(v, "revoke")
    /\ \/ owned \subseteq mgr.wanted /\ Continue(v) /\ NoFault /\ UNCHANGED etab
       \/ /\ \E row \in owned \ mgr.wanted : revoke(row)
          /\ NoFault /\ UNCHANGED <<todo, nfOp>>
       \/ ~(owned \subseteq mgr.wanted) /\ Fault /\ FailClosed(v) /\ UNCHANGED etab
    /\ UNCHANGED <<owner, mgr, mu, nfsd, helper, nfRest>>

\* runtime.grant validates the directory once more before exportfs runs.
grantDesired(v) ==
    /\ NfAt(v, "grant")
    /\ \/ mgr.wanted \subseteq etab /\ Continue(v) /\ NoFault /\ UNCHANGED etab
       \/ \E row \in mgr.wanted \ etab :
             IF row[1] = NfRoot \/ validateExport(row[1])
             THEN nfGrant(row) /\ NoFault /\ UNCHANGED <<todo, nfOp>>
             ELSE FailClosed(v) /\ NoFault /\ UNCHANGED etab
       \/ ~(mgr.wanted \subseteq etab) /\ Fault /\ FailClosed(v) /\ UNCHANGED etab
    /\ UNCHANGED <<owner, mgr, mu, nfsd, helper, nfRest>>

verifyAdmissions(v) ==
    /\ NfAt(v, "verify")
    /\ IF etab = mgr.wanted /\ etab \subseteq mgr.ledger /\ healthLocked
       THEN mgr' = rebuildLedger(mgr) /\ Continue(v)
       ELSE FailClosed(v) /\ UNCHANGED mgr
    /\ UNCHANGED <<owner, mu, etab, nfsd, helper, nfFaults, nfRest>>

\* failClosed: every owned row is revoked and the server stops; a run of
\* exportfs or the stop itself may fail, and what it left stays.
Withdraw(m) ==
    \/ etab' = etab \ owned /\ RuntimeClose(m) /\ NoFault
    \/ \E stuck \in SUBSET owned :
          /\ etab' = (etab \ owned) \cup stuck /\ Fault
          /\ RuntimeClose(m) \/ RuntimeStuck(m)

failClosed(v) ==
    /\ NfAt(v, "failClosed")
    /\ Withdraw([mgr EXCEPT !.failed = TRUE])
    /\ mu' = NfNobody /\ Continue(v)
    /\ UNCHANGED <<owner, nfRest>>

\* A helper exits on its own, and the goroutine that waits for it reports it.
HelperDies ==
    /\ helper = "up" /\ helper' = "none" /\ Fault
    /\ UNCHANGED <<owner, mgr, mu, etab, nfsd, nfOp, todo, nfRest>>

daemonFailed ==
    /\ mu = NfNobody /\ mgr.started /\ ~mgr.failed /\ helper = "none"
    /\ Withdraw([mgr EXCEPT !.failed = TRUE])
    /\ UNCHANGED <<owner, mu, nfOp, todo, nfRest>>

(***************************************************************************)
(* The manager's operations, under its lock.                               *)
(***************************************************************************)
\* Before the lock: a directory that cannot be exported.
ValidatePut(v) ==
    /\ NfAt(v, "validate")
    /\ IF validateExport(v) THEN Continue(v) ELSE Replace(v, rejectExport)
    /\ UNCHANGED <<owner, mgr, mu, etab, nfsd, helper, nfFaults, nfRest>>

\* rejectExport re-applies the recorded policy when there is one.
Recheck(v) ==
    /\ NfAt(v, "recheck")
    /\ IF mgr.desired[v].on /\ healthLocked THEN Continue(v) ELSE Refuse(v)
    /\ UNCHANGED <<owner, mgr, mu, etab, nfsd, helper, nfFaults, nfRest>>

\* Records the export e and its ownership; the next step makes them durable.
Desire(v, e) ==
    mgr' = updateRoot([mgr EXCEPT !.desired[v] = e, !.ledger = @ \cup Admissions(v, e)])

\* putPolicy: an ordinary export keeps the clients that are recorded.
putPolicy(v) ==
    LET old == mgr.desired[v]
        asked == IF nfOp[v].exact \/ v \notin NfAdopted THEN nfOp[v].clients
                 ELSE fsNext[v].clients
    IN  [on |-> TRUE, acl |-> nfOp[v].acl,
         clients |-> IF ~nfOp[v].exact /\ old.on /\ old.acl /\ nfOp[v].acl
                     THEN old.clients ELSE asked]

PutStep(v) ==
    /\ NfAt(v, "put")
    /\ IF healthLocked THEN Desire(v, normalized(putPolicy(v))) /\ Continue(v)
                       ELSE Refuse(v) /\ UNCHANGED mgr
    /\ UNCHANGED <<owner, mu, etab, nfsd, helper, nfFaults, nfRest>>

changedClient(v) ==
    LET e == mgr.desired[v]
        c == nfOp[v].client
    IN  [e EXCEPT !.clients = IF nfOp[v].rpc = "allow" THEN @ \cup {c} ELSE @ \ {c}]

ChangeStep(v) ==
    LET e == mgr.desired[v]
        allow == nfOp[v].rpc = "allow"
    IN  /\ NfAt(v, "change")
        /\ \/ allow /\ ~(healthLocked /\ e.on) /\ Refuse(v) /\ UNCHANGED mgr
           \/ allow /\ healthLocked /\ e.on /\ e.acl /\ Desire(v, changedClient(v)) /\ Continue(v)
           \/ ~allow /\ e.on /\ e.acl /\ Desire(v, changedClient(v))
              /\ todo' = [todo EXCEPT ![v] = Tail(@)]
              /\ nfOp' = [nfOp EXCEPT ![v].ok = TRUE]
           \/ /\ IF allow THEN healthLocked /\ e.on /\ ~e.acl ELSE ~e.on \/ ~e.acl
              /\ Replace(v, From(v, "done")) /\ UNCHANGED mgr
        /\ UNCHANGED <<owner, mu, etab, nfsd, helper, nfFaults, nfRest>>

RemoveStep(v) ==
    /\ NfAt(v, "remove")
    /\ mgr' = updateRoot([mgr EXCEPT !.desired[v] = NoExport])
    /\ todo' = [todo EXCEPT ![v] = Tail(@)]
    /\ nfOp' = [nfOp EXCEPT ![v].ok = TRUE]
    /\ UNCHANGED <<owner, mu, etab, nfsd, helper, nfFaults, nfRest>>

settleNothing(v) == NfAt(v, "settle") /\ Continue(v)

\* applyOrStop for a withdrawal, apply for a grant.
settle(v) ==
    /\ NfAt(v, "settle")
    /\ Replace(v, (IF withdrawing(v) /\ ~healthLocked THEN <<"stop">> ELSE converge)
                    \o Tail(todo[v]))

Settle(v) ==
    /\ settle(v)
    /\ UNCHANGED <<owner, mgr, mu, etab, nfsd, helper, nfFaults, nfRest>>

\* stopOwned: a runtime that has failed withdraws everything it owns.
stopOwned(v) ==
    /\ NfAt(v, "stop")
    /\ \/ etab' = etab \ owned /\ RuntimeClose(mgr) /\ Continue(v) /\ NoFault
       \/ \E stuck \in SUBSET owned :
             /\ etab' = (etab \ owned) \cup stuck /\ Fault
             /\ RuntimeClose(mgr) \/ RuntimeStuck(mgr)
             /\ Refuse(v)
    /\ UNCHANGED <<owner, mu, nfRest>>

(***************************************************************************)
(* The adopted filesystem: its mark and its proxy directory.               *)
(***************************************************************************)
nfManager == <<owner, mgr, mu, etab, nfsd, helper>>

\* One change of the mark in hand.
Note(v, step, m) ==
    /\ NfAt(v, step)
    /\ fsNext' = [fsNext EXCEPT ![v] = m]
    /\ Continue(v)
    /\ UNCHANGED <<nfManager, exportDir, fsMark, withdrawn, nfCalls, nfFaults, nfBoots>>

importedMark == [NfNoMark EXCEPT !.live = TRUE]
growBound(m, o) ==
    [m EXCEPT !.open = @ \/ ~o.acl, !.exported = TRUE, !.clients = @ \cup o.clients]
shrinkBound(m, o) ==
    [m EXCEPT !.open = ~o.acl,
              !.clients = IF ~o.acl THEN {} ELSE IF o.exact THEN o.clients ELSE @]

Noted(v) ==
    LET m == fsNext[v]
        o == nfOp[v]
    IN  \/ Note(v, "pin", importedMark)
        \/ Note(v, "grow", growBound(m, o))
        \/ Note(v, "shrink", shrinkBound(m, o))
        \/ Note(v, "bound", [m EXCEPT !.clients = IF m.open THEN @ ELSE @ \cup {o.client}])
        \/ Note(v, "unbound", [m EXCEPT !.clients = @ \ {o.client}])
        \/ Note(v, "attach", [m EXCEPT !.local = TRUE])
        \/ Note(v, "detach", [m EXCEPT !.local = FALSE])
        \/ Note(v, "clear", [m EXCEPT !.exported = FALSE, !.open = FALSE, !.clients = {}])

\* writeFencingMark; a failed write leaves the old mark or the new one.
WriteFsMark(v, step, m) ==
    /\ NfAt(v, step)
    /\ \/ fsMark' = [fsMark EXCEPT ![v] = m] /\ Continue(v) /\ NoFault
       \/ /\ \E left \in {fsMark[v], m} : fsMark' = [fsMark EXCEPT ![v] = left]
          /\ Fault /\ Abort(v)
    /\ fsNext' = [fsNext EXCEPT ![v] = m]
    /\ UNCHANGED <<nfManager, exportDir, withdrawn, nfCalls, nfBoots>>

ownsTarget(v) == fsNext[v].claimed \/ fsNext[v].local \/ fsNext[v].exported

\* ensureFilesystemProxy: a missing target is claimed durably before it is
\* made; one that exists must be ours.
ensureFilesystemProxy(v) ==
    /\ NfAt(v, "proxy")
    /\ CASE exportDir[v] = "none" -> Replace(v, <<"claim", "mkdir", "mount">> \o Tail(todo[v]))
         [] exportDir[v] = "dir" /\ ownsTarget(v) -> Replace(v, <<"mount">> \o Tail(todo[v]))
         [] exportDir[v] = "mounted" /\ ownsTarget(v) -> Replace(v, <<"claimed">> \o Tail(todo[v]))
         [] OTHER -> Abort(v)
    /\ UNCHANGED <<nfManager, nfFaults, nfRest>>

Place(v, step, to) ==
    /\ NfAt(v, step)
    /\ \/ exportDir' = [exportDir EXCEPT ![v] = to] /\ Continue(v) /\ NoFault
       \/ /\ \E left \in {"none", exportDir[v]} : exportDir' = [exportDir EXCEPT ![v] = left]
          /\ Fault /\ Abort(v)
    /\ UNCHANGED <<nfManager, fsMark, fsNext, withdrawn, nfCalls, nfBoots>>

prepareFilesystemProxyTarget(v) ==
    \/ WriteFsMark(v, "claim", [fsNext[v] EXCEPT !.claimed = TRUE])
    \/ Note(v, "claimed", [fsNext[v] EXCEPT !.claimed = TRUE])
    \/ Place(v, "mkdir", "dir")

mountPinnedFilesystemProxy(v) == Place(v, "mount", "mounted")

\* An export keeps the proxy a local publisher uses, and the reverse.
keepsProxy(v) ==
    CASE nfOp[v].rpc = "remote"  -> fsNext[v].exported
      [] nfOp[v].rpc = "release" -> FALSE
      [] OTHER                   -> fsNext[v].local

removeFilesystemProxy(v) ==
    LET m == [fsNext EXCEPT ![v].claimed = FALSE]
    IN  /\ NfAt(v, "unproxy")
        /\ \/ keepsProxy(v) /\ Continue(v) /\ NoFault /\ UNCHANGED <<exportDir, fsNext>>
           \/ ~keepsProxy(v) /\ exportDir[v] = "none" /\ fsNext' = m
              /\ Continue(v) /\ NoFault /\ UNCHANGED exportDir
           \/ ~keepsProxy(v) /\ exportDir[v] # "none" /\ ownsTarget(v)
              /\ exportDir' = [exportDir EXCEPT ![v] = IF @ = "mounted" THEN "dir" ELSE "none"]
              /\ NoFault /\ UNCHANGED <<fsNext, todo, nfOp>>
           \/ ~keepsProxy(v) /\ exportDir[v] # "none" /\ ~ownsTarget(v)
              /\ Abort(v) /\ NoFault /\ UNCHANGED <<exportDir, fsNext>>
           \/ ~keepsProxy(v) /\ exportDir[v] # "none" /\ ownsTarget(v)
              /\ Fault /\ Abort(v) /\ UNCHANGED <<exportDir, fsNext>>
        /\ UNCHANGED <<nfManager, fsMark, withdrawn, nfCalls, nfBoots>>

FilesystemStep(v) ==
    \/ Noted(v)
    \/ WriteFsMark(v, "mark", fsNext[v])
    \/ WriteFsMark(v, "retire", NfNoMark)
    \/ ensureFilesystemProxy(v)
    \/ prepareFilesystemProxyTarget(v)
    \/ mountPinnedFilesystemProxy(v)
    \/ removeFilesystemProxy(v)

Answer(v) ==
    /\ NfAt(v, "answer") \/ (nfOp[v].rpc = "start" /\ todo[v] = <<>>)
    /\ withdrawn' = withdrawn \cup
          (IF ~nfOp[v].ok THEN {}
           ELSE {v} \X (IF nfOp[v].rpc = "deny" THEN {nfOp[v].client}
                        ELSE NfClients \cup {NfAny}))
    /\ Abort(v)
    /\ UNCHANGED <<nfManager, exportDir, fsMark, fsNext, nfCalls, nfFaults, nfBoots>>

(***************************************************************************)
(* Crashes, reboots and datasets that come and go.                         *)
(***************************************************************************)
Died ==
    /\ nfBoots < NfMaxBoots
    /\ nfBoots' = nfBoots + 1
    /\ mgr' = NewManager(FALSE)
    /\ mu' = NfNobody
    /\ nfOp' = [v \in NfVolumes |-> NfIdle]
    /\ todo' = [v \in NfVolumes |-> <<>>]
    /\ UNCHANGED <<fsMark, fsNext, withdrawn, nfCalls, nfFaults>>

\* The kernel goes on serving what it was told to when the agent dies.
NfCrash ==
    /\ Died
    /\ helper' = IF helper = "up" THEN "stale" ELSE helper
    /\ UNCHANGED <<owner, etab, nfsd, exportDir>>

HelperExits ==
    /\ helper = "stale" /\ helper' = "none"
    /\ UNCHANGED <<owner, mgr, mu, etab, nfsd, nfOp, todo, nfFaults, nfRest>>

\* Close revokes the owned rows and stops the server.
NfClose ==
    /\ mgr.started /\ mu = NfNobody
    /\ Died
    /\ etab' = etab \ owned
    /\ nfsd' = (nfsd /\ ~mgr.claimed)
    /\ helper' = "none"
    /\ UNCHANGED <<owner, exportDir>>

NfReboot ==
    /\ Died
    /\ nfsd' = FALSE /\ helper' = "none"
    /\ etab' \in {etab, {}}
    /\ owner' = [owner EXCEPT !.here = FALSE]
    /\ exportDir' = [v \in NfVolumes |-> IF v \in NfAdopted /\ exportDir[v] = "none" THEN "none" ELSE "dir"]

\* The dataset of a managed volume is mounted, or unmounted under the agent.
NfDataset(v) ==
    /\ \/ exportDir[v] = "dir" /\ exportDir' = [exportDir EXCEPT ![v] = "mounted"] /\ NoFault
       \/ exportDir[v] = "mounted" /\ exportDir' = [exportDir EXCEPT ![v] = "dir"] /\ Fault
    /\ UNCHANGED <<nfManager, fsMark, fsNext, nfOp, todo, withdrawn, nfCalls, nfBoots>>

NfRequest(v) ==
    \/ NfStart(v)
    \/ \E acl, exact \in BOOLEAN, cs \in SUBSET NfClients : NfExport(v, acl, exact, cs)
    \/ NfUnexport(v)
    \/ \E c \in NfClients : NfAllow(v, c) \/ NfDeny(v, c)
    \/ v \in NfAdopted /\ (NfImport(v) \/ NfRestore(v) \/ \E b \in BOOLEAN : NfLocal(v, b) \/ NfRelease(v, b))

ManagerStep(v) ==
    \/ Lock(v) \/ Unlock(v) \/ Done(v) \/ Start(v) \/ Load(v) \/ Prune(v) \/ Save(v)
    \/ Boot(v) \/ Listen(v) \/ startHelper(v) \/ Serve(v) \/ Started(v) \/ FailStartStep(v) \/ Plan(v) \/ Persist(v)
    \/ revokeObsolete(v) \/ grantDesired(v) \/ verifyAdmissions(v) \/ failClosed(v)
    \/ ValidatePut(v) \/ Recheck(v) \/ PutStep(v) \/ ChangeStep(v) \/ RemoveStep(v)
    \/ Settle(v) \/ stopOwned(v) \/ NfError(v) \/ Answer(v)

NfNext ==
    \/ \E v \in NfVolumes : NfRequest(v) \/ ManagerStep(v)
    \/ \E v \in NfAdopted : FilesystemStep(v)
    \/ \E v \in NfVolumes \ NfAdopted : NfDataset(v)
    \/ HelperDies \/ daemonFailed \/ HelperExits \/ NfCrash \/ NfClose \/ NfReboot

NfSpec == NfInit /\ [][NfNext]_nfVars

(***************************************************************************)
(* Properties.                                                             *)
(***************************************************************************)
NfRows == (NfVolumes \cup {NfRoot}) \X (NfClients \cup {NfAny})

\* Every variable has its type.
NfTypeOK ==
    /\ owner.ledger \subseteq NfRows /\ mgr.ledger \subseteq NfRows
    /\ etab \subseteq NfRows /\ withdrawn \subseteq NfRows
    /\ mu \in NfVolumes \cup {NfNobody}
    /\ \A v \in NfVolumes : owner.desired[v].clients \subseteq NfClients
    /\ nfsd \in BOOLEAN /\ helper \in {"none", "up", "stale"}
    /\ \A v \in NfVolumes : exportDir[v] \in {"none", "dir", "mounted"}
    /\ \A v \in NfAdopted : fsMark[v].clients \subseteq NfClients

\* The ledger of owner.json is written ahead: whatever the agent has put
\* into the admission table, the file on disk says it is the agent's, so a
\* restart at any moment can tell it from a foreign export and revoke it
\* (manager.go, diskState.Ledger; admitExport; rebuildLedger).
LedgerIsAhead == etab \subseteq owner.ledger

\* A withdrawal that was answered holds: a client that was denied, and every
\* client of an export that was removed, is not served again, not by a
\* server that could not be stopped, and not by a start after a crash,
\* until a grant names it (ChangeClient, Remove, applyOrStop).
WithdrawalHolds == nfsd => etab \cap withdrawn = {}

\* The fencing mark of an adopted filesystem bounds what is published: a
\* client in the admission table is one the mark knows of, so a deletion,
\* which refuses a published filesystem on the mark's word, never takes a
\* filesystem from a client that is still admitted
\* (filesystemExportMutation, releaseFilesystemMutation).
MarkBoundsAdmissions ==
    \A row \in etab :
        row[1] \in NfAdopted =>
            LET m == fsMark[row[1]]
            IN  m.live /\ m.exported /\ (m.open \/ row[2] \in m.clients)
=============================================================================
