------------------------------ MODULE Readiness -----------------------------
(***************************************************************************)
(* How the readiness of the storage reaches the StorageClass: the          *)
(* controller of PillarAgent probes the agent and drives its export        *)
(* restore, that of PillarStore follows the status of the agent, that of   *)
(* PillarProtocol the CHAP Secret, and that of PillarStorageClass the      *)
(* status of the store and of the protocol (internal/controller).  Each    *)
(* controller works when an informer shows it a change of something it     *)
(* watches or when a requeue interval elapses, and reads from informers    *)
(* that lag, each on its own.                                              *)
(***************************************************************************)
EXTENDS Naturals

CONSTANTS
    RdMaxChanges,  \* how often the node, the agent, its pool and the Secret change
    RdMaxFaults    \* how many calls of the controllers fail

VARIABLES
    route,    \* the class: with a protocol and an agent on a "node", or "native" local files
    world,    \* the node, the agent process, its pool and the Secret
    status,   \* the status in the API server, by controller
    shown,    \* what the informers show of the world and of the status
    ready,    \* the controllers in the workqueue
    timers,   \* the controllers with a requeue interval running
    ap,       \* the pass of the agent's controller after the health check, if one runs
    rdBounds  \* what is left of the bounds

rdVars == <<route, world, status, shown, ready, timers, ap, rdBounds>>

RdControllers == {"agent", "store", "protocol", "class"}

\* The status of PillarAgent: Ready, the reason of ExportsReady, and what the
\* agent reported of the pool and its backend; of the others only Ready counts.
Pools == {"found", "missing", "unsupported"}
AgentStatus == [ready : BOOLEAN, exports : {"unknown", "failed", "pending", "serving"}, pools : Pools]
Watched == {"node", "secret"} \cup RdControllers

Nodes == {"absent", "unaddressed", "addressed"}
Worlds == [node : Nodes, up : BOOLEAN, pending : BOOLEAN, pool : Pools, secret : BOOLEAN]

\* What the API server holds of each watched kind.
Actual(k) ==
    CASE k = "node" -> world.node
      [] k = "secret" -> world.secret
      [] OTHER -> status[k]

\* The storage of the class can serve it.
Serviceable ==
    /\ world.node = "addressed" /\ world.up /\ ~world.pending /\ world.pool = "found"
    /\ route = "native" \/ world.secret

\* All is well or one thing is missing, and everybody knows it.
RdInit ==
    /\ route \in {"node", "native"}
    /\ \E wrong \in {"nothing", "node", "agent", "pool"} \cup (IF route = "native" THEN {} ELSE {"secret"}) :
          /\ world = [node |-> IF wrong = "node" THEN "absent" ELSE "addressed",
                      up |-> wrong # "agent", pending |-> wrong = "agent",
                      pool |-> IF wrong = "pool" THEN "missing" ELSE "found", secret |-> wrong # "secret"]
          /\ LET served == wrong \notin {"node", "agent"}
             IN status = [agent |-> [ready |-> served, exports |-> IF served THEN "serving" ELSE "unknown",
                                     pools |-> world.pool],
                          store |-> served /\ world.pool = "found", protocol |-> world.secret,
                          class |-> Serviceable]
          /\ timers = (IF wrong = "node" THEN {} ELSE {"agent"}) \cup (IF Serviceable THEN {} ELSE {"class"})
    /\ shown = [k \in Watched |-> Actual(k)]
    /\ ready = {}
    /\ ap = {}
    /\ rdBounds = [changes |-> RdMaxChanges, faults |-> RdMaxFaults]

\* The kinds whose changes enqueue a controller (SetupWithManager of each).
AgentWatches == {"agent", "node", "store"}

StoreWatchesItself == {"store"}

StoreWatches == {"store", "agent", "class"}
ClassWatches == {"class", "store", "protocol"}
ProtocolWatches == {"protocol", "class", "store", "secret"}
Watches ==
    [c \in RdControllers |->
        CASE c = "agent" -> AgentWatches
          [] c = "store" -> StoreWatches
          [] c = "class" -> ClassWatches
          [] c = "protocol" -> ProtocolWatches]

\* An informer shows the latest state of a kind and enqueues who watches it.
Deliver(k) ==
    /\ shown[k] # Actual(k)
    /\ shown' = [shown EXCEPT ![k] = Actual(k)]
    /\ ready' = ready \cup {c \in RdControllers : k \in Watches[c]}
    /\ UNCHANGED <<route, world, status, timers, ap, rdBounds>>

\* A requeue interval elapses.
TimerFires(c) ==
    /\ c \in timers
    /\ timers' = timers \ {c} /\ ready' = ready \cup {c}
    /\ UNCHANGED <<route, world, status, shown, ap, rdBounds>>

\* The pass of controller c ends with status s and, if again, a requeue
\* interval.  An update from a copy that is not current is refused, and the
\* pass is queued again.
Conclude(c, s, again) ==
    IF shown[c] = status[c]
    THEN /\ status' = [status EXCEPT ![c] = s]
         /\ ready' = ready \ {c}
         /\ timers' = IF again THEN timers \cup {c} ELSE timers
    ELSE UNCHANGED <<status, ready, timers>>

\* The write of a pass fails, and the pass is queued again.
RdFails(c) ==
    /\ IF c = "agent" THEN ap # {} ELSE c \in ready
    /\ rdBounds.faults > 0
    /\ rdBounds' = [rdBounds EXCEPT !.faults = @ - 1]
    /\ ap' = IF c = "agent" THEN {} ELSE ap
    /\ ready' = ready \cup {c}
    /\ UNCHANGED <<route, world, status, shown, timers>>

\* The controller restarts: it lists everything anew, and every object is queued.
RdRestarts ==
    /\ rdBounds.faults > 0
    /\ rdBounds' = [rdBounds EXCEPT !.faults = @ - 1]
    /\ shown' = [k \in Watched |-> Actual(k)]
    /\ ready' = RdControllers /\ timers' = {} /\ ap' = {}
    /\ UNCHANGED <<route, world, status>>

NotReady(exports) == [shown["agent"] EXCEPT !.ready = FALSE, !.exports = exports]
Serving == [ready |-> TRUE, exports |-> "serving", pools |-> shown["agent"].pools]

\* The node has to exist and to have a usable address; no requeue, the watch of
\* the node enqueues the agent again.  An agent with an external address is one
\* whose node always has its address.
reconcileNodeRef ==
    /\ shown["node"] # "addressed"
    /\ Conclude("agent", NotReady("unknown"), FALSE)
    /\ UNCHANGED <<ap, rdBounds>>

\* The pass goes on with the status s of its copy, still to be written; restore
\* says that it waits for the restore of the exports.  What happens meanwhile
\* queues the agent again.
AgentPass(s, restore) ==
    /\ ready' = ready \ {"agent"} /\ UNCHANGED timers
    /\ ap' = {[mine |-> s, current |-> shown["agent"] = status["agent"], restore |-> restore]}

\* The health check fails, and the agent is not connected.
setAgentConnectedCondition ==
    /\ \/ ~world.up /\ UNCHANGED rdBounds
       \/ world.up /\ rdBounds.faults > 0 /\ rdBounds' = [rdBounds EXCEPT !.faults = @ - 1]
    /\ AgentPass(NotReady("unknown"), FALSE)
    /\ UNCHANGED status

\* What the agent reports of its pools goes into status s; best effort.
populateCapabilitiesStatus(s, t) ==
    \/ t = [s EXCEPT !.pools = world.pool] /\ UNCHANGED rdBounds
    \/ t = s /\ rdBounds.faults > 0 /\ rdBounds' = [rdBounds EXCEPT !.faults = @ - 1]

\* The agent answers.  While a restore is outstanding it is not ready: a Ready
\* status is withdrawn before the restore is asked for, and a refused update
\* does not stop the restore.
reconcileExportRestore ==
    /\ world.up
    /\ LET mine == shown["agent"]
           pending == NotReady(IF mine.exports = "failed" THEN "failed" ELSE "pending")
           withdrawn == world.pending /\ mine.ready /\ mine = status["agent"]
       IN \E t \in AgentStatus :
             /\ populateCapabilitiesStatus(IF world.pending THEN pending ELSE Serving, t)
             /\ status' = IF withdrawn THEN [status EXCEPT !["agent"] = t] ELSE status
             /\ AgentPass(t, world.pending)

ReconcileAgent ==
    /\ "agent" \in ready /\ ap = {}
    /\ \/ reconcileNodeRef
       \/ /\ shown["node"] = "addressed"
          /\ setAgentConnectedCondition \/ reconcileExportRestore
    /\ UNCHANGED <<route, world, shown>>

\* The restore returns: the agent serves its exports again, or the restore failed
\* and is tried again soon.
RestoreReturns ==
    /\ \E p \in ap, done \in BOOLEAN :
          /\ p.restore
          /\ IF done THEN world.up ELSE ~world.up \/ rdBounds.faults > 0
          /\ rdBounds' = IF done \/ ~world.up THEN rdBounds ELSE [rdBounds EXCEPT !.faults = @ - 1]
          /\ world' = IF done THEN [world EXCEPT !.pending = FALSE] ELSE world
          /\ ap' = {[p EXCEPT !.restore = FALSE, !.mine.ready = done,
                              !.mine.exports = IF done THEN "serving" ELSE "failed"]}
    /\ UNCHANGED <<route, status, shown, ready, timers>>

\* The pass writes its status and comes again after the requeue interval; from
\* a copy that was not current the write is refused, and the pass queued again.
UpdateAgentStatus ==
    /\ \E p \in ap :
          /\ ~p.restore
          /\ IF p.current
             THEN /\ status' = [status EXCEPT !["agent"] = p.mine]
                  /\ timers' = timers \cup {"agent"} /\ UNCHANGED ready
             ELSE ready' = ready \cup {"agent"} /\ UNCHANGED <<status, timers>>
    /\ ap' = {}
    /\ UNCHANGED <<route, world, shown, rdBounds>>

\* What the agent last reported of the pool of the store and of its backend.
evaluatePoolDiscovered(a) == a.pools # "missing"
evaluateBackendSupported(a) == a.pools # "unsupported"

\* The store is ready when its agent is and reported the pool.
ReconcileStore ==
    /\ "store" \in ready
    /\ LET a == shown["agent"]
       IN Conclude("store", a.ready /\ evaluatePoolDiscovered(a) /\ evaluateBackendSupported(a), FALSE)
    /\ UNCHANGED <<route, world, shown, ap, rdBounds>>

\* The CHAP Secret of an iSCSI protocol is usable; a native class names NFS.
applyAuthSecretCheck == route = "native" \/ shown["secret"]

\* The protocol is ready when its Secret is usable.
ReconcileProtocol ==
    /\ "protocol" \in ready
    /\ Conclude("protocol", applyAuthSecretCheck, FALSE)
    /\ UNCHANGED <<route, world, shown, ap, rdBounds>>

\* Native local files need the agent itself; otherwise the protocol has to be ready.
nativeLocalFilesTopologies ==
    LET a == shown["agent"] IN a.ready /\ evaluatePoolDiscovered(a) /\ evaluateBackendSupported(a)

ClassValid ==
    /\ shown["store"]
    /\ IF route = "native" THEN nativeLocalFilesTopologies ELSE shown["protocol"]

\* The class is ready when its store is and its protocol is valid, and looked at
\* again after a while when not.
ReconcileStorageClass ==
    /\ "class" \in ready
    /\ Conclude("class", ClassValid, ~ClassValid)
    /\ UNCHANGED <<route, world, shown, ap, rdBounds>>

\* The StorageClass cannot be created or updated: the class is not ready, and the
\* pass is queued again.
StorageClassError ==
    /\ "class" \in ready /\ ClassValid /\ rdBounds.faults > 0
    /\ rdBounds' = [rdBounds EXCEPT !.faults = @ - 1]
    /\ status' = IF shown["class"] = status["class"] THEN [status EXCEPT !["class"] = FALSE] ELSE status
    /\ UNCHANGED <<route, world, shown, ready, timers, ap>>

\* The world changes: the node comes, goes or gets an address; the agent stops,
\* starts or restarts, with its exports to restore; its pool and the Secret come
\* and go.
WorldChanges ==
    /\ rdBounds.changes > 0
    /\ rdBounds' = [rdBounds EXCEPT !.changes = @ - 1]
    /\ \/ \E n \in Nodes \ {world.node} : world' = [world EXCEPT !.node = n]
       \/ \E u \in BOOLEAN : (world.up \/ u) /\ world' = [world EXCEPT !.up = u, !.pending = TRUE]
       \/ \E p \in Pools \ {world.pool} : world' = [world EXCEPT !.pool = p]
       \/ route # "native" /\ world' = [world EXCEPT !.secret = ~@]
    /\ UNCHANGED <<route, status, shown, ready, timers, ap>>

RdStep(c) ==
    CASE c = "agent" -> ReconcileAgent \/ RestoreReturns \/ UpdateAgentStatus
      [] c = "store" -> ReconcileStore
      [] c = "protocol" -> ReconcileProtocol
      [] c = "class" -> ReconcileStorageClass

RdNext ==
    \/ \E k \in Watched : Deliver(k)
    \/ \E c \in RdControllers : TimerFires(c) \/ RdFails(c)
    \/ ReconcileAgent \/ RestoreReturns \/ UpdateAgentStatus
    \/ ReconcileStore \/ ReconcileProtocol \/ ReconcileStorageClass \/ StorageClassError
    \/ WorldChanges \/ RdRestarts

\* The informers deliver, the requeue intervals elapse, and the workers of
\* controller-runtime take what is queued.
RdFairness ==
    /\ WF_rdVars(\E k \in Watched : Deliver(k))
    /\ \A c \in {"agent", "class"} : WF_rdVars(TimerFires(c))
    /\ \A c \in RdControllers : WF_rdVars(RdStep(c))

RdSpec == RdInit /\ [][RdNext]_rdVars /\ RdFairness
-----------------------------------------------------------------------------
\* The world, the status and its copies keep their type.
RdTypeOK ==
    /\ world \in Worlds
    /\ status["agent"] \in AgentStatus /\ shown["agent"] \in AgentStatus
    /\ \A c \in RdControllers \ {"agent"} : status[c] \in BOOLEAN /\ shown[c] \in BOOLEAN
    /\ ready \subseteq RdControllers /\ timers \subseteq RdControllers

\* Once the world stops changing, the exports of a running agent are restored and
\* the class becomes and stays Ready exactly if its storage can serve it,
\* whatever was changing, lagging or failing before: no change is missed by
\* every watch and every requeue (SetupWithManager, RequeueAfter).
ReadinessSettles ==
    <>[](/\ status["class"] = Serviceable
         /\ world.node = "addressed" /\ world.up => ~world.pending)
=============================================================================
