---------------------------- MODULE IscsiSession ----------------------------
(***************************************************************************)
(* The node's iSCSI initiator (internal/iscsi/initiator.go, recovery.go)   *)
(* for one target portal: Login, DeviceForLUN and Logout by the volume's   *)
(* calls, the dispatcher of kernel events, the recovery loops and the      *)
(* supervisor that adopts sessions found in sysfs.                         *)
(*                                                                         *)
(* The kernel keeps the session: its state, its connection, its disk and   *)
(* whether the disk holds data the target has not seen.  The process keeps *)
(* session objects, which it loses when it restarts.  The calls of a       *)
(* volume are serialised by the node server (see NodeStage).  A login      *)
(* exchange succeeds or fails here; IscsiLogin has its phases.             *)
(***************************************************************************)
EXTENDS Naturals, FiniteSets

CONSTANTS
    MaxSids,        \* kernel sessions ever created
    MaxObjs,        \* session objects ever created in one process
    RecoverLoops,   \* slots for recovery goroutines
    IsMaxCalls, IsMaxFaults, IsMaxRestarts

VARIABLES
    kstate,     \* per kernel session: "none", "FREE", "LOGGED_IN", "FAILED", "gone"
    kconn,      \* its connection: "none", "new", "bound", "stopped", "up", "down"
    named,      \* the parameters of a login were pushed
    cache,      \* its disk: "none", "clean", "dirty"
    kevents,    \* events not yet dispatched: <<type, sid>>
    obj,        \* session objects of the process
    byKey,      \* the object of the target portal, or 0
    bySID,      \* the object events of a kernel session go to, or 0
    actor,      \* the volume's call and the recovery loops: pc, object, cancelled
    sup,        \* the supervisor: what it listed, and the sessions to check
    inUse,      \* the volume is staged on the disk
    dropped,    \* a teardown discarded data the kernel still queued
    isCalls, isFaults, isRestarts

isVars == <<kstate, kconn, named, cache, kevents, obj, byKey, bySID, actor,
            sup, inUse, dropped, isCalls, isFaults, isRestarts>>

kernel == <<kstate, kconn, named, cache>>
bounds == <<isCalls, isFaults, isRestarts>>

Sids == 1..MaxSids
Objs == 1..MaxObjs
User == "call"
Actors == {User} \cup RecoverLoops

\* There is an object to adopt with, and a recovery goroutine is not a call.
ASSUME IsAssumption == MaxSids \in Nat /\ MaxObjs \in Nat \ {0} /\ User \notin RecoverLoops

newSession == [made |-> FALSE, sid |-> 0, phase |-> "Removed", needStop |-> FALSE,
               connDestroyed |-> FALSE, sessionDestroyed |-> FALSE,
               cancel |-> User, op |-> "free"]
idleActor == [pc |-> "idle", on |-> 1, cancelled |-> FALSE]
noScan == [listed |-> {}, check |-> {}]

IsInit ==
    /\ kstate = [s \in Sids |-> "none"]
    /\ kconn = [s \in Sids |-> "none"]
    /\ named = [s \in Sids |-> FALSE]
    /\ cache = [s \in Sids |-> "none"]
    /\ kevents = {}
    /\ obj = [o \in Objs |-> newSession]
    /\ byKey = 0
    /\ bySID = [s \in Sids |-> 0]
    /\ actor = [x \in Actors |-> idleActor]
    /\ sup = noScan
    /\ inUse = FALSE /\ dropped = FALSE
    /\ isCalls = 0 /\ isFaults = 0 /\ isRestarts = 0

----------------------------------------------------------------------------
(* Helpers over the process state.                                         *)

isAt(x, pc) == actor[x].pc = pc
On(x) == actor[x].on
Sid(x) == obj[On(x)].sid
Exists(s) == kstate[s] \in {"FREE", "LOGGED_IN", "FAILED"}
\* An actor that has nothing to do keeps nothing of its last operation.
Went(a, x, pc) ==
    [a EXCEPT ![x] = IF pc = "idle" THEN idleActor ELSE [@ EXCEPT !.pc = pc]]
isGoto(x, pc) == actor' = Went(actor, x, pc)
\* handleDatagram and emit: an event of the kernel is queued for dispatch.
emit(e) == kevents' = kevents \cup {e}
isFault == isFaults < IsMaxFaults /\ isFaults' = isFaults + 1
isFine == UNCHANGED isFaults

Spare == {o \in Objs : ~obj[o].made}
Fresh == CHOOSE o \in Spare : TRUE
FreeLoops == {l \in RecoverLoops : isAt(l, "idle")}

Unlocked(f, o) == [f EXCEPT ![o].op = "free"]

\* forget: the object leaves every index and its recovery is cancelled.  What
\* it knew of its connection is not read again.
Forgotten(f, o) ==
    [f EXCEPT ![o] = [newSession EXCEPT !.made = TRUE, !.sid = f[o].sid, !.op = f[o].op]]
forgetIndexes(o) ==
    /\ byKey' = IF byKey = o THEN 0 ELSE byKey
    /\ bySID' = [s \in Sids |-> IF bySID[s] = o THEN 0 ELSE bySID[s]]
CancelOf(a, o) ==
    [x \in Actors |-> IF x \in RecoverLoops /\ x = obj[o].cancel /\ a[x].on = o
                      THEN [a[x] EXCEPT !.cancelled = TRUE] ELSE a[x]]

\* scheduleRecovery: an established session only; the goroutine waits for
\* the session lock.
Slot == CHOOSE l \in FreeLoops : TRUE
Scheduled(f, o) ==
    IF f[o].phase # "Established" THEN f
    ELSE [f EXCEPT ![o].phase = "Recovering", ![o].cancel = Slot]
Started(f, a, o) ==
    IF f[o].phase # "Established" THEN a
    ELSE [a EXCEPT ![Slot] = [pc |-> "lock", on |-> o, cancelled |-> FALSE]]

----------------------------------------------------------------------------
(* Login.                                                                  *)

\* The object is published before the kernel session exists, so a second
\* call waits for its lock instead of creating another session.
Login ==
    /\ isAt(User, "idle") /\ ~inUse
    /\ isCalls < IsMaxCalls /\ isCalls' = isCalls + 1
    /\ IF byKey = 0
       THEN /\ Spare # {}
            /\ obj' = [obj EXCEPT ![Fresh] = [newSession EXCEPT !.made = TRUE,
                                       !.phase = "LoggingIn", !.op = User]]
            /\ byKey' = Fresh
            /\ actor' = [actor EXCEPT ![User] = [idleActor EXCEPT !.pc = "create", !.on = Fresh]]
       ELSE /\ actor' = [actor EXCEPT ![User] = [idleActor EXCEPT !.pc = "found", !.on = byKey]]
            /\ UNCHANGED <<obj, byKey>>
    /\ UNCHANGED <<kernel, kevents, bySID, sup, inUse, dropped, isFaults, isRestarts>>

\* An existing session is returned unless it is being logged out; one that
\* was removed meanwhile starts over.  snapshot reads it from sysfs.
LoginFound ==
    LET o == On(User) ph == obj[o].phase IN
    /\ isAt(User, "found") /\ obj[o].op = "free"
    /\ isGoto(User, IF ph \notin {"Removed", "LoggingOut"} /\ obj[o].sid # 0
                       /\ Exists(obj[o].sid) THEN "device" ELSE "idle")
    /\ UNCHANGED <<kernel, kevents, obj, byKey, bySID, sup, inUse, dropped, bounds>>

createSession ==
    LET o == On(User) IN
    /\ isAt(User, "create")
    /\ \/ /\ \E s \in Sids :
                /\ kstate[s] = "none" /\ \A t \in Sids : t < s => kstate[t] # "none"
                /\ kstate' = [kstate EXCEPT ![s] = "FREE"]
                /\ obj' = [obj EXCEPT ![o].sid = s, ![o].connDestroyed = TRUE]
                /\ bySID' = [bySID EXCEPT ![s] = o]
          /\ isGoto(User, "conn")
          /\ isFine /\ UNCHANGED byKey
       \/ /\ isFault
          /\ obj' = Unlocked(Forgotten(obj, o), o)
          /\ forgetIndexes(o)
          /\ isGoto(User, "idle")
          /\ UNCHANGED kstate
    /\ UNCHANGED <<kconn, named, cache, kevents, sup, inUse, dropped, isCalls, isRestarts>>

createConn ==
    LET s == Sid(User) IN
    /\ isAt(User, "conn")
    /\ \/ /\ Exists(s)
          /\ kconn' = [kconn EXCEPT ![s] = "new"]
          /\ obj' = [obj EXCEPT ![On(User)].connDestroyed = FALSE]
          /\ isGoto(User, "bind") /\ isFine
       \/ /\ isFault \/ (~Exists(s) /\ isFine)
          /\ isGoto(User, "fail")
          /\ UNCHANGED <<kconn, obj>>
    /\ UNCHANGED <<kstate, named, cache, kevents, byKey, bySID, sup, inUse, dropped,
                   isCalls, isRestarts>>

\* Where a failed connectAndLogin leads: establish destroys what it created,
\* a recovery loop unlocks the session and tries again later.
LoginFails(x) == IF x = User THEN "fail" ELSE "sleep"

\* bindEndpoint: the kernel takes a socket for a connection that has none.
bindEndpoint(x) ==
    LET s == Sid(x) IN
    /\ isAt(x, "bind")
    /\ \/ /\ kconn[s] \in {"new", "stopped"}
          /\ kconn' = [kconn EXCEPT ![s] = "bound"]
          /\ obj' = [obj EXCEPT ![On(x)].needStop = TRUE]
          /\ isGoto(x, "login") /\ isFine
       \/ /\ isFault \/ (kconn[s] \notin {"new", "stopped"} /\ isFine)
          /\ isGoto(x, LoginFails(x))
          /\ UNCHANGED <<kconn, obj>>
    /\ UNCHANGED <<kstate, named, cache, kevents, byKey, bySID, sup, inUse, dropped,
                   isCalls, isRestarts>>

\* loginOnce: the exchange and the parameters, or unbind, which may not
\* reach the kernel either.
loginOnce(x) ==
    LET s == Sid(x) IN
    /\ isAt(x, "login")
    /\ \/ /\ kconn[s] = "bound"
          /\ named' = [named EXCEPT ![s] = TRUE]
          /\ isGoto(x, "start") /\ isFine
          /\ UNCHANGED <<kconn, obj>>
       \/ /\ isFault
          /\ \/ /\ kconn' = [kconn EXCEPT ![s] = IF @ = "bound" THEN "stopped" ELSE @]
                /\ obj' = [obj EXCEPT ![On(x)].needStop = FALSE]
             \/ UNCHANGED <<kconn, obj>>
          /\ isGoto(x, LoginFails(x)) /\ UNCHANGED named
       \/ /\ kconn[s] # "bound" /\ isFine
          /\ isGoto(x, LoginFails(x))
          /\ UNCHANGED <<kconn, obj, named>>
    /\ UNCHANGED <<kstate, cache, kevents, byKey, bySID, sup, inUse, dropped,
                   isCalls, isRestarts>>

\* startConn, then establish or recoverLoop release the session.
startConn(x) ==
    LET s == Sid(x) o == On(x) IN
    /\ isAt(x, "start")
    /\ IF kconn[s] = "bound"
       THEN /\ kstate' = [kstate EXCEPT ![s] = "LOGGED_IN"]
            /\ kconn' = [kconn EXCEPT ![s] = "up"]
            /\ obj' = Unlocked(IF x = User /\ obj[o].phase = "LoggingIn"
                               THEN [obj EXCEPT ![o].phase = "Established"] ELSE obj, o)
            /\ isGoto(x, IF x # User THEN "settle"
                         ELSE IF obj[o].phase = "LoggingIn" THEN "device" ELSE "idle")
       ELSE /\ isGoto(x, LoginFails(x))
            /\ UNCHANGED <<kstate, kconn, obj>>
    /\ UNCHANGED <<named, cache, kevents, byKey, bySID, sup, inUse, dropped, bounds>>

----------------------------------------------------------------------------
(* Teardown.                                                               *)

\* What the kernel is left with: stopConn, destroyConn and destroySession
\* stop at the first request that fails.  Data the kernel queues for a
\* session whose connection failed goes with the session.
Destroyed(s) ==
    /\ kstate' = [kstate EXCEPT ![s] = "gone"]
    /\ kconn' = [kconn EXCEPT ![s] = "none"]
    /\ cache' = [cache EXCEPT ![s] = "none"]
    /\ named' = [named EXCEPT ![s] = FALSE]
    /\ dropped' = (dropped \/ (kstate[s] # "FREE" /\ cache[s] = "dirty"))
    /\ emit(<<"destroy", s>>)

destroyKernelSession(o, ok) ==
    LET s == obj[o].sid IN
    \/ /\ ok /\ Exists(s) /\ isFine
       /\ Destroyed(s)
    \/ /\ ok /\ ~Exists(s) /\ isFine            \* sessionVanished
       /\ UNCHANGED <<kstate, kconn, named, cache, dropped, kevents>>
    \/ /\ ~ok /\ Exists(s) /\ isFault
       /\ \/ UNCHANGED kconn
          \/ kconn' = [kconn EXCEPT ![s] = "none"]
       /\ kstate' = [kstate EXCEPT ![s] = IF @ = "LOGGED_IN" THEN "FAILED" ELSE @]
       /\ UNCHANGED <<named, cache, dropped, kevents>>

\* establish gives up: the session object is forgotten whatever the kernel
\* answered.
establishFails ==
    LET o == On(User) IN
    /\ isAt(User, "fail")
    /\ \E ok \in BOOLEAN : destroyKernelSession(o, ok)
    /\ obj' = Unlocked(Forgotten(obj, o), o)
    /\ forgetIndexes(o)
    /\ actor' = CancelOf(Went(actor, User, "idle"), o)
    /\ UNCHANGED <<sup, inUse, isCalls, isRestarts>>

\* The disk appears and the volume is staged on it, or Attach rolls back.
DeviceForLUN ==
    LET s == Sid(User) IN
    /\ isAt(User, "device")
    /\ \/ /\ kstate[s] = "LOGGED_IN" /\ isFine
          /\ cache' = [cache EXCEPT ![s] = IF @ = "none" THEN "clean" ELSE @]
          /\ inUse' = TRUE
          /\ isGoto(User, "idle")
       \/ /\ isFault \/ (kstate[s] # "LOGGED_IN" /\ isFine)
          /\ isGoto(User, "lookup")
          /\ UNCHANGED <<cache, inUse>>
    /\ UNCHANGED <<kstate, kconn, named, kevents, obj, byKey, bySID, sup, dropped,
                   isCalls, isRestarts>>

\* The volume is unmounted before it is detached.
Detach ==
    /\ isAt(User, "idle")
    /\ isCalls < IsMaxCalls /\ isCalls' = isCalls + 1
    /\ inUse' = FALSE
    /\ isGoto(User, "lookup")
    /\ UNCHANGED <<kernel, kevents, obj, byKey, bySID, sup, dropped, isFaults, isRestarts>>

\* What sysfs shows of this target: a name, a portal and a connection.
Adoptable(s) == Exists(s) /\ named[s] /\ kconn[s] # "none"

\* What is known of an adopted session: nothing of its connection, which is
\* stopped before it is bound again.
sessionFromSysfs(s) ==
    [newSession EXCEPT !.made = TRUE, !.sid = s, !.phase = "Established", !.needStop = TRUE]

\* adopt registers a listed session no object stands for, one per target
\* portal.
adopt(found) ==
    LET new == {s \in found : bySID[s] = 0} IN
    IF byKey # 0 \/ new = {} \/ Spare = {} THEN UNCHANGED <<obj, byKey, bySID>>
    ELSE \E s \in new :
            /\ \A t \in new : s <= t
            /\ obj' = [obj EXCEPT ![Fresh] = sessionFromSysfs(s)]
            /\ byKey' = Fresh
            /\ bySID' = [bySID EXCEPT ![s] = Fresh]

\* Logout: lookup, and the wait for the session lock.
Logout ==
    /\ isAt(User, "lookup")
    /\ adopt({s \in Sids : Adoptable(s)})
    /\ actor' = [actor EXCEPT ![User].pc = IF byKey' = 0 THEN "idle" ELSE "wait",
                              ![User].on = IF byKey' = 0 THEN 1 ELSE byKey']
    /\ UNCHANGED <<kernel, kevents, sup, inUse, dropped, bounds>>

LogoutLocked ==
    LET o == On(User) IN
    /\ isAt(User, "wait") /\ obj[o].op = "free"
    /\ obj' = IF obj[o].phase = "Removed" THEN obj ELSE [obj EXCEPT ![o].op = User]
    /\ isGoto(User, CASE obj[o].phase = "Removed" -> "idle"
                      [] obj[o].phase = "LoggingOut" -> "destroy"
                      [] OTHER -> "teardown")
    /\ UNCHANGED <<kernel, kevents, byKey, bySID, sup, inUse, dropped, bounds>>

refuseNothing(s, o) == FALSE

\* refuseRecoveringLogout: the kernel queues I/O of the disk.
refuseRecoveringLogout(s, o) ==
    kstate[s] = "FAILED" /\ cache[s] # "none" /\ ~obj[o].connDestroyed

\* markLoggingOut.
LoggingOut(o) ==
    /\ obj' = [obj EXCEPT ![o].phase = "LoggingOut"]

beginTeardown ==
    LET o == On(User) s == Sid(User) IN
    /\ isAt(User, "teardown")
    /\ IF refuseRecoveringLogout(s, o)
       THEN /\ FreeLoops # {}
            /\ obj' = Unlocked(Scheduled(obj, o), o)
            /\ actor' = Went(Started(obj, actor, o), User, "idle")
       ELSE /\ LoggingOut(o)
            /\ actor' = [CancelOf(actor, o) EXCEPT ![User].pc =
                  IF cache[s] = "none" \/ kstate[s] # "LOGGED_IN" \/ obj[o].connDestroyed
                  THEN "destroy" ELSE "flush"]
    /\ UNCHANGED <<kernel, kevents, byKey, bySID, sup, inUse, dropped, bounds>>

\* resumeAfterFailedLogout: established again, and checked at once.
Resumed(o) == [obj EXCEPT ![o].phase = IF @ = "LoggingOut" THEN "Established" ELSE @]
Healthy(s) == kstate[s] = "LOGGED_IN" /\ kconn[s] = "up"

\* flushAndDeleteDevice: the fsync waits while the session is FAILED, and
\* fails once the kernel failed the queued I/O.
flushAndDeleteDevice ==
    LET o == On(User) s == Sid(User) IN
    /\ isAt(User, "flush") /\ kstate[s] # "FAILED"
    /\ \/ /\ kstate[s] = "LOGGED_IN" /\ isFine
          /\ cache' = [cache EXCEPT ![s] = "none"]
          /\ isGoto(User, "destroy")
          /\ UNCHANGED <<obj, byKey, bySID>>
       \/ /\ isFault \/ (kstate[s] # "LOGGED_IN" /\ isFine)
          /\ UNCHANGED cache
          /\ IF ~Exists(s)
             THEN /\ obj' = Unlocked(Forgotten(obj, o), o)
                  /\ forgetIndexes(o)
                  /\ isGoto(User, "idle")
             ELSE /\ FreeLoops # {}
                  /\ obj' = Unlocked(IF Healthy(s) THEN Resumed(o)
                                     ELSE Scheduled(Resumed(o), o), o)
                  /\ actor' = Went(IF Healthy(s) THEN actor ELSE Started(Resumed(o), actor, o), User, "idle")
                  /\ UNCHANGED <<byKey, bySID>>
    /\ UNCHANGED <<kstate, kconn, named, kevents, sup, inUse, dropped, isCalls, isRestarts>>

\* A teardown that started is only completed by a retried Logout.
finishLogout ==
    LET o == On(User) IN
    /\ isAt(User, "destroy")
    /\ \E ok \in BOOLEAN :
          /\ destroyKernelSession(o, ok)
          /\ IF ok
             THEN /\ obj' = Unlocked(Forgotten(obj, o), o)
                  /\ forgetIndexes(o)
                  /\ actor' = Went(CancelOf(actor, o), User, "idle")
             ELSE /\ obj' = Unlocked([obj EXCEPT ![o].connDestroyed =
                                        (kconn'[obj[o].sid] = "none")], o)
                  /\ isGoto(User, "idle")
                  /\ UNCHANGED <<byKey, bySID>>
    /\ UNCHANGED <<sup, inUse, isCalls, isRestarts>>

----------------------------------------------------------------------------
(* Recovery.                                                               *)

\* recoverLoop takes the session lock unless it was cancelled.
recoverLock(l) ==
    /\ isAt(l, "lock")
    /\ IF actor[l].cancelled
       THEN actor' = [actor EXCEPT ![l] = idleActor] /\ UNCHANGED obj
       ELSE /\ obj[On(l)].op = "free"
            /\ obj' = [obj EXCEPT ![On(l)].op = l]
            /\ isGoto(l, "once")
    /\ UNCHANGED <<kernel, kevents, byKey, bySID, sup, inUse, dropped, bounds>>

\* recoverOnce: a session that is gone is forgotten; a bound connection is
\* stopped before a new socket is bound.
recoverOnce(l) ==
    LET o == On(l) s == Sid(l) IN
    /\ isAt(l, "once")
    /\ \/ /\ ~Exists(s) /\ isFine
          /\ obj' = Unlocked(Forgotten(obj, o), o)
          /\ forgetIndexes(o)
          /\ actor' = [actor EXCEPT ![l] = idleActor]
          /\ UNCHANGED kconn
       \/ /\ Exists(s) /\ isFine
          /\ kconn' = [kconn EXCEPT ![s] = IF obj[o].needStop /\ @ # "none" THEN "stopped" ELSE @]
          /\ obj' = [obj EXCEPT ![o].needStop = FALSE]
          /\ isGoto(l, "bind")
          /\ UNCHANGED <<byKey, bySID>>
       \/ /\ Exists(s) /\ obj[o].needStop /\ isFault
          /\ isGoto(l, "sleep")
          /\ UNCHANGED <<kconn, obj, byKey, bySID>>
    /\ kstate' = [kstate EXCEPT ![s] = IF kconn'[s] = "stopped" /\ @ = "LOGGED_IN"
                                       THEN "FAILED" ELSE @]
    /\ UNCHANGED <<named, cache, kevents, sup, inUse, dropped, isCalls, isRestarts>>

\* The lock is released between attempts.
recoverSleep(l) ==
    /\ isAt(l, "sleep")
    /\ obj' = Unlocked(obj, On(l))
    /\ actor' = [actor EXCEPT ![l] = IF @.cancelled THEN idleActor ELSE [@ EXCEPT !.pc = "lock"]]
    /\ UNCHANGED <<kernel, kevents, byKey, bySID, sup, inUse, dropped, bounds>>

\* After the lock is released the loop declares the session established,
\* unless someone moved it on.
recoverSettled(l) ==
    LET o == On(l) IN
    /\ isAt(l, "settle")
    /\ obj' = IF obj[o].phase = "Recovering"
              THEN [obj EXCEPT ![o].phase = "Established", ![o].cancel = User] ELSE obj
    /\ actor' = [actor EXCEPT ![l] = idleActor]
    /\ UNCHANGED <<kernel, kevents, byKey, bySID, sup, inUse, dropped, bounds>>

----------------------------------------------------------------------------
(* Events and the supervisor.                                              *)

\* route: events of sessions no object stands for are dropped.
routeConnError(s) ==
    LET o == bySID[s] IN
    /\ <<"error", s>> \in kevents /\ kevents' = kevents \ {<<"error", s>>}
    /\ IF o = 0 THEN UNCHANGED <<obj, actor>>
       ELSE /\ FreeLoops # {}
            /\ obj' = Scheduled(obj, o) /\ actor' = Started(obj, actor, o)
    /\ UNCHANGED <<kernel, byKey, bySID, sup, inUse, dropped, bounds>>

routeDestroy(s) ==
    LET o == bySID[s] IN
    /\ <<"destroy", s>> \in kevents /\ kevents' = kevents \ {<<"destroy", s>>}
    /\ IF o # 0 /\ obj[o].phase \in {"Established", "Recovering", "LoggingOut"}
       THEN obj' = Forgotten(obj, o) /\ forgetIndexes(o) /\ actor' = CancelOf(actor, o)
       ELSE UNCHANGED <<obj, byKey, bySID, actor>>
    /\ UNCHANGED <<kernel, sup, inUse, dropped, bounds>>

\* The netlink buffer overruns.
EventLost(e) ==
    /\ isFault
    /\ kevents' = kevents \ {e}
    /\ UNCHANGED <<kernel, obj, byKey, bySID, actor, sup, inUse, dropped, isCalls, isRestarts>>

\* scanOnce reads sysfs, then registers what it read, then checks every
\* session it saw established.
scanOnce ==
    /\ sup = noScan
    /\ sup' = [listed |-> {s \in Sids : Adoptable(s)}, check |-> {0}]
    /\ UNCHANGED <<kernel, kevents, obj, byKey, bySID, actor, inUse, dropped, bounds>>

scanAdopts ==
    /\ sup.check = {0}
    /\ adopt(sup.listed)
    /\ sup' = [listed |-> {}, check |-> {o \in Objs : byKey' = o /\ obj'[o].phase = "Established"}]
    /\ UNCHANGED <<kernel, kevents, actor, inUse, dropped, bounds>>

checkNothing(o) ==
    /\ o # 0 /\ sup' = [sup EXCEPT !.check = @ \ {o}]
    /\ UNCHANGED <<obj, byKey, bySID, actor>>

checkSession(o) ==
    LET s == obj[o].sid IN
    /\ o # 0 /\ sup' = [sup EXCEPT !.check = @ \ {o}]
    /\ IF ~Exists(s)
       THEN obj' = Forgotten(obj, o) /\ forgetIndexes(o) /\ actor' = CancelOf(actor, o)
       ELSE IF Healthy(s) THEN UNCHANGED <<obj, byKey, bySID, actor>>
       ELSE /\ FreeLoops # {}
            /\ obj' = Scheduled(obj, o) /\ actor' = Started(obj, actor, o)
            /\ UNCHANGED <<byKey, bySID>>

scanChecks ==
    /\ \E o \in sup.check : checkSession(o)
    /\ UNCHANGED <<kernel, kevents, inUse, dropped, bounds>>

----------------------------------------------------------------------------
(* The kernel and the machine.                                             *)

Write(s) ==
    /\ inUse /\ cache[s] = "clean" /\ kstate[s] \in {"LOGGED_IN", "FAILED"}
    /\ cache' = [cache EXCEPT ![s] = "dirty"]
    /\ UNCHANGED <<kstate, kconn, named, kevents, obj, byKey, bySID, actor, sup, inUse,
                   dropped, bounds>>

ConnFails(s) ==
    /\ kstate[s] = "LOGGED_IN" /\ isFault
    /\ kstate' = [kstate EXCEPT ![s] = "FAILED"]
    /\ kconn' = [kconn EXCEPT ![s] = "down"]
    /\ emit(<<"error", s>>)
    /\ UNCHANGED <<named, cache, obj, byKey, bySID, actor, sup, inUse, dropped,
                   isCalls, isRestarts>>

\* recovery_tmo expires: the queued I/O fails.
RecoveryTimesOut(s) ==
    /\ kstate[s] = "FAILED"
    /\ kstate' = [kstate EXCEPT ![s] = "FREE"]
    /\ cache' = [cache EXCEPT ![s] = IF @ = "dirty" THEN "clean" ELSE @]
    /\ UNCHANGED <<kconn, named, kevents, obj, byKey, bySID, actor, sup, inUse, dropped, bounds>>

\* Someone else on the node removes the session.
SessionRemoved(s) ==
    /\ Exists(s) /\ named[s] /\ isFault
    /\ kstate' = [kstate EXCEPT ![s] = "gone"]
    /\ kconn' = [kconn EXCEPT ![s] = "none"]
    /\ cache' = [cache EXCEPT ![s] = "none"]
    /\ named' = [named EXCEPT ![s] = FALSE]
    /\ emit(<<"destroy", s>>)
    /\ UNCHANGED <<obj, byKey, bySID, actor, sup, inUse, dropped, isCalls, isRestarts>>

\* The process restarts; the kernel keeps its sessions.  Start adopts them
\* before any call is served.
Start ==
    LET found == {s \in Sids : Adoptable(s)} IN
    /\ isRestarts < IsMaxRestarts /\ isRestarts' = isRestarts + 1
    /\ \/ /\ found = {}
          /\ obj' = [o \in Objs |-> newSession]
          /\ byKey' = 0 /\ bySID' = [s \in Sids |-> 0]
       \/ \E first \in found :
             /\ \A t \in found : first <= t
             /\ obj' = [o \in Objs |-> IF o = 1 THEN sessionFromSysfs(first) ELSE newSession]
             /\ byKey' = 1 /\ bySID' = [s \in Sids |-> IF s = first THEN 1 ELSE 0]
    /\ actor' = [x \in Actors |-> idleActor]
    /\ sup' = noScan /\ kevents' = {}
    /\ UNCHANGED <<kernel, inUse, dropped, isCalls, isFaults>>

VolumeCall ==
    \/ Login \/ LoginFound \/ createSession \/ createConn \/ establishFails
    \/ DeviceForLUN \/ Detach \/ Logout \/ LogoutLocked \/ beginTeardown
    \/ flushAndDeleteDevice \/ finishLogout
    \/ bindEndpoint(User) \/ loginOnce(User) \/ startConn(User)

RecoverStep(l) ==
    \/ recoverLock(l) \/ recoverOnce(l) \/ recoverSleep(l) \/ recoverSettled(l)
    \/ bindEndpoint(l) \/ loginOnce(l) \/ startConn(l)

Supervise == scanOnce \/ scanAdopts \/ scanChecks

IsNext ==
    \/ VolumeCall
    \/ \E l \in RecoverLoops : RecoverStep(l)
    \/ Supervise
    \/ \E s \in Sids : \/ routeConnError(s) \/ routeDestroy(s)
                       \/ Write(s) \/ ConnFails(s) \/ RecoveryTimesOut(s)
                       \/ SessionRemoved(s)
    \/ \E e \in kevents : EventLost(e)
    \/ Start

\* Goroutines keep running, the supervisor's ticker keeps firing and the
\* kernel's timer expires.
IsFairness ==
    /\ WF_isVars(Supervise)
    /\ \A l \in RecoverLoops : WF_isVars(RecoverStep(l))
    /\ WF_isVars(VolumeCall /\ ~isAt(User, "idle"))
    /\ \A s \in Sids : WF_isVars(RecoveryTimesOut(s))

IsSpec == IsInit /\ [][IsNext]_isVars /\ IsFairness

IsTypeOK ==
    /\ kstate \in [Sids -> {"none", "FREE", "LOGGED_IN", "FAILED", "gone"}]
    /\ kconn \in [Sids -> {"none", "new", "bound", "stopped", "up", "down"}]
    /\ cache \in [Sids -> {"none", "clean", "dirty"}]
    /\ byKey \in Objs \cup {0}
    /\ bySID \in [Sids -> Objs \cup {0}]

\* A logout never discards writes the kernel still queues for a session whose
\* connection failed, whatever recovery, event or scan runs beside it (Logout:
\* "Destroying the session would fail the queued writes, so Logout refuses").
QueuedWritesKept == ~dropped

\* The disk of a staged volume comes back: a session that lost its connection
\* while it carried a disk is logged in again, removed, or left to a logout
\* that started, even when its event was lost or the process restarted
\* (supervise: "the connection broke while this process was not running, or
\* an event was lost").
BrokenIsRecovered ==
    \A s \in Sids :
        (cache[s] # "none" /\ kconn[s] # "none" /\ ~Healthy(s)) ~>
            \/ Healthy(s) \/ ~Exists(s) \/ kconn[s] = "none"
            \/ \E o \in Objs : obj[o].sid = s /\ obj[o].phase = "LoggingOut"

=============================================================================
