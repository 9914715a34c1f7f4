------------------------ MODULE IscsiSession_proofs -------------------------
(***************************************************************************)
(* Proofs about IscsiSession, for every set of recovery goroutines and any *)
(* number of kernel sessions and session objects: no write the kernel      *)
(* queued for a session whose connection failed is discarded by a logout.  *)
(*                                                                         *)
(* That is not inductive.  A recovery goroutine, the supervisor and a CSI  *)
(* call hold one object at the same time, and what each will do next is    *)
(* decided by what it read before: the invariant says which object may     *)
(* speak of which kernel session, what the indexes refer to, and what a    *)
(* call may still assume of the object it carries.                         *)
(***************************************************************************)
EXTENDS IscsiSession, TLAPS

\* What the process keeps.
IsPhases == {"LoggingIn", "Established", "Recovering", "LoggingOut", "Removed"}
Sessions == [made : BOOLEAN, sid : Sids \cup {0}, phase : IsPhases, needStop : BOOLEAN,
             connDestroyed : BOOLEAN, sessionDestroyed : BOOLEAN, cancel : Actors, op : Actors \cup {"free"}]
IsPcs == {"idle", "found", "create", "conn", "bind", "login", "start", "fail", "device", "lookup", "wait",
          "teardown", "flush", "destroy", "lock", "once", "sleep", "settle"}
ActorStates == [pc : IsPcs, on : Objs, cancelled : BOOLEAN]

Scans == [listed : SUBSET Sids, check : SUBSET (Objs \cup {0})]

IsTyped ==
    /\ kstate \in [Sids -> {"none", "FREE", "LOGGED_IN", "FAILED", "gone"}]
    /\ kconn \in [Sids -> {"none", "new", "bound", "stopped", "up", "down"}]
    /\ cache \in [Sids -> {"none", "clean", "dirty"}]
    /\ obj \in [Objs -> Sessions]
    /\ byKey \in Objs \cup {0} /\ bySID \in [Sids -> Objs \cup {0}]
    /\ actor \in [Actors -> ActorStates]
    /\ sup \in Scans

\* Where the volume's call is.
UserIn(P) == actor[User].pc \in P
UserOn(o) == actor[User].on = o
LoginPcs == {"create", "conn", "bind", "login", "start", "fail"}
LogoutPcs == {"wait", "teardown", "flush", "destroy"}

\* The kernel session of the object was destroyed, and stays so.
Gone(o) == obj[o].sid \in Sids /\ kstate[obj[o].sid] = "gone"

\* A session that does not exist has no connection and no disk; the I/O of one
\* that gave up recovering has failed.
KernelInv ==
    /\ \A s \in Sids : /\ kstate[s] \in {"none", "gone"} => kconn[s] = "none" /\ cache[s] = "none"
                       /\ kstate[s] = "FREE" => cache[s] # "dirty"
                       /\ <<"destroy", s>> \in kevents => kstate[s] = "gone"

\* The life of a session object.  Only the one the target portal is looked up
\* by has not been removed, but for a teardown of a session that is gone.
ObjectInv ==
    \A o \in Objs :
      /\ ~obj[o].made => obj[o].sid = 0 /\ obj[o].phase = "Removed"
      /\ obj[o].phase \in {"Established", "Recovering", "LoggingOut"} => obj[o].sid \in Sids
      /\ obj[o].sid \in Sids => kstate[obj[o].sid] # "none"
      /\ obj[o].phase \in {"Established", "Recovering"} => ~obj[o].connDestroyed
      /\ obj[o].phase = "LoggingIn" => UserIn(LoginPcs) /\ UserOn(o)
      /\ obj[o].phase # "Removed" => byKey = o \/ (UserIn({"destroy"}) /\ UserOn(o) /\ Gone(o))
      /\ obj[o].phase = "LoggingOut" =>
           /\ ~inUse /\ ~UserIn({"device"})
           /\ cache[obj[o].sid] # "dirty" \/ (UserIn({"flush"}) /\ UserOn(o))

\* What the indexes, the loops and the supervisor refer to.
IndexInv ==
    /\ byKey # 0 => obj[byKey].phase # "Removed"
    /\ \A s \in Sids : bySID[s] # 0 => obj[bySID[s]].sid = s
    /\ \A l \in RecoverLoops :
         actor[l].pc # "idle" => obj[actor[l].on].sid \in Sids /\ obj[actor[l].on].phase # "LoggingIn"
    /\ \A s \in sup.listed : kstate[s] # "none"
    /\ \A o \in sup.check \ {0} : obj[o].sid \in Sids /\ obj[o].phase # "LoggingIn"

\* What each step of the volume's call finds.
CallInv ==
    LET o == actor[User].on IN
    /\ ~UserIn({"idle"}) => ~inUse
    /\ UserIn({"create"}) => obj[o].sid = 0
    /\ UserIn(LoginPcs) => obj[o].made /\ obj[o].phase = "LoggingIn" /\ byKey = o
    /\ UserIn(LoginPcs \ {"create"}) => obj[o].sid \in Sids /\ cache[obj[o].sid] = "none"
    /\ UserIn({"bind", "login", "start"}) => ~obj[o].connDestroyed
    /\ UserIn({"device"} \cup LogoutPcs) => obj[o].sid \in Sids
    /\ UserIn(LogoutPcs) /\ obj[o].phase = "Removed" => Gone(o)
    /\ UserIn({"teardown"}) => obj[o].phase # "LoggingOut"
    /\ UserIn({"flush", "destroy"}) => obj[o].phase \in {"LoggingOut", "Removed"}
    /\ UserIn({"flush"}) => ~obj[o].connDestroyed
    /\ UserIn({"destroy"}) => cache[obj[o].sid] # "dirty"
    /\ actor[User].pc \notin {"lock", "once", "sleep", "settle"}

IsInv == IsTyped /\ KernelInv /\ ObjectInv /\ IndexInv /\ CallInv /\ QueuedWritesKept

\* What the invariant reads of a session object.
Same(x, y) == x.made = y.made /\ x.sid = y.sid /\ x.phase = y.phase /\ x.connDestroyed = y.connDestroyed

\* The fields of the records.
LEMMA IsFields ==
    /\ newSession \in Sessions /\ idleActor \in ActorStates /\ 1 \in Objs /\ 0 \notin Sids /\ 0 \notin Objs
    /\ idleActor.pc = "idle" /\ idleActor.on = 1
    /\ newSession.made = FALSE /\ newSession.sid = 0 /\ newSession.phase = "Removed"
    /\ newSession.connDestroyed = FALSE
    /\ User \in Actors /\ RecoverLoops \subseteq Actors
<1>1. 1 \in Objs /\ 0 \notin Sids /\ 0 \notin Objs
  BY SMT, IsAssumption DEF Objs, Sids
<1>2. newSession \in Sessions
  BY Zenon DEF newSession, Sessions, IsPhases, Actors
<1>3. idleActor \in ActorStates
  BY Zenon, <1>1 DEF idleActor, ActorStates, IsPcs
<1>4. QED BY Zenon, <1>1, <1>2, <1>3 DEF idleActor, newSession, Actors

LEMMA SessionFields ==
    ASSUME NEW x \in Sessions
    PROVE  /\ x.made \in BOOLEAN /\ x.sid \in Sids \cup {0} /\ x.phase \in IsPhases
           /\ x.connDestroyed \in BOOLEAN /\ x.needStop \in BOOLEAN /\ x.op \in Actors \cup {"free"}
           /\ x.cancel \in Actors
  BY Zenon DEF Sessions

LEMMA ActorFields ==
    ASSUME NEW x \in ActorStates
    PROVE  x.pc \in IsPcs /\ x.on \in Objs /\ x.cancelled \in BOOLEAN
  BY Zenon DEF ActorStates

LEMMA ScanFields ==
    ASSUME NEW x \in Scans
    PROVE  x.listed \subseteq Sids /\ x.check \subseteq Objs \cup {0}
  BY Zenon DEF Scans

\* The changes of one field.
LEMMA SessionChanges ==
    ASSUME NEW x \in Sessions
    PROVE  /\ \A v \in Actors \cup {"free"} : [x EXCEPT !.op = v] \in Sessions /\ Same([x EXCEPT !.op = v], x)
           /\ \A v \in BOOLEAN : /\ [x EXCEPT !.needStop = v] \in Sessions
                                 /\ Same([x EXCEPT !.needStop = v], x)
           /\ \A v \in BOOLEAN : /\ [x EXCEPT !.connDestroyed = v] \in Sessions
                                 /\ [x EXCEPT !.connDestroyed = v].connDestroyed = v
                                 /\ Same([[x EXCEPT !.connDestroyed = v] EXCEPT !.connDestroyed = x.connDestroyed], x)
           /\ \A v \in IsPhases : /\ [x EXCEPT !.phase = v] \in Sessions
                                  /\ [x EXCEPT !.phase = v].phase = v
                                  /\ [x EXCEPT !.phase = v].made = x.made
                                  /\ [x EXCEPT !.phase = v].sid = x.sid
                                  /\ [x EXCEPT !.phase = v].connDestroyed = x.connDestroyed
  BY Zenon DEF Sessions, Same

LEMMA UnlockedIs ==
    ASSUME NEW f \in [Objs -> Sessions], NEW o \in Objs
    PROVE  Unlocked(f, o) \in [Objs -> Sessions] /\ \A p \in Objs : Same(Unlocked(f, o)[p], f[p])
<1>1. [f[o] EXCEPT !.op = "free"] \in Sessions /\ Same([f[o] EXCEPT !.op = "free"], f[o])
  BY Zenon, SessionChanges
<1>2. Unlocked(f, o) = [f EXCEPT ![o] = [f[o] EXCEPT !.op = "free"]]
  BY Zenon DEF Unlocked
<1>3. QED BY Zenon, <1>1, <1>2 DEF Same

LEMMA ForgottenIs ==
    ASSUME NEW f \in [Objs -> Sessions], NEW o \in Objs
    PROVE  /\ Forgotten(f, o) \in [Objs -> Sessions]
           /\ \A p \in Objs \ {o} : Forgotten(f, o)[p] = f[p]
           /\ Forgotten(f, o)[o].made /\ Forgotten(f, o)[o].sid = f[o].sid
           /\ Forgotten(f, o)[o].phase = "Removed" /\ ~Forgotten(f, o)[o].connDestroyed
<1> DEFINE x == [newSession EXCEPT !.made = TRUE, !.sid = f[o].sid, !.op = f[o].op]
<1>1. newSession \in Sessions /\ f[o].sid \in Sids \cup {0} /\ f[o].op \in Actors \cup {"free"}
  BY Zenon, SessionFields, IsFields
<1>2. /\ x \in Sessions /\ x.made /\ x.sid = f[o].sid
      /\ x.phase = newSession.phase /\ x.connDestroyed = newSession.connDestroyed
  BY Zenon, <1>1 DEF Sessions
<1>3. Forgotten(f, o) = [f EXCEPT ![o] = x]
  BY Zenon DEF Forgotten
<1> HIDE DEF x
<1>4. QED BY Zenon, <1>2, <1>3, IsFields

LEMMA ScheduledIs ==
    ASSUME NEW f \in [Objs -> Sessions], NEW o \in Objs, FreeLoops # {}
    PROVE  /\ Scheduled(f, o) \in [Objs -> Sessions]
           /\ \A p \in Objs \ {o} : Scheduled(f, o)[p] = f[p]
           /\ Scheduled(f, o)[o].made = f[o].made /\ Scheduled(f, o)[o].sid = f[o].sid
           /\ Scheduled(f, o)[o].connDestroyed = f[o].connDestroyed
           /\ Scheduled(f, o)[o].phase = IF f[o].phase = "Established" THEN "Recovering" ELSE f[o].phase
<1>1. Slot \in Actors
  BY Zenon DEF Slot, FreeLoops, Actors
<1>2. CASE f[o].phase = "Established"
  <2>1. [f[o] EXCEPT !.phase = "Recovering", !.cancel = Slot] \in Sessions
    BY Zenon, <1>1 DEF Sessions, IsPhases
  <2>2. Scheduled(f, o) = [f EXCEPT ![o] = [f[o] EXCEPT !.phase = "Recovering", !.cancel = Slot]]
    BY Zenon, <1>2 DEF Scheduled
  <2>3. f[o] \in Sessions
    BY Zenon
  <2>4. /\ [f[o] EXCEPT !.phase = "Recovering", !.cancel = Slot].made = f[o].made
        /\ [f[o] EXCEPT !.phase = "Recovering", !.cancel = Slot].sid = f[o].sid
        /\ [f[o] EXCEPT !.phase = "Recovering", !.cancel = Slot].connDestroyed = f[o].connDestroyed
        /\ [f[o] EXCEPT !.phase = "Recovering", !.cancel = Slot].phase = "Recovering"
    BY Zenon, <2>3 DEF Sessions
  <2>5. QED BY Zenon, <1>2, <2>1, <2>2, <2>4
<1>3. CASE f[o].phase # "Established"
  BY Zenon, <1>3 DEF Scheduled
<1>4. QED BY Zenon, <1>2, <1>3

LEMMA StartedIs ==
    ASSUME NEW f \in [Objs -> Sessions], NEW a \in [Actors -> ActorStates], NEW o \in Objs, FreeLoops # {}
    PROVE  /\ Started(f, a, o) \in [Actors -> ActorStates] /\ Started(f, a, o)[User] = a[User]
           /\ \A l \in RecoverLoops : \/ Started(f, a, o)[l] = a[l]
                                      \/ Started(f, a, o)[l].on = o /\ f[o].phase = "Established"
<1>1. Slot \in RecoverLoops /\ Slot # User /\ Slot \in Actors
  BY Zenon, IsAssumption DEF Slot, FreeLoops, Actors
<1>2. [pc |-> "lock", on |-> o, cancelled |-> FALSE] \in ActorStates
  BY Zenon DEF ActorStates, IsPcs
<1>3. QED BY Zenon, <1>1, <1>2, IsFields DEF Started

LEMMA WentIs ==
    ASSUME NEW a \in [Actors -> ActorStates], NEW x \in Actors, NEW pc \in IsPcs
    PROVE  /\ Went(a, x, pc) \in [Actors -> ActorStates]
           /\ \A y \in Actors \ {x} : Went(a, x, pc)[y] = a[y]
           /\ Went(a, x, pc)[x].pc = pc /\ (pc # "idle" => Went(a, x, pc)[x].on = a[x].on)
<1>1. [a[x] EXCEPT !.pc = pc] \in ActorStates /\ [a[x] EXCEPT !.pc = pc].pc = pc
      /\ [a[x] EXCEPT !.pc = pc].on = a[x].on
  <2>1. a[x] \in ActorStates
    BY Zenon
  <2>2. QED BY Zenon, <2>1 DEF ActorStates
<1>2. QED BY Zenon, <1>1, IsFields DEF Went

LEMMA CancelIs ==
    ASSUME NEW a \in [Actors -> ActorStates], NEW o \in Objs
    PROVE  /\ CancelOf(a, o) \in [Actors -> ActorStates] /\ CancelOf(a, o)[User] = a[User]
           /\ \A x \in Actors : CancelOf(a, o)[x].pc = a[x].pc /\ CancelOf(a, o)[x].on = a[x].on
<1>1. \A x \in Actors : /\ [a[x] EXCEPT !.cancelled = TRUE] \in ActorStates
                        /\ [a[x] EXCEPT !.cancelled = TRUE].pc = a[x].pc
                        /\ [a[x] EXCEPT !.cancelled = TRUE].on = a[x].on
  <2>1. SUFFICES ASSUME NEW y \in ActorStates
                 PROVE /\ [y EXCEPT !.cancelled = TRUE] \in ActorStates
                       /\ [y EXCEPT !.cancelled = TRUE].pc = y.pc
                       /\ [y EXCEPT !.cancelled = TRUE].on = y.on
    BY Zenon
  <2>2. QED BY Zenon DEF ActorStates
<1>2. User \in Actors /\ User \notin RecoverLoops
  BY Zenon, IsFields, IsAssumption
<1>3. QED BY Zenon, <1>1, <1>2 DEF CancelOf

LEMMA IndexesForgotten ==
    ASSUME byKey \in Objs \cup {0}, bySID \in [Sids -> Objs \cup {0}], NEW o \in Objs, forgetIndexes(o)
    PROVE  /\ byKey' \in Objs \cup {0} /\ bySID' \in [Sids -> Objs \cup {0}]
           /\ byKey' # o /\ (byKey' # 0 => byKey' = byKey) /\ (byKey # o => byKey' = byKey)
           /\ \A s \in Sids : bySID'[s] # 0 => bySID'[s] = bySID[s] /\ bySID'[s] # o
  BY Zenon, IsFields DEF forgetIndexes

\* Steps beside the volume's call that remove no object and destroy no session.
ObjectsKept ==
    \A o \in Objs :
      /\ obj'[o].made = obj[o].made /\ obj'[o].sid = obj[o].sid
      /\ obj'[o].connDestroyed => obj[o].connDestroyed
      /\ \/ obj'[o].phase = obj[o].phase
         \/ obj[o].phase \in {"Established", "Recovering"} /\ obj'[o].phase \in {"Established", "Recovering"}

KernelKept ==
    \A s \in Sids :
      /\ \/ kstate'[s] = kstate[s]
         \/ /\ kstate[s] \notin {"none", "gone"} /\ kstate'[s] \notin {"none", "gone"}
            /\ kstate'[s] = "FREE" => cache'[s] # "dirty"
      /\ kstate[s] \in {"none", "gone"} => kconn'[s] = "none"
      /\ cache'[s] = cache[s] \/ (cache[s] = "dirty" /\ cache'[s] = "clean")
      /\ <<"destroy", s>> \in kevents' => <<"destroy", s>> \in kevents

RefsKept ==
    /\ \A l \in RecoverLoops :
         actor'[l].pc # "idle" => obj[actor'[l].on].sid \in Sids /\ obj[actor'[l].on].phase # "LoggingIn"
    /\ sup'.check \ {0} \subseteq sup.check /\ \A s \in sup'.listed : kstate[s] # "none"

\* The call stands still, or goes on with its login.
CallKept ==
    \/ actor'[User] = actor[User]
    \/ /\ actor[User].pc \in LoginPcs /\ actor'[User].pc \in LoginPcs
       /\ actor'[User].on = actor[User].on /\ CallInv'

LEMMA QuietStep ==
    ASSUME IsInv, IsTyped', UNCHANGED <<byKey, bySID, inUse, dropped>>,
           ObjectsKept, KernelKept, RefsKept, CallKept
    PROVE  IsInv'
<1>0. IsTyped /\ KernelInv /\ ObjectInv /\ IndexInv /\ CallInv
  BY Zenon DEF IsInv
<1>1. /\ \A o \in Objs : obj[o] \in Sessions /\ obj'[o] \in Sessions
      /\ actor[User].on \in Objs /\ \A l \in RecoverLoops : actor'[l].on \in Objs
      /\ byKey \in Objs \cup {0} /\ \A s \in Sids : bySID[s] \in Objs \cup {0}
  BY Zenon, <1>0, IsFields, ActorFields DEF IsTyped
<1>2. KernelInv'
  BY Zenon, <1>0 DEF KernelInv, KernelKept
<1>3. \A o \in Objs : obj[o].sid \in Sids => /\ kstate[obj[o].sid] = "gone" <=> kstate'[obj'[o].sid] = "gone"
                                             /\ kstate'[obj'[o].sid] # "none"
                                             /\ cache[obj[o].sid] # "dirty" => cache'[obj'[o].sid] # "dirty"
                                             /\ cache[obj[o].sid] = "none" => cache'[obj'[o].sid] = "none"
  <2>1. \A s \in Sids : /\ kstate[s] = "gone" <=> kstate'[s] = "gone"
                        /\ kstate[s] # "none" => kstate'[s] # "none"
                        /\ cache[s] # "dirty" => cache'[s] # "dirty"
                        /\ cache[s] = "none" => cache'[s] = "none"
    BY Zenon DEF KernelKept
  <2>2. \A o \in Objs : obj'[o].sid = obj[o].sid /\ (obj[o].sid \in Sids => kstate[obj[o].sid] # "none")
    BY Zenon, <1>0 DEF ObjectsKept, ObjectInv
  <2>3. QED BY Zenon, <2>1, <2>2
<1>4. ObjectInv'
  <2>1. SUFFICES ASSUME NEW o \in Objs
        PROVE  (/\ ~obj[o].made => obj[o].sid = 0 /\ obj[o].phase = "Removed"
                /\ obj[o].phase \in {"Established", "Recovering", "LoggingOut"} => obj[o].sid \in Sids
                /\ obj[o].sid \in Sids => kstate[obj[o].sid] # "none"
                /\ obj[o].phase \in {"Established", "Recovering"} => ~obj[o].connDestroyed
                /\ obj[o].phase = "LoggingIn" => UserIn(LoginPcs) /\ UserOn(o)
                /\ obj[o].phase # "Removed" => byKey = o \/ (UserIn({"destroy"}) /\ UserOn(o) /\ Gone(o))
                /\ obj[o].phase = "LoggingOut" =>
                     /\ ~inUse /\ ~UserIn({"device"})
                     /\ cache[obj[o].sid] # "dirty" \/ (UserIn({"flush"}) /\ UserOn(o)))'
    BY Zenon DEF ObjectInv
  <2>2. /\ obj'[o].made = obj[o].made /\ obj'[o].sid = obj[o].sid
        /\ obj'[o].connDestroyed => obj[o].connDestroyed
        /\ \/ obj'[o].phase = obj[o].phase
           \/ obj[o].phase \in {"Established", "Recovering"} /\ obj'[o].phase \in {"Established", "Recovering"}
    BY Zenon DEF ObjectsKept
  <2>3. /\ ~obj[o].made => obj[o].sid = 0 /\ obj[o].phase = "Removed"
        /\ obj[o].phase \in {"Established", "Recovering", "LoggingOut"} => obj[o].sid \in Sids
        /\ obj[o].sid \in Sids => kstate[obj[o].sid] # "none"
        /\ obj[o].phase \in {"Established", "Recovering"} => ~obj[o].connDestroyed
        /\ obj[o].phase = "LoggingIn" => UserIn(LoginPcs) /\ UserOn(o)
        /\ obj[o].phase # "Removed" => byKey = o \/ (UserIn({"destroy"}) /\ UserOn(o) /\ Gone(o))
        /\ obj[o].phase = "LoggingOut" =>
             /\ ~inUse /\ ~UserIn({"device"})
             /\ cache[obj[o].sid] # "dirty" \/ (UserIn({"flush"}) /\ UserOn(o))
    BY Zenon, <1>0 DEF ObjectInv
  <2>4. (~obj[o].made => obj[o].sid = 0 /\ obj[o].phase = "Removed")'
    BY Zenon, <2>2, <2>3
  <2>5. (/\ obj[o].phase \in {"Established", "Recovering", "LoggingOut"} => obj[o].sid \in Sids
         /\ obj[o].sid \in Sids => kstate[obj[o].sid] # "none"
         /\ obj[o].phase \in {"Established", "Recovering"} => ~obj[o].connDestroyed)'
    BY Zenon, <1>3, <2>2, <2>3
  <2>6. (obj[o].phase = "LoggingIn" => UserIn(LoginPcs) /\ UserOn(o))'
    BY Zenon, <2>2, <2>3 DEF CallKept, UserIn, UserOn
  <2>7. (obj[o].phase # "Removed" => byKey = o \/ (UserIn({"destroy"}) /\ UserOn(o) /\ Gone(o)))'
    <3>1. UserIn({"destroy"}) => actor'[User] = actor[User]
      BY Zenon DEF CallKept, UserIn, LoginPcs
    <3>2. QED BY Zenon, <1>3, <2>2, <2>3, <3>1 DEF UserIn, UserOn, Gone
  <2>8. (obj[o].phase = "LoggingOut" =>
            /\ ~inUse /\ ~UserIn({"device"})
            /\ cache[obj[o].sid] # "dirty" \/ (UserIn({"flush"}) /\ UserOn(o)))'
    <3>1. /\ UserIn({"flush"}) => actor'[User] = actor[User]
          /\ actor'[User].pc = "device" => actor'[User] = actor[User]
      BY Zenon DEF CallKept, UserIn, LoginPcs
    <3>2. QED BY Zenon, <1>3, <2>2, <2>3, <3>1 DEF UserIn, UserOn
  <2>9. QED BY Zenon, <2>4, <2>5, <2>6, <2>7, <2>8
<1>5. IndexInv'
  <2>1. byKey' # 0 => obj'[byKey'].phase # "Removed"
    BY Zenon, <1>0, <1>1 DEF IndexInv, ObjectsKept
  <2>2. \A s \in Sids : bySID'[s] # 0 => obj'[bySID'[s]].sid = s
    BY Zenon, <1>0, <1>1 DEF IndexInv, ObjectsKept
  <2>3. \A l \in RecoverLoops :
           actor'[l].pc # "idle" => obj'[actor'[l].on].sid \in Sids /\ obj'[actor'[l].on].phase # "LoggingIn"
    BY Zenon, <1>1 DEF RefsKept, ObjectsKept
  <2>4. \A o \in sup'.check \ {0} : o \in Objs /\ obj'[o].sid \in Sids /\ obj'[o].phase # "LoggingIn"
    BY Zenon, <1>0, ScanFields DEF RefsKept, IndexInv, ObjectsKept, IsTyped
  <2>5. \A s \in sup'.listed : kstate'[s] # "none"
    <3>1. sup'.listed \subseteq Sids
      BY Zenon, ScanFields DEF IsTyped
    <3>2. QED BY Zenon, <3>1 DEF RefsKept, KernelKept
  <2>6. QED BY Zenon, <2>1, <2>2, <2>3, <2>4, <2>5 DEF IndexInv
<1>6. CallInv'
  <2>1. CASE actor'[User] = actor[User]
    <3>1. PICK o \in Objs : o = actor[User].on /\ o = actor'[User].on
      BY Zenon, <1>1, <2>1
    <3>2. /\ obj'[o].made = obj[o].made /\ obj'[o].sid = obj[o].sid
          /\ obj'[o].connDestroyed => obj[o].connDestroyed
          /\ \/ obj'[o].phase = obj[o].phase
             \/ obj[o].phase \in {"Established", "Recovering"} /\ obj'[o].phase \in {"Established", "Recovering"}
      BY Zenon DEF ObjectsKept
    <3>3. /\ obj[o].sid \in Sids /\ cache[obj[o].sid] # "dirty" => cache'[obj'[o].sid] # "dirty"
          /\ obj[o].sid \in Sids /\ cache[obj[o].sid] = "none" => cache'[obj'[o].sid] = "none"
          /\ Gone(o) => Gone(o)'
      BY Zenon, <1>3, <3>2 DEF Gone
    <3>4. QED BY ZenonT(30), <1>0, <2>1, <3>1, <3>2, <3>3 DEF CallInv, UserIn, LogoutPcs
  <2>2. QED BY Zenon, <2>1 DEF CallKept
<1>7. QED BY Zenon, <1>2, <1>4, <1>5, <1>6 DEF IsInv, QueuedWritesKept

\* A change of the lock or of needStop.
LEMMA LockIs ==
    ASSUME NEW f \in [Objs -> Sessions], NEW o \in Objs, NEW v \in Actors \cup {"free"}
    PROVE  /\ [f EXCEPT ![o].op = v] \in [Objs -> Sessions]
           /\ \A p \in Objs : Same([f EXCEPT ![o].op = v][p], f[p])
<1>1. [f[o] EXCEPT !.op = v] \in Sessions /\ Same([f[o] EXCEPT !.op = v], f[o])
  BY Zenon, SessionChanges
<1>2. [f EXCEPT ![o].op = v] = [f EXCEPT ![o] = [f[o] EXCEPT !.op = v]]
  BY Zenon
<1>3. QED BY Zenon, <1>1, <1>2 DEF Same

LEMMA NeedStopIs ==
    ASSUME NEW f \in [Objs -> Sessions], NEW o \in Objs, NEW v \in BOOLEAN
    PROVE  /\ [f EXCEPT ![o].needStop = v] \in [Objs -> Sessions]
           /\ \A p \in Objs : Same([f EXCEPT ![o].needStop = v][p], f[p])
<1>1. [f[o] EXCEPT !.needStop = v] \in Sessions /\ Same([f[o] EXCEPT !.needStop = v], f[o])
  BY Zenon, SessionChanges
<1>2. [f EXCEPT ![o].needStop = v] = [f EXCEPT ![o] = [f[o] EXCEPT !.needStop = v]]
  BY Zenon
<1>3. QED BY Zenon, <1>1, <1>2 DEF Same

\* The session an actor works on.
LEMMA ActorWorks ==
    ASSUME IsInv, NEW x \in Actors, actor[x].pc \notin {"idle", "found", "create", "lookup"}
    PROVE  On(x) \in Objs /\ Sid(x) \in Sids
<1>1. On(x) \in Objs
  BY Zenon, ActorFields DEF IsInv, IsTyped, On
<1>2. CASE x = User
  <2>1. actor[User].pc \in IsPcs /\ CallInv
    BY Zenon, IsFields, ActorFields DEF IsInv, IsTyped
  <2>2. actor[User].pc \notin {"lock", "once", "sleep", "settle"}
    BY Zenon, <2>1 DEF CallInv
  <2>3. actor[User].pc \in LoginPcs \ {"create"} \/ actor[User].pc \in {"device"} \cup LogoutPcs
    BY Zenon, <1>2, <2>1, <2>2 DEF IsPcs, LoginPcs, LogoutPcs
  <2>4. obj[actor[User].on].sid \in Sids
    BY Zenon, <2>1, <2>3 DEF CallInv, UserIn
  <2>5. QED BY Zenon, <1>1, <1>2, <2>4 DEF Sid, On
<1>3. CASE x \in RecoverLoops
  <2>1. \A l \in RecoverLoops : actor[l].pc # "idle" => obj[actor[l].on].sid \in Sids
    BY Zenon DEF IsInv, IndexInv
  <2>2. QED BY Zenon, <1>1, <1>3, <2>1 DEF Sid, On
<1>4. QED BY Zenon, <1>1, <1>2, <1>3 DEF Actors

\* A call goes on with its login.
LEMMA LoginGoesOn ==
    ASSUME IsInv, actor[User].pc \in LoginPcs \ {"create"}, actor'[User].pc \in {"bind", "login", "start", "fail"},
           actor'[User].on = actor[User].on, ObjectsKept, UNCHANGED <<inUse, byKey, cache>>,
           actor'[User].pc # "fail" => ~obj'[actor[User].on].connDestroyed
    PROVE  CallKept
<1>1. PICK o \in Objs : o = actor[User].on
  BY Zenon, IsFields, ActorFields DEF IsInv, IsTyped
<1>2. /\ ~inUse /\ obj[o].made /\ obj[o].phase = "LoggingIn" /\ byKey = o
      /\ obj[o].sid \in Sids /\ cache[obj[o].sid] = "none"
  BY Zenon, <1>1 DEF IsInv, CallInv, UserIn, LoginPcs
<1>3. obj'[o].made /\ obj'[o].phase = "LoggingIn" /\ obj'[o].sid = obj[o].sid
  BY Zenon, <1>2 DEF ObjectsKept
<1>4. CallInv'
  BY Zenon, <1>1, <1>2, <1>3 DEF CallInv, UserIn, LoginPcs, LogoutPcs
<1>5. QED BY Zenon, <1>4 DEF CallKept, LoginPcs

\* An actor moves on, the others stand still.
LEMMA ActorMoves ==
    ASSUME IsInv, NEW x \in Actors, NEW pc \in IsPcs, isGoto(x, pc),
           actor[x].pc \notin {"idle", "found", "create", "lookup"}, UNCHANGED sup
    PROVE  /\ actor' \in [Actors -> ActorStates] /\ RefsKept
           /\ x \in RecoverLoops => actor'[User] = actor[User]
           /\ actor'[x].pc = pc /\ (pc # "idle" => actor'[x].on = actor[x].on)
<1>1. /\ actor' \in [Actors -> ActorStates] /\ \A y \in Actors \ {x} : actor'[y] = actor[y]
      /\ actor'[x].pc = pc /\ (pc # "idle" => actor'[x].on = actor[x].on)
  <2>1. actor \in [Actors -> ActorStates] /\ actor' = Went(actor, x, pc)
    BY Zenon DEF isGoto, IsInv, IsTyped
  <2>2. QED BY ONLY <2>1, WentIs
<1>2. x \in RecoverLoops => actor'[User] = actor[User]
  BY Zenon, <1>1, IsFields, IsAssumption
<1>3. \A l \in RecoverLoops :
         actor'[l].pc # "idle" => obj[actor'[l].on].sid \in Sids /\ obj[actor'[l].on].phase # "LoggingIn"
  <2>1. \A l \in RecoverLoops :
           actor[l].pc # "idle" => obj[actor[l].on].sid \in Sids /\ obj[actor[l].on].phase # "LoggingIn"
    BY Zenon DEF IsInv, IndexInv
  <2>2. \A l \in RecoverLoops : actor'[l].pc # "idle" => actor[l].pc # "idle" /\ actor'[l].on = actor[l].on
    BY Zenon, <1>1, IsFields
  <2>3. QED BY Zenon, <2>1, <2>2
<1>4. RefsKept
  BY Zenon, <1>3 DEF RefsKept, IsInv, IndexInv
<1>5. QED BY Zenon, <1>1, <1>2, <1>4

\* The type of a step that leaves the indexes alone.
LEMMA TypedStep ==
    ASSUME IsInv, UNCHANGED <<byKey, bySID, sup>>, obj' \in [Objs -> Sessions], actor' \in [Actors -> ActorStates],
           kstate' \in [Sids -> {"none", "FREE", "LOGGED_IN", "FAILED", "gone"}],
           kconn' \in [Sids -> {"none", "new", "bound", "stopped", "up", "down"}],
           cache' \in [Sids -> {"none", "clean", "dirty"}]
    PROVE  IsTyped'
  BY Zenon DEF IsInv, IsTyped

LEMMA SameKept ==
    ASSUME \A o \in Objs : Same(obj'[o], obj[o])
    PROVE  ObjectsKept
  BY Zenon DEF Same, ObjectsKept

LEMMA KernelTyped ==
    ASSUME IsInv
    PROVE  /\ kstate \in [Sids -> {"none", "FREE", "LOGGED_IN", "FAILED", "gone"}]
           /\ kconn \in [Sids -> {"none", "new", "bound", "stopped", "up", "down"}]
           /\ cache \in [Sids -> {"none", "clean", "dirty"}]
           /\ obj \in [Objs -> Sessions] /\ actor \in [Actors -> ActorStates]
           /\ \A s \in Sids : kstate[s] \in {"none", "gone"} => kconn[s] = "none"
           /\ byKey \in Objs \cup {0} /\ bySID \in [Sids -> Objs \cup {0}]
  BY Zenon DEF IsInv, IsTyped, KernelInv

LEMMA BindInv ==
    ASSUME IsInv, NEW x \in Actors, bindEndpoint(x)
    PROVE  IsInv'
<1> DEFINE s == Sid(x)
           o == On(x)
<1>0. /\ actor[x].pc = "bind" /\ o \in Objs /\ s \in Sids
      /\ UNCHANGED <<kstate, named, cache, kevents, byKey, bySID, sup, inUse, dropped>>
  BY Zenon, ActorWorks DEF bindEndpoint, isAt
<1>1. PICK pc \in {"login", "fail", "sleep"} :
         /\ isGoto(x, pc) /\ (x = User => pc # "sleep")
         /\ UNCHANGED kconn \/ (kconn[s] \in {"new", "stopped"} /\ kconn' = [kconn EXCEPT ![s] = "bound"])
         /\ UNCHANGED obj \/ obj' = [obj EXCEPT ![o].needStop = TRUE]
  <2>1. LoginFails(x) \in {"fail", "sleep"} /\ (x = User => LoginFails(x) # "sleep")
    BY Zenon DEF LoginFails
  <2>2. \/ /\ kconn[s] \in {"new", "stopped"} /\ kconn' = [kconn EXCEPT ![s] = "bound"]
           /\ obj' = [obj EXCEPT ![o].needStop = TRUE] /\ isGoto(x, "login")
        \/ isGoto(x, LoginFails(x)) /\ UNCHANGED <<kconn, obj>>
    BY Zenon DEF bindEndpoint
  <2>3. QED BY Zenon, <2>1, <2>2
<1>2. obj' \in [Objs -> Sessions] /\ \A p \in Objs : Same(obj'[p], obj[p])
  <2>1. obj \in [Objs -> Sessions]
    BY Zenon, KernelTyped
  <2>2. CASE obj' = obj
    BY Zenon, <2>1, <2>2 DEF Same
  <2>3. CASE obj' = [obj EXCEPT ![o].needStop = TRUE]
    BY Zenon, <1>0, <2>1, <2>3, NeedStopIs
  <2>4. QED BY Zenon, <1>1, <2>2, <2>3
<1>3. ObjectsKept
  BY Zenon, <1>2, SameKept
<1>4. /\ actor' \in [Actors -> ActorStates] /\ RefsKept
      /\ x \in RecoverLoops => actor'[User] = actor[User]
      /\ actor'[x].pc = pc /\ actor'[x].on = actor[x].on
  BY Zenon, <1>0, <1>1, ActorMoves DEF IsPcs
<1>5. kconn' \in [Sids -> {"none", "new", "bound", "stopped", "up", "down"}] /\ KernelKept
  BY Zenon, <1>0, <1>1, KernelTyped DEF KernelKept
<1>6. CallKept
  <2>1. CASE x = User
    <3>1. ~obj[o].connDestroyed
      BY Zenon, <1>0, <2>1 DEF IsInv, CallInv, UserIn, On
    <3>2. ~obj'[o].connDestroyed
      BY Zenon, <1>0, <1>3, <3>1 DEF ObjectsKept
    <3>3. QED BY Zenon, <1>0, <1>1, <1>3, <1>4, <2>1, <3>2, LoginGoesOn DEF On, LoginPcs
  <2>2. QED BY Zenon, <1>4, <2>1 DEF CallKept, Actors
<1>7. IsTyped'
  BY Zenon, <1>0, <1>2, <1>4, <1>5, KernelTyped, TypedStep
<1>8. QED BY Zenon, <1>0, <1>3, <1>4, <1>5, <1>6, <1>7, QuietStep

LEMMA LoginOnceInv ==
    ASSUME IsInv, NEW x \in Actors, loginOnce(x)
    PROVE  IsInv'
<1> DEFINE s == Sid(x)
           o == On(x)
<1>0. /\ actor[x].pc = "login" /\ o \in Objs /\ s \in Sids
      /\ UNCHANGED <<kstate, cache, kevents, byKey, bySID, sup, inUse, dropped>>
  BY Zenon, ActorWorks DEF loginOnce, isAt
<1>1. PICK pc \in {"start", "fail", "sleep"} :
         /\ isGoto(x, pc) /\ (x = User => pc # "sleep")
         /\ UNCHANGED kconn \/ kconn' = [kconn EXCEPT ![s] = IF @ = "bound" THEN "stopped" ELSE @]
         /\ UNCHANGED obj \/ obj' = [obj EXCEPT ![o].needStop = FALSE]
  <2>1. LoginFails(x) \in {"fail", "sleep"} /\ (x = User => LoginFails(x) # "sleep")
    BY Zenon DEF LoginFails
  <2>2. \/ isGoto(x, "start") /\ UNCHANGED <<kconn, obj>>
        \/ /\ kconn' = [kconn EXCEPT ![s] = IF @ = "bound" THEN "stopped" ELSE @]
           /\ obj' = [obj EXCEPT ![o].needStop = FALSE] /\ isGoto(x, LoginFails(x))
        \/ isGoto(x, LoginFails(x)) /\ UNCHANGED <<kconn, obj>>
    BY Zenon DEF loginOnce
  <2>3. QED BY Zenon, <2>1, <2>2
<1>2. obj' \in [Objs -> Sessions] /\ \A p \in Objs : Same(obj'[p], obj[p])
  <2>1. obj \in [Objs -> Sessions]
    BY Zenon, KernelTyped
  <2>2. CASE obj' = obj
    BY Zenon, <2>1, <2>2 DEF Same
  <2>3. CASE obj' = [obj EXCEPT ![o].needStop = FALSE]
    BY Zenon, <1>0, <2>1, <2>3, NeedStopIs
  <2>4. QED BY Zenon, <1>1, <2>2, <2>3
<1>3. ObjectsKept
  BY Zenon, <1>2, SameKept
<1>4. /\ actor' \in [Actors -> ActorStates] /\ RefsKept
      /\ x \in RecoverLoops => actor'[User] = actor[User]
      /\ actor'[x].pc = pc /\ actor'[x].on = actor[x].on
  BY Zenon, <1>0, <1>1, ActorMoves DEF IsPcs
<1>5. kconn' \in [Sids -> {"none", "new", "bound", "stopped", "up", "down"}] /\ KernelKept
  BY Zenon, <1>0, <1>1, KernelTyped DEF KernelKept
<1>6. CallKept
  <2>1. CASE x = User
    <3>1. ~obj[o].connDestroyed
      BY Zenon, <1>0, <2>1 DEF IsInv, CallInv, UserIn, On
    <3>2. ~obj'[o].connDestroyed
      BY Zenon, <1>0, <1>3, <3>1 DEF ObjectsKept
    <3>3. QED BY Zenon, <1>0, <1>1, <1>3, <1>4, <2>1, <3>2, LoginGoesOn DEF On, LoginPcs
  <2>2. QED BY Zenon, <1>4, <2>1 DEF CallKept, Actors
<1>7. IsTyped'
  BY Zenon, <1>0, <1>2, <1>4, <1>5, KernelTyped, TypedStep
<1>8. QED BY Zenon, <1>0, <1>3, <1>4, <1>5, <1>6, <1>7, QuietStep

LEMMA CreateConnInv ==
    ASSUME IsInv, createConn
    PROVE  IsInv'
<1> DEFINE s == Sid(User)
           o == On(User)
<1>0. /\ actor[User].pc = "conn" /\ User \in Actors /\ o \in Objs /\ s \in Sids
      /\ UNCHANGED <<kstate, cache, kevents, byKey, bySID, sup, inUse, dropped>>
  BY Zenon, ActorWorks, IsFields DEF createConn, isAt
<1>1. \/ /\ Exists(s) /\ kconn' = [kconn EXCEPT ![s] = "new"]
         /\ obj' = [obj EXCEPT ![o].connDestroyed = FALSE] /\ isGoto(User, "bind")
      \/ isGoto(User, "fail") /\ UNCHANGED <<kconn, obj>>
  BY Zenon DEF createConn
<1>2. obj \in [Objs -> Sessions]
  BY Zenon, KernelTyped
<1>3. \/ /\ Exists(s) /\ kconn' = [kconn EXCEPT ![s] = "new"] /\ isGoto(User, "bind")
         /\ obj' \in [Objs -> Sessions] /\ ObjectsKept /\ ~obj'[o].connDestroyed
      \/ isGoto(User, "fail") /\ UNCHANGED kconn /\ obj' \in [Objs -> Sessions] /\ ObjectsKept
  <2>1. CASE isGoto(User, "fail") /\ UNCHANGED <<kconn, obj>>
    <3>1. \A p \in Objs : Same(obj'[p], obj[p])
      BY Zenon, <2>1 DEF Same
    <3>2. QED BY Zenon, <1>2, <2>1, <3>1, SameKept
  <2>2. CASE /\ Exists(s) /\ kconn' = [kconn EXCEPT ![s] = "new"] /\ isGoto(User, "bind")
             /\ obj' = [obj EXCEPT ![o].connDestroyed = FALSE]
    <3>1. obj' = [obj EXCEPT ![o] = [obj[o] EXCEPT !.connDestroyed = FALSE]] /\ obj[o] \in Sessions
      BY Zenon, <1>0, <1>2, <2>2
    <3>2. [obj[o] EXCEPT !.connDestroyed = FALSE] \in Sessions
      BY Zenon, <3>1, SessionChanges
    <3>3. /\ [obj[o] EXCEPT !.connDestroyed = FALSE].made = obj[o].made
          /\ [obj[o] EXCEPT !.connDestroyed = FALSE].sid = obj[o].sid
          /\ [obj[o] EXCEPT !.connDestroyed = FALSE].phase = obj[o].phase
          /\ [obj[o] EXCEPT !.connDestroyed = FALSE].connDestroyed = FALSE
      BY Zenon, <3>1 DEF Sessions
    <3>4. obj' \in [Objs -> Sessions] /\ ObjectsKept /\ ~obj'[o].connDestroyed
      BY Zenon, <1>0, <1>2, <3>1, <3>2, <3>3 DEF ObjectsKept
    <3>5. QED BY Zenon, <2>2, <3>4
  <2>3. QED BY Zenon, <1>1, <2>1, <2>2
<1>4. /\ actor' \in [Actors -> ActorStates] /\ RefsKept
      /\ actor'[User].pc \in {"bind", "fail"} /\ actor'[User].on = actor[User].on
      /\ actor'[User].pc = "bind" => ~obj'[o].connDestroyed
  BY Zenon, <1>0, <1>3, ActorMoves DEF IsPcs
<1>5. kconn' \in [Sids -> {"none", "new", "bound", "stopped", "up", "down"}] /\ KernelKept
  BY Zenon, <1>0, <1>3, KernelTyped DEF KernelKept, Exists
<1>6. CallKept
  BY Zenon, <1>0, <1>3, <1>4, LoginGoesOn DEF On, LoginPcs
<1>7. IsTyped'
  BY Zenon, <1>0, <1>3, <1>4, <1>5, KernelTyped, TypedStep
<1>8. QED BY Zenon, <1>0, <1>3, <1>4, <1>5, <1>6, <1>7, QuietStep

\* The connection of a recovered session is started.
LEMMA LoopStartInv ==
    ASSUME IsInv, NEW x \in RecoverLoops, startConn(x)
    PROVE  IsInv'
<1> DEFINE s == Sid(x)
           o == On(x)
<1>0. /\ actor[x].pc = "start" /\ x \in Actors /\ x # User /\ o \in Objs /\ s \in Sids
      /\ UNCHANGED <<cache, kevents, byKey, bySID, sup, inUse, dropped>>
  BY Zenon, ActorWorks, IsFields, IsAssumption DEF startConn, isAt
<1>1. PICK pc \in {"settle", "sleep"} :
         /\ isGoto(x, pc) /\ (UNCHANGED obj \/ obj' = Unlocked(obj, o))
         /\ \/ UNCHANGED <<kstate, kconn>>
            \/ /\ kconn[s] = "bound" /\ kstate' = [kstate EXCEPT ![s] = "LOGGED_IN"]
               /\ kconn' = [kconn EXCEPT ![s] = "up"]
  BY Zenon, <1>0 DEF startConn, LoginFails
<1>2. obj' \in [Objs -> Sessions] /\ \A p \in Objs : Same(obj'[p], obj[p])
  <2>1. obj \in [Objs -> Sessions]
    BY Zenon, KernelTyped
  <2>2. CASE obj' = obj
    BY Zenon, <2>1, <2>2 DEF Same
  <2>3. CASE obj' = Unlocked(obj, o)
    BY Zenon, <1>0, <2>1, <2>3, UnlockedIs
  <2>4. QED BY Zenon, <1>1, <2>2, <2>3
<1>3. ObjectsKept
  BY Zenon, <1>2, SameKept
<1>4. actor' \in [Actors -> ActorStates] /\ RefsKept /\ actor'[User] = actor[User]
  BY Zenon, <1>0, <1>1, ActorMoves DEF IsPcs
<1>5. /\ kstate' \in [Sids -> {"none", "FREE", "LOGGED_IN", "FAILED", "gone"}]
      /\ kconn' \in [Sids -> {"none", "new", "bound", "stopped", "up", "down"}] /\ KernelKept
  BY Zenon, <1>0, <1>1, KernelTyped DEF KernelKept
<1>7. IsTyped'
  BY Zenon, <1>0, <1>2, <1>4, <1>5, KernelTyped, TypedStep
<1>8. QED BY Zenon, <1>0, <1>3, <1>4, <1>5, <1>7, QuietStep DEF CallKept

\* A step that leaves the kernel alone, and the steps of a recovery loop.
LEMMA KernelStill ==
    ASSUME IsInv, UNCHANGED <<kstate, kconn, cache>>, kevents' \subseteq kevents
    PROVE  KernelKept
  BY Zenon, KernelTyped DEF KernelKept

LEMMA LoopRests ==
    ASSUME IsInv, NEW x \in RecoverLoops, actor' = [actor EXCEPT ![x] = idleActor], UNCHANGED sup
    PROVE  actor' \in [Actors -> ActorStates] /\ RefsKept /\ actor'[User] = actor[User]
<1>1. actor \in [Actors -> ActorStates] /\ x \in Actors /\ x # User
  BY Zenon, KernelTyped, IsFields, IsAssumption
<1>2. actor' \in [Actors -> ActorStates] /\ actor'[User] = actor[User]
  BY Zenon, <1>1, IsFields
<1>3. \A l \in RecoverLoops : actor'[l].pc # "idle" => actor'[l] = actor[l]
  BY Zenon, <1>1, IsFields
<1>4. QED BY Zenon, <1>2, <1>3 DEF RefsKept, IsInv, IndexInv

LEMMA LoopStepInv ==
    ASSUME IsInv, obj' \in [Objs -> Sessions], ObjectsKept, UNCHANGED <<byKey, bySID, sup, inUse, dropped>>,
           KernelKept, kstate' \in [Sids -> {"none", "FREE", "LOGGED_IN", "FAILED", "gone"}],
           kconn' \in [Sids -> {"none", "new", "bound", "stopped", "up", "down"}],
           cache' \in [Sids -> {"none", "clean", "dirty"}],
           actor' \in [Actors -> ActorStates], RefsKept, actor'[User] = actor[User]
    PROVE  IsInv'
<1>1. IsTyped'
  BY Zenon, TypedStep
<1>2. QED BY Zenon, <1>1, QuietStep DEF CallKept

LEMMA RecoverLockInv ==
    ASSUME IsInv, NEW l \in RecoverLoops, recoverLock(l)
    PROVE  IsInv'
<1>0. /\ actor[l].pc = "lock" /\ l \in Actors /\ On(l) \in Objs
      /\ UNCHANGED <<kstate, kconn, cache, kevents, byKey, bySID, sup, inUse, dropped>>
  BY Zenon, ActorWorks, IsFields DEF recoverLock, isAt, kernel
<1>1. obj \in [Objs -> Sessions] /\ KernelKept
  BY Zenon, <1>0, KernelTyped, KernelStill
<1>2. CASE actor' = [actor EXCEPT ![l] = idleActor] /\ UNCHANGED obj
  <2>1. ObjectsKept
    BY Zenon, <1>2 DEF ObjectsKept
  <2>2. actor' \in [Actors -> ActorStates] /\ RefsKept /\ actor'[User] = actor[User]
    BY Zenon, <1>0, <1>2, LoopRests
  <2>3. QED BY Zenon, <1>0, <1>1, <1>2, <2>1, <2>2, LoopStepInv, KernelTyped
<1>3. CASE obj' = [obj EXCEPT ![On(l)].op = l] /\ isGoto(l, "once")
  <2>1. obj' \in [Objs -> Sessions] /\ ObjectsKept
    BY Zenon, <1>0, <1>1, <1>3, LockIs, SameKept
  <2>2. actor' \in [Actors -> ActorStates] /\ RefsKept /\ actor'[User] = actor[User]
    BY Zenon, <1>0, <1>3, ActorMoves DEF IsPcs
  <2>3. QED BY Zenon, <1>0, <1>1, <2>1, <2>2, LoopStepInv, KernelTyped
<1>4. QED BY Zenon, <1>2, <1>3 DEF recoverLock

LEMMA RecoverSleepInv ==
    ASSUME IsInv, NEW l \in RecoverLoops, recoverSleep(l)
    PROVE  IsInv'
<1>0. /\ actor[l].pc = "sleep" /\ l \in Actors /\ On(l) \in Objs /\ obj' = Unlocked(obj, On(l))
      /\ UNCHANGED <<kstate, kconn, cache, kevents, byKey, bySID, sup, inUse, dropped>>
  BY Zenon, ActorWorks, IsFields DEF recoverSleep, isAt, kernel
<1>1. obj \in [Objs -> Sessions] /\ KernelKept
  BY Zenon, <1>0, KernelTyped, KernelStill
<1>2. obj' \in [Objs -> Sessions] /\ ObjectsKept
  BY Zenon, <1>0, <1>1, UnlockedIs, SameKept
<1>3. actor' = [actor EXCEPT ![l] = idleActor] \/ isGoto(l, "lock")
  BY Zenon DEF recoverSleep, isGoto, Went
<1>4. actor' \in [Actors -> ActorStates] /\ RefsKept /\ actor'[User] = actor[User]
  BY Zenon, <1>0, <1>3, ActorMoves, LoopRests DEF IsPcs
<1>5. QED BY Zenon, <1>0, <1>1, <1>2, <1>4, LoopStepInv, KernelTyped

LEMMA RecoverSettledInv ==
    ASSUME IsInv, NEW l \in RecoverLoops, recoverSettled(l)
    PROVE  IsInv'
<1>0. /\ actor[l].pc = "settle" /\ l \in Actors /\ On(l) \in Objs /\ actor' = [actor EXCEPT ![l] = idleActor]
      /\ UNCHANGED <<kstate, kconn, cache, kevents, byKey, bySID, sup, inUse, dropped>>
  BY Zenon, ActorWorks, IsFields DEF recoverSettled, isAt, kernel
<1>1. obj \in [Objs -> Sessions] /\ KernelKept
  BY Zenon, <1>0, KernelTyped, KernelStill
<1>2. obj' \in [Objs -> Sessions] /\ ObjectsKept
  <2>1. CASE UNCHANGED obj
    BY Zenon, <1>1, <2>1 DEF ObjectsKept
  <2>2. CASE /\ obj[On(l)].phase = "Recovering"
             /\ obj' = [obj EXCEPT ![On(l)].phase = "Established", ![On(l)].cancel = User]
    <3>1. PICK x \in Sessions : x = obj[On(l)]
      BY Zenon, <1>0, <1>1
    <3>2. /\ [x EXCEPT !.phase = "Established", !.cancel = User] \in Sessions
          /\ [x EXCEPT !.phase = "Established", !.cancel = User].made = x.made
          /\ [x EXCEPT !.phase = "Established", !.cancel = User].sid = x.sid
          /\ [x EXCEPT !.phase = "Established", !.cancel = User].phase = "Established"
          /\ [x EXCEPT !.phase = "Established", !.cancel = User].connDestroyed = x.connDestroyed
      BY Zenon, IsFields DEF Sessions, IsPhases
    <3>3. obj' = [obj EXCEPT ![On(l)] = [x EXCEPT !.phase = "Established", !.cancel = User]]
      BY Zenon, <1>0, <1>1, <2>2, <3>1
    <3>4. QED BY Zenon, <1>0, <1>1, <2>2, <3>1, <3>2, <3>3 DEF ObjectsKept
  <2>3. QED BY Zenon, <2>1, <2>2 DEF recoverSettled
<1>3. actor' \in [Actors -> ActorStates] /\ RefsKept /\ actor'[User] = actor[User]
  BY Zenon, <1>0, LoopRests
<1>4. QED BY Zenon, <1>0, <1>1, <1>2, <1>3, LoopStepInv, KernelTyped

\* An object whose session is gone is forgotten.
LEMMA ForgetStep ==
    ASSUME IsInv, NEW o \in Objs, Gone(o), obj[o].phase # "LoggingIn",
           obj' \in [Objs -> Sessions], \A p \in Objs \ {o} : Same(obj'[p], obj[p]),
           obj'[o].made, obj'[o].sid = obj[o].sid, obj'[o].phase = "Removed", ~obj'[o].connDestroyed, forgetIndexes(o),
           actor' \in [Actors -> ActorStates], actor'[User] = actor[User], RefsKept,
           UNCHANGED <<kstate, kconn, cache, inUse, dropped>>, kevents' \subseteq kevents,
           sup' \in Scans
    PROVE  IsInv'
<1>0. IsTyped /\ KernelInv /\ ObjectInv /\ IndexInv /\ CallInv
  BY Zenon DEF IsInv
<1>1. /\ byKey' \in Objs \cup {0} /\ bySID' \in [Sids -> Objs \cup {0}]
      /\ byKey' # o /\ (byKey' # 0 => byKey' = byKey) /\ (byKey # o => byKey' = byKey)
      /\ \A s \in Sids : bySID'[s] # 0 => bySID'[s] = bySID[s] /\ bySID'[s] # o
  BY Zenon, KernelTyped, IndexesForgotten
<1>2. IsTyped'
  BY Zenon, <1>0, <1>1 DEF IsTyped, RefsKept
<1>3. KernelInv'
  BY Zenon, <1>0 DEF KernelInv
<1>4. \A p \in Objs : /\ obj'[p].sid = obj[p].sid /\ (Gone(p) => Gone(p)')
                      /\ obj'[p].phase = obj[p].phase \/ (p = o /\ obj'[p].phase = "Removed")
                      /\ obj'[p].made = obj[p].made \/ (p = o /\ obj'[p].made)
                      /\ p # o => obj'[p].connDestroyed = obj[p].connDestroyed
  BY Zenon DEF Same, Gone
<1>5. ObjectInv'
  <2>1. SUFFICES ASSUME NEW p \in Objs
        PROVE  (/\ ~obj[p].made => obj[p].sid = 0 /\ obj[p].phase = "Removed"
                /\ obj[p].phase \in {"Established", "Recovering", "LoggingOut"} => obj[p].sid \in Sids
                /\ obj[p].sid \in Sids => kstate[obj[p].sid] # "none"
                /\ obj[p].phase \in {"Established", "Recovering"} => ~obj[p].connDestroyed
                /\ obj[p].phase = "LoggingIn" => UserIn(LoginPcs) /\ UserOn(p)
                /\ obj[p].phase # "Removed" => byKey = p \/ (UserIn({"destroy"}) /\ UserOn(p) /\ Gone(p))
                /\ obj[p].phase = "LoggingOut" =>
                     /\ ~inUse /\ ~UserIn({"device"})
                     /\ cache[obj[p].sid] # "dirty" \/ (UserIn({"flush"}) /\ UserOn(p)))'
    BY Zenon DEF ObjectInv
  <2>2. /\ ~obj[p].made => obj[p].sid = 0 /\ obj[p].phase = "Removed"
        /\ obj[p].phase \in {"Established", "Recovering", "LoggingOut"} => obj[p].sid \in Sids
        /\ obj[p].sid \in Sids => kstate[obj[p].sid] # "none"
        /\ obj[p].phase \in {"Established", "Recovering"} => ~obj[p].connDestroyed
        /\ obj[p].phase = "LoggingIn" => UserIn(LoginPcs) /\ UserOn(p)
        /\ obj[p].phase # "Removed" => byKey = p \/ (UserIn({"destroy"}) /\ UserOn(p) /\ Gone(p))
        /\ obj[p].phase = "LoggingOut" =>
             /\ ~inUse /\ ~UserIn({"device"})
             /\ cache[obj[p].sid] # "dirty" \/ (UserIn({"flush"}) /\ UserOn(p))
    BY Zenon, <1>0 DEF ObjectInv
  <2>3. CASE p = o
    BY Zenon, <1>4, <2>2, <2>3
  <2>4. CASE p # o
    <3>1. /\ obj'[p].sid = obj[p].sid /\ (Gone(p) => Gone(p)') /\ obj'[p].phase = obj[p].phase
          /\ obj'[p].made = obj[p].made /\ obj'[p].connDestroyed = obj[p].connDestroyed
          /\ byKey = p => byKey' = p
      BY Zenon, <1>1, <1>4, <2>4
    <3>2. QED BY Zenon, <2>2, <3>1 DEF UserIn, UserOn
  <2>5. QED BY Zenon, <2>3, <2>4
<1>6. IndexInv'
  <2>1. byKey' # 0 => obj'[byKey'].phase # "Removed"
    BY Zenon, <1>0, <1>1, <1>4 DEF IndexInv
  <2>2. \A s \in Sids : bySID'[s] # 0 => obj'[bySID'[s]].sid = s
    <3>1. TAKE s \in Sids
    <3>2. HAVE bySID'[s] # 0
    <3>3. PICK p \in Objs : p = bySID'[s] /\ p = bySID[s] /\ p # 0
      BY Zenon, <1>1, <3>2
    <3>4. obj[p].sid = s
      BY Zenon, <1>0, <3>3 DEF IndexInv
    <3>5. QED BY Zenon, <1>4, <3>3, <3>4
  <2>3. \A l \in RecoverLoops : actor'[l].on \in Objs
    BY Zenon, <1>2, ActorFields, IsFields DEF IsTyped
  <2>4. \A l \in RecoverLoops :
           actor'[l].pc # "idle" => obj'[actor'[l].on].sid \in Sids /\ obj'[actor'[l].on].phase # "LoggingIn"
    BY Zenon, <1>4, <2>3 DEF RefsKept
  <2>5. \A q \in sup'.check \ {0} : q \in Objs /\ obj'[q].sid \in Sids /\ obj'[q].phase # "LoggingIn"
    BY Zenon, <1>0, <1>4, ScanFields DEF RefsKept, IndexInv, IsTyped
  <2>6. QED BY Zenon, <2>1, <2>2, <2>4, <2>5 DEF IndexInv, RefsKept
<1>7. CallInv'
  <2>1. PICK q \in Objs : q = actor[User].on /\ q = actor'[User].on
    BY Zenon, ActorFields, IsFields
  <2>2. CASE q # o
    <3>1. /\ obj'[q].sid = obj[q].sid /\ (Gone(q) => Gone(q)') /\ obj'[q].phase = obj[q].phase
          /\ obj'[q].made = obj[q].made /\ obj'[q].connDestroyed = obj[q].connDestroyed
          /\ byKey = q => byKey' = q
      BY Zenon, <1>1, <1>4, <2>2
    <3>2. QED BY Zenon, <1>0, <2>1, <3>1 DEF CallInv, UserIn
  <2>3. CASE q = o
    <3>1. ~UserIn(LoginPcs) /\ ~UserIn({"create"}) /\ ~UserIn(LoginPcs \ {"create"}) /\ ~UserIn({"bind", "login", "start"})
      BY Zenon, <1>0, <2>1, <2>3 DEF CallInv, UserIn, LoginPcs
    <3>2. ~obj'[o].connDestroyed
      OBVIOUS
    <3>3. QED BY Zenon, <1>0, <1>4, <2>1, <2>3, <3>1, <3>2 DEF CallInv, UserIn
  <2>4. QED BY Zenon, <2>2, <2>3
<1>8. QED BY Zenon, <1>2, <1>3, <1>5, <1>6, <1>7 DEF IsInv, QueuedWritesKept

\* A session an object stands for was created, so one that does not exist is gone.
LEMMA NotThere ==
    ASSUME IsInv, NEW o \in Objs, obj[o].sid \in Sids, ~Exists(obj[o].sid)
    PROVE  Gone(o)
<1>1. /\ kstate[obj[o].sid] \in {"none", "FREE", "LOGGED_IN", "FAILED", "gone"}
      /\ kstate[obj[o].sid] # "none"
  BY Zenon, KernelTyped DEF IsInv, ObjectInv
<1>2. QED BY Zenon, <1>1 DEF Gone, Exists

\* The recovery of an established session is scheduled.
LEMMA ScheduleStep ==
    ASSUME IsInv, NEW o \in Objs, FreeLoops # {}, obj' = Scheduled(obj, o), actor' = Started(obj, actor, o),
           UNCHANGED <<kstate, kconn, cache, byKey, bySID, inUse, dropped>>, kevents' \subseteq kevents,
           sup' \in Scans, sup'.check \subseteq sup.check, sup'.listed \subseteq sup.listed
    PROVE  IsInv'
<1>0. obj \in [Objs -> Sessions] /\ actor \in [Actors -> ActorStates]
  BY Zenon, KernelTyped
<1>1. /\ obj' \in [Objs -> Sessions] /\ \A p \in Objs \ {o} : obj'[p] = obj[p]
      /\ obj'[o].made = obj[o].made /\ obj'[o].sid = obj[o].sid /\ obj'[o].connDestroyed = obj[o].connDestroyed
      /\ obj'[o].phase = IF obj[o].phase = "Established" THEN "Recovering" ELSE obj[o].phase
  BY Zenon, <1>0, ScheduledIs
<1>2. ObjectsKept
  BY Zenon, <1>1 DEF ObjectsKept
<1>3. /\ actor' \in [Actors -> ActorStates] /\ actor'[User] = actor[User]
      /\ \A l \in RecoverLoops : actor'[l] = actor[l] \/ (actor'[l].on = o /\ obj[o].phase = "Established")
  BY ZenonT(30), <1>0, StartedIs
<1>4. obj[o].phase = "Established" => obj[o].sid \in Sids /\ obj[o].phase # "LoggingIn"
  BY Zenon DEF IsInv, ObjectInv
<1>5. RefsKept
  BY Zenon, <1>3, <1>4 DEF RefsKept, IsInv, IndexInv
<1>6. KernelKept
  BY Zenon, KernelStill
<1>7. IsTyped'
  BY Zenon, <1>1, <1>3 DEF IsInv, IsTyped
<1>8. QED BY Zenon, <1>2, <1>3, <1>5, <1>6, <1>7, QuietStep DEF CallKept

\* Nothing the invariant reads of objects and actors changes.
LEMMA StillStep ==
    ASSUME IsInv, UNCHANGED <<kstate, kconn, cache, obj, actor, byKey, bySID, inUse, dropped>>,
           kevents' \subseteq kevents, sup' \in Scans, sup'.check \subseteq sup.check \cup {0},
           \A s \in sup'.listed : kstate[s] # "none"
    PROVE  IsInv'
<1>1. ObjectsKept
  BY Zenon DEF ObjectsKept
<1>2. KernelKept
  BY Zenon, KernelStill
<1>3. RefsKept
  BY Zenon DEF RefsKept, IsInv, IndexInv
<1>4. IsTyped'
  BY Zenon DEF IsInv, IsTyped
<1>5. QED BY Zenon, <1>1, <1>2, <1>3, <1>4, QuietStep DEF CallKept

LEMMA RouteInv ==
    ASSUME IsInv, NEW s \in Sids, routeConnError(s) \/ routeDestroy(s)
    PROVE  IsInv'
<1>0. /\ UNCHANGED <<kstate, kconn, cache, sup, inUse, dropped>> /\ kevents' \subseteq kevents
      /\ sup' \in Scans /\ sup'.check \subseteq sup.check /\ sup'.listed \subseteq sup.listed
  BY Zenon DEF routeConnError, routeDestroy, kernel, IsInv, IsTyped
<1>1. CASE UNCHANGED <<obj, byKey, bySID, actor>>
  BY Zenon, <1>0, <1>1, StillStep DEF IsInv, IndexInv
<1>2. CASE routeConnError(s) /\ bySID[s] # 0
  <2>1. bySID[s] \in Objs
    BY Zenon, <1>2, KernelTyped
  <2>2. QED BY Zenon, <1>0, <1>2, <2>1, ScheduleStep DEF routeConnError
<1>3. CASE routeDestroy(s) /\ ~UNCHANGED <<obj, byKey, bySID, actor>>
  <2>1. PICK o \in Objs : /\ o = bySID[s] /\ obj[o].phase \in {"Established", "Recovering", "LoggingOut"}
                          /\ obj' = Forgotten(obj, o) /\ forgetIndexes(o) /\ actor' = CancelOf(actor, o)
    BY Zenon, <1>3, KernelTyped DEF routeDestroy
  <2>2. obj[o].sid = s /\ kstate[s] = "gone"
    BY Zenon, <1>3, <2>1, IsFields DEF IsInv, IndexInv, KernelInv, routeDestroy
  <2>3. Gone(o) /\ obj[o].phase # "LoggingIn"
    BY Zenon, <2>1, <2>2 DEF Gone
  <2>4. /\ obj' \in [Objs -> Sessions] /\ \A p \in Objs \ {o} : Same(obj'[p], obj[p])
        /\ obj'[o].made /\ obj'[o].sid = obj[o].sid /\ obj'[o].phase = "Removed" /\ ~obj'[o].connDestroyed
    <3>1. obj \in [Objs -> Sessions]
      BY Zenon, KernelTyped
    <3>2. QED BY Zenon, <2>1, <3>1, ForgottenIs DEF Same
  <2>5. actor' \in [Actors -> ActorStates] /\ actor'[User] = actor[User]
        /\ \A x \in Actors : actor'[x].pc = actor[x].pc /\ actor'[x].on = actor[x].on
    <3>1. actor \in [Actors -> ActorStates]
      BY Zenon, KernelTyped
    <3>2. QED BY Zenon, <2>1, <3>1, CancelIs
  <2>6. RefsKept
    BY Zenon, <1>0, <2>5, IsFields DEF RefsKept, IsInv, IndexInv
  <2>7. QED BY Zenon, <1>0, <2>1, <2>3, <2>4, <2>5, <2>6, ForgetStep
<1>4. QED BY Zenon, <1>1, <1>2, <1>3 DEF routeConnError

LEMMA CheckInv ==
    ASSUME IsInv, scanChecks
    PROVE  IsInv'
<1>0. UNCHANGED <<kstate, kconn, cache, kevents, inUse, dropped>> /\ kevents' \subseteq kevents
  BY Zenon DEF scanChecks, kernel
<1>1. PICK o \in sup.check : checkSession(o)
  BY Zenon DEF scanChecks
<1>2. /\ o \in Objs /\ obj[o].sid \in Sids /\ obj[o].phase # "LoggingIn" /\ sup' = [sup EXCEPT !.check = @ \ {o}]
      /\ sup \in Scans
  BY Zenon, <1>1, ScanFields DEF IsInv, IsTyped, IndexInv, checkSession
<1>3. sup' \in Scans /\ sup'.check \subseteq sup.check /\ sup'.listed \subseteq sup.listed
  BY Zenon, <1>2, IsFields DEF Scans
<1>4. CASE UNCHANGED <<obj, byKey, bySID, actor>>
  BY Zenon, <1>0, <1>3, <1>4, StillStep DEF IsInv, IndexInv
<1>5. CASE FreeLoops # {} /\ obj' = Scheduled(obj, o) /\ actor' = Started(obj, actor, o) /\ UNCHANGED <<byKey, bySID>>
  BY Zenon, <1>0, <1>2, <1>3, <1>5, ScheduleStep
<1>6. CASE ~Exists(obj[o].sid) /\ obj' = Forgotten(obj, o) /\ forgetIndexes(o) /\ actor' = CancelOf(actor, o)
  <2>1. Gone(o)
    BY Zenon, <1>2, <1>6, NotThere
  <2>2. /\ obj' \in [Objs -> Sessions] /\ \A p \in Objs \ {o} : Same(obj'[p], obj[p])
        /\ obj'[o].made /\ obj'[o].sid = obj[o].sid /\ obj'[o].phase = "Removed" /\ ~obj'[o].connDestroyed
    <3>1. obj \in [Objs -> Sessions]
      BY Zenon, KernelTyped
    <3>2. QED BY ZenonT(30), <1>2, <1>6, <3>1, ForgottenIs DEF Same
  <2>3. actor' \in [Actors -> ActorStates] /\ actor'[User] = actor[User]
        /\ \A x \in Actors : actor'[x].pc = actor[x].pc /\ actor'[x].on = actor[x].on
    <3>1. actor \in [Actors -> ActorStates]
      BY Zenon, KernelTyped
    <3>2. QED BY Zenon, <1>2, <1>6, <3>1, CancelIs
  <2>4. RefsKept
    BY Zenon, <1>3, <2>3, IsFields DEF RefsKept, IsInv, IndexInv
  <2>5. QED BY Zenon, <1>0, <1>2, <1>3, <1>6, <2>1, <2>2, <2>3, <2>4, ForgetStep
<1>7. QED BY Zenon, <1>1, <1>4, <1>5, <1>6 DEF checkSession

LEMMA RecoverOnceInv ==
    ASSUME IsInv, NEW l \in RecoverLoops, recoverOnce(l)
    PROVE  IsInv'
<1> DEFINE s == Sid(l)
           o == On(l)
<1>0. /\ actor[l].pc = "once" /\ l \in Actors /\ o \in Objs /\ s \in Sids /\ s = obj[o].sid
      /\ UNCHANGED <<cache, kevents, sup, inUse, dropped>>
      /\ kstate' = [kstate EXCEPT ![s] = IF kconn'[s] = "stopped" /\ @ = "LOGGED_IN" THEN "FAILED" ELSE @]
  BY Zenon, ActorWorks, IsFields DEF recoverOnce, isAt, Sid, On
<1>1. obj \in [Objs -> Sessions] /\ obj[o].phase # "LoggingIn" /\ sup \in Scans
  BY Zenon, <1>0, KernelTyped DEF IsInv, IsTyped, IndexInv, On
<1>2. CASE /\ ~Exists(s) /\ obj' = Unlocked(Forgotten(obj, o), o) /\ forgetIndexes(o)
           /\ actor' = [actor EXCEPT ![l] = idleActor] /\ UNCHANGED kconn
  <2>1. Gone(o)
    BY Zenon, <1>0, <1>2, NotThere
  <2>2. kconn[s] = "none"
    BY Zenon, <1>0, <2>1, KernelTyped DEF Gone
  <2>3. UNCHANGED kstate
    <3>1. kstate' = [kstate EXCEPT ![s] = kstate[s]]
      BY Zenon, <1>0, <1>2, <2>2
    <3>2. QED BY Zenon, <1>0, <3>1, KernelTyped
  <2>4. /\ Forgotten(obj, o) \in [Objs -> Sessions] /\ \A p \in Objs \ {o} : Forgotten(obj, o)[p] = obj[p]
        /\ Forgotten(obj, o)[o].made /\ Forgotten(obj, o)[o].sid = obj[o].sid
        /\ Forgotten(obj, o)[o].phase = "Removed" /\ ~Forgotten(obj, o)[o].connDestroyed
    BY Zenon, <1>0, <1>1, ForgottenIs
  <2>5. obj' \in [Objs -> Sessions] /\ \A p \in Objs : Same(obj'[p], Forgotten(obj, o)[p])
    BY Zenon, <1>0, <1>2, <2>4, UnlockedIs
  <2>6. /\ \A p \in Objs \ {o} : Same(obj'[p], obj[p])
        /\ obj'[o].made /\ obj'[o].sid = obj[o].sid /\ obj'[o].phase = "Removed" /\ ~obj'[o].connDestroyed
    BY Zenon, <1>0, <2>4, <2>5 DEF Same
  <2>7. actor' \in [Actors -> ActorStates] /\ RefsKept /\ actor'[User] = actor[User]
    BY Zenon, <1>0, <1>2, LoopRests
  <2>8. QED BY Zenon, <1>0, <1>1, <1>2, <2>1, <2>3, <2>5, <2>6, <2>7, ForgetStep
<1>3. CASE /\ kconn' = [kconn EXCEPT ![s] = IF obj[o].needStop /\ @ # "none" THEN "stopped" ELSE @]
           /\ obj' = [obj EXCEPT ![o].needStop = FALSE] /\ isGoto(l, "bind") /\ UNCHANGED <<byKey, bySID>>
  <2>1. obj' \in [Objs -> Sessions] /\ ObjectsKept
    BY Zenon, <1>0, <1>1, <1>3, NeedStopIs, SameKept
  <2>2. actor' \in [Actors -> ActorStates] /\ RefsKept /\ actor'[User] = actor[User]
    BY Zenon, <1>0, <1>3, ActorMoves DEF IsPcs
  <2>3. /\ kstate' \in [Sids -> {"none", "FREE", "LOGGED_IN", "FAILED", "gone"}]
        /\ kconn' \in [Sids -> {"none", "new", "bound", "stopped", "up", "down"}]
    BY Zenon, <1>0, <1>3, KernelTyped
  <2>4. KernelKept
    BY Zenon, <1>0, <1>3, KernelTyped DEF KernelKept
  <2>5. QED BY Zenon, <1>0, <1>3, <2>1, <2>2, <2>3, <2>4, LoopStepInv, KernelTyped
<1>4. CASE isGoto(l, "sleep") /\ UNCHANGED <<kconn, obj, byKey, bySID>>
  <2>1. ObjectsKept
    BY Zenon, <1>4 DEF ObjectsKept
  <2>2. actor' \in [Actors -> ActorStates] /\ RefsKept /\ actor'[User] = actor[User]
    BY Zenon, <1>0, <1>4, ActorMoves DEF IsPcs
  <2>3. kstate' \in [Sids -> {"none", "FREE", "LOGGED_IN", "FAILED", "gone"}]
    BY Zenon, <1>0, <1>4, KernelTyped
  <2>4. KernelKept
    BY Zenon, <1>0, <1>4, KernelTyped DEF KernelKept
  <2>5. QED BY Zenon, <1>0, <1>1, <1>4, <2>1, <2>2, <2>3, <2>4, LoopStepInv, KernelTyped
<1>5. QED BY Zenon, <1>2, <1>3, <1>4 DEF recoverOnce

\* The kernel's own steps.
LEMMA KernelStepInv ==
    ASSUME IsInv, NEW s \in Sids, ConnFails(s) \/ RecoveryTimesOut(s)
    PROVE  IsInv'
<1>0. UNCHANGED <<obj, byKey, bySID, actor, sup, inUse, dropped>>
  BY Zenon DEF ConnFails, RecoveryTimesOut
<1>1. ObjectsKept /\ RefsKept
  BY Zenon, <1>0 DEF ObjectsKept, RefsKept, IsInv, IndexInv
<1>2. /\ kstate' \in [Sids -> {"none", "FREE", "LOGGED_IN", "FAILED", "gone"}]
      /\ kconn' \in [Sids -> {"none", "new", "bound", "stopped", "up", "down"}]
      /\ cache' \in [Sids -> {"none", "clean", "dirty"}] /\ KernelKept
  <2>1. CASE ConnFails(s)
    BY Zenon, <2>1, KernelTyped DEF ConnFails, KernelKept, emit
  <2>2. CASE RecoveryTimesOut(s)
    BY Zenon, <2>2, KernelTyped DEF RecoveryTimesOut, KernelKept
  <2>3. QED BY Zenon, <2>1, <2>2
<1>3. QED BY Zenon, <1>0, <1>1, <1>2, LoopStepInv, KernelTyped

\* The process stands still while the kernel's sessions move: one that exists
\* may go, and a disk is written only while the volume is staged.
KernelMonotone ==
    \A s \in Sids : /\ kstate[s] = "gone" => kstate'[s] = "gone"
                    /\ kstate[s] # "none" => kstate'[s] # "none"

LEMMA KernelMoves ==
    ASSUME IsInv, UNCHANGED <<obj, byKey, bySID, actor, sup, inUse, dropped>>, IsTyped', KernelInv', KernelMonotone,
           \A s \in Sids : cache'[s] = "none" \/ cache'[s] = cache[s] \/ (inUse /\ cache[s] # "none")
    PROVE  IsInv'
<1>0. IsTyped /\ KernelInv /\ ObjectInv /\ IndexInv /\ CallInv
  BY Zenon DEF IsInv
<1>1. \A o \in Objs : Gone(o) => Gone(o)'
  BY Zenon DEF Gone, KernelMonotone
<1>2. \A s \in Sids : /\ ~inUse /\ cache[s] # "dirty" => cache'[s] # "dirty"
                      /\ cache[s] = "none" => cache'[s] = "none"
  BY Zenon
<1>3. ObjectInv'
  <2>1. SUFFICES ASSUME NEW p \in Objs
        PROVE  (/\ ~obj[p].made => obj[p].sid = 0 /\ obj[p].phase = "Removed"
                /\ obj[p].phase \in {"Established", "Recovering", "LoggingOut"} => obj[p].sid \in Sids
                /\ obj[p].sid \in Sids => kstate[obj[p].sid] # "none"
                /\ obj[p].phase \in {"Established", "Recovering"} => ~obj[p].connDestroyed
                /\ obj[p].phase = "LoggingIn" => UserIn(LoginPcs) /\ UserOn(p)
                /\ obj[p].phase # "Removed" => byKey = p \/ (UserIn({"destroy"}) /\ UserOn(p) /\ Gone(p))
                /\ obj[p].phase = "LoggingOut" =>
                     /\ ~inUse /\ ~UserIn({"device"})
                     /\ cache[obj[p].sid] # "dirty" \/ (UserIn({"flush"}) /\ UserOn(p)))'
    BY Zenon DEF ObjectInv
  <2>2. /\ ~obj[p].made => obj[p].sid = 0 /\ obj[p].phase = "Removed"
        /\ obj[p].phase \in {"Established", "Recovering", "LoggingOut"} => obj[p].sid \in Sids
        /\ obj[p].sid \in Sids => kstate[obj[p].sid] # "none"
        /\ obj[p].phase \in {"Established", "Recovering"} => ~obj[p].connDestroyed
        /\ obj[p].phase = "LoggingIn" => UserIn(LoginPcs) /\ UserOn(p)
        /\ obj[p].phase # "Removed" => byKey = p \/ (UserIn({"destroy"}) /\ UserOn(p) /\ Gone(p))
        /\ obj[p].phase = "LoggingOut" =>
             /\ ~inUse /\ ~UserIn({"device"})
             /\ cache[obj[p].sid] # "dirty" \/ (UserIn({"flush"}) /\ UserOn(p))
    BY Zenon, <1>0 DEF ObjectInv
  <2>3. QED BY Zenon, <1>1, <1>2, <2>2 DEF UserIn, UserOn, KernelMonotone
<1>4. IndexInv'
  <2>1. sup.listed \subseteq Sids
    BY Zenon, <1>0, ScanFields DEF IsTyped
  <2>2. QED BY Zenon, <1>0, <2>1 DEF IndexInv, KernelMonotone
<1>5. CallInv'
  <2>1. PICK q \in Objs : q = actor[User].on
    BY Zenon, <1>0, ActorFields, IsFields DEF IsTyped
  <2>2. UserIn({"destroy"}) => ~inUse /\ obj[q].sid \in Sids
    BY Zenon, <1>0, <2>1 DEF CallInv, UserIn, LogoutPcs
  <2>3. QED BY Zenon, <1>0, <1>1, <1>2, <2>1, <2>2 DEF CallInv, UserIn
<1>6. QED BY Zenon, <1>0, <1>3, <1>4, <1>5 DEF IsInv, QueuedWritesKept

LEMMA WriteInv ==
    ASSUME IsInv, NEW s \in Sids, Write(s)
    PROVE  IsInv'
<1>1. /\ UNCHANGED <<kstate, kconn, kevents, obj, byKey, bySID, actor, sup, inUse, dropped>>
      /\ cache' = [cache EXCEPT ![s] = "dirty"] /\ inUse /\ cache[s] = "clean" /\ kstate[s] \in {"LOGGED_IN", "FAILED"}
  BY Zenon DEF Write
<1>2. cache' \in [Sids -> {"none", "clean", "dirty"}] /\ \A t \in Sids \ {s} : cache'[t] = cache[t]
  BY Zenon, <1>1, KernelTyped
<1>3. IsTyped'
  BY Zenon, <1>1, <1>2 DEF IsInv, IsTyped
<1>4. KernelInv'
  BY Zenon, <1>1, <1>2 DEF IsInv, KernelInv
<1>5. KernelMonotone
  BY Zenon, <1>1 DEF KernelMonotone
<1>6. \A t \in Sids : cache'[t] = "none" \/ cache'[t] = cache[t] \/ (inUse /\ cache[t] # "none")
  BY Zenon, <1>1, <1>2
<1>7. QED BY Zenon, <1>1, <1>3, <1>4, <1>5, <1>6, KernelMoves

\* A session is destroyed.
LEMMA DestroyIs ==
    ASSUME IsInv, NEW s \in Sids, kstate[s] # "none",
           kstate' = [kstate EXCEPT ![s] = "gone"], kconn' = [kconn EXCEPT ![s] = "none"],
           cache' = [cache EXCEPT ![s] = "none"], emit(<<"destroy", s>>)
    PROVE  /\ kstate' \in [Sids -> {"none", "FREE", "LOGGED_IN", "FAILED", "gone"}]
           /\ kconn' \in [Sids -> {"none", "new", "bound", "stopped", "up", "down"}]
           /\ cache' \in [Sids -> {"none", "clean", "dirty"}]
           /\ KernelInv' /\ KernelMonotone /\ kstate'[s] = "gone"
           /\ \A t \in Sids : cache'[t] = "none" \/ cache'[t] = cache[t]
<1>1. /\ kstate' \in [Sids -> {"none", "FREE", "LOGGED_IN", "FAILED", "gone"}]
      /\ kstate'[s] = "gone" /\ \A t \in Sids \ {s} : kstate'[t] = kstate[t]
  BY Zenon, KernelTyped
<1>2. /\ kconn' \in [Sids -> {"none", "new", "bound", "stopped", "up", "down"}]
      /\ kconn'[s] = "none" /\ \A t \in Sids \ {s} : kconn'[t] = kconn[t]
  BY Zenon, KernelTyped
<1>3. /\ cache' \in [Sids -> {"none", "clean", "dirty"}]
      /\ cache'[s] = "none" /\ \A t \in Sids \ {s} : cache'[t] = cache[t]
  BY Zenon, KernelTyped
<1>4. \A t \in Sids \ {s} : <<"destroy", t>> \in kevents' => <<"destroy", t>> \in kevents
  BY DEF emit
<1>5. KernelInv'
  <2>1. KernelInv
    BY Zenon DEF IsInv
  <2>2. \A t \in Sids \ {s} :
           /\ kstate'[t] \in {"none", "gone"} => kconn'[t] = "none" /\ cache'[t] = "none"
           /\ kstate'[t] = "FREE" => cache'[t] # "dirty"
           /\ <<"destroy", t>> \in kevents' => kstate'[t] = "gone"
    <3>1. SUFFICES ASSUME NEW t \in Sids \ {s}
          PROVE  /\ kstate'[t] \in {"none", "gone"} => kconn'[t] = "none" /\ cache'[t] = "none"
                 /\ kstate'[t] = "FREE" => cache'[t] # "dirty"
                 /\ <<"destroy", t>> \in kevents' => kstate'[t] = "gone"
      BY Zenon
    <3>2. /\ kstate[t] \in {"none", "gone"} => kconn[t] = "none" /\ cache[t] = "none"
          /\ kstate[t] = "FREE" => cache[t] # "dirty"
          /\ <<"destroy", t>> \in kevents => kstate[t] = "gone"
      BY Zenon, <2>1 DEF KernelInv
    <3>3. kstate'[t] = kstate[t] /\ kconn'[t] = kconn[t] /\ cache'[t] = cache[t]
      BY Zenon, <1>1, <1>2, <1>3
    <3>4. QED BY Zenon, <1>4, <3>2, <3>3
  <2>3. kstate'[s] = "gone" /\ kconn'[s] = "none" /\ cache'[s] = "none"
    BY Zenon, <1>1, <1>2, <1>3
  <2>4. QED BY Zenon, <2>2, <2>3 DEF KernelInv
<1>6. KernelMonotone
  BY Zenon, <1>1 DEF KernelMonotone
<1>7. QED BY Zenon, <1>1, <1>2, <1>3, <1>5, <1>6

LEMMA SessionRemovedInv ==
    ASSUME IsInv, NEW s \in Sids, SessionRemoved(s)
    PROVE  IsInv'
<1>1. /\ UNCHANGED <<obj, byKey, bySID, actor, sup, inUse, dropped>> /\ kstate[s] # "none"
      /\ kstate' = [kstate EXCEPT ![s] = "gone"] /\ kconn' = [kconn EXCEPT ![s] = "none"]
      /\ cache' = [cache EXCEPT ![s] = "none"] /\ emit(<<"destroy", s>>)
  BY Zenon DEF SessionRemoved, Exists
<1>2. /\ kstate' \in [Sids -> {"none", "FREE", "LOGGED_IN", "FAILED", "gone"}]
      /\ kconn' \in [Sids -> {"none", "new", "bound", "stopped", "up", "down"}]
      /\ cache' \in [Sids -> {"none", "clean", "dirty"}]
      /\ KernelInv' /\ KernelMonotone /\ kstate'[s] = "gone"
      /\ \A t \in Sids : cache'[t] = "none" \/ cache'[t] = cache[t]
  BY Zenon, <1>1, DestroyIs
<1>3. IsTyped'
  BY Zenon, <1>1, <1>2 DEF IsInv, IsTyped
<1>4. QED BY Zenon, <1>1, <1>2, <1>3, KernelMoves

LEMMA ScanOnceInv ==
    ASSUME IsInv, scanOnce
    PROVE  IsInv'
<1>1. /\ sup'.check = {0} /\ sup'.listed = {s \in Sids : Adoptable(s)} /\ sup' \in Scans
      /\ UNCHANGED <<kstate, kconn, cache, kevents, obj, actor, byKey, bySID, inUse, dropped>>
  BY Zenon DEF scanOnce, Scans, kernel
<1>2. \A s \in sup'.listed : kstate[s] # "none"
  BY Zenon, <1>1 DEF Adoptable, Exists
<1>3. QED BY Zenon, <1>1, <1>2, StillStep

LEMMA EventLostInv ==
    ASSUME IsInv, NEW e \in kevents, EventLost(e)
    PROVE  IsInv'
<1>1. /\ kevents' \subseteq kevents /\ UNCHANGED <<kstate, kconn, cache, obj, actor, byKey, bySID, sup, inUse, dropped>>
  BY Zenon DEF EventLost, kernel
<1>2. sup' \in Scans /\ \A s \in sup'.listed : kstate[s] # "none"
  BY Zenon, <1>1 DEF IsInv, IsTyped, IndexInv
<1>3. QED BY Zenon, <1>1, <1>2, StillStep

\* A listed session no object stands for is adopted.
Adopts(s, p) ==
    /\ byKey = 0 /\ obj' = [obj EXCEPT ![p] = sessionFromSysfs(s)]
    /\ byKey' = p /\ bySID' = [bySID EXCEPT ![s] = p]

LEMMA AdoptIs ==
    ASSUME IsInv, NEW found \in SUBSET Sids, adopt(found)
    PROVE  \/ UNCHANGED <<obj, byKey, bySID>>
           \/ \E s \in found, p \in Objs : ~obj[p].made /\ Adopts(s, p)
<1>1. CASE byKey # 0 \/ {s \in found : bySID[s] = 0} = {} \/ Spare = {}
  BY Zenon, <1>1 DEF adopt
<1>2. CASE ~(byKey # 0 \/ {s \in found : bySID[s] = 0} = {} \/ Spare = {})
  <2>1. Fresh \in Spare
    BY Zenon, <1>2 DEF Fresh
  <2>2. PICK p \in Objs : p = Fresh /\ ~obj[p].made
    BY Zenon, <2>1 DEF Spare
  <2>3. PICK s \in {s \in found : bySID[s] = 0} :
            /\ obj' = [obj EXCEPT ![Fresh] = sessionFromSysfs(s)]
            /\ byKey' = Fresh /\ bySID' = [bySID EXCEPT ![s] = Fresh]
    BY Zenon, <1>2 DEF adopt
  <2>4. s \in found /\ Adopts(s, p)
    BY Zenon, <1>2, <2>2, <2>3 DEF Adopts
  <2>5. QED BY Zenon, <2>2, <2>4
<1>3. QED BY Zenon, <1>1, <1>2

\* What an adopted object is.
LEMMA AdoptedIs ==
    ASSUME NEW s \in Sids
    PROVE  /\ sessionFromSysfs(s) \in Sessions /\ sessionFromSysfs(s).made /\ sessionFromSysfs(s).sid = s
           /\ sessionFromSysfs(s).phase = "Established" /\ ~sessionFromSysfs(s).connDestroyed
<1> DEFINE x == [newSession EXCEPT !.made = TRUE, !.sid = s, !.phase = "Established", !.needStop = TRUE]
<1>1. newSession \in Sessions /\ "Established" \in IsPhases
  BY Zenon, IsFields DEF IsPhases
<1>2. /\ x \in Sessions /\ x.made /\ x.sid = s /\ x.phase = "Established"
      /\ x.connDestroyed = newSession.connDestroyed
  BY Zenon, <1>1 DEF Sessions
<1>3. sessionFromSysfs(s) = x
  BY Zenon DEF sessionFromSysfs
<1>4. QED BY Zenon, <1>2, <1>3, IsFields

LEMMA AdoptStep ==
    ASSUME IsInv, NEW s \in Sids, NEW p \in Objs, ~obj[p].made, kstate[s] # "none", Adopts(s, p),
           UNCHANGED <<kstate, kconn, cache, kevents, inUse, dropped>>,
           actor' \in [Actors -> ActorStates], \A l \in RecoverLoops : actor'[l] = actor[l],
           sup' \in Scans, sup'.listed \subseteq sup.listed, sup'.check \ {0} \subseteq sup.check \cup {p},
           \/ actor'[User] = actor[User]
           \/ actor[User].pc = "lookup" /\ actor'[User].pc = "wait" /\ actor'[User].on = p
    PROVE  IsInv'
<1>0. IsTyped /\ KernelInv /\ ObjectInv /\ IndexInv /\ CallInv
  BY Zenon DEF IsInv
<1>1. /\ obj' \in [Objs -> Sessions] /\ \A q \in Objs \ {p} : obj'[q] = obj[q]
      /\ obj'[p].made /\ obj'[p].sid = s /\ obj'[p].phase = "Established" /\ ~obj'[p].connDestroyed
  BY Zenon, KernelTyped, AdoptedIs DEF Adopts
<1>2. /\ byKey = 0 /\ byKey' = p /\ p # 0 /\ bySID' \in [Sids -> Objs \cup {0}]
      /\ bySID'[s] = p /\ \A t \in Sids \ {s} : bySID'[t] = bySID[t]
  BY Zenon, KernelTyped, IsFields DEF Adopts
<1>3. IsTyped' /\ KernelInv'
  BY Zenon, <1>0, <1>1, <1>2 DEF IsTyped, KernelInv
<1>4. obj[p].sid = 0 /\ 0 \notin Sids
  BY Zenon, <1>0, IsFields DEF ObjectInv
<1>5. ~UserIn(LoginPcs) /\ (\A q \in Objs : obj[q].phase # "LoggingIn")
      /\ \A q \in Objs : obj[q].phase # "Removed" => UserIn({"destroy"}) /\ UserOn(q) /\ Gone(q)
  BY Zenon, <1>0, <1>2, IsFields, ActorFields DEF ObjectInv, CallInv, IsTyped
<1>6. ObjectInv'
  <2>1. SUFFICES ASSUME NEW q \in Objs
        PROVE  (/\ ~obj[q].made => obj[q].sid = 0 /\ obj[q].phase = "Removed"
                /\ obj[q].phase \in {"Established", "Recovering", "LoggingOut"} => obj[q].sid \in Sids
                /\ obj[q].sid \in Sids => kstate[obj[q].sid] # "none"
                /\ obj[q].phase \in {"Established", "Recovering"} => ~obj[q].connDestroyed
                /\ obj[q].phase = "LoggingIn" => UserIn(LoginPcs) /\ UserOn(q)
                /\ obj[q].phase # "Removed" => byKey = q \/ (UserIn({"destroy"}) /\ UserOn(q) /\ Gone(q))
                /\ obj[q].phase = "LoggingOut" =>
                     /\ ~inUse /\ ~UserIn({"device"})
                     /\ cache[obj[q].sid] # "dirty" \/ (UserIn({"flush"}) /\ UserOn(q)))'
    BY Zenon DEF ObjectInv
  <2>2. CASE q = p
    BY Zenon, <1>1, <1>2, <2>2
  <2>3. CASE q # p
    <3>1. obj'[q] = obj[q]
      BY Zenon, <1>1, <2>3
    <3>2. /\ ~obj[q].made => obj[q].sid = 0 /\ obj[q].phase = "Removed"
          /\ obj[q].phase \in {"Established", "Recovering", "LoggingOut"} => obj[q].sid \in Sids
          /\ obj[q].sid \in Sids => kstate[obj[q].sid] # "none"
          /\ obj[q].phase \in {"Established", "Recovering"} => ~obj[q].connDestroyed
          /\ obj[q].phase = "LoggingOut" =>
               /\ ~inUse /\ ~UserIn({"device"})
               /\ cache[obj[q].sid] # "dirty" \/ (UserIn({"flush"}) /\ UserOn(q))
      BY Zenon, <1>0 DEF ObjectInv
    <3>3. obj[q].phase # "Removed" => actor[User].pc = "destroy" /\ actor[User].on = q /\ Gone(q) /\ actor'[User] = actor[User]
      BY Zenon, <1>5 DEF UserIn, UserOn
    <3>4. Gone(q) => Gone(q)'
      BY Zenon, <3>1 DEF Gone
    <3>5. QED BY Zenon, <1>5, <3>1, <3>2, <3>3, <3>4 DEF UserIn, UserOn
  <2>4. QED BY Zenon, <2>2, <2>3
<1>7. IndexInv'
  <2>1. byKey' # 0 => obj'[byKey'].phase # "Removed"
    BY Zenon, <1>1, <1>2
  <2>2. \A t \in Sids : bySID'[t] # 0 => obj'[bySID'[t]].sid = t
    <3>1. SUFFICES ASSUME NEW t \in Sids, bySID'[t] # 0
          PROVE  obj'[bySID'[t]].sid = t
      BY Zenon
    <3>2. CASE t = s
      BY Zenon, <1>1, <1>2, <3>2
    <3>3. CASE t # s
      <4>1. PICK q \in Objs : q = bySID[t] /\ q = bySID'[t] /\ q # 0
        BY Zenon, <1>2, <3>1, <3>3, KernelTyped
      <4>2. obj[q].sid = t
        BY Zenon, <1>0, <4>1 DEF IndexInv
      <4>3. q # p
        BY Zenon, <1>4, <4>2
      <4>4. QED BY Zenon, <1>1, <4>1, <4>2, <4>3
    <3>4. QED BY Zenon, <3>2, <3>3
  <2>3. \A l \in RecoverLoops :
           actor'[l].pc # "idle" => obj'[actor'[l].on].sid \in Sids /\ obj'[actor'[l].on].phase # "LoggingIn"
    <3>1. SUFFICES ASSUME NEW l \in RecoverLoops, actor'[l].pc # "idle"
          PROVE  obj'[actor'[l].on].sid \in Sids /\ obj'[actor'[l].on].phase # "LoggingIn"
      BY Zenon
    <3>2. PICK q \in Objs : q = actor[l].on /\ q = actor'[l].on
      BY Zenon, <1>0, ActorFields, IsFields DEF IsTyped
    <3>3. obj[q].sid \in Sids /\ obj[q].phase # "LoggingIn"
      BY Zenon, <1>0, <3>1, <3>2 DEF IndexInv
    <3>4. QED BY ZenonT(30), <1>1, <1>4, <3>2, <3>3
  <2>4. \A t \in sup'.listed : kstate'[t] # "none"
    BY Zenon, <1>0 DEF IndexInv
  <2>5. \A q \in sup'.check \ {0} : obj'[q].sid \in Sids /\ obj'[q].phase # "LoggingIn"
    <3>1. SUFFICES ASSUME NEW q \in sup'.check \ {0}
          PROVE  obj'[q].sid \in Sids /\ obj'[q].phase # "LoggingIn"
      BY Zenon
    <3>2. q \in Objs /\ (q = p \/ q \in sup.check \ {0})
      BY Zenon, ScanFields
    <3>3. q # p => obj[q].sid \in Sids /\ obj[q].phase # "LoggingIn"
      BY Zenon, <1>0, <3>2 DEF IndexInv
    <3>4. obj'[p].sid \in Sids /\ obj'[p].phase # "LoggingIn"
      BY Zenon, <1>1
    <3>5. QED BY Zenon, <1>1, <3>2, <3>3, <3>4
  <2>6. QED BY Zenon, <2>1, <2>2, <2>3, <2>4, <2>5 DEF IndexInv
<1>8. CallInv'
  <2>1. CASE actor'[User] = actor[User]
    <3>1. PICK q \in Objs : q = actor[User].on
      BY Zenon, <1>0, ActorFields, IsFields DEF IsTyped
    <3>2. /\ ~UserIn({"create"}) /\ ~UserIn(LoginPcs \ {"create"}) /\ ~UserIn({"bind", "login", "start"})
          /\ UserIn({"device"} \cup LogoutPcs) => obj[q].sid \in Sids
      BY Zenon, <1>0, <1>5, <3>1 DEF CallInv, UserIn, LoginPcs
    <3>3. UserIn({"device"} \cup LogoutPcs) => obj'[q] = obj[q] /\ (Gone(q) => Gone(q)')
      BY Zenon, <1>1, <1>4, <3>2 DEF Gone
    <3>4. UserIn({"destroy"}) \/ UserIn({"flush"}) \/ UserIn({"teardown"}) \/ UserIn(LogoutPcs)
            \/ UserIn({"flush", "destroy"}) => UserIn({"device"} \cup LogoutPcs)
      BY Zenon DEF UserIn, LogoutPcs
    <3>5. \A P : UserIn(P)' <=> UserIn(P)
      BY Zenon, <2>1 DEF UserIn
    <3>6. QED BY Zenon, <1>0, <1>5, <2>1, <3>1, <3>2, <3>3, <3>4, <3>5 DEF CallInv
  <2>2. CASE actor[User].pc = "lookup" /\ actor'[User].pc = "wait" /\ actor'[User].on = p
    <3>1. ~inUse'
      BY Zenon, <1>0, <2>2 DEF CallInv, UserIn
    <3>2. QED BY Zenon, <1>1, <2>2, <3>1 DEF CallInv, UserIn, LoginPcs, LogoutPcs
  <2>3. QED BY Zenon, <2>1, <2>2
<1>9. QED BY Zenon, <1>3, <1>6, <1>7, <1>8 DEF IsInv, QueuedWritesKept

LEMMA ScanAdoptsInv ==
    ASSUME IsInv, scanAdopts
    PROVE  IsInv'
<1>0. /\ UNCHANGED <<kstate, kconn, cache, kevents, actor, inUse, dropped>>
      /\ sup' = [listed |-> {}, check |-> {o \in Objs : byKey' = o /\ obj'[o].phase = "Established"}]
  BY Zenon DEF scanAdopts, kernel
<1>1. sup' \in Scans /\ sup'.listed = {} /\ sup'.check = {o \in Objs : byKey' = o /\ obj'[o].phase = "Established"}
  BY Zenon, <1>0 DEF Scans
<1>2. sup.listed \in SUBSET Sids /\ \A s \in sup.listed : kstate[s] # "none"
  BY Zenon, ScanFields DEF IsInv, IsTyped, IndexInv
<1>3. CASE UNCHANGED <<obj, byKey, bySID>>
  <2>0. IsTyped /\ KernelInv /\ ObjectInv /\ IndexInv /\ CallInv
    BY Zenon DEF IsInv
  <2>1. IsTyped'
    BY Zenon, <1>0, <1>1, <1>3, <2>0 DEF IsTyped
  <2>2. KernelInv' /\ ObjectInv' /\ CallInv'
    BY Zenon, <1>0, <1>3, <2>0 DEF KernelInv, ObjectInv, CallInv, UserIn, UserOn, Gone
  <2>3. \A o \in sup'.check \ {0} : obj'[o].sid \in Sids /\ obj'[o].phase # "LoggingIn"
    BY Zenon, <1>1, <1>3, <2>0 DEF ObjectInv
  <2>4. IndexInv'
    BY Zenon, <1>0, <1>1, <1>3, <2>0, <2>3 DEF IndexInv
  <2>5. QED BY Zenon, <1>0, <2>1, <2>2, <2>4 DEF IsInv, QueuedWritesKept
<1>4. CASE \E s \in sup.listed, p \in Objs : ~obj[p].made /\ Adopts(s, p)
  <2>1. PICK s \in sup.listed, p \in Objs : ~obj[p].made /\ Adopts(s, p)
    BY Zenon, <1>4
  <2>2. s \in Sids /\ kstate[s] # "none"
    BY Zenon, <1>2
  <2>3. actor' \in [Actors -> ActorStates] /\ \A l \in RecoverLoops : actor'[l] = actor[l]
    BY Zenon, <1>0, KernelTyped
  <2>4. byKey' = p
    BY Zenon, <2>1 DEF Adopts
  <2>5. sup'.check \ {0} \subseteq sup.check \cup {p} /\ sup'.listed \subseteq sup.listed
    BY Zenon, <1>1, <2>4
  <2>6. QED BY Zenon, <1>0, <1>1, <2>1, <2>2, <2>3, <2>5, AdoptStep
<1>5. adopt(sup.listed)
  BY Zenon DEF scanAdopts
<1>6. QED BY Zenon, <1>2, <1>3, <1>4, <1>5, AdoptIs

\* The call moves on and the objects stay, outside a login, a flush and the
\* completion of a teardown.
LEMMA CallMoves ==
    ASSUME IsInv, actor[User].pc \notin LoginPcs \cup {"flush", "destroy"},
           obj' \in [Objs -> Sessions], \A o \in Objs : Same(obj'[o], obj[o]),
           UNCHANGED <<kstate, kconn, kevents, byKey, bySID, sup, dropped>>,
           cache' \in [Sids -> {"none", "clean", "dirty"}],
           \A s \in Sids : cache'[s] = cache[s] \/ (cache'[s] = "clean" /\ kstate[s] = "LOGGED_IN"),
           actor' \in [Actors -> ActorStates], \A l \in RecoverLoops : actor'[l] = actor[l],
           inUse' => inUse \/ actor[User].pc = "device",
           actor'[User].pc = "device" => \A o \in Objs : obj[o].phase # "LoggingOut",
           CallInv'
    PROVE  IsInv'
<1>0. IsTyped /\ KernelInv /\ ObjectInv /\ IndexInv
  BY Zenon DEF IsInv
<1>1. IsTyped'
  BY Zenon, <1>0 DEF IsTyped
<1>2. KernelInv'
  BY Zenon, <1>0 DEF KernelInv
<1>3. \A o \in Objs : obj[o].phase # "LoggingIn"
  BY Zenon, <1>0 DEF ObjectInv, UserIn
<1>4. ObjectInv'
  <2>1. SUFFICES ASSUME NEW p \in Objs
        PROVE  (/\ ~obj[p].made => obj[p].sid = 0 /\ obj[p].phase = "Removed"
                /\ obj[p].phase \in {"Established", "Recovering", "LoggingOut"} => obj[p].sid \in Sids
                /\ obj[p].sid \in Sids => kstate[obj[p].sid] # "none"
                /\ obj[p].phase \in {"Established", "Recovering"} => ~obj[p].connDestroyed
                /\ obj[p].phase = "LoggingIn" => UserIn(LoginPcs) /\ UserOn(p)
                /\ obj[p].phase # "Removed" => byKey = p \/ (UserIn({"destroy"}) /\ UserOn(p) /\ Gone(p))
                /\ obj[p].phase = "LoggingOut" =>
                     /\ ~inUse /\ ~UserIn({"device"})
                     /\ cache[obj[p].sid] # "dirty" \/ (UserIn({"flush"}) /\ UserOn(p)))'
    BY Zenon DEF ObjectInv
  <2>2. /\ ~obj[p].made => obj[p].sid = 0 /\ obj[p].phase = "Removed"
        /\ obj[p].phase \in {"Established", "Recovering", "LoggingOut"} => obj[p].sid \in Sids
        /\ obj[p].sid \in Sids => kstate[obj[p].sid] # "none"
        /\ obj[p].phase \in {"Established", "Recovering"} => ~obj[p].connDestroyed
        /\ obj[p].phase # "Removed" => byKey = p
        /\ obj[p].phase = "LoggingOut" => ~inUse /\ actor[User].pc # "device" /\ cache[obj[p].sid] # "dirty"
    BY Zenon, <1>0 DEF ObjectInv, UserIn
  <2>3. /\ obj'[p].made = obj[p].made /\ obj'[p].sid = obj[p].sid /\ obj'[p].phase = obj[p].phase
        /\ obj'[p].connDestroyed = obj[p].connDestroyed
    BY Zenon DEF Same
  <2>4. obj[p].phase = "LoggingOut" => ~inUse' /\ actor'[User].pc # "device" /\ cache'[obj[p].sid] # "dirty"
    BY Zenon, <2>2
  <2>5. QED BY Zenon, <1>3, <2>2, <2>3, <2>4 DEF UserIn
<1>5. IndexInv'
  <2>1. \A o \in Objs : obj'[o].sid = obj[o].sid /\ obj'[o].phase = obj[o].phase
    BY Zenon DEF Same
  <2>2. /\ byKey \in Objs \cup {0} /\ bySID \in [Sids -> Objs \cup {0}] /\ sup.check \subseteq Objs \cup {0}
        /\ \A l \in RecoverLoops : actor[l].on \in Objs
    BY Zenon, <1>0, ActorFields, ScanFields, IsFields DEF IsTyped
  <2>3. byKey' # 0 => obj'[byKey'].phase # "Removed"
    BY Zenon, <1>0, <2>1, <2>2 DEF IndexInv
  <2>4. \A s \in Sids : bySID'[s] # 0 => obj'[bySID'[s]].sid = s
    <3>1. \A s \in Sids : bySID[s] # 0 => bySID[s] \in Objs /\ obj[bySID[s]].sid = s
      BY Zenon, <1>0, <2>2 DEF IndexInv
    <3>2. QED BY Zenon, <2>1, <3>1
  <2>5. \A l \in RecoverLoops :
           actor'[l].pc # "idle" => obj'[actor'[l].on].sid \in Sids /\ obj'[actor'[l].on].phase # "LoggingIn"
    <3>1. SUFFICES ASSUME NEW l \in RecoverLoops, actor'[l].pc # "idle"
          PROVE  obj'[actor'[l].on].sid \in Sids /\ obj'[actor'[l].on].phase # "LoggingIn"
      BY Zenon
    <3>2. PICK q \in Objs : q = actor[l].on
      BY Zenon, <2>2
    <3>3. actor'[l].on = q /\ obj[q].sid \in Sids /\ obj[q].phase # "LoggingIn"
      BY Zenon, <1>0, <3>1, <3>2 DEF IndexInv
    <3>4. QED BY Zenon, <2>1, <3>3
  <2>6. \A o \in sup'.check \ {0} : obj'[o].sid \in Sids /\ obj'[o].phase # "LoggingIn"
    BY Zenon, <1>0, <2>1, <2>2 DEF IndexInv
  <2>7. \A s \in sup'.listed : kstate'[s] # "none"
    BY Zenon, <1>0 DEF IndexInv
  <2>8. QED BY Zenon, <2>3, <2>4, <2>5, <2>6, <2>7 DEF IndexInv
<1>6. QED BY Zenon, <1>1, <1>2, <1>4, <1>5 DEF IsInv, QueuedWritesKept

\* The call's own steps: what it does to the actors.
LEMMA CallGoes ==
    ASSUME IsInv, NEW pc \in IsPcs, isGoto(User, pc)
    PROVE  /\ actor' \in [Actors -> ActorStates] /\ \A l \in RecoverLoops : actor'[l] = actor[l]
           /\ actor'[User].pc = pc /\ (pc # "idle" => actor'[User].on = actor[User].on)
<1>1. actor \in [Actors -> ActorStates] /\ actor' = Went(actor, User, pc)
  BY Zenon, KernelTyped DEF isGoto
<1>2. User \in Actors /\ \A l \in RecoverLoops : l \in Actors \ {User}
  BY Zenon, IsFields, IsAssumption
<1>3. /\ Went(actor, User, pc) \in [Actors -> ActorStates]
      /\ \A y \in Actors \ {User} : Went(actor, User, pc)[y] = actor[y]
      /\ Went(actor, User, pc)[User].pc = pc /\ (pc # "idle" => Went(actor, User, pc)[User].on = actor[User].on)
  BY ONLY <1>1, <1>2, pc \in IsPcs, WentIs
<1>4. QED BY ONLY <1>1, <1>2, <1>3, Zenon

LEMMA OnTyped ==
    ASSUME IsInv
    PROVE  On(User) \in Objs /\ On(User) = actor[User].on /\ obj[On(User)] \in Sessions /\ User \in Actors
  BY Zenon, KernelTyped, ActorFields, IsFields DEF On

LEMMA LoginFoundInv ==
    ASSUME IsInv, LoginFound
    PROVE  IsInv'
<1> DEFINE o == On(User)
           pc == IF obj[o].phase \notin {"Removed", "LoggingOut"} /\ obj[o].sid # 0
                    /\ Exists(obj[o].sid) THEN "device" ELSE "idle"
<1>1. /\ actor[User].pc = "found" /\ isGoto(User, pc) /\ pc \in IsPcs
      /\ UNCHANGED <<kstate, kconn, cache, kevents, obj, byKey, bySID, sup, inUse, dropped>>
  BY Zenon DEF LoginFound, isAt, IsPcs, kernel
<1>2. /\ actor' \in [Actors -> ActorStates] /\ \A l \in RecoverLoops : actor'[l] = actor[l]
      /\ actor'[User].pc = pc /\ (pc # "idle" => actor'[User].on = actor[User].on)
  BY Zenon, <1>1, CallGoes
<1>3. o \in Objs /\ o = actor[User].on /\ obj[o].sid \in Sids \cup {0} /\ ~inUse
  BY Zenon, <1>1, OnTyped, SessionFields DEF IsInv, CallInv, UserIn
<1>4. pc = "device" => obj[o].sid \in Sids /\ byKey = o /\ obj[o].phase # "LoggingOut"
  BY Zenon, <1>1, <1>3 DEF IsInv, ObjectInv, UserIn
<1>5. pc = "device" => \A p \in Objs : obj[p].phase # "LoggingOut"
  <2>1. \A p \in Objs : obj[p].phase # "Removed" => byKey = p
    BY Zenon, <1>1 DEF IsInv, ObjectInv, UserIn
  <2>2. QED BY Zenon, <1>4, <2>1
<1>6. CallInv'
  <2>1. CASE pc = "device"
    BY Zenon, <1>1, <1>2, <1>3, <1>4, <2>1 DEF CallInv, UserIn, LoginPcs, LogoutPcs
  <2>2. CASE pc = "idle"
    BY Zenon, <1>1, <1>2, <2>2 DEF CallInv, UserIn, LoginPcs, LogoutPcs
  <2>3. QED BY Zenon, <2>1, <2>2
<1>7. obj' \in [Objs -> Sessions] /\ (\A p \in Objs : Same(obj'[p], obj[p])) /\ cache' \in [Sids -> {"none", "clean", "dirty"}]
  BY Zenon, <1>1, KernelTyped DEF Same
<1>8. actor[User].pc \notin LoginPcs \cup {"flush", "destroy"}
  BY Zenon, <1>1 DEF LoginPcs
<1> HIDE DEF pc, o
<1>9. QED BY Zenon, <1>1, <1>2, <1>5, <1>6, <1>7, <1>8, CallMoves

LEMMA DeviceInv ==
    ASSUME IsInv, DeviceForLUN
    PROVE  IsInv'
<1> DEFINE s == Sid(User)
<1>0. /\ actor[User].pc = "device" /\ s = obj[actor[User].on].sid
      /\ UNCHANGED <<kstate, kconn, kevents, obj, byKey, bySID, sup, dropped>>
  BY Zenon DEF DeviceForLUN, isAt, Sid, On
<1>1. s \in Sids
  BY Zenon, <1>0 DEF IsInv, CallInv, UserIn
<1>2. obj' \in [Objs -> Sessions] /\ (\A p \in Objs : Same(obj'[p], obj[p])) /\ "idle" \in IsPcs /\ "lookup" \in IsPcs
  BY Zenon, <1>0, KernelTyped DEF Same, IsPcs
<1>3. actor[User].pc \notin LoginPcs \cup {"flush", "destroy"}
  BY Zenon, <1>0 DEF LoginPcs
<1>4. CASE /\ kstate[s] = "LOGGED_IN" /\ cache' = [cache EXCEPT ![s] = IF @ = "none" THEN "clean" ELSE @]
           /\ inUse' = TRUE /\ isGoto(User, "idle")
  <2>1. /\ cache' \in [Sids -> {"none", "clean", "dirty"}]
        /\ \A t \in Sids : cache'[t] = cache[t] \/ (cache'[t] = "clean" /\ kstate[t] = "LOGGED_IN")
    BY Zenon, <1>1, <1>4, KernelTyped
  <2>2. /\ actor' \in [Actors -> ActorStates] /\ (\A l \in RecoverLoops : actor'[l] = actor[l])
        /\ actor'[User].pc = "idle"
    BY Zenon, <1>2, <1>4, CallGoes
  <2>3. CallInv'
    BY Zenon, <2>2 DEF CallInv, UserIn, LoginPcs, LogoutPcs
  <2>4. QED BY Zenon, <1>0, <1>2, <1>3, <1>4, <2>1, <2>2, <2>3, CallMoves
<1>5. CASE isGoto(User, "lookup") /\ UNCHANGED <<cache, inUse>>
  <2>1. cache' \in [Sids -> {"none", "clean", "dirty"}]
    BY Zenon, <1>5, KernelTyped
  <2>2. /\ actor' \in [Actors -> ActorStates] /\ (\A l \in RecoverLoops : actor'[l] = actor[l])
        /\ actor'[User].pc = "lookup"
    BY Zenon, <1>2, <1>5, CallGoes
  <2>3. ~inUse
    BY Zenon, <1>0 DEF IsInv, CallInv, UserIn
  <2>4. CallInv'
    BY Zenon, <1>5, <2>2, <2>3 DEF CallInv, UserIn, LoginPcs, LogoutPcs
  <2>5. QED BY Zenon, <1>0, <1>2, <1>3, <1>5, <2>1, <2>2, <2>4, CallMoves
<1>6. QED BY Zenon, <1>4, <1>5 DEF DeviceForLUN

LEMMA DetachInv ==
    ASSUME IsInv, Detach
    PROVE  IsInv'
<1>1. /\ actor[User].pc = "idle" /\ isGoto(User, "lookup") /\ inUse' = FALSE /\ "lookup" \in IsPcs
      /\ UNCHANGED <<kstate, kconn, cache, kevents, obj, byKey, bySID, sup, dropped>>
  BY Zenon DEF Detach, isAt, IsPcs, kernel
<1>2. /\ actor' \in [Actors -> ActorStates] /\ (\A l \in RecoverLoops : actor'[l] = actor[l])
      /\ actor'[User].pc = "lookup"
  BY Zenon, <1>1, CallGoes
<1>3. CallInv'
  BY Zenon, <1>1, <1>2 DEF CallInv, UserIn, LoginPcs, LogoutPcs
<1>4. obj' \in [Objs -> Sessions] /\ (\A p \in Objs : Same(obj'[p], obj[p])) /\ cache' \in [Sids -> {"none", "clean", "dirty"}]
  BY Zenon, <1>1, KernelTyped DEF Same
<1>5. actor[User].pc \notin LoginPcs \cup {"flush", "destroy"}
  BY Zenon, <1>1 DEF LoginPcs
<1>6. QED BY Zenon, <1>1, <1>2, <1>3, <1>4, <1>5, CallMoves

LEMMA LogoutLockedInv ==
    ASSUME IsInv, LogoutLocked
    PROVE  IsInv'
<1> DEFINE o == On(User)
           pc == CASE obj[o].phase = "Removed" -> "idle"
                   [] obj[o].phase = "LoggingOut" -> "destroy"
                   [] OTHER -> "teardown"
<1>1. /\ actor[User].pc = "wait" /\ isGoto(User, pc)
      /\ UNCHANGED <<kstate, kconn, cache, kevents, byKey, bySID, sup, inUse, dropped>>
      /\ obj' = IF obj[o].phase = "Removed" THEN obj ELSE [obj EXCEPT ![o].op = User]
  BY Zenon DEF LogoutLocked, isAt, kernel
<1>2. /\ obj[o].phase = "Removed" => pc = "idle"
      /\ obj[o].phase = "LoggingOut" => pc = "destroy"
      /\ obj[o].phase \notin {"Removed", "LoggingOut"} => pc = "teardown"
  BY Zenon
<1>3. pc \in IsPcs
  BY Zenon, <1>2 DEF IsPcs
<1> HIDE DEF pc
<1>4. /\ actor' \in [Actors -> ActorStates] /\ \A l \in RecoverLoops : actor'[l] = actor[l]
      /\ actor'[User].pc = pc /\ (pc # "idle" => actor'[User].on = actor[User].on)
  BY Zenon, <1>1, <1>3, CallGoes
<1>5. /\ o \in Objs /\ o = actor[User].on /\ obj[o].sid \in Sids /\ ~inUse
      /\ obj[o].phase = "LoggingOut" => cache[obj[o].sid] # "dirty"
  BY Zenon, <1>1, OnTyped DEF IsInv, CallInv, ObjectInv, UserIn, LogoutPcs
<1>6. obj' \in [Objs -> Sessions] /\ \A p \in Objs : Same(obj'[p], obj[p])
  <2>1. CASE obj[o].phase = "Removed"
    BY Zenon, <1>1, <2>1, KernelTyped DEF Same
  <2>2. CASE obj[o].phase # "Removed"
    BY Zenon, <1>1, <1>5, <2>2, LockIs, KernelTyped, IsFields
  <2>3. QED BY Zenon, <2>1, <2>2
<1>7. obj'[o].phase = obj[o].phase /\ obj'[o].sid = obj[o].sid
  BY Zenon, <1>5, <1>6 DEF Same
<1> HIDE DEF o
<1>8. CallInv'
  <2>1. CASE pc = "idle"
    BY Zenon, <1>4, <2>1 DEF CallInv, UserIn, LoginPcs, LogoutPcs
  <2>2. CASE pc = "teardown"
    <3>1. actor'[User].on = o /\ actor'[User].pc = "teardown" /\ obj'[o].sid \in Sids /\ ~inUse'
          /\ obj'[o].phase \notin {"Removed", "LoggingOut"}
      BY Zenon, <1>1, <1>2, <1>4, <1>5, <1>7, <2>2
    <3>2. QED BY Zenon, <3>1 DEF CallInv, UserIn, LoginPcs, LogoutPcs
  <2>3. CASE pc = "destroy"
    <3>1. actor'[User].on = o /\ actor'[User].pc = "destroy" /\ obj'[o].sid \in Sids /\ ~inUse'
          /\ obj'[o].phase = "LoggingOut" /\ cache'[obj'[o].sid] # "dirty"
      BY Zenon, <1>1, <1>2, <1>4, <1>5, <1>7, <2>3
    <3>2. QED BY Zenon, <3>1 DEF CallInv, UserIn, LoginPcs, LogoutPcs
  <2>4. QED BY Zenon, <1>2, <2>1, <2>2, <2>3
<1>9. cache' \in [Sids -> {"none", "clean", "dirty"}] /\ actor[User].pc \notin LoginPcs \cup {"flush", "destroy"}
      /\ actor'[User].pc # "device"
  BY Zenon, <1>1, <1>2, <1>4, KernelTyped DEF LoginPcs
<1>10. QED BY Zenon, <1>1, <1>4, <1>6, <1>8, <1>9, CallMoves

LEMMA LogoutInv ==
    ASSUME IsInv, Logout
    PROVE  IsInv'
<1> DEFINE found == {s \in Sids : Adoptable(s)}
<1>1. /\ actor[User].pc = "lookup" /\ adopt(found)
      /\ UNCHANGED <<kstate, kconn, cache, kevents, sup, inUse, dropped>>
  BY Zenon DEF Logout, isAt, kernel
<1>2. found \in SUBSET Sids /\ \A s \in found : kstate[s] # "none"
  BY Zenon DEF Adoptable, Exists
<1>3. byKey' \in Objs \cup {0}
  <2>1. UNCHANGED <<obj, byKey, bySID>> \/ \E s \in found, p \in Objs : ~obj[p].made /\ Adopts(s, p)
    BY Zenon, <1>1, <1>2, AdoptIs
  <2>2. QED BY Zenon, <2>1, KernelTyped DEF Adopts
<1>4. /\ actor' \in [Actors -> ActorStates] /\ \A l \in RecoverLoops : actor'[l] = actor[l]
      /\ byKey' = 0 => actor'[User].pc = "idle"
      /\ byKey' # 0 => actor'[User].pc = "wait" /\ actor'[User].on = byKey'
  <2>1. actor \in [Actors -> ActorStates] /\ 1 \in Objs /\ User \in Actors
    BY Zenon, KernelTyped, IsFields
  <2>2. PICK pc \in IsPcs : pc = IF byKey' = 0 THEN "idle" ELSE "wait"
    BY Zenon DEF IsPcs
  <2>3. PICK on \in Objs : on = IF byKey' = 0 THEN 1 ELSE byKey'
    BY Zenon, <1>3, <2>1
  <2>4. actor' = [actor EXCEPT ![User].pc = pc, ![User].on = on]
    BY Zenon, <2>2, <2>3 DEF Logout
  <2>5. PICK u \in ActorStates : u = actor[User]
    BY Zenon, <2>1
  <2>6. actor' \in [Actors -> ActorStates] /\ actor'[User].pc = pc /\ actor'[User].on = on
    BY Zenon, <2>1, <2>4, <2>5 DEF ActorStates
  <2>7. \A l \in Actors \ {User} : actor'[l] = actor[l]
    BY Zenon, <2>1, <2>4
  <2>8. QED BY Zenon, <2>2, <2>3, <2>6, <2>7, IsFields, IsAssumption
<1>5. ~inUse'
  BY Zenon, <1>1 DEF IsInv, CallInv, UserIn
<1>6. CASE UNCHANGED <<obj, byKey, bySID>>
  <2>1. /\ obj' \in [Objs -> Sessions] /\ (\A p \in Objs : Same(obj'[p], obj[p]))
        /\ cache' \in [Sids -> {"none", "clean", "dirty"}]
    BY Zenon, <1>1, <1>6, KernelTyped DEF Same
  <2>2. actor[User].pc \notin LoginPcs \cup {"flush", "destroy"} /\ actor'[User].pc # "device"
    BY Zenon, <1>1, <1>4 DEF LoginPcs
  <2>3. CallInv'
    <3>1. CASE byKey' = 0
      BY Zenon, <1>4, <3>1 DEF CallInv, UserIn, LoginPcs, LogoutPcs
    <3>2. CASE byKey' # 0
      <4>1. PICK o \in Objs : o = byKey /\ o = byKey' /\ o = actor'[User].on
        BY Zenon, <1>3, <1>4, <1>6, <3>2
      <4>2. obj[o].phase \notin {"Removed", "LoggingIn"}
        BY Zenon, <1>1, <1>6, <3>2, <4>1 DEF IsInv, IndexInv, ObjectInv, UserIn, LoginPcs
      <4>3. obj[o].phase \in IsPhases
        BY Zenon, KernelTyped, SessionFields
      <4>4. obj'[o].sid \in Sids /\ obj'[o].phase # "Removed"
        BY Zenon, <1>6, <4>2, <4>3 DEF IsInv, ObjectInv, IsPhases
      <4>5. actor'[User].pc = "wait" /\ obj'[actor'[User].on].sid \in Sids /\ obj'[actor'[User].on].phase # "Removed"
        BY Zenon, <1>4, <3>2, <4>1, <4>4
      <4>6. QED BY Zenon, <1>5, <4>5 DEF CallInv, UserIn, LoginPcs, LogoutPcs
    <3>3. QED BY Zenon, <3>1, <3>2
  <2>4. QED BY Zenon, <1>1, <1>4, <1>6, <2>1, <2>2, <2>3, CallMoves
<1>7. CASE \E s \in found, p \in Objs : ~obj[p].made /\ Adopts(s, p)
  <2>1. PICK s \in found, p \in Objs : ~obj[p].made /\ Adopts(s, p)
    BY Zenon, <1>7
  <2>2. s \in Sids /\ kstate[s] # "none"
    BY Zenon, <1>2
  <2>3. byKey' = p /\ p # 0
    BY Zenon, <2>1, IsFields DEF Adopts
  <2>4. actor'[User].pc = "wait" /\ actor'[User].on = p
    BY Zenon, <1>4, <2>3
  <2>5. sup' \in Scans /\ sup'.listed \subseteq sup.listed /\ sup'.check \ {0} \subseteq sup.check \cup {p}
    BY Zenon, <1>1 DEF IsInv, IsTyped
  <2>6. QED BY Zenon, <1>1, <1>4, <2>1, <2>2, <2>4, <2>5, AdoptStep
<1>8. QED BY Zenon, <1>1, <1>2, <1>6, <1>7, AdoptIs

LEMMA LoginInv ==
    ASSUME IsInv, Login, byKey # 0
    PROVE  IsInv'
<1>1. /\ actor[User].pc = "idle" /\ ~inUse
      /\ actor' = [actor EXCEPT ![User] = [idleActor EXCEPT !.pc = "found", !.on = byKey]]
      /\ UNCHANGED <<kstate, kconn, cache, kevents, obj, byKey, bySID, sup, inUse, dropped>>
  BY Zenon DEF Login, isAt, kernel
<1>2. PICK o \in Objs : o = byKey
  BY Zenon, KernelTyped
<1>3. [idleActor EXCEPT !.pc = "found", !.on = o] \in ActorStates /\ [idleActor EXCEPT !.pc = "found", !.on = o].pc = "found"
  BY Zenon, <1>2, IsFields DEF ActorStates, IsPcs
<1>4. /\ actor' \in [Actors -> ActorStates] /\ (\A l \in Actors \ {User} : actor'[l] = actor[l])
      /\ actor'[User].pc = "found"
  BY Zenon, <1>1, <1>2, <1>3, KernelTyped, IsFields
<1>5. \A l \in RecoverLoops : actor'[l] = actor[l]
  BY Zenon, <1>4, IsFields, IsAssumption
<1>6. CallInv'
  BY Zenon, <1>1, <1>4 DEF CallInv, UserIn, LoginPcs, LogoutPcs
<1>7. obj' \in [Objs -> Sessions] /\ (\A p \in Objs : Same(obj'[p], obj[p])) /\ cache' \in [Sids -> {"none", "clean", "dirty"}]
  BY Zenon, <1>1, KernelTyped DEF Same
<1>8. actor[User].pc \notin LoginPcs \cup {"flush", "destroy"} /\ actor'[User].pc # "device"
  BY Zenon, <1>1, <1>4 DEF LoginPcs
<1>9. QED BY Zenon, <1>1, <1>4, <1>5, <1>6, <1>7, <1>8, CallMoves

\* The object an unsuccessful login or a completed logout leaves behind.
LEMMA CallForgets ==
    ASSUME IsInv, NEW o \in Objs, actor[User].on = o, actor[User].pc \in {"create", "fail", "flush", "destroy"},
           obj' \in [Objs -> Sessions], \A p \in Objs \ {o} : Same(obj'[p], obj[p]),
           obj'[o].made, obj'[o].sid = obj[o].sid, obj'[o].phase = "Removed", ~obj'[o].connDestroyed, forgetIndexes(o),
           kstate' \in [Sids -> {"none", "FREE", "LOGGED_IN", "FAILED", "gone"}],
           kconn' \in [Sids -> {"none", "new", "bound", "stopped", "up", "down"}],
           cache' \in [Sids -> {"none", "clean", "dirty"}], KernelInv', KernelMonotone,
           \A s \in Sids : cache'[s] = "none" \/ cache'[s] = cache[s],
           actor' \in [Actors -> ActorStates], actor'[User].pc = "idle",
           \A l \in RecoverLoops : actor'[l].pc = actor[l].pc /\ actor'[l].on = actor[l].on,
           UNCHANGED <<sup, inUse>>, ~dropped'
    PROVE  IsInv'
<1>0. IsTyped /\ KernelInv /\ ObjectInv /\ IndexInv /\ CallInv
  BY Zenon DEF IsInv
<1>1. /\ byKey' \in Objs \cup {0} /\ bySID' \in [Sids -> Objs \cup {0}]
      /\ byKey' # o /\ (byKey' # 0 => byKey' = byKey) /\ (byKey # o => byKey' = byKey)
      /\ \A s \in Sids : bySID'[s] # 0 => bySID'[s] = bySID[s] /\ bySID'[s] # o
  BY Zenon, KernelTyped, IndexesForgotten
<1>2. IsTyped'
  BY Zenon, <1>0, <1>1 DEF IsTyped
<1>3. \A p \in Objs \ {o} : /\ obj'[p].sid = obj[p].sid /\ obj'[p].phase = obj[p].phase
                            /\ obj'[p].made = obj[p].made /\ obj'[p].connDestroyed = obj[p].connDestroyed
  BY Zenon DEF Same
<1>4. \A p \in Objs \ {o} : obj[p].phase # "Removed" => byKey = p
  BY Zenon, <1>0 DEF ObjectInv, UserOn
<1>5. ~inUse
  BY Zenon, <1>0 DEF CallInv, UserIn
<1>6. ObjectInv'
  <2>1. SUFFICES ASSUME NEW p \in Objs
        PROVE  (/\ ~obj[p].made => obj[p].sid = 0 /\ obj[p].phase = "Removed"
                /\ obj[p].phase \in {"Established", "Recovering", "LoggingOut"} => obj[p].sid \in Sids
                /\ obj[p].sid \in Sids => kstate[obj[p].sid] # "none"
                /\ obj[p].phase \in {"Established", "Recovering"} => ~obj[p].connDestroyed
                /\ obj[p].phase = "LoggingIn" => UserIn(LoginPcs) /\ UserOn(p)
                /\ obj[p].phase # "Removed" => byKey = p \/ (UserIn({"destroy"}) /\ UserOn(p) /\ Gone(p))
                /\ obj[p].phase = "LoggingOut" =>
                     /\ ~inUse /\ ~UserIn({"device"})
                     /\ cache[obj[p].sid] # "dirty" \/ (UserIn({"flush"}) /\ UserOn(p)))'
    BY Zenon DEF ObjectInv
  <2>2. obj[p].sid \in Sids => kstate'[obj[p].sid] # "none"
    BY Zenon, <1>0 DEF ObjectInv, KernelMonotone
  <2>3. CASE p = o
    BY Zenon, <2>2, <2>3
  <2>4. CASE p # o
    <3>1. /\ obj'[p].sid = obj[p].sid /\ obj'[p].phase = obj[p].phase
          /\ obj'[p].made = obj[p].made /\ obj'[p].connDestroyed = obj[p].connDestroyed
          /\ obj[p].phase # "Removed" => byKey' = p
      BY Zenon, <1>1, <1>3, <1>4, <2>4
    <3>2. /\ ~obj[p].made => obj[p].sid = 0 /\ obj[p].phase = "Removed"
          /\ obj[p].phase \in {"Established", "Recovering", "LoggingOut"} => obj[p].sid \in Sids
          /\ obj[p].phase \in {"Established", "Recovering"} => ~obj[p].connDestroyed
          /\ obj[p].phase # "LoggingIn"
          /\ obj[p].phase = "LoggingOut" => cache[obj[p].sid] # "dirty"
      BY Zenon, <1>0, <2>4 DEF ObjectInv, UserOn
    <3>3. obj[p].phase = "LoggingOut" => cache'[obj[p].sid] # "dirty"
      BY Zenon, <3>2
    <3>4. QED BY Zenon, <1>5, <2>2, <3>1, <3>2, <3>3 DEF UserIn
  <2>5. QED BY Zenon, <2>3, <2>4
<1>7. IndexInv'
  <2>1. byKey' # 0 => obj'[byKey'].phase # "Removed"
    <3>1. HAVE byKey' # 0
    <3>2. PICK p \in Objs \ {o} : p = byKey' /\ p = byKey /\ p # 0
      BY ONLY <1>1, <3>1, Zenon
    <3>3. obj[p].phase # "Removed"
      BY Zenon, <1>0, <3>2 DEF IndexInv
    <3>4. QED BY Zenon, <1>3, <3>2, <3>3
  <2>2. \A s \in Sids : bySID'[s] # 0 => obj'[bySID'[s]].sid = s
    <3>1. TAKE s \in Sids
    <3>2. HAVE bySID'[s] # 0
    <3>3. PICK p \in Objs \ {o} : p = bySID'[s] /\ p = bySID[s] /\ p # 0
      BY ONLY <1>1, <3>1, <3>2, Zenon
    <3>4. obj[p].sid = s
      <4>1. \A t \in Sids : bySID[t] # 0 => obj[bySID[t]].sid = t
        BY Zenon, <1>0 DEF IndexInv
      <4>2. QED BY Zenon, <3>1, <3>3, <4>1
    <3>5. QED BY Zenon, <1>3, <3>3, <3>4
  <2>3. \A p \in Objs : obj'[p].sid = obj[p].sid /\ (obj[p].phase # "LoggingIn" => obj'[p].phase # "LoggingIn")
    BY Zenon, <1>3
  <2>4. \A l \in RecoverLoops :
           actor'[l].pc # "idle" => obj'[actor'[l].on].sid \in Sids /\ obj'[actor'[l].on].phase # "LoggingIn"
    <3>1. SUFFICES ASSUME NEW l \in RecoverLoops, actor'[l].pc # "idle"
          PROVE  obj'[actor'[l].on].sid \in Sids /\ obj'[actor'[l].on].phase # "LoggingIn"
      BY Zenon
    <3>2. PICK q \in Objs : q = actor[l].on
      BY Zenon, <1>0, ActorFields, IsFields DEF IsTyped
    <3>3. actor'[l].on = q /\ obj[q].sid \in Sids /\ obj[q].phase # "LoggingIn"
      BY Zenon, <1>0, <3>1, <3>2 DEF IndexInv
    <3>4. QED BY Zenon, <2>3, <3>3
  <2>5. sup.check \ {0} \subseteq Objs /\ sup.listed \subseteq Sids
    BY Zenon, <1>0, ScanFields DEF IsTyped
  <2>6. \A p \in sup'.check \ {0} : obj'[p].sid \in Sids /\ obj'[p].phase # "LoggingIn"
    BY Zenon, <1>0, <2>3, <2>5 DEF IndexInv
  <2>7. \A s \in sup'.listed : kstate'[s] # "none"
    BY Zenon, <1>0, <2>5 DEF IndexInv, KernelMonotone
  <2>8. QED BY Zenon, <2>1, <2>2, <2>4, <2>6, <2>7 DEF IndexInv
<1>8. CallInv'
  BY Zenon DEF CallInv, UserIn, LoginPcs, LogoutPcs
<1>9. QED BY Zenon, <1>2, <1>6, <1>7, <1>8 DEF IsInv, QueuedWritesKept

\* What a teardown leaves in the kernel.
LEMMA DestroyKernelIs ==
    ASSUME IsInv, NEW o \in Objs, obj[o].sid \in Sids, NEW ok \in BOOLEAN, destroyKernelSession(o, ok),
           cache[obj[o].sid] # "dirty"
    PROVE  /\ kstate' \in [Sids -> {"none", "FREE", "LOGGED_IN", "FAILED", "gone"}]
           /\ kconn' \in [Sids -> {"none", "new", "bound", "stopped", "up", "down"}]
           /\ cache' \in [Sids -> {"none", "clean", "dirty"}] /\ KernelInv' /\ KernelMonotone
           /\ \A s \in Sids : cache'[s] = "none" \/ cache'[s] = cache[s]
           /\ ~dropped' /\ (~ok => Exists(obj[o].sid))
<1> DEFINE s == obj[o].sid
<1>0. ~dropped
  BY Zenon DEF IsInv, QueuedWritesKept
<1>1. CASE ok /\ Exists(s) /\ Destroyed(s)
  <2>1. kstate[s] # "none"
    BY Zenon, <1>1 DEF Exists
  <2>2. ~dropped'
    BY Zenon, <1>0, <1>1 DEF Destroyed
  <2>3. QED BY Zenon, <1>1, <2>1, <2>2, DestroyIs DEF Destroyed
<1>2. CASE ok /\ UNCHANGED <<kstate, kconn, cache, dropped, kevents>>
  <2>1. KernelInv'
    BY Zenon, <1>2 DEF IsInv, KernelInv
  <2>2. QED BY Zenon, <1>0, <1>2, <2>1, KernelTyped DEF KernelMonotone
<1>3. CASE /\ ~ok /\ Exists(s) /\ (UNCHANGED kconn \/ kconn' = [kconn EXCEPT ![s] = "none"])
           /\ kstate' = [kstate EXCEPT ![s] = IF @ = "LOGGED_IN" THEN "FAILED" ELSE @]
           /\ UNCHANGED <<cache, dropped, kevents>>
  <2>1. /\ kstate' \in [Sids -> {"none", "FREE", "LOGGED_IN", "FAILED", "gone"}]
        /\ \A t \in Sids : kstate'[t] = kstate[t] \/ (kstate[t] = "LOGGED_IN" /\ kstate'[t] = "FAILED")
    BY Zenon, <1>3, KernelTyped
  <2>2. /\ kconn' \in [Sids -> {"none", "new", "bound", "stopped", "up", "down"}]
        /\ \A t \in Sids : kconn'[t] = kconn[t] \/ kconn'[t] = "none"
    BY Zenon, <1>3, KernelTyped
  <2>3. KernelInv
    BY Zenon DEF IsInv
  <2>4. KernelInv'
    BY Zenon, <1>3, <2>1, <2>2, <2>3 DEF KernelInv
  <2>5. KernelMonotone
    BY Zenon, <2>1 DEF KernelMonotone
  <2>6. QED BY Zenon, <1>0, <1>3, <2>1, <2>2, <2>4, <2>5, KernelTyped
<1>4. QED BY Zenon, <1>1, <1>2, <1>3 DEF destroyKernelSession

LEMMA ForgottenUnlockedIs ==
    ASSUME IsInv, NEW o \in Objs, obj' = Unlocked(Forgotten(obj, o), o)
    PROVE  /\ obj' \in [Objs -> Sessions] /\ \A p \in Objs \ {o} : Same(obj'[p], obj[p])
           /\ obj'[o].made /\ obj'[o].sid = obj[o].sid /\ obj'[o].phase = "Removed" /\ ~obj'[o].connDestroyed
<1>1. obj \in [Objs -> Sessions]
  BY Zenon, KernelTyped
<1>2. /\ Forgotten(obj, o) \in [Objs -> Sessions] /\ \A p \in Objs \ {o} : Forgotten(obj, o)[p] = obj[p]
      /\ Forgotten(obj, o)[o].made /\ Forgotten(obj, o)[o].sid = obj[o].sid
      /\ Forgotten(obj, o)[o].phase = "Removed" /\ ~Forgotten(obj, o)[o].connDestroyed
  BY Zenon, <1>1, ForgottenIs
<1>3. obj' \in [Objs -> Sessions] /\ \A p \in Objs : Same(obj'[p], Forgotten(obj, o)[p])
  BY Zenon, <1>2, UnlockedIs
<1>4. QED BY Zenon, <1>2, <1>3 DEF Same

\* A cancelled recovery goes on to where it sees that it was.
LEMMA CancelledGoes ==
    ASSUME IsInv, NEW o \in Objs, \/ actor' = CancelOf(Went(actor, User, "idle"), o)
                                  \/ actor' = Went(CancelOf(actor, o), User, "idle")
    PROVE  /\ actor' \in [Actors -> ActorStates] /\ actor'[User].pc = "idle"
           /\ \A l \in RecoverLoops : actor'[l].pc = actor[l].pc /\ actor'[l].on = actor[l].on
<1>1. actor \in [Actors -> ActorStates] /\ User \in Actors /\ "idle" \in IsPcs
  BY Zenon, KernelTyped, IsFields DEF IsPcs
<1>2. \A l \in RecoverLoops : l \in Actors \ {User}
  BY Zenon, IsFields, IsAssumption
<1>3. CASE actor' = CancelOf(Went(actor, User, "idle"), o)
  <2>1. /\ Went(actor, User, "idle") \in [Actors -> ActorStates] /\ Went(actor, User, "idle")[User].pc = "idle"
        /\ \A y \in Actors \ {User} : Went(actor, User, "idle")[y] = actor[y]
    BY ONLY <1>1, WentIs
  <2>2. /\ actor' \in [Actors -> ActorStates] /\ actor'[User] = Went(actor, User, "idle")[User]
        /\ \A x \in Actors : /\ actor'[x].pc = Went(actor, User, "idle")[x].pc
                             /\ actor'[x].on = Went(actor, User, "idle")[x].on
    BY ONLY <1>3, <2>1, o \in Objs, CancelIs
  <2>3. QED BY ONLY <1>2, <2>1, <2>2, Zenon
<1>4. CASE actor' = Went(CancelOf(actor, o), User, "idle")
  <2>1. /\ CancelOf(actor, o) \in [Actors -> ActorStates]
        /\ \A x \in Actors : CancelOf(actor, o)[x].pc = actor[x].pc /\ CancelOf(actor, o)[x].on = actor[x].on
    BY ONLY <1>1, o \in Objs, CancelIs
  <2>2. /\ actor' \in [Actors -> ActorStates] /\ actor'[User].pc = "idle"
        /\ \A y \in Actors \ {User} : actor'[y] = CancelOf(actor, o)[y]
    BY ONLY <1>1, <1>4, <2>1, WentIs
  <2>3. QED BY ONLY <1>2, <2>1, <2>2, Zenon
<1>5. QED BY Zenon, <1>3, <1>4

LEMMA EstablishFailsInv ==
    ASSUME IsInv, establishFails
    PROVE  IsInv'
<1>1. PICK o \in Objs : o = On(User) /\ o = actor[User].on
  BY Zenon, OnTyped
<1>2. /\ actor[User].pc = "fail" /\ obj' = Unlocked(Forgotten(obj, o), o) /\ forgetIndexes(o)
      /\ actor' = CancelOf(Went(actor, User, "idle"), o) /\ UNCHANGED <<sup, inUse>>
      /\ \E ok \in BOOLEAN : destroyKernelSession(o, ok)
  BY Zenon, <1>1 DEF establishFails, isAt
<1>3. obj[o].sid \in Sids /\ cache[obj[o].sid] # "dirty"
  BY Zenon, <1>1, <1>2 DEF IsInv, CallInv, UserIn, LoginPcs
<1>4. /\ kstate' \in [Sids -> {"none", "FREE", "LOGGED_IN", "FAILED", "gone"}]
      /\ kconn' \in [Sids -> {"none", "new", "bound", "stopped", "up", "down"}]
      /\ cache' \in [Sids -> {"none", "clean", "dirty"}] /\ KernelInv' /\ KernelMonotone
      /\ \A s \in Sids : cache'[s] = "none" \/ cache'[s] = cache[s]
      /\ ~dropped'
  <2>1. PICK ok \in BOOLEAN : destroyKernelSession(o, ok)
    BY Zenon, <1>2
  <2>2. QED BY Zenon, <1>3, <2>1, DestroyKernelIs
<1>5. /\ obj' \in [Objs -> Sessions] /\ \A p \in Objs \ {o} : Same(obj'[p], obj[p])
      /\ obj'[o].made /\ obj'[o].sid = obj[o].sid /\ obj'[o].phase = "Removed" /\ ~obj'[o].connDestroyed
  BY Zenon, <1>2, ForgottenUnlockedIs
<1>6. /\ actor' \in [Actors -> ActorStates] /\ actor'[User].pc = "idle"
      /\ \A l \in RecoverLoops : actor'[l].pc = actor[l].pc /\ actor'[l].on = actor[l].on
  BY Zenon, <1>2, CancelledGoes
<1>7. QED BY Zenon, <1>1, <1>2, <1>4, <1>5, <1>6, CallForgets

\* The kernel made nothing of the session, or lost it during the flush.
LEMMA GivesUpInv ==
    ASSUME IsInv, NEW o \in Objs, actor[User].pc \in {"create", "flush"}, actor[User].on = o,
           obj' = Unlocked(Forgotten(obj, o), o), forgetIndexes(o), isGoto(User, "idle"),
           UNCHANGED <<kstate, kconn, cache, kevents, sup, inUse, dropped>>
    PROVE  IsInv'
<1>1. /\ obj' \in [Objs -> Sessions] /\ \A p \in Objs \ {o} : Same(obj'[p], obj[p])
      /\ obj'[o].made /\ obj'[o].sid = obj[o].sid /\ obj'[o].phase = "Removed" /\ ~obj'[o].connDestroyed
  BY Zenon, ForgottenUnlockedIs
<1>2. /\ actor' \in [Actors -> ActorStates] /\ actor'[User].pc = "idle"
      /\ \A l \in RecoverLoops : actor'[l] = actor[l]
  <2>1. "idle" \in IsPcs
    BY Zenon DEF IsPcs
  <2>2. QED BY Zenon, <2>1, CallGoes
<1>3. /\ kstate' \in [Sids -> {"none", "FREE", "LOGGED_IN", "FAILED", "gone"}]
      /\ kconn' \in [Sids -> {"none", "new", "bound", "stopped", "up", "down"}]
      /\ cache' \in [Sids -> {"none", "clean", "dirty"}] /\ KernelMonotone
  BY Zenon, KernelTyped DEF KernelMonotone
<1>4. KernelInv' /\ ~dropped'
  BY Zenon DEF IsInv, KernelInv, QueuedWritesKept
<1>5. QED BY Zenon, <1>1, <1>2, <1>3, <1>4, CallForgets

\* The call works on its object, which keeps its place in the indexes.
LEMMA CallWorks ==
    ASSUME IsInv, NEW o \in Objs, actor[User].on = o, actor[User].pc # "idle",
           obj' \in [Objs -> Sessions], \A p \in Objs \ {o} : Same(obj'[p], obj[p]),
           obj[o].sid \in Sids => obj'[o].sid = obj[o].sid, obj'[o].sid \in Sids, obj'[o].made,
           kstate'[obj'[o].sid] # "none",
           obj[o].phase # "Removed" => obj'[o].phase # "Removed",
           obj'[o].phase \in {"Established", "Recovering"} => ~obj'[o].connDestroyed,
           obj'[o].phase = "LoggingIn" =>
               obj[o].phase = "LoggingIn" /\ actor'[User].pc \in LoginPcs /\ actor'[User].on = o,
           obj'[o].phase # "Removed" =>
               byKey = o \/ (actor'[User].pc = "destroy" /\ actor'[User].on = o /\ Gone(o)'),
           obj'[o].phase = "LoggingOut" =>
               /\ actor'[User].pc # "device"
               /\ cache'[obj'[o].sid] # "dirty" \/ (actor'[User].pc = "flush" /\ actor'[User].on = o),
           kstate' \in [Sids -> {"none", "FREE", "LOGGED_IN", "FAILED", "gone"}],
           kconn' \in [Sids -> {"none", "new", "bound", "stopped", "up", "down"}],
           cache' \in [Sids -> {"none", "clean", "dirty"}], KernelInv', KernelMonotone,
           \A s \in Sids : cache'[s] = "none" \/ cache'[s] = cache[s],
           bySID' \in [Sids -> Objs \cup {0}],
           \A s \in Sids : bySID'[s] = bySID[s] \/ (bySID'[s] = o /\ obj'[o].sid = s),
           actor' \in [Actors -> ActorStates], CallInv', actor'[User].pc = "device" => byKey = o,
           \A l \in RecoverLoops : \/ actor'[l].pc = actor[l].pc /\ actor'[l].on = actor[l].on
                                   \/ actor'[l].on = o /\ obj'[o].phase # "LoggingIn",
           UNCHANGED <<byKey, sup, inUse>>, ~dropped'
    PROVE  IsInv'
<1>0. IsTyped /\ KernelInv /\ ObjectInv /\ IndexInv /\ CallInv
  BY Zenon DEF IsInv
<1>1. IsTyped'
  BY Zenon, <1>0 DEF IsTyped
<1>2. \A p \in Objs \ {o} : /\ obj'[p].sid = obj[p].sid /\ obj'[p].phase = obj[p].phase
                            /\ obj'[p].made = obj[p].made /\ obj'[p].connDestroyed = obj[p].connDestroyed
  BY Zenon DEF Same
<1>3. \A p \in Objs \ {o} : obj[p].phase # "Removed" => byKey = p
  BY Zenon, <1>0 DEF ObjectInv, UserOn
<1>4. ~inUse
  BY Zenon, <1>0 DEF CallInv, UserIn
<1>5. ObjectInv'
  <2>1. SUFFICES ASSUME NEW p \in Objs
        PROVE  (/\ ~obj[p].made => obj[p].sid = 0 /\ obj[p].phase = "Removed"
                /\ obj[p].phase \in {"Established", "Recovering", "LoggingOut"} => obj[p].sid \in Sids
                /\ obj[p].sid \in Sids => kstate[obj[p].sid] # "none"
                /\ obj[p].phase \in {"Established", "Recovering"} => ~obj[p].connDestroyed
                /\ obj[p].phase = "LoggingIn" => UserIn(LoginPcs) /\ UserOn(p)
                /\ obj[p].phase # "Removed" => byKey = p \/ (UserIn({"destroy"}) /\ UserOn(p) /\ Gone(p))
                /\ obj[p].phase = "LoggingOut" =>
                     /\ ~inUse /\ ~UserIn({"device"})
                     /\ cache[obj[p].sid] # "dirty" \/ (UserIn({"flush"}) /\ UserOn(p)))'
    BY Zenon DEF ObjectInv
  <2>2. CASE p = o
    BY Zenon, <1>4, <2>2 DEF UserIn, UserOn
  <2>3. CASE p # o
    <3>1. /\ obj'[p].sid = obj[p].sid /\ obj'[p].phase = obj[p].phase
          /\ obj'[p].made = obj[p].made /\ obj'[p].connDestroyed = obj[p].connDestroyed
          /\ obj[p].phase # "Removed" => byKey' = p /\ actor'[User].pc # "device"
      BY Zenon, <1>2, <1>3, <2>3
    <3>2. /\ ~obj[p].made => obj[p].sid = 0 /\ obj[p].phase = "Removed"
          /\ obj[p].phase \in {"Established", "Recovering", "LoggingOut"} => obj[p].sid \in Sids
          /\ obj[p].phase \in {"Established", "Recovering"} => ~obj[p].connDestroyed
          /\ obj[p].phase # "LoggingIn" /\ (obj[p].sid \in Sids => kstate[obj[p].sid] # "none")
          /\ obj[p].phase = "LoggingOut" => cache[obj[p].sid] # "dirty"
      BY Zenon, <1>0, <2>3 DEF ObjectInv, UserOn
    <3>3. /\ obj[p].phase = "LoggingOut" => cache'[obj[p].sid] # "dirty"
          /\ obj[p].sid \in Sids => kstate'[obj[p].sid] # "none"
      BY Zenon, <3>2 DEF KernelMonotone
    <3>4. QED BY Zenon, <1>4, <3>1, <3>2, <3>3 DEF UserIn
  <2>4. QED BY Zenon, <2>2, <2>3
<1>6. IndexInv'
  <2>0. \A p \in Objs : /\ obj[p].phase # "Removed" => obj'[p].phase # "Removed"
                        /\ obj[p].sid \in Sids => obj'[p].sid = obj[p].sid
    BY Zenon, <1>2
  <2>1. byKey' # 0 => obj'[byKey'].phase # "Removed"
    <3>1. HAVE byKey' # 0
    <3>2. PICK p \in Objs : p = byKey' /\ p = byKey /\ p # 0
      BY Zenon, <3>1, KernelTyped
    <3>3. obj[p].phase # "Removed"
      BY Zenon, <1>0, <3>2 DEF IndexInv
    <3>4. QED BY ONLY <2>0, <3>2, <3>3, Zenon
  <2>2. \A s \in Sids : bySID'[s] # 0 => obj'[bySID'[s]].sid = s
    <3>1. TAKE s \in Sids
    <3>2. HAVE bySID'[s] # 0
    <3>3. CASE bySID'[s] = o /\ obj'[o].sid = s
      BY Zenon, <3>3
    <3>4. CASE bySID'[s] = bySID[s]
      <4>1. PICK p \in Objs : p = bySID'[s] /\ p = bySID[s] /\ p # 0
        BY ZenonT(30), <3>1, <3>2, <3>4, KernelTyped
      <4>2. \A t \in Sids : bySID[t] # 0 => obj[bySID[t]].sid = t
        BY ONLY <1>0, Zenon DEF IndexInv
      <4>3. obj[p].sid = s
        BY ONLY <3>1, <4>1, <4>2, Zenon
      <4>4. QED BY ONLY <2>0, <3>1, <4>1, <4>3, Zenon
    <3>5. QED BY Zenon, <3>1, <3>3, <3>4
  <2>3. \A p \in Objs : obj[p].sid \in Sids /\ obj[p].phase # "LoggingIn" =>
                          obj'[p].sid \in Sids /\ obj'[p].phase # "LoggingIn"
    BY Zenon, <1>2
  <2>4. \A l \in RecoverLoops :
           actor'[l].pc # "idle" => obj'[actor'[l].on].sid \in Sids /\ obj'[actor'[l].on].phase # "LoggingIn"
    <3>1. SUFFICES ASSUME NEW l \in RecoverLoops, actor'[l].pc # "idle"
          PROVE  obj'[actor'[l].on].sid \in Sids /\ obj'[actor'[l].on].phase # "LoggingIn"
      BY Zenon
    <3>2. CASE actor'[l].on = o /\ obj'[o].phase # "LoggingIn"
      BY Zenon, <3>2
    <3>3. CASE actor'[l].pc = actor[l].pc /\ actor'[l].on = actor[l].on
      <4>1. PICK q \in Objs : q = actor[l].on
        BY Zenon, <1>0, ActorFields, IsFields DEF IsTyped
      <4>2. actor'[l].on = q /\ obj[q].sid \in Sids /\ obj[q].phase # "LoggingIn"
        BY Zenon, <1>0, <3>1, <3>3, <4>1 DEF IndexInv
      <4>3. QED BY Zenon, <2>3, <4>2
    <3>4. QED BY Zenon, <3>2, <3>3
  <2>5. sup.check \ {0} \subseteq Objs /\ sup.listed \subseteq Sids
    BY Zenon, <1>0, ScanFields DEF IsTyped
  <2>6. \A p \in sup'.check \ {0} : obj'[p].sid \in Sids /\ obj'[p].phase # "LoggingIn"
    BY Zenon, <1>0, <2>3, <2>5 DEF IndexInv
  <2>7. \A s \in sup'.listed : kstate'[s] # "none"
    BY Zenon, <1>0, <2>5 DEF IndexInv, KernelMonotone
  <2>8. QED BY Zenon, <2>1, <2>2, <2>4, <2>6, <2>7 DEF IndexInv
<1>7. QED BY Zenon, <1>1, <1>5, <1>6 DEF IsInv, QueuedWritesKept

\* An object in another phase, the others as they were.
InPhase(f, o, v) == [f EXCEPT ![o].phase = v]
IsInPhase(g, f, o, v) ==
    /\ g \in [Objs -> Sessions] /\ \A p \in Objs \ {o} : g[p] = f[p]
    /\ g[o].phase = v /\ g[o].made = f[o].made /\ g[o].sid = f[o].sid
    /\ g[o].connDestroyed = f[o].connDestroyed

LEMMA PhaseIs ==
    ASSUME NEW f \in [Objs -> Sessions], NEW o \in Objs, NEW v \in IsPhases
    PROVE  IsInPhase(InPhase(f, o, v), f, o, v)
<1>1. PICK x \in Sessions : x = f[o]
  BY Zenon
<1>2. PICK y : y = [x EXCEPT !.phase = v]
  BY Zenon
<1>3. y \in Sessions /\ y.phase = v /\ y.made = x.made /\ y.sid = x.sid /\ y.connDestroyed = x.connDestroyed
  BY ONLY <1>2, x \in Sessions, v \in IsPhases, Zenon DEF Sessions
<1>4. InPhase(f, o, v) = [f EXCEPT ![o] = y]
  BY Zenon, <1>1, <1>2 DEF InPhase
<1>5. QED BY Zenon, <1>1, <1>3, <1>4 DEF IsInPhase

LEMMA CreateSessionInv ==
    ASSUME IsInv, createSession
    PROVE  IsInv'
<1>1. PICK o \in Objs : o = On(User) /\ o = actor[User].on
  BY Zenon, OnTyped
<1>2. /\ actor[User].pc = "create" /\ UNCHANGED <<kconn, cache, kevents, sup, inUse, dropped>>
      /\ obj[o].made /\ obj[o].phase = "LoggingIn" /\ byKey = o /\ obj[o].sid = 0 /\ 0 \notin Sids
      /\ ~inUse /\ ~dropped /\ obj \in [Objs -> Sessions] /\ bySID \in [Sids -> Objs \cup {0}]
  <2>1. actor[User].pc = "create" /\ UNCHANGED <<kconn, cache, kevents, sup, inUse, dropped>>
    BY Zenon DEF createSession, isAt
  <2>2. obj[o].made /\ obj[o].phase = "LoggingIn" /\ byKey = o /\ obj[o].sid = 0 /\ ~inUse /\ ~dropped
    BY Zenon, <1>1, <2>1 DEF IsInv, CallInv, UserIn, LoginPcs, QueuedWritesKept
  <2>3. QED BY Zenon, <2>1, <2>2, IsFields, KernelTyped
<1>3. CASE \E s \in Sids : /\ kstate[s] = "none" /\ kstate' = [kstate EXCEPT ![s] = "FREE"]
                           /\ obj' = [obj EXCEPT ![o].sid = s, ![o].connDestroyed = TRUE]
                           /\ bySID' = [bySID EXCEPT ![s] = o] /\ isGoto(User, "conn") /\ UNCHANGED byKey
  <2>1. PICK s \in Sids : /\ kstate[s] = "none" /\ kstate' = [kstate EXCEPT ![s] = "FREE"]
                          /\ obj' = [obj EXCEPT ![o].sid = s, ![o].connDestroyed = TRUE]
                          /\ bySID' = [bySID EXCEPT ![s] = o] /\ isGoto(User, "conn") /\ UNCHANGED byKey
    BY Zenon, <1>3
  <2>2. /\ obj' \in [Objs -> Sessions] /\ \A p \in Objs \ {o} : Same(obj'[p], obj[p])
        /\ obj'[o].sid = s /\ obj'[o].made /\ obj'[o].phase = "LoggingIn"
    <3>1. PICK x \in Sessions : x = obj[o]
      BY Zenon, <1>2
    <3>2. PICK y : y = [x EXCEPT !.sid = s, !.connDestroyed = TRUE]
      BY Zenon
    <3>3. y \in Sessions /\ y.sid = s /\ y.made = x.made /\ y.phase = x.phase
      BY ONLY <3>2, x \in Sessions, s \in Sids, Zenon DEF Sessions
    <3>4. obj' = [obj EXCEPT ![o] = y]
      BY Zenon, <2>1, <3>1, <3>2
    <3>5. QED BY Zenon, <1>2, <3>1, <3>3, <3>4 DEF Same
  <2>3. /\ kstate' \in [Sids -> {"none", "FREE", "LOGGED_IN", "FAILED", "gone"}] /\ kstate'[s] = "FREE"
        /\ \A t \in Sids \ {s} : kstate'[t] = kstate[t]
    BY Zenon, <2>1, KernelTyped
  <2>4. KernelMonotone /\ cache[s] = "none" /\ cache'[s] = "none"
    BY Zenon, <1>2, <2>1, <2>3 DEF KernelMonotone, IsInv, KernelInv
  <2>5. KernelInv'
    <3>1. KernelInv /\ UNCHANGED <<kconn, cache, kevents>>
      BY Zenon, <1>2 DEF IsInv
    <3>2. <<"destroy", s>> \notin kevents
      BY Zenon, <2>1, <3>1 DEF KernelInv
    <3>3. QED BY ONLY <2>1, <2>3, <2>4, <3>1, <3>2, Zenon DEF KernelInv
  <2>6. /\ actor' \in [Actors -> ActorStates] /\ \A l \in RecoverLoops : actor'[l] = actor[l]
        /\ actor'[User].pc = "conn" /\ actor'[User].on = o
    <3>1. "conn" \in IsPcs
      BY Zenon DEF IsPcs
    <3>2. QED BY Zenon, <1>1, <2>1, <3>1, CallGoes
  <2>7. CallInv'
    BY Zenon, <1>2, <2>1, <2>2, <2>4, <2>6 DEF CallInv, UserIn, LoginPcs, LogoutPcs
  <2>8. /\ bySID' \in [Sids -> Objs \cup {0}] /\ bySID'[s] = o
        /\ \A t \in Sids \ {s} : bySID'[t] = bySID[t]
    BY Zenon, <1>2, <2>1
  <2>9. /\ kconn' \in [Sids -> {"none", "new", "bound", "stopped", "up", "down"}]
        /\ cache' \in [Sids -> {"none", "clean", "dirty"}] /\ \A t \in Sids : cache'[t] = cache[t]
    BY Zenon, <1>2, KernelTyped
  <2>10. /\ kstate'[obj'[o].sid] # "none" /\ "conn" \in LoginPcs /\ ~dropped' /\ UNCHANGED <<byKey, sup, inUse>>
         /\ ~(obj[o].sid \in Sids) /\ obj'[o].sid \in Sids
         /\ obj'[o].phase \notin {"Removed", "Established", "Recovering", "LoggingOut"}
         /\ \A t \in Sids : bySID'[t] = bySID[t] \/ (bySID'[t] = o /\ obj'[o].sid = t)
    BY Zenon, <1>2, <2>1, <2>2, <2>3, <2>8 DEF LoginPcs
  <2>11. \A l \in RecoverLoops : actor'[l].pc = actor[l].pc /\ actor'[l].on = actor[l].on
    BY Zenon, <2>6
  <2>12. QED BY ZenonT(30), <1>1, <1>2, <2>2, <2>3, <2>4, <2>5, <2>6, <2>7, <2>8, <2>9, <2>10, <2>11, CallWorks
<1>4. CASE obj' = Unlocked(Forgotten(obj, o), o) /\ forgetIndexes(o) /\ isGoto(User, "idle") /\ UNCHANGED kstate
  BY Zenon, <1>1, <1>2, <1>4, GivesUpInv
<1>5. QED BY Zenon, <1>1, <1>3, <1>4 DEF createSession

LEMMA CallStartsInv ==
    ASSUME IsInv, startConn(User)
    PROVE  IsInv'
<1>1. PICK o \in Objs : o = On(User) /\ o = actor[User].on
  BY Zenon, OnTyped
<1>2. PICK s : s = Sid(User) /\ s = obj[o].sid
  BY Zenon, <1>1 DEF Sid
<1>3. /\ actor[User].pc = "start" /\ UNCHANGED <<cache, kevents, byKey, bySID, sup, inUse, dropped>>
      /\ obj[o].made /\ obj[o].phase = "LoggingIn" /\ byKey = o /\ s \in Sids /\ cache[s] = "none"
      /\ ~inUse /\ ~dropped /\ ~obj[o].connDestroyed
  <2>1. actor[User].pc = "start" /\ UNCHANGED <<cache, kevents, byKey, bySID, sup, inUse, dropped>>
    BY Zenon DEF startConn, isAt
  <2>2. QED BY Zenon, <1>1, <1>2, <2>1 DEF IsInv, CallInv, UserIn, LoginPcs, QueuedWritesKept
<1>4. /\ obj \in [Objs -> Sessions] /\ cache' \in [Sids -> {"none", "clean", "dirty"}]
      /\ bySID' \in [Sids -> Objs \cup {0}] /\ kstate[s] # "none"
  BY Zenon, <1>2, <1>3, KernelTyped DEF IsInv, ObjectInv
<1>5. CASE /\ kconn[s] = "bound"
           /\ kstate' = [kstate EXCEPT ![s] = "LOGGED_IN"] /\ kconn' = [kconn EXCEPT ![s] = "up"]
           /\ obj' = Unlocked([obj EXCEPT ![o].phase = "Established"], o) /\ isGoto(User, "device")
  <2>1. kstate[s] \notin {"none", "gone"}
    BY Zenon, <1>3, <1>5, KernelTyped
  <2>2. /\ kstate' \in [Sids -> {"none", "FREE", "LOGGED_IN", "FAILED", "gone"}] /\ kstate'[s] = "LOGGED_IN"
        /\ \A t \in Sids \ {s} : kstate'[t] = kstate[t]
    BY Zenon, <1>3, <1>5, KernelTyped
  <2>3. /\ kconn' \in [Sids -> {"none", "new", "bound", "stopped", "up", "down"}]
        /\ \A t \in Sids \ {s} : kconn'[t] = kconn[t]
    BY Zenon, <1>3, <1>5, KernelTyped
  <2>4. KernelMonotone
    BY Zenon, <2>1, <2>2 DEF KernelMonotone
  <2>5. KernelInv'
    <3>1. KernelInv /\ UNCHANGED <<cache, kevents>>
      BY Zenon, <1>3 DEF IsInv
    <3>2. <<"destroy", s>> \notin kevents
      BY Zenon, <1>3, <2>1, <3>1 DEF KernelInv
    <3>3. QED BY ONLY <2>2, <2>3, <3>1, <3>2, Zenon DEF KernelInv
  <2>6. /\ obj' \in [Objs -> Sessions] /\ \A p \in Objs \ {o} : Same(obj'[p], obj[p])
        /\ obj'[o].sid = s /\ obj'[o].made /\ obj'[o].phase = "Established" /\ ~obj'[o].connDestroyed
    <3>0. "Established" \in IsPhases
      BY Zenon DEF IsPhases
    <3>1. PICK f : f = [obj EXCEPT ![o].phase = "Established"] /\ f = InPhase(obj, o, "Established")
      BY Zenon DEF InPhase
    <3>2. IsInPhase(InPhase(obj, o, "Established"), obj, o, "Established")
      BY ONLY <1>4, <3>0, o \in Objs, PhaseIs, Zenon
    <3>3. /\ f \in [Objs -> Sessions] /\ \A p \in Objs \ {o} : f[p] = obj[p]
          /\ f[o].phase = "Established" /\ f[o].made = obj[o].made /\ f[o].sid = obj[o].sid
          /\ f[o].connDestroyed = obj[o].connDestroyed
      BY ONLY <3>1, <3>2, Zenon DEF IsInPhase
    <3>4. obj' \in [Objs -> Sessions] /\ \A p \in Objs : Same(obj'[p], f[p])
      BY Zenon, <1>5, <3>1, <3>3, UnlockedIs
    <3>5. QED BY Zenon, <1>2, <1>3, <3>3, <3>4 DEF Same
  <2>7. /\ actor' \in [Actors -> ActorStates] /\ \A l \in RecoverLoops : actor'[l] = actor[l]
        /\ actor'[User].pc = "device" /\ actor'[User].on = o
    <3>1. "device" \in IsPcs
      BY Zenon DEF IsPcs
    <3>2. QED BY Zenon, <1>1, <1>5, <3>1, CallGoes
  <2>8. CallInv'
    BY Zenon, <1>3, <2>6, <2>7 DEF CallInv, UserIn, LoginPcs, LogoutPcs
  <2>9. kstate'[obj'[o].sid] # "none" /\ ~dropped' /\ UNCHANGED <<byKey, sup, inUse>> /\ obj'[o].sid = obj[o].sid
    BY Zenon, <1>2, <1>3, <2>2, <2>6
  <2>10. (\A t \in Sids : cache'[t] = cache[t]) /\ (\A t \in Sids : bySID'[t] = bySID[t])
    BY Zenon, <1>3
  <2>11. QED BY Zenon, <1>1, <1>3, <1>4, <2>2, <2>3, <2>4, <2>5, <2>6, <2>7, <2>8, <2>9, <2>10, CallWorks
<1>6. CASE isGoto(User, "fail") /\ UNCHANGED <<kstate, kconn, obj>>
  <2>1. /\ actor' \in [Actors -> ActorStates] /\ RefsKept /\ actor'[User].pc = "fail" /\ actor'[User].on = o
    <3>1. "fail" \in IsPcs /\ actor[User].pc \notin {"idle", "found", "create", "lookup"} /\ UNCHANGED sup
      BY Zenon, <1>3 DEF IsPcs
    <3>2. QED BY Zenon, <1>1, <1>6, <3>1, ActorMoves, IsFields
  <2>2. ObjectsKept
    BY Zenon, <1>6 DEF ObjectsKept
  <2>3. CallKept
    BY Zenon, <1>1, <1>3, <2>1, <2>2, LoginGoesOn DEF LoginPcs
  <2>4. KernelKept
    BY Zenon, <1>3, <1>6, KernelStill
  <2>5. IsTyped'
    BY Zenon, <1>3, <1>6, <2>1, KernelTyped, TypedStep
  <2>6. QED BY Zenon, <1>3, <2>1, <2>2, <2>3, <2>4, <2>5, QuietStep
<1>7. QED BY Zenon, <1>1, <1>2, <1>3, <1>5, <1>6 DEF startConn, LoginFails

\* A refused logout leaves the session to a recovery goroutine.
LEMMA StartedGoes ==
    ASSUME NEW f \in [Objs -> Sessions], NEW a \in [Actors -> ActorStates], NEW o \in Objs, FreeLoops # {}
    PROVE  /\ Went(Started(f, a, o), User, "idle") \in [Actors -> ActorStates]
           /\ Went(Started(f, a, o), User, "idle")[User].pc = "idle"
           /\ \A l \in RecoverLoops : \/ Went(Started(f, a, o), User, "idle")[l] = a[l]
                                      \/ Went(Started(f, a, o), User, "idle")[l].on = o
<1>1. PICK b \in [Actors -> ActorStates] : b = Started(f, a, o)
  BY Zenon, StartedIs
<1>2. \A l \in RecoverLoops : b[l] = a[l] \/ b[l].on = o
  BY Zenon, <1>1, StartedIs
<1>3. User \in Actors /\ "idle" \in IsPcs /\ \A l \in RecoverLoops : l \in Actors \ {User}
  BY Zenon, IsFields, IsAssumption DEF IsPcs
<1>4. /\ Went(b, User, "idle") \in [Actors -> ActorStates] /\ Went(b, User, "idle")[User].pc = "idle"
      /\ \A y \in Actors \ {User} : Went(b, User, "idle")[y] = b[y]
  BY ONLY <1>3, b \in [Actors -> ActorStates], WentIs
<1>5. QED BY ONLY <1>1, <1>2, <1>3, <1>4, Zenon

CancelledAt(a, o, pc) == [CancelOf(a, o) EXCEPT ![User].pc = pc]

LEMMA CancelledMoves ==
    ASSUME NEW a \in [Actors -> ActorStates], NEW o \in Objs, NEW pc \in IsPcs
    PROVE  /\ CancelledAt(a, o, pc) \in [Actors -> ActorStates]
           /\ CancelledAt(a, o, pc)[User].pc = pc /\ CancelledAt(a, o, pc)[User].on = a[User].on
           /\ \A l \in RecoverLoops : /\ CancelledAt(a, o, pc)[l].pc = a[l].pc
                                      /\ CancelledAt(a, o, pc)[l].on = a[l].on
<1>0. PICK b : b = CancelledAt(a, o, pc)
  BY Zenon
<1>1. PICK c \in [Actors -> ActorStates] : c = CancelOf(a, o)
  BY Zenon, CancelIs
<1>2. \A x \in Actors : c[x].pc = a[x].pc /\ c[x].on = a[x].on
  BY Zenon, <1>1, CancelIs
<1>3. User \in Actors /\ \A l \in RecoverLoops : l \in Actors \ {User}
  BY Zenon, IsFields, IsAssumption
<1>4. PICK u \in ActorStates : u = c[User]
  BY Zenon, <1>3
<1>5. PICK v : v = [u EXCEPT !.pc = pc]
  BY Zenon
<1>6. v \in ActorStates /\ v.pc = pc /\ v.on = u.on
  BY ONLY <1>5, u \in ActorStates, pc \in IsPcs, Zenon DEF ActorStates
<1>7. b = [c EXCEPT ![User] = v]
  BY Zenon, <1>0, <1>1, <1>4, <1>5 DEF CancelledAt
<1>8. /\ b \in [Actors -> ActorStates] /\ b[User] = v /\ \A x \in Actors \ {User} : b[x] = c[x]
  BY Zenon, <1>3, <1>6, <1>7
<1>9. QED BY ONLY <1>0, <1>2, <1>3, <1>4, <1>6, <1>8, Zenon

LEMMA BeginTeardownInv ==
    ASSUME IsInv, beginTeardown
    PROVE  IsInv'
<1>1. PICK o \in Objs : o = On(User) /\ o = actor[User].on
  BY Zenon, OnTyped
<1>2. PICK s : s = Sid(User) /\ s = obj[o].sid
  BY Zenon, <1>1 DEF Sid
<1>3. /\ actor[User].pc = "teardown" /\ UNCHANGED <<kstate, kconn, cache, kevents, byKey, bySID, sup, inUse, dropped>>
      /\ s \in Sids /\ obj[o].phase # "LoggingOut" /\ ~inUse /\ ~dropped /\ (obj[o].phase = "Removed" => kstate[s] = "gone")
  <2>1. actor[User].pc = "teardown" /\ UNCHANGED <<kstate, kconn, cache, kevents, byKey, bySID, sup, inUse, dropped>>
    BY Zenon DEF beginTeardown, isAt, kernel
  <2>2. QED BY Zenon, <1>1, <1>2, <2>1 DEF IsInv, CallInv, UserIn, LogoutPcs, QueuedWritesKept, Gone
<1>4. /\ obj \in [Objs -> Sessions] /\ actor \in [Actors -> ActorStates] /\ bySID' \in [Sids -> Objs \cup {0}]
      /\ kstate' \in [Sids -> {"none", "FREE", "LOGGED_IN", "FAILED", "gone"}]
      /\ kconn' \in [Sids -> {"none", "new", "bound", "stopped", "up", "down"}]
      /\ cache' \in [Sids -> {"none", "clean", "dirty"}] /\ KernelMonotone
  BY Zenon, <1>3, KernelTyped DEF KernelMonotone
<1>5. /\ KernelInv' /\ kstate[s] # "none" /\ kstate'[s] # "none" /\ obj[o].made /\ obj[o].phase # "LoggingIn"
      /\ obj[o].phase # "Removed" => byKey = o /\ ~obj[o].connDestroyed
      /\ kstate[s] = "gone" => cache[s] = "none"
      /\ kstate[s] = "FREE" => cache[s] # "dirty"
  <2>1. KernelInv /\ ObjectInv
    BY Zenon DEF IsInv
  <2>2. KernelInv'
    BY Zenon, <1>3, <2>1 DEF KernelInv
  <2>3. obj[o].phase \in IsPhases /\ s # 0
    BY Zenon, <1>3, <1>4, SessionFields, IsFields
  <2>4. /\ kstate[s] # "none" /\ obj[o].made /\ obj[o].phase # "LoggingIn"
        /\ obj[o].phase # "Removed" => byKey = o /\ ~obj[o].connDestroyed
    BY Zenon, <1>2, <1>3, <2>1, <2>3 DEF ObjectInv, UserIn, LoginPcs, IsPhases
  <2>5. QED BY Zenon, <1>3, <2>1, <2>2, <2>4 DEF KernelInv
<1>6. (\A t \in Sids : cache'[t] = cache[t]) /\ (\A t \in Sids : bySID'[t] = bySID[t]) /\ ~dropped'
  BY Zenon, <1>3
<1>7. CASE /\ refuseRecoveringLogout(s, o) /\ FreeLoops # {} /\ obj' = Unlocked(Scheduled(obj, o), o)
           /\ actor' = Went(Started(obj, actor, o), User, "idle")
  <2>1. kstate[s] = "FAILED" /\ obj[o].phase # "Removed"
    BY Zenon, <1>3, <1>7 DEF refuseRecoveringLogout
  <2>2. obj[o].phase \in IsPhases
    BY Zenon, <1>4, SessionFields
  <2>3. obj[o].phase \in {"Established", "Recovering"}
    BY Zenon, <1>3, <1>5, <2>1, <2>2 DEF IsPhases
  <2>4. /\ Scheduled(obj, o) \in [Objs -> Sessions] /\ \A p \in Objs \ {o} : Scheduled(obj, o)[p] = obj[p]
        /\ Scheduled(obj, o)[o].made = obj[o].made /\ Scheduled(obj, o)[o].sid = s
        /\ Scheduled(obj, o)[o].connDestroyed = obj[o].connDestroyed
        /\ Scheduled(obj, o)[o].phase = "Recovering"
    BY Zenon, <1>2, <1>4, <1>7, <2>3, ScheduledIs
  <2>5. obj' \in [Objs -> Sessions] /\ \A p \in Objs : Same(obj'[p], Scheduled(obj, o)[p])
    BY Zenon, <1>7, <2>4, UnlockedIs
  <2>6. /\ \A p \in Objs \ {o} : Same(obj'[p], obj[p])
        /\ obj'[o].sid = s /\ obj'[o].made /\ obj'[o].phase = "Recovering" /\ ~obj'[o].connDestroyed
    BY Zenon, <1>5, <2>1, <2>4, <2>5 DEF Same
  <2>7. /\ actor' \in [Actors -> ActorStates] /\ actor'[User].pc = "idle"
        /\ \A l \in RecoverLoops : actor'[l] = actor[l] \/ actor'[l].on = o
    BY Zenon, <1>4, <1>7, StartedGoes
  <2>8. CallInv'
    BY Zenon, <2>7 DEF CallInv, UserIn, LoginPcs, LogoutPcs
  <2>9. \A l \in RecoverLoops : \/ actor'[l].pc = actor[l].pc /\ actor'[l].on = actor[l].on
                                \/ actor'[l].on = o /\ obj'[o].phase # "LoggingIn"
    BY Zenon, <2>6, <2>7
  <2>10. obj'[o].sid \in Sids /\ obj'[o].sid = obj[o].sid /\ kstate'[obj'[o].sid] # "none" /\ byKey = o
    BY Zenon, <1>2, <1>3, <1>5, <2>1, <2>6
  <2>11. QED BY Zenon, <1>1, <1>3, <1>4, <1>5, <1>6, <2>5, <2>6, <2>7, <2>8, <2>9, <2>10, CallWorks
<1>8. CASE /\ ~refuseRecoveringLogout(s, o) /\ LoggingOut(o)
           /\ actor' = [CancelOf(actor, o) EXCEPT ![User].pc =
                 IF cache[s] = "none" \/ kstate[s] # "LOGGED_IN" \/ obj[o].connDestroyed THEN "destroy" ELSE "flush"]
  <2>1. /\ obj' \in [Objs -> Sessions] /\ \A p \in Objs \ {o} : obj'[p] = obj[p]
        /\ obj'[o].phase = "LoggingOut" /\ obj'[o].made = obj[o].made /\ obj'[o].sid = s
        /\ obj'[o].connDestroyed = obj[o].connDestroyed
    <3>1. "LoggingOut" \in IsPhases /\ obj' = InPhase(obj, o, "LoggingOut")
      BY Zenon, <1>8 DEF LoggingOut, IsPhases, InPhase
    <3>2. IsInPhase(InPhase(obj, o, "LoggingOut"), obj, o, "LoggingOut")
      BY ONLY <1>4, <3>1, o \in Objs, PhaseIs, Zenon
    <3>3. QED BY ONLY <1>2, <3>1, <3>2, Zenon DEF IsInPhase
  <2>2. PICK pc \in IsPcs : pc = IF cache[s] = "none" \/ kstate[s] # "LOGGED_IN" \/ obj[o].connDestroyed
                                 THEN "destroy" ELSE "flush"
    BY Zenon DEF IsPcs
  <2>3. /\ actor' \in [Actors -> ActorStates] /\ actor'[User].pc = pc /\ actor'[User].on = o
        /\ \A l \in RecoverLoops : actor'[l].pc = actor[l].pc /\ actor'[l].on = actor[l].on
    <3>1. actor' = CancelledAt(actor, o, pc)
      BY Zenon, <1>8, <2>2 DEF CancelledAt
    <3>2. actor \in [Actors -> ActorStates]
      BY Zenon, <1>4
    <3>3. /\ actor' \in [Actors -> ActorStates] /\ actor'[User].pc = pc /\ actor'[User].on = actor[User].on
          /\ \A l \in RecoverLoops : actor'[l].pc = actor[l].pc /\ actor'[l].on = actor[l].on
      BY Zenon, <3>1, <3>2, CancelledMoves
    <3>4. QED BY Zenon, <1>1, <3>3
  <2>4. pc = "destroy" => cache[s] # "dirty"
    <3>1. kstate[s] \in {"none", "FREE", "LOGGED_IN", "FAILED", "gone"}
      BY Zenon, <1>3, KernelTyped
    <3>2. obj[o].connDestroyed => cache[s] = "none"
      BY Zenon, <1>3, <1>5
    <3>3. QED BY Zenon, <1>5, <1>8, <2>2, <3>1, <3>2 DEF refuseRecoveringLogout
  <2>5. pc = "flush" \/ pc = "destroy"
    BY Zenon, <2>2
  <2>6. pc = "flush" => ~obj[o].connDestroyed /\ kstate[s] = "LOGGED_IN"
    BY Zenon, <2>2
  <2>7. CallInv'
    <3>1. /\ actor'[User].pc = pc /\ obj'[actor'[User].on].sid = s /\ obj'[actor'[User].on].phase = "LoggingOut" /\ ~inUse'
          /\ obj'[actor'[User].on].connDestroyed = obj[o].connDestroyed /\ cache'[s] = cache[s] /\ s \in Sids
      BY Zenon, <1>3, <2>1, <2>3
    <3>2. QED BY ONLY <2>4, <2>5, <2>6, <3>1, Zenon DEF CallInv, UserIn, LoginPcs, LogoutPcs
  <2>8. Gone(o)' <=> kstate[s] = "gone"
    BY Zenon, <1>3, <2>1 DEF Gone
  <2>9. byKey = o \/ (actor'[User].pc = "destroy" /\ actor'[User].on = o /\ Gone(o)')
    BY Zenon, <1>3, <1>5, <2>3, <2>5, <2>6, <2>8
  <2>10. cache'[obj'[o].sid] # "dirty" \/ (actor'[User].pc = "flush" /\ actor'[User].on = o)
    BY Zenon, <1>3, <2>1, <2>3, <2>4, <2>5
  <2>11. /\ obj'[o].sid \in Sids /\ obj'[o].sid = obj[o].sid /\ kstate'[obj'[o].sid] # "none"
         /\ actor'[User].pc # "device" /\ \A p \in Objs \ {o} : Same(obj'[p], obj[p])
    BY Zenon, <1>2, <1>3, <1>5, <2>1, <2>3, <2>5 DEF Same
  <2>12. QED BY Zenon, <1>1, <1>3, <1>4, <1>5, <1>6, <2>1, <2>3, <2>7, <2>9, <2>10, <2>11, CallWorks
<1>9. QED BY Zenon, <1>1, <1>2, <1>7, <1>8 DEF beginTeardown

LEMMA FlushInv ==
    ASSUME IsInv, flushAndDeleteDevice
    PROVE  IsInv'
<1>1. PICK o \in Objs : o = On(User) /\ o = actor[User].on
  BY Zenon, OnTyped
<1>2. PICK s : s = Sid(User) /\ s = obj[o].sid
  BY Zenon, <1>1 DEF Sid
<1>3. /\ actor[User].pc = "flush" /\ UNCHANGED <<kstate, kconn, kevents, sup, inUse, dropped>>
      /\ s \in Sids /\ ~inUse /\ ~dropped /\ ~obj[o].connDestroyed
      /\ obj[o].phase \in {"LoggingOut", "Removed"} /\ (obj[o].phase = "Removed" => kstate[s] = "gone")
  <2>1. actor[User].pc = "flush" /\ UNCHANGED <<kstate, kconn, kevents, sup, inUse, dropped>>
    BY Zenon DEF flushAndDeleteDevice, isAt
  <2>2. QED BY Zenon, <1>1, <1>2, <2>1 DEF IsInv, CallInv, UserIn, LogoutPcs, QueuedWritesKept, Gone
<1>4. /\ obj \in [Objs -> Sessions] /\ actor \in [Actors -> ActorStates] /\ bySID \in [Sids -> Objs \cup {0}]
      /\ kstate' \in [Sids -> {"none", "FREE", "LOGGED_IN", "FAILED", "gone"}]
      /\ kconn' \in [Sids -> {"none", "new", "bound", "stopped", "up", "down"}] /\ KernelMonotone
  BY Zenon, <1>3, KernelTyped DEF KernelMonotone
<1>5. /\ kstate[s] # "none" /\ kstate'[s] # "none" /\ obj[o].made /\ (obj[o].phase # "Removed" => byKey = o)
  <2>1. ObjectInv /\ s # 0
    BY Zenon, <1>3, IsFields DEF IsInv
  <2>2. QED BY Zenon, <1>2, <1>3, <2>1 DEF ObjectInv, UserIn
<1>6. CASE /\ kstate[s] = "LOGGED_IN" /\ cache' = [cache EXCEPT ![s] = "none"]
           /\ isGoto(User, "destroy") /\ UNCHANGED <<obj, byKey, bySID>>
  <2>1. /\ cache' \in [Sids -> {"none", "clean", "dirty"}] /\ cache'[s] = "none"
        /\ \A t \in Sids : cache'[t] = "none" \/ cache'[t] = cache[t]
    BY Zenon, <1>3, <1>6, KernelTyped
  <2>2. KernelInv'
    BY Zenon, <1>3, <2>1 DEF IsInv, KernelInv
  <2>3. /\ actor' \in [Actors -> ActorStates] /\ \A l \in RecoverLoops : actor'[l] = actor[l]
        /\ actor'[User].pc = "destroy" /\ actor'[User].on = o
    <3>1. "destroy" \in IsPcs
      BY Zenon DEF IsPcs
    <3>2. QED BY Zenon, <1>1, <1>6, <3>1, CallGoes
  <2>4. obj[o].phase = "LoggingOut" /\ byKey = o
    BY Zenon, <1>3, <1>5, <1>6
  <2>5. CallInv'
    <3>1. /\ actor'[User].pc = "destroy" /\ obj'[actor'[User].on].sid = s /\ obj'[actor'[User].on].phase = "LoggingOut"
          /\ ~inUse' /\ cache'[s] = "none" /\ s \in Sids
      BY Zenon, <1>2, <1>3, <1>6, <2>1, <2>3, <2>4
    <3>2. QED BY ONLY <3>1, Zenon DEF CallInv, UserIn, LoginPcs, LogoutPcs
  <2>6. /\ obj' \in [Objs -> Sessions] /\ (\A p \in Objs \ {o} : Same(obj'[p], obj[p])) /\ obj'[o] = obj[o]
        /\ bySID' \in [Sids -> Objs \cup {0}] /\ (\A t \in Sids : bySID'[t] = bySID[t]) /\ ~dropped'
        /\ UNCHANGED <<byKey, sup, inUse>> /\ obj[o].sid \in Sids /\ kstate'[obj[o].sid] # "none"
        /\ cache'[obj[o].sid] = "none"
    BY Zenon, <1>2, <1>3, <1>4, <1>5, <1>6, <2>1 DEF Same
  <2>7. QED BY Zenon, <1>1, <1>3, <1>4, <1>5, <2>1, <2>2, <2>3, <2>4, <2>5, <2>6, CallWorks
<1>7. CASE /\ UNCHANGED cache /\ ~Exists(s) /\ obj' = Unlocked(Forgotten(obj, o), o)
           /\ forgetIndexes(o) /\ isGoto(User, "idle")
  BY Zenon, <1>1, <1>3, <1>7, GivesUpInv
<1>8. CASE /\ UNCHANGED <<cache, byKey, bySID>> /\ Exists(s) /\ FreeLoops # {}
           /\ obj' = Unlocked(IF Healthy(s) THEN Resumed(o) ELSE Scheduled(Resumed(o), o), o)
           /\ actor' = Went(IF Healthy(s) THEN actor ELSE Started(Resumed(o), actor, o), User, "idle")
  <2>1. obj[o].phase = "LoggingOut" /\ byKey = o
    BY Zenon, <1>3, <1>5, <1>8 DEF Exists
  <2>2. PICK f : f = Resumed(o) /\ f = InPhase(obj, o, "Established")
    BY Zenon, <2>1 DEF Resumed, InPhase
  <2>3. /\ f \in [Objs -> Sessions] /\ \A p \in Objs \ {o} : f[p] = obj[p]
        /\ f[o].phase = "Established" /\ f[o].made = obj[o].made /\ f[o].sid = obj[o].sid
        /\ f[o].connDestroyed = obj[o].connDestroyed
    <3>1. "Established" \in IsPhases /\ obj \in [Objs -> Sessions]
      BY Zenon, <1>4 DEF IsPhases
    <3>2. IsInPhase(InPhase(obj, o, "Established"), obj, o, "Established")
      BY ONLY <3>1, o \in Objs, PhaseIs, Zenon
    <3>3. QED BY ONLY <2>2, <3>2, Zenon DEF IsInPhase
  <2>4. PICK g \in [Objs -> Sessions] : /\ obj' = Unlocked(g, o) /\ \A p \in Objs \ {o} : g[p] = obj[p]
                                        /\ g[o].phase \in {"Established", "Recovering"} /\ g[o].made = obj[o].made
                                        /\ g[o].sid = obj[o].sid /\ g[o].connDestroyed = obj[o].connDestroyed
    <3>1. CASE Healthy(s)
      BY Zenon, <1>8, <2>2, <2>3, <3>1
    <3>2. CASE ~Healthy(s)
      <4>1. /\ Scheduled(f, o) \in [Objs -> Sessions] /\ \A p \in Objs \ {o} : Scheduled(f, o)[p] = f[p]
            /\ Scheduled(f, o)[o].made = f[o].made /\ Scheduled(f, o)[o].sid = f[o].sid
            /\ Scheduled(f, o)[o].connDestroyed = f[o].connDestroyed
            /\ Scheduled(f, o)[o].phase = "Recovering"
        BY Zenon, <1>8, <2>3, ScheduledIs
      <4>2. obj' = Unlocked(Scheduled(f, o), o)
        BY Zenon, <1>8, <2>2, <3>2
      <4>3. QED BY Zenon, <2>3, <4>1, <4>2
    <3>3. QED BY Zenon, <3>1, <3>2
  <2>5. obj' \in [Objs -> Sessions] /\ \A p \in Objs : Same(obj'[p], g[p])
    BY Zenon, <2>4, UnlockedIs
  <2>6. /\ \A p \in Objs \ {o} : Same(obj'[p], obj[p])
        /\ obj'[o].sid = s /\ obj'[o].made /\ obj'[o].phase \in {"Established", "Recovering"} /\ ~obj'[o].connDestroyed
    BY ZenonT(30), <1>2, <1>3, <1>5, <2>4, <2>5 DEF Same
  <2>7. /\ actor' \in [Actors -> ActorStates] /\ actor'[User].pc = "idle"
        /\ \A l \in RecoverLoops : actor'[l] = actor[l] \/ actor'[l].on = o
    <3>1. CASE Healthy(s)
      <4>1. isGoto(User, "idle") /\ "idle" \in IsPcs
        BY Zenon, <1>8, <3>1 DEF isGoto, IsPcs
      <4>2. QED BY Zenon, <4>1, CallGoes
    <3>2. CASE ~Healthy(s)
      <4>1. actor' = Went(Started(f, actor, o), User, "idle")
        BY Zenon, <1>8, <2>2, <3>2
      <4>2. f \in [Objs -> Sessions] /\ actor \in [Actors -> ActorStates] /\ FreeLoops # {}
        BY Zenon, <1>4, <1>8, <2>3
      <4>3. QED BY ONLY <4>1, <4>2, o \in Objs, StartedGoes, Zenon
    <3>3. QED BY Zenon, <3>1, <3>2
  <2>8. CallInv'
    BY Zenon, <2>7 DEF CallInv, UserIn, LoginPcs, LogoutPcs
  <2>9. \A l \in RecoverLoops : \/ actor'[l].pc = actor[l].pc /\ actor'[l].on = actor[l].on
                                \/ actor'[l].on = o /\ obj'[o].phase # "LoggingIn"
    BY Zenon, <2>6, <2>7
  <2>10. /\ obj'[o].sid \in Sids /\ obj'[o].sid = obj[o].sid /\ kstate'[obj'[o].sid] # "none" /\ ~dropped'
         /\ obj'[o].phase \notin {"Removed", "LoggingIn", "LoggingOut"} /\ UNCHANGED <<byKey, sup, inUse>>
    BY Zenon, <1>2, <1>3, <1>5, <1>8, <2>6
  <2>11. /\ cache' \in [Sids -> {"none", "clean", "dirty"}] /\ (\A t \in Sids : cache'[t] = cache[t])
         /\ bySID' \in [Sids -> Objs \cup {0}] /\ (\A t \in Sids : bySID'[t] = bySID[t]) /\ KernelInv'
    BY Zenon, <1>3, <1>8, KernelTyped DEF IsInv, KernelInv
  <2>12. QED BY Zenon, <1>1, <1>3, <1>4, <2>1, <2>5, <2>6, <2>7, <2>8, <2>9, <2>10, <2>11, CallWorks
<1>9. QED BY Zenon, <1>1, <1>2, <1>6, <1>7, <1>8 DEF flushAndDeleteDevice

LEMMA FinishLogoutInv ==
    ASSUME IsInv, finishLogout
    PROVE  IsInv'
<1>1. PICK o \in Objs : o = On(User) /\ o = actor[User].on
  BY Zenon, OnTyped
<1>2. PICK ok \in BOOLEAN :
         /\ destroyKernelSession(o, ok)
         /\ ok => obj' = Unlocked(Forgotten(obj, o), o) /\ forgetIndexes(o) /\ actor' = Went(CancelOf(actor, o), User, "idle")
         /\ ~ok => /\ obj' = Unlocked([obj EXCEPT ![o].connDestroyed = (kconn'[obj[o].sid] = "none")], o)
                   /\ isGoto(User, "idle") /\ UNCHANGED <<byKey, bySID>>
  BY Zenon, <1>1 DEF finishLogout
<1>3. /\ actor[User].pc = "destroy" /\ UNCHANGED <<sup, inUse>>
      /\ obj[o].sid \in Sids /\ cache[obj[o].sid] # "dirty" /\ obj[o].phase \in {"LoggingOut", "Removed"}
      /\ obj[o].phase = "Removed" => Gone(o)
  <2>1. actor[User].pc = "destroy" /\ UNCHANGED <<sup, inUse>>
    BY Zenon DEF finishLogout, isAt
  <2>2. QED BY Zenon, <1>1, <2>1 DEF IsInv, CallInv, UserIn, LogoutPcs
<1>4. /\ kstate' \in [Sids -> {"none", "FREE", "LOGGED_IN", "FAILED", "gone"}]
      /\ kconn' \in [Sids -> {"none", "new", "bound", "stopped", "up", "down"}]
      /\ cache' \in [Sids -> {"none", "clean", "dirty"}] /\ KernelInv' /\ KernelMonotone
      /\ \A s \in Sids : cache'[s] = "none" \/ cache'[s] = cache[s]
      /\ ~dropped' /\ (~ok => Exists(obj[o].sid))
  BY Zenon, <1>2, <1>3, DestroyKernelIs
<1>5. CASE ok
  <2>1. /\ obj' \in [Objs -> Sessions] /\ \A p \in Objs \ {o} : Same(obj'[p], obj[p])
        /\ obj'[o].made /\ obj'[o].sid = obj[o].sid /\ obj'[o].phase = "Removed" /\ ~obj'[o].connDestroyed
    BY Zenon, <1>2, <1>5, ForgottenUnlockedIs
  <2>2. /\ actor' \in [Actors -> ActorStates] /\ actor'[User].pc = "idle"
        /\ \A l \in RecoverLoops : actor'[l].pc = actor[l].pc /\ actor'[l].on = actor[l].on
    BY Zenon, <1>2, <1>5, CancelledGoes
  <2>3. QED BY Zenon, <1>1, <1>2, <1>3, <1>4, <1>5, <2>1, <2>2, CallForgets
<1>6. CASE ~ok
  <2>1. obj[o].phase = "LoggingOut" /\ byKey = o /\ obj[o].made
    <3>1. ~Gone(o) /\ obj[o].sid # 0
      BY Zenon, <1>3, <1>4, <1>6, IsFields DEF Gone, Exists
    <3>2. obj[o].phase = "LoggingOut"
      BY Zenon, <1>3, <3>1
    <3>3. QED BY Zenon, <3>1, <3>2 DEF IsInv, ObjectInv
  <2>2. /\ obj' \in [Objs -> Sessions] /\ (\A p \in Objs \ {o} : Same(obj'[p], obj[p]))
        /\ obj'[o].sid = obj[o].sid /\ obj'[o].made /\ obj'[o].phase = "LoggingOut"
    <3>1. PICK v \in BOOLEAN : v = (kconn'[obj[o].sid] = "none")
      BY Zenon
    <3>2. PICK x \in Sessions : x = obj[o]
      BY Zenon, KernelTyped
    <3>3. PICK y : y = [x EXCEPT !.connDestroyed = v]
      BY Zenon
    <3>4. y \in Sessions /\ y.phase = x.phase /\ y.made = x.made /\ y.sid = x.sid
      BY ONLY <3>3, x \in Sessions, v \in BOOLEAN, Zenon DEF Sessions
    <3>5. PICK f : f = [obj EXCEPT ![o] = y]
      BY Zenon
    <3>6. f \in [Objs -> Sessions] /\ f[o] = y /\ \A p \in Objs \ {o} : f[p] = obj[p]
      <4>1. obj \in [Objs -> Sessions]
        BY Zenon, KernelTyped
      <4>2. QED BY ONLY <3>4, <3>5, <4>1, o \in Objs, Zenon
    <3>7. obj' = Unlocked(f, o)
      BY Zenon, <1>2, <1>6, <3>1, <3>2, <3>3, <3>5
    <3>8. obj' \in [Objs -> Sessions] /\ \A p \in Objs : Same(obj'[p], f[p])
      BY Zenon, <3>6, <3>7, UnlockedIs
    <3>9. QED BY Zenon, <2>1, <3>2, <3>4, <3>6, <3>8 DEF Same
  <2>3. /\ actor' \in [Actors -> ActorStates] /\ actor'[User].pc = "idle"
        /\ \A l \in RecoverLoops : actor'[l] = actor[l]
    <3>1. "idle" \in IsPcs
      BY Zenon DEF IsPcs
    <3>2. QED BY Zenon, <1>2, <1>6, <3>1, CallGoes
  <2>4. CallInv'
    BY Zenon, <2>3 DEF CallInv, UserIn, LoginPcs, LogoutPcs
  <2>5. /\ kstate'[obj'[o].sid] # "none" /\ cache'[obj'[o].sid] # "dirty" /\ obj'[o].sid \in Sids
        /\ obj'[o].phase \notin {"Removed", "LoggingIn", "Established", "Recovering"}
    <3>1. kstate[obj[o].sid] # "none"
      BY Zenon, <1>4, <1>6 DEF Exists
    <3>2. QED BY Zenon, <1>3, <1>4, <2>2, <3>1 DEF KernelMonotone
  <2>6. /\ bySID' \in [Sids -> Objs \cup {0}] /\ (\A t \in Sids : bySID'[t] = bySID[t])
        /\ UNCHANGED <<byKey, sup, inUse>>
    BY Zenon, <1>2, <1>3, <1>6, KernelTyped
  <2>7. QED BY Zenon, <1>1, <1>3, <1>4, <2>1, <2>2, <2>3, <2>4, <2>5, <2>6, CallWorks
<1>7. QED BY Zenon, <1>5, <1>6

\* A session object is published before the kernel session exists.
LEMMA LoginNewInv ==
    ASSUME IsInv, Login, byKey = 0
    PROVE  IsInv'
<1>1. PICK p \in Objs : p = Fresh /\ ~obj[p].made
  <2>1. Spare # {}
    BY Zenon DEF Login
  <2>2. Fresh \in Spare
    BY Zenon, <2>1 DEF Fresh
  <2>3. QED BY Zenon, <2>2 DEF Spare
<1>2. /\ actor[User].pc = "idle" /\ ~inUse
      /\ obj' = [obj EXCEPT ![p] = [newSession EXCEPT !.made = TRUE, !.phase = "LoggingIn", !.op = User]]
      /\ byKey' = p /\ actor' = [actor EXCEPT ![User] = [idleActor EXCEPT !.pc = "create", !.on = p]]
      /\ UNCHANGED <<kstate, kconn, cache, kevents, bySID, sup, inUse, dropped>>
  BY Zenon, <1>1 DEF Login, isAt, kernel
<1>3. /\ obj' \in [Objs -> Sessions] /\ \A q \in Objs \ {p} : obj'[q] = obj[q]
      /\ obj'[p].made /\ obj'[p].phase = "LoggingIn" /\ obj'[p].sid = 0
  <2>1. PICK x : x = [newSession EXCEPT !.made = TRUE, !.phase = "LoggingIn", !.op = User]
    BY Zenon
  <2>2. newSession \in Sessions /\ "LoggingIn" \in IsPhases /\ User \in Actors /\ newSession.sid = 0
    BY Zenon, IsFields DEF IsPhases
  <2>3. x \in Sessions /\ x.made /\ x.phase = "LoggingIn" /\ x.sid = 0
    BY ONLY <2>1, <2>2, Zenon DEF Sessions
  <2>4. QED BY Zenon, <1>2, <2>1, <2>3, KernelTyped
<1>4. /\ actor' \in [Actors -> ActorStates] /\ actor'[User].pc = "create" /\ actor'[User].on = p
      /\ \A l \in RecoverLoops : actor'[l] = actor[l]
  <2>1. PICK x : x = [idleActor EXCEPT !.pc = "create", !.on = p]
    BY Zenon
  <2>2. x \in ActorStates /\ x.pc = "create" /\ x.on = p
    BY Zenon, <2>1, IsFields DEF ActorStates, IsPcs
  <2>3. actor' \in [Actors -> ActorStates] /\ actor'[User] = x /\ \A l \in Actors \ {User} : actor'[l] = actor[l]
    BY Zenon, <1>2, <2>1, <2>2, KernelTyped, IsFields
  <2>4. QED BY Zenon, <2>2, <2>3, IsFields, IsAssumption
<1>5. IsTyped /\ KernelInv /\ ObjectInv /\ IndexInv
  BY Zenon DEF IsInv
<1>6. obj[p].sid = 0 /\ 0 \notin Sids /\ p # 0
  BY Zenon, <1>1, <1>5, IsFields DEF ObjectInv
<1>7. IsTyped' /\ KernelInv'
  BY Zenon, <1>2, <1>3, <1>4, <1>5 DEF IsTyped, KernelInv
<1>8. ObjectInv'
  <2>1. \A q \in Objs : /\ obj[q].phase = "Removed" /\ (~obj[q].made => obj[q].sid = 0)
                        /\ obj[q].sid \in Sids => kstate[obj[q].sid] # "none"
    BY Zenon, <1>2, <1>5, <1>6, IsFields DEF ObjectInv, UserIn
  <2>2. \A q \in Objs \ {p} : /\ obj'[q].phase = "Removed" /\ (~obj'[q].made => obj'[q].sid = 0)
                              /\ obj'[q].sid \in Sids => kstate'[obj'[q].sid] # "none"
    BY Zenon, <1>2, <1>3, <2>1
  <2>3. /\ obj'[p].made /\ obj'[p].phase = "LoggingIn" /\ ~(obj'[p].sid \in Sids) /\ byKey' = p
        /\ UserIn(LoginPcs)' /\ UserOn(p)'
    BY Zenon, <1>2, <1>3, <1>4, <1>6 DEF UserIn, UserOn, LoginPcs
  <2>4. QED BY ONLY <2>2, <2>3, Zenon DEF ObjectInv
<1>9. IndexInv'
  <2>1. \A q \in Objs : obj[q].sid \in Sids => obj'[q] = obj[q]
    BY Zenon, <1>3, <1>6
  <2>2. byKey' # 0 => obj'[byKey'].phase # "Removed"
    BY Zenon, <1>2, <1>3
  <2>3. \A t \in Sids : bySID'[t] # 0 => obj'[bySID'[t]].sid = t
    <3>1. SUFFICES ASSUME NEW t \in Sids, bySID'[t] # 0
          PROVE  obj'[bySID'[t]].sid = t
      BY Zenon
    <3>2. PICK q \in Objs : q = bySID[t] /\ q = bySID'[t] /\ q # 0
      BY Zenon, <1>2, <3>1, KernelTyped
    <3>3. obj[q].sid = t
      BY Zenon, <1>5, <3>2 DEF IndexInv
    <3>4. QED BY Zenon, <2>1, <3>2, <3>3
  <2>4. \A l \in RecoverLoops :
           actor'[l].pc # "idle" => obj'[actor'[l].on].sid \in Sids /\ obj'[actor'[l].on].phase # "LoggingIn"
    <3>1. SUFFICES ASSUME NEW l \in RecoverLoops, actor'[l].pc # "idle"
          PROVE  obj'[actor'[l].on].sid \in Sids /\ obj'[actor'[l].on].phase # "LoggingIn"
      BY Zenon
    <3>2. PICK q \in Objs : q = actor[l].on /\ q = actor'[l].on
      BY Zenon, <1>4, <1>5, ActorFields, IsFields DEF IsTyped
    <3>3. obj[q].sid \in Sids /\ obj[q].phase # "LoggingIn"
      BY Zenon, <1>4, <1>5, <3>1, <3>2 DEF IndexInv
    <3>4. QED BY Zenon, <2>1, <3>2, <3>3
  <2>5. sup.check \ {0} \subseteq Objs
    BY Zenon, <1>5, ScanFields DEF IsTyped
  <2>6. \A q \in sup'.check \ {0} : obj'[q].sid \in Sids /\ obj'[q].phase # "LoggingIn"
    BY Zenon, <1>2, <1>5, <2>1, <2>5 DEF IndexInv
  <2>7. \A t \in sup'.listed : kstate'[t] # "none"
    BY Zenon, <1>2, <1>5 DEF IndexInv
  <2>8. QED BY Zenon, <2>2, <2>3, <2>4, <2>6, <2>7 DEF IndexInv
<1>10. CallInv'
  BY Zenon, <1>2, <1>3, <1>4 DEF CallInv, UserIn, LoginPcs, LogoutPcs
<1>11. QED BY Zenon, <1>2, <1>7, <1>8, <1>9, <1>10 DEF IsInv, QueuedWritesKept

\* A state of the process in which only what sysfs shows is known.
LEMMA FreshProcess ==
    ASSUME IsTyped', KernelInv', ~dropped', \A x \in Actors : actor'[x] = idleActor, sup' = noScan,
           \/ byKey' = 0 /\ (\A o \in Objs : obj'[o] = newSession) /\ (\A s \in Sids : bySID'[s] = 0)
           \/ \E s \in Sids : /\ kstate'[s] # "none" /\ byKey' = 1
                              /\ \A o \in Objs : obj'[o] = IF o = 1 THEN sessionFromSysfs(s) ELSE newSession
                              /\ \A t \in Sids : bySID'[t] = IF t = s THEN 1 ELSE 0
    PROVE  IsInv'
<1>1. /\ actor'[User].pc = "idle" /\ (\A l \in RecoverLoops : actor'[l].pc = "idle") /\ 1 \in Objs
      /\ sup'.listed = {} /\ sup'.check = {}
  <2>1. actor'[User].pc = "idle" /\ (\A l \in RecoverLoops : actor'[l].pc = "idle") /\ 1 \in Objs
    BY Zenon, IsFields
  <2>2. QED BY Zenon, <2>1 DEF noScan
<1>2. CallInv'
  BY Zenon, <1>1 DEF CallInv, UserIn, LoginPcs, LogoutPcs
<1>3. newSession.made = FALSE /\ newSession.sid = 0 /\ newSession.phase = "Removed" /\ 0 \notin Sids /\ 0 \notin Objs
  BY Zenon, IsFields
<1>4. CASE byKey' = 0 /\ (\A o \in Objs : obj'[o] = newSession) /\ (\A s \in Sids : bySID'[s] = 0)
  <2>1. ObjectInv'
    BY ONLY <1>3, <1>4, Zenon DEF ObjectInv
  <2>2. IndexInv'
    BY ONLY <1>1, <1>4, Zenon DEF IndexInv
  <2>3. QED BY Zenon, <1>2, <2>1, <2>2 DEF IsInv, QueuedWritesKept
<1>5. CASE \E s \in Sids : /\ kstate'[s] # "none" /\ byKey' = 1
                           /\ \A o \in Objs : obj'[o] = IF o = 1 THEN sessionFromSysfs(s) ELSE newSession
                           /\ \A t \in Sids : bySID'[t] = IF t = s THEN 1 ELSE 0
  <2>1. PICK s \in Sids : /\ kstate'[s] # "none" /\ byKey' = 1
                          /\ \A o \in Objs : obj'[o] = IF o = 1 THEN sessionFromSysfs(s) ELSE newSession
                          /\ \A t \in Sids : bySID'[t] = IF t = s THEN 1 ELSE 0
    BY Zenon, <1>5
  <2>2. obj'[1].made /\ obj'[1].sid = s /\ obj'[1].phase = "Established" /\ ~obj'[1].connDestroyed
    <3>1. obj'[1] = sessionFromSysfs(s)
      BY Zenon, <1>1, <2>1
    <3>2. QED BY Zenon, <3>1, AdoptedIs
  <2>3. \A o \in Objs \ {1} : obj'[o].made = FALSE /\ obj'[o].sid = 0 /\ obj'[o].phase = "Removed"
    BY Zenon, <1>3, <2>1
  <2>4. ObjectInv'
    <3>1. SUFFICES ASSUME NEW p \in Objs
          PROVE  (/\ ~obj[p].made => obj[p].sid = 0 /\ obj[p].phase = "Removed"
                  /\ obj[p].phase \in {"Established", "Recovering", "LoggingOut"} => obj[p].sid \in Sids
                  /\ obj[p].sid \in Sids => kstate[obj[p].sid] # "none"
                  /\ obj[p].phase \in {"Established", "Recovering"} => ~obj[p].connDestroyed
                  /\ obj[p].phase = "LoggingIn" => UserIn(LoginPcs) /\ UserOn(p)
                  /\ obj[p].phase # "Removed" => byKey = p \/ (UserIn({"destroy"}) /\ UserOn(p) /\ Gone(p))
                  /\ obj[p].phase = "LoggingOut" =>
                       /\ ~inUse /\ ~UserIn({"device"})
                       /\ cache[obj[p].sid] # "dirty" \/ (UserIn({"flush"}) /\ UserOn(p)))'
      BY Zenon DEF ObjectInv
    <3>2. CASE p = 1
      BY ONLY <2>1, <2>2, <3>2, s \in Sids, Zenon
    <3>3. CASE p # 1
      BY ONLY <1>3, <2>3, <3>3, p \in Objs, Zenon
    <3>4. QED BY Zenon, <3>2, <3>3
  <2>5. IndexInv'
    <3>1. \A t \in Sids : bySID'[t] # 0 => obj'[bySID'[t]].sid = t
      BY ONLY <2>1, <2>2, Zenon
    <3>2. byKey' # 0 => obj'[byKey'].phase # "Removed"
      BY Zenon, <2>1, <2>2
    <3>3. QED BY ONLY <1>1, <3>1, <3>2, Zenon DEF IndexInv
  <2>6. QED BY Zenon, <1>2, <2>4, <2>5 DEF IsInv, QueuedWritesKept
<1>6. QED BY Zenon, <1>4, <1>5

LEMMA StartInv ==
    ASSUME IsInv, Start
    PROVE  IsInv'
<1> DEFINE found == {s \in Sids : Adoptable(s)}
<1>1. /\ UNCHANGED <<kstate, kconn, cache, inUse, dropped>> /\ kevents' = {}
      /\ actor' = [x \in Actors |-> idleActor] /\ sup' = noScan
      /\ \/ /\ obj' = [o \in Objs |-> newSession] /\ byKey' = 0 /\ bySID' = [s \in Sids |-> 0]
         \/ \E first \in found :
               /\ obj' = [o \in Objs |-> IF o = 1 THEN sessionFromSysfs(first) ELSE newSession]
               /\ byKey' = 1 /\ bySID' = [s \in Sids |-> IF s = first THEN 1 ELSE 0]
  BY Zenon DEF Start, kernel
<1>2. KernelInv' /\ ~dropped'
  BY Zenon, <1>1 DEF IsInv, KernelInv, QueuedWritesKept
<1>3. actor' \in [Actors -> ActorStates] /\ (\A x \in Actors : actor'[x] = idleActor)
  BY Zenon, <1>1, IsFields
<1>4. sup' \in Scans
  BY Zenon, <1>1 DEF noScan, Scans
<1>5. \A s \in found : s \in Sids /\ kstate'[s] # "none"
  BY Zenon, <1>1 DEF Adoptable, Exists
<1> HIDE DEF found
<1>6. /\ obj' \in [Objs -> Sessions] /\ byKey' \in Objs \cup {0} /\ bySID' \in [Sids -> Objs \cup {0}]
      /\ \/ byKey' = 0 /\ (\A o \in Objs : obj'[o] = newSession) /\ (\A s \in Sids : bySID'[s] = 0)
         \/ \E s \in Sids : /\ kstate'[s] # "none" /\ byKey' = 1
                            /\ \A o \in Objs : obj'[o] = IF o = 1 THEN sessionFromSysfs(s) ELSE newSession
                            /\ \A t \in Sids : bySID'[t] = IF t = s THEN 1 ELSE 0
  <2>1. CASE obj' = [o \in Objs |-> newSession] /\ byKey' = 0 /\ bySID' = [s \in Sids |-> 0]
    BY Zenon, <2>1, IsFields
  <2>2. CASE \E first \in found :
               /\ obj' = [o \in Objs |-> IF o = 1 THEN sessionFromSysfs(first) ELSE newSession]
               /\ byKey' = 1 /\ bySID' = [s \in Sids |-> IF s = first THEN 1 ELSE 0]
    <3>1. PICK first \in found :
               /\ obj' = [o \in Objs |-> IF o = 1 THEN sessionFromSysfs(first) ELSE newSession]
               /\ byKey' = 1 /\ bySID' = [s \in Sids |-> IF s = first THEN 1 ELSE 0]
      BY Zenon, <2>2
    <3>2. first \in Sids /\ kstate'[first] # "none" /\ sessionFromSysfs(first) \in Sessions
      BY Zenon, <1>5, AdoptedIs
    <3>3. newSession \in Sessions /\ 1 \in Objs
      BY Zenon, IsFields
    <3>4. obj' \in [Objs -> Sessions] /\ \A o \in Objs : obj'[o] = IF o = 1 THEN sessionFromSysfs(first) ELSE newSession
      BY ONLY <3>1, <3>2, <3>3, Zenon
    <3>5. bySID' \in [Sids -> Objs \cup {0}] /\ \A t \in Sids : bySID'[t] = IF t = first THEN 1 ELSE 0
      BY ONLY <3>1, <3>3, Zenon
    <3>6. QED BY ONLY <3>1, <3>2, <3>3, <3>4, <3>5, Zenon
  <2>3. QED BY Zenon, <1>1, <2>1, <2>2
<1>7. IsTyped'
  BY Zenon, <1>1, <1>3, <1>4, <1>6, KernelTyped DEF IsTyped
<1>8. QED BY ONLY <1>1, <1>2, <1>3, <1>6, <1>7, FreshProcess, Zenon

LEMMA IsInitInv == IsInit => IsInv
<1> SUFFICES ASSUME IsInit PROVE IsInv
  OBVIOUS
<1>1. newSession \in Sessions /\ idleActor \in ActorStates
  BY Zenon, IsFields
<1>2. IsTyped
  <2>1. noScan \in Scans
    BY Zenon DEF noScan, Scans
  <2>2. QED BY Zenon, <1>1, <2>1 DEF IsInit, IsTyped
<1>3. \A o \in Objs : obj[o] = newSession
  BY Zenon DEF IsInit
<1>4. newSession.made = FALSE /\ newSession.sid = 0 /\ newSession.phase = "Removed" /\ 0 \notin Sids
      /\ idleActor.pc = "idle" /\ User \in Actors /\ RecoverLoops \subseteq Actors
  BY Zenon, IsFields
<1>5. actor[User].pc = "idle" /\ (\A l \in RecoverLoops : actor[l].pc = "idle") /\ sup.listed = {} /\ sup.check = {}
  <2>1. sup.listed = {} /\ sup.check = {}
    BY Zenon DEF IsInit, noScan
  <2>2. \A x \in Actors : actor[x] = idleActor
    BY Zenon DEF IsInit
  <2>3. QED BY Zenon, <1>4, <2>1, <2>2
<1>6. KernelInv
  BY Zenon DEF IsInit, KernelInv
<1>7. ObjectInv
  BY ONLY <1>3, <1>4, Zenon DEF ObjectInv
<1>8. IndexInv
  BY Zenon, <1>5 DEF IsInit, IndexInv
<1>9. CallInv
  BY Zenon, <1>5 DEF CallInv, UserIn, LoginPcs, LogoutPcs
<1>10. ~dropped
  BY Zenon DEF IsInit
<1>11. QED BY Zenon, <1>2, <1>6, <1>7, <1>8, <1>9, <1>10 DEF IsInv, QueuedWritesKept

LEMMA IsStepInv == IsInv /\ [IsNext]_isVars => IsInv'
<1> SUFFICES ASSUME IsInv, [IsNext]_isVars PROVE IsInv'
  OBVIOUS
<1>1. CASE VolumeCall
  <2>1. User \in Actors
    BY Zenon, IsFields
  <2>2. CASE Login
    BY Zenon, <2>2, LoginInv, LoginNewInv
  <2>3. CASE LoginFound
    BY Zenon, <2>3, LoginFoundInv
  <2>4. CASE createSession
    BY Zenon, <2>4, CreateSessionInv
  <2>5. CASE createConn
    BY Zenon, <2>5, CreateConnInv
  <2>6. CASE establishFails
    BY Zenon, <2>6, EstablishFailsInv
  <2>7. CASE DeviceForLUN
    BY Zenon, <2>7, DeviceInv
  <2>8. CASE Detach
    BY Zenon, <2>8, DetachInv
  <2>9. CASE Logout
    BY Zenon, <2>9, LogoutInv
  <2>10. CASE LogoutLocked
    BY Zenon, <2>10, LogoutLockedInv
  <2>11. CASE beginTeardown
    BY Zenon, <2>11, BeginTeardownInv
  <2>12. CASE flushAndDeleteDevice
    BY Zenon, <2>12, FlushInv
  <2>13. CASE finishLogout
    BY Zenon, <2>13, FinishLogoutInv
  <2>14. CASE bindEndpoint(User) \/ loginOnce(User) \/ startConn(User)
    BY Zenon, <2>1, <2>14, BindInv, LoginOnceInv, CallStartsInv
  <2>15. QED BY Zenon, <1>1, <2>2, <2>3, <2>4, <2>5, <2>6, <2>7, <2>8, <2>9, <2>10, <2>11, <2>12,
                <2>13, <2>14 DEF VolumeCall
<1>2. ASSUME NEW l \in RecoverLoops, RecoverStep(l) PROVE IsInv'
  <2>1. l \in Actors
    BY Zenon, IsFields
  <2>2. CASE bindEndpoint(l) \/ loginOnce(l) \/ startConn(l)
    BY Zenon, <2>1, <2>2, BindInv, LoginOnceInv, LoopStartInv
  <2>3. CASE recoverLock(l) \/ recoverOnce(l) \/ recoverSleep(l) \/ recoverSettled(l)
    BY Zenon, <2>3, RecoverLockInv, RecoverOnceInv, RecoverSleepInv, RecoverSettledInv
  <2>4. QED BY Zenon, <1>2, <2>2, <2>3 DEF RecoverStep
<1>3. CASE Supervise
  BY Zenon, <1>3, ScanOnceInv, ScanAdoptsInv, CheckInv DEF Supervise
<1>4. ASSUME NEW s \in Sids, \/ routeConnError(s) \/ routeDestroy(s)
                             \/ Write(s) \/ ConnFails(s) \/ RecoveryTimesOut(s) \/ SessionRemoved(s)
      PROVE  IsInv'
  BY Zenon, <1>4, RouteInv, WriteInv, KernelStepInv, SessionRemovedInv
<1>5. CASE \E e \in kevents : EventLost(e)
  BY Zenon, <1>5, EventLostInv
<1>6. CASE Start
  BY Zenon, <1>6, StartInv
<1>7. CASE UNCHANGED isVars
  <2>1. UNCHANGED <<kstate, kconn, cache, kevents, obj, actor, byKey, bySID, sup, inUse, dropped>>
    BY Zenon, <1>7 DEF isVars, kernel
  <2>2. sup' \in Scans /\ \A s \in sup'.listed : kstate[s] # "none"
    BY Zenon, <2>1 DEF IsInv, IsTyped, IndexInv
  <2>3. QED BY Zenon, <2>1, <2>2, StillStep
<1>8. QED BY Zenon, <1>1, <1>2, <1>3, <1>4, <1>5, <1>6, <1>7 DEF IsNext

\* The indexes and what the kernel shows keep their types.
THEOREM SessionsTyped == IsSpec => []IsTypeOK
<1>1. IsInv => IsTypeOK
  BY Zenon DEF IsInv, IsTyped, IsTypeOK
<1>2. QED BY IsInitInv, IsStepInv, <1>1, PTL DEF IsSpec

\* No logout, recovery, event, scan or restart of the process, in whatever
\* order they come, destroys a kernel session that still queues writes of a
\* disk for a connection that failed (Logout refuses, or completes a teardown
\* whose disk was flushed and removed).
THEOREM WritesAreKept == IsSpec => []QueuedWritesKept
<1>1. IsInv => QueuedWritesKept
  BY Zenon DEF IsInv
<1>2. QED BY IsInitInv, IsStepInv, <1>1, PTL DEF IsSpec
=============================================================================
