---------------------------- MODULE FencedAgent ----------------------------
(***************************************************************************)
(* The agent's fenced critical sections for ONE volume ID                  *)
(* (internal/agent/fencing.go and the RPCs of server_volume.go,            *)
(* server_import.go, server_release.go, protocol_handler.go that enter     *)
(* them).  Marks of different volume IDs are different files under         *)
(* different locks, so one volume ID is the general case.                  *)
(*                                                                         *)
(* The environment is the worst one a set of controller processes can be:  *)
(* any token may arrive at any time, delayed, repeated or out of order.    *)
(* The agent may lose its process (a crash) or its node (a power loss)     *)
(* between any two steps; a rename whose directory fsync failed or never   *)
(* ran may or may not survive the power loss.                              *)
(***************************************************************************)
EXTENDS FencingMark, FiniteSets

CONSTANTS
    Lvm,        \* TRUE: imports name an LV identity; FALSE: ZFS, they do not
    MaxPending  \* bound on requests waiting between two critical sections

ASSUME LvmAssumption == Lvm \in BOOLEAN
ASSUME MaxPendingAssumption == MaxPending \in Nat

VARIABLES
    mark,    \* the mark file as a reader sees it (page cache included)
    disk,    \* the marks one of which a power loss leaves behind
    lock,    \* the request inside the volume's fencing lock
    pend,    \* requests between their two critical sections
    lv,      \* the resource the volume ID's locator names on the node
    last,    \* history: token of the last backend/target mutation executed
    dead,    \* history: lifecycles whose mutations a later one followed
    deleted, \* history: lifecycles whose DeleteVolume returned success
    released,\* history: lifecycles whose ReleaseVolume returned success
    adopted  \* history: (LV, policy) of every import that returned success

vars == <<mark, disk, lock, pend, lv, last, dead, deleted, released, adopted>>

history == <<last, dead, deleted, released, adopted>>

\* The RPC (or phase of one) that owns the critical section, by fence class.
GrantRPCs == {"create", "expand", "export", "allow", "attach", "prepare", "link"}
RevokeRPCs == {"deny", "unexport", "release"}
RPCs == GrantRPCs \cup RevokeRPCs \cup {"delete", "none"}

Class(rpc) == IF rpc \in GrantRPCs THEN "grant"
              ELSE IF rpc \in RevokeRPCs THEN "revoke" ELSE "destroy"

NoLock == [pc |-> "idle", rpc |-> "none", tok |-> NoToken]

TypeOK ==
    /\ mark \in fencingMark
    /\ disk \subseteq fencingMark
    /\ lock \in [pc : {"idle", "mutate", "end"}, rpc : RPCs, tok : Token]
    /\ pend \subseteq [step : {"link", "unexport", "retire"}, tok : Token]
    /\ lv \in Sources \cup {NoSource}
    /\ last \in Token
    /\ dead \subseteq UIDs
    /\ deleted \subseteq UIDs
    /\ released \subseteq UIDs
    /\ adopted \subseteq [src : Sources, preserve : BOOLEAN]

Init ==
    /\ mark = ZeroMark
    /\ disk = {ZeroMark}
    /\ lock = NoLock
    /\ pend = {}
    /\ lv \in Sources \cup {NoSource}
    /\ last = NoToken
    /\ dead = {}
    /\ deleted = {}
    /\ released = {}
    /\ adopted = {}

Idle == lock.pc = "idle"

----------------------------------------------------------------------------
(* writeFencingMarkOutcome and persistFencingMark.  A failure before the   *)
(* rename leaves everything as it was and is not a step.                   *)

\* tmp write, fsync, rename and directory fsync all succeeded.
Durable(next) == mark' = next /\ disk' = {next}

\* The rename was applied; the directory fsync failed or was cut short, so
\* this mark or any earlier unsynced one may be what a power loss leaves.
Renamed(next) == mark' = next /\ disk' = disk \cup {next}

\* An unchanged mark is re-synced, so an earlier rename becomes durable.
Resynced == UNCHANGED mark /\ disk' = {mark}

TrustsUnchanged(next) == IF next = mark THEN UNCHANGED <<mark, disk>>
                         ELSE Durable(next)

persistFencingMark(next) == IF next = mark THEN Resynced ELSE Durable(next)

----------------------------------------------------------------------------
(* Preconditions checked under the lock before anything is persisted.      *)

verifyPinnedSource(m) == m.pin = NoSource \/ m.pin = lv

\* refusePinnedCreate, refusePreserved, and the pin check of every request
\* that is not a revoke (checkFencePreconditions).
checkFencePreconditions(rpc, m) ==
    /\ rpc = "create" => m.pin = NoSource
    /\ rpc \in {"expand", "delete"} => ~m.preserve
    /\ Class(rpc) # "revoke" => verifyPinnedSource(m)

\* A terminal retry skips both: the resource is gone.
Preconditions(rpc, tok, m) ==
    AdmitTerminalRetry(tok, Class(rpc), m) \/ checkFencePreconditions(rpc, m)

\* A terminal delete retry on a pinned mark re-syncs and succeeds without
\* running the deletion again.
PinnedTerminalDelete(rpc, tok, m) ==
    rpc = "delete" /\ AdmitTerminalRetry(tok, "destroy", m) /\ m.pin # NoSource

----------------------------------------------------------------------------
(* fencedChecked (and fenced): lock, read, admit, check, persist, mutate.  *)

\* Every request that is admitted and passes its checks, up to persistence.
MayEnter(rpc, tok) ==
    /\ Idle
    /\ Admits(tok, Class(rpc), mark)
    /\ ~PinnedTerminalDelete(rpc, tok, mark)
    /\ Preconditions(rpc, tok, mark)

\* The lifecycle and generation are durable before the mutation may run.
Enter(rpc, tok) ==
    /\ MayEnter(rpc, tok)
    /\ persistFencingMark(AdmittedMark(tok, mark))
    /\ lock' = [pc |-> "mutate", rpc |-> rpc, tok |-> tok]
    /\ UNCHANGED <<lv, history>>

\* The rename happened but its durability is unknown: the request fails.
EnterFails(rpc, tok) ==
    /\ MayEnter(rpc, tok)
    /\ AdmittedMark(tok, mark) # mark
    /\ Renamed(AdmittedMark(tok, mark))
    /\ UNCHANGED <<lock, lv, history>>

RetryPinnedDeleteUnsynced(tok) ==
    /\ Idle
    /\ Admits(tok, "destroy", mark)
    /\ PinnedTerminalDelete("delete", tok, mark)
    /\ deleted' = deleted \cup {tok.uid}
    /\ UNCHANGED <<mark, disk, lock, pend, lv, last, dead, released, adopted>>

RetryPinnedDelete(tok) ==
    /\ Idle
    /\ Admits(tok, "destroy", mark)
    /\ PinnedTerminalDelete("delete", tok, mark)
    /\ Resynced
    /\ deleted' = deleted \cup {tok.uid}
    /\ UNCHANGED <<lock, pend, lv, last, dead, released, adopted>>

\* What the locator may name after the request's mutation.
ResourceAfter(rpc) ==
    CASE rpc = "create" /\ lv = NoSource -> Sources
      [] rpc = "delete" -> {NoSource}
      [] OTHER -> {lv}

Executed(tok) ==
    /\ last' = tok
    /\ dead' = IF last.uid \in {NoUID, tok.uid} THEN dead ELSE dead \cup {last.uid}

\* The phase that follows in another critical section of the same RPC:
\* Reconcile links what it prepared, ReleaseVolume retires what it unexported.
NextPhase(rpc, tok) ==
    CASE rpc = "prepare" -> {[step |-> "link", tok |-> tok]}
      [] rpc = "release" -> {[step |-> "retire", tok |-> tok]}
      [] OTHER -> {}

\* runFencedMutation: the mutation succeeds.
Mutate ==
    /\ lock.pc = "mutate"
    /\ lv' \in ResourceAfter(lock.rpc)
    /\ Executed(lock.tok)
    /\ IF lock.rpc = "delete" /\ ~mark.ended
       THEN lock' = [lock EXCEPT !.pc = "end"] /\ UNCHANGED deleted
       ELSE /\ lock' = NoLock
            /\ deleted' = IF lock.rpc = "delete" THEN deleted \cup {lock.tok.uid}
                          ELSE deleted
    /\ pend' = pend \cup NextPhase(lock.rpc, lock.tok)
    /\ UNCHANGED <<mark, disk, released, adopted>>

\* The mutation fails, before or after it changed the resource.
MutateFails ==
    /\ lock.pc = "mutate"
    /\ lv' \in ResourceAfter(lock.rpc) \cup {lv}
    /\ Executed(lock.tok)
    /\ lock' = NoLock
    /\ UNCHANGED <<mark, disk, pend, deleted, released, adopted>>

\* A successful deletion ends the lifecycle; only then is it reported.
RecordEnded ==
    /\ lock.pc = "end"
    /\ Durable(EndedMark(mark))
    /\ lock' = NoLock
    /\ deleted' = deleted \cup {lock.tok.uid}
    /\ UNCHANGED <<pend, lv, last, dead, released, adopted>>

RecordEndedFails ==
    /\ lock.pc = "end"
    /\ lock' = NoLock
    /\ \/ Renamed(EndedMark(mark))
       \/ UNCHANGED <<mark, disk>>
    /\ UNCHANGED <<pend, lv, history>>

----------------------------------------------------------------------------
(* One-section RPCs.  Those of a protocol handler also hold the target     *)
(* lock, which a Reconcile keeps from its prepare to its link.             *)

TargetRPCs == {"export", "allow", "attach", "deny", "unexport", "prepare"}

TargetLocked == \E p \in pend : p.step = "link"

Request(rpc, tok) ==
    /\ rpc \in TargetRPCs => ~TargetLocked
    /\ rpc = "prepare" => Cardinality(pend) < MaxPending
    /\ Enter(rpc, tok)
    /\ UNCHANGED pend

RequestFails(rpc, tok) ==
    /\ rpc \in TargetRPCs => ~TargetLocked
    /\ EnterFails(rpc, tok)
    /\ UNCHANGED pend

----------------------------------------------------------------------------
(* recheckFence: the second phase of Reconcile, without a durable write.   *)

UncheckedLink(p) ==
    /\ p.step = "link"
    /\ Idle
    /\ lock' = [pc |-> "mutate", rpc |-> "link", tok |-> p.tok]
    /\ pend' = pend \ {p}
    /\ UNCHANGED <<mark, disk, lv, history>>

RecheckLink(p) ==
    /\ p.step = "link"
    /\ Idle
    /\ Admits(p.tok, "grant", mark)
    /\ AdmittedMark(p.tok, mark) = mark
    /\ verifyPinnedSource(mark)
    /\ lock' = [pc |-> "mutate", rpc |-> "link", tok |-> p.tok]
    /\ pend' = pend \ {p}
    /\ UNCHANGED <<mark, disk, lv, history>>

----------------------------------------------------------------------------
(* ImportVolume / importLV through fencedImport: the backend's read-only   *)
(* checks run between admission and persistence; a refusal writes nothing. *)

ImportSources == IF Lvm THEN Sources ELSE {NoSource}

MayImport(tok, src, preserve) ==
    /\ Idle
    /\ Admits(tok, "grant", mark)
    /\ ImportPinAllowed(mark, src, preserve)
    /\ lv # NoSource /\ (src # NoSource => lv = src)

ImportedMark(tok, src, preserve) ==
    PinnedMark(AdmittedMark(tok, mark), mark, src, preserve)

Adopted(src, preserve) ==
    IF src = NoSource THEN {} ELSE {[src |-> src, preserve |-> preserve]}

ImportVolume(tok, src, preserve) ==
    /\ MayImport(tok, src, preserve)
    /\ persistFencingMark(ImportedMark(tok, src, preserve))
    /\ adopted' = adopted \cup Adopted(src, preserve)
    /\ UNCHANGED <<lock, pend, lv, last, dead, deleted, released>>

ImportVolumeFails(tok, src, preserve) ==
    /\ MayImport(tok, src, preserve)
    /\ Renamed(ImportedMark(tok, src, preserve))
    /\ UNCHANGED <<lock, pend, lv, history>>

----------------------------------------------------------------------------
(* ReleaseVolume: retireFence, Unexport if the lifecycle owns the mark,    *)
(* retireFence again.                                                      *)

\* Retirement without ownership, in either pass.
RetireUnowned(tok) ==
    \/ /\ AlreadyRetired(tok, mark)
       /\ released' = released \cup {tok.uid}
       /\ UNCHANGED <<mark, disk>>
    \/ /\ ~AlreadyRetired(tok, mark)
       /\ tok.uid # mark.uid
       /\ \/ Durable(RetireDisowned(tok, mark)) /\ released' = released \cup {tok.uid}
          \/ Renamed(RetireDisowned(tok, mark)) /\ UNCHANGED released

ReleaseVolume(tok) ==
    /\ Idle
    /\ tok.uid # NoUID
    /\ RetireUnowned(tok)
    /\ UNCHANGED <<lock, pend, lv, last, dead, deleted, adopted>>

ReleaseOwned(tok) ==
    /\ Idle
    /\ Owns(tok, mark) /\ Admits(tok, "revoke", mark)
    /\ Cardinality(pend) < MaxPending
    /\ pend' = pend \cup {[step |-> "unexport", tok |-> tok]}
    /\ UNCHANGED <<mark, disk, lock, lv, history>>

ReleaseUnexport(p) ==
    /\ p.step = "unexport"
    /\ ~TargetLocked
    /\ Enter("release", p.tok) \/ EnterFails("release", p.tok)
    /\ pend' = pend \ {p}

ReleaseRetire(p) ==
    /\ p.step = "retire"
    /\ Idle
    /\ pend' = pend \ {p}
    /\ \/ RetireUnowned(p.tok)
       \/ /\ Owns(p.tok, mark) /\ Admits(p.tok, "revoke", mark)
          /\ verifyPinnedSource(mark)
          /\ \/ Durable(RetireOwned(p.tok, mark)) /\ released' = released \cup {p.tok.uid}
             \/ Renamed(RetireOwned(p.tok, mark)) /\ UNCHANGED released
    /\ UNCHANGED <<lock, lv, last, dead, deleted, adopted>>

\* A later phase refused or failed: the RPC returns its error.
AbandonPhase(p) ==
    /\ Idle
    /\ pend' = pend \ {p}
    /\ UNCHANGED <<mark, disk, lock, lv, history>>

----------------------------------------------------------------------------
(* The environment. *)

\* The agent process dies: locks and half-finished RPCs are gone, the page
\* cache is not.
Crash ==
    /\ lock' = NoLock
    /\ pend' = {}
    /\ UNCHANGED <<mark, disk, lv, history>>

\* The node loses power: an unsynced rename is kept or lost.
PowerLoss ==
    /\ mark' \in disk
    /\ disk' = {mark'}
    /\ lock' = NoLock
    /\ pend' = {}
    /\ UNCHANGED <<lv, history>>

\* An administrator renames, removes or creates LVs behind the locator, but
\* not in the middle of one of the agent's critical sections.
ReplaceResource ==
    /\ Idle
    /\ lv' \in Sources \cup {NoSource}
    /\ UNCHANGED <<mark, disk, lock, pend, history>>

OneSectionRPCs == {"create", "expand", "export", "allow", "attach", "deny",
                   "unexport", "delete", "prepare"}

Next ==
    \/ \E tok \in Token :
          \/ \E rpc \in OneSectionRPCs : Request(rpc, tok) \/ RequestFails(rpc, tok)
          \/ RetryPinnedDelete(tok)
          \/ \E src \in ImportSources, preserve \in BOOLEAN :
                ImportVolume(tok, src, preserve) \/ ImportVolumeFails(tok, src, preserve)
          \/ ReleaseVolume(tok)
          \/ ReleaseOwned(tok)
    \/ Mutate \/ MutateFails \/ RecordEnded \/ RecordEndedFails
    \/ \E p \in pend :
          RecheckLink(p) \/ ReleaseUnexport(p) \/ ReleaseRetire(p) \/ AbandonPhase(p)
    \/ Crash \/ PowerLoss \/ ReplaceResource

Spec == Init /\ [][Next]_vars

----------------------------------------------------------------------------
(* Properties *)

\* A request about to mutate the storage or its export is never stale: its
\* lifecycle was not followed by another one and no newer generation of it
\* has acted, whatever order requests, crashes and power losses come in
\* (fencing.go: "a request that passed the check cannot be overtaken by a
\* newer one before it mutates").
NoStaleMutation ==
    lock.pc \in {"mutate", "end"} =>
        /\ lock.tok.uid \notin dead
        /\ lock.tok.uid = last.uid => lock.tok.gen >= last.gen

\* Every mutation that ever executed is covered by whatever mark a power loss
\* leaves behind, because fencedChecked makes the mark durable before
\* runFencedMutation ("The mark survives agent restarts and node reboots").
MarkCoversMutations ==
    \A d \in disk :
        /\ dead \subseteq d.endedUIDs
        /\ last.uid # NoUID =>
              \/ d.uid = last.uid /\ d.gen >= last.gen
              \/ last.uid \in d.endedUIDs

EndedIn(m, u) == (m.uid = u /\ m.ended) \/ u \in m.endedUIDs

\* Once DeleteVolume returned success the lifecycle is durably ended, also
\* after a power loss (DeleteVolume: "after the deletion succeeded the
\* lifecycle is recorded as ended").
DeleteIsDurable == \A u \in deleted, d \in disk : EndedIn(d, u)

\* No create, export or grant of a lifecycle runs after its DeleteVolume
\* returned success (DeleteVolume: "any later grant-class request for it is
\* rejected").
NoGrantAfterDelete ==
    lock.pc = "mutate" /\ Class(lock.rpc) = "grant" => lock.tok.uid \notin deleted

\* Once ReleaseVolume returned success the lifecycle is durably retired
\* (retireFence: "durably retires token's lifecycle from volumeID").
ReleaseIsDurable == \A u \in released, d \in disk : u \in d.endedUIDs

\* Whatever a power loss may leave is at least as new as something it could
\* have left before: no retired lifecycle, no older generation and no unpinned
\* source comes back (DeleteVolume: "The mark is never removed").
MarkNeverRegresses ==
    [][\A d2 \in disk' : \E d1 \in disk : MarkAtLeast(d2, d1)]_vars

\* A volume ID for which an LV import ever succeeded destroys nothing but that
\* LV, and not even that one if any import of it was PreserveOriginal, in this
\* lifecycle and every later one (pinImportSource, refusePreserved).
DestroysOnlyAdopted ==
    [][lock.pc = "mutate" /\ lv # NoSource /\ lv' # lv =>
         \A a \in adopted : a.src = lv /\ ~a.preserve]_vars

Promise == INSTANCE FencedResource
    WITH UIDs <- UIDs, NoUID <- NoUID, Gens <- Gens, last <- last, dead <- dead

\* The critical sections implement the abstract promise on the order of
\* mutations (FencedResource).
ImplementsPromise == Promise!Spec
=============================================================================
