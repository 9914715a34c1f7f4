---------------------------- MODULE ImportClaims ----------------------------
(***************************************************************************)
(* Several claims after one existing zvol, LV or filesystem: the scan of   *)
(* the records, the PillarVolumeReservation and the agent's mark that keep *)
(* two lifecycles from managing one source (internal/csi                   *)
(* import_reservation.go, import_zvol.go, import_lv.go,                    *)
(* import_filesystem.go and the steps of CreateVolume and finishDelete     *)
(* that call them).                                                        *)
(*                                                                         *)
(* Every read and write of the API server is a step of its own, and the    *)
(* replicas of the controller share nothing else.  A call may stop after   *)
(* any step; a request it sent may arrive long after.  The generation of   *)
(* the token is left to FencedAgent: here an agent tells lifecycles apart. *)
(***************************************************************************)
EXTENDS Naturals, FiniteSets

CONSTANTS
    Claims,        \* volume names, one per PersistentVolumeClaim
    Replicas,      \* processes of the controller
    Locators,      \* "<vg>/<lv>", "<pool>/<leaf>" or a path on the agent
    Resources,     \* native identities: an LV UUID, a dataset GUID, an inode
    NoResource,
    Scenarios,     \* [Claims -> wish] and the initial place of the resources
    MaxSerial, MaxMoves, MaxClaimCalls

VARIABLES
    wish,      \* what the annotations of each claim ask for
    claimed,   \* the claims that still exist
    pvs,    \* the PillarVolumeState of each name
    rsv,       \* the PillarVolumeReservation of each key
    serial,    \* UIDs handed out by the API server
    place,     \* the resource a locator names now
    mark,      \* the agent's mark of each fence ID
    owners,    \* lifecycles the agent bound each resource to
    call,      \* the call each replica runs
    sent,      \* requests to the agent not yet arrived
    moves, claimCalls

icVars == <<wish, claimed, pvs, rsv, serial, place, mark, owners, call,
            sent, moves, claimCalls>>

\* Everything but the calls of the controller.
icWorld == <<wish, claimed, pvs, rsv, serial, place, mark, owners, sent,
             moves, claimCalls>>

Kinds == {"zvol", "lv", "filesystem", "create"}

\* What the claim annotations select.  res: the LV UUID import-lv pins.
Wishes == [kind : Kinds, loc : Locators, res : Resources \cup {NoResource}]

NoRecord == [uid |-> 0, want |-> [kind |-> "create", loc |-> NoResource, res |-> NoResource],
             deleting |-> FALSE, acquired |-> FALSE]
Unreserved == [owner |-> NoResource, id |-> 0]
NoMark == [uid |-> 0, ended |-> FALSE, endedUIDs |-> {}]
icNoCall == [step |-> "idle", pv |-> NoResource, want |-> NoRecord.want,
                uid |-> 0, free |-> {}]

Keys == {"zvol", "lv", "filesystem"} \X (Locators \cup Resources)

InitIC ==
    /\ \E s \in Scenarios : wish = s.wish /\ place = s.place
    /\ claimed = Claims
    /\ pvs = [c \in Claims |-> NoRecord]
    /\ rsv = [k \in Keys |-> Unreserved]
    /\ serial = 0
    /\ mark = [f \in Locators \cup Resources |-> NoMark]
    /\ owners = [o \in Resources |-> {}]
    /\ call = [r \in Replicas |-> icNoCall]
    /\ sent = {}
    /\ moves = 0 /\ claimCalls = 0

----------------------------------------------------------------------------
(* Identities.                                                             *)

reservationKeyByLocator(w) == <<w.kind, w.loc>>

\* reservationKey and reservationName: the LV UUID or the native resource,
\* never a locator that can be renamed; the agent volume ID of a zvol.
reservationKey(w) ==
    <<w.kind, IF w.kind = "zvol" THEN w.loc ELSE w.res>>

\* The ID the agent keeps its mark under: backend.FilesystemFenceID of an
\* adopted filesystem, else the agent volume ID.
FenceOf(w) == IF w.kind = "filesystem" THEN w.res ELSE w.loc

Import(w) == w.kind # "create"

\* What the scans take for the same backend volume: the agent volume ID, for
\* an LV also the UUID of a recorded adoption, and the native resource of a
\* filesystem.
zvolConflict(w, v) == v.loc = w.loc
lvConflict(w, v) == v.loc = w.loc \/ (v.kind = "lv" /\ v.res = w.res)
filesystemConflict(w, v) == v.kind = "filesystem" /\ v.res = w.res

SameBackend(w, v) ==
    CASE w.kind = "filesystem" -> filesystemConflict(w, v)
      [] w.kind = "lv" -> lvConflict(w, v)
      [] OTHER -> zvolConflict(w, v)

Managed(pv, w) ==
    \E c \in Claims \ {pv} : pvs[c].uid # 0 /\ SameBackend(w, pvs[c].want)

----------------------------------------------------------------------------
(* Calls.                                                                  *)

icAt(r, step) == call[r].step = step
icGoto(r, step) == call' = [call EXCEPT ![r].step = step]
icFinish(r) == call' = [call EXCEPT ![r] = icNoCall]

\* The answers of the API server are errors of the call, and a client may
\* give up at any time.
icAbandon(r) ==
    /\ ~icAt(r, "idle")
    /\ icFinish(r)
    /\ UNCHANGED icWorld

\* checkRecordedLVSource: the source an attempt recorded is never changed.
checkRecordedSource(c, w) == pvs[c].uid = 0 \/ pvs[c].want = w

\* A retry keeps the recorded source and refuses an annotation that names
\* another; a first attempt takes the annotation.
resolveImportRequest(c) == {w \in {wish[c]} : checkRecordedSource(c, w)}

\* inspectFilesystemImport: the native identity of the path now, if any.
inspectFilesystemImport(w) ==
    IF place[w.loc] = NoResource THEN {} ELSE {[w EXCEPT !.res = place[w.loc]]}

\* A recorded filesystem must still be the one at its path.
revalidateFilesystemImport(c, found) == {pvs[c].want} \cap found

resolveFilesystemImportRequest(c) ==
    LET found == inspectFilesystemImport(wish[c]) IN
    IF pvs[c].uid = 0 THEN found ELSE revalidateFilesystemImport(c, found)

\* CreateVolume reads the record first.  A completed volume is answered from
\* it; any other attempt resolves what to adopt.
LoadRecord(r, c) ==
    /\ icAt(r, "idle")
    /\ claimCalls < MaxClaimCalls /\ claimCalls' = claimCalls + 1
    /\ ~pvs[c].acquired
    /\ \E w \in IF wish[c].kind = "filesystem" THEN resolveFilesystemImportRequest(c)
                ELSE resolveImportRequest(c) :
          call' = [call EXCEPT ![r] =
             [step |-> IF pvs[c].uid = 0 /\ Import(w) THEN "scan" ELSE "claim",
              pv |-> c, want |-> w, uid |-> 0, free |-> {}]]
    /\ UNCHANGED <<wish, claimed, pvs, rsv, serial, place, mark, owners, sent, moves>>

refuseImportConflict(r) ==
    /\ icAt(r, "scan")
    /\ IF Managed(call[r].pv, call[r].want) THEN icFinish(r) ELSE icGoto(r, "claim")
    /\ UNCHANGED icWorld

\* claimRefFor and refuseAbandonedClaim.
refuseAbandonedClaim(r) ==
    /\ icAt(r, "claim")
    /\ IF call[r].pv \notin claimed THEN icFinish(r)
       ELSE icGoto(r, IF Import(call[r].want) THEN "reserve" ELSE "ensure")
    /\ UNCHANGED icWorld

Reserved(r) == rsv[reservationKey(call[r].want)]

\* reserveBackendVolume reads first; only an absent one is created.
reserveBackendVolume(r) ==
    /\ icAt(r, "reserve")
    /\ IF Reserved(r).id = 0 THEN icGoto(r, "createRsv")
       ELSE IF Reserved(r).owner = call[r].pv THEN icGoto(r, "ensure")
       ELSE icFinish(r)
    /\ UNCHANGED icWorld

\* The create that loses the race is refused on what the winner recorded.
createReservation(r) ==
    /\ icAt(r, "createRsv")
    /\ IF Reserved(r).id = 0
       THEN /\ serial' = serial + 1
            /\ rsv' = [rsv EXCEPT ![reservationKey(call[r].want)] =
                        [owner |-> call[r].pv, id |-> serial + 1]]
            /\ icGoto(r, "ensure")
       ELSE icGoto(r, "lostRsv") /\ UNCHANGED <<rsv, serial>>
    /\ UNCHANGED <<wish, claimed, pvs, place, mark, owners, sent, moves, claimCalls>>

verifyNothing(r, next) == icGoto(r, next)

\* The reservation as it is read now belongs to this volume.
verifyReservation(r, next) ==
    IF Reserved(r).owner = call[r].pv THEN icGoto(r, next) ELSE icFinish(r)

VerifyLost(r) ==
    /\ icAt(r, "lostRsv")
    /\ verifyReservation(r, "ensure")
    /\ UNCHANGED icWorld

\* ensureVolumeState, refuseDeleting: the record of an earlier attempt is
\* used unless a filesystem retry found another identity.
ensureVolumeState(r) ==
    LET c == call[r].pv IN
    /\ icAt(r, "ensure")
    /\ IF pvs[c].uid = 0
       THEN icGoto(r, "createRecord")
       ELSE IF pvs[c].deleting \/ pvs[c].want # call[r].want THEN icFinish(r)
       ELSE call' = [call EXCEPT ![r].step = "verify", ![r].uid = pvs[c].uid]
    /\ UNCHANGED icWorld

\* createVolumeState: AlreadyExists is not an error, the record is read
\* back either way.
createVolumeState(r) ==
    LET c == call[r].pv IN
    /\ icAt(r, "createRecord")
    /\ IF pvs[c].uid = 0
       THEN /\ serial < MaxSerial
            /\ serial' = serial + 1
            /\ pvs' = [pvs EXCEPT ![c] = [NoRecord EXCEPT !.uid = serial + 1,
                                                               !.want = call[r].want]]
       ELSE UNCHANGED <<pvs, serial>>
    /\ icGoto(r, "readBack")
    /\ UNCHANGED <<wish, claimed, rsv, place, mark, owners, sent, moves, claimCalls>>

ReadBack(r) ==
    LET c == call[r].pv IN
    /\ icAt(r, "readBack")
    /\ IF pvs[c].uid = 0 \/ pvs[c].deleting \/ pvs[c].want # call[r].want
       THEN icFinish(r)
       ELSE call' = [call EXCEPT ![r].step = "verify", ![r].uid = pvs[c].uid]
    /\ UNCHANGED icWorld

\* Right before the agent is asked: an import reads its reservation again,
\* a normal create scans for an import of its own name
\* (refuseAdoptionCollision).
VerifyBeforeImport(r) ==
    /\ icAt(r, "verify")
    /\ IF Import(call[r].want) THEN verifyReservation(r, "token")
       ELSE IF Managed(call[r].pv, call[r].want) THEN icFinish(r)
       ELSE icGoto(r, "token")
    /\ UNCHANGED icWorld

\* importBackend and createBackend: the token is claimed on the record of
\* this lifecycle, then the request leaves.
importBackend(r) ==
    LET c == call[r].pv IN
    /\ icAt(r, "token")
    /\ IF pvs[c].uid = call[r].uid /\ ~pvs[c].deleting
       THEN /\ sent' = sent \cup {[uid |-> call[r].uid, want |-> call[r].want]}
            /\ icGoto(r, "answer")
       ELSE icFinish(r) /\ UNCHANGED sent
    /\ UNCHANGED <<wish, claimed, pvs, rsv, serial, place, mark, owners, moves, claimCalls>>

\* The mark admits its own lifecycle, or a new one once it ended.
AdmitsLifecycle(f, u) ==
    /\ u \notin mark[f].endedUIDs
    /\ mark[f].uid = 0 \/ mark[f].ended \/ mark[f].uid = u
    /\ ~(mark[f].uid = u /\ mark[f].ended)

\* ImportVolume at the agent: it refuses a source that is missing or not
\* the expected one and records nothing; CreateVolume adopts what is there.
AgentImport(q) ==
    LET f == FenceOf(q.want)
        o == place[q.want.loc]
        old == mark[f]
        ok == /\ AdmitsLifecycle(f, q.uid)
              /\ o # NoResource
              /\ q.want.kind \in {"lv", "filesystem"} => o = q.want.res
    IN  /\ q \in sent
        /\ sent' = sent \ {q}
        /\ IF ok
           THEN /\ mark' = [mark EXCEPT ![f] =
                     [uid |-> q.uid, ended |-> FALSE,
                      endedUIDs |-> old.endedUIDs \cup ({old.uid} \ {0, q.uid})]]
                /\ owners' = [owners EXCEPT ![o] = @ \cup {q.uid}]
           ELSE UNCHANGED <<mark, owners>>
        /\ UNCHANGED <<wish, claimed, pvs, rsv, serial, place, call, moves, claimCalls>>

\* commitBackendVolume records what the agent answered.
recordAcquired(r) ==
    LET c == call[r].pv IN
    /\ icAt(r, "answer")
    /\ \E o \in Resources : call[r].uid \in owners[o]
    /\ pvs' = IF pvs[c].uid = call[r].uid /\ ~pvs[c].deleting
                 THEN [pvs EXCEPT ![c].acquired = TRUE] ELSE pvs
    /\ icFinish(r)
    /\ UNCHANGED <<wish, claimed, rsv, serial, place, mark, owners, sent, moves, claimCalls>>

----------------------------------------------------------------------------
(* Deletion: by the reaper once the claim is gone, or by DeleteVolume.     *)

\* The deletion is committed in the record before anything else.
markDeleting(r, c) ==
    /\ icAt(r, "idle")
    /\ claimCalls < MaxClaimCalls /\ claimCalls' = claimCalls + 1
    /\ pvs[c].uid # 0
    /\ c \notin claimed
    /\ pvs' = [pvs EXCEPT ![c].deleting = TRUE]
    /\ call' = [call EXCEPT ![r] = [step |-> "retire", pv |-> c,
                  want |-> pvs[c].want, uid |-> pvs[c].uid, free |-> {}]]
    /\ UNCHANGED <<wish, claimed, rsv, serial, place, mark, owners, sent, moves>>

\* ReleaseVolume retires whatever lifecycle it names.  DeleteVolume of a
\* volume another lifecycle holds is refused and stays to be retried; the
\* resource it deletes leaves its place.
teardownMarkedVolume(r) ==
    LET w == call[r].want
        f == FenceOf(w)
        u == call[r].uid
        m == mark[f]
        releaseOnly == Import(w) /\ ~pvs[call[r].pv].acquired
        own == m.uid \in {0, u} \/ m.ended
    IN  /\ icAt(r, "retire")
        /\ releaseOnly \/ w.kind = "filesystem" \/ (own /\ u \notin m.endedUIDs)
        /\ mark' = [mark EXCEPT ![f] =
              IF own THEN [uid |-> u, ended |-> TRUE,
                           endedUIDs |-> m.endedUIDs \cup ({m.uid} \ {0})]
              ELSE [m EXCEPT !.endedUIDs = @ \cup {u}]]
        /\ owners' = [o \in Resources |-> owners[o] \ {u}]
        /\ place' = IF releaseOnly \/ w.kind = "filesystem" THEN place
                    ELSE [place EXCEPT ![w.loc] = NoResource]
        /\ icGoto(r, IF Import(w) THEN "release" ELSE "deleteRecord")
        /\ UNCHANGED <<wish, claimed, pvs, rsv, serial, sent, moves, claimCalls>>

\* Only reservations of this volume, and only the objects that were read:
\* the one of the key (releaseLegacyReservation), or every native one a race
\* of first attempts left (releaseFilesystemReservations).
releaseBackendVolume(r) ==
    LET c == call[r].pv
        w == call[r].want
        mine == {k \in Keys : /\ rsv[k].owner = c
                              /\ \/ k = reservationKey(w)
                                 \/ w.kind = "filesystem" /\ k[1] = "filesystem"}
    IN  /\ icAt(r, "release")
        /\ call' = [call EXCEPT ![r].step = IF mine = {} THEN "deleteRecord" ELSE "deleteRsv",
                                ![r].free = {<<k, rsv[k].id>> : k \in mine}]
        /\ UNCHANGED icWorld

\* The delete carries the UID that was read; a reservation replaced since is
\* a conflict.  Before each one the release of a filesystem checks that the
\* deleting record is still the one it began with
\* (cleanupFilesystemReservation, verifyFilesystemCleanupOwner).
deleteReservation(r) ==
    LET c == call[r].pv IN
    /\ icAt(r, "deleteRsv")
    /\ \E f \in call[r].free :
          IF \/ rsv[f[1]].id \notin {0, f[2]}
             \/ call[r].want.kind = "filesystem" /\ pvs[c].uid # call[r].uid
          THEN icFinish(r) /\ UNCHANGED rsv
          ELSE /\ rsv' = [rsv EXCEPT ![f[1]] = Unreserved]
               /\ call' = [call EXCEPT ![r].free = @ \ {f},
                             ![r].step = IF call[r].free = {f} THEN "deleteRecord" ELSE @]
    /\ UNCHANGED <<wish, claimed, pvs, serial, place, mark, owners, sent, moves, claimCalls>>

deleteVolumeState(r) ==
    LET c == call[r].pv IN
    /\ icAt(r, "deleteRecord")
    /\ pvs' = IF pvs[c].uid = call[r].uid THEN [pvs EXCEPT ![c] = NoRecord]
                 ELSE pvs
    /\ icFinish(r)
    /\ UNCHANGED <<wish, claimed, rsv, serial, place, mark, owners, sent, moves, claimCalls>>

----------------------------------------------------------------------------
(* What others do.                                                         *)

DeleteClaim(c) ==
    /\ c \in claimed
    /\ claimed' = claimed \ {c}
    /\ UNCHANGED <<wish, pvs, rsv, serial, place, mark, owners, call, sent, moves, claimCalls>>

\* The operator follows the refusal: the claim and its record are gone.
OperatorReleases(k) ==
    /\ rsv[k].id # 0
    /\ rsv[k].owner \notin claimed
    /\ pvs[rsv[k].owner].uid = 0
    /\ rsv' = [rsv EXCEPT ![k] = Unreserved]
    /\ UNCHANGED <<wish, claimed, pvs, serial, place, mark, owners, call, sent, moves, claimCalls>>

\* An administrator renames an LV or replaces what a path names.
Move(a, b) ==
    /\ moves < MaxMoves
    /\ place[a] # NoResource
    /\ \E c \in Claims : wish[c].kind \in {"lv", "filesystem"} /\ wish[c].loc = a
    /\ moves' = moves + 1
    /\ place' = [place EXCEPT ![a] = place[b], ![b] = place[a]]
    /\ UNCHANGED <<wish, claimed, pvs, rsv, serial, mark, owners, call, sent, claimCalls>>

\* A claim is re-annotated with the source of another one.
Reannotate(c, d) ==
    /\ moves < MaxMoves
    /\ wish[c] # wish[d] /\ wish[c].kind = wish[d].kind
    /\ moves' = moves + 1
    /\ wish' = [wish EXCEPT ![c] = wish[d]]
    /\ UNCHANGED <<claimed, pvs, rsv, serial, place, mark, owners, call, sent, claimCalls>>

NextIC ==
    \/ \E r \in Replicas :
          \/ \E c \in Claims : LoadRecord(r, c) \/ markDeleting(r, c)
          \/ refuseImportConflict(r)
          \/ refuseAbandonedClaim(r)
          \/ reserveBackendVolume(r)
          \/ createReservation(r)
          \/ VerifyLost(r)
          \/ ensureVolumeState(r)
          \/ createVolumeState(r)
          \/ ReadBack(r)
          \/ VerifyBeforeImport(r)
          \/ importBackend(r)
          \/ recordAcquired(r)
          \/ teardownMarkedVolume(r)
          \/ releaseBackendVolume(r)
          \/ deleteReservation(r)
          \/ deleteVolumeState(r)
          \/ icAbandon(r)
    \/ \E q \in sent : AgentImport(q)
    \/ \E c \in Claims : DeleteClaim(c)
    \/ \E c, d \in Claims : Reannotate(c, d)
    \/ \E k \in Keys : OperatorReleases(k)
    \/ \E a, b \in Locators : Move(a, b)

TypeOKIC ==
    /\ wish \in [Claims -> Wishes]
    /\ claimed \subseteq Claims
    /\ \A c \in Claims : pvs[c].uid \in 0..serial
    /\ \A k \in Keys : rsv[k].id \in 0..serial
    /\ place \in [Locators -> Resources \cup {NoResource}]
    /\ owners \in [Resources -> SUBSET (1..serial)]

\* Two claims never manage one zvol, LV or filesystem: at no time does the
\* agent hold a resource for two lifecycles, however their creations,
\* deletions, delayed requests, renames of the LV and an operator's removal
\* of a reservation interleave (refuseImportConflict: "Two lifecycles must
\* never manage one backend device").
OneLifecyclePerSource == \A o \in Resources : Cardinality(owners[o]) <= 1

=============================================================================
