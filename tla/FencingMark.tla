---------------------------- MODULE FencingMark ----------------------------
(***************************************************************************)
(* The durable fencing mark the agent keeps per volume ID, and the rules   *)
(* by which it admits a request's token (internal/agent/fencing.go).       *)
(*                                                                         *)
(* A token is the pair (UID of the PillarVolumeState, publication          *)
(* generation).  A mark names the lifecycle (UID) that owns the volume ID, *)
(* the highest generation admitted for it, whether its backend resource    *)
(* was deleted, every lifecycle that may never act again, and the LV an    *)
(* import pinned.  An absent mark is the zero mark, as readFencingMark     *)
(* returns it.                                                             *)
(***************************************************************************)
EXTENDS Naturals

CONSTANTS
    UIDs,      \* lifecycle identities: UIDs of PillarVolumeState objects
    NoUID,     \* the empty UID: a request without a token, or no mark
    Gens,      \* publication generations a token may carry
    Sources,   \* identities of LVs (vg_uuid, lv_uuid) a locator may name
    NoSource   \* nil *markLVMSource: nothing pinned; or: no such LV

ASSUME GensAssumption == Gens \subseteq Nat /\ 0 \in Gens
ASSUME NoUIDAssumption == NoUID \notin UIDs
ASSUME NoSourceAssumption == NoSource \notin Sources

Token == [uid : UIDs \cup {NoUID}, gen : Gens]

NoToken == [uid |-> NoUID, gen |-> 0]

\* grant: creates or extends; revoke: only removes access; destroy: deletes.
fenceOp == {"grant", "revoke", "destroy"}

fencingMark == [uid : UIDs \cup {NoUID}, gen : Gens, ended : BOOLEAN,
                endedUIDs : SUBSET UIDs, pin : Sources \cup {NoSource},
                preserve : BOOLEAN]

ZeroMark == [uid |-> NoUID, gen |-> 0, ended |-> FALSE, endedUIDs |-> {},
             pin |-> NoSource, preserve |-> FALSE]

Exists(m) == m.uid # NoUID

----------------------------------------------------------------------------
(* admitFencingToken: the admitting cases of its switch, each with the     *)
(* negation of the rejecting cases that precede it.                        *)

\* No mark yet, or a mark whose lifecycle ended and a UID never retired.
AdmitNewLifecycle(tok, m) ==
    \/ ~Exists(m)
    \/ tok.uid \notin m.endedUIDs /\ tok.uid # m.uid /\ m.ended

Owns(tok, m) == Exists(m) /\ tok.uid = m.uid /\ tok.uid \notin m.endedUIDs

\* Only a retry of the operation that ended the lifecycle.
AdmitTerminalRetry(tok, op, m) ==
    Owns(tok, m) /\ m.ended /\ op # "grant" /\ tok.gen = m.gen

AdmitCurrent(tok, m) == Owns(tok, m) /\ ~m.ended /\ tok.gen >= m.gen

AdmitsMissingToken(tok, op, m) ==
    \/ AdmitNewLifecycle(tok, m)
    \/ AdmitTerminalRetry(tok, op, m)
    \/ AdmitCurrent(tok, m)

AdmitsNoTerminalRetry(tok, op, m) ==
    /\ tok.uid # NoUID
    /\ AdmitNewLifecycle(tok, m) \/ AdmitCurrent(tok, m)

AdmitsIgnoringGeneration(tok, op, m) ==
    /\ tok.uid # NoUID
    /\ \/ AdmitNewLifecycle(tok, m)
       \/ Owns(tok, m) /\ (m.ended => op # "grant")

AdmitsRetired(tok, op, m) ==
    /\ tok.uid # NoUID
    /\ \/ ~Exists(m)
       \/ tok.uid # m.uid /\ m.ended
       \/ AdmitTerminalRetry(tok, op, m)
       \/ AdmitCurrent(tok, m)

AdmitsGrantAfterEnd(tok, op, m) ==
    /\ tok.uid # NoUID
    /\ \/ AdmitNewLifecycle(tok, m)
       \/ Owns(tok, m) /\ tok.gen >= m.gen

Admits(tok, op, m) ==
    /\ tok.uid # NoUID
    /\ \/ AdmitNewLifecycle(tok, m)
       \/ AdmitTerminalRetry(tok, op, m)
       \/ AdmitCurrent(tok, m)

AdmittedMarkDropsPin(tok, m) ==
    IF Exists(m) /\ tok.uid = m.uid
    THEN [m EXCEPT !.gen = tok.gen]
    ELSE [uid |-> tok.uid, gen |-> tok.gen, ended |-> FALSE,
          endedUIDs |-> IF Exists(m) THEN m.endedUIDs \cup {m.uid} ELSE {},
          pin |-> NoSource, preserve |-> FALSE]

AdmittedMarkForgetsPredecessor(tok, m) ==
    IF Exists(m) /\ tok.uid = m.uid
    THEN [m EXCEPT !.gen = tok.gen]
    ELSE [uid |-> tok.uid, gen |-> tok.gen, ended |-> FALSE,
          endedUIDs |-> m.endedUIDs, pin |-> m.pin, preserve |-> m.preserve]

\* The mark that must be durable before an admitted request mutates
\* anything (fenceAdmission.next).  A new lifecycle retires its predecessor
\* and inherits the pinned source and policy.
AdmittedMark(tok, m) ==
    IF Exists(m) /\ tok.uid = m.uid
    THEN [m EXCEPT !.gen = tok.gen]
    ELSE [uid |-> tok.uid, gen |-> tok.gen, ended |-> FALSE,
          endedUIDs |-> IF Exists(m) THEN m.endedUIDs \cup {m.uid} ELSE {},
          pin |-> m.pin, preserve |-> m.preserve]

EndedMark(m) == [m EXCEPT !.ended = TRUE]

----------------------------------------------------------------------------
(* pinImportSource *)

ImportPinAllowed(m, src, preserve) ==
    m.pin = NoSource \/ (m.pin = src /\ (m.preserve => preserve))

PinnedMark(next, m, src, preserve) ==
    [next EXCEPT !.pin = IF m.pin = NoSource THEN src ELSE m.pin,
                 !.preserve = m.preserve \/ (src # NoSource /\ preserve)]

----------------------------------------------------------------------------
(* retireFence: what it writes, by who owns the mark.                      *)

AlreadyRetired(tok, m) == Exists(m) /\ tok.uid \in m.endedUIDs

RetireDisownedIgnoresUnknown(tok, m) ==
    IF ~Exists(m) THEN m ELSE [m EXCEPT !.endedUIDs = @ \cup {tok.uid}]

RetireDisowned(tok, m) ==
    IF ~Exists(m)
    THEN [ZeroMark EXCEPT !.uid = tok.uid, !.gen = tok.gen, !.ended = TRUE,
                          !.endedUIDs = {tok.uid}]
    ELSE [m EXCEPT !.endedUIDs = @ \cup {tok.uid}]

RetireOwned(tok, m) ==
    [AdmittedMark(tok, m) EXCEPT !.ended = TRUE,
                                 !.endedUIDs = @ \cup {tok.uid}]

----------------------------------------------------------------------------
\* newer supersedes (or equals) older: nothing the older mark refuses
\* becomes possible again under the newer one.
MarkAtLeast(newer, older) ==
    /\ Exists(older) => Exists(newer)
    /\ older.endedUIDs \subseteq newer.endedUIDs
    /\ older.pin # NoSource => newer.pin = older.pin
    /\ older.preserve => newer.preserve
    /\ IF newer.uid = older.uid
       THEN newer.gen >= older.gen /\ (older.ended => newer.ended)
       ELSE Exists(older) => older.uid \in newer.endedUIDs
=============================================================================
