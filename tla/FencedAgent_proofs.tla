------------------------- MODULE FencedAgent_proofs -------------------------
(***************************************************************************)
(* Proofs about FencedAgent, for any number of lifecycles, generations,    *)
(* LVs and waiting requests.                                               *)
(*                                                                         *)
(* The properties are not inductive by themselves: that a request is fresh *)
(* when it mutates follows from the mark it was admitted against, and that *)
(* mark must still be right after a power loss replaced it by any mark     *)
(* that was renamed but not synced.  The invariant below therefore speaks  *)
(* of every mark in disk, and orders them below the visible one.           *)
(***************************************************************************)
EXTENDS FencedAgent, TLAPS

\* What every stored mark looks like: an absent mark is all zero, and a
\* retired owner is an ended one.
MarkShape(m) ==
    /\ m.uid = NoUID => m = ZeroMark
    /\ m.uid \in m.endedUIDs => m.ended

\* m refuses everything older than tok.
CoversToken(m, tok) ==
    (m.uid = tok.uid /\ m.gen >= tok.gen) \/ tok.uid \in m.endedUIDs

\* All that the mark m must remember of the past.
Remembers(m) ==
    /\ dead \subseteq m.endedUIDs
    /\ last.uid # NoUID => CoversToken(m, last)
    /\ \A u \in deleted : EndedIn(m, u)
    /\ \A a \in adopted : m.pin = a.src /\ (a.preserve => m.preserve)
    /\ \A p \in pend : p.step = "link" => CoversToken(m, p.tok)

DiskInv ==
    /\ mark \in disk
    /\ \A d \in disk : MarkShape(d) /\ MarkAtLeast(mark, d) /\ Remembers(d)

\* A request inside the fencing lock holds the token of every mark that may
\* survive, and passed the checks of its class.
LockInv ==
    lock.pc # "idle" =>
        /\ lock.tok.uid \in UIDs
        /\ lock.tok.uid \notin mark.endedUIDs
        /\ \A d \in disk : d.uid = lock.tok.uid /\ d.gen = lock.tok.gen
        /\ lock.rpc # "link" => disk = {mark}
        /\ Class(lock.rpc) = "grant" => ~mark.ended
        /\ lock.rpc = "delete" /\ lock.pc = "mutate" =>
              mark.pin = NoSource \/ (mark.pin = lv /\ ~mark.preserve)
        /\ lock.pc = "end" => lock.rpc = "delete"

PendInv == \A p \in pend : p.tok.uid \in UIDs

IInv == TypeOK /\ DiskInv /\ LockInv /\ PendInv

----------------------------------------------------------------------------
(* Every mark the agent writes advances the one it read. *)

Advances(n, m) ==
    /\ n \in fencingMark
    /\ MarkShape(n)
    /\ MarkAtLeast(n, m)
    /\ n.uid = m.uid \/ n.uid \notin m.endedUIDs

\* The mark admitFencingToken wants durable advances the stored one.
LEMMA AdmittedMarkAdvances ==
    ASSUME NEW m \in fencingMark, MarkShape(m),
           NEW tok \in Token, NEW op, Admits(tok, op, m)
    PROVE  /\ Advances(AdmittedMark(tok, m), m)
           /\ AdmittedMark(tok, m).uid = tok.uid
           /\ AdmittedMark(tok, m).gen = tok.gen
           /\ tok.uid \in UIDs
           /\ tok.uid \notin AdmittedMark(tok, m).endedUIDs
           /\ AdmittedMark(tok, m).pin = m.pin
           /\ AdmittedMark(tok, m).preserve = m.preserve
  <1>1. tok.uid \in UIDs /\ tok.gen \in Gens /\ tok.gen \in Nat
    BY Zenon, GensAssumption DEF Token, Admits
  <1>2. CASE Exists(m) /\ tok.uid = m.uid
    <2>1. AdmittedMark(tok, m) = [m EXCEPT !.gen = tok.gen]
      BY Zenon, <1>2 DEF AdmittedMark
    <2>2. tok.uid \notin m.endedUIDs /\ tok.gen >= m.gen
      BY <1>1, <1>2, GensAssumption
      DEF Admits, AdmitNewLifecycle, AdmitTerminalRetry, AdmitCurrent, Owns, fencingMark
    <2> QED
      BY Zenon, <1>1, <1>2, <2>1, <2>2, NoUIDAssumption
      DEF Advances, MarkShape, MarkAtLeast, Exists, fencingMark
  <1>3. CASE ~(Exists(m) /\ tok.uid = m.uid)
    <2>1. ~Exists(m) \/ (tok.uid \notin m.endedUIDs /\ tok.uid # m.uid /\ m.ended)
      BY Zenon, <1>3 DEF Admits, AdmitNewLifecycle, AdmitTerminalRetry, AdmitCurrent, Owns
    <2>2. AdmittedMark(tok, m) =
            [uid |-> tok.uid, gen |-> tok.gen, ended |-> FALSE,
             endedUIDs |-> IF Exists(m) THEN m.endedUIDs \cup {m.uid} ELSE {},
             pin |-> m.pin, preserve |-> m.preserve]
      BY Zenon, <1>3 DEF AdmittedMark
    <2>3. CASE ~Exists(m)
      BY <1>1, <2>2, <2>3, NoUIDAssumption
      DEF Advances, MarkShape, MarkAtLeast, Exists, fencingMark, ZeroMark
    <2>4. CASE Exists(m)
      BY <1>1, <1>3, <2>1, <2>2, <2>4, NoUIDAssumption
      DEF Advances, MarkShape, MarkAtLeast, Exists, fencingMark
    <2> QED BY Zenon, <2>3, <2>4
  <1> QED BY Zenon, <1>2, <1>3

\* So does the mark that records the deletion.
LEMMA EndedMarkAdvances ==
    ASSUME NEW m \in fencingMark, MarkShape(m), Exists(m)
    PROVE  Advances(EndedMark(m), m)
  <1> DEFINE n == EndedMark(m)
  <1>1. /\ n.uid = m.uid /\ n.gen = m.gen /\ n.ended = TRUE
        /\ n.endedUIDs = m.endedUIDs /\ n.pin = m.pin /\ n.preserve = m.preserve
        /\ n \in fencingMark
    BY Zenon DEF EndedMark, fencingMark
  <1>2. m.gen \in Nat
    BY Zenon, GensAssumption DEF fencingMark
  <1> HIDE DEF n
  <1>3. MarkShape(n) /\ MarkAtLeast(n, m)
    BY <1>1, <1>2 DEF MarkShape, MarkAtLeast, Exists
  <1> QED BY Zenon, <1>1, <1>3 DEF Advances, n

\* So does the mark of an import: the pin is kept or recorded, the policy
\* only upgraded.
LEMMA PinnedMarkAdvances ==
    ASSUME NEW m \in fencingMark, MarkShape(m),
           NEW tok \in Token, Admits(tok, "grant", m),
           NEW src \in Sources \cup {NoSource}, NEW preserve \in BOOLEAN,
           ImportPinAllowed(m, src, preserve)
    PROVE  LET n == PinnedMark(AdmittedMark(tok, m), m, src, preserve)
           IN  /\ Advances(n, m)
               /\ src # NoSource => n.pin = src /\ (preserve => n.preserve)
  <1> DEFINE a == AdmittedMark(tok, m)
             n == PinnedMark(a, m, src, preserve)
  <1>1. Advances(a, m) /\ a.uid = tok.uid /\ tok.uid \in UIDs
        /\ a.pin = m.pin /\ a.preserve = m.preserve
    BY Zenon, AdmittedMarkAdvances
  <1>2. n = [a EXCEPT !.pin = IF m.pin = NoSource THEN src ELSE m.pin,
                      !.preserve = m.preserve \/ (src # NoSource /\ preserve)]
    BY Zenon DEF PinnedMark
  <1> HIDE DEF a, n
  <1>3. a \in fencingMark
    BY Zenon, <1>1 DEF Advances
  <1>4. /\ n.uid = a.uid /\ n.gen = a.gen /\ n.ended = a.ended
        /\ n.endedUIDs = a.endedUIDs
        /\ n.pin = (IF m.pin = NoSource THEN src ELSE m.pin)
        /\ n.preserve = (m.preserve \/ (src # NoSource /\ preserve))
        /\ n \in fencingMark
    BY Zenon, <1>2, <1>3 DEF fencingMark
  <1>5. MarkShape(n)
    BY Zenon, <1>1, <1>4, NoUIDAssumption DEF MarkShape, Advances
  <1>6. MarkAtLeast(n, m)
    BY Zenon, <1>1, <1>4 DEF MarkAtLeast, Advances, Exists
  <1>7. src # NoSource => n.pin = src /\ (preserve => n.preserve)
    BY Zenon, <1>4 DEF ImportPinAllowed
  <1> QED
    BY Zenon, <1>1, <1>4, <1>5, <1>6, <1>7 DEF Advances, a, n

\* So do both marks retireFence writes.
LEMMA RetireDisownedAdvances ==
    ASSUME NEW m \in fencingMark, MarkShape(m),
           NEW tok \in Token, tok.uid # NoUID, tok.uid # m.uid
    PROVE  Advances(RetireDisowned(tok, m), m)
  <1>1. CASE ~Exists(m)
    <2> DEFINE n == RetireDisowned(tok, m)
    <2>1. n = [uid |-> tok.uid, gen |-> tok.gen, ended |-> TRUE,
               endedUIDs |-> {tok.uid}, pin |-> NoSource, preserve |-> FALSE]
      BY Zenon, <1>1 DEF RetireDisowned, ZeroMark
    <2>2. n \in fencingMark
      BY <2>1 DEF Token, fencingMark
    <2>3. /\ m.uid = NoUID /\ m.endedUIDs = {} /\ m.pin = NoSource
          /\ m.preserve = FALSE
      BY <1>1 DEF Exists, MarkShape, ZeroMark
    <2>4. n.uid = tok.uid /\ n.ended = TRUE
      BY <2>1
    <2> HIDE DEF n
    <2>5. MarkShape(n) /\ MarkAtLeast(n, m) /\ n.uid \notin m.endedUIDs
      BY Zenon, <2>3, <2>4 DEF MarkShape, MarkAtLeast, Exists
    <2> QED BY Zenon, <2>2, <2>5 DEF Advances, n
  <1>2. CASE Exists(m)
    <2> DEFINE n == RetireDisowned(tok, m)
    <2>1. /\ n.uid = m.uid /\ n.gen = m.gen /\ n.ended = m.ended
          /\ n.endedUIDs = m.endedUIDs \cup {tok.uid}
          /\ n.pin = m.pin /\ n.preserve = m.preserve
          /\ n \in fencingMark
      BY Zenon, <1>2 DEF Token, RetireDisowned, fencingMark
    <2>2. m.gen \in Nat
      BY Zenon, GensAssumption DEF fencingMark
    <2> HIDE DEF n
    <2>3. MarkShape(n) /\ MarkAtLeast(n, m)
      BY <1>2, <2>1, <2>2 DEF MarkShape, MarkAtLeast, Exists
    <2> QED BY Zenon, <2>1, <2>3 DEF Advances, n
  <1> QED BY Zenon, <1>1, <1>2

\* The mark that retires the owner (retireFence after the unexport) advances.
LEMMA RetireOwnedAdvances ==
    ASSUME NEW m \in fencingMark, MarkShape(m),
           NEW tok \in Token, Owns(tok, m), Admits(tok, "revoke", m)
    PROVE  Advances(RetireOwned(tok, m), m)
  <1> DEFINE a == AdmittedMark(tok, m)
             n == RetireOwned(tok, m)
  <1>1. Advances(a, m) /\ a.uid = tok.uid /\ tok.uid \in UIDs
    BY Zenon, AdmittedMarkAdvances
  <1>2. n = [a EXCEPT !.ended = TRUE, !.endedUIDs = @ \cup {tok.uid}]
    BY Zenon DEF RetireOwned
  <1>3. tok.uid = m.uid
    BY Zenon DEF Owns
  <1> HIDE DEF a, n
  <1>4. /\ n.uid = a.uid /\ n.gen = a.gen /\ n.ended = TRUE
        /\ n.endedUIDs = a.endedUIDs \cup {tok.uid}
        /\ n.pin = a.pin /\ n.preserve = a.preserve
        /\ n \in fencingMark
    BY Zenon, <1>1, <1>2 DEF Advances, fencingMark
  <1>5. MarkShape(n)
    BY Zenon, <1>1, <1>4, NoUIDAssumption DEF MarkShape
  <1>6. MarkAtLeast(n, m)
    BY Zenon, <1>1, <1>3, <1>4 DEF MarkAtLeast, Advances, Exists
  <1> QED
    BY Zenon, <1>1, <1>3, <1>4, <1>5, <1>6 DEF Advances, n

----------------------------------------------------------------------------
(* Marks are ordered, and a newer mark remembers what an older one does. *)

\* Every mark is at least as new as itself.
LEMMA MarkAtLeastReflexive ==
    ASSUME NEW m \in fencingMark
    PROVE  MarkAtLeast(m, m)
  <1>1. m.gen \in Nat
    BY Zenon, GensAssumption DEF fencingMark
  <1> QED BY <1>1 DEF MarkAtLeast

\* The order of marks is transitive.
LEMMA MarkAtLeastTransitive ==
    ASSUME NEW l \in fencingMark, NEW m \in fencingMark, NEW n \in fencingMark,
           MarkAtLeast(m, l), MarkAtLeast(n, m),
           n.uid = m.uid \/ n.uid \notin m.endedUIDs
    PROVE  MarkAtLeast(n, l)
  <1>1. l.gen \in Nat /\ m.gen \in Nat /\ n.gen \in Nat
    BY Zenon, GensAssumption DEF fencingMark
  <1> QED BY <1>1 DEF MarkAtLeast, Exists

\* A token an older mark covers is covered by every newer one: a request
\* that is superseded or retired stays so.
LEMMA CoversTokenMonotone ==
    ASSUME NEW m \in fencingMark, NEW n \in fencingMark, MarkAtLeast(n, m),
           NEW tok \in Token, tok.uid # NoUID, CoversToken(m, tok)
    PROVE  CoversToken(n, tok)
  <1>1. m.gen \in Nat /\ n.gen \in Nat /\ tok.gen \in Nat
    BY Zenon, GensAssumption DEF fencingMark, Token
  <1> QED BY <1>1 DEF MarkAtLeast, CoversToken, Exists

\* A lifecycle ended under an older mark is ended under every newer one.
LEMMA EndedInMonotone ==
    ASSUME NEW m \in fencingMark, NEW n \in fencingMark, MarkAtLeast(n, m),
           NEW u \in UIDs, EndedIn(m, u)
    PROVE  EndedIn(n, u)
  BY Zenon, NoUIDAssumption DEF MarkAtLeast, EndedIn, Exists

\* A durable or merely renamed write of an advancing mark keeps the disk
\* invariant: the new mark and all that may survive remember the past.
LEMMA AdvanceDisk ==
    ASSUME TypeOK, DiskInv, PendInv, Advances(mark', mark),
           disk' = {mark'} \/ disk' = disk \cup {mark'},
           UNCHANGED <<last, dead, deleted, adopted>>, pend' \subseteq pend
    PROVE  DiskInv'
  <1>1. mark \in fencingMark /\ mark' \in fencingMark /\ MarkAtLeast(mark', mark)
        /\ MarkShape(mark')
    BY Zenon DEF TypeOK, Advances
  <1>2. Remembers(mark)
    BY Zenon DEF DiskInv
  <1>3. \A d \in disk : d \in fencingMark /\ MarkShape(d) /\ MarkAtLeast(mark, d) /\ Remembers(d)
    BY Zenon DEF DiskInv, TypeOK
  <1>4. \A d \in disk : MarkAtLeast(mark', d)
    BY Zenon, <1>1, <1>3, MarkAtLeastTransitive DEF Advances
  <1>5. ASSUME NEW d \in disk PROVE Remembers(d)'
    BY Zenon, <1>3 DEF Remembers
  <1>6. Remembers(mark)'
    <2>1. dead' \subseteq mark'.endedUIDs
      BY Zenon, <1>1, <1>2 DEF Remembers, MarkAtLeast
    <2>2. last'.uid # NoUID => CoversToken(mark', last')
      BY Zenon, <1>1, <1>2, CoversTokenMonotone DEF Remembers, TypeOK
    <2>3. \A u \in deleted' : EndedIn(mark', u)
      BY Zenon, <1>1, <1>2, EndedInMonotone DEF Remembers, TypeOK
    <2>4. \A a \in adopted' : mark'.pin = a.src /\ (a.preserve => mark'.preserve)
      <3> SUFFICES ASSUME NEW a \in adopted
                   PROVE  mark'.pin = a.src /\ (a.preserve => mark'.preserve)
        BY Zenon
      <3>1. mark.pin = a.src /\ (a.preserve => mark.preserve) /\ a.src \in Sources
        BY Zenon, <1>2 DEF Remembers, TypeOK
      <3> QED BY Zenon, <1>1, <3>1, NoSourceAssumption DEF MarkAtLeast
    <2>5. \A p \in pend' : p.step = "link" => CoversToken(mark', p.tok)
      <3> SUFFICES ASSUME NEW p \in pend, p.step = "link"
                   PROVE  CoversToken(mark', p.tok)
        BY Zenon
      <3>1. p.tok \in Token /\ p.tok.uid # NoUID /\ CoversToken(mark, p.tok)
        BY Zenon, <1>2, NoUIDAssumption DEF Remembers, TypeOK, PendInv
      <3> QED BY Zenon, <1>1, <3>1, CoversTokenMonotone
    <2> QED BY Zenon, <2>1, <2>2, <2>3, <2>4, <2>5 DEF Remembers
  <1>7. MarkAtLeast(mark', mark')
    BY Zenon, <1>1, MarkAtLeastReflexive
  <1> QED BY Zenon, <1>1, <1>3, <1>4, <1>5, <1>6, <1>7 DEF DiskInv

\* So does a step that writes no mark and forgets or finishes requests.
LEMMA SameDisk ==
    ASSUME DiskInv, UNCHANGED <<mark, disk, last, dead, deleted, adopted>>,
           pend' \subseteq pend
    PROVE  DiskInv'
  <1>1. ASSUME NEW d \in disk PROVE Remembers(d)'
    BY Zenon DEF DiskInv, Remembers
  <1> QED BY Zenon, <1>1 DEF DiskInv

\* A grant is admitted only where the lifecycle is open.
LEMMA GrantOnOpenMark ==
    ASSUME NEW m, NEW tok, Admits(tok, "grant", m)
    PROVE  ~AdmittedMark(tok, m).ended
  <1>1. CASE Exists(m) /\ tok.uid = m.uid
    <2>1. ~m.ended
      BY Zenon, <1>1 DEF Admits, AdmitNewLifecycle, AdmitTerminalRetry, AdmitCurrent, Owns
    <2>2. AdmittedMark(tok, m) = [m EXCEPT !.gen = tok.gen]
      BY Zenon, <1>1 DEF AdmittedMark
    <2> QED BY <2>1, <2>2
  <1>2. CASE ~(Exists(m) /\ tok.uid = m.uid)
    BY Zenon, <1>2 DEF AdmittedMark
  <1> QED BY Zenon, <1>1, <1>2

----------------------------------------------------------------------------
(* The critical sections preserve the invariant. *)

\* Writing the stored mark again (persistFencingMark with nothing changed)
\* advances it trivially.
LEMMA SelfAdvances ==
    ASSUME NEW m \in fencingMark, MarkShape(m)
    PROVE  Advances(m, m)
  BY Zenon, MarkAtLeastReflexive DEF Advances

\* fencedChecked up to its mutation: the token is admitted and durable.
LEMMA EnterInv ==
    ASSUME IInv, NEW rpc \in RPCs \ {"link", "none"}, NEW tok \in Token,
           Enter(rpc, tok), pend' \subseteq pend
    PROVE  IInv'
  <1> DEFINE n == AdmittedMark(tok, mark)
  <1>1. mark \in fencingMark /\ MarkShape(mark) /\ Admits(tok, Class(rpc), mark)
    BY Zenon DEF IInv, TypeOK, DiskInv, Enter, MayEnter
  <1>2. /\ Advances(n, mark)
        /\ n.uid = tok.uid /\ n.gen = tok.gen /\ tok.uid \in UIDs
        /\ tok.uid \notin n.endedUIDs /\ n.pin = mark.pin /\ n.preserve = mark.preserve
    BY Zenon, <1>1, AdmittedMarkAdvances
  <1>3. Class(rpc) = "grant" => ~n.ended
    BY Zenon, <1>1, GrantOnOpenMark
  <1>4. rpc = "delete" => mark.pin = NoSource \/ (mark.pin = lv /\ ~mark.preserve)
    BY Zenon DEF Enter, MayEnter, Preconditions, PinnedTerminalDelete, Class, GrantRPCs,
           RevokeRPCs, checkFencePreconditions, verifyPinnedSource
  <1>5. mark' = n /\ disk' = {n}
    BY Zenon DEF Enter, persistFencingMark, Resynced, Durable
  <1> HIDE DEF n
  <1>6. /\ lock' = [pc |-> "mutate", rpc |-> rpc, tok |-> tok]
        /\ UNCHANGED <<lv, last, dead, deleted, released, adopted>>
    BY Zenon DEF Enter, history
  <1>7. TypeOK'
    BY Zenon, <1>2, <1>5, <1>6 DEF IInv, TypeOK, Advances
  <1>8. DiskInv'
    BY Zenon, <1>2, <1>5, <1>6, AdvanceDisk DEF IInv
  <1>9. LockInv'
    BY Zenon, <1>2, <1>3, <1>4, <1>5, <1>6 DEF LockInv
  <1>10. PendInv'
    BY Zenon DEF IInv, PendInv
  <1> QED BY Zenon, <1>7, <1>8, <1>9, <1>10 DEF IInv

\* Any write of an advancing mark by a request that leaves the lock free.
LEMMA WriteInv ==
    ASSUME IInv, NEW n, Advances(n, mark), mark' = n,
           disk' = {n} \/ disk' = disk \cup {n},
           lock' = NoLock \/ (Idle /\ lock' = lock), pend' \subseteq pend,
           UNCHANGED <<lv, last, dead, deleted, adopted>>, released' \subseteq UIDs
    PROVE  IInv'
  <1>1. n \in fencingMark
    BY Zenon DEF Advances
  <1>2. lock'.pc = "idle" /\ lock' \in [pc : {"idle", "mutate", "end"}, rpc : RPCs, tok : Token]
    BY GensAssumption DEF IInv, TypeOK, NoLock, Idle, RPCs, Token, NoToken
  <1>3. TypeOK'
    BY Zenon, <1>1, <1>2 DEF IInv, TypeOK
  <1>4. DiskInv'
    BY Zenon, AdvanceDisk DEF IInv
  <1>5. LockInv' /\ PendInv'
    BY Zenon, <1>2 DEF IInv, PendInv, LockInv
  <1> QED BY Zenon, <1>3, <1>4, <1>5 DEF IInv

\* A renamed mark whose durability is unknown.
LEMMA EnterFailsInv ==
    ASSUME IInv, NEW rpc, NEW tok \in Token, EnterFails(rpc, tok), pend' \subseteq pend
    PROVE  IInv'
  <1>1. mark \in fencingMark /\ MarkShape(mark) /\ Admits(tok, Class(rpc), mark)
    BY Zenon DEF IInv, TypeOK, DiskInv, EnterFails, MayEnter
  <1>2. Advances(AdmittedMark(tok, mark), mark)
    BY Zenon, <1>1, AdmittedMarkAdvances
  <1>3. /\ mark' = AdmittedMark(tok, mark) /\ disk' = disk \cup {AdmittedMark(tok, mark)}
        /\ Idle /\ lock' = lock
        /\ UNCHANGED <<lv, last, dead, deleted, adopted>> /\ released' \subseteq UIDs
    BY Zenon DEF EnterFails, MayEnter, Renamed, history, IInv, TypeOK
  <1> QED BY Zenon, <1>2, <1>3, WriteInv

\* The retirement branches shared by both passes of ReleaseVolume.
LEMMA RetireUnownedInv ==
    ASSUME IInv, NEW tok \in Token, tok.uid \in UIDs, Idle, RetireUnowned(tok),
           pend' \subseteq pend, UNCHANGED <<lock, lv, last, dead, deleted, adopted>>
    PROVE  IInv'
  <1>1. mark \in fencingMark /\ MarkShape(mark) /\ released \subseteq UIDs
    BY Zenon DEF IInv, TypeOK, DiskInv
  <1>2. CASE UNCHANGED <<mark, disk>> /\ released' = released \cup {tok.uid}
    <2>1. DiskInv'
      BY Zenon, <1>2, SameDisk DEF IInv
    <2>2. TypeOK' /\ LockInv' /\ PendInv'
      BY Zenon, <1>2 DEF IInv, TypeOK, LockInv, PendInv
    <2> QED BY Zenon, <2>1, <2>2 DEF IInv
  <1>3. CASE /\ tok.uid # mark.uid
             /\ Durable(RetireDisowned(tok, mark)) \/ Renamed(RetireDisowned(tok, mark))
             /\ released' \in {released, released \cup {tok.uid}}
    <2>1. Advances(RetireDisowned(tok, mark), mark)
      BY Zenon, <1>1, <1>3, RetireDisownedAdvances, NoUIDAssumption
    <2>2. mark' = RetireDisowned(tok, mark)
          /\ (disk' = {RetireDisowned(tok, mark)}
              \/ disk' = disk \cup {RetireDisowned(tok, mark)})
      BY Zenon, <1>3 DEF Durable, Renamed
    <2>3. released' \subseteq UIDs
      BY Zenon, <1>1, <1>3
    <2> QED BY Zenon, <2>1, <2>2, <2>3, WriteInv
  <1> QED BY Zenon, <1>2, <1>3 DEF RetireUnowned

\* The mutation, successful or not, of the request inside the lock.
LEMMA MutateInv ==
    ASSUME IInv, Mutate \/ MutateFails
    PROVE  IInv'
  <1> USE DEF IInv
  <1>1. /\ lock.pc = "mutate" /\ lock.tok.uid \in UIDs /\ lock.tok.uid # NoUID
        /\ lock.tok \in Token /\ lock.tok.uid \notin mark.endedUIDs
        /\ \A d \in disk : d.uid = lock.tok.uid /\ d.gen = lock.tok.gen
        /\ lock.rpc # "link" => disk = {mark}
    BY Zenon, NoUIDAssumption DEF Mutate, MutateFails, LockInv, TypeOK
  <1>2. lock.tok.gen \in Nat /\ last.gen \in Nat
    BY Zenon, <1>1, GensAssumption DEF TypeOK, Token
  <1>3. mark' = mark /\ disk' = disk /\ UNCHANGED <<released, adopted>> /\ last' = lock.tok
        /\ dead' = (IF last.uid \in {NoUID, lock.tok.uid} THEN dead ELSE dead \cup {last.uid})
    BY Zenon DEF Mutate, MutateFails, Executed
  <1>4. deleted' = deleted \/ (/\ deleted' = deleted \cup {lock.tok.uid}
                               /\ lock.rpc = "delete" /\ mark.ended)
    BY Zenon DEF Mutate, MutateFails
  <1>5. pend' \subseteq pend \cup {[step |-> "link", tok |-> lock.tok],
                                  [step |-> "retire", tok |-> lock.tok]}
    BY Zenon DEF Mutate, MutateFails, NextPhase
  <1>6. /\ lock' \in {NoLock, [lock EXCEPT !.pc = "end"]}
        /\ lock'.pc # "idle" => lock' = [lock EXCEPT !.pc = "end"] /\ lock.rpc = "delete"
    BY DEF Mutate, MutateFails, NoLock
  <1>7. lv' \in Sources \cup {NoSource}
    BY Zenon DEF Mutate, MutateFails, ResourceAfter, TypeOK
  <1>8. TypeOK'
    <2>1. NoLock \in [pc : {"idle", "mutate", "end"}, rpc : RPCs, tok : Token]
      BY Zenon, GensAssumption DEF NoLock, NoToken, Token, RPCs
    <2>2. dead' \subseteq UIDs /\ deleted' \subseteq UIDs
      BY Zenon, <1>1, <1>3, <1>4 DEF TypeOK, Token
    <2>3. pend' \subseteq [step : {"link", "unexport", "retire"}, tok : Token]
      BY <1>1, <1>5 DEF TypeOK
    <2>4. lock' \in [pc : {"idle", "mutate", "end"}, rpc : RPCs, tok : Token]
      BY Zenon, <1>6, <2>1 DEF TypeOK
    <2> QED BY Zenon, <1>1, <1>3, <1>7, <2>2, <2>3, <2>4 DEF TypeOK
  <1>9. ASSUME NEW d \in disk PROVE Remembers(d)'
    <2>1. Remembers(d) /\ d.uid = lock.tok.uid /\ d.gen = lock.tok.gen
      BY Zenon, <1>1 DEF DiskInv
    <2>2. dead' \subseteq d.endedUIDs
      BY Zenon, <1>3, <2>1 DEF Remembers, CoversToken
    <2>3. CoversToken(d, lock.tok)
      BY <1>2, <2>1 DEF CoversToken
    <2>4. \A u \in deleted' : EndedIn(d, u)
      BY Zenon, <1>1, <1>4, <2>1 DEF Remembers, EndedIn
    <2>5. \A p \in pend' : p.step = "link" => CoversToken(d, p.tok)
      BY <1>5, <2>1, <2>3 DEF Remembers
    <2> QED BY Zenon, <1>3, <2>1, <2>2, <2>3, <2>4, <2>5 DEF Remembers
  <1>10. DiskInv'
    BY Zenon, <1>3, <1>9 DEF DiskInv
  <1>11. LockInv'
    <2> SUFFICES ASSUME lock'.pc # "idle" PROVE LockInv'
      BY Zenon DEF LockInv
    <2>1. lock' = [lock EXCEPT !.pc = "end"] /\ lock.rpc = "delete"
      BY Zenon, <1>6
    <2>2. lock'.pc = "end" /\ lock'.rpc = "delete" /\ lock'.tok = lock.tok
      BY Zenon, <2>1 DEF TypeOK
    <2>3. Class("delete") # "grant"
      BY Zenon DEF Class, GrantRPCs, RevokeRPCs
    <2>4. disk' = {mark'}
      BY Zenon, <1>1, <1>3, <2>1
    <2> QED BY Zenon, <1>1, <1>3, <2>2, <2>3, <2>4 DEF LockInv
  <1>12. PendInv'
    BY <1>1, <1>5 DEF PendInv
  <1> QED BY Zenon, <1>8, <1>10, <1>11, <1>12

\* recheckFence: a prepared export is linked only under the token that every
\* mark which may survive already carries.
LEMMA RecheckLinkInv ==
    ASSUME IInv, NEW p \in pend, RecheckLink(p)
    PROVE  IInv'
  <1>1. /\ p.step = "link" /\ p.tok \in Token /\ p.tok.uid \in UIDs
        /\ Admits(p.tok, "grant", mark) /\ AdmittedMark(p.tok, mark) = mark
        /\ mark \in fencingMark /\ MarkShape(mark)
    BY Zenon DEF IInv, TypeOK, PendInv, DiskInv, RecheckLink
  <1>2. mark.uid = p.tok.uid /\ mark.gen = p.tok.gen /\ p.tok.uid \notin mark.endedUIDs
    BY Zenon, <1>1, AdmittedMarkAdvances
  <1>3. ~mark.ended
    BY Zenon, <1>1, GrantOnOpenMark
  <1>4. ASSUME NEW d \in disk PROVE d.uid = p.tok.uid /\ d.gen = p.tok.gen
    <2>1. MarkAtLeast(mark, d) /\ CoversToken(d, p.tok) /\ d \in fencingMark
      BY Zenon, <1>1 DEF IInv, DiskInv, Remembers, TypeOK
    <2>2. d.gen \in Nat /\ mark.gen \in Nat
      BY Zenon, <1>1, <2>1, GensAssumption DEF fencingMark
    <2> QED BY <1>2, <2>1, <2>2 DEF MarkAtLeast, CoversToken
  <1>5. /\ lock' = [pc |-> "mutate", rpc |-> "link", tok |-> p.tok] /\ pend' \subseteq pend
        /\ UNCHANGED <<mark, disk, lv, last, dead, deleted, released, adopted>>
    BY Zenon DEF RecheckLink, history
  <1>6. DiskInv'
    BY Zenon, <1>5, SameDisk DEF IInv
  <1>7. TypeOK' /\ PendInv'
    BY Zenon, <1>1, <1>5 DEF IInv, TypeOK, PendInv, RPCs, GrantRPCs
  <1>8. LockInv'
    BY Zenon, <1>1, <1>2, <1>3, <1>4, <1>5 DEF LockInv, Class, GrantRPCs
  <1> QED BY Zenon, <1>6, <1>7, <1>8 DEF IInv

\* A node without a mark file satisfies the invariant.
LEMMA InitInv == Init => IInv
  <1> SUFFICES ASSUME Init PROVE IInv
    BY Zenon
  <1>1. ZeroMark \in fencingMark /\ MarkShape(ZeroMark)
    BY Zenon, GensAssumption DEF ZeroMark, fencingMark, MarkShape
  <1>2. TypeOK
    BY Zenon, <1>1, GensAssumption DEF Init, TypeOK, NoLock, NoToken, Token, RPCs
  <1>3. DiskInv
    BY Zenon, <1>1, MarkAtLeastReflexive DEF Init, DiskInv, Remembers, NoToken
  <1>4. LockInv /\ PendInv
    BY Zenon DEF Init, LockInv, PendInv, NoLock
  <1> QED BY Zenon, <1>2, <1>3, <1>4 DEF IInv

\* Every step of the agent and of its environment preserves the invariant.
LEMMA NextInv == IInv /\ [Next]_vars => IInv'
  <1> SUFFICES ASSUME IInv, [Next]_vars PROVE IInv'
    BY Zenon
  <1>t. /\ mark \in fencingMark /\ MarkShape(mark) /\ released \subseteq UIDs
        /\ NoLock \in [pc : {"idle", "mutate", "end"}, rpc : RPCs, tok : Token]
        /\ NoLock.pc = "idle"
    BY Zenon, GensAssumption DEF IInv, TypeOK, DiskInv, NoLock, NoToken, Token, RPCs
  <1>1. ASSUME NEW tok \in Token, NEW rpc \in OneSectionRPCs, Request(rpc, tok)
        PROVE  IInv'
    BY Zenon, <1>1, EnterInv DEF Request, OneSectionRPCs, RPCs, GrantRPCs, RevokeRPCs
  <1>2. ASSUME NEW tok \in Token, NEW rpc \in OneSectionRPCs, RequestFails(rpc, tok)
        PROVE  IInv'
    BY Zenon, <1>2, EnterFailsInv DEF RequestFails
  <1>3. ASSUME NEW tok \in Token, RetryPinnedDelete(tok)
        PROVE  IInv'
    <2>1. /\ tok.uid \in UIDs /\ mark.uid = tok.uid /\ mark.ended
      BY Zenon, <1>3 DEF RetryPinnedDelete, PinnedTerminalDelete, AdmitTerminalRetry, Owns, Exists, Token
    <2>2. /\ mark' = mark /\ disk' = {mark} /\ deleted' = deleted \cup {tok.uid} /\ Idle
          /\ UNCHANGED <<lock, pend, lv, last, dead, released, adopted>>
      BY Zenon, <1>3 DEF RetryPinnedDelete, Resynced
    <2>3. Remembers(mark)'
      BY Zenon, <2>1, <2>2 DEF IInv, DiskInv, Remembers, EndedIn
    <2>4. DiskInv'
      BY Zenon, <1>t, <2>2, <2>3, MarkAtLeastReflexive DEF DiskInv
    <2>5. TypeOK' /\ LockInv' /\ PendInv'
      BY Zenon, <2>1, <2>2 DEF IInv, TypeOK, LockInv, PendInv, Idle
    <2> QED BY Zenon, <2>4, <2>5 DEF IInv
  <1>4. ASSUME NEW tok \in Token, NEW src \in ImportSources, NEW preserve \in BOOLEAN,
               \/ ImportVolume(tok, src, preserve)
               \/ ImportVolumeFails(tok, src, preserve)
        PROVE  IInv'
    <2> DEFINE n == ImportedMark(tok, src, preserve)
    <2>1. src \in Sources \cup {NoSource}
      BY Zenon DEF ImportSources
    <2>2. Admits(tok, "grant", mark) /\ ImportPinAllowed(mark, src, preserve) /\ Idle
      BY Zenon, <1>4 DEF ImportVolume, ImportVolumeFails, MayImport
    <2>3. Advances(n, mark) /\ (src # NoSource => n.pin = src /\ (preserve => n.preserve))
      BY Zenon, <1>t, <2>1, <2>2, PinnedMarkAdvances DEF ImportedMark
    <2> HIDE DEF n
    <2>4. CASE ImportVolumeFails(tok, src, preserve)
      <3>1. /\ mark' = n /\ disk' = disk \cup {n} /\ lock' = lock /\ pend' \subseteq pend
            /\ UNCHANGED <<lv, last, dead, deleted, adopted>> /\ released' \subseteq UIDs
        BY Zenon, <1>t, <2>4 DEF ImportVolumeFails, Renamed, history, n
      <3> QED BY Zenon, <2>2, <2>3, <3>1, WriteInv
    <2>5. CASE ImportVolume(tok, src, preserve)
      <3>1. /\ mark' = n /\ disk' = {n}
            /\ adopted' = adopted \cup Adopted(src, preserve)
            /\ UNCHANGED <<lock, pend, lv, last, dead, deleted, released>>
        BY Zenon, <2>5 DEF ImportVolume, persistFencingMark, Resynced, Durable, n
      <3>2. n \in fencingMark /\ MarkShape(n) /\ MarkAtLeast(n, mark)
        BY Zenon, <2>3 DEF Advances
      <3>3. Remembers(mark)
        BY Zenon DEF IInv, DiskInv
      <3>4. dead \subseteq n.endedUIDs /\ (last.uid # NoUID => CoversToken(n, last))
        BY Zenon, <1>t, <3>2, <3>3, CoversTokenMonotone DEF Remembers, MarkAtLeast, IInv, TypeOK
      <3>5. \A u \in deleted : EndedIn(n, u)
        BY Zenon, <1>t, <3>2, <3>3, EndedInMonotone DEF Remembers, IInv, TypeOK
      <3>6. \A p \in pend : p.step = "link" => CoversToken(n, p.tok)
        <4> SUFFICES ASSUME NEW p \in pend, p.step = "link" PROVE CoversToken(n, p.tok)
          BY Zenon
        <4>1. p.tok \in Token /\ p.tok.uid # NoUID /\ CoversToken(mark, p.tok)
          BY Zenon, <3>3, NoUIDAssumption DEF Remembers, IInv, TypeOK, PendInv
        <4> QED BY Zenon, <1>t, <3>2, <4>1, CoversTokenMonotone
      <3>7. \A a \in adopted' : n.pin = a.src /\ (a.preserve => n.preserve)
        <4>1. ASSUME NEW a \in adopted PROVE n.pin = a.src /\ (a.preserve => n.preserve)
          <5>1. mark.pin = a.src /\ (a.preserve => mark.preserve) /\ a.src \in Sources
            BY Zenon, <3>3 DEF Remembers, IInv, TypeOK
          <5> QED BY Zenon, <3>2, <5>1, NoSourceAssumption DEF MarkAtLeast
        <4> QED BY <2>3, <3>1, <4>1 DEF Adopted
      <3>8. DiskInv'
        BY Zenon, <3>1, <3>2, <3>4, <3>5, <3>6, <3>7, MarkAtLeastReflexive DEF DiskInv, Remembers
      <3>9. adopted' \subseteq [src : Sources, preserve : BOOLEAN]
        BY <2>1, <3>1 DEF Adopted, IInv, TypeOK
      <3>10. TypeOK' /\ LockInv' /\ PendInv'
        BY Zenon, <2>2, <3>1, <3>2, <3>9 DEF IInv, TypeOK, LockInv, PendInv, Idle
      <3> QED BY Zenon, <3>8, <3>10 DEF IInv
    <2> QED BY Zenon, <1>4, <2>4, <2>5
  <1>5. ASSUME NEW tok \in Token, ReleaseVolume(tok)
        PROVE  IInv'
    <2>1. /\ Idle /\ tok.uid \in UIDs /\ RetireUnowned(tok) /\ pend' \subseteq pend
          /\ UNCHANGED <<lock, lv, last, dead, deleted, adopted>>
      BY Zenon, <1>5 DEF ReleaseVolume, Token
    <2> QED BY Zenon, <2>1, RetireUnownedInv
  <1>6. ASSUME NEW tok \in Token, ReleaseOwned(tok)
        PROVE  IInv'
    <2>1. /\ tok.uid \in UIDs /\ pend' = pend \cup {[step |-> "unexport", tok |-> tok]}
          /\ UNCHANGED <<mark, disk, lock, lv, last, dead, deleted, released, adopted>>
      BY Zenon, <1>6 DEF ReleaseOwned, history, Admits, Token
    <2>2. ASSUME NEW d \in disk PROVE Remembers(d)'
      BY SMTT(30), <2>1 DEF IInv, DiskInv, Remembers
    <2>3. DiskInv'
      BY Zenon, <2>1, <2>2 DEF IInv, DiskInv
    <2>4. TypeOK' /\ LockInv' /\ PendInv'
      BY SMTT(30), <2>1 DEF IInv, TypeOK, LockInv, PendInv
    <2> QED BY Zenon, <2>3, <2>4 DEF IInv
  <1>7. CASE Mutate \/ MutateFails
    BY Zenon, <1>7, MutateInv
  <1>8. CASE RecordEnded
    <2>1. lock.pc = "end" /\ lock.tok.uid \in UIDs /\ mark.uid = lock.tok.uid
      BY Zenon, <1>8 DEF RecordEnded, IInv, LockInv, DiskInv
    <2>2. Advances(EndedMark(mark), mark)
      BY Zenon, <1>t, <2>1, NoUIDAssumption, EndedMarkAdvances DEF Exists
    <2>3. /\ mark' = EndedMark(mark) /\ disk' = {EndedMark(mark)} /\ lock' = NoLock
          /\ deleted' = deleted \cup {lock.tok.uid}
          /\ UNCHANGED <<pend, lv, last, dead, released, adopted>>
      BY Zenon, <1>8 DEF RecordEnded, Durable
    <2>4. EndedIn(mark', lock.tok.uid) /\ mark' \in fencingMark
      BY Zenon, <1>t, <2>1, <2>2, <2>3 DEF EndedIn, EndedMark, fencingMark, Advances
    <2>5. MarkAtLeast(mark', mark) /\ MarkShape(mark') /\ MarkAtLeast(mark', mark')
      BY Zenon, <2>2, <2>3, <2>4, MarkAtLeastReflexive DEF Advances
    <2>6. Remembers(mark)
      BY Zenon DEF IInv, DiskInv
    <2>7. /\ mark'.uid = mark.uid /\ mark'.gen = mark.gen /\ mark'.pin = mark.pin
          /\ mark'.endedUIDs = mark.endedUIDs /\ mark'.preserve = mark.preserve
      BY Zenon, <1>t, <2>3 DEF EndedMark, fencingMark
    <2>8. \A u \in deleted' : EndedIn(mark', u)
      BY Zenon, <1>t, <2>3, <2>4, <2>5, <2>6, EndedInMonotone DEF Remembers, IInv, TypeOK
    <2>9. Remembers(mark)'
      BY Zenon, <2>3, <2>6, <2>7, <2>8 DEF Remembers, CoversToken
    <2>10. DiskInv'
      BY Zenon, <2>3, <2>5, <2>9 DEF DiskInv
    <2>11. TypeOK' /\ LockInv' /\ PendInv'
      BY Zenon, <1>t, <2>1, <2>3, <2>4 DEF IInv, TypeOK, LockInv, PendInv
    <2> QED BY Zenon, <2>10, <2>11 DEF IInv
  <1>9. CASE RecordEndedFails
    <2>1. mark.uid \in UIDs /\ lock' = NoLock /\ pend' \subseteq pend
          /\ UNCHANGED <<lv, last, dead, deleted, adopted>> /\ released' \subseteq UIDs
      BY Zenon, <1>t, <1>9 DEF RecordEndedFails, IInv, LockInv, DiskInv, history
    <2>2. CASE Renamed(EndedMark(mark))
      BY Zenon, <1>t, <2>1, <2>2, NoUIDAssumption, EndedMarkAdvances, WriteInv DEF Exists, Renamed
    <2>3. CASE UNCHANGED <<mark, disk>>
      <3>1. DiskInv'
        BY Zenon, <2>1, <2>3, SameDisk DEF IInv
      <3>2. TypeOK' /\ LockInv' /\ PendInv'
        BY Zenon, <1>t, <2>1, <2>3 DEF IInv, TypeOK, LockInv, PendInv
      <3> QED BY Zenon, <3>1, <3>2 DEF IInv
    <2> QED BY Zenon, <1>9, <2>2, <2>3 DEF RecordEndedFails
  <1>10. ASSUME NEW p \in pend, RecheckLink(p)
         PROVE  IInv'
    BY Zenon, <1>10, RecheckLinkInv
  <1>11. ASSUME NEW p \in pend, ReleaseUnexport(p)
         PROVE  IInv'
    <2>1. p.tok \in Token /\ pend' \subseteq pend
      BY Zenon, <1>11 DEF ReleaseUnexport, IInv, TypeOK
    <2> QED
      BY Zenon, <1>11, <2>1, EnterInv, EnterFailsInv DEF ReleaseUnexport, RPCs, GrantRPCs, RevokeRPCs
  <1>12. ASSUME NEW p \in pend, ReleaseRetire(p)
         PROVE  IInv'
    <2>1. /\ p.tok \in Token /\ p.tok.uid \in UIDs /\ pend' \subseteq pend /\ Idle
          /\ UNCHANGED <<lock, lv, last, dead, deleted, adopted>>
      BY Zenon, <1>12 DEF ReleaseRetire, IInv, TypeOK, PendInv
    <2>2. CASE RetireUnowned(p.tok)
      BY Zenon, <2>1, <2>2, RetireUnownedInv
    <2>3. CASE /\ Owns(p.tok, mark) /\ Admits(p.tok, "revoke", mark)
               /\ Durable(RetireOwned(p.tok, mark)) \/ Renamed(RetireOwned(p.tok, mark))
               /\ released' \in {released, released \cup {p.tok.uid}}
      <3>1. Advances(RetireOwned(p.tok, mark), mark)
        BY Zenon, <1>t, <2>1, <2>3, RetireOwnedAdvances
      <3>2. /\ mark' = RetireOwned(p.tok, mark)
            /\ \/ disk' = {RetireOwned(p.tok, mark)}
               \/ disk' = disk \cup {RetireOwned(p.tok, mark)}
            /\ released' \subseteq UIDs
        BY Zenon, <1>t, <2>1, <2>3 DEF Durable, Renamed
      <3> QED BY Zenon, <2>1, <3>1, <3>2, WriteInv
    <2> QED BY Zenon, <1>12, <2>2, <2>3 DEF ReleaseRetire
  <1>13. CASE (\E p \in pend : AbandonPhase(p)) \/ Crash \/ ReplaceResource \/ UNCHANGED vars
    <2>1. /\ UNCHANGED <<mark, disk, last, dead, deleted, released, adopted>>
          /\ pend' \subseteq pend /\ lv' \in Sources \cup {NoSource}
          /\ lock' = NoLock \/ (lock' = lock /\ (Idle \/ lv' = lv))
      BY Zenon, <1>13 DEF AbandonPhase, Crash, ReplaceResource, vars, history, IInv, TypeOK
    <2>2. DiskInv'
      BY Zenon, <2>1, SameDisk DEF IInv
    <2>3. TypeOK' /\ PendInv'
      BY Zenon, <1>t, <2>1 DEF IInv, TypeOK, PendInv
    <2>4. LockInv'
      BY Zenon, <1>t, <2>1 DEF IInv, LockInv, Idle
    <2> QED BY Zenon, <2>2, <2>3, <2>4 DEF IInv
  <1>14. CASE PowerLoss
    <2>1. /\ mark' \in disk /\ disk' = {mark'} /\ lock' = NoLock /\ pend' = {}
          /\ UNCHANGED <<lv, last, dead, deleted, released, adopted>>
      BY Zenon, <1>14 DEF PowerLoss, history
    <2>2. mark' \in fencingMark /\ MarkShape(mark') /\ Remembers(mark)'
      BY Zenon, <2>1 DEF IInv, TypeOK, DiskInv, Remembers
    <2>3. DiskInv'
      BY Zenon, <2>1, <2>2, MarkAtLeastReflexive DEF DiskInv
    <2>4. TypeOK' /\ LockInv' /\ PendInv'
      BY Zenon, <1>t, <2>1, <2>2 DEF IInv, TypeOK, LockInv, PendInv
    <2> QED BY Zenon, <2>3, <2>4 DEF IInv
  <1> QED
    BY Zenon, <1>1, <1>2, <1>3, <1>4, <1>5, <1>6, <1>7, <1>8, <1>9, <1>10, <1>11, <1>12,
       <1>13, <1>14 DEF Next

----------------------------------------------------------------------------
(* Theorems *)

\* The inductive invariant holds in every reachable state.
THEOREM Invariance == Spec => []IInv
  BY InitInv, NextInv, PTL DEF Spec

\* The agent's state keeps its type, whatever requests arrive.
THEOREM TypeCorrect == Spec => []TypeOK
  <1>1. IInv => TypeOK
    BY Zenon DEF IInv
  <1> QED BY <1>1, Invariance, PTL

\* The invariant makes the request inside the fencing lock fresh.
LEMMA FreshInsideLock == IInv => NoStaleMutation
  <1> SUFFICES ASSUME IInv, lock.pc \in {"mutate", "end"}
               PROVE  /\ lock.tok.uid \notin dead
                      /\ lock.tok.uid = last.uid => lock.tok.gen >= last.gen
    BY Zenon DEF NoStaleMutation
  <1>1. /\ lock.tok.uid \in UIDs /\ lock.tok.uid \notin mark.endedUIDs
        /\ mark.uid = lock.tok.uid /\ mark.gen = lock.tok.gen /\ Remembers(mark)
    BY Zenon DEF IInv, LockInv, DiskInv
  <1> QED BY Zenon, <1>1, NoUIDAssumption DEF Remembers, CoversToken

\* A request inside the fencing lock is fresh: its lifecycle was not followed
\* by another one and no newer generation of it has acted (fencedChecked,
\* recheckFence).
THEOREM FreshMutations == Spec => []NoStaleMutation
  BY FreshInsideLock, Invariance, PTL

\* Whatever mark a power loss leaves covers every mutation that ever ran
\* (fencedChecked persists before runFencedMutation).
THEOREM MarksCover == Spec => []MarkCoversMutations
  <1>1. IInv => MarkCoversMutations
    BY Zenon DEF IInv, DiskInv, Remembers, CoversToken, MarkCoversMutations
  <1> QED BY <1>1, Invariance, PTL

\* A lifecycle whose DeleteVolume returned success stays ended, also after a
\* power loss.
THEOREM DeletesAreDurable == Spec => []DeleteIsDurable
  <1>1. IInv => DeleteIsDurable
    BY Zenon DEF IInv, DiskInv, Remembers, DeleteIsDurable
  <1> QED BY <1>1, Invariance, PTL

\* Nothing is created, exported or granted for a lifecycle after its
\* DeleteVolume returned success.
THEOREM NoGrantsAfterDelete == Spec => []NoGrantAfterDelete
  <1>1. IInv => NoGrantAfterDelete
    BY Zenon DEF IInv, DiskInv, LockInv, Remembers, EndedIn, NoGrantAfterDelete
  <1> QED BY <1>1, Invariance, PTL

\* A step that destroys or replaces the resource inside the lock is one the
\* pin and the policy of the mark allow (checkFencePreconditions).
LEMMA DestroyStep ==
    IInv /\ [Next]_vars =>
        (lock.pc = "mutate" /\ lv # NoSource /\ lv' # lv =>
           \A a \in adopted : a.src = lv /\ ~a.preserve)
  <1> SUFFICES ASSUME IInv, [Next]_vars, lock.pc = "mutate", lv # NoSource, lv' # lv,
                      NEW a \in adopted
               PROVE  a.src = lv /\ ~a.preserve
    BY Zenon
  <1>1. Mutate \/ MutateFails
    BY DEF Next, vars, Idle, Request, RequestFails, Enter, EnterFails, MayEnter,
           RetryPinnedDelete, ImportVolume, ImportVolumeFails, MayImport, ReleaseVolume,
           ReleaseOwned, RecordEnded, RecordEndedFails, RecheckLink, ReleaseUnexport,
           ReleaseRetire, AbandonPhase, Crash, PowerLoss, ReplaceResource
  <1>2. lock.rpc = "delete"
    BY Zenon, <1>1 DEF Mutate, MutateFails, ResourceAfter
  <1>3. mark.pin = NoSource \/ (mark.pin = lv /\ ~mark.preserve)
    BY Zenon, <1>2 DEF IInv, LockInv
  <1>4. mark.pin = a.src /\ (a.preserve => mark.preserve) /\ a.src \in Sources
    BY Zenon DEF IInv, TypeOK, DiskInv, Remembers
  <1> QED BY Zenon, <1>3, <1>4, NoSourceAssumption

\* A volume ID for which an LV import ever succeeded destroys only that LV,
\* and not even that one if an import of it was PreserveOriginal.
THEOREM DestroysNothingElse == Spec => DestroysOnlyAdopted
  BY Invariance, DestroyStep, PTL DEF Spec, DestroysOnlyAdopted

\* What a step may write: nothing but the mark it leaves visible, which
\* advances the one it read.
LEMMA WriteStep ==
    ASSUME IInv, [Next]_vars
    PROVE  /\ disk' \subseteq disk \cup {mark'}
           /\ mark' \in disk \/ Advances(mark', mark)
  <1>t. mark \in fencingMark /\ MarkShape(mark) /\ mark \in disk
    BY Zenon DEF IInv, TypeOK, DiskInv
  <1>1. ASSUME NEW rpc, NEW tok \in Token, Enter(rpc, tok) \/ EnterFails(rpc, tok)
        PROVE  disk' \subseteq disk \cup {mark'} /\ Advances(mark', mark)
    <2>1. Admits(tok, Class(rpc), mark)
      BY Zenon, <1>1 DEF Enter, EnterFails, MayEnter
    <2>2. mark' = AdmittedMark(tok, mark) /\ disk' \subseteq disk \cup {mark'}
      BY Zenon, <1>1 DEF Enter, EnterFails, persistFencingMark, Resynced, Durable, Renamed
    <2> QED BY Zenon, <1>t, <2>1, <2>2, AdmittedMarkAdvances
  <1>2. ASSUME NEW tok \in Token, NEW src \in ImportSources, NEW preserve \in BOOLEAN,
               \/ ImportVolume(tok, src, preserve)
               \/ ImportVolumeFails(tok, src, preserve)
        PROVE  disk' \subseteq disk \cup {mark'} /\ Advances(mark', mark)
    <2>1. /\ src \in Sources \cup {NoSource}
          /\ Admits(tok, "grant", mark) /\ ImportPinAllowed(mark, src, preserve)
      BY Zenon, <1>2 DEF ImportVolume, ImportVolumeFails, MayImport, ImportSources
    <2>2. mark' = ImportedMark(tok, src, preserve) /\ disk' \subseteq disk \cup {mark'}
      BY Zenon, <1>2 DEF ImportVolume, ImportVolumeFails, persistFencingMark, Resynced, Durable, Renamed
    <2> QED BY Zenon, <1>t, <2>1, <2>2, PinnedMarkAdvances DEF ImportedMark
  <1>3. ASSUME NEW tok \in Token, tok.uid # NoUID, RetireUnowned(tok)
        PROVE  disk' \subseteq disk \cup {mark'} /\ (mark' \in disk \/ Advances(mark', mark))
    <2>1. CASE UNCHANGED <<mark, disk>>
      BY Zenon, <1>t, <2>1
    <2>2. CASE /\ tok.uid # mark.uid
               /\ Durable(RetireDisowned(tok, mark)) \/ Renamed(RetireDisowned(tok, mark))
      BY Zenon, <1>t, <1>3, <2>2, RetireDisownedAdvances DEF Durable, Renamed
    <2> QED BY Zenon, <1>3, <2>1, <2>2 DEF RetireUnowned
  <1>4. ASSUME NEW p \in pend, ReleaseRetire(p)
        PROVE  disk' \subseteq disk \cup {mark'} /\ (mark' \in disk \/ Advances(mark', mark))
    <2>1. p.tok \in Token /\ p.tok.uid # NoUID
      BY Zenon, NoUIDAssumption DEF IInv, TypeOK, PendInv
    <2>2. CASE RetireUnowned(p.tok)
      BY Zenon, <1>3, <2>1, <2>2
    <2>3. CASE /\ Owns(p.tok, mark) /\ Admits(p.tok, "revoke", mark)
               /\ Durable(RetireOwned(p.tok, mark)) \/ Renamed(RetireOwned(p.tok, mark))
      BY Zenon, <1>t, <2>1, <2>3, RetireOwnedAdvances DEF Durable, Renamed
    <2> QED BY Zenon, <1>4, <2>2, <2>3 DEF ReleaseRetire
  <1>5. CASE RecordEnded \/ RecordEndedFails
    <2>1. Exists(mark)
      BY Zenon, <1>5, NoUIDAssumption DEF RecordEnded, RecordEndedFails, IInv, LockInv, DiskInv, Exists
    <2> QED
      BY Zenon, <1>t, <1>5, <2>1, EndedMarkAdvances DEF RecordEnded, RecordEndedFails, Durable, Renamed
  <1>6. ASSUME NEW p \in pend, ReleaseUnexport(p)
        PROVE  disk' \subseteq disk \cup {mark'} /\ Advances(mark', mark)
    BY Zenon, <1>1, <1>6 DEF ReleaseUnexport, IInv, TypeOK
  <1>7. ASSUME NEW tok \in Token, NEW rpc, Request(rpc, tok) \/ RequestFails(rpc, tok)
        PROVE  disk' \subseteq disk \cup {mark'} /\ Advances(mark', mark)
    BY Zenon, <1>1, <1>7 DEF Request, RequestFails
  <1>8. ASSUME NEW tok \in Token, ReleaseVolume(tok)
        PROVE  disk' \subseteq disk \cup {mark'} /\ (mark' \in disk \/ Advances(mark', mark))
    BY Zenon, <1>3, <1>8 DEF ReleaseVolume
  <1>9. CASE \/ \E tok \in Token : RetryPinnedDelete(tok) \/ ReleaseOwned(tok)
             \/ Mutate \/ MutateFails
             \/ \E p \in pend : RecheckLink(p) \/ AbandonPhase(p)
             \/ Crash \/ PowerLoss \/ ReplaceResource \/ UNCHANGED vars
    BY Zenon, <1>t, <1>9
    DEF RetryPinnedDelete, Resynced, ReleaseOwned, Mutate, MutateFails, RecheckLink,
        AbandonPhase, Crash, PowerLoss, ReplaceResource, vars
  <1> QED
    BY Zenon, <1>2, <1>4, <1>5, <1>6, <1>7, <1>8, <1>9 DEF Next

\* What a power loss may leave never regresses: no retired lifecycle, older
\* generation or unpinned source comes back (writeFencingMarkOutcome).
THEOREM MarksNeverRegress == Spec => MarkNeverRegresses
  <1>1. IInv /\ [Next]_vars => \A d2 \in disk' : \E d1 \in disk : MarkAtLeast(d2, d1)
    <2> SUFFICES ASSUME IInv, [Next]_vars, NEW d2 \in disk'
                 PROVE  \E d1 \in disk : MarkAtLeast(d2, d1)
      BY Zenon
    <2>1. d2 \in disk \/ (d2 = mark' /\ Advances(mark', mark))
      BY Zenon, WriteStep
    <2>2. mark \in disk /\ disk \subseteq fencingMark
      BY Zenon DEF IInv, DiskInv, TypeOK
    <2> QED BY Zenon, <2>1, <2>2, MarkAtLeastReflexive DEF Advances
  <1> QED BY <1>1, Invariance, PTL DEF Spec, MarkNeverRegresses

\* The fenced critical sections implement the promise FencedResource states
\* about the order of mutations.
THEOREM Refinement == Spec => ImplementsPromise
  <1>1. Init => Promise!Init
    BY Zenon DEF Init, Promise!Init, NoToken
  <1>2. IInv /\ [Next]_vars => [Promise!Next]_<<last, dead>>
    <2> SUFFICES ASSUME IInv, [Next]_vars PROVE [Promise!Next]_<<last, dead>>
      BY Zenon
    <2>1. CASE Mutate \/ MutateFails
      <3>1. lock.tok \in Token /\ lock.tok.uid \in UIDs /\ lock.tok.gen \in Gens
        BY Zenon, <2>1 DEF Mutate, MutateFails, IInv, LockInv, TypeOK, Token
      <3>2. lock.tok = [uid |-> lock.tok.uid, gen |-> lock.tok.gen]
        BY Zenon, <3>1 DEF Token
      <3>3. NoStaleMutation
        BY Zenon, FreshInsideLock
      <3>4. Promise!Execute(lock.tok)
        BY Zenon, <2>1, <3>3 DEF Mutate, MutateFails, Executed, NoStaleMutation, Promise!Execute
      <3> QED BY Zenon, <3>1, <3>2, <3>4 DEF Promise!Next
    <2>2. CASE ~(Mutate \/ MutateFails)
      BY <2>2 DEF Next, vars, history, Request, RequestFails, Enter, EnterFails,
           RetryPinnedDelete, ImportVolume, ImportVolumeFails, ReleaseVolume,
           ReleaseOwned, RecordEnded, RecordEndedFails, RecheckLink, ReleaseUnexport,
           ReleaseRetire, AbandonPhase, Crash, PowerLoss, ReplaceResource
    <2> QED BY Zenon, <2>1, <2>2
  <1> QED BY <1>1, <1>2, Invariance, PTL DEF Spec, ImplementsPromise, Promise!Spec
=============================================================================
