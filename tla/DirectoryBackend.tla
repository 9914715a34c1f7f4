-------------------------- MODULE DirectoryBackend --------------------------
(***************************************************************************)
(* The directory backend of the storage agent                              *)
(* (internal/agent/backend/directory): it adopts a directory of an ext4 or *)
(* xfs filesystem whose project quota is the volume's capacity.  The first *)
(* inspection walks the tree to show that the project of the quota is the  *)
(* tree and nothing else; later imports compare the recorded identity.     *)
(*                                                                         *)
(* The tree is flat: what counts is how many names each inode has inside   *)
(* the source and outside of it, and which inodes carry the project.       *)
(***************************************************************************)
EXTENDS Integers, FiniteSets

CONSTANTS
    DwInodes,       \* the inodes beside the source directory
    DwLinks,        \* bound: names of one inode inside, and outside
    DwLimits,       \* the hard limits the quota may have
    DwMaxCalls,     \* bound: calls of the backend
    DwMaxMoves      \* bound: changes made by others

VARIABLES
    inode,      \* the inodes: kind, project, inheritance, names inside and outside
    source,     \* the directory the source path names, and its project flags
    limit,      \* the hard limit of the project's quota
    known,      \* the recorded adoption: the directory, or none
    dw,         \* the call in progress
    changed,    \* whether the tree changed since the quota was read
    dwBounds    \* calls and changes so far

dwVars == <<inode, source, limit, known, dw, changed, dwBounds>>

DirKinds == {"dir", "file", "symlink", "special"}
Dirs == {"here", "there"}   \* the source directory, and one put in its place
NoDir == "none"
DwIdle == [op |-> "none", at |-> "idle", fd |-> NoDir, size |-> 0, count |-> 0, todo |-> {},
           verified |-> 0, unverified |-> 0, total |-> <<>>, seen |-> <<>>]

Nlink(i) == inode[i].in + inode[i].out
Present == {i \in DwInodes : Nlink(i) > 0}
\* The names of the tree.
Entries == {<<i, k>> \in DwInodes \X (1..DwLinks) : k <= inode[i].in}
\* The kernel's count of the project, the source directory included.
QuotaInodes == 1 + Cardinality({i \in Present : inode[i].project})

DwStep(at) == dw' = [dw EXCEPT !.at = at]
DwRefuse == dw' = DwIdle
DwSucceed == dw' = [DwIdle EXCEPT !.op = "ok"]
Untouched == UNCHANGED <<inode, source, limit, known, changed, dwBounds>>

---------------------------------------------------------------------------
(* inspect *)

\* resolveSource: the directory the path names, below the configured root.
resolveSource == source.dir

\* openPinnedDir: the path is opened component by component.
openPinnedDir ==
    /\ dw.at = "open"
    /\ \/ dw' = [dw EXCEPT !.fd = resolveSource, !.at = "stat"]
       \/ DwRefuse
    /\ Untouched

\* validatePinnedSource: the path still names what was opened.
validatePinnedSource ==
    /\ dw.at = "stat"
    /\ IF dw.fd = resolveSource THEN DwStep("filesystem") ELSE DwRefuse
    /\ Untouched

\* findMount and rejectSubmounts: nothing is mounted below the source.
rejectSubmounts == ~source.submount

\* readProject: the project of the open directory is set and inherited.
readProject == dw.fd = "here" /\ source.inherit

\* readNativeUUID: the superblock's UUID and the inode identify the directory.
readNativeUUID == dw.fd

inspectFilesystem ==
    /\ dw.at = "filesystem"
    /\ IF rejectSubmounts /\ readProject THEN DwStep("quota") ELSE DwRefuse
    /\ Untouched

\* readProjectQuota and validateQuota: the hard limit is the capacity asked
\* for.  The inode count is read with it; the walk comes after.
readProjectQuota ==
    /\ dw.at = "quota"
    /\ IF limit = dw.size
       THEN dw' = [dw EXCEPT !.count = QuotaInodes, !.at = IF dw.op = "inspect" THEN "walk" ELSE "equal"]
       ELSE DwRefuse
    /\ changed' = FALSE
    /\ UNCHANGED <<inode, source, limit, known, dwBounds>>

\* verifyProjectTree starts with the source directory itself.
verifyProjectTree ==
    /\ dw.at = "walk"
    /\ dw' = [dw EXCEPT !.at = "entries", !.todo = Entries, !.verified = 1,
                        !.total = [i \in DwInodes |-> 0], !.seen = [i \in DwInodes |-> 0]]
    /\ Untouched

\* A mutant of countInode: a symlink stands in for a member of the project.
countsSymlinks(w, ok) == [w EXCEPT !.verified = @ + 1]

countInode(w, ok) == IF ok THEN [w EXCEPT !.verified = @ + 1] ELSE [w EXCEPT !.unverified = @ + 1]

\* record: an inode with several names is counted when its first is seen.
record(w, i, ok) ==
    IF inode[i].kind # "dir" /\ Nlink(i) > 1
    THEN LET first == w.total[i] = 0
             c == IF first THEN countInode([w EXCEPT !.total[i] = Nlink(i)], ok) ELSE w
         IN [c EXCEPT !.seen[i] = @ + 1]
    ELSE countInode(w, ok)

\* visit: the project, and for a directory its inheritance.
visit(i) == inode[i].project /\ (inode[i].kind = "dir" => inode[i].inherit)

\* visitEntry: a name that vanished or changed its inode, a special file and an
\* inode outside the project end the walk; a symlink's project cannot be read.
visitEntry(e) ==
    LET i == e[1]
        w == [dw EXCEPT !.todo = @ \ {e}]
    IN /\ dw.at = "entries" /\ e \in dw.todo
       /\ IF e \notin Entries \/ inode[i].kind = "special" THEN DwRefuse
          ELSE IF inode[i].kind = "symlink" THEN dw' = record(w, i, FALSE)
          ELSE IF visit(i) THEN dw' = record(w, i, TRUE)
          ELSE DwRefuse
       /\ Untouched

\* Every link was found inside, and the verified inodes are the project's.
ProjectOwned ==
    /\ \A i \in DwInodes : dw.seen[i] = dw.total[i]
    /\ dw.verified = dw.count

walkDone ==
    /\ dw.at = "entries" /\ dw.todo = {}
    /\ IF ProjectOwned THEN DwStep("owned") ELSE DwRefuse
    /\ Untouched

\* The inspection answers with the identity of the directory it holds.
InspectDirectory ==
    /\ dw.at = "owned"
    /\ known' = readNativeUUID
    /\ DwSucceed
    /\ UNCHANGED <<inode, source, limit, changed, dwBounds>>

\* equalAdoption: filesystem, inode and project are the recorded ones.
equalAdoption ==
    /\ dw.at = "equal"
    /\ IF readNativeUUID = known THEN DwStep("pinned") ELSE DwRefuse
    /\ Untouched

\* verifyPinnedTarget: the bind of the pin on the proxy, and the project and
\* limit once more; then Close.
verifyPinnedTarget ==
    /\ dw.at = "pinned"
    /\ IF rejectSubmounts /\ source.inherit /\ limit = dw.size THEN DwSucceed ELSE DwRefuse
    /\ Untouched

---------------------------------------------------------------------------
(* Calls, failing reads, and everybody else on the storage node *)

DwBegin ==
    /\ dw.at = "idle" /\ dwBounds.calls < DwMaxCalls
    /\ dwBounds' = [dwBounds EXCEPT !.calls = @ + 1]
    /\ \E op \in {"inspect", "import"}, s \in DwLimits :
         /\ op = "import" => known # NoDir
         /\ dw' = [DwIdle EXCEPT !.op = op, !.at = "open", !.size = s]
    /\ UNCHANGED <<inode, source, limit, known, changed>>

Others ==
    /\ dwBounds.moves < DwMaxMoves
    /\ dwBounds' = [dwBounds EXCEPT !.moves = @ + 1]
    /\ changed' = TRUE
    /\ UNCHANGED known

\* A new name.  A file made inside inherits the project; the walk may or may
\* not meet a name that is made while it runs.
AddName ==
    /\ Others
    /\ \E i \in DwInodes :
         \/ /\ inode[i].in < DwLinks /\ (inode[i].kind = "dir" => Nlink(i) = 0)
            /\ inode' = [inode EXCEPT ![i].in = @ + 1,
                                      ![i].project = @ \/ Nlink(i) = 0,
                                      ![i].inherit = @ \/ Nlink(i) = 0]
            /\ dw' \in {dw, [dw EXCEPT !.todo = IF dw.at = "entries" THEN @ \cup {<<i, inode[i].in + 1>>} ELSE @]}
         \/ /\ inode[i].out < DwLinks /\ (inode[i].kind = "dir" => Nlink(i) = 0)
            /\ inode' = [inode EXCEPT ![i].out = @ + 1]
            /\ UNCHANGED dw
    /\ UNCHANGED <<source, limit>>

DropName ==
    /\ Others
    /\ \E i \in DwInodes :
         \/ inode[i].in > 0 /\ inode' = [inode EXCEPT ![i].in = @ - 1]
         \/ inode[i].out > 0 /\ inode' = [inode EXCEPT ![i].out = @ - 1]
    /\ UNCHANGED <<source, limit, dw>>

\* chattr of an inode, a mount below the source, a new limit, another
\* directory under the source's path.
Alter ==
    /\ Others
    /\ \/ \E i \in Present : inode' = [inode EXCEPT ![i].project = ~@] /\ UNCHANGED <<source, limit>>
       \/ source' = [source EXCEPT !.submount = ~@] /\ UNCHANGED <<inode, limit>>
       \/ source' = [source EXCEPT !.inherit = ~@] /\ UNCHANGED <<inode, limit>>
       \/ \E d \in Dirs \ {source.dir} : source' = [source EXCEPT !.dir = d] /\ UNCHANGED <<inode, limit>>
       \/ \E q \in DwLimits \ {limit} : limit' = q /\ UNCHANGED <<inode, source>>
    /\ UNCHANGED dw

\* A directory has one name; the flags are those of an inode that exists.
InodeStates ==
    {r \in [kind : DirKinds, project : BOOLEAN, inherit : BOOLEAN, in : 0..DwLinks, out : 0..DwLinks] :
       /\ r.kind = "dir" => r.in + r.out <= 1
       /\ r.kind # "dir" => ~r.inherit
       /\ r.in + r.out = 0 => ~r.project /\ ~r.inherit}

DwInit ==
    /\ inode \in [DwInodes -> InodeStates]
    /\ source = [dir |-> "here", inherit |-> TRUE, submount |-> FALSE]
    /\ limit = CHOOSE q \in DwLimits : TRUE
    /\ known = NoDir
    /\ dw = DwIdle
    /\ changed = FALSE
    /\ dwBounds = [calls |-> 0, moves |-> 0]

DwNext ==
    \/ openPinnedDir \/ validatePinnedSource \/ inspectFilesystem \/ readProjectQuota
    \/ verifyProjectTree \/ (\E e \in DwInodes \X (1..DwLinks) : visitEntry(e)) \/ walkDone
    \/ InspectDirectory \/ equalAdoption \/ verifyPinnedTarget
    \/ DwBegin \/ AddName \/ DropName \/ Alter

DwSpec == DwInit /\ [][DwNext]_dwVars

---------------------------------------------------------------------------
(* Properties *)

DwTypeOK ==
    /\ \A i \in DwInodes : inode[i].in \in 0..DwLinks /\ inode[i].out \in 0..DwLinks
    /\ source.dir \in Dirs /\ limit \in DwLimits /\ known \in Dirs \cup {NoDir}
    /\ dw.verified \in 0..(1 + DwLinks * Cardinality(DwInodes))

\* When the walk accepts the source and the tree did not change under it, the
\* quota's project lies wholly inside: no inode that counts against the limit
\* has a name outside, be it through a hard link, a file elsewhere that a
\* symlink of the tree would make up for in the count, or a special file
\* (directory_linux.go: "proves that a source tree owns its whole project-quota
\* scope").
WalkOwnsProject ==
    dw.at = "owned" /\ ~changed =>
        \A i \in Present : inode[i].project => inode[i].in > 0 /\ inode[i].out = 0

=============================================================================
