------------------------------- MODULE MCAgent -------------------------------
(***************************************************************************)
(* The fencing of the agent and the storage backends behind it, for TLC.   *)
(* They share no state here: a behaviour is one of the component that part *)
(* names.  The fencing stays in its initial state while a backend is       *)
(* explored, and a backend that is not explored is off.                    *)
(***************************************************************************)
EXTENDS FencedAgent, BlockBackends, DatasetBackend, DirectoryBackend, ZfsSpace, TLC

CONSTANT Parts

VARIABLE part

Components == <<part, vars, bkVars, dsVars, dwVars, zsVars>>

Off == "off"
BkOff ==
    /\ family = Off /\ vol = Off /\ link = Off /\ bk = Off /\ bkBounds = Off
DsOff ==
    /\ dset = Off /\ mt = Off /\ stub = Off /\ locked = Off /\ adoption = Off /\ dc = Off
    /\ dsBounds = Off
DwOff ==
    /\ inode = Off /\ source = Off /\ limit = Off /\ known = Off /\ dw = Off /\ changed = Off
    /\ dwBounds = Off
ZsOff ==
    /\ zfs = Off /\ zsMoves = Off

AgentInit ==
    /\ part \in Parts
    /\ Init /\ (part = "fencing" \/ lv = NoSource)
    /\ IF part = "block" THEN BkInit ELSE BkOff
    /\ IF part = "dataset" THEN DsInit ELSE DsOff
    /\ IF part = "directory" THEN DwInit ELSE DwOff
    /\ IF part = "space" THEN ZsInit ELSE ZsOff

AgentNext ==
    \/ part = "fencing" /\ Next /\ UNCHANGED <<part, bkVars, dsVars, dwVars, zsVars>>
    \/ part = "block" /\ BkNext /\ UNCHANGED <<part, vars, dsVars, dwVars, zsVars>>
    \/ part = "dataset" /\ DsNext /\ UNCHANGED <<part, vars, bkVars, dwVars, zsVars>>
    \/ part = "directory" /\ DwNext /\ UNCHANGED <<part, vars, bkVars, dsVars, zsVars>>
    \/ part = "space" /\ ZsNext /\ UNCHANGED <<part, vars, bkVars, dsVars, dwVars>>

AgentSpec == AgentInit /\ [][AgentNext]_Components

Symmetric == Permutations(UIDs)

\* The state of the fencing and of every backend keeps its type.
AgentTypeOK ==
    /\ TypeOK
    /\ CASE part = "block" -> BkTypeOK
         [] part = "dataset" -> DsTypeOK
         [] part = "directory" -> DwTypeOK
         [] part = "space" -> ZsTypeOK
         [] OTHER -> TRUE

\* What an import adopts is what it examined: the LV is the pinned one and idle,
\* the dataset behind a filesystem pin is the recorded one, and an adopted
\* directory owns its whole project quota (lvm/import.go, zfs/dataset_import.go,
\* directory_linux.go).  It says nothing of zvols, whose import pins no identity
\* and holds no claim (AdoptsPinnedIdle).
AdoptedIsExamined ==
    CASE part = "block" -> AdoptsPinnedIdle
      [] part = "dataset" -> PinIsAdopted
      [] part = "directory" -> WalkOwnsProject
      [] OTHER -> TRUE

\* The ZFS backend keeps data reachable and space honest: the mode change that
\* closes a bare mountpoint never falls on the root of a mounted dataset
\* (dataset.go, prepareMountpoint), the capacity reported is what OpenZFS would
\* admit (zfs.go, Capacity), and the quota an adoption takes for its capacity is
\* the one that binds (dataset_import.go, effectiveQuota).
DatasetsHold ==
    CASE part = "dataset" -> RootNeverLocked
      [] part = "space" -> CapacityIsAllocatable /\ AdoptedQuotaBinds
      [] OTHER -> TRUE
=============================================================================
