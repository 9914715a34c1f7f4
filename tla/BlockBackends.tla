--------------------------- MODULE BlockBackends ---------------------------
(***************************************************************************)
(* The block backends of the storage agent: LVM logical volumes            *)
(* (internal/agent/backend/lvm) and ZFS zvols (internal/agent/backend/zfs),*)
(* with the idle checks of internal/agent/backend/devidle.                 *)
(*                                                                         *)
(* A backend call is a few commands (lvs, lvcreate, zfs set, ...) and      *)
(* reads of the kernel's tables, each of which names the volume by its     *)
(* NAME.  Between two of them the administrator of the storage node may    *)
(* rename, remove, recreate, mount or export volumes.  One volume ID, "v", *)
(* is followed; "w" is the name of any other volume of the pool.           *)
(***************************************************************************)
EXTENDS Integers, FiniteSets

CONSTANTS
    BkFamilies,     \* the configured layouts: "linear", "thin" or "zvol"
    BkIds,          \* the UUIDs volumes may get, a set of positive integers
    BkDevs,         \* the kernel device numbers, reused once free
    BkSizes,        \* the capacities requests name, positive integers
    BkMaxCalls,     \* bound: calls of the backend
    BkMaxMoves,     \* bound: interventions of the administrator
    BkMaxFaults     \* bound: commands and reads that fail

VARIABLES
    family,     \* the backend the agent was started with
    vol,        \* the volumes of the pool, by UUID
    link,       \* the device the path of "v" (/dev/<vg>/v) resolves to
    bk,         \* the calls in progress: of the RPC under the volume's lock
                \* ("rpc") and of an inspection, which takes no lock ("look")
    bkBounds    \* calls, interventions and faults so far

bkVars == <<family, vol, link, bk, bkBounds>>

\* A UUID that no volume has had yet, and one whose volume was removed: a
\* UUID never comes back, a name and a device number may.
NoVol == [name |-> "none"]
GoneVol == [name |-> "gone"]
NoDev == 0
Workers == {"rpc", "look"}
BkIdle == [op |-> "none", at |-> "idle", want |-> 0, size |-> 0, fits |-> TRUE,
           mode |-> "default", seen |-> [id |-> 0, dev |-> NoDev, size |-> 0], claim |-> NoDev, out |-> 0]

\* What can keep a device open.  A mount, a stacked device (holder) and an LIO
\* backstore hold it exclusively; an nvmet namespace does not, so only the scan
\* of configfs finds it.
Exclusive == {"mount", "holder", "backstore"}
Consumers == Exclusive \cup {"namespace"}

Live == {i \in BkIds : vol[i].name \in {"v", "w"}}
Unborn == {i \in BkIds : vol[i] = NoVol}
Named(n) == {i \in Live : vol[i].name = n}
Missing == Named("v") = {}
\* The volume the name resolves to now.
Cur == CHOOSE i \in Named("v") : TRUE
OnDev(d) == {i \in Live : vol[i].dev = d}
FreeDevs == {d \in BkDevs : OnDev(d) = {} /\ \A x \in Workers : bk[x].claim # d}
\* The device path: empty once the volume is gone or inactive.
LinkOf(volumes) ==
    LET named == {i \in BkIds : volumes[i].name = "v" /\ volumes[i].active}
    IN IF named = {} THEN NoDev ELSE volumes[CHOOSE i \in named : TRUE].dev

\* What the layout creates by default and what it can adopt: a thin pool makes
\* thin LVs (modeForThinPool).
Adoptable == IF family = "zvol" THEN "volume" ELSE family
\* A volume the backend must not adopt: a snapshot or pool LV, an LV of the
\* other layout, or a ZFS filesystem.
Foreign == IF family = "zvol" THEN {"filesystem"} ELSE {"snapshot", "linear", "thin"} \ {family}

\* LVM rounds a size up to an extent and ZFS to a volblocksize; sizes are
\* counted in those units, so a created volume has exactly the size asked for.
NewVolume(name, kind, size, dev) ==
    [name |-> name, kind |-> kind, size |-> size, active |-> TRUE, dev |-> dev, use |-> {}]

CanFail == bkBounds.faults < BkMaxFaults
Spend(which) == bkBounds' = [bkBounds EXCEPT ![which] = @ + 1]
Keep == UNCHANGED <<family, vol, link>>

Goto(x, at) == bk' = [bk EXCEPT ![x].at = at]
\* The call ends: the deferred release of the claim runs on every path.
Finish(x, size) == bk' = [bk EXCEPT ![x] = [BkIdle EXCEPT !.op = bk[x].op, !.at = "done", !.out = size]]
Reject(x) == Finish(x, 0)
Reply(x, size) == Finish(x, size)
\* A command or a read fails and the call reports it.
BkFailed(x) == CanFail /\ Spend("faults") /\ Reject(x) /\ Keep

---------------------------------------------------------------------------
(* Create *)

\* lvsBytes and volsizeBytes: an LV of any kind has a size, a ZFS filesystem
\* has no volsize.
HasSize == ~Missing /\ (family = "zvol" => vol[Cur].kind = "volume")

\* createParams: a request whose declared pool, parent dataset or thin pool is
\* not this backend's is refused, and so is a thin LV without a thin pool.
createParams == bk["rpc"].fits /\ (bk["rpc"].mode = "thin" => family = "thin")

\* A mode of the request wins over the backend's.
EffectiveMode == IF bk["rpc"].mode = "default" THEN Adoptable ELSE bk["rpc"].mode

\* The size is read before the creation.  An existing volume that is
\* large enough is returned as it is.
CreateCheck ==
    /\ bk["rpc"].op = "create" /\ bk["rpc"].at = "check"
    /\ \/ ~createParams /\ Reject("rpc")
       \/ /\ createParams /\ ~Missing
          /\ IF HasSize /\ vol[Cur].size >= bk["rpc"].size
             THEN Reply("rpc", vol[Cur].size)
             ELSE Reject("rpc")
       \/ createParams /\ Missing /\ Goto("rpc", "make")
    /\ Keep /\ UNCHANGED bkBounds

\* The volume lvcreate or zfs create makes.
Made(i, d) == vol' = [vol EXCEPT ![i] = NewVolume("v", EffectiveMode, bk["rpc"].size, d)]

\* lvcreate for a linear LV and zfs create -V for a zvol: a name taken in the
\* meantime, a full pool or any other error is reported.
createLinear ==
    /\ bk["rpc"].op = "create" /\ bk["rpc"].at = "make" /\ EffectiveMode # "thin"
    /\ \/ /\ Missing
          /\ \E i \in Unborn, d \in FreeDevs : Made(i, d) /\ link' = d
          /\ Goto("rpc", "size") /\ UNCHANGED <<family, bkBounds>>
       \/ ~Missing /\ Reject("rpc") /\ Keep /\ UNCHANGED bkBounds

\* lvcreate --virtualsize: "already exists" is taken as success.
createThinLV ==
    /\ bk["rpc"].op = "create" /\ bk["rpc"].at = "make" /\ EffectiveMode = "thin"
    /\ \/ /\ Missing
          /\ \E i \in Unborn, d \in FreeDevs : Made(i, d) /\ link' = d
       \/ ~Missing /\ UNCHANGED <<vol, link>>
    /\ Goto("rpc", "size") /\ UNCHANGED <<family, bkBounds>>

\* The size after a creation or a growth is read back and answered.
BkReadBack ==
    /\ bk["rpc"].at = "size"
    /\ IF HasSize THEN Reply("rpc", vol[Cur].size) ELSE Reject("rpc")
    /\ Keep /\ UNCHANGED bkBounds

---------------------------------------------------------------------------
(* Delete and Expand *)

Claimed(i) == \E x \in Workers : bk[x].claim = vol[i].dev
Busy(i) == vol[i].use # {} \/ Claimed(i)

\* lvremove and zfs destroy: a missing volume is success, one that is open
\* cannot be removed.
DeleteVolume ==
    /\ bk["rpc"].op = "delete" /\ bk["rpc"].at = "check"
    /\ \/ Missing /\ Reply("rpc", 1) /\ Keep
       \/ ~Missing /\ Busy(Cur) /\ Reject("rpc") /\ Keep
       \/ /\ ~Missing /\ ~Busy(Cur)
          /\ vol' = [vol EXCEPT ![Cur] = GoneVol]
          /\ link' = NoDev /\ UNCHANGED family
          /\ Reply("rpc", 1)
    /\ UNCHANGED bkBounds

\* LVM reads the size first: an equal one is success, a larger one an error.
expandLV ==
    /\ bk["rpc"].op = "expand" /\ bk["rpc"].at = "check" /\ family # "zvol"
    /\ \/ Missing /\ Reject("rpc")
       \/ ~Missing /\ vol[Cur].size = bk["rpc"].size /\ Reply("rpc", vol[Cur].size)
       \/ ~Missing /\ vol[Cur].size > bk["rpc"].size /\ Reject("rpc")
       \/ ~Missing /\ vol[Cur].size < bk["rpc"].size /\ Goto("rpc", "extend")
    /\ Keep /\ UNCHANGED bkBounds

\* lvextend, which itself refuses a size that is not larger.
lvextend ==
    /\ bk["rpc"].op = "expand" /\ bk["rpc"].at = "extend"
    /\ IF ~Missing /\ vol[Cur].size < bk["rpc"].size
       THEN /\ vol' = [vol EXCEPT ![Cur].size = bk["rpc"].size]
            /\ Goto("rpc", "size")
       ELSE Reject("rpc") /\ UNCHANGED vol
    /\ UNCHANGED <<family, link, bkBounds>>

\* ZFS sets volsize to the requested size without reading it first.  zfs(8)
\* accepts any positive multiple of the block size, a smaller one included.
expandZvol ==
    /\ bk["rpc"].op = "expand" /\ bk["rpc"].at = "check" /\ family = "zvol"
    /\ IF ~Missing /\ vol[Cur].kind = "volume"
       THEN /\ vol' = [vol EXCEPT ![Cur].size = bk["rpc"].size]
            /\ Goto("rpc", "size")
       ELSE Reject("rpc") /\ UNCHANGED vol
    /\ UNCHANGED <<family, link, bkBounds>>

---------------------------------------------------------------------------
(* Adoption *)

\* The claim of the exclusive open: it fails while anything else holds the
\* device, and keeps every other exclusive holder out until it is released.
Held(x, d) ==
    \/ \E i \in OnDev(d) : vol[i].use \cap Exclusive # {}
    \/ \E y \in Workers \ {x} : bk[y].claim = d

\* lvsRow: what one query of the name reports.
Row == [id |-> Cur, dev |-> vol[Cur].dev, size |-> vol[Cur].size]

\* checkIdentity: the name still resolves to the volume the claim pinned.
checkIdentity(row) == row.id = bk["rpc"].want

\* checkLVLayout: a plain LV of this backend's layout.
checkLVLayout == vol[Cur].kind = Adoptable

\* checkImportCandidate: identity, layout, activity and size from one query.
checkImportCandidate ==
    /\ bk["rpc"].fits
    /\ ~Missing /\ checkIdentity(Row) /\ checkLVLayout /\ vol[Cur].active
    /\ vol[Cur].size >= bk["rpc"].size

importCandidate ==
    /\ bk["rpc"].op = "import" /\ bk["rpc"].at = "check" /\ family # "zvol"
    /\ IF checkImportCandidate
       THEN bk' = [bk EXCEPT !["rpc"].seen = Row, !["rpc"].at = "claim"]
       ELSE Reject("rpc")
    /\ Keep /\ UNCHANGED bkBounds

\* ClaimDevice and the comparison of the claimed device with lvs's.
importClaim ==
    /\ bk["rpc"].op = "import" /\ bk["rpc"].at = "claim" /\ family # "zvol"
    /\ IF link # NoDev /\ ~Held("rpc", link) /\ link = bk["rpc"].seen.dev
       THEN bk' = [bk EXCEPT !["rpc"].claim = link, !["rpc"].at = "scan"]
       ELSE Reject("rpc")
    /\ Keep /\ UNCHANGED bkBounds

\* devidle: what the kernel's tables record of a device number.
Uses(d) == UNION {vol[i].use : i \in OnDev(d)}
scanMountinfo(d) == Uses(d) \cap {"mount"}
scanHolders(d) == Uses(d) \cap {"holder"}
scanLIOExports(d) == Uses(d) \cap {"backstore"}
scanNVMeExports(d) == Uses(d) \cap {"namespace"}
Report(d) == scanMountinfo(d) \cup scanHolders(d) \cup scanLIOExports(d) \cup scanNVMeExports(d)

checkImportIdle ==
    /\ bk["rpc"].op = "import" /\ bk["rpc"].at = "scan" /\ family # "zvol"
    /\ IF Report(bk["rpc"].claim) = {} THEN Goto("rpc", "verify") ELSE Reject("rpc")
    /\ Keep /\ UNCHANGED bkBounds

\* A mutant of the re-verification: it trusts the first query.
reverifyNothing == TRUE

\* reverifyImport: the same query while the claim is held.
reverifyImport == ~Missing /\ checkIdentity(Row) /\ vol[Cur].active /\ Row.dev = bk["rpc"].seen.dev

\* The import is decided with the claim still held.
importVerify ==
    /\ bk["rpc"].op = "import" /\ bk["rpc"].at = "verify" /\ family # "zvol"
    /\ IF reverifyImport THEN Goto("rpc", "adopted") ELSE Reject("rpc")
    /\ Keep /\ UNCHANGED bkBounds

\* The deferred release; should it fail, the import fails with it.
importRelease ==
    /\ bk["rpc"].op = "import" /\ bk["rpc"].at = "adopted"
    /\ Reply("rpc", bk["rpc"].seen.size)
    /\ Keep /\ UNCHANGED bkBounds

\* zfs: type and size of the dataset of that name.
zvolProps ==
    /\ bk["rpc"].op = "import" /\ bk["rpc"].at = "check" /\ family = "zvol"
    /\ IF bk["rpc"].fits /\ ~Missing /\ vol[Cur].kind = "volume" /\ vol[Cur].size >= bk["rpc"].size
       THEN bk' = [bk EXCEPT !["rpc"].seen = Row, !["rpc"].at = "scan"]
       ELSE Reject("rpc")
    /\ Keep /\ UNCHANGED bkBounds

\* assertDeviceIdle up to the probe: its own scans, which compare the names
\* the dataset and the device its path resolves to are recorded under.
checkLIOBackstores == scanLIOExports(link) = {}
checkNVMeNamespaces == scanNVMeExports(link) = {}
checkMounts == scanMountinfo(link) = {}
checkHolders == scanHolders(link) = {}

assertDeviceIdle ==
    /\ bk["rpc"].op = "import" /\ bk["rpc"].at = "scan" /\ family = "zvol"
    /\ IF /\ link # NoDev
          /\ checkLIOBackstores /\ checkNVMeNamespaces /\ checkMounts /\ checkHolders
       THEN Goto("rpc", "claim") ELSE Reject("rpc")
    /\ Keep /\ UNCHANGED bkBounds

\* checkExclusiveClaim: an exclusive open that is released at once.
checkExclusiveClaim ==
    /\ bk["rpc"].op = "import" /\ bk["rpc"].at = "claim" /\ family = "zvol"
    /\ IF link # NoDev /\ ~Held("rpc", link)
       THEN bk' = [bk EXCEPT !["rpc"].claim = link, !["rpc"].at = "adopted"]
       ELSE Reject("rpc")
    /\ Keep /\ UNCHANGED bkBounds

\* VerifyLV before a fenced call on an adopted LV.
VerifyLV ==
    /\ bk["rpc"].op = "verify" /\ bk["rpc"].at = "check"
    /\ IF ~Missing /\ checkIdentity(Row) THEN Reply("rpc", 1) ELSE Reject("rpc")
    /\ Keep /\ UNCHANGED bkBounds

---------------------------------------------------------------------------
(* Inspection: read-only, with an exclusive open that is closed at once *)

InspectLV ==
    /\ bk["look"].at = "check"
    /\ \/ Missing /\ Reject("look")
       \/ ~Missing /\ ~vol[Cur].active /\ Reply("look", 1)
       \/ ~Missing /\ vol[Cur].active
          /\ bk' = [bk EXCEPT !["look"].seen = Row, !["look"].at = "claim"]
    /\ Keep /\ UNCHANGED bkBounds

\* The probe of an active LV: free, busy, or unknown on another device.
observeActiveLV ==
    /\ bk["look"].at = "claim"
    /\ bk' = [bk EXCEPT !["look"].claim = IF link # NoDev /\ ~Held("look", link) THEN link ELSE NoDev,
                        !["look"].at = "report"]
    /\ Keep /\ UNCHANGED bkBounds

InspectReport ==
    /\ bk["look"].at = "report"
    /\ Reply("look", 1)
    /\ Keep /\ UNCHANGED bkBounds

---------------------------------------------------------------------------
(* The administrator of the storage node, the kernel and the agent process *)

BkMove == bkBounds.moves < BkMaxMoves /\ Spend("moves")

\* udev moves the path of the name to its new device, at once or later.
Relink == link' \in {link, LinkOf(vol')}
BkSettle == link # LinkOf(vol) /\ link' = LinkOf(vol) /\ UNCHANGED <<family, vol, bk, bkBounds>>

OtherName(n) == IF n = "v" THEN "w" ELSE "v"

\* lvrename or zfs rename, alone or as an exchange of the two names.  It
\* works on an open volume.
Rename ==
    /\ BkMove
    /\ Live # {}
    /\ vol' = [i \in BkIds |-> IF i \in Live THEN [vol[i] EXCEPT !.name = OtherName(@)] ELSE vol[i]]
    /\ Relink /\ UNCHANGED <<family, bk>>

\* Another volume of the pool, of any kind, on a device number that is free.
CreateOther ==
    /\ BkMove
    /\ \E i \in Unborn, d \in FreeDevs, n \in {"v", "w"}, s \in BkSizes,
          k \in Foreign \cup {Adoptable} :
         Named(n) = {} /\ vol' = [vol EXCEPT ![i] = NewVolume(n, k, s, d)]
    /\ Relink /\ UNCHANGED <<family, bk>>

RemoveOther ==
    /\ BkMove
    /\ \E i \in Live : ~Busy(i) /\ vol' = [vol EXCEPT ![i] = GoneVol]
    /\ Relink /\ UNCHANGED <<family, bk>>

\* A consumer appears or goes away.  The kernel refuses an exclusive one
\* while the device has one or is claimed.
Attach ==
    /\ BkMove
    /\ \E i \in Live, c \in Consumers :
         /\ vol[i].active /\ c \notin vol[i].use
         /\ c \in Exclusive => vol[i].use \cap Exclusive = {} /\ ~Claimed(i)
         /\ vol' = [vol EXCEPT ![i].use = @ \cup {c}]
    /\ UNCHANGED <<family, link, bk>>

Detach ==
    /\ BkMove
    /\ \E i \in Live : \E c \in vol[i].use : vol' = [vol EXCEPT ![i].use = @ \ {c}]
    /\ UNCHANGED <<family, link, bk>>

\* lvchange -an and -ay.
Deactivate ==
    /\ BkMove /\ family # "zvol"
    /\ \E i \in Live :
         /\ vol[i].active => ~Busy(i)
         /\ vol' = [vol EXCEPT ![i].active = ~@]
    /\ Relink /\ UNCHANGED <<family, bk>>

\* A new call.  Expansions may reach the agent in any order: their fencing
\* token does not change, and a cancelled one may still be on its way.
BkBegin(x) ==
    /\ bk[x].at \in {"idle", "done"}
    /\ bkBounds.calls < BkMaxCalls /\ Spend("calls")
    /\ \E op \in IF x = "look" THEN {"inspect"} ELSE {"create", "delete", "expand", "import", "verify"},
          s \in BkSizes, w \in BkIds, f \in BOOLEAN, m \in {"default", "linear", "thin"} :
         /\ op \in {"inspect", "verify"} => family # "zvol"
         /\ op \notin {"create", "expand", "import"} => s = CHOOSE z \in BkSizes : TRUE
         /\ op \notin {"import", "verify"} => w = CHOOSE z \in BkIds : TRUE
         /\ op \notin {"create", "import"} => f
         /\ op # "create" \/ family = "zvol" \/ ~f => m = "default"
         /\ bk' = [bk EXCEPT ![x] = [BkIdle EXCEPT !.op = op, !.at = "check", !.size = s,
                                                   !.want = w, !.fits = f, !.mode = m]]
    /\ Keep

\* Any command or kernel read of a call fails.
BkFault(x) == bk[x].at \notin {"idle", "done"} /\ BkFailed(x)

\* The agent process ends; the kernel closes its descriptors.
BkRestart ==
    /\ \E x \in Workers : bk[x].at \notin {"idle", "done"}
    /\ CanFail /\ Spend("faults")
    /\ bk' = [x \in Workers |-> BkIdle]
    /\ Keep

---------------------------------------------------------------------------

BkInit ==
    /\ family \in BkFamilies
    /\ \E s \in BkSizes, here \in BOOLEAN :
         LET d == CHOOSE z \in BkDevs : TRUE
             i == CHOOSE z \in BkIds : TRUE
         IN
         /\ vol = [j \in BkIds |-> IF here /\ j = i THEN NewVolume("v", Adoptable, s, d) ELSE NoVol]
         /\ link = IF here THEN d ELSE NoDev
    /\ bk = [x \in Workers |-> BkIdle]
    /\ bkBounds = [calls |-> 0, moves |-> 0, faults |-> 0]

BkNext ==
    \/ CreateCheck \/ createLinear \/ createThinLV \/ BkReadBack
    \/ DeleteVolume \/ expandLV \/ lvextend \/ expandZvol
    \/ importCandidate \/ importClaim \/ checkImportIdle \/ importVerify \/ importRelease
    \/ zvolProps \/ assertDeviceIdle \/ checkExclusiveClaim \/ VerifyLV
    \/ InspectLV \/ observeActiveLV \/ InspectReport
    \/ Rename \/ CreateOther \/ RemoveOther \/ Attach \/ Detach \/ Deactivate \/ BkSettle
    \/ \E x \in Workers : BkBegin(x) \/ BkFault(x)
    \/ BkRestart

BkSpec == BkInit /\ [][BkNext]_bkVars

---------------------------------------------------------------------------
(* Properties *)

BkTypeOK ==
    /\ family \in {"linear", "thin", "zvol"}
    /\ \A i \in Live :
         /\ vol[i].name \in {"v", "w"} /\ vol[i].size \in BkSizes /\ vol[i].dev \in BkDevs
         /\ vol[i].use \subseteq Consumers /\ vol[i].active \in BOOLEAN
    /\ link \in BkDevs \cup {NoDev}
    /\ \A x \in Workers : bk[x].claim \in BkDevs \cup {NoDev}

\* From the moment ImportLV decides to adopt until it answers, the LV whose UUID
\* the request pinned exists on the very device the call holds, and nothing else
\* holds it: no removal, re-creation on the same device number, exchange of
\* names, late udev link or new mount between the queries and the exclusive open
\* slips through (lvm/import.go).  A zvol is exempt: its request pins no
\* identity, and zfs/import.go gives up the claim before it answers, so a rename
\* after zvolProps goes unnoticed.
AdoptsPinnedIdle ==
    bk["rpc"].at = "adopted" /\ family # "zvol" =>
        LET i == bk["rpc"].want
        IN /\ i \in Live /\ vol[i].active
           /\ vol[i].dev = bk["rpc"].claim
           /\ vol[i].use \cap Exclusive = {}

\* No call of the backend makes a volume smaller: "Expand grows the backend
\* storage resource to at least requestedBytes" (backend.go), and the zvol
\* backend's comment says that ZFS rejects shrinking.
VolumeNeverShrinks ==
    [][\A i \in BkIds :
         i \in Live /\ i \in Live' => vol'[i].size >= vol[i].size]_bkVars

=============================================================================
