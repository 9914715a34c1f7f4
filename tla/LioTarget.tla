----------------------------- MODULE LioTarget -----------------------------
(***************************************************************************)
(* The iSCSI target of one volume, written through LIO's configfs by the   *)
(* agent (internal/agent/lio, protocol_handler_iscsi.go).                  *)
(*                                                                         *)
(* Targets share nothing, and a call holds the lock of its target, so one  *)
(* target and one call at a time are enough.  A call is a sequence of      *)
(* configfs steps; one may fail or the agent may die between two, and the  *)
(* next call finds what is there.  A reboot empties configfs.              *)
(***************************************************************************)
EXTENDS Naturals, Sequences

LOCAL INSTANCE SequencesExt

CONSTANTS
    LioInitiators,   \* initiator IQNs
    LioNobody,       \* the initiator of a step that concerns none
    LioMaxCalls, LioMaxFaults, LioMaxBoots

VARIABLES
    tpg,        \* configfs: the target and its portal group
    acl,        \* configfs: the node ACL of each initiator
    lioOp,      \* the running call and the steps it has still to take
    lioHeld,    \* the storage node holds the device for itself
    lioRecord,  \* the controller's record of the export
    lioGranted, \* initiators whose grant was reported and not taken back
    lioWithdrawn, \* initiators no grant was recorded for since the last
                  \* withdrawal that succeeded
    lioPending, \* Server.exportRestorePending
    lioBoot, lioCalls, lioFaults

lioVars == <<tpg, acl, lioOp, lioHeld, lioRecord, lioGranted, lioWithdrawn,
             lioPending, lioBoot, lioCalls, lioFaults>>

\* serial: vpd_unit_serial is the derived one.  attribs: the authentication
\* and node ACL attributes are written.
NoTPG == [dir |-> FALSE, attribs |-> FALSE, backstore |-> "none",
          serial |-> FALSE, lun |-> "none", portal |-> FALSE, enabled |-> FALSE]
NoACL == [dir |-> FALSE, auth |-> FALSE, mapped |-> FALSE]
LioNoCall == [rpc |-> "none", todo |-> <<>>, host |-> LioNobody,
              fresh |-> FALSE, failed |-> FALSE]
LioUnexported == [exported |-> FALSE, hosts |-> {}, local |-> FALSE]

LioInit ==
    /\ tpg = NoTPG
    /\ acl = [h \in LioInitiators |-> NoACL]
    /\ lioOp = LioNoCall
    /\ lioHeld = FALSE
    /\ lioRecord = LioUnexported
    /\ lioGranted = {}
    /\ lioWithdrawn = LioInitiators
    /\ lioPending = TRUE
    /\ lioBoot = 1 /\ lioCalls = 0 /\ lioFaults = 0

(***************************************************************************)
(* Calls as sequences of configfs steps.                                   *)
(***************************************************************************)
LioStep(do, h) == [do |-> do, h |-> h]
LioDo(do) == <<LioStep(do, LioNobody)>>

LioEach(hs, Steps(_)) ==
    LET order == SetToSeq(hs)
    IN  FlattenSeq([i \in DOMAIN order |-> Steps(order[i])])

Initiators == {h \in LioInitiators : acl[h].dir}

ensureMappedLUN(h) == <<LioStep("map", h)>>
ensureACLAuth(h) == <<LioStep("auth", h)>>
allowInitiator(h) == <<LioStep("acl", h)>> \o ensureACLAuth(h) \o ensureMappedLUN(h)
removeMappedLUNs(h) == <<LioStep("unmap", h)>>
removeACL(h) == removeMappedLUNs(h) \o <<LioStep("aclRemove", h)>>

attachLUNUnmapped ==
    LioDo("backstore") \o LioDo("configure") \o LioDo("serial")
      \o LioDo("lunDir") \o LioDo("lunLink")

\* The backstore, the LUN bound to it, and the LUN in every existing ACL.
attachLUN ==
    LioDo("backstore") \o LioDo("configure") \o LioDo("serial")
      \o LioDo("lunDir") \o LioDo("lunLink")
      \o LioEach(Initiators, ensureMappedLUN)

\* Serving stops first, and the backstore, which holds the device, goes last.
detachLUN ==
    (IF tpg.dir
     THEN LioDo("disable") \o LioEach(Initiators, removeMappedLUNs)
            \o LioDo("lunRemove")
     ELSE <<>>)
      \o LioDo("backstoreRemove")

\* Prepare; the ACLs it finds are given the credentials too.
LioPrepare(hs, local) ==
    LioDo("tpg") \o (IF local THEN detachLUN ELSE attachLUN) \o LioDo("attribs")
      \o LioEach(hs, allowInitiator) \o LioEach(Initiators \cup hs, ensureACLAuth)

Activate(local) ==
    LioDo("portal") \o LioDo(IF local THEN "disable" ELSE "enable")

RevokeNobody(keep) == <<>>

\* Revokes the ACLs the record does not list: what a withdrawal that failed
\* left behind, and attachLUN may have mapped again before.
RevokeInitiatorsExcept(keep) == LioEach(Initiators \ keep, removeACL)

EnterLocalAttach == detachLUN
LeaveLocalAttach == attachLUN \o LioDo("enable")

LioRemove ==
    (IF tpg.dir
     THEN LioDo("disable") \o LioEach(Initiators, removeACL)
            \o LioDo("portalRemove") \o LioDo("lunRemove") \o LioDo("tpgRemove")
     ELSE <<>>)
      \o LioDo("backstoreRemove")

(***************************************************************************)
(* The requests.                                                           *)
(***************************************************************************)
LioBegin(rpc, h, steps) ==
    /\ lioOp = LioNoCall
    /\ lioCalls < LioMaxCalls
    /\ lioOp' = [LioNoCall EXCEPT !.rpc = rpc, !.host = h, !.todo = steps]
    /\ lioCalls' = lioCalls + 1
    /\ UNCHANGED <<tpg, acl, lioHeld, lioPending, lioBoot, lioFaults>>

LioExport ==
    /\ ~lioPending /\ ~lioRecord.exported
    /\ LioBegin("export", LioNobody, LioPrepare({}, FALSE) \o Activate(FALSE))
    /\ UNCHANGED <<lioRecord, lioGranted, lioWithdrawn>>

LioUnexport ==
    /\ LioBegin("unexport", LioNobody, LioRemove)
    /\ lioRecord' = LioUnexported
    /\ lioGranted' = {}
    /\ UNCHANGED lioWithdrawn

\* requireTPG: a missing target is an error before anything is written.
LioAllow(h) ==
    /\ ~lioPending /\ lioRecord.exported /\ tpg.dir
    /\ LioBegin("allow", h, allowInitiator(h))
    /\ lioRecord' = [lioRecord EXCEPT !.hosts = @ \cup {h}]
    /\ lioWithdrawn' = lioWithdrawn \ {h}
    /\ UNCHANGED lioGranted

LioDeny(h) ==
    /\ lioRecord.exported
    /\ LioBegin("deny", h, removeACL(h))
    /\ lioRecord' = [lioRecord EXCEPT !.hosts = @ \ {h}]
    /\ lioGranted' = lioGranted \ {h}
    /\ UNCHANGED lioWithdrawn

LioSetLocalAttach(local) ==
    /\ ~lioPending /\ lioRecord.exported /\ tpg.dir
    /\ LioBegin(IF local THEN "local" ELSE "remote", LioNobody,
                IF local THEN EnterLocalAttach ELSE LeaveLocalAttach)
    /\ lioRecord' = [lioRecord EXCEPT !.local = local]
    /\ UNCHANGED <<lioGranted, lioWithdrawn>>

\* Reconcile: prepareTarget with the initiators of the record, then Activate.
LioReconcile(complete) ==
    /\ complete \/ (~lioPending /\ lioRecord.exported)
    /\ LioBegin(IF complete THEN "complete" ELSE "reconcile", LioNobody,
                IF lioRecord.exported
                THEN LioPrepare(lioRecord.hosts, lioRecord.local)
                       \o RevokeInitiatorsExcept(lioRecord.hosts)
                       \o Activate(lioRecord.local)
                ELSE <<>>)
    /\ UNCHANGED <<lioRecord, lioGranted, lioWithdrawn>>

(***************************************************************************)
(* One configfs step.                                                      *)
(***************************************************************************)
LioAt(do) == lioOp.todo # <<>> /\ Head(lioOp.todo).do = do
LioHost == Head(lioOp.todo).h
LioAdvance == lioOp' = [lioOp EXCEPT !.todo = Tail(@)]
LioFailed == lioOp' = [lioOp EXCEPT !.todo = <<>>, !.failed = TRUE]
Tpg(t) == tpg' = t /\ LioAdvance /\ UNCHANGED acl

\* ensureBackstore and configureBackstore: enabling opens the device
\* exclusively, so a device the storage node holds is refused and a backstore
\* made for the attempt is removed.  A backstore comes with a serial of the
\* kernel's.
ensureBackstore ==
    \/ /\ LioAt("backstore")
       /\ tpg' = [tpg EXCEPT !.backstore = IF @ = "none" THEN "dir" ELSE @]
       /\ lioOp' = [lioOp EXCEPT !.todo = Tail(@),
                                 !.fresh = (tpg.backstore = "none")]
       /\ UNCHANGED acl
    \/ /\ LioAt("configure")
       /\ IF tpg.backstore = "dir" /\ lioHeld
          THEN /\ tpg' = [tpg EXCEPT !.backstore =
                            IF lioOp.fresh THEN "none" ELSE @]
               /\ LioFailed
          ELSE /\ tpg' = [tpg EXCEPT !.backstore = "enabled"]
               /\ LioAdvance
       /\ UNCHANGED acl

\* ensureUnitSerial: a serial cannot change under a bound LUN.
ensureUnitSerial ==
    /\ LioAt("serial")
    /\ IF tpg.lun = "bound" /\ ~tpg.serial
       THEN LioFailed /\ UNCHANGED <<tpg, acl>>
       ELSE Tpg([tpg EXCEPT !.serial = TRUE])

\* ensureDir of the target and its portal group; ensureTPGAttribs.
ensureTPG ==
    \/ LioAt("tpg") /\ Tpg([tpg EXCEPT !.dir = TRUE])
    \/ LioAt("attribs") /\ Tpg([tpg EXCEPT !.attribs = TRUE])

ensureLUN ==
    \/ LioAt("lunDir")
         /\ Tpg([tpg EXCEPT !.lun = IF @ = "none" THEN "dir" ELSE @])
    \/ LioAt("lunLink") /\ Tpg([tpg EXCEPT !.lun = "bound"])

\* allowInitiator maps the LUN only when its directory exists, and the kernel
\* refuses to map a LUN that is not bound.
ensureACL ==
    LET h == LioHost
    IN  /\ UNCHANGED tpg
        /\ \/ /\ LioAt("acl")
              /\ acl' = [acl EXCEPT ![h].dir = TRUE]
              /\ LioAdvance
           \/ /\ LioAt("auth")
              /\ acl' = [acl EXCEPT ![h].auth = TRUE]
              /\ LioAdvance
           \/ /\ LioAt("map") /\ tpg.lun = "bound"
              /\ acl' = [acl EXCEPT ![h].mapped = TRUE]
              /\ LioAdvance
           \/ LioAt("map") /\ tpg.lun = "dir" /\ LioFailed /\ UNCHANGED acl
           \/ LioAt("map") /\ tpg.lun = "none" /\ LioAdvance /\ UNCHANGED acl

removeInitiator ==
    LET h == LioHost
    IN  /\ \/ LioAt("unmap") /\ acl' = [acl EXCEPT ![h].mapped = FALSE]
           \/ LioAt("aclRemove") /\ acl' = [acl EXCEPT ![h] = NoACL]
        /\ LioAdvance
        /\ UNCHANGED tpg

\* The portal of the export; TPG enable, which Activate refuses while LUN 0 is
\* not bound.
activate ==
    \/ LioAt("portal") /\ Tpg([tpg EXCEPT !.portal = TRUE])
    \/ LioAt("disable") /\ Tpg([tpg EXCEPT !.enabled = FALSE])
    \/ LioAt("enable") /\ tpg.lun = "bound" /\ Tpg([tpg EXCEPT !.enabled = TRUE])
    \/ LioAt("enable") /\ tpg.lun # "bound" /\ LioFailed /\ UNCHANGED <<tpg, acl>>

removeTarget ==
    \/ LioAt("lunRemove") /\ Tpg([tpg EXCEPT !.lun = "none"])
    \/ LioAt("portalRemove") /\ Tpg([tpg EXCEPT !.portal = FALSE])
    \/ LioAt("tpgRemove")
         /\ Tpg([NoTPG EXCEPT !.backstore = tpg.backstore, !.serial = tpg.serial])
    \/ LioAt("backstoreRemove")
         /\ Tpg([tpg EXCEPT !.backstore = "none", !.serial = FALSE])

LioStepDone ==
    /\ \/ ensureBackstore
       \/ ensureUnitSerial
       \/ ensureTPG
       \/ ensureLUN
       \/ ensureACL
       \/ removeInitiator
       \/ activate
       \/ removeTarget
    /\ UNCHANGED <<lioHeld, lioRecord, lioGranted, lioWithdrawn, lioPending,
                   lioBoot, lioCalls, lioFaults>>

LioStepFails ==
    /\ lioFaults < LioMaxFaults
    /\ lioOp.todo # <<>>
    /\ lioFaults' = lioFaults + 1
    /\ LioFailed
    /\ tpg' = IF LioAt("configure") /\ tpg.backstore = "dir" /\ lioOp.fresh
              THEN [tpg EXCEPT !.backstore = "none"] ELSE tpg
    /\ UNCHANGED <<acl, lioHeld, lioRecord, lioGranted, lioWithdrawn,
                   lioPending, lioBoot, lioCalls>>

\* What the caller may now rely on: an initiator allowed, or all of the
\* record's after a reconcile that succeeded; an initiator denied, all of them
\* without the target, or those a reconcile does not list.
LioReturns ==
    LET c == lioOp
        all == c.rpc \in {"reconcile", "complete"} /\ lioRecord.exported
    IN  /\ c # LioNoCall /\ c.todo = <<>>
        /\ lioOp' = LioNoCall
        /\ lioPending' = (lioPending /\ c.rpc # "complete")
        /\ lioGranted' = IF c.failed THEN lioGranted
                         ELSE IF all THEN lioRecord.hosts
                         ELSE IF c.rpc = "allow" THEN lioGranted \cup {c.host}
                         ELSE lioGranted
        /\ lioWithdrawn' = IF c.failed THEN lioWithdrawn
                           ELSE IF c.rpc = "unexport" THEN LioInitiators
                           ELSE IF all THEN LioInitiators \ lioRecord.hosts
                           ELSE IF c.rpc = "deny" THEN lioWithdrawn \cup {c.host}
                           ELSE lioWithdrawn
        /\ \E recorded \in BOOLEAN :
             lioRecord' = IF c.rpc = "export" /\ ~c.failed /\ recorded
                          THEN [lioRecord EXCEPT !.exported = TRUE]
                          ELSE lioRecord
        /\ UNCHANGED <<tpg, acl, lioHeld, lioBoot, lioCalls, lioFaults>>

LioAgentRestarts ==
    /\ lioFaults < LioMaxFaults
    /\ lioFaults' = lioFaults + 1
    /\ lioOp' = LioNoCall
    /\ lioPending' = TRUE
    /\ UNCHANGED <<tpg, acl, lioHeld, lioRecord, lioGranted, lioWithdrawn,
                   lioBoot, lioCalls>>

LioReboots ==
    /\ lioBoot < LioMaxBoots
    /\ lioBoot' = lioBoot + 1
    /\ tpg' = NoTPG
    /\ acl' = [h \in LioInitiators |-> NoACL]
    /\ lioOp' = LioNoCall
    /\ lioHeld' = FALSE
    /\ lioPending' = TRUE
    /\ UNCHANGED <<lioRecord, lioGranted, lioWithdrawn, lioCalls, lioFaults>>

\* The node plugin of the storage node claims the device once it finds no
\* exported LUN, which an enabled backstore excludes, and lets go of it.
LioNodeHolds ==
    /\ lioHeld \/ (lioRecord.local /\ tpg.lun = "none" /\ tpg.backstore # "enabled")
    /\ lioHeld' = ~lioHeld
    /\ UNCHANGED <<tpg, acl, lioOp, lioRecord, lioGranted, lioWithdrawn,
                   lioPending, lioBoot, lioCalls, lioFaults>>

LioNext ==
    \/ LioExport
    \/ LioUnexport
    \/ \E h \in LioInitiators : LioAllow(h) \/ LioDeny(h)
    \/ \E local \in BOOLEAN : LioSetLocalAttach(local)
    \/ \E complete \in BOOLEAN : LioReconcile(complete)
    \/ LioStepDone
    \/ LioStepFails
    \/ LioReturns
    \/ LioAgentRestarts
    \/ LioReboots
    \/ LioNodeHolds

LioSpec == LioInit /\ [][LioNext]_lioVars

LioTypeOK ==
    /\ tpg.backstore \in {"none", "dir", "enabled"}
    /\ tpg.lun \in {"none", "dir", "bound"}
    /\ \A h \in LioInitiators : acl[h].mapped => acl[h].dir
    /\ lioGranted \subseteq LioInitiators
    /\ lioRecord.hosts \subseteq LioInitiators

\* Whatever calls failed or were interrupted before, and however often the node
\* rebooted, a portal that answers logins serves the volume: LUN 0 is bound to
\* the enabled backstore under its derived serial, every initiator whose grant
\* was reported and not taken back has it mapped, with its credentials, and the
\* storage node does not hold the device (target.go attachLUN, Activate,
\* LeaveLocalAttach; protocol_handler_iscsi.go Reconcile).
LioServesGranted ==
    tpg.enabled /\ tpg.portal =>
      /\ tpg.lun = "bound" /\ tpg.backstore = "enabled" /\ tpg.serial
      /\ ~lioHeld
      /\ tpg.attribs
      /\ \A h \in lioGranted : acl[h].mapped /\ acl[h].auth

\* An initiator has an ACL, and so a mapped LUN, only on the strength of a
\* grant that was recorded before; once a withdrawal of it returned success
\* it has none until the next grant is recorded.  A deny that failed half way
\* may leave an ACL which attachLUN maps again, until the next deny or
\* Reconcile removes it (target.go DenyInitiator, removeACL,
\* RevokeInitiatorsExcept, Remove).
LioWithdrawalHolds == \A h \in lioWithdrawn : acl[h] = NoACL
====
