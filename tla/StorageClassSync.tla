-------------------------- MODULE StorageClassSync --------------------------
(***************************************************************************)
(* The StorageClass that a PillarStorageClass (the binding) generates      *)
(* (internal/controller/pillarstorageclass_controller.go).  A StorageClass *)
(* is immutable but for its metadata and allowVolumeExpansion, so a change *)
(* of the binding deletes and re-creates it.  What the administrator put   *)
(* on the class (labels, annotations, topologies) is carried over through  *)
(* a record on the binding, across failing calls and controller restarts,  *)
(* while the reconciler reads from caches that lag behind the API server,  *)
(* each on its own.                                                        *)
(*                                                                         *)
(* A copy of an object is [val, cur]: its value, and whether it is still   *)
(* the version the API server holds, which is what resourceVersion decides.*)
(***************************************************************************)
EXTENDS Naturals

CONSTANTS
    ScParams,     \* the immutable managed fields a binding may ask for
    ScMetas,      \* what an administrator may put on the class
    ScMaxEdits,   \* how many edits people make
    ScMaxFaults   \* how many calls to the API server fail

VARIABLES
    class,      \* the StorageClass in the API server
    binding,    \* the PillarStorageClass in the API server
    classC,     \* the informer's copy of the class
    bindingC,   \* the informer's copy of the binding
    so,         \* the reconcile pass of the binding's worker
    promise,    \* the metadata the class must keep, Free when it was deleted by hand
    scBounds    \* what is left of the bounds

scVars == <<class, binding, classC, bindingC, so, promise, scBounds>>

NoClass == [owner |-> "absent"]
NoCarry == "no record"
Blank == "no metadata"
Free == "no promise"

\* An administrator's metadata is none of the values that stand for its absence.
ASSUME ScAssumption == NoCarry \notin ScMetas /\ Free \notin ScMetas

Classes == [owner : {"binding", "other", "none"}, driver : {"block", "files", "foreign"},
            params : ScParams, expands : BOOLEAN, meta : ScMetas \cup {Blank}]
BindingStates == [params : ScParams, expands : BOOLEAN, carry : ScMetas \cup {Blank, NoCarry}]

Copy(x) == [val |-> x, cur |-> TRUE]
Stale(c) == [c EXCEPT !.cur = FALSE]
ScIdle == [at |-> "idle"]

\* An administrator may have written the class before the binding asked for it.
ScInit ==
    /\ binding \in [params : ScParams, expands : {TRUE}, carry : {NoCarry}]
    /\ class \in {NoClass} \cup
           [owner : {"binding", "other", "none"}, driver : {"block", "files", "foreign"},
            params : ScParams, expands : {TRUE}, meta : ScMetas]
    /\ class # NoClass /\ class.owner = "binding" => class.driver = "block"
    /\ classC = Copy(class)
    /\ bindingC = Copy(binding)
    /\ so = ScIdle
    /\ promise = IF class = NoClass THEN Free ELSE class.meta
    /\ scBounds = [edits |-> ScMaxEdits, faults |-> ScMaxFaults]

\* The class that applyDesiredStorageClass makes of the binding's fields.
desiredStorageClassFor(b, m) ==
    [owner |-> "binding", driver |-> "block", params |-> b.params, expands |-> b.expands, meta |-> m]

\* A managed field that the API server refuses to update differs.
storageClassImmutableDrift(c, b) == c.driver # "block" \/ c.params # b.params

isPillarDriver(c) == c.driver \in {"block", "files"}

\* The API server holds a new value: no other copy is current any more.
WriteClass(c) ==
    /\ class' = c
    /\ classC' = IF c = class THEN classC ELSE Stale(classC)
WriteBinding(b) ==
    /\ binding' = b
    /\ bindingC' = IF b = binding THEN bindingC ELSE Stale(bindingC)

\* The pass ends in an error, and the workqueue starts another one later.
ScFails == so' = ScIdle

Lose == scBounds' = [scBounds EXCEPT !.faults = @ - 1]

\* A pass starts with the informer's copy of the binding.
ReconcileClass ==
    /\ so.at = "idle"
    /\ so' = [at |-> "get", b |-> bindingC]
    /\ UNCHANGED <<class, binding, classC, bindingC, promise, scBounds>>

recreateWithoutRecord ==
    /\ classC.val.owner # "other"
    /\ so' = [at |-> "delete", b |-> so.b, c |-> classC, carry |-> classC.val.meta]

\* recreateStorageClass up to its first write: a class that another object
\* controls is never deleted; the metadata to keep is that of the copy.
recreateStorageClass ==
    /\ classC.val.owner # "other"
    /\ so' = [at |-> "record", b |-> so.b, c |-> classC, carry |-> classC.val.meta]

carryOverFromCache(absent) == so.b

\* The binding that holds the record of an interrupted re-create: the one in
\* the API server when the class is absent, because the cached one may be older.
carryOverCheckpoint(absent) == IF absent THEN Copy(binding) ELSE so.b

\* reconcileStorageClass looks at the informer's copy of the class.
GetClass ==
    /\ so.at = "get"
    /\ LET c == classC.val
           drifts == c # NoClass /\ storageClassImmutableDrift(c, so.b.val)
           otherDriver == c # NoClass /\ isPillarDriver(c) /\ c.driver # "block"
       IN \/ otherDriver /\ ScFails
          \/ ~otherDriver /\ drifts /\ recreateStorageClass
          \/ ~otherDriver /\ drifts /\ c.owner = "other" /\ ScFails
          \/ ~otherDriver /\ ~drifts
             /\ so' = [at |-> "apply", b |-> so.b, check |-> carryOverCheckpoint(c = NoClass)]
    /\ UNCHANGED <<class, binding, classC, bindingC, promise, scBounds>>

\* A create completing an interrupted re-create restores the recorded metadata.
pendingCarryOver == so.check.val.carry # NoCarry
CreatedMeta == IF pendingCarryOver THEN so.check.val.carry ELSE Blank

AfterApply == so' = IF pendingCarryOver THEN [at |-> "clear", b |-> so.check] ELSE ScIdle

\* controllerutil.CreateOrUpdate: it reads the informer's copy again, creates the class
\* when that is absent, and otherwise updates what may be updated.
CreateOrUpdate ==
    /\ so.at = "apply"
    /\ LET c == classC.val
           next == desiredStorageClassFor(so.b.val, c.meta)
       IN \/ /\ c = NoClass /\ class = NoClass
             /\ WriteClass(desiredStorageClassFor(so.b.val, CreatedMeta))
             /\ AfterApply
          \/ /\ c = NoClass /\ class # NoClass
             /\ ScFails
             /\ UNCHANGED <<class, classC>>
          \/ /\ c # NoClass
             /\ \/ /\ c.owner = "other" \/ (next # c /\ (~classC.cur \/ storageClassImmutableDrift(c, so.b.val)))
                   /\ ScFails
                   /\ UNCHANGED <<class, classC>>
                \/ /\ c.owner # "other"
                   /\ next # c => classC.cur /\ ~storageClassImmutableDrift(c, so.b.val)
                   /\ IF next = c THEN UNCHANGED <<class, classC>> ELSE WriteClass(next)
                   /\ AfterApply
    /\ promise' = IF class = NoClass /\ class' # NoClass /\ promise = Free THEN class'.meta ELSE promise
    /\ UNCHANGED <<binding, bindingC, scBounds>>

\* recordCarryOver writes the record, or removes it: an update of the binding
\* that the API server refuses when the copy is not current.
recordCarryOver(c) ==
    \/ /\ so.b.cur
       /\ WriteBinding([binding EXCEPT !.carry = c])
    \/ /\ ~so.b.cur
       /\ UNCHANGED <<binding, bindingC>>

RecordCarryOver ==
    /\ so.at = "record"
    /\ recordCarryOver(so.carry)
    /\ IF so.b.cur THEN so' = [so EXCEPT !.at = "delete", !.b.val.carry = so.carry] ELSE ScFails
    /\ UNCHANGED <<class, classC, promise, scBounds>>

PreconditionsNone == TRUE

\* The preconditions pin the delete to the object whose drift was observed; an
\* object that is already gone is fine.
Preconditions == class = NoClass \/ so.c.cur

DeleteForRecreation ==
    /\ so.at = "delete"
    /\ IF Preconditions
       THEN so' = [so EXCEPT !.at = "create"] /\ WriteClass(NoClass)
       ELSE ScFails /\ UNCHANGED <<class, classC>>
    /\ UNCHANGED <<binding, bindingC, promise, scBounds>>

CreateReplacement ==
    /\ so.at = "create"
    /\ IF class = NoClass
       THEN /\ WriteClass(desiredStorageClassFor(so.b.val, so.carry))
            /\ so' = [at |-> "clear", b |-> so.b]
       ELSE ScFails /\ UNCHANGED <<class, classC>>
    /\ promise' = IF class = NoClass /\ promise = Free THEN so.carry ELSE promise
    /\ UNCHANGED <<binding, bindingC, scBounds>>

ClearCarryOver ==
    /\ so.at = "clear"
    /\ recordCarryOver(NoCarry)
    /\ ScFails
    /\ UNCHANGED <<class, classC, promise, scBounds>>

\* A call of the pass fails: it had no effect, and the pass returns the error.
CallFails ==
    /\ so.at # "idle" /\ scBounds.faults > 0
    /\ ScFails /\ Lose
    /\ UNCHANGED <<class, binding, classC, bindingC, promise>>

\* The answer of a write is lost: it had its effect, and the pass ends.
AnswerLost ==
    /\ so.at \in {"record", "delete", "create", "clear"} /\ scBounds.faults > 0
    /\ CASE so.at = "record" -> recordCarryOver(so.carry) /\ UNCHANGED <<class, classC, promise>>
         [] so.at = "clear" -> recordCarryOver(NoCarry) /\ UNCHANGED <<class, classC, promise>>
         [] so.at = "delete" -> /\ Preconditions /\ WriteClass(NoClass)
                                /\ UNCHANGED <<binding, bindingC, promise>>
         [] so.at = "create" -> /\ class = NoClass
                                /\ WriteClass(desiredStorageClassFor(so.b.val, so.carry))
                                /\ promise' = IF promise = Free THEN so.carry ELSE promise
                                /\ UNCHANGED <<binding, bindingC>>
    /\ ScFails /\ Lose

\* The controller restarts: the caches are listed anew.
ControllerRestarts ==
    /\ so.at # "idle" /\ scBounds.faults > 0
    /\ ScFails /\ Lose
    /\ classC' = Copy(class) /\ bindingC' = Copy(binding)
    /\ UNCHANGED <<class, binding, promise>>

\* The informers advance, each on its own.
InformerAdvances ==
    /\ \/ ~classC.cur /\ classC' = Copy(class) /\ UNCHANGED bindingC
       \/ ~bindingC.cur /\ bindingC' = Copy(binding) /\ UNCHANGED classC
    /\ UNCHANGED <<class, binding, so, promise, scBounds>>

\* The copies a pass holds are outdated by a write that is not its own.
PassOutdated ==
    so' = [f \in DOMAIN so |->
              CASE f = "c" /\ class' # class -> Stale(so.c)
                [] f \in {"b", "check"} /\ binding' # binding -> Stale(so[f])
                [] OTHER -> so[f]]

Edit == scBounds.edits > 0 /\ scBounds' = [scBounds EXCEPT !.edits = @ - 1]

\* People edit the binding, put metadata on the class, or delete the class.  An
\* edit of the binding while a re-create is recorded ends the promise: when it
\* takes the binding back, the lagging copy of the deleted class passes for the
\* wanted one, and the record is removed although the class is gone.
EditBinding ==
    /\ Edit
    /\ \E p \in ScParams, e \in BOOLEAN :
          WriteBinding([binding EXCEPT !.params = p, !.expands = e])
    /\ binding' # binding
    /\ promise' = IF binding.carry = NoCarry THEN promise ELSE Free
    /\ UNCHANGED <<class, classC>>
    /\ PassOutdated

EditMetadata ==
    /\ Edit
    /\ class # NoClass /\ class.owner # "other"
    /\ \E m \in ScMetas \ {class.meta} : WriteClass([class EXCEPT !.meta = m]) /\ promise' = m
    /\ UNCHANGED <<binding, bindingC>>
    /\ PassOutdated

DeleteByHand ==
    /\ Edit
    /\ class # NoClass /\ class.owner # "other"
    /\ WriteClass(NoClass) /\ promise' = Free
    /\ UNCHANGED <<binding, bindingC>>
    /\ PassOutdated

\* Another object comes to control the class of the binding's name: it creates
\* one, or takes one that nobody controls.
Takeable ==
    IF class = NoClass THEN {c \in Classes : c.owner = "other"}
    ELSE {c \in Classes : class.owner = "none" /\ c = [class EXCEPT !.owner = "other"]}

AnotherTakes ==
    /\ Edit
    /\ \E c \in Takeable : WriteClass(c) /\ promise' = c.meta
    /\ UNCHANGED <<binding, bindingC>>
    /\ PassOutdated

ScNext ==
    \/ ReconcileClass \/ GetClass \/ CreateOrUpdate
    \/ RecordCarryOver \/ DeleteForRecreation \/ CreateReplacement \/ ClearCarryOver
    \/ CallFails \/ AnswerLost \/ ControllerRestarts \/ InformerAdvances
    \/ EditBinding \/ EditMetadata \/ DeleteByHand \/ AnotherTakes

ScSpec == ScInit /\ [][ScNext]_scVars
-----------------------------------------------------------------------------
\* The objects, their copies and the pass keep their type.
ScTypeOK ==
    /\ class \in Classes \cup {NoClass} /\ classC.val \in Classes \cup {NoClass}
    /\ binding \in BindingStates /\ bindingC.val \in BindingStates
    /\ promise \in ScMetas \cup {Blank, Free}
    /\ so.at \in {"idle", "get", "apply", "record", "delete", "create", "clear"}

\* What an administrator put on the class is on it whenever it exists, unless
\* they deleted it or edited the binding during the re-create: no failed call,
\* restart or lagging cache loses it (storageClassCarryOverAnnotation).
MetadataKept == class # NoClass /\ promise # Free => class.meta = promise

\* From the moment another object controls the class of the binding's name, the
\* passes of the living binding neither change nor delete it, also a pass that
\* began before, on a copy that shows the class as the binding's own or as
\* nobody's (recreateStorageClass and the preconditions of its delete,
\* SetControllerReference, the API server's check of the version).  It says
\* nothing of a class that nobody controls, which a pass adopts or re-creates,
\* nor of the binding's deletion: reconcileDelete deletes the class of the
\* binding's name whoever controls it.
ForeignKept == class # NoClass /\ class.owner = "other" => class' = class
=============================================================================
