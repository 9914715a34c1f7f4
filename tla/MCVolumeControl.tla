--------------------------- MODULE MCVolumeControl ---------------------------
(* Instances of VolumeControl for TLC. *)
EXTENDS VolumeControl, TLC

CreateDelete == {"CreateVolume", "DeleteVolume"}
CreateReap == {"CreateVolume", "ReapAbandonedVolume"}
CreateDeleteReap == CreateDelete \cup CreateReap
Publishing == {"ControllerPublishVolume", "ControllerUnpublishVolume",
               "ReconcileVolumeExport"}
PublishAll == Publishing \cup {"DeleteVolume"}

Plain == [shareable |-> FALSE, localAttach |-> FALSE, imported |-> FALSE]
Shared == [Plain EXCEPT !.shareable = TRUE]
Local == [Plain EXCEPT !.localAttach = TRUE]
Import == [Plain EXCEPT !.imported = TRUE]

Created == {Plain}
Imports == {Import}
CreatedAndImported == {Plain, Import}
Published == {Plain, Shared, Local}
LocalAttached == {Local}

\* A localAttach volume is published by one controller process at a time (two
\* of them are the local_attach_race run); its longer moves between the nodes
\* need more generations than the other volumes.
Explored ==
    IF LocalAttach THEN Cardinality({w \in Workers : ~Idle(w)}) <= 1
    ELSE pvs.gen <= 7

Symmetric == Permutations(UIDs) \cup Permutations(Workers)
=============================================================================
