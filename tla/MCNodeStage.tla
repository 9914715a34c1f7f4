---------------------------- MODULE MCNodeStage ----------------------------
EXTENDS NodeStage

AllKinds ==
    {k \in StageKind : k.mode = "nfs" => k.access # "block"}
=============================================================================
