---------------------------- MODULE MCFencedAgent ----------------------------
(* Instances of FencedAgent for TLC. *)
EXTENDS FencedAgent, TLC

Symmetric == Permutations(UIDs)
=============================================================================
