--------------------------- MODULE FencedResource ---------------------------
(***************************************************************************)
(* What the agent's fencing promises about one volume ID, without marks,   *)
(* files or locks: the mutations that reach the storage and its export are *)
(* grouped by lifecycle, a lifecycle that was followed by another one never *)
(* acts again, and within a lifecycle generations never go back.           *)
(***************************************************************************)
EXTENDS Naturals

CONSTANTS UIDs, NoUID, Gens

VARIABLES
    last,  \* token of the last mutation
    dead   \* lifecycles that can never act again

Init ==
    /\ last = [uid |-> NoUID, gen |-> 0]
    /\ dead = {}

Execute(tok) ==
    /\ tok.uid \notin dead
    /\ tok.uid = last.uid => tok.gen >= last.gen
    /\ last' = tok
    /\ dead' = IF last.uid \in {NoUID, tok.uid} THEN dead ELSE dead \cup {last.uid}

Next == \E u \in UIDs, g \in Gens : Execute([uid |-> u, gen |-> g])

Spec == Init /\ [][Next]_<<last, dead>>
=============================================================================
