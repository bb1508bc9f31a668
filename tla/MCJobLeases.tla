---------------------------- MODULE MCJobLeases ----------------------------
(***************************************************************************)
(* Two replicas under one name, which may die, and one under another.      *)
(***************************************************************************)
EXTENDS JobLeases

CONSTANTS r1, r2, r3

MCReplicas == {r1, r2, r3}
MCOwner    == [r \in MCReplicas |-> IF r = r3 THEN "other" ELSE "fersaku-worker"]
=============================================================================
