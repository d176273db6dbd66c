-------------------------- MODULE MCEvidenceSweep --------------------------
(* Two scopes that share a paper, the first of which may reach the ceiling, *)
(* and a claim with the duplicate that points to it.                        *)
EXTENDS EvidenceSweep

mcRootOf   == [c \in {"claim", "duplicate"} |-> "claim"]
mcMatching == [s \in {"a", "b"} |-> IF s = "a" THEN {1, 2} ELSE {2}]
=============================================================================
