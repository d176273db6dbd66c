---------------------------- MODULE MCClaimStore ----------------------------
(* Small instances of ClaimStore for TLC. *)
EXTENDS ClaimStore, TLC

CONSTANTS n1, n2

\* n1 is a passage of paper 1, n2 of paper 2.
MCPassagePaper == [n \in Passages |-> IF n = n2 THEN 2 ELSE 1]

\* Workers run the same code; no property below names one.
WorkerSymmetry == Permutations(Workers)
=============================================================================
