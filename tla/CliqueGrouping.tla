--------------------------- MODULE CliqueGrouping ---------------------------
(***************************************************************************)
(* What canonicalization promises of a model's answer: claims are joined   *)
(* two groups at a time, only if every two of their members were called    *)
(* duplicates, until no two groups can be joined.  Which groups come first *)
(* is left open.  CanonicalGroups implements it.                           *)
(***************************************************************************)
CONSTANT Claims

VARIABLES
  accepted,   \* the pairs the model called duplicates
  groups,     \* a partition of the claims
  finished

vars == <<accepted, groups, finished>>

Joinable(g, h) == g # h /\ \A c \in g, d \in h : {c, d} \in accepted

Init ==
  /\ accepted \subseteq {{c, d} : c, d \in Claims}
  /\ groups = {{c} : c \in Claims}
  /\ finished = FALSE

Join ==
  /\ ~finished
  /\ \E g, h \in groups :
       Joinable(g, h) /\ groups' = (groups \ {g, h}) \cup {g \cup h}
  /\ UNCHANGED <<accepted, finished>>

Finish ==
  /\ \A g, h \in groups : ~Joinable(g, h)
  /\ finished' = TRUE
  /\ UNCHANGED <<accepted, groups>>

Next == Join \/ Finish

Spec == Init /\ [][Next]_vars
=============================================================================
