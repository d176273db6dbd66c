---------------------------- MODULE ScoreRubric ----------------------------
(***************************************************************************)
(* The two scores of a claim: how reliably the pipeline extracted it       *)
(* (score_confidence) and how good its evidence is (score_quality, by the  *)
(* rubric of rubric.md).  A ratio is a percentage and a contribution is    *)
(* in ten-thousandths of a point, the precision the code rounds to.        *)
(***************************************************************************)
EXTENDS Naturals, FiniteSets

Lesser(a, b) == IF a < b THEN a ELSE b

Contribution(percent, weight) == Lesser(percent, 100) * weight * 100

\* A fraction of a factor's weight, rounded to a ten-thousandth of a point.
Share(part, whole, weight) == (2 * 10000 * weight * part + whole) \div (2 * whole)

\* round: to the nearest point, a half to the even one; then the bounds.
Points(total) ==
  LET whole == total \div 10000
      rest == total % 10000
      up == rest > 5000 \/ (rest = 5000 /\ whole % 2 = 1)
  IN  Lesser(100, IF up THEN whole + 1 ELSE whole)

-----------------------------------------------------------------------------
(* A support is [node, paper, direct]; cover says how much of the claim's   *)
(* text a node has in one piece.                                           *)

NodesOf(supports) == {s.node : s \in supports}

NodeShare(supports) == Share(Lesser(Cardinality(NodesOf(supports)), 3), 3, 25)

\* Mutant: the node that covers least decides.
WorstCover(supports, cover) ==
  LET covers == {cover[n] : n \in NodesOf(supports)}
  IN  IF covers = {} THEN 0 ELSE CHOOSE v \in covers : \A u \in covers : v <= u

BestCover(supports, cover) ==
  LET covers == {cover[n] : n \in NodesOf(supports)}
  IN  IF covers = {} THEN 0 ELSE CHOOSE v \in covers : \A u \in covers : u <= v

\* _self_consistency: how many of the earlier readings agree.
ConsistencyShare(agreeing, earlier) == IF earlier = 0 THEN 0 ELSE Share(agreeing, earlier, 20)

StoppedRatio(reason) ==
  CASE reason = "sufficient_evidence" -> 100
    [] reason = "budget_exhausted" -> 25
    [] OTHER -> 0

Confidence(supports, cover, agreeing, earlier, reason, valid) ==
  Points(NodeShare(supports) + Contribution(BestCover(supports, cover), 25)
           + ConsistencyShare(agreeing, earlier)
           + Contribution(StoppedRatio(reason), 20) + Contribution(valid, 10))

-----------------------------------------------------------------------------
FullTextRatio(status) ==
  CASE status = "parsed" -> 100 [] status = "abstract_only" -> 25 [] OTHER -> 0

\* The first band whose limit the age, in years, does not pass.
RecencyRatio(age) ==
  IF age <= 2 THEN 100 ELSE IF age <= 5 THEN 67 ELSE IF age <= 10 THEN 33 ELSE 0

\* The first band whose minimum the number of supporting papers reaches.
ReplicationRatio(papers) == IF papers >= 3 THEN 100 ELSE IF papers >= 2 THEN 50 ELSE 0

SupportingPapers(supports) == Cardinality({s.paper : s \in supports})

\* facts: the status, the review and the age of the claim's own paper.
Quality(supports, facts) ==
  Points(Contribution(FullTextRatio(facts.status), 27)
           + Contribution(IF facts.reviewed THEN 100 ELSE 0, 22)
           + Contribution(IF \E s \in supports : s.direct THEN 100 ELSE 0, 17)
           + Contribution(RecencyRatio(facts.age), 17)
           + Contribution(ReplicationRatio(SupportingPapers(supports)), 17))
=============================================================================
