--------------------------- MODULE MCScoreHistory ---------------------------
(* Two claims, of a paper with full text and one with an abstract only, and *)
(* evidence in the first paper and in one that makes no claim.             *)
EXTENDS ScoreHistory

mcPaperOf == <<1, 2>>
mcFacts ==
  <<[status |-> "parsed", reviewed |-> TRUE, age |-> 3],
    [status |-> "abstract_only", reviewed |-> FALSE, age |-> 1]>>
mcValid == <<100, 67>>
mcNodePaper == <<1, 3>>
mcCover == <<20, 90>>
=============================================================================
