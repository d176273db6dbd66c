------------------------------ MODULE MCIngest ------------------------------
(* Small instances of Ingest.                                              *)
EXTENDS Ingest

CONSTANTS x, y, z, ta, tb, k

See(doi, arxiv, title, byline) ==
  [doi |-> doi, arxiv |-> arxiv, title |-> title, byline |-> byline]
Plain(id) == [is |-> id, spelled |-> "plain"]

OneWork == {See(Plain(x), None, ta, k)}
TwoWorks == OneWork \cup {See(None, Plain(z), tb, k)}

\* A work seen with its DOI, with its arXiv id, and with both.
ThreeSightings ==
  {See(Plain(x), None, ta, None), See(None, Plain(y), ta, k),
   See(Plain(x), Plain(y), ta, k)}
FourSightings == ThreeSightings \cup {See(None, Plain(z), tb, k)}
=============================================================================
