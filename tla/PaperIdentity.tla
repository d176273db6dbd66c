---------------------------- MODULE PaperIdentity ----------------------------
(***************************************************************************)
(* resolve_identity: which of the records the adapters return for a scope  *)
(* are one paper.                                                          *)
(*                                                                         *)
(* A record is [doi, arxiv, title, byline].  An identifier is the          *)
(* record [is, spelled]: what is left of it when normalized, and how the   *)
(* adapter wrote it.  The byline stands for the first author's surname and *)
(* the year, missing when either is.                                       *)
(***************************************************************************)
EXTENDS Naturals, SequencesExt

CONSTANT None   \* a field that is missing

\* _normalize_doi and _normalize_arxiv_id.
Normal(id) == IF id = None THEN None ELSE id.is

Decides(id, other) == Normal(id) # None /\ Normal(other) # None

\* Mutant: a DOI or arXiv id that differs does not keep records apart.
SameByAny(paper, candidate) ==
  \/ Decides(paper.doi, candidate.doi) /\ Normal(paper.doi) = Normal(candidate.doi)
  \/ Decides(paper.arxiv, candidate.arxiv) /\ Normal(paper.arxiv) = Normal(candidate.arxiv)
  \/ paper.byline # None /\ paper.byline = candidate.byline /\ paper.title = candidate.title

\* _same_identity: the first pair of identifiers that both have decides.
SameIdentity(paper, candidate) ==
  \/ /\ Decides(paper.doi, candidate.doi)
     /\ Normal(paper.doi) = Normal(candidate.doi)
  \/ /\ ~Decides(paper.doi, candidate.doi) /\ Decides(paper.arxiv, candidate.arxiv)
     /\ Normal(paper.arxiv) = Normal(candidate.arxiv)
  \/ /\ ~Decides(paper.doi, candidate.doi) /\ ~Decides(paper.arxiv, candidate.arxiv)
     /\ paper.byline # None /\ paper.byline = candidate.byline
     /\ paper.title = candidate.title

FirstPresent(current, later) == IF current = None THEN later ELSE current

\* Mutant: a merge does not fill in a missing arXiv id.
MergeWithoutArxiv(paper, candidate) ==
  [paper EXCEPT !.doi = FirstPresent(@, candidate.doi),
                !.byline = FirstPresent(@, candidate.byline)]

\* _merge_metadata.
MergeMetadata(paper, candidate) ==
  [paper EXCEPT !.doi = FirstPresent(@, candidate.doi),
                !.arxiv = FirstPresent(@, candidate.arxiv),
                !.byline = FirstPresent(@, candidate.byline)]

Matches(merged, c) == {i \in DOMAIN merged : SameIdentity(merged[i], c)}

\* The first paper in the list that matches takes the candidate in.
Home(merged, c) == CHOOSE i \in Matches(merged, c) : \A j \in Matches(merged, c) : i <= j

TakeIn(merged, c) ==
  IF Matches(merged, c) = {}
  THEN Append(merged, c)
  ELSE [merged EXCEPT ![Home(merged, c)] = MergeMetadata(@, c)]

resolve_identity(candidates) == FoldLeft(TakeIn, <<>>, candidates)
=============================================================================
