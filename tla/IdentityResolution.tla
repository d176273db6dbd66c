-------------------------- MODULE IdentityResolution --------------------------
(* The loop of resolve_identity, one step per candidate, with the           *)
(* candidates in any order.                                                 *)
EXTENDS PaperIdentity

CONSTANTS
  Candidates,     \* the records adapters may return
  MaxCandidates   \* bound: records returned for a scope

Names == {c.doi : c \in Candidates} \cup {c.arxiv : c \in Candidates}
Record == [doi : Names, arxiv : Names,
           title : {c.title : c \in Candidates},
           byline : {c.byline : c \in Candidates}]

\* Records have their fields, and no identifier is blank.
ASSUME RecordsAssumption ==
  /\ Candidates \subseteq Record
  /\ \A id \in Names : id # None => id.is # None

ASSUME MaxAssumption == MaxCandidates \in Nat

VARIABLES
  taken,    \* candidates gone through
  merged,   \* merged_papers
  members   \* history: the candidates each of them took in

resolveVars == <<taken, merged, members>>

ResolveInit == taken = 0 /\ merged = <<>> /\ members = <<>>

Take(c) ==
  /\ taken < MaxCandidates
  /\ taken' = taken + 1
  /\ merged' = TakeIn(merged, c)
  /\ members' = IF Matches(merged, c) = {}
                THEN Append(members, {c})
                ELSE [members EXCEPT ![Home(merged, c)] = @ \cup {c}]

ResolveNext == \E c \in Candidates : Take(c)

ResolveSpec == ResolveInit /\ [][ResolveNext]_resolveVars

-----------------------------------------------------------------------------
\* Every merged paper is made of fields of candidates.
RecordsTyped ==
  /\ taken \in 0..MaxCandidates
  /\ merged \in Seq(Record)
  /\ members \in Seq(SUBSET Candidates)
  /\ DOMAIN members = DOMAIN merged

\* A paper bears the DOI of each record merged into it, so records with
\* different DOIs are never one paper, whatever came in between
\* (phase-1/06-paper-dedup-provenance.md:38), and each would be found again.
DoiNamesPaper ==
  \A i \in DOMAIN merged : \A c \in members[i] :
    c.doi # None => Normal(merged[i].doi) = Normal(c.doi)

\* A record without a DOI went to a paper that bears its arXiv id.
ArxivNamesPaper ==
  \A i \in DOMAIN merged : \A c \in members[i] :
    c.doi = None /\ c.arxiv # None => Normal(merged[i].arxiv) = Normal(c.arxiv)
=============================================================================
