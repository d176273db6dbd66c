---------------------------- MODULE ScoreHistory ----------------------------
(***************************************************************************)
(* Scores of claims over time, and the digests that report how they move.  *)
(* score_scope_confidence scores the claims that have facts newer than     *)
(* their latest score; detect_changes finds what is newer than a date.     *)
(* Both go by timestamps, which are the times transactions start; what     *)
(* they mean is a comparison of the state then and now.                    *)
(*                                                                         *)
(* A step is a transaction; a link's started some time before its commit.  *)
(* Extraction, linking and duplicate grouping are the writers, seen        *)
(* through what scoring reads; ClaimStore has them in full, with merges    *)
(* during a link, which are left out here.                                 *)
(***************************************************************************)
EXTENDS ScoreRubric, Sequences

CONSTANTS
  Claims,          \* claim ids, the first of a group being its canonical one
  PaperOf,         \* [Claims -> papers]
  Facts,           \* [papers -> [status, reviewed, age]]
  Valid,           \* [papers -> share of an answer's records that were valid]
  Nodes,           \* tree nodes that can be evidence
  NodePaper,       \* [Nodes -> papers]
  Cover,           \* [Nodes -> percentage]
  Direct,          \* nodes that say what a claim says, as the stance model sees it
  Readings,        \* what an extraction can make of a claim's sentence
  Scorers,         \* processes that score
  Subscribed,      \* claims with an active subscription
  Threshold,       \* score_movement_threshold
  MaxTime,         \* bound: transactions
  MaxObservations, \* bound: extractions of one claim
  MaxLinks,        \* bound: nodes linked at once
  MaxDigests       \* bound: digests before the last

ASSUME ClaimsAssumption == Claims \subseteq Nat \ {0} /\ Subscribed \subseteq Claims
ASSUME BoundsAssumption ==
  /\ MaxTime \in Nat /\ MaxObservations \in Nat /\ MaxLinks \in Nat /\ MaxDigests \in Nat
  /\ Threshold \in Nat
\* There are finitely many nodes, the shares are percentages, and a sentence
\* can be read.
ASSUME InputsAssumption ==
  /\ Readings # {}
  /\ IsFiniteSet(Nodes) /\ \A n \in Nodes : Cover[n] \in 0..100
  /\ \A c \in Claims : Valid[PaperOf[c]] \in 0..100

VARIABLES
  now,           \* the time of the latest transaction
  root,          \* canonical_claim_id, or the claim itself
  checkedAt,     \* identity_checked_at, 0 for NULL
  observations,  \* claim_extraction_observation rows: [at, reading]
  evidence,      \* claim_evidence rows
  trace,         \* the latest retrieval_trace of a claim's question
  scores,        \* claim_score rows
  scorer,        \* each scorer's results, not saved yet
  linker,        \* the claim being linked, 0 for none
  digestAt,      \* the date the next digest is asked for: that of the latest
  moved,         \* history: when a claim's rows were last moved by its group
  lost,          \* history: when a claim's rows were last cascaded away
  digests,       \* history: how many there were
  snapshot       \* history: what the latest of them could see

facts == <<root, checkedAt, observations, evidence, trace>>
history == <<moved, lost, digests, snapshot>>
vars == <<now, facts, scores, scorer, linker, digestAt, history>>

Tick == now < MaxTime /\ now' = now + 1

NoTrace == [at |-> 0, reason |-> "no_candidates"]
NoResults == [loaded |-> 0, results |-> <<>>]
NotLinking == 0

-----------------------------------------------------------------------------
(* What the loads of the scorer see.                                       *)

EvidenceOf(c) == {e \in evidence : e.claim = c}

Supports(c) ==
  {[node |-> e.node, paper |-> NodePaper[e.node], direct |-> e.node \in Direct] :
     e \in {f \in EvidenceOf(root[c]) : f.stance = "supports"}}

\* The last observation is the claim as it reads now.
Reading(c) == observations[c][Len(observations[c])].reading
Earlier(c) == 1..(Len(observations[c]) - 1)
Agreeing(c) == {i \in Earlier(c) : observations[c][i].reading = Reading(c)}

ConfidenceOf(c, supports) ==
  Confidence(supports, Cover, Cardinality(Agreeing(c)), Cardinality(Earlier(c)),
             trace[c].reason, Valid[PaperOf[c]])
QualityOf(c, supports) == Quality(supports, Facts[PaperOf[c]])

\* score_confidence and score_quality of the inputs as they are.
Result(c) == [confidence |-> ConfidenceOf(c, Supports(c)), quality |-> QualityOf(c, Supports(c))]

IsScored(c) == scores[c] # <<>>
Latest(c) == scores[c][Len(scores[c])]

\* Mutant: the identity check is not among the facts.
DueByContents(c) ==
  ~IsScored(c) \/ \E at \in {observations[c][Len(observations[c])].at, trace[c].at}
                              \cup {e.at : e \in EvidenceOf(root[c])} : Latest(c).at < at

\* load_unscored_claims: no score, or one older than a fact.
Due(c) ==
  ~IsScored(c) \/ \E at \in {observations[c][Len(observations[c])].at, trace[c].at, checkedAt[c]}
                              \cup {e.at : e \in EvidenceOf(root[c])} : Latest(c).at < at

-----------------------------------------------------------------------------
Init ==
  /\ now = 1
  /\ root = [c \in Claims |-> c]
  /\ checkedAt = [c \in Claims |-> 0]
  /\ observations = [c \in Claims |-> <<[at |-> 1, reading |-> CHOOSE r \in Readings : TRUE]>>]
  /\ evidence = {}
  /\ trace = [c \in Claims |-> NoTrace]
  /\ scores = [c \in Claims |-> <<>>]
  /\ scorer = [s \in Scorers |-> NoResults]
  /\ linker = NotLinking
  /\ digestAt = 0
  /\ digests = 0
  /\ moved = [c \in Claims |-> 0]
  /\ lost = [c \in Claims |-> 0]
  /\ snapshot = [rows |-> {}, scores |-> [c \in Claims |-> <<>>]]

IsRoot(c) == root[c] = c
Members(r) == {c \in Claims : root[c] = r}

\* The times a history has after something happened to the group.
Happened(times, group) == [c \in Claims |-> IF c \in group THEN now' ELSE times[c]]

-----------------------------------------------------------------------------
(* Extraction and duplicate grouping.                                      *)

Observe(c) ==
  /\ Tick
  /\ Len(observations[c]) < MaxObservations
  /\ \E r \in Readings :
       observations' = [observations EXCEPT ![c] = Append(@, [at |-> now', reading |-> r])]
  /\ UNCHANGED <<trace, scores, scorer, linker, digestAt, lost, digests, snapshot>>

\* The claim is extracted again and its quantity is what it was.
Reextract(c) == Observe(c) /\ UNCHANGED <<root, checkedAt, evidence, moved>>

\* Where a row of a group that falls apart goes: to a member of its paper.
HomeOf(e) ==
  LET siblings == {c \in Members(root[e.claim]) : PaperOf[c] = NodePaper[e.node]}
  IN  CASE e.claim \in siblings -> e.claim
        [] e.claim \notin siblings /\ siblings # {} ->
             CHOOSE c \in siblings : \A d \in siblings : c <= d
        [] OTHER -> root[e.claim]

\* Its quantity changed: its group falls apart, to be compared again.
ReextractChanged(c) ==
  LET group == Members(root[c]) IN
  /\ Observe(c)
  /\ root' = [d \in Claims |-> IF d \in group THEN d ELSE root[d]]
  /\ checkedAt' = [d \in Claims |-> IF d \in group THEN 0 ELSE checkedAt[d]]
  /\ evidence' = {IF e.claim \in group THEN [e EXCEPT !.claim = HomeOf(e)] ELSE e : e \in evidence}
  /\ moved' = Happened(moved, group)

\* Of the rows a paper gives the group, the one that stays: the canonical
\* claim's before a duplicate's, the older before the newer.
Precedes(e, f, canonical) ==
  \/ e.claim = canonical /\ f.claim # canonical
  \/ (e.claim = canonical <=> f.claim = canonical) /\ e.committed < f.committed

OnePerPaper(rows, canonical) ==
  {kept \in SUBSET rows :
     /\ \A e \in rows : \E f \in kept : NodePaper[f.node] = NodePaper[e.node]
     /\ \A e \in kept, f \in rows :
          NodePaper[f.node] = NodePaper[e.node] =>
            ~Precedes(f, e, canonical) /\ (f \in kept => f = e)}

\* save_canonical_groups, for one group.
Merge(group) ==
  LET canonical == CHOOSE c \in group : \A d \in group : c <= d
      followers == UNION {Members(d) : d \in group \ {canonical}}
      rows == UNION {EvidenceOf(d) : d \in group}
  IN
  /\ Tick /\ linker = NotLinking
  /\ \A c \in group : IsRoot(c)
  /\ \E c \in group : checkedAt[c] = 0
  /\ root' = [c \in Claims |-> IF c \in followers THEN canonical ELSE root[c]]
  /\ checkedAt' = [c \in Claims |-> IF c \in followers \cup {canonical} THEN now' ELSE checkedAt[c]]
  /\ \E kept \in OnePerPaper(rows, canonical) :
       evidence' = (evidence \ rows) \cup {[e EXCEPT !.claim = canonical] : e \in kept}
  /\ moved' = Happened(moved, group)
  /\ UNCHANGED <<observations, trace, scores, scorer, linker, digestAt, lost, digests, snapshot>>

\* mark_claims_checked: the roots the identity pass was about.
Mark ==
  LET pending == {c \in Claims : IsRoot(c) /\ checkedAt[c] = 0} IN
  /\ Tick
  /\ pending # {}
  /\ checkedAt' = [c \in Claims |-> IF c \in pending THEN now' ELSE checkedAt[c]]
  /\ UNCHANGED <<root, observations, evidence, trace, scores, scorer, linker, digestAt, history>>

\* Replacing the tree of a paper takes its nodes' evidence along.
RebuildTree(p) ==
  LET gone == {e \in evidence : NodePaper[e.node] = p} IN
  /\ Tick
  /\ gone # {} /\ \A c \in Claims : PaperOf[c] # p
  /\ evidence' = evidence \ gone
  /\ lost' = Happened(lost, {e.claim : e \in gone})
  /\ UNCHANGED <<root, checkedAt, observations, trace, scores, scorer, linker, digestAt,
                 moved, digests, snapshot>>

-----------------------------------------------------------------------------
(* Linking: the traversal and its trace, then the transaction of the rows. *)

StartLink(c) ==
  /\ Tick /\ linker = NotLinking
  /\ IsRoot(c) /\ EvidenceOf(c) = {}
  /\ \E reason \in {"sufficient_evidence", "budget_exhausted", "no_candidates"} :
       /\ trace' = [trace EXCEPT ![c] = [at |-> now', reason |-> reason]]
       /\ linker' = IF reason = "no_candidates" THEN NotLinking ELSE c
  /\ UNCHANGED <<root, checkedAt, observations, evidence, scores, scorer, digestAt, history>>

\* The rows carry the time their transaction started, not its commit.
SaveLinks ==
  /\ Tick
  /\ linker # 0
  /\ \E began \in (trace[linker].at + 1)..now',
        nodes \in {ns \in SUBSET Nodes : Cardinality(ns) <= MaxLinks} :
       \E stance \in [nodes -> {"supports", "refutes"}] :
         evidence' = evidence \cup
           {[claim |-> linker, node |-> n, stance |-> stance[n],
             at |-> began, committed |-> now'] : n \in nodes}
  /\ linker' = NotLinking
  /\ UNCHANGED <<root, checkedAt, observations, trace, scores, scorer, digestAt, history>>

\* The stance model fails, or the process dies.
LinkFails ==
  /\ linker # NotLinking
  /\ linker' = NotLinking
  /\ UNCHANGED <<now, facts, scores, scorer, digestAt, history>>

-----------------------------------------------------------------------------
(* Scoring.                                                                *)

Load(s) ==
  LET due == {c \in Claims : Due(c)} IN
  /\ scorer[s] = NoResults /\ due # {} /\ now < MaxTime
  /\ scorer' = [scorer EXCEPT ![s] = [loaded |-> now, results |-> [c \in due |-> Result(c)]]]
  /\ UNCHANGED <<now, facts, scores, linker, digestAt, history>>

Unsaved(s) == DOMAIN scorer[s].results
NextUnsaved(s) == CHOOSE c \in Unsaved(s) : \A d \in Unsaved(s) : c <= d

AfterOne(s) ==
  LET left == Unsaved(s) \ {NextUnsaved(s)}
  IN  IF left = {} THEN NoResults
      ELSE [scorer[s] EXCEPT !.results = [c \in left |-> scorer[s].results[c]]]

LastTwo(rows) == SubSeq(rows, IF Len(rows) > 2 THEN Len(rows) - 1 ELSE 1, Len(rows))

\* save_quality: a row of its own for every scoring.
Save(s) ==
  /\ Tick
  /\ scorer[s] # NoResults
  /\ LET c == NextUnsaved(s)
         row == [at |-> now', loaded |-> scorer[s].loaded,
                 confidence |-> scorer[s].results[c].confidence,
                 quality |-> scorer[s].results[c].quality]
     IN  scores' = [scores EXCEPT ![c] = LastTwo(Append(@, row))]
  /\ scorer' = [scorer EXCEPT ![s] = AfterOne(s)]
  /\ UNCHANGED <<facts, linker, digestAt, history>>

\* One claim fails and the others go on; a scorer that dies fails them all.
SaveFails(s) ==
  /\ scorer[s] # NoResults
  /\ scorer' = [scorer EXCEPT ![s] = AfterOne(s)]
  /\ UNCHANGED <<now, facts, scores, linker, digestAt, history>>

-----------------------------------------------------------------------------
(* detect_changes, each time since the digest before.                      *)

NewEvidence(since) == {e \in evidence : e.claim \in Subscribed /\ e.at > since}

RefutesOf(c) == {e \in EvidenceOf(c) : e.stance = "refutes"}

StanceFlips(since) ==
  {c \in Subscribed : RefutesOf(c) # {} /\ \A e \in RefutesOf(c) : e.at > since}

Apart(a, b) == IF a < b THEN b - a ELSE a - b

Moved(before, after) ==
  \/ Apart(before.confidence, after.confidence) >= Threshold
  \/ Apart(before.quality, after.quality) >= Threshold

\* Mutant: a movement is reported for as long as it is the latest one.
MovementsEver(since) == {c \in Subscribed : Len(scores[c]) = 2 /\ Moved(scores[c][1], scores[c][2])}

ScoreMovements(since) ==
  {c \in Subscribed : /\ Len(scores[c]) = 2
                      /\ scores[c][2].at > since
                      /\ Moved(scores[c][1], scores[c][2])}

\* A digest: the next one is asked for what changed since.
Digest ==
  /\ digests < MaxDigests /\ digestAt < now /\ now < MaxTime
  /\ digestAt' = now /\ digests' = digests + 1
  /\ snapshot' = [rows |-> evidence, scores |-> scores]
  /\ UNCHANGED <<now, facts, scores, scorer, linker, moved, lost>>

-----------------------------------------------------------------------------
Extraction == \E c \in Claims : Reextract(c) \/ ReextractChanged(c)
Grouping == Mark \/ \E group \in SUBSET Claims : Cardinality(group) > 1 /\ Merge(group)
Linking == (\E c \in Claims : StartLink(c)) \/ SaveLinks \/ LinkFails
Scoring == \E s \in Scorers : Load(s) \/ Save(s) \/ SaveFails(s)
Rebuilding == \E p \in {NodePaper[n] : n \in Nodes} : RebuildTree(p)

Next == Extraction \/ Grouping \/ Linking \/ Scoring \/ Rebuilding \/ Digest

Spec == Init /\ [][Next]_vars

-----------------------------------------------------------------------------
(* Properties.                                                             *)

\* The score was saved after a fact it had not loaded: evidence whose
\* transaction was open when the inputs were read, or a change made between
\* the load and the save.
Overtaken(c) ==
  LET score == Latest(c)
      within == (score.loaded + 1)..score.at
  IN  \/ \E e \in EvidenceOf(root[c]) : e.committed > score.loaded /\ e.at <= score.at
      \/ observations[c][Len(observations[c])].at \in within
      \/ trace[c].at \in within
      \/ checkedAt[c] \in within

\* Its evidence was cascaded away after the score loaded it.
Deprived(c) == lost[root[c]] > Latest(c).loaded

\* A duplicate whose group grew after its score was loaded.  The merge stamps
\* the claims it repoints and their canonical one (evidence/identity.py:133-153),
\* not those that were duplicates of that one before: they have other evidence
\* now, maybe older than their score, and nothing that makes a scoring due.
Enlarged(c) ==
  /\ ~IsRoot(c)
  /\ moved[root[c]] > Latest(c).loaded
  /\ moved[root[c]] > checkedAt[c]

\* A claim that identity resolution has checked and no scoring is due for
\* has the score its inputs give, unless the inputs changed while they were
\* being scored, or its group grew or lost rows, which the due test cannot
\* see (scoring/confidence.py:206, phase-3/06-confidence-scorer.md).
ScoresAreCurrent ==
  \A c \in Claims :
    checkedAt[c] # 0 /\ ~Due(c) /\ ~Overtaken(c) /\ ~Enlarged(c) /\ ~Deprived(c) =>
      /\ Latest(c).confidence = Result(c).confidence
      /\ Latest(c).quality = Result(c).quality

\* More support never lowers a score, whatever the other factors, the bands
\* and the rounding make of it.
SupportNeverHurts ==
  \A c \in Claims : \A s \in Supports(c) :
    LET fewer == Supports(c) \ {s}
    IN  /\ ConfidenceOf(c, fewer) <= ConfidenceOf(c, Supports(c))
        /\ QualityOf(c, fewer) <= QualityOf(c, Supports(c))

\* Since the digest before, rows of the claim only came by links whose
\* transactions started after it.
OnlyLinked(c) ==
  /\ moved[c] <= digestAt /\ lost[c] <= digestAt
  /\ \A e \in EvidenceOf(c) : e.committed > digestAt => e.at > digestAt

\* What a digest says of such a claim, going by timestamps, is how its state
\* differs from what the digest before saw: the rows that are new, a flip
\* if it is refuted now and was not then, and, if it was scored once in
\* between, how far that took it from the score it had
\* (phase-4/09-change-detection.md:20).
DigestsCompareStates ==
  \A c \in Subscribed : OnlyLinked(c) =>
    LET then == {e \in snapshot.rows : e.claim = c}
        before == snapshot.scores[c]
    IN  /\ {e \in NewEvidence(digestAt) : e.claim = c} = EvidenceOf(c) \ then
        /\ c \in StanceFlips(digestAt) <=>
             RefutesOf(c) # {} /\ \A e \in then : e.stance # "refutes"
        /\ scores[c] = before => c \notin ScoreMovements(digestAt)
        /\ before # <<>> /\ Len(scores[c]) = 2 /\ scores[c][1] = before[Len(before)] =>
             (c \in ScoreMovements(digestAt) <=> Moved(before[Len(before)], Latest(c)))
=============================================================================
