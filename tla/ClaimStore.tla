----------------------------- MODULE ClaimStore -----------------------------
(***************************************************************************)
(* The claim tables of one scope (claim, claim_evidence, claim_score,      *)
(* paper_extraction_state and the claim subscriptions) and the processes   *)
(* that write them: each worker is one `airesearch extract` or one evidence *)
(* sweep, which runs extraction, evidence linking, claim identity and      *)
(* scoring in that order, every stage but the first optional.              *)
(*                                                                         *)
(* A step is one database transaction, except that the transaction of a    *)
(* re-extraction is split where it has read the prior claims and their     *)
(* dependents and not yet written: PostgreSQL runs READ COMMITTED, so the  *)
(* writes of another process can commit in between.                        *)
(*                                                                         *)
(* Abstractions.  A claim's identity key (tree node, normalized text, type)*)
(* is one key; predicate, object value and unit are one number, and two    *)
(* claims pass the prefilter when their numbers are close; evidence rows   *)
(* of the same claim and passage are not told apart; methods, results,     *)
(* datasets and metrics, which nothing refers to, are left out.            *)
(***************************************************************************)
EXTENDS Naturals, FiniteSets

CONSTANTS
  Workers,           \* concurrent processes
  Papers,            \* ids of the papers of the scope
  Keys,              \* identity keys a batch may use
  Values,            \* quantities a claim may state
  Versions,          \* (extraction model, prompt version) pairs in use
  Passages,          \* passages evidence may be quoted from
  PassagePaper,      \* passage -> the paper it is in
  NoVersion,         \* no paper_extraction_state row
  MaxClaims,         \* bound: claim ids ever allocated
  MaxBatch,          \* bound: records in one model answer
  MaxRuns,           \* bound: runs started
  MaxRebuilds,       \* bound: tree rebuilds per paper
  MaxSubscriptions   \* bound: claim subscriptions

ASSUME BoundsAssumption ==
  /\ MaxClaims \in Nat /\ MaxBatch \in Nat /\ MaxRuns \in Nat
  /\ MaxRebuilds \in Nat /\ MaxSubscriptions \in Nat
ASSUME PapersAssumption == Papers \subseteq Nat /\ Values \subseteq Nat
ASSUME PassageAssumption == PassagePaper \in [Passages -> Papers]
ASSUME VersionAssumption == NoVersion \notin Versions

NoClaim == 0
ClaimIds == 1..MaxClaims

VARIABLES
  claim,            \* the claim table: id -> row
  nextId,           \* the claim id sequence
  evidence,         \* claim_evidence rows
  scored,           \* claims with a claim_score row
  subscribed,       \* targets of the active claim subscriptions
  extractionState,  \* paper_extraction_state
  generation,       \* how often each paper's tree was rebuilt
  runs,             \* runs started so far
  phase,            \* the stage each worker is in
  todo,             \* papers or claims the stage still has to process
  version,          \* the extraction version the worker runs with
  plan,             \* what the open re-extraction decided from its reads
  seen,             \* the root claims loaded by the identity stage
  compared          \* history: pairs a model compared at their present values

store == <<claim, nextId, evidence, scored, subscribed, extractionState, generation>>
local == <<runs, phase, todo, version, plan, seen>>
vars == <<store, local, compared>>

Records == [key : Keys, value : Values]
\* What validate_batch may accept of an answer, in the answer's order; records
\* that are malformed or anchored outside the paper are left out of it.
Batches == UNION {[1..n -> Records] : n \in 0..MaxBatch}
Row == [paper : Papers, key : Keys, value : Values,
        canonical : ClaimIds \cup {NoClaim}, checked : BOOLEAN]
Evidence == [claim : ClaimIds, passage : Passages]
Loaded == [value : Values, pending : BOOLEAN]
Plans == [generation : Nat,
          update  : UNION {[S -> Values] : S \in SUBSET ClaimIds},
          changed : SUBSET ClaimIds,
          insert  : UNION {[S -> Records] : S \in SUBSET (1..MaxBatch)},
          delete  : SUBSET ClaimIds]
Phases == {"idle", "extract", "read", "reconciled", "link", "compare", "mark", "dedup", "score"}

NoRows == [c \in {} |-> NoClaim]
NoPlan == [generation |-> 0, update |-> NoRows, changed |-> {}, insert |-> NoRows, delete |-> {}]
NothingSeen == NoRows

-----------------------------------------------------------------------------
(* Reading the tables.                                                     *)

Ids == DOMAIN claim
ClaimsOf(p) == {c \in Ids : claim[c].paper = p}
IsRoot(c) == claim[c].canonical = NoClaim
Roots == {c \in Ids : IsRoot(c)}
RootOf(c) == IF IsRoot(c) THEN c ELSE claim[c].canonical
Members(r) == {c \in Ids : c = r \/ claim[c].canonical = r}
EvidenceOf(c) == {e \in evidence : e.claim = c}

Least(S) == CHOOSE x \in S : \A y \in S : x <= y

\* _ranges_overlap: close quantities, a relation that is not transitive.
Overlaps(v, u) == v <= u + 1 /\ u <= v + 1

\* Mutant: a score row does not count as a dependent.
HasDependentsButScore(c) == EvidenceOf(c) # {} \/ \E d \in Ids : claim[d].canonical = c

\* What keeps _claims_have_dependents from letting a claim go.
HasDependents(c) ==
  \/ EvidenceOf(c) # {}
  \/ c \in scored
  \/ \E d \in Ids : claim[d].canonical = c

-----------------------------------------------------------------------------
(* Deleting claims: the foreign keys cascade to evidence, scores and       *)
(* subscriptions, and clear the canonical link of any duplicate left.      *)

RowsWithout(rows, dead) ==
  [c \in DOMAIN rows \ dead |->
     [rows[c] EXCEPT !.canonical = IF @ \in dead THEN NoClaim ELSE @]]

\* Mutant: claim_score rows do not cascade.
CascadeButScores(dead) == UNCHANGED scored /\ subscribed' = subscribed \ dead

CascadeFrom(dead) ==
  /\ scored' = scored \ dead
  /\ subscribed' = subscribed \ dead

-----------------------------------------------------------------------------
Init ==
  /\ claim = NoRows
  /\ nextId = 1
  /\ evidence = {}
  /\ scored = {}
  /\ subscribed = {}
  /\ extractionState = [p \in Papers |-> [version |-> NoVersion, accepted |-> 0]]
  /\ generation = [p \in Papers |-> 0]
  /\ runs = 0
  /\ phase = [w \in Workers |-> "idle"]
  /\ todo = [w \in Workers |-> {}]
  /\ version = [w \in Workers |-> NoVersion]
  /\ plan = [w \in Workers |-> NoPlan]
  /\ seen = [w \in Workers |-> NothingSeen]
  /\ compared = {}

Goto(w, stage, work) ==
  /\ phase' = [phase EXCEPT ![w] = stage]
  /\ todo' = [todo EXCEPT ![w] = work]

\* The stage w is in has processed all it loaded.
Through(w, stages) == phase[w] \in stages /\ todo[w] = {}

-----------------------------------------------------------------------------
(* Extraction.                                                             *)

StartRun(w) ==
  /\ phase[w] = "idle"
  /\ runs < MaxRuns
  /\ runs' = runs + 1
  /\ \E v \in Versions : version' = [version EXCEPT ![w] = v]
  /\ Goto(w, "extract", Papers)
  /\ UNCHANGED <<store, plan, seen, compared>>

\* _paper_extraction_is_current holds: the paper is skipped.
SkipPaper(w) ==
  /\ phase[w] = "extract" /\ todo[w] # {}
  /\ LET p == Least(todo[w]) IN
       /\ extractionState[p].version = version[w]
       /\ Goto(w, "extract", todo[w] \ {p})
  /\ UNCHANGED <<store, runs, version, plan, seen, compared>>

\* The first transaction reads the tree nodes the model will be asked about.
LoadPaper(w) ==
  /\ phase[w] = "extract" /\ todo[w] # {}
  /\ LET p == Least(todo[w]) IN
       /\ extractionState[p].version # version[w]
       /\ plan' = [plan EXCEPT ![w].generation = generation[p]]
  /\ Goto(w, "read", todo[w])
  /\ UNCHANGED <<store, runs, version, seen, compared>>

\* Records are matched to existing claims of the same identity first in,
\* first out: the n-th record of a key takes the n-th oldest claim of it.
MatchOf(p, batch, i) ==
  LET same == {c \in ClaimsOf(p) : claim[c].key = batch[i].key}
      earlier == Cardinality({j \in 1..(i - 1) : batch[j].key = batch[i].key})
  IN  {c \in same : Cardinality({d \in same : d < c}) = earlier}

Matched(p, batch) == UNION {MatchOf(p, batch, i) : i \in DOMAIN batch}
\* Mutant: a claim the new extraction does not repeat stays in the table.
StaleStays(p, batch) == {}

Stale(p, batch) == ClaimsOf(p) \ Matched(p, batch)

\* What the second transaction decides from its reads, before it writes.
PlanOf(w, p, batch) ==
  LET updates == [c \in Matched(p, batch) |->
                    batch[CHOOSE i \in DOMAIN batch : c \in MatchOf(p, batch, i)].value]
  IN [generation |-> plan[w].generation,
      update     |-> updates,
      changed    |-> {c \in Matched(p, batch) : claim[c].value # updates[c]},
      insert     |-> [i \in {j \in DOMAIN batch : MatchOf(p, batch, j) = {}} |-> batch[i]],
      delete     |-> Stale(p, batch)]

\* The model answers and _reconcile_claims reads the prior claims; it goes
\* on only when no claim it is about to delete has dependents.
ReconcileRead(w) ==
  /\ phase[w] = "read"
  /\ LET p == Least(todo[w]) IN
       \E batch \in Batches :
         /\ \A c \in Stale(p, batch) : ~HasDependents(c)
         /\ nextId + Cardinality(DOMAIN PlanOf(w, p, batch).insert) <= MaxClaims + 1
         /\ plan' = [plan EXCEPT ![w] = PlanOf(w, p, batch)]
  /\ Goto(w, "reconciled", todo[w])
  /\ UNCHANGED <<store, runs, version, seen, compared>>

\* The paper fails and the stage goes on with the next.
PaperFails(w) ==
  /\ phase[w] \in {"read", "reconciled"}
  /\ Goto(w, "extract", todo[w] \ {Least(todo[w])})
  /\ plan' = [plan EXCEPT ![w] = NoPlan]
  /\ UNCHANGED <<store, runs, version, seen, compared>>

\* Both attempts at an answer failed or were malformed, or every record of
\* the answer was rejected.
AnswerFails(w) == phase[w] = "read" /\ PaperFails(w)

\* _persist_extractions raises and is rolled back: a stale claim has
\* dependents, or a row it refers to is gone when it writes.
PersistFails(w) ==
  /\ \/ /\ phase[w] = "read"
        /\ \E batch \in Batches : \E c \in Stale(Least(todo[w]), batch) : HasDependents(c)
     \/ phase[w] = "reconciled"
  /\ PaperFails(w)

\* Mutant: a root whose quantity changed keeps its identity mark.
DetachedDuplicatesOnly(changed) ==
  UNION {Members(RootOf(c)) : c \in {d \in changed \cap Ids : ~IsRoot(d)}}

\* _invalidate_identity_groups: every group with a changed member falls
\* apart, and an evidence row goes back to a member of its passage's paper.
Detached(changed) == UNION {Members(RootOf(c)) : c \in changed \cap Ids}

HomeOf(e) ==
  LET siblings == {c \in Members(RootOf(e.claim)) : claim[c].paper = PassagePaper[e.passage]}
  IN  CASE e.claim \in siblings -> e.claim
        [] e.claim \notin siblings /\ siblings # {} -> Least(siblings)
        [] OTHER -> RootOf(e.claim)

EvidenceAfterDetach(group) ==
  {IF e.claim \in group THEN [e EXCEPT !.claim = HomeOf(e)] ELSE e : e \in evidence}

\* The id the i-th record gets: ids are handed out in the order of the records.
NewId(insert, i) == nextId + Cardinality({j \in DOMAIN insert : j < i})

\* The claim table after the detach, the updates, the inserts and deletes.
RowsAfterPersist(p, todoPlan) ==
  LET group == Detached(todoPlan.changed)
      insert == todoPlan.insert
      inserted == {NewId(insert, i) : i \in DOMAIN insert}
      recordOf(c) == insert[CHOOSE i \in DOMAIN insert : NewId(insert, i) = c]
      rewritten ==
        [c \in Ids |->
           [claim[c] EXCEPT
              !.value = IF c \in DOMAIN todoPlan.update THEN todoPlan.update[c] ELSE @,
              !.canonical = IF c \in group THEN NoClaim ELSE @,
              !.checked = IF c \in group THEN FALSE ELSE @]]
      kept == RowsWithout(rewritten, todoPlan.delete)
  IN  [c \in DOMAIN kept \cup inserted |->
         IF c \in inserted
         THEN [paper |-> p, canonical |-> NoClaim, checked |-> FALSE,
               key |-> recordOf(c).key, value |-> recordOf(c).value]
         ELSE kept[c]]

\* The writes and the commit.  Observations and tree anchors are foreign
\* keys: a matched claim or a node that is gone rolls the paper back.
PersistExtraction(w) ==
  /\ phase[w] = "reconciled"
  /\ LET p == Least(todo[w])
         todoPlan == plan[w]
         inserts == Cardinality(DOMAIN todoPlan.insert)
         accepted == Cardinality(DOMAIN todoPlan.update) + inserts
     IN
       /\ DOMAIN todoPlan.update \subseteq Ids
       /\ accepted = 0 \/ todoPlan.generation = generation[p]
       /\ nextId + inserts <= MaxClaims + 1
       /\ claim' = RowsAfterPersist(p, todoPlan)
       /\ nextId' = nextId + inserts
       /\ evidence' = {e \in EvidenceAfterDetach(Detached(todoPlan.changed)) :
                         e.claim \notin todoPlan.delete}
       /\ CascadeFrom(todoPlan.delete)
       /\ extractionState' = [extractionState EXCEPT
                                ![p] = [version |-> version[w], accepted |-> accepted]]
       /\ compared' = {pair \in compared :
                         pair \cap (todoPlan.changed \cup todoPlan.delete) = {}}
       /\ Goto(w, "extract", todo[w] \ {p})
  /\ plan' = [plan EXCEPT ![w] = NoPlan]
  /\ UNCHANGED <<generation, runs, version, seen>>

-----------------------------------------------------------------------------
(* Evidence linking.                                                       *)

StartLink(w) ==
  /\ Through(w, {"extract"})
  /\ Goto(w, "link", {c \in Roots : EvidenceOf(c) = {}})
  /\ UNCHANGED <<store, runs, version, plan, seen, compared>>

\* save_links: the rows of the claim become exactly the validated links.
SaveLinks(w) ==
  /\ phase[w] = "link" /\ todo[w] # {}
  /\ LET c == Least(todo[w]) IN
       /\ \E links \in SUBSET Passages :
            /\ links = {} \/ c \in Ids
            /\ evidence' = (evidence \ EvidenceOf(c))
                             \cup {[claim |-> c, passage |-> n] : n \in links}
       /\ Goto(w, "link", todo[w] \ {c})
  /\ UNCHANGED <<claim, nextId, scored, subscribed, extractionState, generation,
                 runs, version, plan, seen, compared>>

LinkFails(w) ==
  /\ phase[w] = "link" /\ todo[w] # {}
  /\ Goto(w, "link", todo[w] \ {Least(todo[w])})
  /\ UNCHANGED <<store, runs, version, plan, seen, compared>>

-----------------------------------------------------------------------------
(* Claim identity.                                                         *)

StartDedup(w) ==
  /\ Through(w, {"extract", "link"})
  /\ IF \A c \in Roots : claim[c].checked
     THEN /\ Goto(w, "dedup", {})
          /\ UNCHANGED seen
     ELSE /\ Goto(w, "compare", {})
          /\ seen' = [seen EXCEPT ![w] = [c \in Roots |-> [value |-> claim[c].value,
                                                           pending |-> ~claim[c].checked]]]
  /\ UNCHANGED <<store, runs, version, plan, compared>>

\* Prefiltered pairs of the loaded roots with at least one pending claim.
EligiblePairs(loaded) ==
  {pair \in {{c, d} : c, d \in DOMAIN loaded} :
     /\ Cardinality(pair) = 2
     /\ \E c \in pair : loaded[c].pending
     /\ \A c, d \in pair : Overlaps(loaded[c].value, loaded[d].value)}

Groups(loaded) ==
  {g \in [canonical : DOMAIN loaded, members : SUBSET DOMAIN loaded] :
     /\ g.canonical \in g.members
     /\ Cardinality(g.members) > 1
     /\ \A c \in g.members : g.canonical <= c
     /\ \A c, d \in g.members : c # d => {c, d} \in EligiblePairs(loaded)}

\* The results _canonical_groups can have for some answer of the model:
\* disjoint cliques of eligible pairs.
GroupFamilies(loaded) ==
  {family \in SUBSET Groups(loaded) :
     \A g, h \in family : g # h => g.members \cap h.members = {}}

DuplicatesIn(family) == UNION {g.members \ {g.canonical} : g \in family}
CanonicalFor(family, c) == (CHOOSE g \in family : c \in g.members).canonical

\* Mutant: duplicates of a claim that becomes a duplicate are not repointed.
RelinkedButChildren(family, c) ==
  IF c \in UNION {g.members : g \in family}
  THEN [claim[c] EXCEPT
          !.canonical = IF c \in DuplicatesIn(family) THEN CanonicalFor(family, c) ELSE NoClaim,
          !.checked = TRUE]
  ELSE claim[c]

\* Mutant: merging leaves the identity mark of a pending duplicate unset.
RelinkedUnchecked(family, c) ==
  IF c \in DuplicatesIn(family)
  THEN [claim[c] EXCEPT !.canonical = CanonicalFor(family, c)]
  ELSE claim[c]

\* One canonical link per claim after save_canonical_groups, whose groups
\* are disjoint, so that its updates can be taken together.
Relinked(family, c) ==
  LET members == UNION {g.members : g \in family}
  IN  IF c \in members
      THEN [claim[c] EXCEPT
              !.canonical = IF c \in DuplicatesIn(family) THEN CanonicalFor(family, c)
                                                          ELSE NoClaim,
              !.checked = TRUE]
      ELSE IF claim[c].canonical \in DuplicatesIn(family)
      THEN [claim[c] EXCEPT !.canonical = CanonicalFor(family, claim[c].canonical),
                            !.checked = TRUE]
      ELSE claim[c]

\* Of a group's rows one per paper stays, the canonical claim's own first.
KeepOneRowPerPaper(g, kept) ==
  LET rows == {e \in evidence : e.claim \in g.members}
  IN  /\ kept \subseteq rows
      /\ \A e \in rows : \E k \in kept :
           PassagePaper[k.passage] = PassagePaper[e.passage]
      /\ \A k \in kept, e \in rows :
           PassagePaper[k.passage] = PassagePaper[e.passage] =>
             /\ e \in kept => e = k
             /\ e.claim = g.canonical => k.claim = g.canonical

\* Mutant: the rows that are kept are not repointed to the canonical claim.
MergeEvidenceInPlace(family) == UNCHANGED evidence

MergeEvidence(family) ==
  LET touched == {e \in evidence : \E g \in family : e.claim \in g.members}
  IN  \E kept \in SUBSET touched :
        /\ \A g \in family :
             KeepOneRowPerPaper(g, {e \in kept : e.claim \in g.members})
        /\ evidence' = (evidence \ touched)
                         \cup {[e EXCEPT !.claim = CanonicalFor(family, e.claim)] : e \in kept}

\* The model compares the eligible pairs and save_canonical_groups commits.
\* A canonical claim that is gone while a duplicate is not violates the
\* foreign key, which ends the run (see Crash).
Compare(w) ==
  /\ phase[w] = "compare"
  /\ \E family \in GroupFamilies(seen[w]) :
       /\ \A g \in family : g.canonical \in Ids \/ g.members \cap Ids = {}
       /\ claim' = [c \in Ids |-> Relinked(family, c)]
       /\ MergeEvidence(family)
  /\ compared' = compared \cup
       {pair \in EligiblePairs(seen[w]) :
          pair \subseteq Ids /\ \A c \in pair : claim[c].value = seen[w][c].value}
  /\ Goto(w, "mark", {})
  /\ UNCHANGED <<nextId, scored, subscribed, extractionState, generation,
                 runs, version, plan, seen>>

\* mark_claims_checked, a transaction of its own.
MarkChecked(w) ==
  /\ phase[w] = "mark"
  /\ LET pending == {c \in DOMAIN seen[w] : seen[w][c].pending}
     IN  claim' = [c \in Ids |-> IF c \in pending THEN [claim[c] EXCEPT !.checked = TRUE]
                                                  ELSE claim[c]]
  /\ Goto(w, "dedup", {})
  /\ seen' = [seen EXCEPT ![w] = NothingSeen]
  /\ UNCHANGED <<nextId, evidence, scored, subscribed, extractionState, generation,
                 runs, version, plan, compared>>

-----------------------------------------------------------------------------
(* Scoring: here only that a score row exists, which makes a claim one     *)
(* that re-extraction may not delete.                                      *)

StartScore(w) ==
  /\ Through(w, {"extract", "link", "dedup"})
  /\ Goto(w, "score", Ids \ scored)
  /\ UNCHANGED <<store, runs, version, plan, seen, compared>>

SaveScore(w) ==
  /\ phase[w] = "score" /\ todo[w] # {}
  /\ LET c == Least(todo[w]) IN
       /\ \/ c \in Ids /\ scored' = scored \cup {c}
          \/ UNCHANGED scored
       /\ Goto(w, "score", todo[w] \ {c})
  /\ UNCHANGED <<claim, nextId, evidence, subscribed, extractionState, generation,
                 runs, version, plan, seen, compared>>

FinishRun(w) ==
  /\ Through(w, {"extract", "link", "dedup", "score"})
  /\ Goto(w, "idle", {})
  /\ UNCHANGED <<store, runs, version, plan, seen, compared>>

\* The process dies, or an exception nothing catches ends the run.
Crash(w) ==
  /\ phase[w] # "idle"
  /\ Goto(w, "idle", {})
  /\ plan' = [plan EXCEPT ![w] = NoPlan]
  /\ seen' = [seen EXCEPT ![w] = NothingSeen]
  /\ UNCHANGED <<store, runs, version, compared>>

-----------------------------------------------------------------------------
(* The rest of the system, as far as it touches these tables.              *)

\* _persist_tree replaces the paper's nodes; everything anchored to them
\* cascades away, while paper_extraction_state refers to the paper and stays.
RebuildTree(p) ==
  /\ generation[p] < MaxRebuilds
  /\ generation' = [generation EXCEPT ![p] = @ + 1]
  /\ claim' = RowsWithout(claim, ClaimsOf(p))
  /\ evidence' = {e \in evidence : e.claim \notin ClaimsOf(p) /\ PassagePaper[e.passage] # p}
  /\ CascadeFrom(ClaimsOf(p))
  /\ compared' = {pair \in compared : pair \cap ClaimsOf(p) = {}}
  /\ UNCHANGED <<nextId, extractionState, local>>

\* subscribe_claim resolves the claim to its root; a second subscription to
\* the same target is rejected.
SubscribeClaim(c) ==
  /\ Cardinality(subscribed) < MaxSubscriptions
  /\ RootOf(c) \notin subscribed
  /\ subscribed' = subscribed \cup {RootOf(c)}
  /\ UNCHANGED <<claim, nextId, evidence, scored, extractionState, generation, local, compared>>

-----------------------------------------------------------------------------
Extraction(w) == SkipPaper(w) \/ LoadPaper(w) \/ ReconcileRead(w) \/ AnswerFails(w)
                 \/ PersistFails(w)
                   \/ PersistExtraction(w)
Linking(w) == StartLink(w) \/ SaveLinks(w) \/ LinkFails(w)
Identity(w) == StartDedup(w) \/ Compare(w) \/ MarkChecked(w)
Scoring(w) == StartScore(w) \/ SaveScore(w)

Next ==
  \/ \E w \in Workers :
       \/ StartRun(w) \/ Extraction(w) \/ Linking(w) \/ Identity(w) \/ Scoring(w)
       \/ FinishRun(w) \/ Crash(w)
  \/ \E p \in Papers : RebuildTree(p)
  \/ \E c \in Ids : SubscribeClaim(c)

Spec == Init /\ [][Next]_vars

-----------------------------------------------------------------------------
(* Properties.                                                             *)

StoreTypeOK ==
  /\ nextId \in 1..(MaxClaims + 1)
  /\ Ids \subseteq 1..(nextId - 1)
  /\ claim \in [Ids -> Row]
  /\ evidence \subseteq [claim : Ids, passage : Passages]
  /\ scored \subseteq Ids
  /\ subscribed \subseteq Ids
  /\ extractionState \in [Papers -> [version : Versions \cup {NoVersion}, accepted : Nat]]
  /\ generation \in [Papers -> 0..MaxRebuilds]

StagesTypeOK ==
  /\ phase \in [Workers -> Phases]
  /\ todo \in [Workers -> SUBSET (Papers \cup ClaimIds)]
  /\ \A w \in Workers :
       /\ phase[w] \in {"extract", "read", "reconciled"} => todo[w] \subseteq Papers
       /\ phase[w] \in {"read", "reconciled"} => todo[w] # {}
       /\ phase[w] \in {"link", "score"} => todo[w] \subseteq ClaimIds

WorkersTypeOK ==
  /\ runs \in 0..MaxRuns
  /\ version \in [Workers -> Versions \cup {NoVersion}]
  /\ plan \in [Workers -> Plans]
  /\ seen \in [Workers -> UNION {[S -> Loaded] : S \in SUBSET ClaimIds}]

\* Every row has its type and refers to claims that exist, and every
\* worker's state has its type.
TypeOK == StoreTypeOK /\ StagesTypeOK /\ WorkersTypeOK

\* Resolving a canonical link takes one hop: the claim a duplicate points to
\* exists and is itself a root (claims/query.py, confidence.py and
\* subscription.py all stop after canonical_claim_id or id).
CanonicalPointsToRoot ==
  \A c \in Ids : ~IsRoot(c) => claim[c].canonical \in Roots

\* A duplicate was decided by an identity pass, and only a detach that also
\* clears its link puts it back among the pending claims.
DuplicatesAreChecked == \A c \in Ids : ~IsRoot(c) => claim[c].checked

\* Evidence sits on roots, where linking, scoring and queries look for it
\* (identity.py:76, "Point originals and evidence at each group's canonical
\* claim").
EvidenceOnRoots == \A e \in evidence : IsRoot(e.claim)

\* Two roots marked as identity-checked whose present quantities pass the
\* prefilter have been compared at those quantities: no duplicate can hide
\* behind a checked mark (identity.py:115).
CheckedRootsWereCompared ==
  \A c, d \in Roots :
    c # d /\ claim[c].checked /\ claim[d].checked /\ Overlaps(claim[c].value, claim[d].value)
      => {c, d} \in compared

\* paper_extraction_state tells the truth: a paper recorded as extracted has
\* the claims that extraction accepted.
ExtractionStateIsTrue ==
  \A p \in Papers :
    extractionState[p].version # NoVersion =>
      Cardinality(ClaimsOf(p)) = extractionState[p].accepted

\* Re-extraction never removes a claim that evidence, a score or a duplicate
\* refers to; only the rebuild of its paper's tree does (pipeline.py:639,
\* "refuse to cascade linked stale claims").
LinkedClaimsAreKept ==
  [][\A c \in Ids :
       /\ \/ \E e \in evidence : e.claim = c
          \/ c \in scored
          \/ \E d \in Ids : claim[d].canonical = c
       /\ UNCHANGED generation
       => c \in DOMAIN claim']_vars
=============================================================================
