-------------------------- MODULE ClaimStoreProofs --------------------------
(***************************************************************************)
(* Proofs about ClaimStore for every set of workers, papers, keys, values, *)
(* versions and passages, and every bound: the type invariant, that a      *)
(* canonical link leads in one hop to a root that has been checked, and    *)
(* what the code keeps as long as one process runs at a time.              *)
(***************************************************************************)
EXTENDS ClaimStore, FiniteSetTheorems, WellFoundedInduction, TLAPS

\* The links between the rows of the claim table.
LinksOK == CanonicalPointsToRoot /\ DuplicatesAreChecked

\* The inductive invariant.
IInv == TypeOK /\ LinksOK

-----------------------------------------------------------------------------
(* Least.                                                                  *)

LEMMA BelowIsRelated ==
  ASSUME NEW x \in Nat, NEW y \in Nat, x < y
  PROVE  <<x, y>> \in OpToRel(<, Nat)
BY DEF OpToRel

\* A non-empty set of naturals has a least element, which Least returns.
LEMMA LeastIsMember ==
  ASSUME NEW S \in SUBSET Nat, S # {}
  PROVE  Least(S) \in S /\ \A y \in S : Least(S) <= y
<1>1. PICK x \in S : \A y \in S : ~(<<y, x>> \in OpToRel(<, Nat))
  BY NatLessThanWellFounded, WFMin
<1>2. \A y \in S : ~(y < x)
  BY <1>1, BelowIsRelated
<1>3. \A y \in S : x <= y
  BY <1>2
<1>. QED
  BY <1>3 DEF Least

LEMMA ClaimIdsAreNaturals == ClaimIds \subseteq Nat /\ NoClaim \notin ClaimIds
BY DEF ClaimIds, NoClaim

\* What a worker takes next is one of the papers or claims it has to do.
LEMMA NextTodo ==
  ASSUME StagesTypeOK, NEW w \in Workers, todo[w] # {}
  PROVE  Least(todo[w]) \in todo[w]
<1>1. todo[w] \in SUBSET Nat
  BY PapersAssumption, ClaimIdsAreNaturals DEF StagesTypeOK
<1>. QED
  BY <1>1, LeastIsMember

LEMMA IdsAreClaimIds ==
  ASSUME StoreTypeOK
  PROVE  Ids \subseteq ClaimIds /\ Ids \subseteq 1..(nextId - 1)
<1>1. nextId \in Nat /\ nextId - 1 \in Int /\ nextId - 1 <= MaxClaims
  BY BoundsAssumption DEF StoreTypeOK
<1>2. 1..(nextId - 1) \subseteq ClaimIds
  BY <1>1, BoundsAssumption DEF ClaimIds
<1>. QED
  BY <1>2 DEF StoreTypeOK

-----------------------------------------------------------------------------
(* Steps that leave the tables, or the links, alone.                       *)

LEMMA StoreUnchanged ==
  ASSUME StoreTypeOK, LinksOK, UNCHANGED store
  PROVE  StoreTypeOK' /\ LinksOK'
BY DEF StoreTypeOK, LinksOK, CanonicalPointsToRoot, DuplicatesAreChecked, store,
       Ids, Roots, IsRoot

LEMMA ClaimsUnchanged ==
  ASSUME LinksOK, UNCHANGED claim
  PROVE  LinksOK'
BY DEF LinksOK, CanonicalPointsToRoot, DuplicatesAreChecked, Ids, Roots, IsRoot

LEMMA GotoKeepsStages ==
  ASSUME StagesTypeOK, NEW w \in Workers, NEW stage \in Phases,
         NEW work \in SUBSET (Papers \cup ClaimIds),
         stage \in {"extract", "read", "reconciled"} => work \subseteq Papers,
         stage \in {"read", "reconciled"} => work # {},
         stage \in {"link", "score"} => work \subseteq ClaimIds,
         Goto(w, stage, work)
  PROVE  StagesTypeOK'
BY DEF StagesTypeOK, Goto

LEMMA EmptyRows ==
  /\ NoPlan \in Plans
  /\ NothingSeen \in UNION {[S -> Loaded] : S \in SUBSET ClaimIds}
<1>1. NoRows \in [{} -> Values] /\ NoRows \in [{} -> Records] /\ NoRows \in [{} -> Loaded]
  BY DEF NoRows
<1>2. {} \in SUBSET ClaimIds /\ {} \in SUBSET (1..MaxBatch)
  OBVIOUS
<1>3. /\ NoRows \in UNION {[S -> Values] : S \in SUBSET ClaimIds}
      /\ NoRows \in UNION {[S -> Records] : S \in SUBSET (1..MaxBatch)}
      /\ NoRows \in UNION {[S -> Loaded] : S \in SUBSET ClaimIds}
  BY <1>1, <1>2
<1>. QED
  BY <1>3 DEF NoPlan, Plans, NothingSeen

-----------------------------------------------------------------------------
(* The initial state.                                                      *)

LEMMA InitInvariant == Init => IInv
<1>. SUFFICES ASSUME Init PROVE IInv
  OBVIOUS
<1>1. StoreTypeOK
  BY BoundsAssumption DEF Init, StoreTypeOK, Ids, NoRows
<1>2. StagesTypeOK
  BY DEF Init, StagesTypeOK, Phases
<1>3. WorkersTypeOK
  BY BoundsAssumption, EmptyRows DEF Init, WorkersTypeOK
<1>4. LinksOK
  BY DEF Init, LinksOK, CanonicalPointsToRoot, DuplicatesAreChecked, Ids, NoRows
<1>. QED
  BY <1>1, <1>2, <1>3, <1>4 DEF IInv, TypeOK

-----------------------------------------------------------------------------
(* The stages that do not write to the tables.                             *)

LEMMA StartRunInvariant ==
  ASSUME IInv, NEW w \in Workers, StartRun(w)
  PROVE  IInv'
<1>1. StoreTypeOK' /\ LinksOK'
  BY StoreUnchanged DEF IInv, TypeOK, StartRun
<1>2. StagesTypeOK'
  BY GotoKeepsStages DEF IInv, TypeOK, StartRun, Phases
<1>3. WorkersTypeOK'
  BY BoundsAssumption DEF IInv, TypeOK, WorkersTypeOK, StartRun
<1>. QED
  BY <1>1, <1>2, <1>3 DEF IInv, TypeOK

LEMMA SkipPaperInvariant ==
  ASSUME IInv, NEW w \in Workers, SkipPaper(w)
  PROVE  IInv'
<1>1. StoreTypeOK' /\ LinksOK'
  BY StoreUnchanged DEF IInv, TypeOK, SkipPaper
<1>2. StagesTypeOK'
  <2>1. todo[w] \subseteq Papers
    BY DEF IInv, TypeOK, StagesTypeOK, SkipPaper
  <2>. QED
    BY <2>1, GotoKeepsStages DEF IInv, TypeOK, SkipPaper, Phases
<1>3. WorkersTypeOK'
  BY DEF IInv, TypeOK, WorkersTypeOK, SkipPaper
<1>. QED
  BY <1>1, <1>2, <1>3 DEF IInv, TypeOK

LEMMA LoadPaperInvariant ==
  ASSUME IInv, NEW w \in Workers, LoadPaper(w)
  PROVE  IInv'
<1>. DEFINE p == Least(todo[w])
<1>0. todo[w] \subseteq Papers /\ todo[w] # {} /\ p \in Papers
  BY NextTodo DEF IInv, TypeOK, StagesTypeOK, LoadPaper
<1>1. StoreTypeOK' /\ LinksOK'
  BY StoreUnchanged DEF IInv, TypeOK, LoadPaper
<1>2. StagesTypeOK'
  BY <1>0, GotoKeepsStages DEF IInv, TypeOK, LoadPaper, Phases
<1>3. WorkersTypeOK'
  <2>1. generation[p] \in Nat
    BY <1>0, BoundsAssumption DEF IInv, TypeOK, StoreTypeOK
  <2>2. plan' = [plan EXCEPT ![w].generation = generation[p]]
    BY DEF LoadPaper
  <2>3. plan' \in [Workers -> Plans]
    BY <2>1, <2>2 DEF IInv, TypeOK, WorkersTypeOK, Plans
  <2>. QED
    BY <2>3 DEF IInv, TypeOK, WorkersTypeOK, LoadPaper
<1>. QED
  BY <1>1, <1>2, <1>3 DEF IInv, TypeOK

LEMMA PaperFailsInvariant ==
  ASSUME IInv, NEW w \in Workers, PaperFails(w)
  PROVE  IInv'
<1>1. StoreTypeOK' /\ LinksOK'
  BY StoreUnchanged DEF IInv, TypeOK, PaperFails
<1>2. StagesTypeOK'
  <2>1. todo[w] \subseteq Papers
    BY DEF IInv, TypeOK, StagesTypeOK, PaperFails
  <2>. QED
    BY <2>1, GotoKeepsStages DEF IInv, TypeOK, PaperFails, Phases
<1>3. WorkersTypeOK'
  BY EmptyRows DEF IInv, TypeOK, WorkersTypeOK, PaperFails
<1>. QED
  BY <1>1, <1>2, <1>3 DEF IInv, TypeOK

LEMMA StartStageInvariant ==
  ASSUME IInv, NEW w \in Workers, StartLink(w) \/ StartScore(w) \/ FinishRun(w)
  PROVE  IInv'
<1>1. StoreTypeOK' /\ LinksOK'
  BY StoreUnchanged DEF IInv, TypeOK, StartLink, StartScore, FinishRun
<1>2. StagesTypeOK'
  <2>1. Ids \subseteq ClaimIds
    BY IdsAreClaimIds DEF IInv, TypeOK
  <2>2. {c \in Roots : EvidenceOf(c) = {}} \subseteq ClaimIds /\ Ids \ scored \subseteq ClaimIds
    BY <2>1 DEF Roots
  <2>3. CASE StartLink(w)
    BY <2>2, <2>3, GotoKeepsStages DEF IInv, TypeOK, StartLink, Phases
  <2>4. CASE StartScore(w)
    BY <2>2, <2>4, GotoKeepsStages DEF IInv, TypeOK, StartScore, Phases
  <2>5. CASE FinishRun(w)
    BY <2>5, GotoKeepsStages DEF IInv, TypeOK, FinishRun, Phases
  <2>. QED
    BY <2>3, <2>4, <2>5
<1>3. WorkersTypeOK'
  BY DEF IInv, TypeOK, WorkersTypeOK, StartLink, StartScore, FinishRun
<1>. QED
  BY <1>1, <1>2, <1>3 DEF IInv, TypeOK

LEMMA LinkFailsInvariant ==
  ASSUME IInv, NEW w \in Workers, LinkFails(w)
  PROVE  IInv'
<1>1. StoreTypeOK' /\ LinksOK'
  BY StoreUnchanged DEF IInv, TypeOK, LinkFails
<1>2. StagesTypeOK'
  <2>1. todo[w] \subseteq ClaimIds
    BY DEF IInv, TypeOK, StagesTypeOK, LinkFails
  <2>. QED
    BY <2>1, GotoKeepsStages DEF IInv, TypeOK, LinkFails, Phases
<1>3. WorkersTypeOK'
  BY DEF IInv, TypeOK, WorkersTypeOK, LinkFails
<1>. QED
  BY <1>1, <1>2, <1>3 DEF IInv, TypeOK

LEMMA StartDedupInvariant ==
  ASSUME IInv, NEW w \in Workers, StartDedup(w)
  PROVE  IInv'
<1>1. StoreTypeOK' /\ LinksOK'
  BY StoreUnchanged DEF IInv, TypeOK, StartDedup
<1>2. StagesTypeOK'
  BY GotoKeepsStages DEF IInv, TypeOK, StartDedup, Phases
<1>3. WorkersTypeOK'
  <2>. DEFINE loaded == [c \in Roots |-> [value |-> claim[c].value, pending |-> ~claim[c].checked]]
  <2>1. Roots \in SUBSET ClaimIds /\ Roots \subseteq Ids
    BY IdsAreClaimIds DEF IInv, TypeOK, Roots
  <2>2. \A c \in Roots : claim[c].value \in Values /\ claim[c].checked \in BOOLEAN
    BY <2>1 DEF IInv, TypeOK, StoreTypeOK, Row
  <2>3. loaded \in [Roots -> Loaded]
    BY <2>2 DEF Loaded
  <2>4. loaded \in UNION {[S -> Loaded] : S \in SUBSET ClaimIds}
    BY <2>1, <2>3
  <2>5. seen' = seen \/ seen' = [seen EXCEPT ![w] = loaded]
    BY DEF StartDedup
  <2>6. seen' \in [Workers -> UNION {[S -> Loaded] : S \in SUBSET ClaimIds}]
    BY <2>4, <2>5 DEF IInv, TypeOK, WorkersTypeOK
  <2>. QED
    BY <2>6 DEF IInv, TypeOK, WorkersTypeOK, StartDedup
<1>. QED
  BY <1>1, <1>2, <1>3 DEF IInv, TypeOK

LEMMA CrashInvariant ==
  ASSUME IInv, NEW w \in Workers, Crash(w)
  PROVE  IInv'
<1>1. StoreTypeOK' /\ LinksOK'
  BY StoreUnchanged DEF IInv, TypeOK, Crash
<1>2. StagesTypeOK'
  BY GotoKeepsStages DEF IInv, TypeOK, Crash, Phases
<1>3. WorkersTypeOK'
  BY EmptyRows DEF IInv, TypeOK, WorkersTypeOK, Crash
<1>. QED
  BY <1>1, <1>2, <1>3 DEF IInv, TypeOK

-----------------------------------------------------------------------------
(* The stages that write rows other than claims.                           *)

LEMMA SaveLinksInvariant ==
  ASSUME IInv, NEW w \in Workers, SaveLinks(w)
  PROVE  IInv'
<1>. DEFINE c == Least(todo[w])
<1>0. todo[w] \subseteq ClaimIds
  BY DEF IInv, TypeOK, StagesTypeOK, SaveLinks
<1>1. StoreTypeOK'
  <2>1. PICK links \in SUBSET Passages :
          /\ links = {} \/ c \in Ids
          /\ evidence' = (evidence \ EvidenceOf(c)) \cup {[claim |-> c, passage |-> n] : n \in links}
    BY DEF SaveLinks
  <2>2. \A n \in links : [claim |-> c, passage |-> n] \in [claim : Ids, passage : Passages]
    BY <2>1
  <2>3. evidence' \subseteq [claim : Ids, passage : Passages]
    BY <2>1, <2>2 DEF IInv, TypeOK, StoreTypeOK
  <2>4. UNCHANGED <<claim, nextId, scored, subscribed, extractionState, generation>>
    BY DEF SaveLinks
  <2>. QED
    BY <2>3, <2>4 DEF IInv, TypeOK, StoreTypeOK, Ids
<1>2. LinksOK'
  BY ClaimsUnchanged DEF IInv, SaveLinks
<1>3. StagesTypeOK'
  BY <1>0, GotoKeepsStages DEF IInv, TypeOK, SaveLinks, Phases
<1>4. WorkersTypeOK'
  BY DEF IInv, TypeOK, WorkersTypeOK, SaveLinks
<1>. QED
  BY <1>1, <1>2, <1>3, <1>4 DEF IInv, TypeOK

LEMMA SaveScoreInvariant ==
  ASSUME IInv, NEW w \in Workers, SaveScore(w)
  PROVE  IInv'
<1>1. StoreTypeOK'
  BY DEF IInv, TypeOK, StoreTypeOK, SaveScore, Ids
<1>2. LinksOK'
  BY ClaimsUnchanged DEF IInv, SaveScore
<1>3. StagesTypeOK'
  <2>1. todo[w] \subseteq ClaimIds
    BY DEF IInv, TypeOK, StagesTypeOK, SaveScore
  <2>. QED
    BY <2>1, GotoKeepsStages DEF IInv, TypeOK, SaveScore, Phases
<1>4. WorkersTypeOK'
  BY DEF IInv, TypeOK, WorkersTypeOK, SaveScore
<1>. QED
  BY <1>1, <1>2, <1>3, <1>4 DEF IInv, TypeOK

LEMMA SubscribeClaimInvariant ==
  ASSUME IInv, NEW c \in Ids, SubscribeClaim(c)
  PROVE  IInv'
<1>1. RootOf(c) \in Ids
  BY DEF IInv, LinksOK, CanonicalPointsToRoot, RootOf, Roots
<1>2. StoreTypeOK'
  BY <1>1 DEF IInv, TypeOK, StoreTypeOK, SubscribeClaim, Ids
<1>3. LinksOK'
  BY ClaimsUnchanged DEF IInv, SubscribeClaim
<1>4. StagesTypeOK' /\ WorkersTypeOK'
  BY DEF IInv, TypeOK, StagesTypeOK, WorkersTypeOK, SubscribeClaim, local
<1>. QED
  BY <1>2, <1>3, <1>4 DEF IInv, TypeOK

-----------------------------------------------------------------------------
(* Claim rows: RowsOK collects what the invariant says of them.            *)

RowsOK(rows, ids) ==
  /\ rows \in [ids -> Row]
  /\ \A c \in ids :
       rows[c].canonical # NoClaim =>
         /\ rows[c].checked
         /\ rows[c].canonical \in ids
         /\ rows[rows[c].canonical].canonical = NoClaim

LEMMA InvariantRows ==
  ASSUME IInv
  PROVE  RowsOK(claim, Ids)
BY DEF IInv, TypeOK, StoreTypeOK, LinksOK, CanonicalPointsToRoot, DuplicatesAreChecked,
       Roots, IsRoot, RowsOK

LEMMA RowsInvariant ==
  ASSUME NEW ids, RowsOK(claim', ids)
  PROVE  /\ Ids' = ids
         /\ claim' \in [Ids' -> Row]
         /\ LinksOK'
<1>1. Ids' = ids
  BY DEF RowsOK, Ids
<1>. QED
  BY <1>1 DEF RowsOK, LinksOK, CanonicalPointsToRoot, DuplicatesAreChecked, Roots, IsRoot

\* Deleting claims, with the cascade, keeps the links sound.
LEMMA RowsWithoutKeepsRows ==
  ASSUME NEW ids \in SUBSET ClaimIds, NEW rows, NEW dead, RowsOK(rows, ids)
  PROVE  RowsOK(RowsWithout(rows, dead), ids \ dead)
<1>. DEFINE kept == RowsWithout(rows, dead)
<1>1. DOMAIN rows = ids
  BY DEF RowsOK
<1>2. kept = [c \in ids \ dead |->
                [rows[c] EXCEPT !.canonical = IF @ \in dead THEN NoClaim ELSE @]]
  BY <1>1 DEF RowsWithout
<1>3. \A c \in ids \ dead : kept[c] \in Row /\ kept[c].checked = rows[c].checked
  BY <1>2 DEF RowsOK, Row
<1>4. \A c \in ids \ dead :
        kept[c].canonical = IF rows[c].canonical \in dead THEN NoClaim ELSE rows[c].canonical
  BY <1>2 DEF RowsOK, Row
<1>5. kept \in [ids \ dead -> Row]
  BY <1>2, <1>3
<1>6. \A c \in ids \ dead :
        kept[c].canonical # NoClaim =>
          /\ kept[c].checked
          /\ kept[c].canonical \in ids \ dead
          /\ kept[kept[c].canonical].canonical = NoClaim
  BY <1>3, <1>4 DEF RowsOK
<1>. QED
  BY <1>5, <1>6 DEF RowsOK

LEMMA RebuildTreeInvariant ==
  ASSUME IInv, NEW p \in Papers, RebuildTree(p)
  PROVE  IInv'
<1>1. RowsOK(claim', Ids \ ClaimsOf(p))
  BY InvariantRows, IdsAreClaimIds, RowsWithoutKeepsRows DEF IInv, TypeOK, RebuildTree
<1>2. Ids' = Ids \ ClaimsOf(p) /\ claim' \in [Ids' -> Row] /\ LinksOK'
  BY <1>1, RowsInvariant
<1>3. StoreTypeOK'
  <2>1. nextId' = nextId /\ extractionState' = extractionState
    BY DEF RebuildTree
  <2>2. evidence' \subseteq [claim : Ids', passage : Passages]
    BY <1>2 DEF IInv, TypeOK, StoreTypeOK, RebuildTree
  <2>3. scored' \subseteq Ids' /\ subscribed' \subseteq Ids'
    BY <1>2 DEF IInv, TypeOK, StoreTypeOK, RebuildTree, CascadeFrom
  <2>4. generation' \in [Papers -> 0..MaxRebuilds]
    BY BoundsAssumption DEF IInv, TypeOK, StoreTypeOK, RebuildTree
  <2>. QED
    BY <1>2, <2>1, <2>2, <2>3, <2>4 DEF IInv, TypeOK, StoreTypeOK
<1>4. StagesTypeOK' /\ WorkersTypeOK'
  BY DEF IInv, TypeOK, StagesTypeOK, WorkersTypeOK, RebuildTree, local
<1>. QED
  BY <1>2, <1>3, <1>4 DEF IInv, TypeOK

LEMMA MarkCheckedInvariant ==
  ASSUME IInv, NEW w \in Workers, MarkChecked(w)
  PROVE  IInv'
<1>. DEFINE pending == {c \in DOMAIN seen[w] : seen[w][c].pending}
<1>1. claim' = [c \in Ids |-> IF c \in pending THEN [claim[c] EXCEPT !.checked = TRUE]
                                               ELSE claim[c]]
  BY DEF MarkChecked
<1>2. \A c \in Ids : /\ claim'[c] \in Row
                     /\ claim'[c].canonical = claim[c].canonical
                     /\ claim[c].checked => claim'[c].checked
  BY <1>1, InvariantRows DEF RowsOK, Row
<1>3. RowsOK(claim', Ids)
  BY <1>1, <1>2, InvariantRows DEF RowsOK
<1>4. Ids' = Ids /\ claim' \in [Ids' -> Row] /\ LinksOK'
  BY <1>3, RowsInvariant
<1>5. StoreTypeOK'
  BY <1>4 DEF IInv, TypeOK, StoreTypeOK, MarkChecked
<1>6. StagesTypeOK'
  BY GotoKeepsStages DEF IInv, TypeOK, MarkChecked, Phases
<1>7. WorkersTypeOK'
  BY EmptyRows DEF IInv, TypeOK, WorkersTypeOK, MarkChecked
<1>. QED
  BY <1>4, <1>5, <1>6, <1>7 DEF IInv, TypeOK

-----------------------------------------------------------------------------
(* Re-extraction.                                                          *)

\* What a re-extraction plans from its reads is a plan.
LEMMA PlanIsPlan ==
  ASSUME IInv, NEW w \in Workers, NEW p \in Papers, NEW batch \in Batches
  PROVE  PlanOf(w, p, batch) \in Plans
<1>. DEFINE matched == Matched(p, batch)
            firstOf(c) == CHOOSE i \in DOMAIN batch : c \in MatchOf(p, batch, i)
            updates == [c \in matched |-> batch[firstOf(c)].value]
            unmatched == {j \in DOMAIN batch : MatchOf(p, batch, j) = {}}
            inserts == [i \in unmatched |-> batch[i]]
<1>1. PICK n \in 0..MaxBatch : batch \in [1..n -> Records]
  BY DEF Batches
<1>2. DOMAIN batch \subseteq 1..MaxBatch /\ \A i \in DOMAIN batch : batch[i] \in Records
  BY <1>1, BoundsAssumption
<1>3. ClaimsOf(p) \subseteq ClaimIds
  BY IdsAreClaimIds DEF IInv, TypeOK, ClaimsOf
<1>4. matched \subseteq ClaimIds
  BY <1>3 DEF Matched, MatchOf
<1>5. \A c \in matched : batch[firstOf(c)].value \in Values
  <2>. SUFFICES ASSUME NEW c \in matched PROVE batch[firstOf(c)].value \in Values
    OBVIOUS
  <2>1. \E i \in DOMAIN batch : c \in MatchOf(p, batch, i)
    BY DEF Matched
  <2>2. firstOf(c) \in DOMAIN batch
    BY <2>1
  <2>. QED
    BY <1>2, <2>2 DEF Records
<1>6. updates \in UNION {[S -> Values] : S \in SUBSET ClaimIds}
  <2>1. updates \in [matched -> Values]
    BY <1>5
  <2>. QED
    BY <1>4, <2>1
<1>7. inserts \in UNION {[S -> Records] : S \in SUBSET (1..MaxBatch)}
  <2>1. inserts \in [unmatched -> Records] /\ unmatched \in SUBSET (1..MaxBatch)
    BY <1>2
  <2>. QED
    BY <2>1
<1>8. {c \in matched : claim[c].value # updates[c]} \in SUBSET ClaimIds
  BY <1>4
<1>9. Stale(p, batch) \in SUBSET ClaimIds
  BY <1>3 DEF Stale
<1>10. plan[w].generation \in Nat
  BY DEF IInv, TypeOK, WorkersTypeOK, Plans
<1>. HIDE DEF matched, updates, inserts
<1>11. PlanOf(w, p, batch) = [generation |-> plan[w].generation,
                              update  |-> updates,
                              changed |-> {c \in matched : claim[c].value # updates[c]},
                              insert  |-> inserts,
                              delete  |-> Stale(p, batch)]
  BY DEF PlanOf, matched, updates, inserts
<1>. QED
  BY <1>6, <1>7, <1>8, <1>9, <1>10, <1>11 DEF Plans

LEMMA ReconcileReadInvariant ==
  ASSUME IInv, NEW w \in Workers, ReconcileRead(w)
  PROVE  IInv'
<1>. DEFINE p == Least(todo[w])
<1>0. todo[w] \subseteq Papers /\ todo[w] # {} /\ p \in Papers
  BY NextTodo DEF IInv, TypeOK, StagesTypeOK, ReconcileRead
<1>1. StoreTypeOK' /\ LinksOK'
  BY StoreUnchanged DEF IInv, TypeOK, ReconcileRead
<1>2. StagesTypeOK'
  BY <1>0, GotoKeepsStages DEF IInv, TypeOK, ReconcileRead, Phases
<1>3. WorkersTypeOK'
  <2>1. PICK batch \in Batches : plan' = [plan EXCEPT ![w] = PlanOf(w, p, batch)]
    BY DEF ReconcileRead
  <2>2. PlanOf(w, p, batch) \in Plans
    BY <1>0, PlanIsPlan
  <2>3. plan' \in [Workers -> Plans]
    BY <2>1, <2>2 DEF IInv, TypeOK, WorkersTypeOK
  <2>. QED
    BY <2>3 DEF IInv, TypeOK, WorkersTypeOK, ReconcileRead
<1>. QED
  BY <1>1, <1>2, <1>3 DEF IInv, TypeOK

\* The ids of new rows come right after those handed out before.
LEMMA NewIdsAreNew ==
  ASSUME nextId \in Nat,
         NEW S \in SUBSET (1..MaxBatch), NEW insert \in [S -> Records],
         NEW i \in S
  PROVE  /\ NewId(insert, i) \in nextId..(nextId + Cardinality(S) - 1)
         /\ Cardinality(S) \in Nat
<1>. DEFINE before == {j \in S : j < i}
<1>1. IsFiniteSet(S)
  <2>1. IsFiniteSet(1..MaxBatch)
    BY BoundsAssumption, FS_Interval
  <2>. QED
    BY <2>1, FS_Subset
<1>2. before \in SUBSET S /\ before # S
  BY BoundsAssumption
<1>3. IsFiniteSet(before) /\ Cardinality(before) <= Cardinality(S)
        /\ Cardinality(before) # Cardinality(S)
  BY <1>1, <1>2, FS_Subset
<1>4. Cardinality(before) \in Nat /\ Cardinality(S) \in Nat
  BY <1>1, <1>3, FS_CardinalityType
<1>5. NewId(insert, i) = nextId + Cardinality(before)
  BY DEF NewId
<1>. QED
  BY <1>3, <1>4, <1>5

\* An evidence row of a group that falls apart goes to a claim that exists.
LEMMA HomeExists ==
  ASSUME IInv, NEW e \in evidence
  PROVE  HomeOf(e) \in Ids
<1>. DEFINE siblings == {c \in Members(RootOf(e.claim)) : claim[c].paper = PassagePaper[e.passage]}
<1>1. e.claim \in Ids
  BY DEF IInv, TypeOK, StoreTypeOK
<1>2. RootOf(e.claim) \in Ids
  BY <1>1 DEF IInv, LinksOK, CanonicalPointsToRoot, RootOf, Roots
<1>3. siblings \subseteq Ids /\ siblings \in SUBSET Nat
  BY IdsAreClaimIds, ClaimIdsAreNaturals DEF IInv, TypeOK, Members
<1>4. siblings # {} => Least(siblings) \in siblings
  BY <1>3, LeastIsMember
<1>5. HomeOf(e) \in {e.claim, RootOf(e.claim)} \/ (siblings # {} /\ HomeOf(e) = Least(siblings))
  BY DEF HomeOf
<1>. QED
  BY <1>1, <1>2, <1>3, <1>4, <1>5


\* The claim table after a re-extraction: what it keeps has sound links, and
\* what it inserts are new roots.
LEMMA PersistedRows ==
  ASSUME IInv, NEW p \in Papers, NEW P \in Plans,
         DOMAIN P.update \subseteq Ids
  PROVE  \E ids \in SUBSET (1..(nextId + Cardinality(DOMAIN P.insert) - 1)) :
           /\ Ids \ P.delete \subseteq ids
           /\ RowsOK(RowsAfterPersist(p, P), ids)
<1>. DEFINE group == Detached(P.changed)
            insert == P.insert
            inserted == {NewId(insert, i) : i \in DOMAIN insert}
            recordOf(c) == insert[CHOOSE i \in DOMAIN insert : NewId(insert, i) = c]
            rewritten ==
              [c \in Ids |->
                 [claim[c] EXCEPT
                    !.value = IF c \in DOMAIN P.update THEN P.update[c] ELSE @,
                    !.canonical = IF c \in group THEN NoClaim ELSE @,
                    !.checked = IF c \in group THEN FALSE ELSE @]]
            kept == RowsWithout(rewritten, P.delete)
            fresh(c) == [paper |-> p, canonical |-> NoClaim, checked |-> FALSE,
                         key |-> recordOf(c).key, value |-> recordOf(c).value]
            ids == (Ids \ P.delete) \cup inserted
            rows == [c \in ids |-> IF c \in inserted THEN fresh(c) ELSE kept[c]]
<1>1. RowsOK(claim, Ids) /\ Ids \in SUBSET ClaimIds /\ Ids \subseteq 1..(nextId - 1)
  BY InvariantRows, IdsAreClaimIds DEF IInv, TypeOK
<1>2. nextId \in Nat
  BY BoundsAssumption DEF IInv, TypeOK, StoreTypeOK
<1>3. /\ DOMAIN insert \in SUBSET (1..MaxBatch)
      /\ insert \in [DOMAIN insert -> Records]
      /\ \A c \in DOMAIN P.update : P.update[c] \in Values
  BY DEF Plans
<1>4. RowsOK(rewritten, Ids)
  <2>1. \A c \in Ids :
          /\ rewritten[c] \in Row
          /\ rewritten[c].canonical = IF c \in group THEN NoClaim ELSE claim[c].canonical
          /\ rewritten[c].checked = IF c \in group THEN FALSE ELSE claim[c].checked
    BY <1>1, <1>3 DEF RowsOK, Row
  <2>2. rewritten \in [Ids -> Row]
    BY <2>1
  <2>3. \A c \in Ids : rewritten[c].canonical # NoClaim =>
          /\ rewritten[c].checked
          /\ rewritten[c].canonical \in Ids
          /\ rewritten[rewritten[c].canonical].canonical = NoClaim
    <3>. HIDE DEF rewritten, group
    <3>. SUFFICES ASSUME NEW c \in Ids, rewritten[c].canonical # NoClaim
                  PROVE  /\ rewritten[c].checked
                         /\ rewritten[c].canonical \in Ids
                         /\ rewritten[rewritten[c].canonical].canonical = NoClaim
      OBVIOUS
    <3>1. /\ rewritten[c].canonical = claim[c].canonical
          /\ rewritten[c].checked = claim[c].checked
      BY <2>1
    <3>2. /\ claim[c].checked
          /\ claim[c].canonical \in Ids
          /\ claim[claim[c].canonical].canonical = NoClaim
      BY <3>1, <1>1 DEF RowsOK
    <3>. QED
      BY <3>1, <3>2, <2>1
  <2>. QED
    BY <2>2, <2>3 DEF RowsOK
<1>5. RowsOK(kept, Ids \ P.delete)
  BY <1>1, <1>4, RowsWithoutKeepsRows
<1>6. \A c \in inserted : c \in nextId..(nextId + Cardinality(DOMAIN insert) - 1)
  BY <1>2, <1>3, NewIdsAreNew
<1>7. inserted \cap Ids = {}
  BY <1>1, <1>2, <1>6
<1>8. \A c \in inserted : fresh(c) \in Row
  <2>. SUFFICES ASSUME NEW c \in inserted PROVE fresh(c) \in Row
    OBVIOUS
  <2>1. \E i \in DOMAIN insert : NewId(insert, i) = c
    OBVIOUS
  <2>2. (CHOOSE i \in DOMAIN insert : NewId(insert, i) = c) \in DOMAIN insert
    BY <2>1
  <2>3. recordOf(c) \in Records
    BY <1>3, <2>2
  <2>. QED
    BY <2>3 DEF Records, Row
<1>9. rows \in [ids -> Row]
  BY <1>5, <1>8 DEF RowsOK
<1>10. \A c \in ids : rows[c].canonical # NoClaim =>
         /\ rows[c].checked
         /\ rows[c].canonical \in ids
         /\ rows[rows[c].canonical].canonical = NoClaim
  <2>. SUFFICES ASSUME NEW c \in ids, rows[c].canonical # NoClaim
                PROVE  /\ rows[c].checked
                       /\ rows[c].canonical \in ids
                       /\ rows[rows[c].canonical].canonical = NoClaim
    OBVIOUS
  <2>1. c \in Ids \ P.delete /\ c \notin inserted /\ rows[c] = kept[c]
    <3>1. c \notin inserted
      BY DEF fresh
    <3>. QED
      BY <3>1
  <2>2. /\ kept[c].checked /\ kept[c].canonical \in Ids \ P.delete
        /\ kept[kept[c].canonical].canonical = NoClaim
    BY <1>5, <2>1 DEF RowsOK
  <2>3. rows[kept[c].canonical] = kept[kept[c].canonical]
    BY <1>7, <2>2
  <2>. QED
    BY <2>1, <2>2, <2>3
<1>11. ids \in SUBSET (1..(nextId + Cardinality(DOMAIN insert) - 1))
  <2>1. Cardinality(DOMAIN insert) \in Nat
    <3>1. IsFiniteSet(1..MaxBatch)
      BY BoundsAssumption, FS_Interval
    <3>. QED
      BY <1>3, <3>1, FS_Subset, FS_CardinalityType
  <2>. DEFINE n == Cardinality(DOMAIN insert)
  <2>2. nextId >= 1
    BY BoundsAssumption DEF IInv, TypeOK, StoreTypeOK
  <2>. HIDE DEF n, inserted, insert
  <2>3. n \in Nat
    BY <2>1 DEF n
  <2>4. \A c \in Ids : c \in 1..(nextId + n - 1)
    BY <1>1, <1>2, <2>3
  <2>5. \A c \in inserted : c \in nextId..(nextId + n - 1)
    BY <1>6 DEF n
  <2>6. \A c \in inserted : c \in 1..(nextId + n - 1)
    BY <1>2, <2>2, <2>3, <2>5
  <2>. QED
    BY <2>4, <2>6 DEF n
<1>12. RowsAfterPersist(p, P) = rows
  <2>1. DOMAIN kept = Ids \ P.delete
    BY <1>5 DEF RowsOK
  <2>. QED
    BY <2>1 DEF RowsAfterPersist
<1>13. RowsOK(rows, ids) /\ Ids \ P.delete \subseteq ids
  BY <1>9, <1>10 DEF RowsOK
<1>. HIDE DEF ids, rows, insert
<1>. QED
  BY <1>11, <1>12, <1>13 DEF insert

LEMMA PersistExtractionInvariant ==
  ASSUME IInv, NEW w \in Workers, PersistExtraction(w)
  PROVE  IInv'
<1>. DEFINE p == Least(todo[w])
            P == plan[w]
            inserts == Cardinality(DOMAIN P.insert)
            accepted == Cardinality(DOMAIN P.update) + inserts
<1>1. todo[w] \subseteq Papers /\ todo[w] # {} /\ p \in Papers
  BY NextTodo DEF IInv, TypeOK, StagesTypeOK, PersistExtraction
<1>2. P \in Plans
  BY DEF IInv, TypeOK, WorkersTypeOK
<1>3. inserts \in Nat /\ accepted \in Nat
  <2>1. IsFiniteSet(1..MaxBatch) /\ IsFiniteSet(ClaimIds)
    BY BoundsAssumption, FS_Interval DEF ClaimIds
  <2>2. DOMAIN P.insert \in SUBSET (1..MaxBatch) /\ DOMAIN P.update \in SUBSET ClaimIds
    BY <1>2 DEF Plans
  <2>3. IsFiniteSet(DOMAIN P.insert) /\ IsFiniteSet(DOMAIN P.update)
    BY <2>1, <2>2, FS_Subset
  <2>. QED
    BY <2>3, FS_CardinalityType
<1>4. /\ DOMAIN P.update \subseteq Ids
      /\ nextId + inserts <= MaxClaims + 1
      /\ claim' = RowsAfterPersist(p, P)
      /\ nextId' = nextId + inserts
      /\ evidence' = {e \in EvidenceAfterDetach(Detached(P.changed)) : e.claim \notin P.delete}
      /\ CascadeFrom(P.delete)
      /\ extractionState' = [extractionState EXCEPT
                               ![p] = [version |-> version[w], accepted |-> accepted]]
      /\ UNCHANGED generation
  BY DEF PersistExtraction
<1>5. PICK ids \in SUBSET (1..(nextId + inserts - 1)) :
        Ids \ P.delete \subseteq ids /\ RowsOK(claim', ids)
  BY <1>1, <1>2, <1>4, PersistedRows
<1>6. Ids' = ids /\ claim' \in [Ids' -> Row] /\ LinksOK'
  BY <1>5, RowsInvariant
<1>7. StoreTypeOK'
  <2>1. nextId' \in 1..(MaxClaims + 1)
    BY <1>3, <1>4, BoundsAssumption DEF IInv, TypeOK, StoreTypeOK
  <2>2. Ids' \subseteq 1..(nextId' - 1)
    <3>. HIDE DEF inserts
    <3>1. nextId' - 1 = nextId + inserts - 1
      BY <1>3, <1>4, BoundsAssumption DEF IInv, TypeOK, StoreTypeOK
    <3>. QED
      BY <1>5, <1>6, <3>1
  <2>3. EvidenceAfterDetach(Detached(P.changed)) \subseteq [claim : Ids, passage : Passages]
    BY HomeExists DEF IInv, TypeOK, StoreTypeOK, EvidenceAfterDetach
  <2>4. evidence' \subseteq [claim : Ids', passage : Passages]
    BY <1>4, <1>5, <1>6, <2>3
  <2>5. scored' \subseteq Ids' /\ subscribed' \subseteq Ids'
    BY <1>4, <1>5, <1>6 DEF IInv, TypeOK, StoreTypeOK, CascadeFrom
  <2>6. extractionState' \in [Papers -> [version : Versions \cup {NoVersion}, accepted : Nat]]
    BY <1>1, <1>3, <1>4 DEF IInv, TypeOK, StoreTypeOK, WorkersTypeOK
  <2>7. generation' \in [Papers -> 0..MaxRebuilds]
    BY <1>4 DEF IInv, TypeOK, StoreTypeOK
  <2>. QED
    BY <1>6, <2>1, <2>2, <2>4, <2>5, <2>6, <2>7 DEF StoreTypeOK
<1>8. StagesTypeOK'
  BY <1>1, GotoKeepsStages DEF IInv, TypeOK, PersistExtraction, Phases
<1>9. WorkersTypeOK'
  BY EmptyRows DEF IInv, TypeOK, WorkersTypeOK, PersistExtraction
<1>. QED
  BY <1>6, <1>7, <1>8, <1>9 DEF IInv, TypeOK

-----------------------------------------------------------------------------
(* Identity: a merge of disjoint groups.                                   *)

\* The group of a member is one of the family that contains it, and a
\* canonical claim is nobody's duplicate.
LEMMA CanonicalClaims ==
  ASSUME NEW loaded, NEW family \in GroupFamilies(loaded)
  PROVE  /\ \A g \in family : \A c \in g.members :
              CanonicalFor(family, c) = g.canonical /\ c \in DOMAIN loaded
         /\ \A g \in family : g.canonical \in g.members
         /\ \A g \in family : g.canonical \notin DuplicatesIn(family)
<1>1. \A g \in family : g.canonical \in g.members /\ g.members \subseteq DOMAIN loaded
  BY DEF GroupFamilies, Groups
<1>2. \A g, h \in family : g # h => g.members \cap h.members = {}
  BY DEF GroupFamilies
<1>3. ASSUME NEW g \in family, NEW c \in g.members
      PROVE  CanonicalFor(family, c) = g.canonical
  <2>1. (CHOOSE h \in family : c \in h.members) = g
    BY <1>2
  <2>. QED
    BY <2>1 DEF CanonicalFor
<1>4. ASSUME NEW g \in family
      PROVE  g.canonical \notin DuplicatesIn(family)
  <2>. SUFFICES ASSUME NEW h \in family, g.canonical \in h.members \ {h.canonical}
                PROVE  FALSE
    BY DEF DuplicatesIn
  <2>1. g = h
    BY <1>1, <1>2
  <2>. QED
    BY <2>1
<1>. QED
  BY <1>1, <1>3, <1>4

LEMMA RelinkedRow ==
  ASSUME NEW row \in Row, NEW c \in ClaimIds \cup {NoClaim},
         NEW relinked, relinked = [row EXCEPT !.canonical = c, !.checked = TRUE]
  PROVE  relinked \in Row /\ relinked.canonical = c /\ relinked.checked = TRUE
BY DEF Row

\* The rows after a merge of groups whose canonical claims still exist
\* wherever one of their members does.
LEMMA RelinkedRows ==
  ASSUME IInv, NEW loaded, DOMAIN loaded \subseteq ClaimIds,
         NEW family \in GroupFamilies(loaded),
         \A g \in family : g.canonical \in Ids \/ g.members \cap Ids = {}
  PROVE  RowsOK([c \in Ids |-> Relinked(family, c)], Ids)
<1>. DEFINE members == UNION {g.members : g \in family}
            duplicates == DuplicatesIn(family)
            rows == [c \in Ids |-> Relinked(family, c)]
<1>1. RowsOK(claim, Ids) /\ Ids \subseteq ClaimIds
  BY InvariantRows, IdsAreClaimIds DEF IInv, TypeOK
<1>2. \A c \in duplicates : c \in members /\ c \in ClaimIds /\ c # NoClaim
  BY CanonicalClaims, ClaimIdsAreNaturals DEF DuplicatesIn
<1>3. \A c \in members \cap Ids : CanonicalFor(family, c) \in Ids
  BY CanonicalClaims
<1>4. \A c \in members : /\ CanonicalFor(family, c) \in members
                         /\ CanonicalFor(family, c) \notin duplicates
  BY CanonicalClaims
<1>5. \A c \in members \cap Ids :
        /\ rows[c] \in Row
        /\ rows[c].checked
        /\ rows[c].canonical = IF c \in duplicates THEN CanonicalFor(family, c) ELSE NoClaim
  <2>. SUFFICES ASSUME NEW c \in members \cap Ids
                PROVE  /\ rows[c] \in Row
                       /\ rows[c].checked
                       /\ rows[c].canonical =
                            IF c \in duplicates THEN CanonicalFor(family, c) ELSE NoClaim
    OBVIOUS
  <2>. DEFINE target == IF c \in duplicates THEN CanonicalFor(family, c) ELSE NoClaim
  <2>1. claim[c] \in Row /\ target \in ClaimIds \cup {NoClaim}
    BY <1>1, <1>3 DEF RowsOK
  <2>2. rows[c] = [claim[c] EXCEPT !.canonical = target, !.checked = TRUE]
    BY DEF Relinked
  <2>. HIDE DEF target, rows
  <2>3. rows[c] \in Row /\ rows[c].canonical = target /\ rows[c].checked = TRUE
    BY <2>1, <2>2, RelinkedRow
  <2>. QED
    BY <2>3 DEF target
<1>6. \A c \in Ids \ members :
        claim[c].canonical \in duplicates =>
          /\ claim[c].canonical \in members \cap Ids
          /\ rows[c] \in Row
          /\ rows[c].checked
          /\ rows[c].canonical = CanonicalFor(family, claim[c].canonical)
  <2>. SUFFICES ASSUME NEW c \in Ids \ members, claim[c].canonical \in duplicates
                PROVE  /\ claim[c].canonical \in members \cap Ids
                       /\ rows[c] \in Row
                       /\ rows[c].checked
                       /\ rows[c].canonical = CanonicalFor(family, claim[c].canonical)
    OBVIOUS
  <2>1. claim[c].canonical \in members \cap Ids
    BY <1>1, <1>2 DEF RowsOK
  <2>. DEFINE target == CanonicalFor(family, claim[c].canonical)
  <2>2. claim[c] \in Row /\ target \in ClaimIds \cup {NoClaim}
    BY <1>1, <1>3, <2>1 DEF RowsOK
  <2>3. rows[c] = [claim[c] EXCEPT !.canonical = target, !.checked = TRUE]
    BY DEF Relinked
  <2>. DEFINE relinked == rows[c]
              row == claim[c]
  <2>. HIDE DEF target, rows, relinked, row
  <2>4. row \in Row /\ relinked = [row EXCEPT !.canonical = target, !.checked = TRUE]
    BY <2>2, <2>3 DEF relinked, row
  <2>5. relinked \in Row /\ relinked.canonical = target /\ relinked.checked = TRUE
    BY <2>2, <2>4, RelinkedRow
  <2>. QED
    BY <2>1, <2>5 DEF target, relinked
<1>7. \A c \in Ids \ members : claim[c].canonical \notin duplicates => rows[c] = claim[c]
  BY DEF Relinked
<1>. HIDE DEF rows, members, duplicates
<1>8. \A c \in Ids : rows[c] \in Row
  BY <1>1, <1>5, <1>6, <1>7 DEF RowsOK
<1>9. \A r \in members \cap Ids : r \notin duplicates => rows[r].canonical = NoClaim
  BY <1>5
<1>10. ASSUME NEW c \in Ids, rows[c].canonical # NoClaim
       PROVE  /\ rows[c].checked
              /\ rows[c].canonical \in Ids
              /\ rows[rows[c].canonical].canonical = NoClaim
  <2>1. CASE c \in members
    BY <1>3, <1>4, <1>5, <1>9, <1>10, <2>1
  <2>2. CASE c \notin members /\ claim[c].canonical \in duplicates
    BY <1>3, <1>4, <1>6, <1>9, <2>2
  <2>3. CASE c \notin members /\ claim[c].canonical \notin duplicates
    <3>. DEFINE r == claim[c].canonical
    <3>1. /\ rows[c] = claim[c] /\ rows[c].checked /\ r \in Ids
          /\ claim[r].canonical = NoClaim
      BY <1>1, <1>7, <1>10, <2>3 DEF RowsOK
    <3>2. r \in members => rows[r].canonical = NoClaim
      BY <1>9, <2>3, <3>1
    <3>3. r \notin members => rows[r] = claim[r]
      BY <1>2, <1>7, <3>1 DEF NoClaim
    <3>. QED
      BY <3>1, <3>2, <3>3
  <2>. QED
    BY <2>1, <2>2, <2>3
<1>11. rows \in [Ids -> Row]
  BY <1>8 DEF rows
<1>. QED
  BY <1>10, <1>11 DEF RowsOK, rows

LEMMA CompareInvariant ==
  ASSUME IInv, NEW w \in Workers, Compare(w)
  PROVE  IInv'
<1>1. PICK family \in GroupFamilies(seen[w]) :
        /\ \A g \in family : g.canonical \in Ids \/ g.members \cap Ids = {}
        /\ claim' = [c \in Ids |-> Relinked(family, c)]
        /\ MergeEvidence(family)
  BY DEF Compare
<1>2. DOMAIN seen[w] \subseteq ClaimIds
  BY DEF IInv, TypeOK, WorkersTypeOK
<1>3. RowsOK(claim', Ids)
  BY <1>1, <1>2, RelinkedRows
<1>4. Ids' = Ids /\ claim' \in [Ids' -> Row] /\ LinksOK'
  BY <1>3, RowsInvariant
<1>5. StoreTypeOK'
  <2>. DEFINE touched == {e \in evidence : \E g \in family : e.claim \in g.members}
  <2>1. PICK kept \in SUBSET touched :
          evidence' = (evidence \ touched)
                        \cup {[e EXCEPT !.claim = CanonicalFor(family, e.claim)] : e \in kept}
    BY <1>1 DEF MergeEvidence
  <2>2. ASSUME NEW e \in kept
        PROVE  [e EXCEPT !.claim = CanonicalFor(family, e.claim)]
                 \in [claim : Ids, passage : Passages]
    <3>1. e \in [claim : Ids, passage : Passages]
      BY DEF IInv, TypeOK, StoreTypeOK
    <3>2. PICK g \in family : e.claim \in g.members
      OBVIOUS
    <3>3. CanonicalFor(family, e.claim) \in Ids
      BY <1>1, <3>1, <3>2, CanonicalClaims
    <3>. QED
      BY <3>1, <3>3
  <2>3. evidence' \subseteq [claim : Ids', passage : Passages]
    BY <1>4, <2>1, <2>2 DEF IInv, TypeOK, StoreTypeOK
  <2>4. UNCHANGED <<nextId, scored, subscribed, extractionState, generation>>
    BY DEF Compare
  <2>. QED
    BY <1>4, <2>3, <2>4 DEF IInv, TypeOK, StoreTypeOK
<1>6. StagesTypeOK'
  BY GotoKeepsStages DEF IInv, TypeOK, Compare, Phases
<1>7. WorkersTypeOK'
  BY DEF IInv, TypeOK, WorkersTypeOK, Compare
<1>. QED
  BY <1>4, <1>5, <1>6, <1>7 DEF IInv, TypeOK

-----------------------------------------------------------------------------
(* The theorems.                                                           *)

LEMMA NextInvariant == IInv /\ [Next]_vars => IInv'
<1>. SUFFICES ASSUME IInv, [Next]_vars PROVE IInv'
  OBVIOUS
<1>1. ASSUME NEW w \in Workers, StartRun(w) PROVE IInv'
  BY <1>1, StartRunInvariant
<1>2. ASSUME NEW w \in Workers, Extraction(w) PROVE IInv'
  BY <1>2, SkipPaperInvariant, LoadPaperInvariant, ReconcileReadInvariant,
     PaperFailsInvariant, PersistExtractionInvariant
     DEF Extraction, AnswerFails, PersistFails
<1>3. ASSUME NEW w \in Workers, Linking(w) PROVE IInv'
  BY <1>3, StartStageInvariant, SaveLinksInvariant, LinkFailsInvariant DEF Linking
<1>4. ASSUME NEW w \in Workers, Identity(w) PROVE IInv'
  BY <1>4, StartDedupInvariant, CompareInvariant, MarkCheckedInvariant DEF Identity
<1>5. ASSUME NEW w \in Workers, Scoring(w) PROVE IInv'
  BY <1>5, StartStageInvariant, SaveScoreInvariant DEF Scoring
<1>6. ASSUME NEW w \in Workers, FinishRun(w) \/ Crash(w) PROVE IInv'
  BY <1>6, StartStageInvariant, CrashInvariant
<1>7. ASSUME NEW p \in Papers, RebuildTree(p) PROVE IInv'
  BY <1>7, RebuildTreeInvariant
<1>8. ASSUME NEW c \in Ids, SubscribeClaim(c) PROVE IInv'
  BY <1>8, SubscribeClaimInvariant
<1>9. CASE UNCHANGED vars
  BY <1>9, StoreUnchanged
     DEF IInv, TypeOK, StagesTypeOK, WorkersTypeOK, vars, local
<1>. QED
  BY <1>1, <1>2, <1>3, <1>4, <1>5, <1>6, <1>7, <1>8, <1>9 DEF Next

THEOREM InvariantHolds == Spec => []IInv
<1>. QED
  BY InitInvariant, NextInvariant, PTL DEF Spec

\* Rows and worker states have their types, and no row of any table refers
\* to a claim that was deleted, however runs interleave, crash or race with
\* tree rebuilds.
THEOREM TypesHold == Spec => []TypeOK
<1>1. IInv => TypeOK
  BY DEF IInv
<1>. QED
  BY <1>1, InvariantHolds, PTL

\* Resolving a canonical link takes one hop (canonical_claim_id or id),
\* whatever identity passes, re-extractions and rebuilds ran at the same time.
THEOREM CanonicalLinksHold == Spec => []CanonicalPointsToRoot
<1>1. IInv => CanonicalPointsToRoot
  BY DEF IInv, LinksOK
<1>. QED
  BY <1>1, InvariantHolds, PTL

\* No duplicate is among the claims the next identity pass has pending.
THEOREM DuplicatesStayChecked == Spec => []DuplicatesAreChecked
<1>1. IInv => DuplicatesAreChecked
  BY DEF IInv, LinksOK
<1>. QED
  BY <1>1, InvariantHolds, PTL

-----------------------------------------------------------------------------
(* One process at a time.  Two of them break what follows: one saves       *)
(* evidence on a claim the other has merged, deletes a claim the other has *)
(* just linked, or marks a claim whose quantity the other has changed.     *)

OneWorker == \E w \in Workers : Workers = {w}

\* The claims a linker has still to go through are roots, if they exist.
RootsInHand ==
  \A w \in Workers : phase[w] = "link" => \A c \in todo[w] \cap Ids : IsRoot(c)

\* Nothing has come to refer to a claim a re-extraction is about to delete.
PlansAreHarmless ==
  \A w \in Workers :
    phase[w] = "reconciled" => \A c \in plan[w].delete \cap Ids : ~HasDependents(c)

\* What holds whatever trees are rebuilt.
Rooted == EvidenceOnRoots /\ RootsInHand /\ PlansAreHarmless

NeverRebuilt == \A p \in Papers : generation[p] = 0

\* A re-extraction accounts for each claim of its paper, and knows which of
\* them changes.
PlansAreCurrent ==
  \A w \in Workers : phase[w] = "reconciled" =>
    /\ DOMAIN plan[w].update \subseteq ClaimsOf(Least(todo[w]))
    /\ plan[w].delete = ClaimsOf(Least(todo[w])) \ DOMAIN plan[w].update
    /\ \A c \in DOMAIN plan[w].update :
         claim[c].value = plan[w].update[c] \/ c \in plan[w].changed

\* What the identity stage loaded is what the table has.
LoadedIsCurrent ==
  \A w \in Workers : phase[w] = "compare" =>
    /\ DOMAIN seen[w] = Roots
    /\ \A c \in Roots : /\ seen[w][c].value = claim[c].value
                         /\ seen[w][c].pending = ~claim[c].checked

\* A claim that is marked, or that the identity stage is about to mark.
Marked(c) ==
  \/ claim[c].checked
  \/ \E w \in Workers : phase[w] = "mark" /\ c \in DOMAIN seen[w] /\ seen[w][c].pending

MarkedWereCompared ==
  \A c, d \in Roots :
    c # d /\ Marked(c) /\ Marked(d) /\ Overlaps(claim[c].value, claim[d].value)
      => {c, d} \in compared

\* What holds as long as no tree was rebuilt, which takes claims away behind
\* the back of the rows that tell about them.
Accurate == PlansAreCurrent /\ LoadedIsCurrent /\ MarkedWereCompared /\ ExtractionStateIsTrue

Alone == Rooted /\ (NeverRebuilt => Accurate)

LEMMA OnlyWorker ==
  ASSUME OneWorker, NEW w \in Workers, NEW v \in Workers
  PROVE  v = w
BY DEF OneWorker

LEMMA InitAlone == Init => Alone
BY DEF Init, Alone, Rooted, EvidenceOnRoots, RootsInHand, PlansAreHarmless, Accurate,
       PlansAreCurrent, LoadedIsCurrent, MarkedWereCompared, ExtractionStateIsTrue,
       Roots, Ids, NoRows

\* The tables the invariant reads, but for scores.
tables == <<claim, evidence, extractionState, generation, compared>>

LEMMA TablesUnchanged ==
  ASSUME UNCHANGED tables
  PROVE  /\ EvidenceOnRoots => EvidenceOnRoots'
         /\ NeverRebuilt' = NeverRebuilt
         /\ ExtractionStateIsTrue => ExtractionStateIsTrue'
         /\ Roots' = Roots /\ Ids' = Ids
<1>1. EvidenceOnRoots => EvidenceOnRoots'
  BY DEF tables, EvidenceOnRoots, IsRoot
<1>2. NeverRebuilt' = NeverRebuilt
  BY DEF tables, NeverRebuilt
<1>3. Roots' = Roots /\ Ids' = Ids
  BY DEF tables, Roots, Ids, IsRoot
<1>4. \A p \in Papers : ClaimsOf(p)' = ClaimsOf(p)
  BY DEF tables, ClaimsOf, Ids
<1>5. ExtractionStateIsTrue => ExtractionStateIsTrue'
  BY <1>4 DEF tables, ExtractionStateIsTrue
<1>. QED BY <1>1, <1>2, <1>3, <1>5

\* Between the stages that hold something the invariant speaks of.
LEMMA QuietStepAlone ==
  ASSUME OneWorker, Alone, NEW w \in Workers, UNCHANGED tables,
         phase'[w] \in {"idle", "extract", "read", "score", "dedup"}
  PROVE  Alone'
<1>1. \A v \in Workers : phase'[v] \in {"idle", "extract", "read", "score", "dedup"}
  BY OnlyWorker
<1>2. Rooted'
  BY <1>1, TablesUnchanged DEF Alone, Rooted, RootsInHand, PlansAreHarmless
<1>3. ASSUME Accurate PROVE Accurate'
  <2>1. PlansAreCurrent' /\ LoadedIsCurrent'
    BY <1>1 DEF PlansAreCurrent, LoadedIsCurrent
  <2>2. \A c : Marked(c)' => Marked(c)
    BY <1>1 DEF Marked, tables
  <2>3. MarkedWereCompared'
    BY <1>3, <2>2, TablesUnchanged DEF Accurate, MarkedWereCompared, tables
  <2>. QED BY <1>3, <2>1, <2>3, TablesUnchanged DEF Accurate
<1>. QED BY <1>2, <1>3, TablesUnchanged DEF Alone

LEMMA QuietStepsAlone ==
  ASSUME OneWorker, IInv, Alone, NEW w \in Workers,
         \/ StartRun(w) \/ SkipPaper(w) \/ LoadPaper(w) \/ PaperFails(w) \/ StartScore(w)
         \/ SaveScore(w) \/ FinishRun(w) \/ Crash(w)
  PROVE  Alone'
<1>1. phase \in [Workers -> Phases]
  BY DEF IInv, TypeOK, StagesTypeOK
<1>2. UNCHANGED tables
  BY DEF StartRun, SkipPaper, LoadPaper, PaperFails, StartScore, SaveScore, FinishRun, Crash,
         tables, store
<1>3. phase'[w] \in {"idle", "extract", "read", "score", "dedup"}
  BY <1>1 DEF StartRun, SkipPaper, LoadPaper, PaperFails, StartScore, SaveScore, FinishRun,
              Crash, Goto
<1>. QED BY <1>2, <1>3, QuietStepAlone

\* Steps of others, as far as this module has any, and stuttering.
LEMMA OthersAlone ==
  ASSUME Alone, UNCHANGED <<tables, phase, todo, plan, seen, scored>>
  PROVE  Alone'
<1>1. \A c : IsRoot(c)' = IsRoot(c) /\ HasDependents(c)' = HasDependents(c) /\ Marked(c)' = Marked(c)
  BY DEF tables, IsRoot, HasDependents, EvidenceOf, Ids, Marked
<1>2. \A p : ClaimsOf(p)' = ClaimsOf(p)
  BY DEF tables, ClaimsOf, Ids
<1>3. Rooted'
  BY <1>1, TablesUnchanged DEF Alone, Rooted, RootsInHand, PlansAreHarmless
<1>4. ASSUME Accurate PROVE Accurate'
  <2>1. PlansAreCurrent'
    BY <1>2, <1>4 DEF tables, Accurate, PlansAreCurrent
  <2>2. LoadedIsCurrent'
    BY <1>4, TablesUnchanged DEF tables, Accurate, LoadedIsCurrent
  <2>3. MarkedWereCompared'
    BY <1>1, <1>4, TablesUnchanged DEF tables, Accurate, MarkedWereCompared
  <2>. QED BY <1>4, <2>1, <2>2, <2>3, TablesUnchanged DEF Accurate
<1>. QED BY <1>3, <1>4, TablesUnchanged DEF Alone

\* Evidence linking.

LEMMA LinkingAlone ==
  ASSUME OneWorker, IInv, Alone, NEW w \in Workers, Linking(w)
  PROVE  Alone'
<1>1. phase \in [Workers -> Phases] /\ todo \in [Workers -> SUBSET (Papers \cup ClaimIds)]
  BY DEF IInv, TypeOK, StagesTypeOK
<1>2. /\ UNCHANGED <<claim, extractionState, generation, compared, scored>>
      /\ phase'[w] = "link"
  BY <1>1 DEF Linking, StartLink, SaveLinks, LinkFails, Goto, store
<1>3. \A c \in todo'[w] \cap Ids : IsRoot(c)
  <2>1. CASE StartLink(w)
    BY <1>1, <2>1 DEF StartLink, Goto, Roots
  <2>2. CASE SaveLinks(w) \/ LinkFails(w)
    <3>1. phase[w] = "link" /\ todo'[w] \subseteq todo[w]
      BY <1>1, <2>2 DEF SaveLinks, LinkFails, Goto
    <3>. QED BY <3>1 DEF Alone, Rooted, RootsInHand
  <2>. QED BY <2>1, <2>2 DEF Linking
<1>4. RootsInHand'
  BY <1>2, <1>3, OnlyWorker DEF RootsInHand, Ids, IsRoot
<1>5. PlansAreHarmless' /\ PlansAreCurrent' /\ LoadedIsCurrent'
  BY <1>2, OnlyWorker DEF PlansAreHarmless, PlansAreCurrent, LoadedIsCurrent
<1>6. EvidenceOnRoots'
  <2>1. CASE SaveLinks(w)
    <3>. DEFINE c == Least(todo[w])
    <3>1. PICK links \in SUBSET Passages :
            /\ links = {} \/ c \in Ids
            /\ evidence' = (evidence \ EvidenceOf(c))
                             \cup {[claim |-> c, passage |-> n] : n \in links}
      BY <2>1 DEF SaveLinks
    <3>2. phase[w] = "link" /\ c \in todo[w]
      BY <2>1, NextTodo DEF IInv, TypeOK, SaveLinks
    <3>3. c \in Ids => IsRoot(c)
      BY <3>2 DEF Alone, Rooted, RootsInHand
    <3>. QED BY <1>2, <3>1, <3>3 DEF Alone, Rooted, EvidenceOnRoots, IsRoot
  <2>2. CASE StartLink(w) \/ LinkFails(w)
    <3>1. evidence' = evidence
      BY <2>2 DEF StartLink, LinkFails, store
    <3>. QED BY <1>2, <3>1 DEF Alone, Rooted, EvidenceOnRoots, IsRoot
  <2>. QED BY <2>1, <2>2 DEF Linking
<1>7. ASSUME Accurate PROVE MarkedWereCompared' /\ ExtractionStateIsTrue'
  <2>1. \A c : Marked(c)' => Marked(c)
    BY <1>2, OnlyWorker DEF Marked
  <2>2. Roots' = Roots /\ \A p : ClaimsOf(p)' = ClaimsOf(p)
    BY <1>2 DEF Roots, Ids, IsRoot, ClaimsOf
  <2>3. MarkedWereCompared'
    BY <1>2, <1>7, <2>1, <2>2 DEF Accurate, MarkedWereCompared
  <2>4. ExtractionStateIsTrue'
    BY <1>2, <1>7, <2>2 DEF Accurate, ExtractionStateIsTrue
  <2>. QED BY <2>3, <2>4
<1>8. NeverRebuilt' = NeverRebuilt
  BY <1>2 DEF NeverRebuilt
<1>. QED BY <1>4, <1>5, <1>6, <1>7, <1>8 DEF Alone, Rooted, Accurate

\* Re-extraction.

LEMMA ReconcileReadAlone ==
  ASSUME OneWorker, IInv, Alone, NEW w \in Workers, ReconcileRead(w)
  PROVE  Alone'
<1>. DEFINE p == Least(todo[w])
<1>1. /\ phase \in [Workers -> Phases] /\ todo \in [Workers -> SUBSET (Papers \cup ClaimIds)]
      /\ plan \in [Workers -> Plans]
  BY DEF IInv, TypeOK, StagesTypeOK, WorkersTypeOK
<1>2. PICK batch \in Batches :
        /\ \A c \in Stale(p, batch) : ~HasDependents(c)
        /\ plan' = [plan EXCEPT ![w] = PlanOf(w, p, batch)]
  BY DEF ReconcileRead
<1>3. /\ UNCHANGED <<tables, scored>> /\ phase'[w] = "reconciled" /\ todo'[w] = todo[w]
      /\ plan'[w] = PlanOf(w, p, batch)
  BY <1>1, <1>2 DEF ReconcileRead, Goto, store, tables
<1>4. \A c : HasDependents(c)' = HasDependents(c)
  BY <1>3 DEF tables, HasDependents, EvidenceOf, Ids
<1>5. Ids' = Ids /\ \A c : ClaimsOf(c)' = ClaimsOf(c)
  BY <1>3 DEF tables, Ids, ClaimsOf
<1>. DEFINE matched == Matched(p, batch)
            updates == [c \in matched |->
                          batch[CHOOSE i \in DOMAIN batch : c \in MatchOf(p, batch, i)].value]
<1>6. /\ plan'[w].delete = Stale(p, batch)
      /\ plan'[w].update = updates
      /\ plan'[w].changed = {c \in matched : claim[c].value # updates[c]}
  BY <1>3 DEF PlanOf
<1>7. matched \subseteq ClaimsOf(p) /\ DOMAIN updates = matched
  BY DEF Matched, MatchOf
<1>. HIDE DEF updates, matched
<1>8. PlansAreHarmless'
  BY <1>2, <1>4, <1>6, OnlyWorker DEF PlansAreHarmless
<1>9. PlansAreCurrent'
  <2>1. plan'[w].delete = ClaimsOf(p) \ matched
    BY <1>6 DEF Stale, matched
  <2>2. claim' = claim /\ p' = p
    BY <1>3 DEF tables
  <2>3. /\ DOMAIN plan'[w].update \subseteq ClaimsOf(p)'
        /\ plan'[w].delete = ClaimsOf(p)' \ DOMAIN plan'[w].update
        /\ \A c \in DOMAIN plan'[w].update :
             claim'[c].value = plan'[w].update[c] \/ c \in plan'[w].changed
    BY <1>5, <1>6, <1>7, <2>1, <2>2
  <2>. QED BY <1>3, <2>2, <2>3, OnlyWorker DEF PlansAreCurrent
<1>10. RootsInHand' /\ LoadedIsCurrent'
  BY <1>3, OnlyWorker DEF RootsInHand, LoadedIsCurrent
<1>11. ASSUME Accurate PROVE MarkedWereCompared'
  <2>1. \A c : Marked(c)' => Marked(c)
    BY <1>3, OnlyWorker DEF Marked, tables
  <2>. QED BY <1>3, <1>11, <2>1, TablesUnchanged DEF Accurate, MarkedWereCompared, tables
<1>. QED BY <1>3, <1>8, <1>9, <1>10, <1>11, TablesUnchanged DEF Alone, Rooted, Accurate

\* The ids a plan's records get, one each.
NewIds(insert) == {NewId(insert, i) : i \in DOMAIN insert}

LEMMA NewIdsAreCounted ==
  ASSUME nextId \in Nat, NEW S \in SUBSET (1..MaxBatch), NEW insert \in [S -> Records]
  PROVE  IsFiniteSet(NewIds(insert)) /\ Cardinality(NewIds(insert)) = Cardinality(S)
<1>. DEFINE before(i) == {j \in S : j < i}
            f == [i \in S |-> NewId(insert, i)]
<1>1. IsFiniteSet(S) /\ S \subseteq Nat
  <2>1. IsFiniteSet(1..MaxBatch)
    BY BoundsAssumption, FS_Interval
  <2>2. IsFiniteSet(S)
    BY <2>1, FS_Subset
  <2>. QED BY <2>2
<1>2. \A i \in S : /\ IsFiniteSet(before(i)) /\ Cardinality(before(i)) \in Nat
                   /\ NewId(insert, i) = nextId + Cardinality(before(i))
  BY <1>1, FS_Subset, FS_CardinalityType DEF NewId
<1>3. ASSUME NEW i \in S, NEW j \in S, i < j
      PROVE  NewId(insert, i) # NewId(insert, j)
  <2>0. i \in Nat /\ j \in Nat /\ \A k \in S : k \in Nat
    BY <1>1
  <2>1. before(i) \in SUBSET before(j) /\ before(i) # before(j)
    <3>1. \A k \in S : k < i => k < j
      BY <1>3, <2>0
    <3>2. ~(i < i)
      BY <2>0
    <3>3. i \in before(j) /\ i \notin before(i)
      BY <1>3, <3>2
    <3>. QED BY <3>1, <3>3
  <2>2. Cardinality(before(i)) < Cardinality(before(j))
    BY <1>2, <2>1, FS_Subset
  <2>. QED BY <1>2, <2>2
<1>4. \A i, j \in S : NewId(insert, i) = NewId(insert, j) => i = j
  <2>. SUFFICES ASSUME NEW i \in S, NEW j \in S, i # j
                PROVE  NewId(insert, i) # NewId(insert, j)
    OBVIOUS
  <2>1. i < j \/ j < i
    BY <1>1
  <2>. QED BY <1>3, <2>1
<1>5. NewIds(insert) = {f[i] : i \in S}
  BY DEF NewIds
<1>6. f \in Bijection(S, NewIds(insert))
  BY <1>4, <1>5 DEF Bijection, Injection, Surjection, IsInjective
<1>. HIDE DEF f
<1>. QED BY <1>1, <1>6, FS_Bijection DEF ExistsBijection

\* The claim table after a re-extraction, claim by claim.
Persisted(p, P, rows) ==
  /\ DOMAIN rows = (Ids \ P.delete) \cup NewIds(P.insert)
  /\ Ids \cap NewIds(P.insert) = {}
  /\ \A c \in Ids \ P.delete :
       /\ rows[c].paper = claim[c].paper
       /\ rows[c].value = IF c \in DOMAIN P.update THEN P.update[c] ELSE claim[c].value
       /\ rows[c].checked = IF c \in Detached(P.changed) THEN FALSE ELSE claim[c].checked
       /\ rows[c].canonical =
            IF c \in Detached(P.changed) \/ claim[c].canonical \in P.delete
            THEN NoClaim ELSE claim[c].canonical
  /\ \A c \in NewIds(P.insert) :
       rows[c].paper = p /\ rows[c].canonical = NoClaim /\ rows[c].checked = FALSE

LEMMA PersistedClaims ==
  ASSUME IInv, NEW p \in Papers, NEW P \in Plans
  PROVE  Persisted(p, P, RowsAfterPersist(p, P))
<1>. DEFINE group == Detached(P.changed)
            insert == P.insert
            inserted == NewIds(insert)
            rows == RowsAfterPersist(p, P)
            recordOf(c) == insert[CHOOSE i \in DOMAIN insert : NewId(insert, i) = c]
            rewritten ==
              [c \in Ids |->
                 [claim[c] EXCEPT
                    !.value = IF c \in DOMAIN P.update THEN P.update[c] ELSE @,
                    !.canonical = IF c \in group THEN NoClaim ELSE @,
                    !.checked = IF c \in group THEN FALSE ELSE @]]
            kept == RowsWithout(rewritten, P.delete)
            fresh(c) == [paper |-> p, canonical |-> NoClaim, checked |-> FALSE,
                         key |-> recordOf(c).key, value |-> recordOf(c).value]
<1>1. rows = [c \in DOMAIN kept \cup inserted |-> IF c \in inserted THEN fresh(c) ELSE kept[c]]
  BY DEF RowsAfterPersist, NewIds
<1>2. Ids \subseteq 1..(nextId - 1) /\ nextId \in Nat /\ claim \in [Ids -> Row]
  BY BoundsAssumption DEF IInv, TypeOK, StoreTypeOK
<1>3. DOMAIN insert \in SUBSET (1..MaxBatch) /\ insert \in [DOMAIN insert -> Records]
  BY DEF Plans
<1>4. Ids \cap inserted = {}
  <2>. SUFFICES ASSUME NEW i \in DOMAIN insert PROVE NewId(insert, i) \notin Ids
    BY DEF NewIds
  <2>1. NewId(insert, i) \in nextId..(nextId + Cardinality(DOMAIN insert) - 1)
        /\ Cardinality(DOMAIN insert) \in Nat
    BY <1>2, <1>3, NewIdsAreNew
  <2>. HIDE DEF insert
  <2>. QED BY <1>2, <2>1
<1>5. \A c \in Ids :
        /\ rewritten[c].paper = claim[c].paper
        /\ rewritten[c].value = IF c \in DOMAIN P.update THEN P.update[c] ELSE claim[c].value
        /\ rewritten[c].checked = IF c \in group THEN FALSE ELSE claim[c].checked
        /\ rewritten[c].canonical = IF c \in group THEN NoClaim ELSE claim[c].canonical
        /\ DOMAIN rewritten[c] = DOMAIN claim[c]
  BY <1>2 DEF Row
<1>6. DOMAIN rewritten = Ids
  OBVIOUS
<1>. HIDE DEF rewritten, group
<1>7. kept = [c \in Ids \ P.delete |->
                [rewritten[c] EXCEPT !.canonical = IF @ \in P.delete THEN NoClaim ELSE @]]
  BY <1>6 DEF RowsWithout
<1>8. ASSUME NEW c \in Ids \ P.delete
      PROVE  /\ kept[c].paper = rewritten[c].paper
             /\ kept[c].value = rewritten[c].value
             /\ kept[c].checked = rewritten[c].checked
             /\ kept[c].canonical = IF rewritten[c].canonical \in P.delete THEN NoClaim
                                    ELSE rewritten[c].canonical
  <2>1. DOMAIN rewritten[c] = {"paper", "key", "value", "canonical", "checked"}
    BY <1>2, <1>5 DEF Row
  <2>2. kept[c] = [rewritten[c] EXCEPT !.canonical = IF @ \in P.delete THEN NoClaim ELSE @]
    BY <1>7
  <2>. HIDE DEF kept
  <2>. QED BY <2>1, <2>2
<1>9. DOMAIN kept = Ids \ P.delete
  BY <1>7
<1>. HIDE DEF kept, inserted, rows
<1>10. NoClaim \notin P.delete
  BY ClaimIdsAreNaturals DEF Plans
<1>11. \A c \in Ids \ P.delete : rows[c] = kept[c]
  BY <1>1, <1>4, <1>9
<1>12. /\ \A c \in inserted : rows[c] = fresh(c)
       /\ \A c : fresh(c).paper = p /\ fresh(c).canonical = NoClaim /\ fresh(c).checked = FALSE
  BY <1>1
<1>13. DOMAIN rows = (Ids \ P.delete) \cup inserted
  BY <1>1, <1>9
<1>14. \A c \in Ids \ P.delete :
         /\ rows[c].paper = claim[c].paper
         /\ rows[c].value = IF c \in DOMAIN P.update THEN P.update[c] ELSE claim[c].value
         /\ rows[c].checked = IF c \in group THEN FALSE ELSE claim[c].checked
         /\ rows[c].canonical = IF c \in group \/ claim[c].canonical \in P.delete
                                THEN NoClaim ELSE claim[c].canonical
  <2>. TAKE c \in Ids \ P.delete
  <2>. DEFINE old == claim[c]
              new == rows[c]
              between == rewritten[c]
  <2>1. /\ between.paper = old.paper
        /\ between.value = IF c \in DOMAIN P.update THEN P.update[c] ELSE old.value
        /\ between.checked = IF c \in group THEN FALSE ELSE old.checked
        /\ between.canonical = IF c \in group THEN NoClaim ELSE old.canonical
    BY <1>5
  <2>2. /\ new.paper = between.paper /\ new.value = between.value
        /\ new.checked = between.checked
        /\ new.canonical = IF between.canonical \in P.delete THEN NoClaim ELSE between.canonical
    BY <1>8, <1>11
  <2>. HIDE DEF old, new, between
  <2>3. /\ new.paper = old.paper
        /\ new.value = IF c \in DOMAIN P.update THEN P.update[c] ELSE old.value
        /\ new.checked = IF c \in group THEN FALSE ELSE old.checked
        /\ new.canonical = IF c \in group \/ old.canonical \in P.delete
                           THEN NoClaim ELSE old.canonical
    BY <1>10, <2>1, <2>2
  <2>. QED BY <2>3 DEF old, new
<1>15. \A c \in inserted :
         rows[c].paper = p /\ rows[c].canonical = NoClaim /\ rows[c].checked = FALSE
  <2>. HIDE DEF fresh
  <2>. QED BY <1>12
<1>16. Persisted(p, P, rows)
  BY <1>4, <1>13, <1>14, <1>15 DEF Persisted, inserted, group
<1>. QED BY <1>16 DEF rows

\* Evidence of a group that falls apart stays within the group.
LEMMA HomeInGroup ==
  ASSUME IInv, NEW changed, NEW e \in evidence, e.claim \in Detached(changed)
  PROVE  HomeOf(e) \in Detached(changed)
<1>1. PICK c \in changed \cap Ids : e.claim \in Members(RootOf(c))
  BY DEF Detached
<1>. DEFINE r == RootOf(c)
            siblings == {d \in Members(r) : claim[d].paper = PassagePaper[e.passage]}
<1>2. r \in Ids /\ IsRoot(r)
  BY DEF IInv, LinksOK, CanonicalPointsToRoot, RootOf, Roots
<1>3. r # NoClaim
  BY <1>2, IdsAreClaimIds, ClaimIdsAreNaturals DEF IInv, TypeOK
<1>4. RootOf(e.claim) = r
  <2>1. CASE e.claim = r
    BY <1>2, <2>1 DEF RootOf
  <2>2. CASE claim[e.claim].canonical = r
    BY <1>3, <2>2 DEF RootOf, IsRoot
  <2>. QED BY <1>1, <2>1, <2>2 DEF Members
<1>. HIDE DEF r
<1>5. r \in Members(r)
  BY <1>2 DEF Members
<1>6. siblings \in SUBSET Nat
  BY IdsAreClaimIds, ClaimIdsAreNaturals DEF IInv, TypeOK, Members
<1>7. siblings # {} => Least(siblings) \in siblings
  BY <1>6, LeastIsMember
<1>8. HomeOf(e) \in {e.claim, r} \/ (siblings # {} /\ HomeOf(e) = Least(siblings))
  BY <1>4 DEF HomeOf
<1>9. HomeOf(e) \in Members(r)
  BY <1>1, <1>5, <1>7, <1>8 DEF r
<1>. QED BY <1>9 DEF Detached, r

\* A claim that changes belongs to a group that falls apart.
LEMMA ChangedAreDetached ==
  ASSUME NEW changed, NEW c \in changed \cap Ids
  PROVE  c \in Detached(changed)
<1>1. c \in Members(RootOf(c))
  BY DEF Members, RootOf, IsRoot
<1>. QED BY <1>1 DEF Detached

LEMMA PersistExtractionAlone ==
  ASSUME OneWorker, IInv, Alone, NEW w \in Workers, PersistExtraction(w)
  PROVE  Alone'
<1>. DEFINE p == Least(todo[w])
            P == plan[w]
            group == Detached(P.changed)
            inserted == NewIds(P.insert)
            accepted == Cardinality(DOMAIN P.update) + Cardinality(DOMAIN P.insert)
<1>1. todo[w] \subseteq Papers /\ todo[w] # {} /\ p \in Papers
  BY NextTodo DEF IInv, TypeOK, StagesTypeOK, PersistExtraction
<1>2. P \in Plans /\ phase \in [Workers -> Phases]
  BY DEF IInv, TypeOK, WorkersTypeOK, StagesTypeOK
<1>3. /\ phase[w] = "reconciled" /\ phase'[w] = "extract"
      /\ DOMAIN P.update \subseteq Ids
      /\ claim' = RowsAfterPersist(p, P)
      /\ evidence' = {e \in EvidenceAfterDetach(group) : e.claim \notin P.delete}
      /\ extractionState' = [extractionState EXCEPT
                               ![p] = [version |-> version[w], accepted |-> accepted]]
      /\ compared' = {pair \in compared : pair \cap (P.changed \cup P.delete) = {}}
      /\ UNCHANGED generation
  BY <1>2 DEF PersistExtraction, Goto
<1>4. /\ Ids' = (Ids \ P.delete) \cup inserted
      /\ Ids \cap inserted = {}
      /\ \A c \in Ids \ P.delete :
           /\ claim'[c].paper = claim[c].paper
           /\ claim'[c].value = IF c \in DOMAIN P.update THEN P.update[c] ELSE claim[c].value
           /\ claim'[c].checked = IF c \in group THEN FALSE ELSE claim[c].checked
           /\ claim'[c].canonical = IF c \in group \/ claim[c].canonical \in P.delete
                                    THEN NoClaim ELSE claim[c].canonical
      /\ \A c \in inserted :
           claim'[c].paper = p /\ claim'[c].canonical = NoClaim /\ claim'[c].checked = FALSE
  <2>. DEFINE rows == claim'
  <2>1. p \in Papers /\ P \in Plans /\ rows = RowsAfterPersist(p, P)
    BY <1>1, <1>2, <1>3
  <2>2. Ids' = DOMAIN rows
    BY DEF Ids
  <2>. HIDE DEF rows, p, P
  <2>3. Persisted(p, P, rows)
    BY <2>1, PersistedClaims
  <2>. QED BY <2>2, <2>3 DEF rows, Persisted
<1>5. \A v \in Workers : phase'[v] = "extract"
  BY <1>3, OnlyWorker
<1>6. RootsInHand' /\ PlansAreHarmless' /\ PlansAreCurrent' /\ LoadedIsCurrent'
  BY <1>5 DEF RootsInHand, PlansAreHarmless, PlansAreCurrent, LoadedIsCurrent
<1>. HIDE DEF group, inserted, accepted, p, P
<1>7. EvidenceOnRoots'
  <2>. SUFFICES ASSUME NEW e \in evidence' PROVE claim'[e.claim].canonical = NoClaim
    BY DEF EvidenceOnRoots, IsRoot
  <2>1. PICK x \in evidence : e = IF x.claim \in group THEN [x EXCEPT !.claim = HomeOf(x)] ELSE x
    BY <1>3 DEF EvidenceAfterDetach
  <2>2. x \in [claim : Ids, passage : Passages] /\ HomeOf(x) \in Ids
    BY HomeExists DEF IInv, TypeOK, StoreTypeOK
  <2>3. e.claim \in Ids \ P.delete
    BY <1>3, <2>1, <2>2
  <2>4. CASE x.claim \in group
    <3>1. e.claim = HomeOf(x) /\ HomeOf(x) \in group
      BY <2>1, <2>2, <2>4, HomeInGroup DEF group
    <3>. QED BY <1>4, <2>3, <3>1
  <2>5. CASE x.claim \notin group
    <3>1. e = x /\ claim[x.claim].canonical = NoClaim
      BY <2>1, <2>5 DEF Alone, Rooted, EvidenceOnRoots, IsRoot
    <3>. QED BY <1>4, <2>3, <3>1
  <2>. QED BY <2>4, <2>5
<1>8. ASSUME Accurate PROVE MarkedWereCompared'
  <2>1. ASSUME NEW c \in Roots', Marked(c)'
        PROVE  /\ c \in Roots /\ claim[c].checked /\ claim'[c].value = claim[c].value
               /\ c \notin P.changed \cup P.delete
    <3>1. c \in Ids' /\ claim'[c].checked /\ claim'[c].canonical = NoClaim
      BY <1>5, <2>1 DEF Roots, IsRoot, Marked
    <3>2. c \in Ids \ P.delete /\ c \notin group /\ claim[c].checked
      BY <1>4, <3>1
    <3>3. c \notin P.changed
      BY <3>2, ChangedAreDetached DEF group
    <3>4. claim[c].canonical \notin P.delete \cap Ids
      BY <1>3, <3>2 DEF Alone, Rooted, PlansAreHarmless, HasDependents, P
    <3>5. claim[c].canonical = NoClaim
      <4>1. claim[c].canonical # NoClaim => claim[c].canonical \in Ids
        BY <3>2 DEF IInv, LinksOK, CanonicalPointsToRoot, IsRoot, Roots
      <4>. QED BY <1>4, <3>1, <3>2, <3>4, <4>1
    <3>6. c \in DOMAIN P.update => claim[c].value = P.update[c]
      BY <1>3, <1>8, <3>3 DEF Accurate, PlansAreCurrent, P
    <3>. QED BY <1>4, <3>2, <3>3, <3>5, <3>6 DEF Roots, IsRoot
  <2>. SUFFICES ASSUME NEW c \in Roots', NEW d \in Roots', c # d, Marked(c)', Marked(d)',
                       Overlaps(claim'[c].value, claim'[d].value)
                PROVE  {c, d} \in compared'
    BY DEF MarkedWereCompared, Overlaps
  <2>2. /\ c \in Roots /\ claim[c].checked /\ claim'[c].value = claim[c].value
        /\ d \in Roots /\ claim[d].checked /\ claim'[d].value = claim[d].value
        /\ {c, d} \cap (P.changed \cup P.delete) = {}
    BY <2>1
  <2>3. {c, d} \in compared
    BY <1>8, <2>2 DEF Accurate, MarkedWereCompared, Marked, Overlaps
  <2>. QED BY <1>3, <2>2, <2>3
<1>9. ASSUME Accurate PROVE ExtractionStateIsTrue'
  <2>. SUFFICES ASSUME NEW q \in Papers, extractionState'[q].version # NoVersion
                PROVE  Cardinality(ClaimsOf(q)') = extractionState'[q].accepted
    BY DEF ExtractionStateIsTrue
  <2>1. /\ DOMAIN P.update \subseteq ClaimsOf(p)
        /\ P.delete = ClaimsOf(p) \ DOMAIN P.update
    BY <1>3, <1>9 DEF Accurate, PlansAreCurrent, P, p
  <2>2. ClaimsOf(q)' = {c \in Ids' : claim'[c].paper = q}
    BY DEF ClaimsOf
  <2>3. DOMAIN extractionState = Papers
    BY DEF IInv, TypeOK, StoreTypeOK
  <2>4. CASE q = p
    <3>1. ClaimsOf(q)' = DOMAIN P.update \cup inserted /\ DOMAIN P.update \cap inserted = {}
      <4>1. \A c \in Ids \ P.delete : claim'[c].paper = p <=> c \in DOMAIN P.update
        BY <1>4, <2>1 DEF ClaimsOf
      <4>2. DOMAIN P.update \subseteq Ids \ P.delete
        BY <1>3, <2>1
      <4>3. {c \in Ids' : claim'[c].paper = p} = DOMAIN P.update \cup inserted
        BY <1>4, <4>1, <4>2
      <4>. QED BY <1>4, <2>2, <2>4, <4>2, <4>3
    <3>2. /\ IsFiniteSet(DOMAIN P.update) /\ Cardinality(DOMAIN P.update) \in Nat
      <4>1. IsFiniteSet(ClaimIds)
        BY BoundsAssumption, FS_Interval DEF ClaimIds
      <4>2. DOMAIN P.update \in SUBSET ClaimIds
        BY <1>2 DEF Plans
      <4>3. IsFiniteSet(DOMAIN P.update)
        BY <4>1, <4>2, FS_Subset
      <4>. QED BY <4>3, FS_CardinalityType
    <3>3. IsFiniteSet(inserted) /\ Cardinality(inserted) = Cardinality(DOMAIN P.insert)
      <4>1. P.insert \in [DOMAIN P.insert -> Records] /\ DOMAIN P.insert \in SUBSET (1..MaxBatch)
        BY <1>2 DEF Plans
      <4>2. nextId \in Nat
        BY BoundsAssumption DEF IInv, TypeOK, StoreTypeOK
      <4>. QED BY <4>1, <4>2, NewIdsAreCounted DEF inserted
    <3>4. Cardinality(DOMAIN P.update \cup inserted)
            = Cardinality(DOMAIN P.update) + Cardinality(inserted)
              - Cardinality(DOMAIN P.update \cap inserted)
      BY <3>2, <3>3, FS_Union
    <3>5. Cardinality(inserted) \in Nat /\ Cardinality(DOMAIN P.update \cap inserted) = 0
      BY <3>1, <3>3, FS_CardinalityType, FS_EmptySet
    <3>6. extractionState'[q].accepted = accepted
      BY <1>1, <1>3, <2>3, <2>4
    <3>. QED BY <3>1, <3>2, <3>3, <3>4, <3>5, <3>6 DEF accepted
  <2>5. CASE q # p
    <3>1. ClaimsOf(q)' = ClaimsOf(q)
      <4>1. \A c \in P.delete : c \in Ids => claim[c].paper = p
        BY <2>1 DEF ClaimsOf
      <4>2. \A c : c \in Ids' /\ claim'[c].paper = q <=> c \in Ids /\ claim[c].paper = q
        BY <1>4, <2>5, <4>1
      <4>. QED BY <2>2, <4>2 DEF ClaimsOf
    <3>2. extractionState'[q] = extractionState[q]
      BY <1>3, <2>3, <2>5
    <3>. QED BY <1>9, <3>1, <3>2 DEF Accurate, ExtractionStateIsTrue
  <2>. QED BY <2>4, <2>5
<1>. QED BY <1>3, <1>6, <1>7, <1>8, <1>9 DEF Alone, Rooted, Accurate, NeverRebuilt

\* Claim identity.

LEMMA StartDedupAlone ==
  ASSUME OneWorker, IInv, Alone, NEW w \in Workers, StartDedup(w)
  PROVE  Alone'
<1>1. /\ phase \in [Workers -> Phases] /\ w \in DOMAIN seen
      /\ UNCHANGED tables
  BY DEF IInv, TypeOK, StagesTypeOK, WorkersTypeOK, StartDedup, store, tables
<1>2. CASE phase'[w] = "dedup"
  BY <1>1, <1>2, QuietStepAlone
<1>3. CASE phase'[w] # "dedup"
  <2>. DEFINE loaded == [c \in Roots |-> [value |-> claim[c].value, pending |-> ~claim[c].checked]]
  <2>1. phase'[w] = "compare" /\ seen'[w] = loaded
    BY <1>1, <1>3 DEF StartDedup, Goto
  <2>2. RootsInHand' /\ PlansAreHarmless' /\ PlansAreCurrent'
    BY <2>1, OnlyWorker DEF RootsInHand, PlansAreHarmless, PlansAreCurrent
  <2>3. LoadedIsCurrent'
    <3>1. claim' = claim /\ Roots' = Roots
      BY <1>1, TablesUnchanged DEF tables
    <3>. QED BY <2>1, <3>1, OnlyWorker DEF LoadedIsCurrent
  <2>4. \A c : Marked(c)' => Marked(c)
    BY <1>1, <2>1, OnlyWorker DEF Marked, tables
  <2>5. ASSUME Accurate PROVE MarkedWereCompared'
    BY <1>1, <2>4, <2>5, TablesUnchanged DEF Accurate, MarkedWereCompared, tables
  <2>. QED BY <1>1, <2>2, <2>3, <2>5, TablesUnchanged DEF Alone, Rooted, Accurate
<1>. QED BY <1>2, <1>3

LEMMA PairsHaveTwo ==
  ASSUME NEW c, NEW d, c # d
  PROVE  Cardinality({c, d}) = 2
<1>1. {c, d} = {c} \cup {d} /\ d \notin {c}
  OBVIOUS
<1>2. IsFiniteSet({c}) /\ Cardinality({c}) = 1
  BY FS_Singleton
<1>. QED BY <1>1, <1>2, FS_AddElement

\* The claim table after a merge, claim by claim.
Merged(family, rows) ==
  /\ DOMAIN rows = Ids
  /\ \A c \in Ids :
       /\ rows[c].paper = claim[c].paper /\ rows[c].value = claim[c].value
       /\ \/ /\ \E g \in family : c \in g.members
             /\ rows[c].canonical = NoClaim <=> c \notin DuplicatesIn(family)
          \/ /\ \A g \in family : c \notin g.members
             /\ IsRoot(c) => rows[c] = claim[c]
             /\ ~IsRoot(c) => rows[c].canonical # NoClaim

LEMMA MergedClaims ==
  ASSUME IInv, NEW loaded, DOMAIN loaded \subseteq ClaimIds,
         NEW family \in GroupFamilies(loaded)
  PROVE  Merged(family, [c \in Ids |-> Relinked(family, c)])
<1>. DEFINE rows == [c \in Ids |-> Relinked(family, c)]
            duplicates == DuplicatesIn(family)
            members == UNION {g.members : g \in family}
<1>1. claim \in [Ids -> Row]
  BY DEF IInv, TypeOK, StoreTypeOK
<1>2. \A c \in members : CanonicalFor(family, c) # NoClaim
  BY CanonicalClaims, ClaimIdsAreNaturals
<1>3. duplicates \subseteq members /\ NoClaim \notin duplicates
  BY CanonicalClaims, ClaimIdsAreNaturals DEF DuplicatesIn
<1>. HIDE DEF members, duplicates
<1>4. ASSUME NEW c \in Ids
      PROVE  /\ rows[c].paper = claim[c].paper /\ rows[c].value = claim[c].value
             /\ c \in members => (rows[c].canonical = NoClaim <=> c \notin duplicates)
             /\ c \notin members => /\ IsRoot(c) => rows[c] = claim[c]
                                    /\ ~IsRoot(c) => rows[c].canonical # NoClaim
  <2>. DEFINE row == claim[c]
              new == rows[c]
  <2>0. row \in Row /\ (IsRoot(c) <=> row.canonical = NoClaim)
    BY <1>1 DEF IsRoot
  <2>1. CASE c \in members
    <3>. DEFINE link == IF c \in duplicates THEN CanonicalFor(family, c) ELSE NoClaim
    <3>1. new = [row EXCEPT !.canonical = link, !.checked = TRUE]
      BY <2>1 DEF Relinked, members, duplicates
    <3>2. link = NoClaim <=> c \notin duplicates
      BY <1>2, <2>1
    <3>. HIDE DEF link, row, new
    <3>3. new.paper = row.paper /\ new.value = row.value /\ new.canonical = link
      BY <2>0, <3>1 DEF Row
    <3>. QED BY <2>1, <3>2, <3>3 DEF row, new
  <2>2. CASE c \notin members /\ row.canonical \in duplicates
    <3>. DEFINE link == CanonicalFor(family, row.canonical)
    <3>1. new = [row EXCEPT !.canonical = link, !.checked = TRUE]
      BY <2>2 DEF Relinked, members, duplicates
    <3>2. link # NoClaim
      BY <1>2, <1>3, <2>2
    <3>3. ~IsRoot(c)
      BY <1>3, <2>0, <2>2
    <3>. HIDE DEF link, row, new
    <3>4. new.paper = row.paper /\ new.value = row.value /\ new.canonical = link
      BY <2>0, <3>1 DEF Row
    <3>. QED BY <2>2, <3>2, <3>3, <3>4 DEF row, new
  <2>3. CASE c \notin members /\ row.canonical \notin duplicates
    <3>1. new = row
      BY <2>3 DEF Relinked, members, duplicates
    <3>. QED BY <2>0, <2>3, <3>1
  <2>. QED BY <2>1, <2>2, <2>3
<1>. HIDE DEF rows
<1>5. DOMAIN rows = Ids
  BY DEF rows
<1>6. \A c : c \in members <=> \E g \in family : c \in g.members
  BY DEF members
<1>7. Merged(family, rows)
  BY <1>4, <1>5, <1>6 DEF Merged, duplicates
<1>. QED BY <1>7 DEF rows

LEMMA CompareAlone ==
  ASSUME OneWorker, IInv, Alone, NEW w \in Workers, Compare(w)
  PROVE  Alone'
<1>1. PICK family \in GroupFamilies(seen[w]) :
        /\ \A g \in family : g.canonical \in Ids \/ g.members \cap Ids = {}
        /\ claim' = [c \in Ids |-> Relinked(family, c)]
        /\ MergeEvidence(family)
  BY DEF Compare
<1>2. /\ phase[w] = "compare" /\ phase'[w] = "mark"
      /\ UNCHANGED <<extractionState, generation, seen>>
      /\ compared' = compared \cup
           {pair \in EligiblePairs(seen[w]) :
              pair \subseteq Ids /\ \A c \in pair : claim[c].value = seen[w][c].value}
  BY DEF Compare, Goto, IInv, TypeOK, StagesTypeOK
<1>3. DOMAIN seen[w] \subseteq ClaimIds /\ evidence \subseteq [claim : Ids, passage : Passages]
  BY DEF IInv, TypeOK, WorkersTypeOK, StoreTypeOK
<1>4. Merged(family, claim') /\ Ids' = Ids
  <2>1. Merged(family, claim')
    BY <1>1, <1>3, MergedClaims
  <2>. QED BY <2>1 DEF Merged, Ids
<1>5. RootsInHand' /\ PlansAreHarmless' /\ PlansAreCurrent' /\ LoadedIsCurrent'
  BY <1>2, OnlyWorker DEF RootsInHand, PlansAreHarmless, PlansAreCurrent, LoadedIsCurrent
<1>6. EvidenceOnRoots'
  <2>. DEFINE touched == {e \in evidence : \E g \in family : e.claim \in g.members}
  <2>1. PICK kept \in SUBSET touched :
          evidence' = (evidence \ touched)
                        \cup {[e EXCEPT !.claim = CanonicalFor(family, e.claim)] : e \in kept}
    BY <1>1 DEF MergeEvidence
  <2>2. ASSUME NEW e \in evidence \ touched PROVE claim'[e.claim].canonical = NoClaim
    <3>1. e.claim \in Ids /\ claim[e.claim].canonical = NoClaim
      BY <1>3 DEF Alone, Rooted, EvidenceOnRoots, IsRoot
    <3>. QED BY <1>4, <3>1 DEF Merged, IsRoot
  <2>3. ASSUME NEW e \in kept PROVE claim'[CanonicalFor(family, e.claim)].canonical = NoClaim
    <3>1. PICK g \in family : e.claim \in g.members
      OBVIOUS
    <3>2. e.claim \in Ids
      BY <1>3
    <3>3. /\ CanonicalFor(family, e.claim) = g.canonical
          /\ g.canonical \in g.members /\ g.canonical \notin DuplicatesIn(family)
      BY <3>1, CanonicalClaims
    <3>4. g.canonical \in Ids
      BY <1>1, <3>1, <3>2
    <3>. QED BY <1>4, <3>3, <3>4 DEF Merged
  <2>. SUFFICES ASSUME NEW e \in evidence' PROVE claim'[e.claim].canonical = NoClaim
    BY DEF EvidenceOnRoots, IsRoot
  <2>4. CASE e \in evidence \ touched
    BY <2>2, <2>4
  <2>5. CASE \E x \in kept : e = [x EXCEPT !.claim = CanonicalFor(family, x.claim)]
    <3>1. PICK x \in kept : e = [x EXCEPT !.claim = CanonicalFor(family, x.claim)]
      BY <2>5
    <3>2. x \in [claim : Ids, passage : Passages]
      BY <1>3
    <3>3. e.claim = CanonicalFor(family, x.claim)
      BY <3>1, <3>2
    <3>. QED BY <2>3, <3>3
  <2>. QED BY <2>1, <2>4, <2>5
<1>7. ASSUME Accurate PROVE MarkedWereCompared'
  <2>1. /\ DOMAIN seen[w] = Roots
        /\ \A c \in Roots : /\ seen[w][c].value = claim[c].value
                            /\ seen[w][c].pending = ~claim[c].checked
    BY <1>2, <1>7 DEF Accurate, LoadedIsCurrent
  <2>2. \A c \in Roots' : c \in Roots /\ claim'[c].value = claim[c].value
    <3>. SUFFICES ASSUME NEW c \in Roots' PROVE c \in Roots /\ claim'[c].value = claim[c].value
      OBVIOUS
    <3>1. c \in Ids /\ claim'[c].canonical = NoClaim
      BY <1>4 DEF Roots, IsRoot
    <3>2. (\E g \in family : c \in g.members) => c \in Roots
      BY <2>1, CanonicalClaims
    <3>. QED BY <1>4, <3>1, <3>2 DEF Merged, Roots
  <2>. SUFFICES ASSUME NEW c \in Roots', NEW d \in Roots', c # d,
                       Overlaps(claim'[c].value, claim'[d].value)
                PROVE  {c, d} \in compared'
    BY DEF MarkedWereCompared, Overlaps
  <2>3. c \in Roots /\ d \in Roots /\ Overlaps(claim[c].value, claim[d].value)
    BY <2>2 DEF Overlaps
  <2>4. CASE claim[c].checked /\ claim[d].checked
    BY <1>2, <1>7, <2>3, <2>4 DEF Accurate, MarkedWereCompared, Marked
  <2>5. CASE ~claim[c].checked \/ ~claim[d].checked
    <3>1. \E x \in {c, d} : seen[w][x].pending
      BY <2>1, <2>3, <2>5
    <3>2. claim[c].value \in Nat /\ claim[d].value \in Nat
      BY <2>3, PapersAssumption DEF IInv, TypeOK, StoreTypeOK, Row, Roots
    <3>3. \A x, y \in {c, d} : Overlaps(seen[w][x].value, seen[w][y].value)
      BY <2>1, <2>3, <3>2 DEF Overlaps
    <3>4. {c, d} \in EligiblePairs(seen[w])
      <4>1. {c, d} \in {{x, y} : x, y \in DOMAIN seen[w]}
        BY <2>1, <2>3
      <4>2. Cardinality({c, d}) = 2
        BY PairsHaveTwo
      <4>. QED BY <3>1, <3>3, <4>1, <4>2 DEF EligiblePairs
    <3>5. {c, d} \subseteq Ids /\ \A x \in {c, d} : claim[x].value = seen[w][x].value
      BY <2>1, <2>3 DEF Roots
    <3>. QED BY <1>2, <3>4, <3>5
  <2>6. claim[c].checked \in BOOLEAN /\ claim[d].checked \in BOOLEAN
    BY <2>3 DEF IInv, TypeOK, StoreTypeOK, Row, Roots
  <2>. QED BY <2>4, <2>5
<1>8. ASSUME Accurate PROVE ExtractionStateIsTrue'
  <2>1. \A p \in Papers : ClaimsOf(p)' = ClaimsOf(p)
    BY <1>4 DEF ClaimsOf, Merged
  <2>. QED BY <1>2, <1>8, <2>1 DEF Accurate, ExtractionStateIsTrue
<1>9. NeverRebuilt' = NeverRebuilt
  BY <1>2 DEF NeverRebuilt
<1>. QED BY <1>5, <1>6, <1>7, <1>8, <1>9 DEF Alone, Rooted, Accurate

LEMMA MarkCheckedAlone ==
  ASSUME OneWorker, IInv, Alone, NEW w \in Workers, MarkChecked(w)
  PROVE  Alone'
<1>. DEFINE pending == {c \in DOMAIN seen[w] : seen[w][c].pending}
<1>1. /\ phase[w] = "mark" /\ phase'[w] = "dedup"
      /\ UNCHANGED <<evidence, extractionState, generation, compared>>
      /\ claim' = [c \in Ids |-> IF c \in pending THEN [claim[c] EXCEPT !.checked = TRUE]
                                                  ELSE claim[c]]
  BY DEF MarkChecked, Goto, IInv, TypeOK, StagesTypeOK
<1>2. claim \in [Ids -> Row]
  BY DEF IInv, TypeOK, StoreTypeOK
<1>3. Ids' = Ids
  BY <1>1 DEF Ids
<1>4. ASSUME NEW c \in Ids
      PROVE  /\ claim'[c].paper = claim[c].paper /\ claim'[c].value = claim[c].value
             /\ claim'[c].canonical = claim[c].canonical
             /\ claim'[c].checked => claim[c].checked \/ c \in pending
  BY <1>1, <1>2 DEF Row
<1>5. Roots' = Roots /\ \A p : ClaimsOf(p)' = ClaimsOf(p)
  BY <1>3, <1>4 DEF Roots, IsRoot, ClaimsOf
<1>6. RootsInHand' /\ PlansAreHarmless' /\ PlansAreCurrent' /\ LoadedIsCurrent'
  BY <1>1, OnlyWorker DEF RootsInHand, PlansAreHarmless, PlansAreCurrent, LoadedIsCurrent
<1>7. EvidenceOnRoots'
  <2>1. \A e \in evidence : e.claim \in Ids /\ claim[e.claim].canonical = NoClaim
    BY DEF IInv, TypeOK, StoreTypeOK, Alone, Rooted, EvidenceOnRoots, IsRoot
  <2>. QED BY <1>1, <1>4, <2>1 DEF EvidenceOnRoots, IsRoot
<1>8. ASSUME Accurate PROVE MarkedWereCompared'
  <2>1. \A c \in Ids : Marked(c)' => Marked(c)
    <3>1. \A v \in Workers : phase'[v] = "dedup"
      BY <1>1, OnlyWorker
    <3>. QED BY <1>1, <1>4, <3>1 DEF Marked
  <2>2. \A c \in Roots : c \in Ids /\ claim'[c].value = claim[c].value
    BY <1>4 DEF Roots
  <2>. QED BY <1>1, <1>5, <1>8, <2>1, <2>2 DEF Accurate, MarkedWereCompared
<1>9. ASSUME Accurate PROVE ExtractionStateIsTrue'
  BY <1>1, <1>5, <1>9 DEF Accurate, ExtractionStateIsTrue
<1>10. NeverRebuilt' = NeverRebuilt
  BY <1>1 DEF NeverRebuilt
<1>. QED BY <1>6, <1>7, <1>8, <1>9, <1>10 DEF Alone, Rooted, Accurate

\* A rebuild takes away rows, and the links to them.
LEMMA RebuildTreeAlone ==
  ASSUME OneWorker, IInv, Alone, NEW p \in Papers, RebuildTree(p)
  PROVE  Alone'
<1>. DEFINE dead == ClaimsOf(p)
<1>1. /\ generation' = [generation EXCEPT ![p] = @ + 1]
      /\ claim' = RowsWithout(claim, dead)
      /\ evidence' \subseteq evidence /\ \A e \in evidence' : e.claim \notin dead
      /\ scored' \subseteq scored
      /\ UNCHANGED <<phase, todo, plan>>
  BY DEF RebuildTree, CascadeFrom, local
<1>2. claim \in [Ids -> Row] /\ generation \in [Papers -> Nat]
      /\ evidence \subseteq [claim : Ids, passage : Passages] /\ NoClaim \notin Ids
  <2>1. claim \in [Ids -> Row] /\ generation \in [Papers -> 0..MaxRebuilds]
        /\ evidence \subseteq [claim : Ids, passage : Passages]
    BY DEF IInv, TypeOK, StoreTypeOK
  <2>2. generation \in [Papers -> Nat]
    BY <2>1, BoundsAssumption
  <2>3. NoClaim \notin Ids
    BY IdsAreClaimIds, ClaimIdsAreNaturals DEF IInv, TypeOK
  <2>. QED BY <2>1, <2>2, <2>3
<1>3. ~NeverRebuilt'
  <2>1. generation'[p] = generation[p] + 1 /\ generation[p] \in Nat
    BY <1>1, <1>2
  <2>. QED BY <2>1 DEF NeverRebuilt
<1>4. /\ Ids' = Ids \ dead
      /\ \A c \in Ids \ dead :
           claim'[c].canonical = IF claim[c].canonical \in dead THEN NoClaim ELSE claim[c].canonical
  <2>1. claim' = [c \in Ids \ dead |->
                    [claim[c] EXCEPT !.canonical = IF @ \in dead THEN NoClaim ELSE @]]
    BY <1>1 DEF RowsWithout, Ids
  <2>. HIDE DEF dead
  <2>2. Ids' = Ids \ dead
    BY <2>1 DEF Ids
  <2>. QED BY <1>2, <2>1, <2>2 DEF Row
<1>. HIDE DEF dead
<1>5. EvidenceOnRoots'
  <2>. SUFFICES ASSUME NEW e \in evidence' PROVE claim'[e.claim].canonical = NoClaim
    BY DEF EvidenceOnRoots, IsRoot
  <2>1. e \in evidence /\ e.claim \in Ids \ dead
    BY <1>1, <1>2
  <2>2. claim[e.claim].canonical = NoClaim
    BY <2>1 DEF Alone, Rooted, EvidenceOnRoots, IsRoot
  <2>. QED BY <1>4, <2>1, <2>2
<1>6. \A c \in Ids' : c \in Ids /\ (IsRoot(c) => IsRoot(c)')
  BY <1>4 DEF IsRoot
<1>7. RootsInHand'
  BY <1>1, <1>6 DEF Alone, Rooted, RootsInHand
<1>8. \A c \in Ids' : HasDependents(c)' => HasDependents(c)
  <2>. SUFFICES ASSUME NEW c \in Ids', HasDependents(c)' PROVE HasDependents(c)
    OBVIOUS
  <2>1. c \in Ids /\ c # NoClaim
    BY <1>2, <1>6
  <2>2. EvidenceOf(c)' \subseteq EvidenceOf(c)
    BY <1>1 DEF EvidenceOf
  <2>3. (\E d \in Ids' : claim'[d].canonical = c) => \E d \in Ids : claim[d].canonical = c
    BY <1>4, <2>1
  <2>. QED BY <1>1, <2>2, <2>3 DEF HasDependents
<1>9. PlansAreHarmless'
  BY <1>1, <1>6, <1>8 DEF Alone, Rooted, PlansAreHarmless
<1>. QED BY <1>3, <1>5, <1>7, <1>9 DEF Alone, Rooted

LEMMA NextAlone == ASSUME OneWorker, IInv, Alone, [Next]_vars PROVE Alone'
<1>1. ASSUME NEW w \in Workers, Extraction(w) PROVE Alone'
  BY <1>1, QuietStepsAlone, ReconcileReadAlone, PersistExtractionAlone
     DEF Extraction, AnswerFails, PersistFails
<1>2. ASSUME NEW w \in Workers, StartRun(w) \/ FinishRun(w) \/ Crash(w) \/ Scoring(w) PROVE Alone'
  BY <1>2, QuietStepsAlone DEF Scoring
<1>3. ASSUME NEW w \in Workers, Linking(w) \/ Identity(w) PROVE Alone'
  BY <1>3, LinkingAlone, StartDedupAlone, CompareAlone, MarkCheckedAlone DEF Identity
<1>4. ASSUME NEW p \in Papers, RebuildTree(p) PROVE Alone'
  BY <1>4, RebuildTreeAlone
<1>5. CASE UNCHANGED vars \/ \E c \in Ids : SubscribeClaim(c)
  BY <1>5, OthersAlone DEF vars, store, local, tables, SubscribeClaim
<1>. QED BY <1>1, <1>2, <1>3, <1>4, <1>5 DEF Next

LEMMA AloneIsInv == ASSUME OneWorker PROVE Spec => []Alone
<1>1. Init => Alone
  BY InitAlone
<1>2. IInv /\ Alone /\ [Next]_vars => Alone'
  BY NextAlone
<1>. QED BY <1>1, <1>2, InvariantHolds, PTL DEF Spec

\* As long as one process runs at a time, evidence sits on roots, where
\* linking, scoring and queries look for it, whatever is rebuilt or dies
\* meanwhile: EvidenceOnRoots, of save_links and save_canonical_groups.
THEOREM OneProcessKeepsEvidenceOnRoots ==
  ASSUME OneWorker
  PROVE  Spec => []EvidenceOnRoots
<1>1. Alone => EvidenceOnRoots
  BY DEF Alone, Rooted
<1>. QED BY <1>1, AloneIsInv, PTL

\* As long as one process runs at a time and no tree was rebuilt, two roots
\* that are marked as checked and are close were compared as they are:
\* CheckedRootsWereCompared, of canonicalize_scope and the invalidation of
\* identity groups.
THEOREM OneProcessComparesCheckedRoots ==
  ASSUME OneWorker
  PROVE  Spec => [](NeverRebuilt => CheckedRootsWereCompared)
<1>1. Alone => (NeverRebuilt => CheckedRootsWereCompared)
  BY DEF Alone, Accurate, MarkedWereCompared, CheckedRootsWereCompared, Marked
<1>. QED BY <1>1, AloneIsInv, PTL

\* As long as one process runs at a time and no tree was rebuilt, the state
\* row of a paper tells how many claims it has: ExtractionStateIsTrue, of
\* _persist_extractions.
THEOREM OneProcessTellsTheTruth ==
  ASSUME OneWorker
  PROVE  Spec => [](NeverRebuilt => ExtractionStateIsTrue)
<1>1. Alone => (NeverRebuilt => ExtractionStateIsTrue)
  BY DEF Alone, Accurate
<1>. QED BY <1>1, AloneIsInv, PTL

\* As long as one process runs at a time, only a rebuild deletes a claim that
\* evidence, a score or a duplicate refers to: LinkedClaimsAreKept, of the
\* dependents check in _reconcile_claims.
THEOREM OneProcessKeepsLinkedClaims ==
  ASSUME OneWorker
  PROVE  Spec => LinkedClaimsAreKept
<1>1. IInv /\ Alone /\ [Next]_vars =>
        [\A c \in Ids :
           /\ \/ \E e \in evidence : e.claim = c
              \/ c \in scored
              \/ \E d \in Ids : claim[d].canonical = c
           /\ UNCHANGED generation
           => c \in DOMAIN claim']_vars
  <2>. SUFFICES ASSUME IInv, Alone, Next, UNCHANGED generation,
                       NEW c \in Ids, HasDependents(c)
                PROVE  c \in Ids'
    BY DEF HasDependents, EvidenceOf, Ids
  <2>1. ASSUME NEW w \in Workers, PersistExtraction(w) PROVE c \in Ids'
    <3>1. Least(todo[w]) \in Papers /\ plan[w] \in Plans
      BY <2>1, NextTodo DEF IInv, TypeOK, StagesTypeOK, WorkersTypeOK, PersistExtraction
    <3>2. phase[w] = "reconciled" /\ claim' = RowsAfterPersist(Least(todo[w]), plan[w])
      BY <2>1 DEF PersistExtraction
    <3>3. c \notin plan[w].delete
      BY <3>2 DEF Alone, Rooted, PlansAreHarmless
    <3>4. Persisted(Least(todo[w]), plan[w], claim')
      BY <3>1, <3>2, PersistedClaims
    <3>. QED BY <3>3, <3>4 DEF Persisted, Ids
  <2>2. ASSUME NEW p \in Papers, RebuildTree(p) PROVE FALSE
    <3>1. generation[p] \in Nat /\ generation' = [generation EXCEPT ![p] = @ + 1]
          /\ p \in DOMAIN generation
      BY <2>2, BoundsAssumption DEF RebuildTree, IInv, TypeOK, StoreTypeOK
    <3>. QED BY <3>1
  <2>3. ASSUME NEW w \in Workers, Compare(w) \/ MarkChecked(w) PROVE c \in Ids'
    BY <2>3 DEF Compare, MarkChecked, Ids
  <2>4. CASE claim' = claim
    BY <2>4 DEF Ids
  <2>5. \/ \E w \in Workers : PersistExtraction(w) \/ Compare(w) \/ MarkChecked(w)
        \/ \E p \in Papers : RebuildTree(p)
        \/ claim' = claim
    BY DEF Next, Extraction, Linking, Identity, Scoring, StartRun, SkipPaper, LoadPaper,
           ReconcileRead, AnswerFails, PersistFails, PaperFails, StartLink, SaveLinks, LinkFails,
           StartDedup, StartScore, SaveScore, FinishRun, Crash, SubscribeClaim, store
  <2>. QED BY <2>1, <2>2, <2>3, <2>4, <2>5
<1>. QED BY <1>1, AloneIsInv, InvariantHolds, PTL DEF Spec, LinkedClaimsAreKept
=============================================================================
