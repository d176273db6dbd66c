-------------------------- MODULE ScoreHistoryProofs --------------------------
(***************************************************************************)
(* What scores and digests may be relied on for, for every number of       *)
(* claims, papers, nodes and scorers and every length of the history.      *)
(***************************************************************************)
EXTENDS ScoreHistory, FiniteSetTheorems, SequenceTheorems, WellFoundedInduction, TLAPS

-----------------------------------------------------------------------------
(* The invariant.                                                          *)

Observation == [at : Nat, reading : Readings]
Evidence == [claim : Claims, node : Nodes, stance : {"supports", "refutes"},
             at : Nat, committed : Nat]
Trace == [at : Nat, reason : {"sufficient_evidence", "budget_exhausted", "no_candidates"}]
Outcome == [confidence : 0..100, quality : 0..100]
Score == [at : Nat, loaded : Nat, confidence : 0..100, quality : 0..100]

Types ==
  /\ now \in Nat /\ digestAt \in 0..now
  /\ root \in [Claims -> Claims] /\ checkedAt \in [Claims -> Nat]
  /\ observations \in [Claims -> Seq(Observation)]
  /\ \A c \in Claims : Len(observations[c]) > 0
  /\ evidence \in SUBSET Evidence
  /\ trace \in [Claims -> Trace]
  /\ linker \in Claims \cup {NotLinking}
  /\ moved \in [Claims -> Nat] /\ lost \in [Claims -> Nat]

\* A canonical claim is nobody's duplicate, and a row is visible from its
\* transaction's commit, not before it started.
Groups == \A c \in Claims : IsRoot(root[c])
Commits == \A e \in evidence : e.at <= e.committed /\ e.committed <= now

\* A claim's last scores, in the order they were saved in.
Saved ==
  /\ scores \in [Claims -> Seq(Score)]
  /\ \A c \in Claims :
       /\ Len(scores[c]) <= 2
       /\ IsScored(c) => Latest(c).at <= now /\ Latest(c).loaded <= now
       /\ Len(scores[c]) = 2 => scores[c][1].at < scores[c][2].at

\* What a scorer has computed of what it loaded.
Computed ==
  /\ DOMAIN scorer = Scorers
  /\ \A s \in Scorers :
       /\ DOMAIN scorer[s] = {"loaded", "results"}
       /\ scorer[s].loaded \in 0..now
       /\ Unsaved(s) \subseteq Claims
       /\ \A c \in Unsaved(s) : scorer[s].results[c] \in Outcome
       /\ scorer[s] # NoResults => Unsaved(s) # {}

\* Something the claim's scores depend on changed since, or it has yet to be
\* compared with the others.
Touched(c, since) ==
  \/ checkedAt[c] = 0 \/ checkedAt[c] > since
  \/ moved[root[c]] > since \/ lost[root[c]] > since
  \/ trace[c].at > since
  \/ observations[c][Len(observations[c])].at > since
  \/ \E e \in EvidenceOf(root[c]) : e.committed > since

Agrees(scored, c) ==
  scored.confidence = Result(c).confidence /\ scored.quality = Result(c).quality

\* A score, saved or about to be, is right until something touches its claim.
RightUntilTouched ==
  /\ \A c \in Claims :
       IsScored(c) /\ ~Touched(c, Latest(c).loaded) => Agrees(Latest(c), c)
  /\ \A s \in Scorers : \A c \in Unsaved(s) :
       ~Touched(c, scorer[s].loaded) => Agrees(scorer[s].results[c], c)

\* What the latest digest saw is what was committed before it.
SeenByDigest ==
  \A c \in Claims :
    /\ moved[c] <= digestAt /\ lost[c] <= digestAt =>
         {e \in snapshot.rows : e.claim = c} = {e \in EvidenceOf(c) : e.committed <= digestAt}
    /\ snapshot.scores[c] # <<>> =>
         \A i \in DOMAIN snapshot.scores[c] : snapshot.scores[c][i].at <= digestAt
    /\ IsScored(c) /\ Latest(c).at <= digestAt => snapshot.scores[c] = scores[c]

\* A canonical claim that is checked was stamped by the last merge of its group.
Stamped ==
  \A c \in Claims :
    /\ moved[c] <= now
    /\ IsRoot(c) /\ checkedAt[c] # 0 => moved[c] <= checkedAt[c]

IInv == Types /\ Groups /\ Commits /\ Saved /\ Computed /\ RightUntilTouched /\ SeenByDigest

-----------------------------------------------------------------------------
(* Arithmetic: rounding and the shares of a factor.                        *)

LEMMA QuotientIsNat ==
  ASSUME NEW a \in Nat, NEW b \in Nat \ {0}
  PROVE  a \div b \in Nat
OBVIOUS

\* Rounding to even keeps the order, and the bounds hold.
LEMMA PointsKeepOrder ==
  ASSUME NEW a \in Nat, NEW b \in Nat, a <= b
  PROVE  Points(a) \in 0..100 /\ Points(b) \in 0..100 /\ Points(a) <= Points(b)
<1>. DEFINE up(t) == t % 10000 > 5000 \/ (t % 10000 = 5000 /\ (t \div 10000) % 2 = 1)
<1>. DEFINE rounded(t) == IF up(t) THEN (t \div 10000) + 1 ELSE t \div 10000
<1>1. a \div 10000 \in Nat /\ b \div 10000 \in Nat
  OBVIOUS
<1>2. a \div 10000 <= b \div 10000
  OBVIOUS
<1>3. a \div 10000 = b \div 10000 => a % 10000 <= b % 10000
  OBVIOUS
<1>4. rounded(a) \in Nat /\ rounded(b) \in Nat /\ rounded(a) <= rounded(b)
  <2>1. CASE a \div 10000 = b \div 10000
    BY <1>1, <1>3, <2>1
  <2>2. CASE a \div 10000 < b \div 10000
    BY <1>1, <2>2
  <2>. QED BY <1>1, <1>2, <2>1, <2>2
<1>5. Points(a) = Lesser(100, rounded(a)) /\ Points(b) = Lesser(100, rounded(b))
  BY DEF Points
<1>. HIDE DEF rounded
<1>. QED BY <1>4, <1>5 DEF Lesser

\* A contribution is a natural number, and grows with its ratio.
LEMMA ContributionKeepsOrder ==
  ASSUME NEW p \in Nat, NEW q \in Nat, NEW w \in Nat, p <= q
  PROVE  /\ Contribution(p, w) \in Nat /\ Contribution(q, w) \in Nat
         /\ Contribution(p, w) <= Contribution(q, w)
<1>1. Lesser(p, 100) \in Nat /\ Lesser(q, 100) \in Nat /\ Lesser(p, 100) <= Lesser(q, 100)
  BY DEF Lesser
<1>2. \A i, j, k \in Nat : i <= j => i * k \in Nat /\ j * k \in Nat /\ i * k <= j * k
  OBVIOUS
<1>3. /\ Lesser(p, 100) * w \in Nat /\ Lesser(q, 100) * w \in Nat
      /\ Lesser(p, 100) * w <= Lesser(q, 100) * w
  BY <1>1, <1>2
<1>. QED BY <1>3 DEF Contribution

LEMMA ContributionIsNat ==
  ASSUME NEW p \in Nat, NEW w \in Nat
  PROVE  Contribution(p, w) \in Nat
<1>1. p <= p
  OBVIOUS
<1>. QED BY <1>1, ContributionKeepsOrder

LEMMA NodeShareKeepsOrder ==
  ASSUME NEW i \in Nat, NEW j \in Nat, i <= j
  PROVE  /\ Share(Lesser(i, 3), 3, 25) \in Nat /\ Share(Lesser(j, 3), 3, 25) \in Nat
         /\ Share(Lesser(i, 3), 3, 25) <= Share(Lesser(j, 3), 3, 25)
BY DEF Share, Lesser

LEMMA ConsistencyIsNat ==
  ASSUME NEW i \in Nat, NEW j \in Nat
  PROVE  ConsistencyShare(i, j) \in Nat
<1>1. CASE j = 0
  BY <1>1 DEF ConsistencyShare
<1>2. CASE j # 0
  <2>1. 2 * 10000 * 20 * i + j \in Nat /\ 2 * j \in Nat \ {0}
    BY <1>2
  <2>2. (2 * 10000 * 20 * i + j) \div (2 * j) \in Nat
    BY <2>1, QuotientIsNat
  <2>. QED BY <1>2, <2>2 DEF ConsistencyShare, Share
<1>. QED BY <1>1, <1>2

-----------------------------------------------------------------------------
(* Least and greatest elements, and the sets the scores count.             *)

LEMMA BelowIsRelated ==
  ASSUME NEW i \in Nat, NEW j \in Nat, i < j
  PROVE  <<i, j>> \in OpToRel(<, Nat)
BY Zenon DEF OpToRel

LEMMA LeastNatural ==
  ASSUME NEW S \in SUBSET Nat, S # {}
  PROVE  \E x \in S : \A y \in S : x <= y
<1>1. PICK x \in S : \A y \in S : ~(<<y, x>> \in OpToRel(<, Nat))
  BY NatLessThanWellFounded, WFMin
<1>2. \A y \in S : ~(y < x)
  BY <1>1, BelowIsRelated
<1>. QED BY <1>2

LEMMA GreatestPercentage ==
  ASSUME NEW S \in SUBSET (0..100), S # {}
  PROVE  \E v \in S : \A u \in S : u <= v
<1>. DEFINE R == {100 - v : v \in S}
<1>1. R \in SUBSET Nat /\ R # {}
  <2>1. ASSUME NEW v \in S PROVE 100 - v \in Nat
    <3>1. v \in 0..100
      OBVIOUS
    <3>. QED BY <3>1
  <2>. QED BY <2>1
<1>2. PICK x \in R : \A y \in R : x <= y
  <2>. HIDE DEF R
  <2>. QED BY <1>1, LeastNatural
<1>3. PICK v \in S : x = 100 - v
  OBVIOUS
<1>4. ASSUME NEW u \in S PROVE u <= v
  <2>1. x <= 100 - u
    BY <1>2
  <2>. QED BY <1>3, <2>1
<1>. QED BY <1>4

\* The papers, and the nodes, of finitely many supports are finitely many.
LEMMA FiniteFields ==
  ASSUME NEW S, IsFiniteSet(S)
  PROVE  /\ IsFiniteSet({s.paper : s \in S})
         /\ IsFiniteSet({s.node : s \in S})
<1>1. IsFiniteSet({s.paper : s \in S})
  <2>. DEFINE T == {s.paper : s \in S}  f == [s \in S |-> s.paper]
  <2>1. f \in Surjection(S, T)
    BY DEF Surjection
  <2>. HIDE DEF T, f
  <2>2. IsFiniteSet(T)
    BY <2>1, FS_Surjection
  <2>. QED BY <2>2 DEF T
<1>2. IsFiniteSet({s.node : s \in S})
  <2>. DEFINE T == {s.node : s \in S}  f == [s \in S |-> s.node]
  <2>1. f \in Surjection(S, T)
    BY DEF Surjection
  <2>. HIDE DEF T, f
  <2>2. IsFiniteSet(T)
    BY <2>1, FS_Surjection
  <2>. QED BY <2>2 DEF T
<1>. QED BY <1>1, <1>2

\* Both counts grow with the supports.
LEMMA CountsGrow ==
  ASSUME NEW S, IsFiniteSet(S), NEW T \in SUBSET S
  PROVE  /\ Cardinality(NodesOf(T)) \in Nat /\ Cardinality(NodesOf(S)) \in Nat
         /\ Cardinality(NodesOf(T)) <= Cardinality(NodesOf(S))
         /\ SupportingPapers(T) \in Nat /\ SupportingPapers(S) \in Nat
         /\ SupportingPapers(T) <= SupportingPapers(S)
<1>1. IsFiniteSet(NodesOf(S)) /\ IsFiniteSet({s.paper : s \in S})
  BY FiniteFields DEF NodesOf
<1>2. NodesOf(T) \in SUBSET NodesOf(S) /\ {s.paper : s \in T} \in SUBSET {s.paper : s \in S}
  BY DEF NodesOf
<1>3. /\ IsFiniteSet(NodesOf(T))
      /\ Cardinality(NodesOf(T)) <= Cardinality(NodesOf(S))
  BY <1>1, <1>2, FS_Subset
<1>4. /\ IsFiniteSet({s.paper : s \in T})
      /\ SupportingPapers(T) <= SupportingPapers(S)
  BY <1>1, <1>2, FS_Subset DEF SupportingPapers
<1>5. Cardinality(NodesOf(T)) \in Nat /\ Cardinality(NodesOf(S)) \in Nat
  BY <1>1, <1>3, FS_CardinalityType
<1>6. SupportingPapers(T) \in Nat /\ SupportingPapers(S) \in Nat
  BY <1>1, <1>4, FS_CardinalityType DEF SupportingPapers
<1>. QED BY <1>3, <1>4, <1>5, <1>6

\* The best cover is that of one of the nodes, and grows with them.
LEMMA BestCoverIsReached ==
  ASSUME NEW S, NEW cover, \A n \in NodesOf(S) : cover[n] \in 0..100
  PROVE  /\ BestCover(S, cover) \in 0..100
         /\ \A n \in NodesOf(S) : cover[n] <= BestCover(S, cover)
         /\ NodesOf(S) # {} => \E n \in NodesOf(S) : BestCover(S, cover) = cover[n]
<1>. DEFINE covers == {cover[n] : n \in NodesOf(S)}
<1>1. CASE NodesOf(S) = {}
  BY <1>1 DEF BestCover
<1>2. CASE NodesOf(S) # {}
  <2>1. covers \in SUBSET (0..100) /\ covers # {}
    BY <1>2
  <2>2. \E v \in covers : \A u \in covers : u <= v
    <3>. HIDE DEF covers
    <3>. QED BY <2>1, GreatestPercentage
  <2>3. BestCover(S, cover) = CHOOSE v \in covers : \A u \in covers : u <= v
    BY <2>1 DEF BestCover
  <2>4. BestCover(S, cover) \in covers /\ \A u \in covers : u <= BestCover(S, cover)
    <3>. HIDE DEF covers
    <3>. QED BY <2>2, <2>3, Zenon
  <2>. QED BY <2>1, <2>4
<1>. QED BY <1>1, <1>2

LEMMA BestCoverGrows ==
  ASSUME NEW S, NEW cover, \A n \in NodesOf(S) : cover[n] \in 0..100, NEW T \in SUBSET S
  PROVE  /\ BestCover(T, cover) \in 0..100 /\ BestCover(S, cover) \in 0..100
         /\ BestCover(T, cover) <= BestCover(S, cover)
<1>1. NodesOf(T) \in SUBSET NodesOf(S)
  BY DEF NodesOf
<1>2. BestCover(T, cover) \in 0..100 /\ BestCover(S, cover) \in 0..100
  BY <1>1, BestCoverIsReached
<1>3. CASE NodesOf(T) = {}
  <2>1. BestCover(T, cover) = 0
    BY <1>3 DEF BestCover
  <2>. QED BY <1>2, <2>1
<1>4. CASE NodesOf(T) # {}
  <2>1. PICK n \in NodesOf(T) : BestCover(T, cover) = cover[n]
    BY <1>1, <1>4, BestCoverIsReached
  <2>. QED BY <1>1, <1>2, <2>1, BestCoverIsReached
<1>. QED BY <1>3, <1>4

-----------------------------------------------------------------------------
(* The scores of more support.                                             *)

LEMMA MoreSupportMoreConfidence ==
  ASSUME NEW S, IsFiniteSet(S), NEW T \in SUBSET S,
         NEW cover, \A n \in NodesOf(S) : cover[n] \in 0..100,
         NEW i \in Nat, NEW j \in Nat, NEW reason, NEW valid \in Nat
  PROVE  /\ Confidence(T, cover, i, j, reason, valid) \in 0..100
         /\ Confidence(S, cover, i, j, reason, valid) \in 0..100
         /\ Confidence(T, cover, i, j, reason, valid) <= Confidence(S, cover, i, j, reason, valid)
<1>. DEFINE nodesT == Share(Lesser(Cardinality(NodesOf(T)), 3), 3, 25)
            nodesS == Share(Lesser(Cardinality(NodesOf(S)), 3), 3, 25)
            coverT == Contribution(BestCover(T, cover), 25)
            coverS == Contribution(BestCover(S, cover), 25)
            consistent == ConsistencyShare(i, j)
            stopped == Contribution(StoppedRatio(reason), 20)
            checked == Contribution(valid, 10)
<1>1. nodesT \in Nat /\ nodesS \in Nat /\ nodesT <= nodesS
  BY CountsGrow, NodeShareKeepsOrder
<1>2. coverT \in Nat /\ coverS \in Nat /\ coverT <= coverS
  <2>1. /\ BestCover(T, cover) \in Nat /\ BestCover(S, cover) \in Nat
        /\ BestCover(T, cover) <= BestCover(S, cover)
    BY BestCoverGrows
  <2>. QED BY <2>1, ContributionKeepsOrder
<1>3. consistent \in Nat
  BY ConsistencyIsNat
<1>4. stopped \in Nat
  <2>1. StoppedRatio(reason) \in Nat
    BY DEF StoppedRatio
  <2>. QED BY <2>1, ContributionIsNat
<1>5. checked \in Nat
  BY ContributionIsNat
<1>6. /\ Confidence(T, cover, i, j, reason, valid)
            = Points(nodesT + coverT + consistent + stopped + checked)
      /\ Confidence(S, cover, i, j, reason, valid)
            = Points(nodesS + coverS + consistent + stopped + checked)
  BY DEF Confidence, NodeShare
<1>. HIDE DEF nodesT, nodesS, coverT, coverS, consistent, stopped, checked
<1>7. /\ nodesT + coverT + consistent + stopped + checked \in Nat
      /\ nodesS + coverS + consistent + stopped + checked \in Nat
      /\ nodesT + coverT + consistent + stopped + checked
           <= nodesS + coverS + consistent + stopped + checked
  BY <1>1, <1>2, <1>3, <1>4, <1>5
<1>. QED BY <1>6, <1>7, PointsKeepOrder

LEMMA ReplicationKeepsOrder ==
  ASSUME NEW i \in Nat, NEW j \in Nat, i <= j
  PROVE  /\ ReplicationRatio(i) \in Nat /\ ReplicationRatio(j) \in Nat
         /\ ReplicationRatio(i) <= ReplicationRatio(j)
BY DEF ReplicationRatio

LEMMA MoreSupportMoreQuality ==
  ASSUME NEW S, IsFiniteSet(S), NEW T \in SUBSET S, NEW about
  PROVE  /\ Quality(T, about) \in 0..100 /\ Quality(S, about) \in 0..100
         /\ Quality(T, about) <= Quality(S, about)
<1>. DEFINE text == Contribution(FullTextRatio(about.status), 27)
            reviewed == Contribution(IF about.reviewed THEN 100 ELSE 0, 22)
            recent == Contribution(RecencyRatio(about.age), 17)
            directT == Contribution(IF \E s \in T : s.direct THEN 100 ELSE 0, 17)
            directS == Contribution(IF \E s \in S : s.direct THEN 100 ELSE 0, 17)
            papersT == Contribution(ReplicationRatio(SupportingPapers(T)), 17)
            papersS == Contribution(ReplicationRatio(SupportingPapers(S)), 17)
<1>1. text \in Nat
  <2>1. FullTextRatio(about.status) \in Nat
    BY DEF FullTextRatio
  <2>. QED BY <2>1, ContributionIsNat
<1>2. reviewed \in Nat
  <2>1. (IF about.reviewed THEN 100 ELSE 0) \in Nat
    OBVIOUS
  <2>. QED BY <2>1, ContributionIsNat
<1>3. recent \in Nat
  <2>1. RecencyRatio(about.age) \in Nat
    BY DEF RecencyRatio
  <2>. QED BY <2>1, ContributionIsNat
<1>4. directT \in Nat /\ directS \in Nat /\ directT <= directS
  <2>. DEFINE ratioT == IF \E s \in T : s.direct THEN 100 ELSE 0
              ratioS == IF \E s \in S : s.direct THEN 100 ELSE 0
  <2>1. ratioT \in Nat /\ ratioS \in Nat /\ ratioT <= ratioS
    OBVIOUS
  <2>. HIDE DEF ratioT, ratioS
  <2>2. /\ Contribution(ratioT, 17) \in Nat /\ Contribution(ratioS, 17) \in Nat
        /\ Contribution(ratioT, 17) <= Contribution(ratioS, 17)
    BY <2>1, ContributionKeepsOrder
  <2>. QED BY <2>2 DEF ratioT, ratioS
<1>5. papersT \in Nat /\ papersS \in Nat /\ papersT <= papersS
  <2>1. /\ ReplicationRatio(SupportingPapers(T)) \in Nat
        /\ ReplicationRatio(SupportingPapers(S)) \in Nat
        /\ ReplicationRatio(SupportingPapers(T)) <= ReplicationRatio(SupportingPapers(S))
    BY CountsGrow, ReplicationKeepsOrder
  <2>. QED BY <2>1, ContributionKeepsOrder
<1>6. /\ Quality(T, about) = Points(text + reviewed + directT + recent + papersT)
      /\ Quality(S, about) = Points(text + reviewed + directS + recent + papersS)
  BY DEF Quality
<1>. HIDE DEF text, reviewed, recent, directT, directS, papersT, papersS
<1>7. /\ text + reviewed + directT + recent + papersT \in Nat
      /\ text + reviewed + directS + recent + papersS \in Nat
      /\ text + reviewed + directT + recent + papersT
           <= text + reviewed + directS + recent + papersS
  BY <1>1, <1>2, <1>3, <1>4, <1>5
<1>. QED BY <1>6, <1>7, PointsKeepOrder

-----------------------------------------------------------------------------
(* The inputs of a claim's scores, and what they depend on.                *)

\* A claim has one support of a node at most, so finitely many.
LEMMA SupportsAreFinite ==
  ASSUME evidence \in SUBSET Evidence, NEW c
  PROVE  /\ IsFiniteSet(Supports(c))
         /\ \A n \in NodesOf(Supports(c)) : Cover[n] \in 0..100
<1>. DEFINE f == [n \in Nodes |-> [node |-> n, paper |-> NodePaper[n], direct |-> n \in Direct]]
            all == {f[n] : n \in Nodes}
<1>1. IsFiniteSet(Nodes) /\ \A n \in Nodes : Cover[n] \in 0..100
  BY InputsAssumption
<1>2. f \in Surjection(Nodes, all)
  BY DEF Surjection
<1>3. IsFiniteSet(all)
  <2>. HIDE DEF f, all
  <2>. QED BY <1>1, <1>2, FS_Surjection
<1>4. \A e \in evidence : e.node \in Nodes
  BY DEF Evidence
<1>5. ASSUME NEW s \in Supports(c) PROVE s \in all /\ s.node \in Nodes
  <2>1. PICK e \in evidence : s = [node |-> e.node, paper |-> NodePaper[e.node],
                                   direct |-> e.node \in Direct]
    BY DEF Supports, EvidenceOf
  <2>2. s = f[e.node] /\ e.node \in Nodes
    BY <1>4, <2>1
  <2>. QED BY <2>1, <2>2
<1>6. Supports(c) \in SUBSET all
  BY <1>5
<1>7. IsFiniteSet(Supports(c))
  <2>. HIDE DEF all
  <2>. QED BY <1>3, <1>6, FS_Subset
<1>8. NodesOf(Supports(c)) \subseteq Nodes
  BY <1>5 DEF NodesOf
<1>. QED BY <1>1, <1>7, <1>8

LEMMA ReadingsAreCounted ==
  ASSUME Types, NEW c \in Claims
  PROVE  Cardinality(Agreeing(c)) \in Nat /\ Cardinality(Earlier(c)) \in Nat
<1>1. Len(observations[c]) - 1 \in Nat
  BY DEF Types
<1>2. IsFiniteSet(Earlier(c))
  BY <1>1, FS_Interval DEF Earlier
<1>3. Agreeing(c) \in SUBSET Earlier(c)
  BY DEF Agreeing
<1>4. IsFiniteSet(Agreeing(c))
  BY <1>2, <1>3, FS_Subset
<1>. QED BY <1>2, <1>4, FS_CardinalityType

\* Any part of a claim's support gives scores in range, and no higher ones.
LEMMA PartsScoreLess ==
  ASSUME Types, NEW c \in Claims, NEW T \in SUBSET Supports(c)
  PROVE  /\ ConfidenceOf(c, T) \in 0..100 /\ QualityOf(c, T) \in 0..100
         /\ ConfidenceOf(c, Supports(c)) \in 0..100 /\ QualityOf(c, Supports(c)) \in 0..100
         /\ ConfidenceOf(c, T) <= ConfidenceOf(c, Supports(c))
         /\ QualityOf(c, T) <= QualityOf(c, Supports(c))
<1>1. /\ IsFiniteSet(Supports(c))
      /\ \A n \in NodesOf(Supports(c)) : Cover[n] \in 0..100
  BY SupportsAreFinite DEF Types
<1>2. Cardinality(Agreeing(c)) \in Nat /\ Cardinality(Earlier(c)) \in Nat
  BY ReadingsAreCounted
<1>3. Valid[PaperOf[c]] \in Nat
  BY InputsAssumption
<1>4. /\ ConfidenceOf(c, T) \in 0..100 /\ ConfidenceOf(c, Supports(c)) \in 0..100
      /\ ConfidenceOf(c, T) <= ConfidenceOf(c, Supports(c))
  BY <1>1, <1>2, <1>3, MoreSupportMoreConfidence DEF ConfidenceOf
<1>5. /\ QualityOf(c, T) \in 0..100 /\ QualityOf(c, Supports(c)) \in 0..100
      /\ QualityOf(c, T) <= QualityOf(c, Supports(c))
  BY <1>1, MoreSupportMoreQuality DEF QualityOf
<1>. QED BY <1>4, <1>5

LEMMA ResultInRange ==
  ASSUME Types, NEW c \in Claims
  PROVE  Result(c) \in Outcome
<1>1. Supports(c) \in SUBSET Supports(c)
  OBVIOUS
<1>2. ConfidenceOf(c, Supports(c)) \in 0..100 /\ QualityOf(c, Supports(c)) \in 0..100
  BY <1>1, PartsScoreLess
<1>. QED BY <1>2 DEF Result, Outcome

\* Nothing a claim's scores depend on changes.
Undisturbed(c) ==
  /\ root'[c] = root[c] /\ checkedAt'[c] = checkedAt[c]
  /\ moved'[root[c]] = moved[root[c]] /\ lost'[root[c]] = lost[root[c]]
  /\ trace'[c] = trace[c] /\ observations'[c] = observations[c]
  /\ {e \in evidence' : e.claim = root[c]} = {e \in evidence : e.claim = root[c]}

LEMMA UndisturbedStays ==
  ASSUME NEW c, Undisturbed(c)
  PROVE  Result(c)' = Result(c) /\ \A since : Touched(c, since)' <=> Touched(c, since)
<1>. USE DEF Undisturbed
<1>1. EvidenceOf(root[c])' = EvidenceOf(root[c])
  BY DEF EvidenceOf
<1>2. Supports(c)' = Supports(c)
  BY <1>1 DEF Supports
<1>3. Agreeing(c)' = Agreeing(c) /\ Earlier(c)' = Earlier(c)
  BY DEF Agreeing, Earlier, Reading
<1>4. Result(c)' = Result(c)
  BY <1>2, <1>3 DEF Result, ConfidenceOf, QualityOf
<1>5. \A since : Touched(c, since)' <=> Touched(c, since)
  BY <1>1 DEF Touched
<1>. QED BY <1>4, <1>5

-----------------------------------------------------------------------------
(* Steps that change facts, and neither scores nor digests.                *)

Basics == Types /\ Groups /\ Commits

\* A step leaves what a claim's scores depend on, or touches the claim.
Touches == \A c \in Claims : Undisturbed(c) \/ \A since \in 0..now : Touched(c, since)'

\* A step leaves the rows the digest saw, or marks the claim.
RowsKept ==
  \A c \in Claims :
    \/ moved'[c] > now \/ lost'[c] > now
    \/ /\ moved'[c] = moved[c] /\ lost'[c] = lost[c]
       /\ {e \in evidence' : e.claim = c /\ e.committed <= now}
            = {e \in evidence : e.claim = c /\ e.committed <= now}

FactsStep ==
  Touches /\ RowsKept /\ now <= now' /\ UNCHANGED <<scores, scorer, digestAt, snapshot>>

LEMMA LatestIsScore ==
  ASSUME Saved, NEW c \in Claims, IsScored(c)
  PROVE  Len(scores[c]) \in 1..2 /\ Latest(c) \in Score
<1>1. scores[c] \in Seq(Score) /\ Len(scores[c]) <= 2 /\ scores[c] # <<>>
  BY DEF Saved, IsScored
<1>2. Len(scores[c]) \in 1..2
  <2>1. PICK n : n = Len(scores[c])
    OBVIOUS
  <2>2. n \in Nat /\ n # 0 /\ n <= 2
    BY <1>1, <2>1
  <2>3. n \in 1..2
    BY <2>2
  <2>. QED BY <2>1, <2>3
<1>3. scores[c][Len(scores[c])] \in Score
  BY <1>1, <1>2
<1>. QED BY <1>2, <1>3 DEF Latest

LEMMA FactsMayChange ==
  ASSUME IInv, Basics', FactsStep
  PROVE  IInv'
<1>. USE DEF IInv, FactsStep
<1>1. now \in Nat /\ now' \in Nat /\ digestAt \in 0..now
  BY DEF Basics, Types
<1>2. Saved'
  <2>1. \A c : IsScored(c)' = IsScored(c) /\ Latest(c)' = Latest(c)
    BY DEF IsScored, Latest
  <2>2. ASSUME NEW c \in Claims, IsScored(c)
        PROVE  Latest(c).at <= now' /\ Latest(c).loaded <= now'
    <3>1. Latest(c) \in Score
      BY <2>2, LatestIsScore
    <3>2. Latest(c).at <= now /\ Latest(c).loaded <= now
      BY <2>2 DEF Saved
    <3>. QED BY <1>1, <3>1, <3>2 DEF Score
  <2>. QED BY <2>1, <2>2 DEF Saved
<1>3. Computed'
  BY <1>1 DEF Computed, Unsaved
<1>4. RightUntilTouched'
  <2>1. ASSUME NEW c \in Claims, NEW since \in 0..now, ~Touched(c, since)'
        PROVE  ~Touched(c, since) /\ Result(c)' = Result(c)
    BY <2>1, UndisturbedStays DEF Touches
  <2>2. ASSUME NEW c \in Claims, IsScored(c)', ~Touched(c, Latest(c).loaded)'
        PROVE  Agrees(Latest(c), c)'
    <3>1. Latest(c)' = Latest(c) /\ IsScored(c)
      BY <2>2 DEF Latest, IsScored
    <3>2. PICK since \in 0..now : since = Latest(c).loaded
      <4>1. Latest(c) \in Score /\ Latest(c).loaded <= now
        BY <3>1, LatestIsScore DEF Saved
      <4>. QED BY <4>1, <1>1 DEF Score
    <3>3. ~Touched(c, since)'
      BY <2>2, <3>1, <3>2
    <3>4. ~Touched(c, since) /\ Result(c)' = Result(c)
      BY <2>1, <3>3
    <3>5. Agrees(Latest(c), c)
      BY <3>1, <3>2, <3>4 DEF RightUntilTouched
    <3>. QED BY <3>1, <3>4, <3>5 DEF Agrees
  <2>3. ASSUME NEW s \in Scorers, NEW c \in Unsaved(s), ~Touched(c, scorer[s].loaded)'
        PROVE  Agrees(scorer[s].results[c], c)'
    <3>1. c \in Claims
      BY DEF Computed
    <3>2. PICK since \in 0..now : since = scorer[s].loaded
      BY DEF Computed
    <3>3. ~Touched(c, since)'
      BY <2>3, <3>2
    <3>4. ~Touched(c, since) /\ Result(c)' = Result(c)
      BY <2>1, <3>1, <3>3
    <3>5. Agrees(scorer[s].results[c], c)
      BY <3>2, <3>4 DEF RightUntilTouched
    <3>. QED BY <3>4, <3>5 DEF Agrees
  <2>4. \A s : Unsaved(s)' = Unsaved(s)
    BY DEF Unsaved
  <2>. QED BY <2>2, <2>3, <2>4 DEF RightUntilTouched
<1>5. SeenByDigest'
  <2>1. \A c : IsScored(c)' = IsScored(c) /\ Latest(c)' = Latest(c)
    BY DEF IsScored, Latest
  <2>. SUFFICES ASSUME NEW c \in Claims, moved'[c] <= digestAt, lost'[c] <= digestAt
                PROVE  {e \in snapshot.rows : e.claim = c}
                         = {e \in EvidenceOf(c) : e.committed <= digestAt}'
    BY <2>1 DEF SeenByDigest
  <2>2. moved'[c] \in Nat /\ lost'[c] \in Nat
    BY DEF Basics, Types
  <2>3. /\ moved'[c] = moved[c] /\ lost'[c] = lost[c]
        /\ {e \in evidence' : e.claim = c /\ e.committed <= now}
             = {e \in evidence : e.claim = c /\ e.committed <= now}
    BY <1>1, <2>2 DEF RowsKept
  <2>4. (\A e \in evidence : e.committed \in Nat) /\ (\A e \in evidence' : e.committed \in Nat)
    BY DEF Basics, Types, Evidence
  <2>5. {e \in evidence' : e.claim = c /\ e.committed <= digestAt}
          = {e \in evidence : e.claim = c /\ e.committed <= digestAt}
    <3>1. \A e \in evidence' : e.committed <= digestAt => e.committed <= now
      BY <1>1, <2>4
    <3>2. \A e \in evidence : e.committed <= digestAt => e.committed <= now
      BY <1>1, <2>4
    <3>. QED BY <2>3, <3>1, <3>2
  <2>6. {e \in snapshot.rows : e.claim = c} = {e \in EvidenceOf(c) : e.committed <= digestAt}
    BY <2>3 DEF SeenByDigest
  <2>. QED BY <2>5, <2>6 DEF EvidenceOf
<1>. QED BY <1>2, <1>3, <1>4, <1>5 DEF Basics

-----------------------------------------------------------------------------
(* Extraction.                                                             *)

LEMMA ObserveRecords ==
  ASSUME Types, NEW c \in Claims, Observe(c)
  PROVE  /\ observations' \in [Claims -> Seq(Observation)]
         /\ \A d \in Claims : Len(observations'[d]) > 0
         /\ \A d \in Claims \ {c} : observations'[d] = observations[d]
         /\ observations'[c][Len(observations'[c])].at = now'
<1>1. PICK r \in Readings :
        observations' = [observations EXCEPT ![c] = Append(@, [at |-> now', reading |-> r])]
  BY DEF Observe
<1>2. PICK o \in Observation : o = [at |-> now', reading |-> r]
  <2>1. now' \in Nat
    BY DEF Types, Observe, Tick
  <2>. QED BY <2>1 DEF Observation
<1>3. observations \in [Claims -> Seq(Observation)] /\ \A d \in Claims : Len(observations[d]) > 0
  BY DEF Types
<1>4. observations' = [observations EXCEPT ![c] = Append(@, o)]
  BY <1>1, <1>2
<1>5. /\ Append(observations[c], o) \in Seq(Observation)
      /\ Len(Append(observations[c], o)) = Len(observations[c]) + 1
      /\ Append(observations[c], o)[Len(observations[c]) + 1] = o
  BY <1>3
<1>6. observations'[c] = Append(observations[c], o)
  BY <1>3, <1>4
<1>7. observations'[c][Len(observations'[c])].at = now'
  BY <1>2, <1>5, <1>6
<1>8. observations' \in [Claims -> Seq(Observation)]
  BY <1>3, <1>4, <1>5
<1>9. \A d \in Claims \ {c} : observations'[d] = observations[d]
  BY <1>3, <1>4
<1>10. ASSUME NEW d \in Claims PROVE Len(observations'[d]) > 0
  <2>1. CASE d = c
    <3>1. Len(observations[c]) \in Nat
      BY <1>3
    <3>. QED BY <1>5, <1>6, <2>1, <3>1
  <2>2. CASE d # c
    BY <1>3, <1>9, <2>2
  <2>. QED BY <2>1, <2>2
<1>. QED BY <1>7, <1>8, <1>9, <1>10

\* What is observed now touches the claim.
LEMMA ObservedIsTouched ==
  ASSUME Types, NEW c \in Claims, Observe(c)
  PROVE  \A since \in 0..now : Touched(c, since)'
<1>1. now \in Nat /\ now' = now + 1
  BY DEF Types, Observe, Tick
<1>2. observations'[c][Len(observations'[c])].at = now'
  BY ObserveRecords
<1>. QED BY <1>1, <1>2 DEF Touched

LEMMA ReextractKeeps ==
  ASSUME IInv, NEW c \in Claims, Reextract(c)
  PROVE  Basics' /\ FactsStep
<1>. USE DEF IInv
<1>1. now \in Nat /\ now' = now + 1
  BY DEF Types, Reextract, Observe, Tick
<1>2. /\ UNCHANGED <<trace, scores, scorer, linker, digestAt, lost, snapshot>>
      /\ UNCHANGED <<root, checkedAt, evidence, moved>>
  BY DEF Reextract, Observe
<1>3. Observe(c)
  BY DEF Reextract
<1>4. Types'
  BY <1>1, <1>2, <1>3, ObserveRecords DEF Types
<1>5. Groups' /\ Commits'
  <2>1. Groups'
    BY <1>2 DEF Groups, IsRoot
  <2>2. Commits'
    BY <1>1, <1>2 DEF Commits, Types, Evidence
  <2>. QED BY <2>1, <2>2
<1>6. Touches
  <2>1. ASSUME NEW d \in Claims, d # c PROVE Undisturbed(d)
    BY <1>2, <1>3, <2>1, ObserveRecords DEF Undisturbed
  <2>. QED BY <1>3, <2>1, ObservedIsTouched DEF Touches
<1>7. RowsKept
  BY <1>2 DEF RowsKept
<1>. QED BY <1>1, <1>2, <1>4, <1>5, <1>6, <1>7 DEF Basics, FactsStep

\* A row of a group that falls apart stays with one of its claims.
LEMMA HomeIsInGroup ==
  ASSUME Types, Groups, NEW e \in evidence
  PROVE  HomeOf(e) \in Claims /\ root[HomeOf(e)] = root[e.claim]
<1>. DEFINE siblings == {c \in Members(root[e.claim]) : PaperOf[c] = NodePaper[e.node]}
<1>1. e.claim \in Claims /\ root[e.claim] \in Claims /\ root[root[e.claim]] = root[e.claim]
  BY DEF Types, Groups, IsRoot, Evidence
<1>2. \A c \in siblings : c \in Claims /\ root[c] = root[e.claim]
  BY DEF Members
<1>3. HomeOf(e) = CASE e.claim \in siblings -> e.claim
                    [] e.claim \notin siblings /\ siblings # {} ->
                         CHOOSE c \in siblings : \A d \in siblings : c <= d
                    [] OTHER -> root[e.claim]
  BY DEF HomeOf
<1>4. siblings # {} => (CHOOSE c \in siblings : \A d \in siblings : c <= d) \in siblings
  <2>1. siblings \in SUBSET Nat
    BY <1>2, ClaimsAssumption
  <2>. HIDE DEF siblings
  <2>2. siblings # {} => \E c \in siblings : \A d \in siblings : c <= d
    BY <2>1, LeastNatural
  <2>. QED BY <2>2
<1>. HIDE DEF siblings
<1>5. HomeOf(e) \in siblings \cup {e.claim, root[e.claim]}
  <2>1. CASE e.claim \in siblings
    BY <1>3, <2>1
  <2>2. CASE e.claim \notin siblings /\ siblings # {}
    BY <1>3, <1>4, <2>2
  <2>3. CASE e.claim \notin siblings /\ siblings = {}
    BY <1>3, <2>3
  <2>. QED BY <2>1, <2>2, <2>3
<1>. QED BY <1>1, <1>2, <1>5

LEMMA ReextractChangedKeeps ==
  ASSUME IInv, NEW c \in Claims, ReextractChanged(c)
  PROVE  Basics' /\ FactsStep
<1>. USE DEF IInv
<1>. DEFINE group == Members(root[c])
<1>1. now \in Nat /\ now' = now + 1
  BY DEF Types, ReextractChanged, Observe, Tick
<1>2. /\ UNCHANGED <<trace, scores, scorer, linker, digestAt, lost, snapshot>>
      /\ root' = [d \in Claims |-> IF d \in group THEN d ELSE root[d]]
      /\ checkedAt' = [d \in Claims |-> IF d \in group THEN 0 ELSE checkedAt[d]]
      /\ evidence' = {IF e.claim \in group THEN [e EXCEPT !.claim = HomeOf(e)] ELSE e : e \in evidence}
      /\ moved' = [d \in Claims |-> IF d \in group THEN now' ELSE moved[d]]
  BY DEF ReextractChanged, Observe, Happened
<1>3. Observe(c) /\ c \in group
  BY DEF ReextractChanged, Members
<1>4. \A d \in Claims : d \in group <=> root[d] = root[c]
  BY DEF Members
<1>5. /\ root \in [Claims -> Claims] /\ \A d \in Claims : root[root[d]] = root[d]
      /\ evidence \in SUBSET Evidence /\ \A e \in evidence : e.claim \in Claims
  BY DEF Types, Groups, IsRoot, Evidence
<1>6. ASSUME NEW e \in evidence, e.claim \in group
      PROVE  HomeOf(e) \in Claims /\ HomeOf(e) \in group
  BY <1>4, <1>5, <1>6, HomeIsInGroup
<1>. HIDE DEF group
<1>7. ASSUME NEW e \in evidence'
      PROVE  /\ e \in Evidence
             /\ \E f \in evidence : /\ e.at = f.at /\ e.committed = f.committed
                                   /\ \/ e.claim \in group /\ f.claim \in group
                                      \/ e = f /\ f.claim \notin group
  <2>1. PICK f \in evidence : e = IF f.claim \in group THEN [f EXCEPT !.claim = HomeOf(f)] ELSE f
    BY <1>2
  <2>2. f \in Evidence
    BY <1>5
  <2>3. CASE f.claim \in group
    <3>1. HomeOf(f) \in Claims /\ HomeOf(f) \in group
      BY <1>6, <2>3
    <3>2. e = [f EXCEPT !.claim = HomeOf(f)]
      BY <2>1, <2>3
    <3>3. e \in Evidence /\ e.at = f.at /\ e.committed = f.committed /\ e.claim = HomeOf(f)
      BY <2>2, <3>1, <3>2 DEF Evidence
    <3>. QED BY <2>3, <3>1, <3>3
  <2>4. CASE f.claim \notin group
    BY <2>1, <2>2, <2>4
  <2>. QED BY <2>3, <2>4
\* The rows of the other claims stay as they are.
<1>8. ASSUME NEW d \in Claims, d \notin group
      PROVE  {e \in evidence' : e.claim = d} = {e \in evidence : e.claim = d}
  <2>1. ASSUME NEW e \in evidence', e.claim = d PROVE e \in evidence
    BY <1>7, <1>8, <2>1
  <2>2. ASSUME NEW e \in evidence, e.claim = d PROVE e \in evidence'
    BY <1>2, <1>8, <2>2
  <2>. QED BY <2>1, <2>2
<1>9. Types'
  <2>1. root' \in [Claims -> Claims] /\ checkedAt' \in [Claims -> Nat] /\ moved' \in [Claims -> Nat]
    BY <1>1, <1>2 DEF Types
  <2>2. evidence' \in SUBSET Evidence
    BY <1>7
  <2>3. now' \in Nat /\ digestAt' \in 0..now'
    BY <1>1, <1>2 DEF Types
  <2>. QED BY <1>2, <1>3, <2>1, <2>2, <2>3, ObserveRecords DEF Types
<1>10. Groups'
  <2>1. ASSUME NEW d \in Claims PROVE root'[root'[d]] = root'[d]
    <3>1. CASE d \in group
      BY <1>2, <3>1
    <3>2. CASE d \notin group
      <4>1. root[d] \in Claims /\ root[d] \notin group
        BY <1>4, <1>5, <3>2
      <4>. QED BY <1>2, <1>5, <3>2, <4>1
    <3>. QED BY <3>1, <3>2
  <2>. QED BY <2>1 DEF Groups, IsRoot
<1>11. Commits'
  <2>1. ASSUME NEW e \in evidence' PROVE e.at <= e.committed /\ e.committed <= now'
    <3>1. PICK f \in evidence : e.at = f.at /\ e.committed = f.committed
      BY <1>7
    <3>2. f.at <= f.committed /\ f.committed <= now /\ f.committed \in Nat
      BY <1>5 DEF Commits, Evidence
    <3>. QED BY <1>1, <3>1, <3>2
  <2>. QED BY <2>1 DEF Commits
<1>12. Touches
  <2>1. ASSUME NEW d \in Claims, d \in group PROVE \A since \in 0..now : Touched(d, since)'
    <3>1. checkedAt'[d] = 0
      BY <1>2, <2>1
    <3>. QED BY <3>1 DEF Touched
  <2>2. ASSUME NEW d \in Claims, d \notin group PROVE Undisturbed(d)
    <3>1. root[d] \in Claims /\ root[d] \notin group
      BY <1>4, <1>5, <2>2
    <3>2. {e \in evidence' : e.claim = root[d]} = {e \in evidence : e.claim = root[d]}
      BY <1>8, <3>1
    <3>3. observations'[d] = observations[d]
      BY <1>3, <2>2, ObserveRecords
    <3>. QED BY <1>2, <2>2, <3>1, <3>2, <3>3 DEF Undisturbed
  <2>. QED BY <2>1, <2>2 DEF Touches
<1>13. RowsKept
  <2>1. ASSUME NEW d \in Claims, d \in group PROVE moved'[d] > now
    BY <1>1, <1>2, <2>1
  <2>2. ASSUME NEW d \in Claims, d \notin group
        PROVE  /\ moved'[d] = moved[d] /\ lost'[d] = lost[d]
               /\ {e \in evidence' : e.claim = d /\ e.committed <= now}
                    = {e \in evidence : e.claim = d /\ e.committed <= now}
    BY <1>2, <1>8, <2>2
  <2>. QED BY <2>1, <2>2 DEF RowsKept
<1>. QED BY <1>1, <1>2, <1>9, <1>10, <1>11, <1>12, <1>13 DEF Basics, FactsStep

-----------------------------------------------------------------------------
(* Duplicate grouping.                                                     *)

LEMMA MergeKeeps ==
  ASSUME IInv, NEW group \in SUBSET Claims, Merge(group)
  PROVE  Basics' /\ FactsStep
<1>. USE DEF IInv
<1>. DEFINE canonical == CHOOSE c \in group : \A d \in group : c <= d
            followers == UNION {Members(d) : d \in group \ {canonical}}
            rows == UNION {EvidenceOf(d) : d \in group}
<1>1. now \in Nat /\ now' = now + 1
  BY DEF Types, Merge, Tick
<1>2. canonical \in group
  <2>1. group \in SUBSET Nat /\ group # {}
    BY ClaimsAssumption DEF Merge
  <2>. QED BY <2>1, LeastNatural
<1>3. PICK kept \in OnePerPaper(rows, canonical) :
        evidence' = (evidence \ rows) \cup {[e EXCEPT !.claim = canonical] : e \in kept}
  BY DEF Merge
<1>4. /\ UNCHANGED <<observations, trace, scores, scorer, linker, digestAt, lost, snapshot>>
      /\ root' = [c \in Claims |-> IF c \in followers THEN canonical ELSE root[c]]
      /\ checkedAt' = [c \in Claims |-> IF c \in followers \cup {canonical} THEN now' ELSE checkedAt[c]]
      /\ moved' = [c \in Claims |-> IF c \in group THEN now' ELSE moved[c]]
      /\ \A c \in group : root[c] = c
  BY DEF Merge, Happened, IsRoot
<1>5. \A c \in Claims : c \in followers <=> root[c] \in group \ {canonical}
  BY DEF Members
<1>6. \A e : e \in rows <=> e \in evidence /\ e.claim \in group
  BY DEF EvidenceOf
<1>7. kept \subseteq rows
  BY DEF OnePerPaper
<1>8. /\ root \in [Claims -> Claims] /\ \A d \in Claims : root[root[d]] = root[d]
      /\ evidence \in SUBSET Evidence /\ canonical \in Claims
  BY <1>2 DEF Types, Groups, IsRoot
<1>. HIDE DEF canonical, followers, rows
<1>9. ASSUME NEW e \in evidence'
      PROVE  /\ e \in Evidence
             /\ \E f \in evidence : /\ e.at = f.at /\ e.committed = f.committed
                                   /\ \/ e.claim \in group /\ f.claim \in group
                                      \/ e = f /\ f.claim \notin group
  <2>1. CASE e \in evidence \ rows
    BY <1>6, <1>8, <2>1
  <2>2. CASE e \in {[f EXCEPT !.claim = canonical] : f \in kept}
    <3>1. PICK f \in kept : e = [f EXCEPT !.claim = canonical]
      BY <2>2
    <3>2. f \in evidence /\ f \in Evidence /\ f.claim \in group
      BY <1>6, <1>7, <1>8
    <3>3. e \in Evidence /\ e.at = f.at /\ e.committed = f.committed /\ e.claim = canonical
      BY <1>8, <3>1, <3>2 DEF Evidence
    <3>. QED BY <1>2, <3>2, <3>3
  <2>. QED BY <1>3, <2>1, <2>2
<1>10. ASSUME NEW d \in Claims, d \notin group
       PROVE  {e \in evidence' : e.claim = d} = {e \in evidence : e.claim = d}
  <2>1. ASSUME NEW e \in evidence', e.claim = d PROVE e \in evidence
    BY <1>9, <1>10, <2>1
  <2>2. ASSUME NEW e \in evidence, e.claim = d PROVE e \in evidence'
    BY <1>3, <1>6, <1>10, <2>2
  <2>. QED BY <2>1, <2>2
<1>11. Types'
  <2>1. root' \in [Claims -> Claims] /\ checkedAt' \in [Claims -> Nat] /\ moved' \in [Claims -> Nat]
    BY <1>1, <1>4, <1>8 DEF Types
  <2>2. evidence' \in SUBSET Evidence
    BY <1>9
  <2>3. now' \in Nat /\ digestAt' \in 0..now'
    BY <1>1, <1>4 DEF Types
  <2>. QED BY <1>4, <2>1, <2>2, <2>3 DEF Types
<1>12. Groups'
  <2>1. ASSUME NEW d \in Claims PROVE root'[root'[d]] = root'[d]
    <3>1. root'[canonical] = canonical
      BY <1>2, <1>4, <1>5, <1>8
    <3>2. CASE d \in followers
      BY <1>4, <3>1, <3>2
    <3>3. CASE d \notin followers
      <4>1. root[d] \in Claims /\ root[d] \notin followers
        BY <1>5, <1>8, <3>3
      <4>. QED BY <1>4, <1>8, <3>3, <4>1
    <3>. QED BY <3>2, <3>3
  <2>. QED BY <2>1 DEF Groups, IsRoot
<1>13. Commits'
  <2>1. ASSUME NEW e \in evidence' PROVE e.at <= e.committed /\ e.committed <= now'
    <3>1. PICK f \in evidence : e.at = f.at /\ e.committed = f.committed
      BY <1>9
    <3>2. f.at <= f.committed /\ f.committed <= now /\ f.committed \in Nat
      BY <1>8 DEF Commits, Evidence
    <3>. QED BY <1>1, <3>1, <3>2
  <2>. QED BY <2>1 DEF Commits
\* The claims the merge repoints, and the canonical one, are checked now; the
\* duplicates the canonical one had before belong to a group that moved.
<1>14. Touches
  <2>1. ASSUME NEW d \in Claims, d \in followers \cup {canonical}
        PROVE  \A since \in 0..now : Touched(d, since)'
    <3>1. checkedAt'[d] = now'
      BY <1>4, <2>1
    <3>. QED BY <1>1, <3>1 DEF Touched
  <2>2. ASSUME NEW d \in Claims, d \notin followers, root[d] = canonical
        PROVE  \A since \in 0..now : Touched(d, since)'
    <3>1. moved'[root'[d]] = now'
      BY <1>2, <1>4, <1>8, <2>2
    <3>. QED BY <1>1, <3>1 DEF Touched
  <2>3. ASSUME NEW d \in Claims, d \notin followers, d # canonical, root[d] # canonical
        PROVE  Undisturbed(d)
    <3>1. root[d] \in Claims /\ root[d] \notin group
      BY <1>5, <1>8, <2>3
    <3>2. {e \in evidence' : e.claim = root[d]} = {e \in evidence : e.claim = root[d]}
      BY <1>10, <3>1
    <3>. QED BY <1>4, <2>3, <3>1, <3>2 DEF Undisturbed
  <2>. QED BY <2>1, <2>2, <2>3 DEF Touches
<1>15. RowsKept
  <2>1. ASSUME NEW d \in Claims, d \in group PROVE moved'[d] > now
    BY <1>1, <1>4, <2>1
  <2>2. ASSUME NEW d \in Claims, d \notin group
        PROVE  /\ moved'[d] = moved[d] /\ lost'[d] = lost[d]
               /\ {e \in evidence' : e.claim = d /\ e.committed <= now}
                    = {e \in evidence : e.claim = d /\ e.committed <= now}
    BY <1>4, <1>10, <2>2
  <2>. QED BY <2>1, <2>2 DEF RowsKept
<1>. QED BY <1>1, <1>4, <1>11, <1>12, <1>13, <1>14, <1>15 DEF Basics, FactsStep

LEMMA MarkKeeps ==
  ASSUME IInv, Mark
  PROVE  Basics' /\ FactsStep
<1>. USE DEF IInv
<1>. DEFINE pending == {c \in Claims : IsRoot(c) /\ checkedAt[c] = 0}
<1>1. now \in Nat /\ now' = now + 1
  BY DEF Types, Mark, Tick
<1>2. /\ checkedAt' = [c \in Claims |-> IF c \in pending THEN now' ELSE checkedAt[c]]
      /\ UNCHANGED <<root, observations, evidence, trace, scores, scorer, linker, digestAt,
                     moved, lost, snapshot>>
  BY DEF Mark, history
<1>. HIDE DEF pending
<1>3. Types'
  BY <1>1, <1>2 DEF Types
<1>4. Groups' /\ Commits'
  <2>1. Groups'
    BY <1>2 DEF Groups, IsRoot
  <2>2. Commits'
    BY <1>1, <1>2 DEF Commits, Types, Evidence
  <2>. QED BY <2>1, <2>2
<1>5. Touches
  <2>1. ASSUME NEW d \in Claims, d \in pending PROVE \A since \in 0..now : Touched(d, since)'
    <3>1. checkedAt'[d] = now'
      BY <1>2, <2>1
    <3>. QED BY <1>1, <3>1 DEF Touched
  <2>2. ASSUME NEW d \in Claims, d \notin pending PROVE Undisturbed(d)
    BY <1>2, <2>2 DEF Undisturbed
  <2>. QED BY <2>1, <2>2 DEF Touches
<1>6. RowsKept
  BY <1>2 DEF RowsKept
<1>. QED BY <1>1, <1>2, <1>3, <1>4, <1>5, <1>6 DEF Basics, FactsStep

\* A claim whose group loses rows is deprived of them from now on.
LEMMA RebuildTreeKeeps ==
  ASSUME IInv, NEW p, RebuildTree(p)
  PROVE  Basics' /\ FactsStep
<1>. USE DEF IInv
<1>. DEFINE gone == {e \in evidence : NodePaper[e.node] = p}
            losers == {e.claim : e \in gone}
<1>1. now \in Nat /\ now' = now + 1
  BY DEF Types, RebuildTree, Tick
<1>2. /\ evidence' = evidence \ gone
      /\ lost' = [c \in Claims |-> IF c \in losers THEN now' ELSE lost[c]]
      /\ UNCHANGED <<root, checkedAt, observations, trace, scores, scorer, linker, digestAt,
                     moved, snapshot>>
  BY DEF RebuildTree, Happened
<1>3. ASSUME NEW d, d \notin losers
      PROVE  {e \in evidence' : e.claim = d} = {e \in evidence : e.claim = d}
  BY <1>2, <1>3
<1>. HIDE DEF losers, gone
<1>4. Types'
  BY <1>1, <1>2 DEF Types
<1>5. Groups' /\ Commits'
  <2>1. Groups'
    BY <1>2 DEF Groups, IsRoot
  <2>2. Commits'
    BY <1>1, <1>2 DEF Commits, Types, Evidence
  <2>. QED BY <2>1, <2>2
<1>6. Touches
  <2>1. ASSUME NEW d \in Claims, root[d] \in losers PROVE \A since \in 0..now : Touched(d, since)'
    <3>1. lost'[root'[d]] = now'
      BY <1>2, <2>1 DEF Types
    <3>. QED BY <1>1, <3>1 DEF Touched
  <2>2. ASSUME NEW d \in Claims, root[d] \notin losers PROVE Undisturbed(d)
    <3>1. root[d] \in Claims
      BY DEF Types
    <3>2. {e \in evidence' : e.claim = root[d]} = {e \in evidence : e.claim = root[d]}
      BY <1>3, <2>2
    <3>. QED BY <1>2, <2>2, <3>1, <3>2 DEF Undisturbed
  <2>. QED BY <2>1, <2>2 DEF Touches
<1>7. RowsKept
  <2>1. ASSUME NEW d \in Claims, d \in losers PROVE lost'[d] > now
    BY <1>1, <1>2, <2>1
  <2>2. ASSUME NEW d \in Claims, d \notin losers
        PROVE  /\ moved'[d] = moved[d] /\ lost'[d] = lost[d]
               /\ {e \in evidence' : e.claim = d /\ e.committed <= now}
                    = {e \in evidence : e.claim = d /\ e.committed <= now}
    BY <1>2, <1>3, <2>2
  <2>. QED BY <2>1, <2>2 DEF RowsKept
<1>. QED BY <1>1, <1>2, <1>4, <1>5, <1>6, <1>7 DEF Basics, FactsStep

-----------------------------------------------------------------------------
(* Linking.                                                                *)

LEMMA StartLinkKeeps ==
  ASSUME IInv, NEW c \in Claims, StartLink(c)
  PROVE  Basics' /\ FactsStep
<1>. USE DEF IInv
<1>1. now \in Nat /\ now' = now + 1
  BY DEF Types, StartLink, Tick
<1>2. UNCHANGED <<root, checkedAt, observations, evidence, scores, scorer, digestAt,
                  moved, lost, snapshot>>
  BY DEF StartLink, history
<1>3. PICK reason \in {"sufficient_evidence", "budget_exhausted", "no_candidates"} :
        /\ trace' = [trace EXCEPT ![c] = [at |-> now', reason |-> reason]]
        /\ linker' = IF reason = "no_candidates" THEN NotLinking ELSE c
  BY DEF StartLink
<1>4. [at |-> now', reason |-> reason] \in Trace
  BY <1>1 DEF Trace
<1>5. Types'
  BY <1>1, <1>2, <1>3, <1>4 DEF Types
<1>6. Groups' /\ Commits'
  <2>1. Groups'
    BY <1>2 DEF Groups, IsRoot
  <2>2. Commits'
    BY <1>1, <1>2 DEF Commits, Types, Evidence
  <2>. QED BY <2>1, <2>2
<1>7. Touches
  <2>1. \A since \in 0..now : Touched(c, since)'
    <3>1. trace'[c].at = now'
      BY <1>3 DEF Types
    <3>. QED BY <1>1, <3>1 DEF Touched
  <2>2. ASSUME NEW d \in Claims, d # c PROVE Undisturbed(d)
    BY <1>2, <1>3, <2>2 DEF Undisturbed, Types
  <2>. QED BY <2>1, <2>2 DEF Touches
<1>8. RowsKept
  BY <1>2 DEF RowsKept
<1>. QED BY <1>1, <1>2, <1>5, <1>6, <1>7, <1>8 DEF Basics, FactsStep

\* The rows of a link are committed now, whenever their transaction started.
LEMMA SaveLinksKeeps ==
  ASSUME IInv, SaveLinks
  PROVE  Basics' /\ FactsStep
<1>. USE DEF IInv
<1>1. now \in Nat /\ now' = now + 1 /\ linker \in Claims
  BY DEF Types, SaveLinks, Tick, NotLinking
<1>2. /\ UNCHANGED <<root, checkedAt, observations, trace, scores, scorer, digestAt,
                     moved, lost, snapshot>>
      /\ linker' = NotLinking
  BY DEF SaveLinks, history
<1>3. trace[linker].at \in Nat
  BY <1>1 DEF Types, Trace
<1>4. PICK began \in (trace[linker].at + 1)..now', nodes \in SUBSET Nodes :
        \E stance \in [nodes -> {"supports", "refutes"}] :
          evidence' = evidence \cup
            {[claim |-> linker, node |-> n, stance |-> stance[n],
              at |-> began, committed |-> now'] : n \in nodes}
  BY DEF SaveLinks
<1>5. PICK stance \in [nodes -> {"supports", "refutes"}] :
        evidence' = evidence \cup
          {[claim |-> linker, node |-> n, stance |-> stance[n],
            at |-> began, committed |-> now'] : n \in nodes}
  BY <1>4
<1>. DEFINE new == {[claim |-> linker, node |-> n, stance |-> stance[n],
                     at |-> began, committed |-> now'] : n \in nodes}
<1>6. began \in Nat /\ began <= now'
  BY <1>1, <1>3
<1>7. ASSUME NEW e \in new
      PROVE  e \in Evidence /\ e.claim = linker /\ e.at <= e.committed /\ e.committed = now'
  <2>1. PICK n \in nodes : e = [claim |-> linker, node |-> n, stance |-> stance[n],
                                at |-> began, committed |-> now']
    OBVIOUS
  <2>2. n \in Nodes /\ stance[n] \in {"supports", "refutes"} /\ now' \in Nat
    BY <1>1
  <2>. QED BY <1>1, <1>6, <2>1, <2>2 DEF Evidence
<1>8. nodes # {} => \E e \in new : TRUE
  OBVIOUS
<1>9. nodes = {} => new = {}
  OBVIOUS
<1>10. evidence' = evidence \cup new
  BY <1>5
<1>. HIDE DEF new
<1>11. Types'
  <2>1. evidence' \in SUBSET Evidence
    BY <1>7, <1>10 DEF Types
  <2>. QED BY <1>1, <1>2, <2>1 DEF Types
<1>12. Groups' /\ Commits'
  <2>1. Groups'
    BY <1>2 DEF Groups, IsRoot
  <2>2. ASSUME NEW e \in evidence PROVE e.at <= e.committed /\ e.committed <= now'
    <3>1. e.at <= e.committed /\ e.committed <= now /\ e.committed \in Nat
      BY DEF Commits, Types, Evidence
    <3>. QED BY <1>1, <3>1
  <2>3. ASSUME NEW e \in new PROVE e.at <= e.committed /\ e.committed <= now'
    BY <1>1, <1>7
  <2>. QED BY <1>10, <2>1, <2>2, <2>3 DEF Commits
<1>13. Touches
  <2>1. ASSUME NEW d \in Claims, root[d] = linker, nodes # {}
        PROVE  \A since \in 0..now : Touched(d, since)'
    <3>1. PICK e \in new : TRUE
      BY <1>8, <2>1
    <3>2. e \in evidence' /\ e.claim = root'[d] /\ e.committed = now'
      BY <1>2, <1>7, <1>10, <2>1
    <3>3. e \in EvidenceOf(root[d])'
      BY <3>2 DEF EvidenceOf
    <3>4. \A since \in 0..now : e.committed > since
      BY <1>1, <3>2
    <3>. QED BY <3>3, <3>4 DEF Touched
  <2>2. ASSUME NEW d \in Claims, root[d] # linker \/ nodes = {} PROVE Undisturbed(d)
    <3>1. {e \in evidence' : e.claim = root[d]} = {e \in evidence : e.claim = root[d]}
      BY <1>7, <1>9, <1>10, <2>2
    <3>. QED BY <1>2, <3>1 DEF Undisturbed
  <2>. QED BY <2>1, <2>2 DEF Touches
<1>14. RowsKept
  <2>1. \A e \in new : ~(e.committed <= now)
    BY <1>1, <1>7
  <2>2. ASSUME NEW d \in Claims
        PROVE  {e \in evidence' : e.claim = d /\ e.committed <= now}
                 = {e \in evidence : e.claim = d /\ e.committed <= now}
    BY <1>10, <2>1
  <2>. QED BY <1>2, <2>2 DEF RowsKept
<1>. QED BY <1>1, <1>2, <1>11, <1>12, <1>13, <1>14 DEF Basics, FactsStep

LEMMA LinkFailsKeeps ==
  ASSUME IInv, LinkFails
  PROVE  Basics' /\ FactsStep
<1>. USE DEF IInv
<1>1. /\ UNCHANGED <<now, root, checkedAt, observations, evidence, trace, scores, scorer,
                     digestAt, moved, lost, snapshot>>
      /\ linker' = NotLinking
  BY DEF LinkFails, facts, history
<1>2. Types'
  BY <1>1 DEF Types
<1>3. Groups' /\ Commits'
  BY <1>1 DEF Groups, IsRoot, Commits
<1>4. Touches
  BY <1>1 DEF Touches, Undisturbed
<1>5. RowsKept
  BY <1>1 DEF RowsKept
<1>6. now <= now'
  BY <1>1 DEF Types
<1>. QED BY <1>1, <1>2, <1>3, <1>4, <1>5, <1>6 DEF Basics, FactsStep

-----------------------------------------------------------------------------
(* Scoring.                                                                *)

\* Steps of a scorer leave the facts, but for the time.
Idle == UNCHANGED <<root, checkedAt, observations, evidence, trace, linker, digestAt, moved, lost, snapshot>>

LEMMA IdleKeepsBasics ==
  ASSUME Basics, Idle, now' = now \/ now' = now + 1
  PROVE  /\ Basics'
         /\ \A c : Result(c)' = Result(c) /\ \A since : Touched(c, since)' <=> Touched(c, since)
<1>. USE DEF Idle, Basics
<1>1. now \in Nat /\ now' \in Nat /\ now <= now'
  BY DEF Types
<1>2. Types'
  BY <1>1 DEF Types
<1>3. Groups'
  BY DEF Groups, IsRoot
<1>4. Commits'
  BY <1>1 DEF Commits, Types, Evidence
<1>5. \A c : Undisturbed(c)
  BY DEF Undisturbed
<1>. QED BY <1>2, <1>3, <1>4, <1>5, UndisturbedStays

\* What is left of a scorer's results after one of them is dealt with.
LEMMA OneDealtWith ==
  ASSUME Types, Computed, NEW s \in Scorers, scorer[s] # NoResults,
         scorer' = [scorer EXCEPT ![s] = AfterOne(s)], now' = now \/ now' = now + 1
  PROVE  /\ NextUnsaved(s) \in Unsaved(s)
         /\ Computed'
         /\ \A t \in Scorers : \A c \in Unsaved(t)' :
              /\ c \in Unsaved(t)
              /\ scorer'[t].loaded = scorer[t].loaded
              /\ scorer'[t].results[c] = scorer[t].results[c]
<1>1. NextUnsaved(s) \in Unsaved(s)
  <2>1. Unsaved(s) \in SUBSET Nat /\ Unsaved(s) # {}
    BY ClaimsAssumption DEF Computed
  <2>. QED BY <2>1, LeastNatural DEF NextUnsaved
<1>2. now \in Nat /\ now' \in Nat /\ now <= now'
  BY DEF Types
<1>. DEFINE left == Unsaved(s) \ {NextUnsaved(s)}
<1>3. DOMAIN scorer' = Scorers /\ scorer'[s] = AfterOne(s) /\ \A t \in Scorers \ {s} : scorer'[t] = scorer[t]
  BY DEF Computed
<1>4. CASE left = {}
  <2>1. scorer'[s] = NoResults
    BY <1>3, <1>4 DEF AfterOne
  <2>2. /\ DOMAIN scorer'[s] = {"loaded", "results"} /\ scorer'[s].loaded = 0
        /\ DOMAIN scorer'[s].results = {}
    BY <2>1 DEF NoResults
  <2>3. Computed'
    <3>. SUFFICES ASSUME NEW t \in Scorers
                  PROVE  /\ DOMAIN scorer'[t] = {"loaded", "results"}
                         /\ scorer'[t].loaded \in 0..now'
                         /\ Unsaved(t)' \subseteq Claims
                         /\ \A c \in Unsaved(t)' : scorer'[t].results[c] \in Outcome
                         /\ scorer'[t] # NoResults => Unsaved(t)' # {}
      BY <1>3 DEF Computed
    <3>1. CASE t = s
      BY <1>2, <2>1, <2>2, <3>1 DEF Unsaved
    <3>2. CASE t # s
      BY <1>2, <1>3, <3>2 DEF Computed, Unsaved
    <3>. QED BY <3>1, <3>2
  <2>4. ASSUME NEW t \in Scorers, NEW c \in Unsaved(t)' PROVE t # s
    BY <2>2 DEF Unsaved
  <2>. QED BY <1>1, <1>3, <2>3, <2>4 DEF Unsaved
<1>5. CASE left # {}
  <2>. HIDE DEF left
  <2>1. scorer'[s] = [scorer[s] EXCEPT !.results = [c \in left |-> scorer[s].results[c]]]
    BY <1>3, <1>5 DEF AfterOne, left
  <2>2. DOMAIN scorer[s] = {"loaded", "results"}
    BY DEF Computed
  <2>3. /\ DOMAIN scorer'[s] = {"loaded", "results"} /\ scorer'[s].loaded = scorer[s].loaded
        /\ scorer'[s].results = [c \in left |-> scorer[s].results[c]]
    BY <2>1, <2>2
  <2>4. /\ Unsaved(s)' = left /\ left \subseteq Unsaved(s)
        /\ \A c \in left : scorer'[s].results[c] = scorer[s].results[c]
    BY <2>3 DEF Unsaved, left
  <2>5. Computed'
    <3>. SUFFICES ASSUME NEW t \in Scorers
                  PROVE  /\ DOMAIN scorer'[t] = {"loaded", "results"}
                         /\ scorer'[t].loaded \in 0..now'
                         /\ Unsaved(t)' \subseteq Claims
                         /\ \A c \in Unsaved(t)' : scorer'[t].results[c] \in Outcome
                         /\ scorer'[t] # NoResults => Unsaved(t)' # {}
      BY <1>3 DEF Computed
    <3>1. CASE t = s
      <4>1. scorer[s].loaded \in 0..now'
        BY <1>2 DEF Computed
      <4>2. left \subseteq Claims /\ \A c \in left : scorer'[s].results[c] \in Outcome
        BY <2>4 DEF Computed
      <4>. QED BY <1>5, <2>3, <2>4, <3>1, <4>1, <4>2
    <3>2. CASE t # s
      BY <1>2, <1>3, <3>2 DEF Computed, Unsaved
    <3>. QED BY <3>1, <3>2
  <2>6. ASSUME NEW t \in Scorers, NEW c \in Unsaved(t)'
        PROVE  /\ c \in Unsaved(t)
               /\ scorer'[t].loaded = scorer[t].loaded
               /\ scorer'[t].results[c] = scorer[t].results[c]
    <3>1. CASE t = s
      BY <2>3, <2>4, <3>1
    <3>2. CASE t # s
      BY <1>3, <3>2 DEF Unsaved
    <3>. QED BY <3>1, <3>2
  <2>. QED BY <1>1, <2>5, <2>6
<1>. QED BY <1>4, <1>5

LEMMA LoadKeeps ==
  ASSUME IInv, NEW s \in Scorers, Load(s)
  PROVE  IInv'
<1>. USE DEF IInv
<1>. DEFINE due == {c \in Claims : Due(c)}
            run == [loaded |-> now, results |-> [c \in due |-> Result(c)]]
<1>1. /\ due # {} /\ scorer' = [scorer EXCEPT ![s] = run]
      /\ UNCHANGED <<now, scores>> /\ Idle
  BY DEF Load, facts, history, Idle
<1>2. /\ Basics'
      /\ \A c : Result(c)' = Result(c) /\ \A since : Touched(c, since)' <=> Touched(c, since)
  BY <1>1, IdleKeepsBasics DEF Basics
<1>3. Saved'
  BY <1>1 DEF Saved, IsScored, Latest
<1>4. /\ DOMAIN scorer' = Scorers /\ scorer'[s] = run
      /\ \A t \in Scorers \ {s} : scorer'[t] = scorer[t]
  BY <1>1 DEF Computed
<1>5. /\ DOMAIN scorer'[s] = {"loaded", "results"} /\ scorer'[s].loaded = now
      /\ Unsaved(s)' = due /\ \A c \in due : scorer'[s].results[c] = Result(c)
  BY <1>4 DEF Unsaved
<1>6. due \subseteq Claims /\ now \in Nat
  BY DEF Types
<1>. HIDE DEF due, run
<1>7. Computed'
  <2>. SUFFICES ASSUME NEW t \in Scorers
                PROVE  /\ DOMAIN scorer'[t] = {"loaded", "results"}
                       /\ scorer'[t].loaded \in 0..now'
                       /\ Unsaved(t)' \subseteq Claims
                       /\ \A c \in Unsaved(t)' : scorer'[t].results[c] \in Outcome
                       /\ scorer'[t] # NoResults => Unsaved(t)' # {}
    BY <1>4 DEF Computed
  <2>1. CASE t = s
    <3>1. \A c \in due : scorer'[s].results[c] \in Outcome
      BY <1>5, <1>6, ResultInRange
    <3>. QED BY <1>1, <1>5, <1>6, <2>1, <3>1
  <2>2. CASE t # s
    BY <1>1, <1>4, <2>2 DEF Computed, Unsaved
  <2>. QED BY <2>1, <2>2
<1>8. RightUntilTouched'
  <2>1. ASSUME NEW c \in Claims, IsScored(c)', ~Touched(c, Latest(c).loaded)'
        PROVE  Agrees(Latest(c), c)'
    <3>1. Latest(c)' = Latest(c) /\ IsScored(c)
      BY <1>1, <2>1 DEF Latest, IsScored
    <3>2. ~Touched(c, Latest(c).loaded)
      <4>1. PICK since : since = Latest(c).loaded
        OBVIOUS
      <4>. QED BY <1>2, <2>1, <3>1, <4>1
    <3>. QED BY <1>2, <3>1, <3>2 DEF RightUntilTouched, Agrees
  <2>2. ASSUME NEW t \in Scorers, NEW c \in Unsaved(t)', ~Touched(c, scorer[t].loaded)'
        PROVE  Agrees(scorer[t].results[c], c)'
    <3>1. CASE t = s
      BY <1>2, <1>5, <2>2, <3>1 DEF Agrees
    <3>2. CASE t # s
      <4>1. scorer'[t] = scorer[t] /\ c \in Unsaved(t)
        BY <1>4, <2>2, <3>2 DEF Unsaved
      <4>2. PICK since : since = scorer[t].loaded
        OBVIOUS
      <4>3. ~Touched(c, since)
        BY <1>2, <2>2, <4>1, <4>2
      <4>4. Agrees(scorer[t].results[c], c)
        BY <4>1, <4>2, <4>3 DEF RightUntilTouched
      <4>. QED BY <1>2, <4>1, <4>4 DEF Agrees
    <3>. QED BY <3>1, <3>2
  <2>. QED BY <2>1, <2>2 DEF RightUntilTouched
<1>9. SeenByDigest'
  BY <1>1 DEF SeenByDigest, Idle, EvidenceOf, IsScored, Latest
<1>. QED BY <1>2, <1>3, <1>7, <1>8, <1>9 DEF Basics

\* A row follows the latest of some rows, and one more of them may be kept.
Follows(kept, row, rows) ==
  /\ kept # <<>> /\ Len(kept) <= 2 /\ kept[Len(kept)] = row
  /\ Len(kept) = 2 => rows # <<>> /\ kept[1] = rows[Len(rows)]

LEMMA LastTwoOfAppend ==
  ASSUME NEW S, NEW rows \in Seq(S), Len(rows) <= 2, NEW e \in S
  PROVE  /\ LastTwo(Append(rows, e)) \in Seq(S)
         /\ Follows(LastTwo(Append(rows, e)), e, rows)
<1>. DEFINE all == Append(rows, e)
<1>1. /\ all \in Seq(S) /\ Len(all) = Len(rows) + 1 /\ all[Len(rows) + 1] = e
      /\ \A i \in 1..Len(rows) : all[i] = rows[i]
  OBVIOUS
<1>2. PICK n \in Nat : n = Len(rows)
  OBVIOUS
<1>3. PICK m : m = IF n = 2 THEN 2 ELSE 1
  OBVIOUS
<1>. HIDE DEF all
<1>4. n <= 2 /\ m \in 1..2
  BY <1>2, <1>3
<1>5. LastTwo(all) = SubSeq(all, m, n + 1)
  <2>1. Len(all) = n + 1 /\ (IF Len(all) > 2 THEN Len(all) - 1 ELSE 1) = m
    BY <1>1, <1>2, <1>3, <1>4
  <2>2. LastTwo(all) = SubSeq(all, IF Len(all) > 2 THEN Len(all) - 1 ELSE 1, Len(all))
    BY DEF LastTwo
  <2>. QED BY <2>1, <2>2, Zenon
<1>6. \A i \in m..(n + 1) : all[i] \in S
  BY <1>1, <1>2, <1>4
<1>7. m \in Int /\ n + 1 \in Int /\ m <= n + 1 /\ n + 1 - m + 1 \in 1..2
  BY <1>3, <1>4
<1>8. PICK kept : kept = LastTwo(all)
  OBVIOUS
<1>9. /\ kept \in Seq(S) /\ Len(kept) = n + 1 - m + 1
      /\ \A i \in 1..(n + 1 - m + 1) : kept[i] = all[m + i - 1]
  BY <1>5, <1>6, <1>7, <1>8, SubSeqProperties
<1>10. kept # <<>> /\ Len(kept) \in 1..2 /\ kept[Len(kept)] = all[n + 1]
  BY <1>4, <1>7, <1>9
<1>11. ASSUME Len(kept) = 2 PROVE rows # <<>> /\ kept[1] = rows[Len(rows)]
  <2>1. m = n /\ n \in 1..2
    <3>1. n + 1 - m + 1 = 2
      BY <1>9, <1>11
    <3>. QED BY <1>3, <1>4, <3>1
  <2>2. kept[1] = all[m]
    <3>1. 1 \in 1..(n + 1 - m + 1) /\ m + 1 - 1 = m
      BY <1>4, <1>7
    <3>. QED BY <1>9, <3>1, Zenon
  <2>. QED BY <1>1, <1>2, <2>1, <2>2
<1>12. kept[Len(kept)] = e
  BY <1>1, <1>2, <1>10
<1>13. kept \in Seq(S) /\ Follows(kept, e, rows)
  BY <1>9, <1>10, <1>11, <1>12 DEF Follows
<1>. QED BY <1>8, <1>13 DEF all

LEMMA SaveKeeps ==
  ASSUME IInv, NEW s \in Scorers, Save(s)
  PROVE  IInv'
<1>. USE DEF IInv
<1>. PICK next : next = NextUnsaved(s)
  OBVIOUS
<1>. PICK score : score = [at |-> now', loaded |-> scorer[s].loaded,
                           confidence |-> scorer[s].results[next].confidence,
                           quality |-> scorer[s].results[next].quality]
  OBVIOUS
<1>1. /\ now' = now + 1 /\ scorer[s] # NoResults
      /\ scores' = [scores EXCEPT ![next] = LastTwo(Append(@, score))]
      /\ scorer' = [scorer EXCEPT ![s] = AfterOne(s)]
      /\ Idle
  BY DEF Save, Tick, facts, history, Idle
<1>2. now \in Nat /\ digestAt \in 0..now /\ Types
  BY DEF Types
<1>3. /\ Basics'
      /\ \A c : Result(c)' = Result(c) /\ \A since : Touched(c, since)' <=> Touched(c, since)
  BY <1>1, IdleKeepsBasics DEF Basics
<1>4. /\ next \in Unsaved(s)
      /\ Computed'
      /\ \A t \in Scorers : \A c \in Unsaved(t)' :
           /\ c \in Unsaved(t)
           /\ scorer'[t].loaded = scorer[t].loaded
           /\ scorer'[t].results[c] = scorer[t].results[c]
  BY <1>1, OneDealtWith
<1>5. next \in Claims /\ scorer[s].results[next] \in Outcome /\ scorer[s].loaded \in 0..now
  BY <1>4 DEF Computed
<1>6. /\ score \in Score /\ score.at = now' /\ score.loaded = scorer[s].loaded
      /\ score.confidence = scorer[s].results[next].confidence
      /\ score.quality = scorer[s].results[next].quality
  BY <1>1, <1>2, <1>5 DEF Score, Outcome
<1>7. scores \in [Claims -> Seq(Score)] /\ scores[next] \in Seq(Score) /\ Len(scores[next]) <= 2
  BY <1>5 DEF Saved
<1>8. /\ scores'[next] \in Seq(Score) /\ scores'[next] # <<>> /\ Len(scores'[next]) <= 2
      /\ Latest(next)' = score
      /\ Len(scores'[next]) = 2 => scores[next] # <<>> /\ scores'[next][1] = scores[next][Len(scores[next])]
  <2>1. scores'[next] = LastTwo(Append(scores[next], score))
    BY <1>1, <1>5, <1>7
  <2>2. score \in Score
    BY <1>6
  <2>3. scores'[next] \in Seq(Score) /\ Follows(scores'[next], score, scores[next])
    BY <1>7, <2>1, <2>2, LastTwoOfAppend
  <2>. QED BY <2>3 DEF Latest, Follows
<1>9. scores' \in [Claims -> Seq(Score)] /\ \A c \in Claims \ {next} : scores'[c] = scores[c]
  BY <1>1, <1>5, <1>7, <1>8
<1>10. Saved'
  <2>1. ASSUME NEW c \in Claims
        PROVE  /\ Len(scores'[c]) <= 2
               /\ scores'[c] # <<>> => Latest(c)'.at <= now' /\ Latest(c)'.loaded <= now'
               /\ Len(scores'[c]) = 2 => scores'[c][1].at < scores'[c][2].at
    <3>1. CASE c = next
      <4>1. Latest(c)'.at <= now' /\ Latest(c)'.loaded <= now'
        BY <1>1, <1>2, <1>5, <1>6, <1>8, <3>1
      <4>2. ASSUME Len(scores'[c]) = 2 PROVE scores'[c][1].at < scores'[c][2].at
        <5>1. IsScored(c) /\ scores'[c][1] = Latest(c)
          BY <1>8, <3>1, <4>2 DEF IsScored, Latest
        <5>2. Latest(c).at <= now /\ Latest(c).at \in Nat
          BY <5>1, LatestIsScore DEF Saved, Score
        <5>3. scores'[c][2].at = now'
          BY <1>6, <1>8, <3>1, <4>2 DEF Latest
        <5>. QED BY <1>1, <1>2, <5>1, <5>2, <5>3
      <4>. QED BY <1>8, <3>1, <4>1, <4>2
    <3>2. CASE c # next
      <4>1. scores'[c] = scores[c] /\ Latest(c)' = Latest(c)
        BY <1>9, <3>2 DEF Latest
      <4>2. ASSUME scores[c] # <<>> PROVE Latest(c).at <= now' /\ Latest(c).loaded <= now'
        <5>1. /\ Latest(c).at <= now /\ Latest(c).loaded <= now
              /\ Latest(c).at \in Nat /\ Latest(c).loaded \in Nat
          BY <4>2, LatestIsScore DEF Saved, Score, IsScored
        <5>. QED BY <1>1, <1>2, <5>1
      <4>. QED BY <4>1, <4>2 DEF Saved
    <3>. QED BY <3>1, <3>2
  <2>. QED BY <1>9, <2>1 DEF Saved, IsScored
<1>11. RightUntilTouched'
  <2>1. ASSUME NEW c \in Claims, IsScored(c)', ~Touched(c, Latest(c).loaded)'
        PROVE  Agrees(Latest(c), c)'
    <3>1. CASE c = next
      <4>1. PICK since : since = scorer[s].loaded
        OBVIOUS
      <4>2. ~Touched(c, since)
        BY <1>3, <1>6, <1>8, <2>1, <3>1, <4>1
      <4>3. Agrees(scorer[s].results[c], c)
        BY <1>4, <3>1, <4>1, <4>2 DEF RightUntilTouched
      <4>. QED BY <1>3, <1>6, <1>8, <3>1, <4>3 DEF Agrees
    <3>2. CASE c # next
      <4>1. Latest(c)' = Latest(c) /\ IsScored(c)
        BY <1>9, <2>1, <3>2 DEF Latest, IsScored
      <4>2. PICK since : since = Latest(c).loaded
        OBVIOUS
      <4>3. ~Touched(c, since)
        BY <1>3, <2>1, <4>1, <4>2
      <4>4. Agrees(Latest(c), c)
        BY <4>1, <4>2, <4>3 DEF RightUntilTouched
      <4>. QED BY <1>3, <4>1, <4>4 DEF Agrees
    <3>. QED BY <3>1, <3>2
  <2>2. ASSUME NEW t \in Scorers, NEW c \in Unsaved(t)', ~Touched(c, scorer[t].loaded)'
        PROVE  Agrees(scorer[t].results[c], c)'
    <3>1. /\ c \in Unsaved(t) /\ scorer'[t].loaded = scorer[t].loaded
          /\ scorer'[t].results[c] = scorer[t].results[c]
      BY <1>4
    <3>2. PICK since : since = scorer[t].loaded
      OBVIOUS
    <3>3. ~Touched(c, since)
      BY <1>3, <2>2, <3>1, <3>2
    <3>4. Agrees(scorer[t].results[c], c)
      BY <3>1, <3>2, <3>3 DEF RightUntilTouched
    <3>. QED BY <1>3, <3>1, <3>4 DEF Agrees
  <2>. QED BY <2>1, <2>2 DEF RightUntilTouched
<1>12. SeenByDigest'
  <2>. SUFFICES ASSUME NEW c \in Claims
                PROVE  /\ moved'[c] <= digestAt' /\ lost'[c] <= digestAt' =>
                            {e \in snapshot'.rows : e.claim = c}
                              = {e \in EvidenceOf(c)' : e.committed <= digestAt'}
                       /\ snapshot'.scores[c] # <<>> =>
                            \A i \in DOMAIN snapshot'.scores[c] : snapshot'.scores[c][i].at <= digestAt'
                       /\ IsScored(c)' /\ Latest(c)'.at <= digestAt' => snapshot'.scores[c] = scores'[c]
    BY DEF SeenByDigest
  <2>1. CASE c = next
    <3>1. ~(Latest(c)'.at <= digestAt')
      BY <1>1, <1>2, <1>6, <1>8, <2>1 DEF Idle
    <3>. QED BY <1>1, <3>1 DEF SeenByDigest, Idle, EvidenceOf
  <2>2. CASE c # next
    <3>1. scores'[c] = scores[c] /\ Latest(c)' = Latest(c) /\ IsScored(c)' = IsScored(c)
      BY <1>9, <2>2 DEF Latest, IsScored
    <3>. QED BY <1>1, <3>1 DEF SeenByDigest, Idle, EvidenceOf
  <2>. QED BY <2>1, <2>2
<1>. QED BY <1>3, <1>4, <1>10, <1>11, <1>12 DEF Basics

LEMMA SaveFailsKeeps ==
  ASSUME IInv, NEW s \in Scorers, SaveFails(s)
  PROVE  IInv'
<1>. USE DEF IInv
<1>1. /\ now' = now /\ scorer[s] # NoResults /\ scores' = scores
      /\ scorer' = [scorer EXCEPT ![s] = AfterOne(s)]
      /\ Idle
  BY DEF SaveFails, facts, history, Idle
<1>2. /\ Basics'
      /\ \A c : Result(c)' = Result(c) /\ \A since : Touched(c, since)' <=> Touched(c, since)
  BY <1>1, IdleKeepsBasics DEF Basics
<1>3. /\ Computed'
      /\ \A t \in Scorers : \A c \in Unsaved(t)' :
           /\ c \in Unsaved(t)
           /\ scorer'[t].loaded = scorer[t].loaded
           /\ scorer'[t].results[c] = scorer[t].results[c]
  BY <1>1, OneDealtWith
<1>4. \A c : IsScored(c)' = IsScored(c) /\ Latest(c)' = Latest(c)
  BY <1>1 DEF IsScored, Latest
<1>5. Saved'
  BY <1>1, <1>4 DEF Saved
<1>6. RightUntilTouched'
  <2>1. ASSUME NEW c \in Claims, IsScored(c)', ~Touched(c, Latest(c).loaded)'
        PROVE  Agrees(Latest(c), c)'
    <3>1. PICK since : since = Latest(c).loaded
      OBVIOUS
    <3>2. ~Touched(c, since)
      BY <1>2, <1>4, <2>1, <3>1
    <3>3. Agrees(Latest(c), c)
      BY <1>4, <2>1, <3>1, <3>2 DEF RightUntilTouched
    <3>. QED BY <1>2, <1>4, <3>3 DEF Agrees
  <2>2. ASSUME NEW t \in Scorers, NEW c \in Unsaved(t)', ~Touched(c, scorer[t].loaded)'
        PROVE  Agrees(scorer[t].results[c], c)'
    <3>1. /\ c \in Unsaved(t) /\ scorer'[t].loaded = scorer[t].loaded
          /\ scorer'[t].results[c] = scorer[t].results[c]
      BY <1>3
    <3>2. PICK since : since = scorer[t].loaded
      OBVIOUS
    <3>3. ~Touched(c, since)
      BY <1>2, <2>2, <3>1, <3>2
    <3>4. Agrees(scorer[t].results[c], c)
      BY <3>1, <3>2, <3>3 DEF RightUntilTouched
    <3>. QED BY <1>2, <3>1, <3>4 DEF Agrees
  <2>. QED BY <2>1, <2>2 DEF RightUntilTouched
<1>7. SeenByDigest'
  BY <1>1, <1>4 DEF SeenByDigest, Idle, EvidenceOf
<1>. QED BY <1>2, <1>3, <1>5, <1>6, <1>7 DEF Basics

-----------------------------------------------------------------------------
(* Digests.                                                                *)

\* A digest sees all that is committed.
LEMMA DigestKeeps ==
  ASSUME IInv, Digest
  PROVE  IInv'
<1>. USE DEF IInv
<1>1. /\ UNCHANGED <<now, root, checkedAt, observations, evidence, trace, scores, scorer,
                     linker, moved, lost>>
      /\ digestAt' = now /\ snapshot' = [rows |-> evidence, scores |-> scores]
  BY DEF Digest, facts
<1>2. \A c : /\ Result(c)' = Result(c) /\ \A since : Touched(c, since)' <=> Touched(c, since)
             /\ IsScored(c)' = IsScored(c) /\ Latest(c)' = Latest(c)
  <2>1. \A c : Undisturbed(c)
    BY <1>1 DEF Undisturbed
  <2>. QED BY <1>1, <2>1, UndisturbedStays DEF IsScored, Latest
<1>3. Types'
  BY <1>1 DEF Types
<1>4. Groups' /\ Commits'
  BY <1>1 DEF Groups, IsRoot, Commits
<1>5. Saved' /\ Computed'
  BY <1>1, <1>2 DEF Saved, Computed, Unsaved
<1>6. RightUntilTouched'
  <2>1. ASSUME NEW c \in Claims, IsScored(c)', ~Touched(c, Latest(c).loaded)'
        PROVE  Agrees(Latest(c), c)'
    <3>1. PICK since : since = Latest(c).loaded
      OBVIOUS
    <3>2. ~Touched(c, since)
      BY <1>2, <2>1, <3>1
    <3>3. Agrees(Latest(c), c)
      BY <1>2, <2>1, <3>1, <3>2 DEF RightUntilTouched
    <3>. QED BY <1>2, <3>3 DEF Agrees
  <2>2. ASSUME NEW t \in Scorers, NEW c \in Unsaved(t)', ~Touched(c, scorer[t].loaded)'
        PROVE  Agrees(scorer[t].results[c], c)'
    <3>1. c \in Unsaved(t) /\ scorer' = scorer
      BY <1>1 DEF Unsaved
    <3>2. PICK since : since = scorer[t].loaded
      OBVIOUS
    <3>3. ~Touched(c, since)
      BY <1>2, <2>2, <3>1, <3>2
    <3>4. Agrees(scorer[t].results[c], c)
      BY <3>1, <3>2, <3>3 DEF RightUntilTouched
    <3>. QED BY <1>2, <3>1, <3>4 DEF Agrees
  <2>. QED BY <2>1, <2>2 DEF RightUntilTouched
<1>7. SeenByDigest'
  <2>. SUFFICES ASSUME NEW c \in Claims
                PROVE  /\ {e \in evidence : e.claim = c} = {e \in EvidenceOf(c) : e.committed <= now}
                       /\ scores[c] # <<>> => \A i \in DOMAIN scores[c] : scores[c][i].at <= now
    BY <1>1 DEF SeenByDigest, EvidenceOf
  <2>1. {e \in evidence : e.claim = c} = {e \in EvidenceOf(c) : e.committed <= now}
    BY DEF Commits, EvidenceOf
  <2>2. ASSUME scores[c] # <<>>, NEW i \in DOMAIN scores[c] PROVE scores[c][i].at <= now
    <3>1. Len(scores[c]) \in 1..2 /\ Latest(c).at <= now
      BY <2>2, LatestIsScore DEF Saved, IsScored
    <3>2. PICK n \in 1..2 : n = Len(scores[c])
      BY <3>1
    <3>3. scores[c] \in Seq(Score) /\ DOMAIN scores[c] = 1..n
      BY <3>2 DEF Saved
    <3>4. ASSUME NEW j \in 1..n PROVE scores[c][j].at \in Nat
      <4>1. scores[c][j] \in Score
        BY <3>2, <3>3
      <4>. QED BY <4>1 DEF Score
    <3>5. scores[c][n].at <= now
      BY <3>1, <3>2 DEF Latest
    <3>6. CASE i = n
      BY <3>5, <3>6
    <3>7. CASE i # n
      <4>1. i = 1 /\ n = 2
        <5>1. i \in 1..n
          BY <3>3
        <5>. QED BY <3>7, <5>1
      <4>2. scores[c][1].at < scores[c][2].at
        BY <3>2, <4>1 DEF Saved
      <4>3. scores[c][1].at \in Nat /\ scores[c][2].at \in Nat /\ now \in Nat
        BY <3>4, <4>1 DEF Types
      <4>. QED BY <3>5, <4>1, <4>2, <4>3
    <3>. QED BY <3>6, <3>7
  <2>. QED BY <2>1, <2>2
<1>. QED BY <1>3, <1>4, <1>5, <1>6, <1>7

-----------------------------------------------------------------------------
(* The theorems.                                                           *)

LEMMA InitInv == Init => IInv
<1>. SUFFICES ASSUME Init PROVE IInv
  OBVIOUS
<1>. USE DEF Init
<1>1. Types
  <2>1. PICK o \in Observation : o = [at |-> 1, reading |-> CHOOSE r \in Readings : TRUE]
    BY InputsAssumption DEF Observation
  <2>2. NoTrace \in Trace
    BY DEF NoTrace, Trace
  <2>3. observations \in [Claims -> Seq(Observation)] /\ \A c \in Claims : Len(observations[c]) > 0
    <3>1. PICK row : row = <<o>>
      OBVIOUS
    <3>2. row \in Seq(Observation) /\ Len(row) > 0
      BY <3>1
    <3>3. observations = [c \in Claims |-> row]
      BY <2>1, <3>1
    <3>4. observations \in [Claims -> Seq(Observation)]
      BY <3>2, <3>3
    <3>. QED BY <3>2, <3>3, <3>4
  <2>. QED BY <2>2, <2>3 DEF Types
<1>2. Groups /\ Commits
  BY DEF Groups, IsRoot, Commits
<1>3. Saved
  BY DEF Saved, IsScored
<1>4. Computed
  BY DEF Computed, Unsaved, NoResults
<1>5. RightUntilTouched
  BY DEF RightUntilTouched, IsScored, Unsaved, NoResults
<1>6. SeenByDigest
  BY DEF SeenByDigest, EvidenceOf, IsScored
<1>. QED BY <1>1, <1>2, <1>3, <1>4, <1>5, <1>6 DEF IInv

LEMMA NextKeeps == IInv /\ Next => IInv'
<1>. SUFFICES ASSUME IInv, Next PROVE IInv'
  OBVIOUS
<1>1. CASE Extraction
  <2>1. PICK c \in Claims : Reextract(c) \/ ReextractChanged(c)
    BY <1>1 DEF Extraction
  <2>. QED BY <2>1, ReextractKeeps, ReextractChangedKeeps, FactsMayChange
<1>2. CASE Grouping
  <2>1. CASE Mark
    BY <2>1, MarkKeeps, FactsMayChange
  <2>2. ASSUME NEW group \in SUBSET Claims, Merge(group) PROVE IInv'
    BY <2>2, MergeKeeps, FactsMayChange
  <2>. QED BY <1>2, <2>1, <2>2 DEF Grouping
<1>3. CASE Linking
  <2>1. ASSUME NEW c \in Claims, StartLink(c) PROVE IInv'
    BY <2>1, StartLinkKeeps, FactsMayChange
  <2>. QED BY <1>3, <2>1, SaveLinksKeeps, LinkFailsKeeps, FactsMayChange DEF Linking
<1>4. CASE Scoring
  BY <1>4, LoadKeeps, SaveKeeps, SaveFailsKeeps DEF Scoring
<1>5. CASE Rebuilding
  <2>1. ASSUME NEW p, RebuildTree(p) PROVE IInv'
    BY <2>1, RebuildTreeKeeps, FactsMayChange
  <2>. QED BY <1>5, <2>1 DEF Rebuilding
<1>6. CASE Digest
  BY <1>6, DigestKeeps
<1>. QED BY <1>1, <1>2, <1>3, <1>4, <1>5, <1>6 DEF Next

LEMMA StutterKeeps == IInv /\ UNCHANGED vars => IInv'
<1>. SUFFICES ASSUME IInv, UNCHANGED vars PROVE IInv'
  OBVIOUS
<1>1. /\ Idle /\ now' = now /\ scores' = scores /\ scorer' = scorer
      /\ UNCHANGED <<root, checkedAt, observations, evidence, trace, linker, digestAt, moved, lost,
                     snapshot>>
  BY DEF vars, facts, history, Idle
<1>2. Basics'
  BY <1>1, IdleKeepsBasics DEF Basics, IInv
<1>3. FactsStep
  <2>1. now <= now'
    BY <1>1 DEF IInv, Types
  <2>. QED BY <1>1, <2>1 DEF FactsStep, Touches, Undisturbed, RowsKept
<1>. QED BY <1>2, <1>3, FactsMayChange

LEMMA InvariantHolds == Spec => []IInv
BY InitInv, NextKeeps, StutterKeeps, PTL DEF Spec

-----------------------------------------------------------------------------
(* Merges stamp the claims they leave canonical.                           *)

LEMMA StillStamped ==
  ASSUME Types, Stamped, now' \in Nat, now <= now',
         UNCHANGED <<root, checkedAt, moved>>
  PROVE  Stamped'
<1>. SUFFICES ASSUME NEW c \in Claims
              PROVE  /\ moved[c] <= now'
                     /\ IsRoot(c) /\ checkedAt[c] # 0 => moved[c] <= checkedAt[c]
  BY DEF Stamped, IsRoot
<1>1. moved[c] \in Nat /\ now \in Nat /\ moved[c] <= now
  BY DEF Types, Stamped
<1>. QED BY <1>1 DEF Stamped

LEMMA MergeStamps ==
  ASSUME Types, Stamped, NEW group \in SUBSET Claims, Merge(group)
  PROVE  Stamped'
<1>1. PICK canonical : canonical = CHOOSE c \in group : \A d \in group : c <= d
  OBVIOUS
<1>2. PICK followers : followers = UNION {Members(d) : d \in group \ {canonical}}
  OBVIOUS
<1>3. /\ now' = now + 1 /\ now \in Nat
      /\ \A c \in group : IsRoot(c)
      /\ root' = [c \in Claims |-> IF c \in followers THEN canonical ELSE root[c]]
      /\ checkedAt' = [c \in Claims |-> IF c \in followers \cup {canonical} THEN now' ELSE checkedAt[c]]
      /\ moved' = [c \in Claims |-> IF c \in group THEN now' ELSE moved[c]]
  BY <1>1, <1>2 DEF Merge, Tick, Happened, Types
<1>. SUFFICES ASSUME NEW c \in Claims
              PROVE  /\ moved'[c] <= now'
                     /\ root'[c] = c /\ checkedAt'[c] # 0 => moved'[c] <= checkedAt'[c]
  BY DEF Stamped, IsRoot
<1>4. moved[c] \in Nat /\ moved[c] <= now
  BY DEF Types, Stamped
<1>5. moved'[c] <= now'
  BY <1>3, <1>4
<1>6. CASE c \in followers \cup {canonical}
  <2>1. checkedAt'[c] = now'
    BY <1>3, <1>6
  <2>. QED BY <1>5, <2>1
<1>7. CASE c \notin followers \cup {canonical}
  <2>1. c \notin group
    BY <1>2, <1>3, <1>7 DEF Members, IsRoot
  <2>2. moved'[c] = moved[c] /\ checkedAt'[c] = checkedAt[c] /\ root'[c] = root[c]
    BY <1>3, <1>7, <2>1
  <2>. QED BY <1>5, <2>2 DEF Stamped, IsRoot
<1>. QED BY <1>6, <1>7

LEMMA DetachStamps ==
  ASSUME Types, Stamped, NEW r \in Claims, ReextractChanged(r)
  PROVE  Stamped'
<1>1. PICK group : group = Members(root[r])
  OBVIOUS
<1>2. /\ now' = now + 1 /\ now \in Nat
      /\ root' = [d \in Claims |-> IF d \in group THEN d ELSE root[d]]
      /\ checkedAt' = [d \in Claims |-> IF d \in group THEN 0 ELSE checkedAt[d]]
      /\ moved' = [d \in Claims |-> IF d \in group THEN now' ELSE moved[d]]
  BY <1>1 DEF ReextractChanged, Observe, Tick, Happened, Types
<1>. SUFFICES ASSUME NEW c \in Claims
              PROVE  /\ moved'[c] <= now'
                     /\ root'[c] = c /\ checkedAt'[c] # 0 => moved'[c] <= checkedAt'[c]
  BY DEF Stamped, IsRoot
<1>3. moved[c] \in Nat /\ moved[c] <= now
  BY DEF Types, Stamped
<1>4. moved'[c] <= now'
  BY <1>2, <1>3
<1>5. CASE c \in group
  BY <1>2, <1>4, <1>5
<1>6. CASE c \notin group
  <2>1. moved'[c] = moved[c] /\ checkedAt'[c] = checkedAt[c] /\ root'[c] = root[c]
    BY <1>2, <1>6
  <2>. QED BY <1>4, <2>1 DEF Stamped, IsRoot
<1>. QED BY <1>5, <1>6

LEMMA MarkStamps ==
  ASSUME Types, Stamped, Mark
  PROVE  Stamped'
<1>1. PICK pending : pending = {c \in Claims : IsRoot(c) /\ checkedAt[c] = 0}
  OBVIOUS
<1>2. /\ now' = now + 1 /\ now \in Nat /\ root' = root /\ moved' = moved
      /\ checkedAt' = [c \in Claims |-> IF c \in pending THEN now' ELSE checkedAt[c]]
  BY <1>1 DEF Mark, Tick, Types, history
<1>. SUFFICES ASSUME NEW c \in Claims
              PROVE  /\ moved[c] <= now'
                     /\ IsRoot(c) /\ checkedAt'[c] # 0 => moved[c] <= checkedAt'[c]
  BY <1>2 DEF Stamped, IsRoot
<1>3. moved[c] \in Nat /\ moved[c] <= now
  BY DEF Types, Stamped
<1>4. moved[c] <= now'
  BY <1>2, <1>3
<1>5. CASE c \in pending
  BY <1>2, <1>4, <1>5
<1>6. CASE c \notin pending
  BY <1>2, <1>4, <1>6 DEF Stamped
<1>. QED BY <1>5, <1>6

LEMMA NextStamps == IInv /\ Stamped /\ [Next]_vars => Stamped'
<1>. SUFFICES ASSUME IInv, Stamped, [Next]_vars PROVE Stamped'
  OBVIOUS
<1>. USE DEF IInv
<1>1. ASSUME NEW group \in SUBSET Claims, Merge(group) PROVE Stamped'
  BY <1>1, MergeStamps
<1>2. ASSUME NEW c \in Claims, ReextractChanged(c) PROVE Stamped'
  BY <1>2, DetachStamps
<1>3. CASE Mark
  BY <1>3, MarkStamps
<1>4. now \in Nat
  BY DEF Types
<1>5. ASSUME UNCHANGED <<root, checkedAt, moved>>, now' = now \/ now' = now + 1
      PROVE  Stamped'
  BY <1>4, <1>5, StillStamped
<1>6. CASE UNCHANGED vars
  BY <1>5, <1>6 DEF vars, facts, history
<1>7. ASSUME NEW c \in Claims, Reextract(c) PROVE Stamped'
  BY <1>5, <1>7 DEF Reextract, Observe, Tick
<1>8. CASE Linking
  BY <1>5, <1>8 DEF Linking, StartLink, SaveLinks, LinkFails, Tick, facts, history
<1>9. CASE Scoring
  BY <1>5, <1>9 DEF Scoring, Load, Save, SaveFails, Tick, facts, history
<1>10. CASE Rebuilding
  BY <1>5, <1>10 DEF Rebuilding, RebuildTree, Tick
<1>11. CASE Digest
  BY <1>5, <1>11 DEF Digest, facts
<1>. QED BY <1>1, <1>2, <1>3, <1>6, <1>7, <1>8, <1>9, <1>10, <1>11 DEF Next, Extraction, Grouping

LEMMA StampedHolds == Spec => []Stamped
<1>1. Init => Stamped
  BY DEF Init, Stamped
<1>. QED BY <1>1, InvariantHolds, NextStamps, PTL DEF Spec

-----------------------------------------------------------------------------
\* Every score is of 0 to 100 points, and is as old as it says (save_quality).
THEOREM TypesHold == Spec => [](Types /\ Saved)
<1>1. IInv => Types /\ Saved
  BY DEF IInv
<1>. QED BY <1>1, InvariantHolds, PTL

\* A claim that is checked and not due, and was not overtaken, enlarged or
\* deprived while it was scored or since, has the score its inputs give: the
\* four times load_unscored_claims compares a score's with leave nothing else out.
THEOREM NotDueMeansCurrent == Spec => []ScoresAreCurrent
<1>1. IInv /\ Stamped => ScoresAreCurrent
  <2>. SUFFICES ASSUME IInv, Stamped, NEW c \in Claims, checkedAt[c] # 0, ~Due(c),
                       ~Overtaken(c), ~Enlarged(c), ~Deprived(c)
                PROVE  Agrees(Latest(c), c)
    BY DEF ScoresAreCurrent, Agrees
  <2>. USE DEF IInv
  <2>1. IsScored(c)
    BY DEF Due
  <2>2. PICK since \in Nat : since = Latest(c).loaded
    BY <2>1, LatestIsScore DEF Score
  <2>3. PICK at \in Nat : at = Latest(c).at
    BY <2>1, LatestIsScore DEF Score
  <2>4. /\ root[c] \in Claims /\ checkedAt[c] \in Nat /\ trace[c].at \in Nat
        /\ moved[root[c]] \in Nat /\ lost[root[c]] \in Nat
    BY DEF Types, Trace
  <2>5. observations[c][Len(observations[c])].at \in Nat
    <3>1. observations[c] \in Seq(Observation) /\ Len(observations[c]) > 0
      BY DEF Types
    <3>2. observations[c][Len(observations[c])] \in Observation
      BY <3>1
    <3>. QED BY <3>2 DEF Observation
  <2>6. /\ ~(at < observations[c][Len(observations[c])].at) /\ ~(at < trace[c].at)
        /\ ~(at < checkedAt[c]) /\ \A e \in EvidenceOf(root[c]) : ~(at < e.at)
    BY <2>1, <2>3 DEF Due
  <2>7. /\ observations[c][Len(observations[c])].at \notin (since + 1)..at
        /\ trace[c].at \notin (since + 1)..at /\ checkedAt[c] \notin (since + 1)..at
        /\ \A e \in EvidenceOf(root[c]) : ~(e.committed > since /\ e.at <= at)
    BY <2>2, <2>3 DEF Overtaken
  <2>8. /\ ~(observations[c][Len(observations[c])].at > since)
        /\ ~(trace[c].at > since) /\ ~(checkedAt[c] > since)
    BY <2>4, <2>5, <2>6, <2>7
  <2>9. \A e \in EvidenceOf(root[c]) : ~(e.committed > since)
    <3>1. \A e \in EvidenceOf(root[c]) : e.at \in Nat
      BY DEF EvidenceOf, Types, Evidence
    <3>. QED BY <2>6, <2>7, <3>1
  <2>10. ~(moved[root[c]] > since)
    <3>1. ~(moved[root[c]] > since) \/ ~(moved[root[c]] > checkedAt[c])
      <4>1. CASE IsRoot(c)
        <5>1. root[c] = c /\ moved[c] <= checkedAt[c]
          BY <4>1 DEF Stamped, IsRoot
        <5>. QED BY <2>4, <5>1
      <4>2. CASE ~IsRoot(c)
        BY <2>2, <4>2 DEF Enlarged
      <4>. QED BY <4>1, <4>2
    <3>. QED BY <2>4, <2>8, <3>1
  <2>11. ~(lost[root[c]] > since)
    BY <2>2 DEF Deprived
  <2>12. ~Touched(c, since)
    BY <2>8, <2>9, <2>10, <2>11 DEF Touched
  <2>. QED BY <2>1, <2>2, <2>12 DEF RightUntilTouched
<1>. QED BY <1>1, InvariantHolds, StampedHolds, PTL

\* Support never lowers either score: _supporting_nodes, _coverage and the
\* bands of the rubric grow with it, and rounding keeps the order.
THEOREM MoreSupportScoresNoLower == Spec => []SupportNeverHurts
<1>1. IInv => SupportNeverHurts
  <2>. SUFFICES ASSUME IInv, NEW c \in Claims, NEW s \in Supports(c)
                PROVE  /\ ConfidenceOf(c, Supports(c) \ {s}) <= ConfidenceOf(c, Supports(c))
                       /\ QualityOf(c, Supports(c) \ {s}) <= QualityOf(c, Supports(c))
    BY DEF SupportNeverHurts
  <2>1. Supports(c) \ {s} \in SUBSET Supports(c)
    OBVIOUS
  <2>. QED BY <2>1, PartsScoreLess DEF IInv
<1>. QED BY <1>1, InvariantHolds, PTL

\* A digest that goes by timestamps says how the claim's state differs from
\* what the digest before saw, for rows that only came by links started since
\* (detect_changes).
THEOREM DigestsTellDifferences == Spec => []DigestsCompareStates
<1>1. IInv => DigestsCompareStates
  <2>. SUFFICES ASSUME IInv, NEW c \in Subscribed, OnlyLinked(c), NEW then, NEW before,
                       then = {e \in snapshot.rows : e.claim = c}, before = snapshot.scores[c]
                PROVE  /\ {e \in NewEvidence(digestAt) : e.claim = c} = EvidenceOf(c) \ then
                       /\ c \in StanceFlips(digestAt) <=>
                            RefutesOf(c) # {} /\ \A e \in then : e.stance # "refutes"
                       /\ scores[c] = before => c \notin ScoreMovements(digestAt)
                       /\ before # <<>> /\ Len(scores[c]) = 2 /\ scores[c][1] = before[Len(before)] =>
                            (c \in ScoreMovements(digestAt) <=> Moved(before[Len(before)], Latest(c)))
    BY DEF DigestsCompareStates
  <2>. USE DEF IInv
  <2>1. c \in Claims
    BY ClaimsAssumption
  <2>2. then = {e \in EvidenceOf(c) : e.committed <= digestAt}
    BY <2>1 DEF SeenByDigest, OnlyLinked
  <2>3. digestAt \in Nat /\ \A e \in evidence : e.at \in Nat /\ e.committed \in Nat /\ e.at <= e.committed
    BY DEF Types, Commits, Evidence
  <2>4. \A e \in EvidenceOf(c) : e.at > digestAt <=> ~(e.committed <= digestAt)
    BY <2>3 DEF EvidenceOf, OnlyLinked
  <2>5. {e \in NewEvidence(digestAt) : e.claim = c} = EvidenceOf(c) \ then
    BY <2>2, <2>4 DEF NewEvidence, EvidenceOf
  <2>6. c \in StanceFlips(digestAt) <=>
          RefutesOf(c) # {} /\ \A e \in then : e.stance # "refutes"
    BY <2>2, <2>4 DEF StanceFlips, RefutesOf
  <2>7. ASSUME Len(scores[c]) = 2
        PROVE  /\ IsScored(c) /\ Latest(c) = scores[c][2]
               /\ scores[c][1].at < scores[c][2].at /\ scores[c][2].at \in Nat
               /\ scores[c][1].at \in Nat
    <3>1. scores[c] \in Seq(Score) /\ scores[c] # <<>>
      BY <2>1, <2>7 DEF Saved
    <3>2. scores[c][1] \in Score /\ scores[c][2] \in Score
      BY <2>7, <3>1
    <3>3. scores[c][1].at < scores[c][2].at
      BY <2>1, <2>7 DEF Saved
    <3>. QED BY <2>7, <3>1, <3>2, <3>3 DEF IsScored, Latest, Score
  <2>8. ASSUME scores[c] = before PROVE c \notin ScoreMovements(digestAt)
    <3>. SUFFICES ASSUME Len(scores[c]) = 2 PROVE ~(scores[c][2].at > digestAt)
      BY DEF ScoreMovements
    <3>1. 2 \in DOMAIN before /\ before # <<>>
      <4>1. scores[c] \in Seq(Score)
        BY <2>1 DEF Saved
      <4>2. DOMAIN scores[c] = 1..2
        BY <4>1
      <4>. QED BY <2>7, <2>8, <4>2 DEF IsScored
    <3>2. before[2].at <= digestAt
      BY <2>1, <3>1 DEF SeenByDigest
    <3>. QED BY <2>3, <2>7, <2>8, <3>2
  <2>9. ASSUME before # <<>>, Len(scores[c]) = 2, scores[c][1] = before[Len(before)]
        PROVE  c \in ScoreMovements(digestAt) <=> Moved(before[Len(before)], Latest(c))
    <3>1. scores[c][2].at > digestAt
      <4>1. SUFFICES ASSUME Latest(c).at <= digestAt PROVE FALSE
        BY <2>3, <2>7, <2>9
      <4>2. before = scores[c]
        BY <2>1, <2>7, <2>9, <4>1 DEF SeenByDigest
      <4>3. scores[c][1] = scores[c][2]
        BY <2>9, <4>2
      <4>. QED BY <2>7, <2>9, <4>3
    <3>. QED BY <2>7, <2>9, <3>1 DEF ScoreMovements
  <2>. QED BY <2>5, <2>6, <2>8, <2>9
<1>. QED BY <1>1, InvariantHolds, PTL
=============================================================================
