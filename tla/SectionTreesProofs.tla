------------------------- MODULE SectionTreesProofs -------------------------
(***************************************************************************)
(* Proofs about the index command, for every set of papers, documents and  *)
(* indexers: a tree that is skipped is whole, a repeated command builds    *)
(* nothing, and each stored build is a tree of bounded depth.  The first   *)
(* two need of a build only which sections it covers; the last one also    *)
(* that the depths and ancestors build_tree computes by recursion exist.   *)
(***************************************************************************)
EXTENDS SectionTrees, FiniteSetTheorems, WellFoundedInduction, TLAPS

Fields == {"at", "model", "todo", "input", "victims", "failed", "undisturbed"}

\* Sections are of a parse that has been, and an abstract is alone in its own.
SectionsInv ==
  /\ parses \in [Papers -> Nat] /\ builds \in Nat
  /\ \A s \in sections : s.paper \in Papers /\ s.parse \in Nat /\ s.parse <= parses[s.paper]
  /\ \A p \in Papers : IsFiniteSet(SectionsOf(p))
  /\ \A s, t \in sections :
       s.paper \in AbstractOnly /\ s.paper = t.paper /\ s.parse = t.parse => s = t

\* A build of a parsed paper has a node for each of the paper's sections, or
\* is gone.
BuildsInv ==
  /\ \A n \in nodes : /\ n.section \in sections /\ n.section.paper = n.paper
                      /\ n.build \in 1..builds
  /\ \A n, k \in nodes : n.build = k.build => /\ n.paper = k.paper
                                              /\ n.section = k.section => n = k
  /\ \A n \in nodes : n.paper \notin AbstractOnly =>
       \A s \in SectionsOf(n.paper) : \E k \in nodes : k.build = n.build /\ k.section = s
  /\ \A p \in Papers : IsFiniteSet(NodesOf(p))

\* What an indexer has in hand for paper p: all sections of one parse, and
\* whole builds to remove.
InHand(w, p) ==
  /\ IsFiniteSet(ix[w].input)
  /\ \A s \in ix[w].input : s.paper = p /\ s.parse \in Nat /\ s.parse <= parses[p]
  /\ p \in AbstractOnly => \A s, t \in ix[w].input : s = t
  /\ p \notin AbstractOnly => ix[w].input \cap sections = {} \/ ix[w].input = SectionsOf(p)
  /\ ix[w].at = "insert" =>
       /\ ix[w].input # {}
       /\ \A n \in ix[w].victims :
            /\ n.paper = p /\ n.build \in 1..builds
            /\ \A k \in nodes : k.build = n.build => k \in ix[w].victims

\* As long as nobody else writes, an indexer has what there is in hand, and
\* has left current trees behind.
LeftAlone(w) ==
  /\ ix[w].at \in {"summarize", "insert"} /\ Paper(w) \notin AbstractOnly =>
       ix[w].input = SectionsOf(Paper(w))
  /\ ix[w].at = "insert" => ix[w].victims = NodesOf(Paper(w))
  /\ ix[w].failed = 0 => \A p \in Papers \ ix[w].todo : TreeIsCurrent(p, ix[w].model)

WorkInv(w) ==
  /\ DOMAIN ix[w] = Fields
  /\ ix[w].todo \subseteq Papers /\ ix[w].failed \in Nat
  /\ ix[w].at \in {"abstract", "summarize", "insert"} => ix[w].todo # {}
  /\ ix[w].at \in {"summarize", "insert"} => InHand(w, Paper(w))
  /\ ix[w].at = "abstract" => Paper(w) \in AbstractOnly
  /\ ix[w].at = "ended" => ix[w].todo = {}
  /\ ix[w].undisturbed => LeftAlone(w)

IndexInv ==
  /\ DOMAIN ix = Indexers
  /\ SectionsInv /\ BuildsInv
  /\ \A w \in Indexers : WorkInv(w)

tables == <<sections, nodes, parses, builds>>

-----------------------------------------------------------------------------
(* What the operations return.                                             *)

LEMMA BelowIsRelated ==
  ASSUME NEW x \in Nat, NEW y \in Nat, x < y
  PROVE  <<x, y>> \in OpToRel(<, Nat)
BY DEF OpToRel

\* A non-empty set of naturals has a least element.
LEMMA LeastNatural ==
  ASSUME NEW S \in SUBSET Nat, S # {}
  PROVE  \E x \in S : \A y \in S : x <= y
<1>1. PICK x \in S : \A y \in S : ~(<<y, x>> \in OpToRel(<, Nat))
  BY NatLessThanWellFounded, WFMin
<1>2. \A y \in S : ~(y < x)
  BY <1>1, BelowIsRelated
<1>. QED BY <1>2

\* The paper an indexer takes is one it has to do.
LEMMA PaperIsTodo ==
  ASSUME NEW w \in Indexers, ix[w].todo \subseteq Papers, ix[w].todo # {}
  PROVE  Paper(w) \in ix[w].todo /\ Paper(w) \in Papers
<1>1. ix[w].todo \subseteq Nat
  BY PapersAssumption
<1>2. \E x \in ix[w].todo : \A y \in ix[w].todo : x <= y
  BY <1>1, LeastNatural
<1>. QED BY <1>2 DEF Paper

\* The sections of a document are finitely many and of its paper and parse.
LEMMA DocumentSections ==
  ASSUME NEW p, NEW parse, NEW doc \in Documents
  PROVE  /\ IsFiniteSet(tei_to_sections(p, parse, doc))
         /\ \A s \in tei_to_sections(p, parse, doc) : s.paper = p /\ s.parse = parse
<1>. DEFINE above(i) == {j \in 1..(i - 1) : doc[j] = doc[i] - 1}
            parent(i) == IF doc[i] = 0 THEN NoParent
                         ELSE (CHOOSE j \in above(i) : \A k \in above(i) : k <= j) - 1
            f == [i \in DOMAIN doc |->
                    [paper |-> p, parse |-> parse, ordinal |-> i - 1, parent |-> parent(i)]]
<1>1. tei_to_sections(p, parse, doc) = {f[i] : i \in DOMAIN doc}
  BY DEF tei_to_sections
<1>2. \A i \in DOMAIN doc : f[i].paper = p /\ f[i].parse = parse
  OBVIOUS
<1>3. IsFiniteSet(DOMAIN doc)
  <2>1. doc \in Seq(Nat)
    BY DocumentsAssumption
  <2>2. DOMAIN doc = 1..Len(doc) /\ Len(doc) \in Nat
    BY <2>1
  <2>. QED BY <2>2, FS_Interval
<1>4. f \in Surjection(DOMAIN doc, {f[i] : i \in DOMAIN doc})
  BY DEF Surjection
<1>. HIDE DEF f
<1>. QED BY <1>1, <1>2, <1>3, <1>4, FS_Surjection

\* A tree has one node for each of the sections it is built from.
Covers(tree, input, build, summary_model) ==
  /\ \A n \in tree : /\ n.build = build /\ n.model = summary_model
                     /\ n.section \in input /\ n.paper = n.section.paper
  /\ \A s \in input : \E n \in tree : n.section = s
  /\ \A n, k \in tree : n.section = k.section => n = k
  /\ IsFiniteSet(input) => IsFiniteSet(tree) /\ Cardinality(tree) = Cardinality(input)

Tree(input, b, m, up, original, above) ==
  {TreeNode(s, b, m, up, original, above) : s \in input}

\* The three functions of build_tree.
Up(input) == [s \in {t \in input : t.parent # NoParent} |->
                CHOOSE t \in input : t.ordinal = s.parent]
Depths(input) ==
  CHOOSE f : f = [s \in input |-> IF s.parent = NoParent THEN 0 ELSE f[Up(input)[s]] + 1]
Ancestors(input) ==
  CHOOSE f : f = [s \in input |-> IF s.parent = NoParent THEN {}
                                  ELSE {Up(input)[s]} \cup f[Up(input)[s]]]

LEMMA BuildComputes ==
  ASSUME NEW input, NEW b, NEW m
  PROVE  build_tree(input, b, m) = Tree(input, b, m, Up(input), Depths(input), Ancestors(input))
BY Zenon DEF build_tree, Tree, Up, Depths, Ancestors

LEMMA TreeCovers ==
  ASSUME NEW input, NEW b, NEW m, NEW up, NEW original, NEW above
  PROVE  Covers(Tree(input, b, m, up, original, above), input, b, m)
<1>. DEFINE node == [s \in input |-> TreeNode(s, b, m, up, original, above)]
            T == Tree(input, b, m, up, original, above)
<1>1. T = {node[s] : s \in input}
  BY DEF Tree
<1>2. \A s \in input : /\ node[s].build = b /\ node[s].model = m
                       /\ node[s].section = s /\ node[s].paper = s.paper
  BY DEF TreeNode
<1>. HIDE DEF node, T
<1>3. \A n \in T : n.section \in input /\ n = node[n.section]
  BY <1>1, <1>2
<1>4. node \in Bijection(input, T)
  BY <1>1, <1>2 DEF Bijection, Injection, Surjection, IsInjective, node
<1>5. IsFiniteSet(input) => IsFiniteSet(T) /\ Cardinality(T) = Cardinality(input)
  BY <1>4, FS_Bijection DEF ExistsBijection
<1>. QED BY <1>1, <1>2, <1>3, <1>5 DEF Covers, T

LEMMA BuildCoversInput ==
  ASSUME NEW input, NEW b, NEW m
  PROVE  Covers(build_tree(input, b, m), input, b, m)
BY BuildComputes, TreeCovers

-----------------------------------------------------------------------------
(* Steps that change no table.                                             *)

LEMMA SameTrees ==
  ASSUME NEW p, NodesOf(p)' = NodesOf(p), p \notin AbstractOnly => SectionsOf(p)' = SectionsOf(p),
         NEW m, TreeIsCurrent(p, m)
  PROVE  TreeIsCurrent(p, m)'
<1>1. Cardinality(NodesOf(p))' = Cardinality(NodesOf(p))
  OBVIOUS
<1>2. p \notin AbstractOnly => Cardinality(SectionsOf(p))' = Cardinality(SectionsOf(p))
  OBVIOUS
<1>. QED BY <1>1, <1>2 DEF TreeIsCurrent

LEMMA SameRows ==
  ASSUME UNCHANGED tables
  PROVE  /\ \A p : SectionsOf(p)' = SectionsOf(p) /\ NodesOf(p)' = NodesOf(p)
         /\ \A p, m : TreeIsCurrent(p, m) => TreeIsCurrent(p, m)'
<1>1. \A p : SectionsOf(p)' = SectionsOf(p) /\ NodesOf(p)' = NodesOf(p)
  BY DEF tables, SectionsOf, NodesOf
<1>. QED BY <1>1, SameTrees

LEMMA SameTables ==
  ASSUME SectionsInv, BuildsInv, UNCHANGED tables
  PROVE  SectionsInv' /\ BuildsInv'
<1>1. SectionsInv'
  BY SameRows DEF SectionsInv, tables
<1>2. BuildsInv'
  BY SameRows DEF BuildsInv, tables
<1>. QED BY <1>1, <1>2

\* What an indexer has in hand stays good while neither it nor the tables change.
LEMMA SameWork ==
  ASSUME NEW w \in Indexers, WorkInv(w), ix'[w] = ix[w], UNCHANGED tables
  PROVE  WorkInv(w)'
<1>1. Paper(w)' = Paper(w)
  BY DEF Paper
<1>2. \A p : InHand(w, p) => InHand(w, p)'
  BY SameRows DEF InHand, tables
<1>3. LeftAlone(w) => LeftAlone(w)'
  BY <1>1, SameRows DEF LeftAlone
<1>4. InHand(w, Paper(w)) => InHand(w, Paper(w))'
  BY <1>1, <1>2
<1>. QED BY <1>1, <1>3, <1>4 DEF WorkInv

LEMMA IndexerStep ==
  ASSUME IndexInv, NEW w \in Indexers, UNCHANGED tables,
         DOMAIN ix' = Indexers, \A v \in Indexers : v # w => ix'[v] = ix[v], WorkInv(w)'
  PROVE  IndexInv'
<1>1. \A v \in Indexers : WorkInv(v)'
  <2>. SUFFICES ASSUME NEW v \in Indexers, v # w
                PROVE  WorkInv(v)'
    OBVIOUS
  <2>. QED BY SameWork DEF IndexInv
<1>. QED BY <1>1, SameTables DEF IndexInv

LEMMA StartIndexKeeps ==
  ASSUME IndexInv, NEW w \in Indexers, StartIndex(w)
  PROVE  IndexInv'
<1>1. /\ UNCHANGED tables /\ DOMAIN ix' = Indexers
      /\ \A v \in Indexers : v # w => ix'[v] = ix[v]
  BY DEF StartIndex, IndexInv, tables
<1>2. /\ DOMAIN ix'[w] = Fields /\ ix'[w].at = "check" /\ ix'[w].todo = Papers
      /\ ix'[w].failed = 0
  BY DEF StartIndex, Idle, IndexInv, Fields
<1>3. WorkInv(w)'
  BY <1>2 DEF WorkInv, LeftAlone
<1>. QED BY <1>1, <1>3, IndexerStep

LEMMA SkipCurrentKeeps ==
  ASSUME IndexInv, NEW w \in Indexers, SkipCurrent(w)
  PROVE  IndexInv'
<1>1. /\ UNCHANGED tables /\ DOMAIN ix' = Indexers
      /\ \A v \in Indexers : v # w => ix'[v] = ix[v]
  BY DEF SkipCurrent, IndexInv, tables
<1>2. /\ ix[w].at = "check" /\ ix[w].todo # {} /\ TreeIsCurrent(Paper(w), ix[w].model)
      /\ ix' = [ix EXCEPT ![w].todo = Rest(w)]
  BY DEF SkipCurrent
<1>3. WorkInv(w)
  BY DEF IndexInv
<1>4. /\ DOMAIN ix'[w] = Fields /\ ix'[w].at = "check" /\ ix'[w].todo = Rest(w)
      /\ ix'[w].failed = ix[w].failed /\ ix'[w].model = ix[w].model
      /\ ix'[w].undisturbed = ix[w].undisturbed
  BY <1>2, <1>3 DEF IndexInv, WorkInv, Fields
<1>5. \A p \in Papers \ Rest(w) : p \in Papers \ ix[w].todo \/ p = Paper(w)
  BY DEF Rest
<1>6. LeftAlone(w) => LeftAlone(w)'
  BY <1>1, <1>2, <1>4, <1>5, SameRows DEF LeftAlone
<1>7. WorkInv(w)'
  BY <1>3, <1>4, <1>6 DEF WorkInv, Rest
<1>. QED BY <1>1, <1>7, IndexerStep

\* What LoadPaper finds of an abstract is one section.
LEMMA FirstAbstract ==
  ASSUME SectionsInv, NEW p \in AbstractOnly,
         NEW s \in SectionsOf(p), NEW t \in SectionsOf(p),
         \A u \in SectionsOf(p) : s.parse <= u.parse,
         \A u \in SectionsOf(p) : t.parse <= u.parse
  PROVE  s = t
<1>1. s.parse \in Nat /\ t.parse \in Nat /\ s.parse <= t.parse /\ t.parse <= s.parse
  BY DEF SectionsInv, SectionsOf
<1>2. s.parse = t.parse
  BY <1>1
<1>. QED BY <1>2 DEF SectionsInv, SectionsOf

LEMMA LoadPaperKeeps ==
  ASSUME IndexInv, NEW w \in Indexers, LoadPaper(w)
  PROVE  IndexInv'
<1>1. /\ UNCHANGED tables /\ DOMAIN ix' = Indexers
      /\ \A v \in Indexers : v # w => ix'[v] = ix[v]
  BY DEF LoadPaper, IndexInv, tables
<1>2. WorkInv(w) /\ SectionsInv
  BY DEF IndexInv
<1>0. PICK p : p = Paper(w)
  OBVIOUS
<1>. DEFINE first == {s \in SectionsOf(p) : \A t \in SectionsOf(p) : s.parse <= t.parse}
            load == IF p \in AbstractOnly THEN first ELSE SectionsOf(p)
<1>3. /\ ix[w].at = "check" /\ ix[w].todo # {}
      /\ ix' = IF p \in AbstractOnly /\ first = {}
               THEN [ix EXCEPT ![w].at = "abstract"]
               ELSE [ix EXCEPT ![w].at = "summarize", ![w].input = load]
  BY <1>0 DEF LoadPaper
<1>4. p \in Papers
  BY <1>0, <1>2, <1>3, PaperIsTodo DEF WorkInv
<1>5. /\ IsFiniteSet(load) /\ load \subseteq SectionsOf(p)
      /\ p \in AbstractOnly => \A s, t \in load : s = t
      /\ p \notin AbstractOnly => load = SectionsOf(p)
  <2>1. load \in SUBSET SectionsOf(p) /\ IsFiniteSet(SectionsOf(p))
    BY <1>2, <1>4 DEF SectionsInv
  <2>2. IsFiniteSet(load)
    BY <2>1, FS_Subset
  <2>3. p \in AbstractOnly => \A s, t \in load : s = t
    BY <1>2, FirstAbstract
  <2>. QED BY <2>1, <2>2, <2>3
<1>6. \A s \in SectionsOf(p) : s.paper = p /\ s.parse \in Nat /\ s.parse <= parses[p]
  BY <1>2 DEF SectionsInv, SectionsOf
<1>. HIDE DEF load, first
<1>7. /\ DOMAIN ix'[w] = Fields /\ ix'[w].todo = ix[w].todo /\ ix'[w].failed = ix[w].failed
      /\ ix'[w].model = ix[w].model /\ ix'[w].undisturbed = ix[w].undisturbed
      /\ \/ ix'[w].at = "abstract" /\ p \in AbstractOnly
         \/ ix'[w].at = "summarize" /\ ix'[w].input = load
  BY <1>2, <1>3 DEF IndexInv, WorkInv, Fields
<1>8. Paper(w)' = p
  BY <1>0, <1>7 DEF Paper
<1>9. /\ SectionsOf(p)' = SectionsOf(p) /\ sections' = sections /\ parses' = parses
      /\ \A q, m : TreeIsCurrent(q, m) => TreeIsCurrent(q, m)'
  BY <1>1, SameRows DEF tables
<1>10. ix'[w].at = "summarize" => InHand(w, p)'
  BY <1>5, <1>6, <1>7, <1>9 DEF InHand
<1>11. LeftAlone(w) => LeftAlone(w)'
  BY <1>0, <1>3, <1>5, <1>7, <1>8, <1>9 DEF LeftAlone
<1>12. ix'[w].at = "summarize" => InHand(w, Paper(w))'
  BY <1>8, <1>10
<1>13. WorkInv(w)'
  BY <1>2, <1>3, <1>7, <1>8, <1>11, <1>12 DEF WorkInv
<1>. QED BY <1>1, <1>13, IndexerStep

\* A paper that fails leaves the rest to do.
LEMMA FailureKeeps ==
  ASSUME IndexInv, NEW w \in Indexers, UNCHANGED tables, ix' = [ix EXCEPT ![w] = PaperFailed(w)]
  PROVE  IndexInv'
<1>1. WorkInv(w)
  BY DEF IndexInv
<1>2. DOMAIN ix' = Indexers /\ \A v \in Indexers : v # w => ix'[v] = ix[v]
  BY DEF IndexInv
<1>3. /\ DOMAIN ix'[w] = Fields /\ ix'[w].at = "check" /\ ix'[w].todo = Rest(w)
      /\ ix'[w].failed = ix[w].failed + 1
  BY <1>1 DEF PaperFailed, IndexInv, WorkInv, Fields
<1>4. ix'[w].failed \in Nat /\ ix'[w].failed # 0
  BY <1>1, <1>3 DEF WorkInv
<1>5. WorkInv(w)'
  BY <1>1, <1>3, <1>4 DEF WorkInv, LeftAlone, Rest
<1>. QED BY <1>2, <1>5, IndexerStep

LEMMA DeleteNodesKeeps ==
  ASSUME IndexInv, NEW w \in Indexers, DeleteNodes(w)
  PROVE  IndexInv'
<1>1. /\ UNCHANGED tables /\ DOMAIN ix' = Indexers
      /\ \A v \in Indexers : v # w => ix'[v] = ix[v]
  BY DEF DeleteNodes, IndexInv, tables
<1>0. PICK p : p = Paper(w)
  OBVIOUS
<1>2. WorkInv(w) /\ BuildsInv
  BY DEF IndexInv
<1>3. /\ ix[w].at = "summarize" /\ ix[w].input # {}
      /\ ix' = [ix EXCEPT ![w].at = "insert", ![w].victims = NodesOf(p)]
  BY <1>0 DEF DeleteNodes, Victims
<1>4. /\ DOMAIN ix'[w] = Fields /\ ix'[w].todo = ix[w].todo /\ ix'[w].failed = ix[w].failed
      /\ ix'[w].model = ix[w].model /\ ix'[w].undisturbed = ix[w].undisturbed
      /\ ix'[w].input = ix[w].input /\ ix'[w].at = "insert" /\ ix'[w].victims = NodesOf(p)
  BY <1>2, <1>3 DEF IndexInv, WorkInv, Fields
<1>5. Paper(w)' = p /\ InHand(w, p)
  BY <1>0, <1>2, <1>3, <1>4 DEF Paper, WorkInv
<1>6. \A n \in NodesOf(p) : /\ n.paper = p /\ n.build \in 1..builds
                            /\ \A k \in nodes : k.build = n.build => k \in NodesOf(p)
  BY <1>2 DEF BuildsInv, NodesOf
<1>7. /\ SectionsOf(p)' = SectionsOf(p) /\ NodesOf(p)' = NodesOf(p)
      /\ sections' = sections /\ parses' = parses /\ nodes' = nodes /\ builds' = builds
      /\ \A q, m : TreeIsCurrent(q, m) => TreeIsCurrent(q, m)'
  BY <1>1, SameRows DEF tables
<1>8. InHand(w, p)'
  <2>1. ix'[w].input # {} /\ IsFiniteSet(ix[w].input)' /\ (1..builds)' = 1..builds
    BY <1>3, <1>4, <1>5, <1>7 DEF InHand
  <2>2. /\ \A s \in ix'[w].input : s.paper = p /\ s.parse \in Nat /\ s.parse <= parses'[p]
        /\ p \in AbstractOnly => \A s, t \in ix'[w].input : s = t
        /\ p \notin AbstractOnly => \/ ix'[w].input \cap sections' = {}
                                  \/ ix'[w].input = SectionsOf(p)'
    BY <1>4, <1>5, <1>7 DEF InHand
  <2>3. \A n \in ix'[w].victims :
          /\ n.paper = p /\ n.build \in 1..builds
          /\ \A k \in nodes' : k.build = n.build => k \in ix'[w].victims
    BY <1>4, <1>6, <1>7
  <2>. QED BY <2>1, <2>2, <2>3 DEF InHand
<1>9. LeftAlone(w) => LeftAlone(w)'
  BY <1>0, <1>3, <1>4, <1>5, <1>7 DEF LeftAlone
<1>10. InHand(w, Paper(w))'
  BY <1>5, <1>8
<1>11. WorkInv(w)'
  BY <1>2, <1>3, <1>4, <1>9, <1>10 DEF WorkInv
<1>. QED BY <1>1, <1>11, IndexerStep

LEMMA EndIndexKeeps ==
  ASSUME IndexInv, NEW w \in Indexers, EndIndex(w)
  PROVE  IndexInv'
<1>1. /\ UNCHANGED tables /\ DOMAIN ix' = Indexers
      /\ \A v \in Indexers : v # w => ix'[v] = ix[v]
  BY DEF EndIndex, IndexInv, tables
<1>2. WorkInv(w)
  BY DEF IndexInv
<1>3. /\ DOMAIN ix'[w] = Fields /\ ix'[w].at = "ended" /\ ix'[w].todo = {}
      /\ ix[w].todo = {} /\ ix'[w].failed = ix[w].failed /\ ix'[w].model = ix[w].model
      /\ ix'[w].undisturbed = ix[w].undisturbed
  BY <1>2 DEF EndIndex, IndexInv, WorkInv, Fields
<1>4. LeftAlone(w) => LeftAlone(w)'
  BY <1>1, <1>3, SameRows DEF LeftAlone
<1>5. WorkInv(w)'
  BY <1>2, <1>3, <1>4 DEF WorkInv
<1>. QED BY <1>1, <1>5, IndexerStep

LEMMA KillKeeps ==
  ASSUME IndexInv, NEW w \in Indexers, Kill(w)
  PROVE  IndexInv'
<1>1. /\ UNCHANGED tables /\ DOMAIN ix' = Indexers
      /\ \A v \in Indexers : v # w => ix'[v] = ix[v]
  BY DEF Kill, IndexInv, tables
<1>2. ix'[w] = Idle
  BY DEF Kill, IndexInv
<1>3. WorkInv(w)'
  BY <1>2 DEF WorkInv, LeftAlone, Idle, Fields
<1>. QED BY <1>1, <1>3, IndexerStep

-----------------------------------------------------------------------------
(* Steps that write.                                                       *)

LEMMA AddAbstractKeeps ==
  ASSUME IndexInv, NEW w \in Indexers, AddAbstract(w)
  PROVE  IndexInv'
<1>0. PICK p : p = Paper(w)
  OBVIOUS
<1>. DEFINE fresh == Abstract(p, parses[p] + 1)
<1>1. /\ SectionsInv /\ BuildsInv /\ WorkInv(w) /\ \A v \in Indexers : WorkInv(v)
      /\ DOMAIN ix = Indexers /\ parses \in [Papers -> Nat]
  BY DEF IndexInv, SectionsInv
<1>2. /\ ix[w].at = "abstract" /\ sections' = sections \cup {fresh}
      /\ parses' = [parses EXCEPT ![p] = @ + 1]
      /\ ix' = [ix EXCEPT ![w].at = "summarize", ![w].input = {fresh}]
      /\ nodes' = nodes /\ builds' = builds
  BY <1>0 DEF AddAbstract
<1>3. p \in Papers /\ p \in AbstractOnly
  BY <1>0, <1>1, <1>2, PaperIsTodo DEF WorkInv
<1>4. /\ fresh.paper = p /\ fresh.parse = parses[p] + 1
      /\ parses[p] \in Nat /\ parses'[p] = parses[p] + 1
      /\ \A q \in Papers : q # p => parses'[q] = parses[q]
      /\ parses' \in [Papers -> Nat]
  BY <1>1, <1>2, <1>3 DEF Abstract
<1>. HIDE DEF fresh
<1>5. \A s \in sections : s.paper \in Papers /\ s.parse \in Nat /\ s.parse <= parses[s.paper]
  BY <1>1 DEF SectionsInv
<1>6. \A q : q # p => SectionsOf(q)' = SectionsOf(q)
  BY <1>2, <1>4 DEF SectionsOf
<1>7. \A q : NodesOf(q)' = NodesOf(q)
  BY <1>2 DEF NodesOf
<1>8. \A q, m : TreeIsCurrent(q, m) => TreeIsCurrent(q, m)'
  BY <1>3, <1>6, <1>7, SameTrees
<1>9. SectionsInv'
  <2>1. \A s \in sections' : s.paper \in Papers /\ s.parse \in Nat /\ s.parse <= parses'[s.paper]
    <3>1. fresh.paper \in Papers /\ fresh.parse \in Nat /\ fresh.parse <= parses'[fresh.paper]
      BY <1>3, <1>4
    <3>2. \A s \in sections : s.parse <= parses'[s.paper]
      <4>. SUFFICES ASSUME NEW s \in sections
                    PROVE  s.parse <= parses'[s.paper]
        OBVIOUS
      <4>1. s.paper = p => s.parse <= parses[p] + 1
        BY <1>4, <1>5
      <4>. QED BY <1>4, <1>5, <4>1
    <3>. QED BY <1>2, <1>5, <3>1, <3>2
  <2>2. \A q \in Papers : IsFiniteSet(SectionsOf(q)')
    <3>1. SectionsOf(p)' = SectionsOf(p) \cup {fresh}
      BY <1>2, <1>4 DEF SectionsOf
    <3>2. IsFiniteSet(SectionsOf(p)')
      BY <1>1, <1>3, <3>1, FS_AddElement DEF SectionsInv
    <3>. QED BY <1>1, <1>6, <3>2 DEF SectionsInv
  <2>3. \A s \in sections : s.paper = p => s.parse # fresh.parse
    <3>. SUFFICES ASSUME NEW s \in sections, s.paper = p
                  PROVE  s.parse # fresh.parse
      OBVIOUS
    <3>1. s.parse \in Nat /\ s.parse <= parses[p]
      BY <1>5
    <3>. QED BY <1>4, <3>1
  <2>4. \A s, t \in sections' :
          s.paper \in AbstractOnly /\ s.paper = t.paper /\ s.parse = t.parse => s = t
    BY <1>1, <1>2, <1>4, <2>3 DEF SectionsInv
  <2>5. \A q \in Papers : IsFiniteSet(SectionsOf(q))'
    BY <2>2
  <2>. QED BY <1>1, <1>2, <1>4, <2>1, <2>4, <2>5 DEF SectionsInv
<1>10. BuildsInv'
  <2>1. \A q : IsFiniteSet(NodesOf(q)) => IsFiniteSet(NodesOf(q))'
    BY <1>7
  <2>2. \A n \in nodes : n.paper \notin AbstractOnly => SectionsOf(n.paper)' = SectionsOf(n.paper)
    BY <1>3, <1>6
  <2>. QED BY <1>1, <1>2, <2>1, <2>2 DEF BuildsInv
<1>11. \A v \in Indexers : /\ v # w => ix'[v] = ix[v]
                           /\ Paper(v)' = Paper(v)
  BY <1>1, <1>2 DEF Paper, WorkInv, Fields
<1>12. DOMAIN ix' = Indexers
  BY <1>1, <1>2
<1>13. ASSUME NEW v \in Indexers, v # w
       PROVE  WorkInv(v)'
  <2>1. ix'[v] = ix[v] /\ WorkInv(v) /\ Paper(v)' = Paper(v)
    BY <1>1, <1>11, <1>13
  <2>2. ASSUME NEW q \in Papers, InHand(v, q)
        PROVE  InHand(v, q)'
    <3>1. \A s \in ix[v].input : s.paper = q /\ s.parse \in Nat /\ s.parse <= parses'[q]
      <4>1. parses[q] \in Nat /\ parses'[q] \in Nat /\ parses[q] <= parses'[q]
        BY <1>1, <1>4
      <4>2. \A s \in ix[v].input : s.paper = q /\ s.parse \in Nat /\ s.parse <= parses[q]
        BY <2>2 DEF InHand
      <4>. QED BY <4>1, <4>2
    <3>2. q \notin AbstractOnly =>
            ix[v].input \cap sections' = {} \/ ix[v].input = SectionsOf(q)'
      BY <1>2, <1>3, <1>4, <1>6, <2>2, <3>1 DEF InHand
    <3>. QED BY <1>2, <2>1, <2>2, <3>1, <3>2 DEF InHand
  <2>3. LeftAlone(v) => LeftAlone(v)'
    BY <1>3, <1>6, <1>7, <1>8, <2>1 DEF LeftAlone
  <2>4. ix[v].at \in {"summarize", "insert"} => Paper(v) \in Papers
    BY <2>1, PaperIsTodo DEF WorkInv
  <2>5. ix'[v].at \in {"summarize", "insert"} => InHand(v, Paper(v))'
    BY <2>1, <2>2, <2>4 DEF WorkInv
  <2>. QED BY <2>1, <2>3, <2>5 DEF WorkInv
<1>14. WorkInv(w)'
  <2>1. /\ DOMAIN ix'[w] = Fields /\ ix'[w].at = "summarize" /\ ix'[w].input = {fresh}
        /\ ix'[w].todo = ix[w].todo /\ ix'[w].failed = ix[w].failed
        /\ ix'[w].model = ix[w].model /\ ix'[w].undisturbed = ix[w].undisturbed
        /\ Paper(w)' = p
    BY <1>0, <1>1, <1>2, <1>11 DEF WorkInv, Fields
  <2>2. IsFiniteSet(ix[w].input)'
    BY <2>1, FS_Singleton
  <2>3. InHand(w, p)'
    BY <1>3, <1>4, <2>1, <2>2 DEF InHand
  <2>4. InHand(w, Paper(w))'
    BY <2>1, <2>3
  <2>5. LeftAlone(w) => LeftAlone(w)'
    BY <1>3, <1>8, <2>1 DEF LeftAlone
  <2>. QED BY <1>1, <1>2, <2>1, <2>4, <2>5 DEF WorkInv
<1>. QED BY <1>9, <1>10, <1>12, <1>13, <1>14 DEF IndexInv

LEMMA StoreTreeKeeps ==
  ASSUME IndexInv, NEW w \in Indexers, StoreTree(w)
  PROVE  IndexInv'
<1>1. /\ SectionsInv /\ BuildsInv /\ WorkInv(w) /\ \A v \in Indexers : WorkInv(v)
      /\ DOMAIN ix = Indexers /\ builds \in Nat
  BY DEF IndexInv, SectionsInv
<1>2. CASE ~(ix[w].input \subseteq sections)
  <2>1. UNCHANGED tables /\ ix' = [ix EXCEPT ![w] = PaperFailed(w)]
    BY <1>2 DEF StoreTree, tables
  <2>. QED BY <2>1, FailureKeeps
<1>3. CASE ix[w].input \subseteq sections
  <2>0. PICK p, input, tree, victims, m :
          /\ p = Paper(w) /\ input = ix[w].input /\ victims = ix[w].victims
          /\ m = ix[w].model /\ tree = build_tree(input, builds + 1, m)
    OBVIOUS
  <2>1. /\ ix[w].at = "insert" /\ builds' = builds + 1
        /\ nodes' = (nodes \ victims) \cup tree
        /\ ix' = [Disturbing(w) EXCEPT ![w] = [@ EXCEPT !.at = "check", !.todo = Rest(w),
                                                        !.input = {}, !.victims = {}]]
        /\ sections' = sections /\ parses' = parses
    BY <1>3, <2>0 DEF StoreTree
  <2>2. /\ p \in Papers /\ p \in ix[w].todo /\ InHand(w, p)
    BY <1>1, <2>0, <2>1, PaperIsTodo DEF WorkInv
  <2>3. /\ IsFiniteSet(input) /\ input # {} /\ input \subseteq sections
        /\ \A s \in input : s.paper = p
        /\ p \in AbstractOnly => \A s, t \in input : s = t
        /\ p \notin AbstractOnly => input = SectionsOf(p)
    <3>1. input \cap sections # {}
      BY <1>3, <2>0, <2>1, <2>2 DEF InHand
    <3>. QED BY <1>3, <2>0, <2>1, <2>2, <3>1 DEF InHand
  <2>4. \A n \in victims : /\ n.paper = p /\ n.build \in 1..builds
                           /\ \A k \in nodes : k.build = n.build => k \in victims
    BY <2>0, <2>1, <2>2 DEF InHand
  <2>5. /\ \A n \in tree : /\ n.build = builds + 1 /\ n.model = m
                           /\ n.section \in input /\ n.paper = p
        /\ \A s \in input : \E n \in tree : n.section = s
        /\ \A n, k \in tree : n.section = k.section => n = k
        /\ IsFiniteSet(tree) /\ Cardinality(tree) = Cardinality(input)
    <3>1. Covers(tree, input, builds + 1, m)
      BY <2>0, BuildCoversInput
    <3>. QED BY <2>3, <3>1 DEF Covers
  <2>6. \A n \in nodes : n.build \in Nat /\ n.build <= builds /\ n.build # builds + 1
    BY <1>1 DEF BuildsInv
  <2>7. \A q : SectionsOf(q)' = SectionsOf(q)
    BY <2>1 DEF SectionsOf
  <2>8. SectionsInv'
    <3>1. builds' \in Nat
      BY <1>1, <2>1
    <3>. QED BY <1>1, <2>1, <2>7, <3>1 DEF SectionsInv
  <2>9. BuildsInv'
    <3>1. \A n \in nodes' : /\ n.section \in sections' /\ n.section.paper = n.paper
                            /\ n.build \in 1..builds'
      <4>1. \A n \in nodes : n.build \in 1..(builds + 1)
        BY <1>1 DEF BuildsInv
      <4>2. builds + 1 \in 1..(builds + 1)
        BY <1>1
      <4>. QED BY <1>1, <2>1, <2>3, <2>5, <4>1, <4>2 DEF BuildsInv
    <3>2. \A n, k \in nodes' : n.build = k.build => /\ n.paper = k.paper
                                                    /\ n.section = k.section => n = k
      BY <1>1, <2>1, <2>5, <2>6 DEF BuildsInv
    <3>3. ASSUME NEW n \in nodes', n.paper \notin AbstractOnly, NEW s \in SectionsOf(n.paper)
          PROVE  \E k \in nodes' : k.build = n.build /\ k.section = s
      <4>1. CASE n \in tree
        BY <2>1, <2>3, <2>5, <3>3, <4>1
      <4>2. CASE n \notin tree
        <5>1. n \in nodes /\ n \notin victims
          BY <2>1, <4>2
        <5>2. PICK k \in nodes : k.build = n.build /\ k.section = s
          BY <1>1, <3>3, <5>1 DEF BuildsInv
        <5>3. k \notin victims
          BY <2>4, <5>1, <5>2
        <5>. QED BY <2>1, <5>2, <5>3
      <4>. QED BY <4>1, <4>2
    <3>4. ASSUME NEW q \in Papers
          PROVE  IsFiniteSet(NodesOf(q)')
      <4>1. NodesOf(q)' \in SUBSET (NodesOf(q) \cup tree)
        BY <2>1 DEF NodesOf
      <4>2. IsFiniteSet(NodesOf(q) \cup tree)
        BY <1>1, <2>5, FS_Union DEF BuildsInv
      <4>. QED BY <4>1, <4>2, FS_Subset
    <3>5. \A n \in nodes' : n.paper \notin AbstractOnly =>
            \A s \in SectionsOf(n.paper)' : \E k \in nodes' : k.build = n.build /\ k.section = s
      BY <2>7, <3>3
    <3>6. \A q \in Papers : IsFiniteSet(NodesOf(q))'
      BY <3>4
    <3>. QED BY <3>1, <3>2, <3>5, <3>6 DEF BuildsInv
  <2>10. DOMAIN ix' = Indexers
    BY <2>1 DEF Disturbing
  <2>11. ASSUME NEW v \in Indexers, v # w
         PROVE  WorkInv(v)'
    <3>1. ix'[v] = [ix[v] EXCEPT !.undisturbed = FALSE] /\ WorkInv(v)
      BY <1>1, <2>1, <2>11 DEF Disturbing
    <3>2. /\ DOMAIN ix'[v] = Fields /\ ix'[v].undisturbed = FALSE /\ ix'[v].at = ix[v].at
          /\ ix'[v].todo = ix[v].todo /\ ix'[v].input = ix[v].input
          /\ ix'[v].victims = ix[v].victims /\ ix'[v].failed = ix[v].failed
          /\ Paper(v)' = Paper(v)
      BY <3>1 DEF WorkInv, Fields, Paper
    <3>3. ASSUME NEW q, InHand(v, q)
          PROVE  InHand(v, q)'
      <4>1. ASSUME ix[v].at = "insert", NEW n \in ix[v].victims
            PROVE  /\ n.paper = q /\ n.build \in 1..builds'
                   /\ \A k \in nodes' : k.build = n.build => k \in ix[v].victims
        <5>1. n.paper = q /\ n.build \in 1..builds
          BY <3>3, <4>1 DEF InHand
        <5>2. n.build \in 1..(builds + 1) /\ n.build # builds + 1
          BY <1>1, <5>1
        <5>3. \A k \in nodes : k.build = n.build => k \in ix[v].victims
          BY <3>3, <4>1 DEF InHand
        <5>. QED BY <2>1, <2>5, <5>1, <5>2, <5>3
      <4>2. IsFiniteSet(ix[v].input)'
        BY <3>2, <3>3 DEF InHand
      <4>3. SectionsOf(q)' = SectionsOf(q)
        BY <2>7
      <4>. QED BY <2>1, <3>2, <3>3, <4>1, <4>2, <4>3 DEF InHand
    <3>4. InHand(v, Paper(v)) => InHand(v, Paper(v))'
      BY <3>2, <3>3
    <3>. QED BY <3>1, <3>2, <3>4 DEF WorkInv
  <2>12. WorkInv(w)'
    <3>1. /\ DOMAIN ix'[w] = Fields /\ ix'[w].at = "check" /\ ix'[w].todo = Rest(w)
          /\ ix'[w].failed = ix[w].failed /\ ix'[w].model = m
          /\ ix'[w].undisturbed = ix[w].undisturbed
      BY <1>1, <2>0, <2>1 DEF Disturbing, WorkInv, Fields
    <3>2. ASSUME LeftAlone(w)
          PROVE  LeftAlone(w)'
      <4>1. victims = NodesOf(p)
        BY <2>0, <2>1, <3>2 DEF LeftAlone
      <4>2. NodesOf(p)' = tree /\ \A q : q # p => NodesOf(q)' = NodesOf(q)
        BY <2>1, <2>4, <2>5, <4>1 DEF NodesOf
      <4>3. TreeIsCurrent(p, m)'
        <5>1. {n.model : n \in tree} = {m}
          <6>1. tree # {}
            BY <2>3, <2>5
          <6>. QED BY <2>5, <6>1
        <5>2. Cardinality(NodesOf(p))' = Cardinality(input)
          BY <2>5, <4>2
        <5>3. ASSUME p \in AbstractOnly PROVE Cardinality(input) = 1
          <6>1. input # {} /\ \A s, t \in input : s = t
            BY <2>3, <5>3
          <6>2. PICK s : s \in input
            BY <6>1
          <6>3. input = {s}
            BY <6>1, <6>2
          <6>. QED BY <6>3, FS_Singleton
        <5>4. p \notin AbstractOnly => Cardinality(SectionsOf(p))' = Cardinality(input)
          BY <2>3, <2>7
        <5>5. {n.model : n \in NodesOf(p)}' = {m}
          BY <4>2, <5>1
        <5>. QED BY <5>2, <5>3, <5>4, <5>5 DEF TreeIsCurrent
      <4>4. ASSUME ix[w].failed = 0, NEW q \in Papers \ Rest(w)
            PROVE  TreeIsCurrent(q, m)'
        <5>1. CASE q = p
          BY <4>3, <5>1
        <5>2. CASE q # p
          <6>1. q \in Papers \ ix[w].todo
            BY <2>0, <4>4, <5>2 DEF Rest
          <6>2. TreeIsCurrent(q, m)
            BY <2>0, <3>2, <4>4, <6>1 DEF LeftAlone
          <6>. QED BY <2>7, <4>2, <5>2, <6>2, SameTrees
        <5>. QED BY <5>1, <5>2
      <4>5. ASSUME ix'[w].failed = 0, NEW q \in Papers \ ix'[w].todo
            PROVE  TreeIsCurrent(q, ix[w].model)'
        BY <3>1, <4>4, <4>5
      <4>. QED BY <3>1, <4>5 DEF LeftAlone
    <3>. QED BY <1>1, <3>1, <3>2 DEF WorkInv, Rest
  <2>. QED BY <2>8, <2>9, <2>10, <2>11, <2>12 DEF IndexInv
<1>. QED BY <1>2, <1>3

LEMMA ReparseKeeps ==
  ASSUME IndexInv, NEW p \in Papers, Reparse(p)
  PROVE  IndexInv'
<1>1. /\ SectionsInv /\ BuildsInv /\ \A v \in Indexers : WorkInv(v)
      /\ DOMAIN ix = Indexers /\ parses \in [Papers -> Nat]
  BY DEF IndexInv, SectionsInv
<1>2. PICK new :
        /\ sections' = {s \in sections : s.paper # p} \cup new
        /\ IsFiniteSet(new) /\ \A s \in new : s.paper = p /\ s.parse = parses[p] + 1
        /\ p \in AbstractOnly => new = {}
  <2>1. PICK doc \in Documents :
          sections' = {s \in sections : s.paper # p} \cup
                        IF p \in AbstractOnly THEN {} ELSE tei_to_sections(p, parses[p] + 1, doc)
    BY DEF Reparse
  <2>. DEFINE S == IF p \in AbstractOnly THEN {} ELSE tei_to_sections(p, parses[p] + 1, doc)
  <2>2. IsFiniteSet(S) /\ \A s \in S : s.paper = p /\ s.parse = parses[p] + 1
    BY DocumentSections, FS_EmptySet
  <2>3. p \in AbstractOnly => S = {}
    OBVIOUS
  <2>. HIDE DEF S
  <2>. QED BY <2>1, <2>2, <2>3 DEF S
<1>3. /\ nodes' = {n \in nodes : n.section \in sections'} /\ builds' = builds
      /\ parses' = [parses EXCEPT ![p] = @ + 1]
      /\ ix' = [w \in Indexers |-> [ix[w] EXCEPT !.undisturbed = FALSE]]
  BY DEF Reparse
<1>4. /\ parses[p] \in Nat /\ parses'[p] = parses[p] + 1 /\ parses' \in [Papers -> Nat]
      /\ \A q \in Papers : q # p => parses'[q] = parses[q]
  BY <1>1, <1>3
<1>5. \A s \in sections : s.paper \in Papers /\ s.parse \in Nat /\ s.parse <= parses[s.paper]
  BY <1>1 DEF SectionsInv
<1>6. \A q : q # p => SectionsOf(q)' = SectionsOf(q)
  BY <1>2 DEF SectionsOf
<1>7. SectionsOf(p)' = new
  BY <1>2 DEF SectionsOf
<1>8. \A n \in nodes' : n \in nodes /\ n.paper # p
  <2>. SUFFICES ASSUME NEW n \in nodes'
                PROVE  n \in nodes /\ n.paper # p
    OBVIOUS
  <2>1. n \in nodes /\ n.section \in sections /\ n.section.paper = n.paper
    BY <1>1, <1>3 DEF BuildsInv
  <2>2. n.section \in new => n.paper = p /\ n.section.parse = parses[p] + 1
    BY <1>2, <2>1
  <2>3. n.section \notin new
    BY <1>4, <1>5, <2>1, <2>2
  <2>. QED BY <1>2, <1>3, <2>1, <2>3
<1>9. \A n \in nodes : n.paper # p => n \in nodes'
  BY <1>1, <1>2, <1>3 DEF BuildsInv
<1>10. SectionsInv'
  <2>1. \A s \in sections' : s.paper \in Papers /\ s.parse \in Nat /\ s.parse <= parses'[s.paper]
    <3>1. \A s \in new : s.paper \in Papers /\ s.parse \in Nat /\ s.parse <= parses'[s.paper]
      BY <1>2, <1>4
    <3>2. \A s \in sections : s.paper # p =>
            s.paper \in Papers /\ s.parse \in Nat /\ s.parse <= parses'[s.paper]
      BY <1>4, <1>5
    <3>. QED BY <1>2, <3>1, <3>2
  <2>2. \A q \in Papers : IsFiniteSet(SectionsOf(q))'
    BY <1>1, <1>2, <1>6, <1>7 DEF SectionsInv
  <2>3. \A s, t \in sections' :
          s.paper \in AbstractOnly /\ s.paper = t.paper /\ s.parse = t.parse => s = t
    BY <1>1, <1>2 DEF SectionsInv
  <2>4. builds' \in Nat
    BY <1>1, <1>3 DEF SectionsInv
  <2>. QED BY <1>4, <2>1, <2>2, <2>3, <2>4 DEF SectionsInv
<1>11. BuildsInv'
  <2>1. ASSUME NEW n \in nodes', n.paper \notin AbstractOnly, NEW s \in SectionsOf(n.paper)
        PROVE  \E k \in nodes' : k.build = n.build /\ k.section = s
    <3>1. PICK k \in nodes : k.build = n.build /\ k.section = s
      BY <1>1, <1>8, <2>1 DEF BuildsInv
    <3>2. k.paper # p
      BY <1>1, <1>8, <3>1 DEF BuildsInv
    <3>. QED BY <1>9, <3>1, <3>2
  <2>2. \A n \in nodes' : n.paper \notin AbstractOnly =>
          \A s \in SectionsOf(n.paper)' : \E k \in nodes' : k.build = n.build /\ k.section = s
    BY <1>6, <1>8, <2>1
  <2>3. ASSUME NEW q \in Papers
        PROVE  IsFiniteSet(NodesOf(q)')
    <3>1. NodesOf(q)' \in SUBSET NodesOf(q)
      BY <1>8 DEF NodesOf
    <3>. QED BY <1>1, <3>1, FS_Subset DEF BuildsInv
  <2>4. \A q \in Papers : IsFiniteSet(NodesOf(q))'
    BY <2>3
  <2>5. \A n, k \in nodes' : n.build = k.build => /\ n.paper = k.paper
                                                  /\ n.section = k.section => n = k
    BY <1>1, <1>8 DEF BuildsInv
  <2>6. \A n \in nodes' : /\ n.section \in sections' /\ n.section.paper = n.paper
                          /\ n.build \in 1..builds'
    BY <1>1, <1>3 DEF BuildsInv
  <2>. QED BY <2>2, <2>4, <2>5, <2>6 DEF BuildsInv
<1>12. ASSUME NEW v \in Indexers
       PROVE  WorkInv(v)'
  <2>1. WorkInv(v) /\ ix'[v] = [ix[v] EXCEPT !.undisturbed = FALSE]
    BY <1>1, <1>3
  <2>2. /\ DOMAIN ix'[v] = Fields /\ ix'[v].undisturbed = FALSE /\ ix'[v].at = ix[v].at
        /\ ix'[v].todo = ix[v].todo /\ ix'[v].input = ix[v].input
        /\ ix'[v].victims = ix[v].victims /\ ix'[v].failed = ix[v].failed
        /\ Paper(v)' = Paper(v)
    BY <2>1 DEF WorkInv, Fields, Paper
  <2>3. ASSUME NEW q \in Papers, InHand(v, q)
        PROVE  InHand(v, q)'
    <3>1. \A s \in ix[v].input : s.paper = q /\ s.parse \in Nat /\ s.parse <= parses[q]
      BY <2>3 DEF InHand
    <3>2. \A s \in ix[v].input : s.parse <= parses'[q]
      <4>1. parses[q] \in Nat /\ parses'[q] \in Nat /\ parses[q] <= parses'[q]
        BY <1>1, <1>4
      <4>. QED BY <3>1, <4>1
    <3>3. q \notin AbstractOnly =>
            ix[v].input \cap sections' = {} \/ ix[v].input = SectionsOf(q)'
      <4>1. CASE q = p
        <5>1. \A s \in new : s \notin ix[v].input
          BY <1>2, <1>4, <3>1, <4>1
        <5>. QED BY <1>2, <3>1, <4>1, <5>1
      <4>2. CASE q # p
        BY <1>2, <1>6, <2>3, <3>1, <4>2 DEF InHand
      <4>. QED BY <4>1, <4>2
    <3>4. IsFiniteSet(ix[v].input)'
      BY <2>2, <2>3 DEF InHand
    <3>5. ix[v].at = "insert" =>
            /\ ix[v].input # {}
            /\ \A n \in ix[v].victims :
                 /\ n.paper = q /\ n.build \in 1..builds
                 /\ \A k \in nodes' : k.build = n.build => k \in ix[v].victims
      BY <1>8, <2>3 DEF InHand
    <3>. QED BY <1>3, <2>2, <2>3, <3>1, <3>2, <3>3, <3>4, <3>5 DEF InHand
  <2>4. ix[v].at \in {"summarize", "insert"} => Paper(v) \in Papers
    BY <2>1, PaperIsTodo DEF WorkInv
  <2>5. ix'[v].at \in {"summarize", "insert"} => InHand(v, Paper(v))'
    BY <2>1, <2>2, <2>3, <2>4 DEF WorkInv
  <2>. QED BY <2>1, <2>2, <2>5 DEF WorkInv
<1>. QED BY <1>3, <1>10, <1>11, <1>12 DEF IndexInv

-----------------------------------------------------------------------------
(* The theorems.                                                           *)

LEMMA InitIndex == Init => IndexInv
<1>. SUFFICES ASSUME Init PROVE IndexInv
  OBVIOUS
<1>1. PICK doc \in [Papers \ AbstractOnly -> Documents] :
        sections = UNION {tei_to_sections(p, 1, doc[p]) : p \in Papers \ AbstractOnly}
  BY DEF Init
<1>2. \A p \in Papers \ AbstractOnly :
        /\ IsFiniteSet(tei_to_sections(p, 1, doc[p]))
        /\ \A s \in tei_to_sections(p, 1, doc[p]) : s.paper = p /\ s.parse = 1
  BY DocumentSections
<1>3. \A s \in sections : s.paper \in Papers \ AbstractOnly /\ s.parse = 1
  BY <1>1, <1>2
<1>4. ASSUME NEW p \in Papers
      PROVE  IsFiniteSet(SectionsOf(p))
  <2>1. CASE p \in AbstractOnly
    BY <1>3, <2>1, FS_EmptySet DEF SectionsOf
  <2>2. CASE p \notin AbstractOnly
    <3>1. SectionsOf(p) = tei_to_sections(p, 1, doc[p])
      BY <1>1, <1>2, <2>2 DEF SectionsOf
    <3>. QED BY <1>2, <2>2, <3>1
  <2>. QED BY <2>1, <2>2
<1>5. nodes = {} /\ builds = 0 /\ parses = [p \in Papers |-> 1] /\ ix = [w \in Indexers |-> Idle]
  BY DEF Init
<1>6. SectionsInv
  BY <1>3, <1>4, <1>5 DEF SectionsInv
<1>7. BuildsInv
  <2>1. \A p \in Papers : NodesOf(p) = {}
    BY <1>5 DEF NodesOf
  <2>. QED BY <1>5, <2>1, FS_EmptySet DEF BuildsInv
<1>8. \A w \in Indexers : WorkInv(w)
  BY <1>5 DEF WorkInv, LeftAlone, Idle, Fields
<1>. QED BY <1>5, <1>6, <1>7, <1>8 DEF IndexInv

LEMMA NextKeepsIndex == IndexInv /\ [Next]_vars => IndexInv'
<1>. SUFFICES ASSUME IndexInv, [Next]_vars PROVE IndexInv'
  OBVIOUS
<1>1. CASE \E w \in Indexers : IndexStep(w)
  <2>1. PICK w \in Indexers : IndexStep(w)
    BY <1>1
  <2>2. CASE StoreTree(w)
    BY <2>2, StoreTreeKeeps
  <2>3. CASE BuildFails(w)
    BY <2>3, FailureKeeps DEF BuildFails, tables
  <2>. QED BY <2>1, <2>2, <2>3, StartIndexKeeps, SkipCurrentKeeps, LoadPaperKeeps,
              AddAbstractKeeps, DeleteNodesKeeps, EndIndexKeeps, KillKeeps DEF IndexStep
<1>2. CASE \E p \in Papers : Reparse(p)
  BY <1>2, ReparseKeeps
<1>3. CASE Reconfigure \/ UNCHANGED vars
  <2>1. UNCHANGED tables /\ ix' = ix
    BY <1>3 DEF Reconfigure, vars, tables
  <2>2. \A w \in Indexers : WorkInv(w)'
    BY <2>1, SameWork DEF IndexInv
  <2>. QED BY <2>1, <2>2, SameTables DEF IndexInv
<1>. QED BY <1>1, <1>2, <1>3 DEF Next

\* Every build of a parsed paper is whole or gone, and what an indexer has
\* loaded is all of one parse, however indexers and ingest runs interleave,
\* die and start again.
THEOREM BuildsAreWhole == Spec => []IndexInv
BY InitIndex, NextKeepsIndex, PTL DEF Spec

LEMMA CurrentTreesAreWhole == IndexInv => SkippedTreesAreWhole
<1>. SUFFICES ASSUME IndexInv, NEW p \in Papers, NEW m \in Models, TreeIsCurrent(p, m)
              PROVE  /\ {n.section : n \in NodesOf(p)} \subseteq SectionsOf(p)
                     /\ p \notin AbstractOnly => {n.section : n \in NodesOf(p)} = SectionsOf(p)
                     /\ \A n, k \in NodesOf(p) : n.section = k.section => n = k
  BY DEF SkippedTreesAreWhole
<1>1. /\ SectionsInv /\ BuildsInv /\ IsFiniteSet(NodesOf(p)) /\ IsFiniteSet(SectionsOf(p))
  BY DEF IndexInv, SectionsInv, BuildsInv
<1>2. \A n \in NodesOf(p) : n \in nodes /\ n.section \in SectionsOf(p) /\ n.paper = p
  BY <1>1 DEF BuildsInv, NodesOf, SectionsOf
<1>3. CASE p \in AbstractOnly
  <2>1. Cardinality(NodesOf(p)) = 1
    BY <1>3 DEF TreeIsCurrent
  <2>2. \E n : NodesOf(p) = {n}
    BY <1>1, <2>1, FS_Singleton
  <2>. QED BY <1>2, <1>3, <2>2
<1>4. CASE p \notin AbstractOnly
  <2>1. PICK n \in NodesOf(p) : TRUE
    BY DEF TreeIsCurrent
  <2>. DEFINE B == {k \in NodesOf(p) : k.build = n.build}
              f == [k \in B |-> k.section]
  <2>2. \A s \in SectionsOf(p) : \E k \in B : k.section = s
    BY <1>1, <1>2, <1>4 DEF BuildsInv, NodesOf
  <2>3. \A k, j \in B : k.section = j.section => k = j
    BY <1>1, <1>2 DEF BuildsInv
  <2>4. B \in SUBSET NodesOf(p) /\ \A k \in B : k.section \in SectionsOf(p)
    BY <1>2
  <2>. HIDE DEF B
  <2>5. f \in Bijection(B, SectionsOf(p))
    BY <2>2, <2>3, <2>4 DEF Bijection, Injection, Surjection, IsInjective
  <2>6. IsFiniteSet(B)
    BY <1>1, <2>4, FS_Subset
  <2>. HIDE DEF f
  <2>7. Cardinality(B) = Cardinality(SectionsOf(p))
    BY <2>5, <2>6, FS_Bijection DEF ExistsBijection
  <2>8. Cardinality(NodesOf(p)) = Cardinality(SectionsOf(p))
    BY <1>4 DEF TreeIsCurrent
  <2>9. NodesOf(p) = B
    BY <1>1, <2>4, <2>7, <2>8, FS_Subset
  <2>. QED BY <2>2, <2>3, <2>4, <2>9
<1>. QED BY <1>3, <1>4

\* A tree that the index command skips is whole: _paper_tree_is_current only
\* counts nodes, but the nodes of a paper are whole builds, so as many nodes
\* as sections are one build.
THEOREM SkippedTreesAreWholeAlways == Spec => []SkippedTreesAreWhole
BY BuildsAreWhole, CurrentTreesAreWhole, PTL

\* An index command that failed for no paper and was alone in writing leaves
\* nothing for a repetition to build.
THEOREM RepeatedIndexingBuildsNothing == Spec => []RepeatBuildsNothing
<1>1. IndexInv => RepeatBuildsNothing
  BY DEF IndexInv, WorkInv, LeftAlone, RepeatBuildsNothing
<1>. QED BY <1>1, BuildsAreWhole, PTL

-----------------------------------------------------------------------------
(* The shape of a tree.  What build_tree computes by recursion is defined  *)
(* because a section comes after its parent; inductions over sections are  *)
(* on a set of sections, the good ones.                                    *)

\* Sections as a document gives them: a parent is there and comes first.
WellFormed(input) ==
  /\ \E k \in Nat : \A s \in input : s.ordinal \in Nat /\ s.ordinal < k
  /\ \A s \in input : s.parent # NoParent =>
       \E t \in input : t.ordinal = s.parent /\ t.ordinal < s.ordinal

LEMMA ParentIsBefore ==
  ASSUME NEW input, WellFormed(input), NEW s \in input, s.parent # NoParent
  PROVE  /\ Up(input)[s] \in input /\ Up(input)[s].ordinal = s.parent
         /\ Up(input)[s].ordinal < s.ordinal
<1>1. \E t \in input : t.ordinal = s.parent /\ t.ordinal < s.ordinal
  BY DEF WellFormed
<1>2. Up(input)[s] = CHOOSE t \in input : t.ordinal = s.parent
  BY DEF Up
<1>. QED BY <1>1, <1>2

\* Induction: what holds of a section if it holds of its parent holds of all.
LEMMA SectionInduction ==
  ASSUME NEW input, WellFormed(input), NEW good,
         \A s \in input : (s.parent # NoParent => Up(input)[s] \in good) => s \in good
  PROVE  input \subseteq good
<1>. SUFFICES ASSUME NEW x \in input, x \notin good
              PROVE  FALSE
  OBVIOUS
<1>. DEFINE bad == {s \in input : s \notin good}
            places == {s.ordinal : s \in bad}
<1>1. places \in SUBSET Nat /\ places # {}
  BY DEF WellFormed
<1>2. PICK k \in places : \A y \in places : k <= y
  BY <1>1, LeastNatural
<1>3. PICK s \in bad : s.ordinal = k
  BY <1>2
<1>4. s.parent # NoParent /\ Up(input)[s] \notin good
  BY <1>3
<1>5. PICK t \in bad : t.ordinal < k
  BY <1>3, <1>4, ParentIsBefore
<1>6. t.ordinal \in places
  BY <1>5
<1>. HIDE DEF places
<1>7. t.ordinal \in Nat /\ k \in Nat /\ k <= t.ordinal
  BY <1>1, <1>2, <1>6
<1>. QED BY <1>5, <1>7

Solves(f, D, input, base, step) ==
  \A s \in D : f[s] = IF s.parent = NoParent THEN base ELSE step[<<s, f[Up(input)[s]]>>]

LEMMA SectionRecursion ==
  ASSUME NEW input, WellFormed(input), NEW V, NEW base \in V, NEW step \in [input \X V -> V]
  PROVE  \E f \in [input -> V] : Solves(f, input, input, base, step)
<1>. DEFINE below(k) == {s \in input : s.ordinal < k}
            solved(k) == \E f \in [below(k) -> V] : Solves(f, below(k), input, base, step)
            bad == {k \in Nat : ~solved(k)}
<1>1. \A s \in input : s.ordinal \in Nat
  BY DEF WellFormed
<1>2. solved(0)
  <2>1. below(0) = {}
    BY <1>1
  <2>. DEFINE f == [s \in {} |-> base]
  <2>2. f \in [below(0) -> V]
    BY <2>1
  <2>3. Solves(f, below(0), input, base, step)
    BY <2>1 DEF Solves
  <2>. QED BY <2>2, <2>3
<1>3. ASSUME NEW k \in Nat, solved(k)
      PROVE  solved(k + 1)
  <2>1. PICK f \in [below(k) -> V] : Solves(f, below(k), input, base, step)
    BY <1>3
  <2>. DEFINE new(s) == IF s.parent = NoParent THEN base ELSE step[<<s, f[Up(input)[s]]>>]
              g == [s \in below(k + 1) |-> IF s \in below(k) THEN f[s] ELSE new(s)]
  <2>2. \A s \in below(k + 1) : s.parent # NoParent => Up(input)[s] \in below(k)
    <3>. SUFFICES ASSUME NEW s \in below(k + 1), s.parent # NoParent
                  PROVE  Up(input)[s] \in below(k)
      OBVIOUS
    <3>1. /\ Up(input)[s] \in input /\ Up(input)[s].ordinal < s.ordinal
          /\ s.ordinal \in Nat /\ s.ordinal < k + 1
      BY <1>1, ParentIsBefore
    <3>2. Up(input)[s].ordinal \in Nat
      BY <1>1, <3>1
    <3>3. Up(input)[s].ordinal < k
      BY <3>1, <3>2
    <3>. QED BY <3>1, <3>3
  <2>3. \A s \in below(k) : s \in below(k + 1)
    BY <1>1
  <2>4. \A s \in below(k + 1) : new(s) \in V
    BY <2>2
  <2>5. g \in [below(k + 1) -> V]
    BY <2>4
  <2>6. \A s \in below(k) : g[s] = f[s]
    BY <2>3
  <2>7. \A s \in below(k + 1) :
          g[s] = IF s.parent = NoParent THEN base ELSE step[<<s, f[Up(input)[s]]>>]
    BY <2>1, <2>6 DEF Solves
  <2>. HIDE DEF g, below
  <2>8. Solves(g, below(k + 1), input, base, step)
    BY <2>2, <2>6, <2>7 DEF Solves
  <2>. QED BY <2>5, <2>8
<1>4. bad = {}
  <2>. SUFFICES ASSUME bad # {} PROVE FALSE
    OBVIOUS
  <2>. HIDE DEF solved
  <2>1. PICK k \in bad : \A y \in bad : k <= y
    BY LeastNatural
  <2>2. k \in Nat /\ k # 0
    BY <1>2
  <2>3. k - 1 \in Nat /\ k - 1 \notin bad /\ (k - 1) + 1 = k
    BY <2>1, <2>2
  <2>4. solved(k - 1)
    BY <2>3
  <2>5. solved(k)
    BY <1>3, <2>3, <2>4
  <2>. QED BY <2>5
<1>5. PICK k \in Nat : \A s \in input : s.ordinal < k
  BY DEF WellFormed
<1>6. below(k) = input
  BY <1>5
<1>7. solved(k)
  BY <1>4
<1>. QED BY <1>6, <1>7

LEMMA DepthsAreComputed ==
  ASSUME NEW input, WellFormed(input)
  PROVE  Depths(input) = [s \in input |-> IF s.parent = NoParent THEN 0
                                          ELSE Depths(input)[Up(input)[s]] + 1]
<1>. DEFINE step == [x \in input \X Nat |-> x[2] + 1]
<1>1. step \in [input \X Nat -> Nat] /\ \A s \in input, v \in Nat : step[<<s, v>>] = v + 1
  OBVIOUS
<1>2. PICK f \in [input -> Nat] : Solves(f, input, input, 0, step)
  <2>. HIDE DEF step
  <2>. QED BY <1>1, SectionRecursion
<1>3. \A s \in input : s.parent # NoParent => Up(input)[s] \in input
  BY ParentIsBefore
<1>. HIDE DEF step
<1>4. \A s \in input : f[s] = IF s.parent = NoParent THEN 0 ELSE f[Up(input)[s]] + 1
  BY <1>1, <1>2, <1>3 DEF Solves
<1>5. f = [s \in input |-> IF s.parent = NoParent THEN 0 ELSE f[Up(input)[s]] + 1]
  BY <1>2, <1>4
<1>. QED BY <1>5 DEF Depths

LEMMA AncestorsAreComputed ==
  ASSUME NEW input, WellFormed(input)
  PROVE  Ancestors(input) =
           [s \in input |-> IF s.parent = NoParent THEN {}
                            ELSE {Up(input)[s]} \cup Ancestors(input)[Up(input)[s]]]
<1>1. \A s \in input : s.parent # NoParent => Up(input)[s] \in input
  BY ParentIsBefore
<1>. DEFINE up(s) == IF s.parent = NoParent THEN {} ELSE {Up(input)[s]}
            step == [x \in input \X SUBSET input |-> up(x[1]) \cup x[2]]
<1>2. \A s \in input : up(s) \in SUBSET input
  BY <1>1
<1>. HIDE DEF up
<1>3. /\ step \in [input \X SUBSET input -> SUBSET input]
      /\ \A s \in input, v \in SUBSET input : step[<<s, v>>] = up(s) \cup v
  BY <1>2
<1>4. PICK f \in [input -> SUBSET input] : Solves(f, input, input, {}, step)
  <2>. HIDE DEF step
  <2>1. {} \in SUBSET input
    OBVIOUS
  <2>. QED BY <1>3, <2>1, SectionRecursion
<1>. HIDE DEF step
<1>5. \A s \in input : f[s] = IF s.parent = NoParent THEN {}
                              ELSE {Up(input)[s]} \cup f[Up(input)[s]]
  BY <1>1, <1>3, <1>4 DEF Solves, up
<1>6. f = [s \in input |-> IF s.parent = NoParent THEN {}
                           ELSE {Up(input)[s]} \cup f[Up(input)[s]]]
  BY <1>4, <1>5
<1>. QED BY <1>6 DEF Ancestors

\* Depths are natural numbers, one more than a parent's.
LEMMA DepthsAreNatural ==
  ASSUME NEW input, WellFormed(input)
  PROVE  \A s \in input :
           /\ Depths(input)[s] \in Nat
           /\ s.parent = NoParent => Depths(input)[s] = 0
           /\ s.parent # NoParent => Depths(input)[s] = Depths(input)[Up(input)[s]] + 1
<1>. DEFINE good == {s \in input : Depths(input)[s] \in Nat}
<1>1. \A s \in input : Depths(input)[s] = IF s.parent = NoParent THEN 0
                                          ELSE Depths(input)[Up(input)[s]] + 1
  BY DepthsAreComputed
<1>2. \A s \in input : (s.parent # NoParent => Up(input)[s] \in good) => s \in good
  BY <1>1
<1>3. input \subseteq good
  <2>. HIDE DEF good
  <2>. QED BY <1>2, SectionInduction
<1>. QED BY <1>1, <1>3

\* Ancestors come first, and there is one of each lesser depth.
LEMMA AncestorsAreBefore ==
  ASSUME NEW input, WellFormed(input)
  PROVE  \A s \in input :
           /\ \A t \in Ancestors(input)[s] : t \in input /\ t.ordinal < s.ordinal
           /\ \A d \in Nat : d < Depths(input)[s] =>
                \E t \in Ancestors(input)[s] : Depths(input)[t] = d
<1>. DEFINE before(s) == \A t \in Ancestors(input)[s] : t \in input /\ t.ordinal < s.ordinal
            each(s) == \A d \in Nat : d < Depths(input)[s] =>
                         \E t \in Ancestors(input)[s] : Depths(input)[t] = d
            good == {s \in input : before(s) /\ each(s)}
<1>1. \A s \in input : Ancestors(input)[s] =
                         IF s.parent = NoParent THEN {}
                         ELSE {Up(input)[s]} \cup Ancestors(input)[Up(input)[s]]
  <2>1. PICK f : f = Ancestors(input)
    OBVIOUS
  <2>2. f = [s \in input |-> IF s.parent = NoParent THEN {}
                             ELSE {Up(input)[s]} \cup f[Up(input)[s]]]
    BY <2>1, AncestorsAreComputed
  <2>3. \A s \in input : f[s] = IF s.parent = NoParent THEN {}
                                ELSE {Up(input)[s]} \cup f[Up(input)[s]]
    BY <2>2
  <2>. QED BY <2>1, <2>3
<1>2. ASSUME NEW s \in input, s.parent # NoParent => Up(input)[s] \in good
      PROVE  s \in good
  <2>1. CASE s.parent = NoParent
    <3>1. Ancestors(input)[s] = {} /\ Depths(input)[s] = 0
      BY <1>1, <2>1, DepthsAreNatural
    <3>. QED BY <3>1
  <2>2. CASE s.parent # NoParent
    <3>1. PICK u : u = Up(input)[s]
      OBVIOUS
    <3>2. /\ u \in input /\ u.ordinal < s.ordinal /\ before(u) /\ each(u)
          /\ Ancestors(input)[s] = {u} \cup Ancestors(input)[u]
      BY <1>1, <1>2, <2>2, <3>1, ParentIsBefore
    <3>3. /\ Depths(input)[u] \in Nat /\ Depths(input)[s] = Depths(input)[u] + 1
      BY <2>2, <3>1, <3>2, DepthsAreNatural
    <3>4. \A t \in input : t.ordinal \in Nat
      BY DEF WellFormed
    <3>5. before(s)
      <4>1. \A t \in Ancestors(input)[u] : t \in input /\ t.ordinal < s.ordinal
        BY <3>2, <3>4
      <4>. QED BY <3>2, <4>1
    <3>6. ASSUME NEW d \in Nat, d < Depths(input)[s]
          PROVE  \E t \in Ancestors(input)[s] : Depths(input)[t] = d
      <4>1. CASE d = Depths(input)[u]
        BY <3>2, <4>1
      <4>2. CASE d # Depths(input)[u]
        <5>1. d < Depths(input)[u]
          BY <3>3, <3>6, <4>2
        <5>. QED BY <3>2, <5>1
      <4>. QED BY <4>1, <4>2
    <3>7. each(s)
      BY <3>6
    <3>. QED BY <3>5, <3>7
  <2>. QED BY <2>1, <2>2
<1>3. input \subseteq good
  <2>. HIDE DEF good
  <2>. QED BY <1>2, SectionInduction
<1>. QED BY <1>3

\* What TreeShape says of a node among others.
Shaped(n, others) ==
  /\ n.depth \in 0..MaxTreeDepth
  /\ n.parent = NoParent <=> n.depth = 0
  /\ n.parent # NoParent =>
       \E k \in others :
         /\ k.build = n.build /\ k.section.ordinal = n.parent
         /\ k.depth = n.depth - 1 /\ k.section.ordinal < n.section.ordinal
         /\ \/ n.section.parent = k.section.ordinal
            \/ \E j \in others : /\ j.build = n.build /\ j.depth = MaxTreeDepth
                                 /\ j.section.ordinal = n.section.parent

LEMMA BuildIsShaped ==
  ASSUME NEW input, WellFormed(input), NEW b, NEW m
  PROVE  \A n \in build_tree(input, b, m) : Shaped(n, build_tree(input, b, m))
<1>1. PICK up, original, above, tree :
        /\ up = Up(input) /\ original = Depths(input) /\ above = Ancestors(input)
        /\ tree = build_tree(input, b, m)
  OBVIOUS
<1>. DEFINE node(s) == TreeNode(s, b, m, up, original, above)
            cut(d) == IF d < MaxTreeDepth THEN d ELSE MaxTreeDepth
<1>2. tree = {node(s) : s \in input}
  BY <1>1, BuildComputes DEF Tree
<1>3. \A s \in input : /\ node(s).build = b /\ node(s).section = s
                       /\ node(s).parent = FlattenedParent(s, original, up, above)
                       /\ node(s).depth = cut(original[s])
  BY DEF TreeNode
<1>4. \A s \in input : node(s) \in tree
  BY <1>2
<1>5. MaxTreeDepth \in Nat /\ MaxTreeDepth >= 1 /\ NoParent \notin Nat
  BY DepthAssumption
<1>. HIDE DEF node
<1>6. ASSUME NEW s \in input
      PROVE  Shaped(node(s), tree)
  <2>1. original[s] \in Nat
    BY <1>1, DepthsAreNatural
  <2>2. CASE s.parent = NoParent
    <3>1. original[s] = 0
      BY <1>1, <2>2, DepthsAreNatural
    <3>2. node(s).depth = 0 /\ node(s).parent = NoParent
      BY <1>3, <1>5, <2>2, <3>1 DEF FlattenedParent
    <3>. QED BY <1>5, <3>2 DEF Shaped
  <2>3. CASE s.parent # NoParent
    <3>1. PICK u \in input : u = up[s]
      BY <1>1, <2>3, ParentIsBefore
    <3>2. /\ u.ordinal = s.parent /\ u.ordinal < s.ordinal
          /\ original[u] \in Nat /\ original[s] = original[u] + 1
      BY <1>1, <2>3, <3>1, ParentIsBefore, DepthsAreNatural
    <3>3. u.ordinal \in Nat /\ s.parent \in Nat
      BY <3>2 DEF WellFormed
    <3>4. CASE original[s] <= MaxTreeDepth
      <4>1. node(s).parent = s.parent /\ node(s).depth = original[s]
        BY <1>3, <1>5, <2>1, <3>4 DEF FlattenedParent
      <4>2. node(u).depth = node(s).depth - 1 /\ node(s).depth \in 0..MaxTreeDepth
            /\ node(s).depth # 0
        BY <1>3, <1>5, <3>2, <3>4, <4>1
      <4>. QED BY <1>3, <1>4, <2>3, <3>2, <4>1, <4>2 DEF Shaped
    <3>5. CASE original[s] > MaxTreeDepth
      <4>1. PICK t \in above[s] : /\ original[t] = MaxTreeDepth - 1
                                  /\ node(s).parent = t.ordinal
        <5>1. MaxTreeDepth - 1 \in Nat /\ MaxTreeDepth - 1 < original[s]
          BY <1>5, <2>1, <3>5
        <5>2. \E t \in above[s] : original[t] = MaxTreeDepth - 1
          BY <1>1, <5>1, AncestorsAreBefore
        <5>3. ~(original[s] <= MaxTreeDepth)
          BY <1>5, <2>1, <3>5
        <5>4. node(s).parent =
                (CHOOSE t \in above[s] : original[t] = MaxTreeDepth - 1).ordinal
          BY <1>3, <5>3 DEF FlattenedParent
        <5>. QED BY <5>2, <5>4
      <4>2. t \in input /\ t.ordinal < s.ordinal
        BY <1>1, AncestorsAreBefore
      <4>3. t.ordinal \in Nat
        BY <4>2 DEF WellFormed
      <4>4. /\ node(s).depth = MaxTreeDepth /\ node(u).depth = MaxTreeDepth
            /\ node(t).depth = MaxTreeDepth - 1
        BY <1>3, <1>5, <2>1, <3>2, <3>5, <4>1, <4>2
      <4>5. node(s).depth \in 0..MaxTreeDepth /\ node(s).depth # 0 /\ node(s).parent # NoParent
            /\ node(t).depth = node(s).depth - 1
        BY <1>5, <4>1, <4>3, <4>4
      <4>. QED BY <1>3, <1>4, <3>2, <4>1, <4>2, <4>4, <4>5 DEF Shaped
    <3>. QED BY <1>5, <2>1, <3>4, <3>5
  <2>. QED BY <2>2, <2>3
<1>. QED BY <1>1, <1>2, <1>6

\* A div below the first level has one before it, one level up.
LEMMA DivHasParent ==
  ASSUME NEW doc \in Documents, NEW i \in DOMAIN doc, doc[i] # 0
  PROVE  \E j \in 1..(i - 1) : /\ doc[j] = doc[i] - 1
                               /\ \A k \in 1..(i - 1) : doc[k] = doc[i] - 1 => k <= j
<1>1. /\ DOMAIN doc = 1..Len(doc) /\ Len(doc) \in Nat /\ doc[1] = 0
      /\ \A j \in 1..Len(doc) : doc[j] \in Nat
      /\ \A j \in 2..Len(doc) : doc[j] <= doc[j - 1] + 1
  BY DocumentsAssumption
<1>2. i \in Nat /\ i > 1 /\ i <= Len(doc) /\ doc[i] \in Nat /\ doc[i] > 0
  BY <1>1
<1>3. \A S \in SUBSET (1..(i - 1)) : S # {} => \E x \in S : \A y \in S : y <= x
  <2>. SUFFICES ASSUME NEW S \in SUBSET (1..(i - 1)), S # {}
                PROVE  \E x \in S : \A y \in S : y <= x
    OBVIOUS
  <2>. DEFINE gaps == {i - x : x \in S}
  <2>1. \A x \in S : x \in Nat /\ x < i /\ i - x \in Nat
    BY <1>2
  <2>2. gaps \in SUBSET Nat /\ gaps # {}
    BY <2>1
  <2>3. PICK g \in gaps : \A h \in gaps : g <= h
    BY <2>2, LeastNatural
  <2>4. PICK x \in S : g = i - x
    BY <2>3
  <2>5. \A y \in S : i - x <= i - y
    BY <2>3, <2>4
  <2>6. \A y \in S : y <= x
    BY <1>2, <2>1, <2>5
  <2>. QED BY <2>6
<1>4. \E j \in 1..(i - 1) : doc[j] = doc[i] - 1
  <2>. DEFINE lower == {j \in 1..(i - 1) : doc[j] < doc[i]}
  <2>1. 1 \in lower
    BY <1>1, <1>2
  <2>2. PICK k \in lower : \A y \in lower : y <= k
    BY <1>3, <2>1
  <2>3. /\ k \in Nat /\ k >= 1 /\ k <= i - 1 /\ k + 1 \in 2..Len(doc) /\ (k + 1) - 1 = k
        /\ doc[k] \in Nat /\ doc[k] < doc[i] /\ k + 1 \notin lower
    BY <1>1, <1>2, <2>2
  <2>4. doc[k + 1] <= doc[k] + 1 /\ doc[k + 1] \in Nat
    BY <1>1, <2>3
  <2>5. doc[k + 1] >= doc[i]
    <3>1. CASE k + 1 = i
      BY <1>2, <3>1
    <3>2. CASE k + 1 # i
      <4>1. k + 1 \in 1..(i - 1)
        BY <1>2, <2>3, <3>2
      <4>. QED BY <1>2, <2>3, <2>4, <4>1
    <3>. QED BY <3>1, <3>2
  <2>6. doc[k] = doc[i] - 1
    BY <1>2, <2>3, <2>4, <2>5
  <2>. QED BY <2>6
<1>. DEFINE above == {j \in 1..(i - 1) : doc[j] = doc[i] - 1}
<1>5. above # {} /\ above \in SUBSET (1..(i - 1))
  BY <1>4
<1>6. PICK j \in above : \A y \in above : y <= j
  BY <1>3, <1>5
<1>. QED BY <1>6

LEMMA DocumentsAreWellFormed ==
  ASSUME NEW p, NEW parse, NEW doc \in Documents
  PROVE  WellFormed(tei_to_sections(p, parse, doc))
<1>. DEFINE above(i) == {j \in 1..(i - 1) : doc[j] = doc[i] - 1}
            last(i) == CHOOSE j \in above(i) : \A k \in above(i) : k <= j
            parent(i) == IF doc[i] = 0 THEN NoParent ELSE last(i) - 1
            f == [i \in DOMAIN doc |->
                    [paper |-> p, parse |-> parse, ordinal |-> i - 1, parent |-> parent(i)]]
<1>1. tei_to_sections(p, parse, doc) = {f[i] : i \in DOMAIN doc}
  BY DEF tei_to_sections
<1>2. DOMAIN doc = 1..Len(doc) /\ Len(doc) \in Nat
  <2>1. doc \in Seq(Nat)
    BY DocumentsAssumption
  <2>. QED BY <2>1
<1>3. \A i \in DOMAIN doc : f[i].ordinal = i - 1 /\ f[i].parent = parent(i)
  OBVIOUS
<1>4. ASSUME NEW i \in DOMAIN doc, parent(i) # NoParent
      PROVE  last(i) \in DOMAIN doc /\ last(i) < i
  <2>1. \E j \in above(i) : \A k \in above(i) : k <= j
    BY <1>4, DivHasParent
  <2>. HIDE DEF above
  <2>2. last(i) \in above(i)
    BY <2>1
  <2>. HIDE DEF last
  <2>. USE DEF above
  <2>. QED BY <1>2, <2>2
<1>5. \A i \in DOMAIN doc : f[i].ordinal \in Nat /\ f[i].ordinal < Len(doc)
  <2>. HIDE DEF f, parent
  <2>. QED BY <1>2, <1>3
<1>6. ASSUME NEW i \in DOMAIN doc, f[i].parent # NoParent
      PROVE  \E j \in DOMAIN doc : f[j].ordinal = f[i].parent /\ f[j].ordinal < f[i].ordinal
  <2>1. parent(i) # NoParent /\ f[i].parent = parent(i)
    BY <1>3, <1>6
  <2>2. parent(i) = last(i) - 1
    BY <2>1
  <2>3. last(i) \in DOMAIN doc /\ last(i) < i
    BY <1>4, <2>1
  <2>. HIDE DEF f, last, parent
  <2>4. f[last(i)].ordinal = last(i) - 1 /\ f[i].ordinal = i - 1
    BY <1>3, <2>3
  <2>5. last(i) - 1 < i - 1
    BY <1>2, <2>3
  <2>. QED BY <2>1, <2>2, <2>3, <2>4, <2>5
<1>. HIDE DEF f
<1>. QED BY <1>1, <1>2, <1>5, <1>6 DEF WellFormed

\* Trees are shaped as sections are, and sections as documents.
ShapeInv ==
  /\ \A n \in nodes : Shaped(n, nodes)
  /\ \A p \in Papers \ AbstractOnly : WellFormed(SectionsOf(p))
  /\ \A s \in sections : s.paper \in AbstractOnly => s.ordinal = 0 /\ s.parent = NoParent
  /\ \A w \in Indexers : ix[w].at \in {"summarize", "insert"} => WellFormed(ix[w].input)

LEMMA AbstractsAreWellFormed ==
  ASSUME NEW input, \A s \in input : s.ordinal = 0 /\ s.parent = NoParent
  PROVE  WellFormed(input)
<1>1. 1 \in Nat /\ \A s \in input : s.ordinal \in Nat /\ s.ordinal < 1
  OBVIOUS
<1>. QED BY <1>1 DEF WellFormed

InputsAreWellFormed ==
  \A w \in Indexers : ix[w].at \in {"summarize", "insert"} => WellFormed(ix[w].input)

\* One indexer works and the tables stay.
LEMMA ShapeKept ==
  ASSUME ShapeInv, sections' = sections, nodes' = nodes, InputsAreWellFormed'
  PROVE  ShapeInv'
<1>1. \A p : SectionsOf(p)' = SectionsOf(p)
  BY DEF SectionsOf
<1>2. \A p \in Papers \ AbstractOnly : WellFormed(SectionsOf(p))'
  BY <1>1 DEF ShapeInv
<1>3. \A n \in nodes' : Shaped(n, nodes')
  BY DEF ShapeInv
<1>. QED BY <1>2, <1>3 DEF ShapeInv, InputsAreWellFormed

\* Nothing new is loaded and nothing is stored.
StoreFails(w) == StoreTree(w) /\ ~(ix[w].input \subseteq sections)
QuietStep(w) ==
  \/ StartIndex(w) \/ SkipCurrent(w) \/ BuildFails(w) \/ DeleteNodes(w)
  \/ EndIndex(w) \/ Kill(w) \/ StoreFails(w)

LEMMA QuietStepKeepsShape ==
  ASSUME IndexInv, ShapeInv, NEW w \in Indexers,
         QuietStep(w)
  PROVE  ShapeInv'
<1>1. sections' = sections /\ nodes' = nodes
  BY DEF QuietStep, StoreFails, StartIndex, SkipCurrent, BuildFails, DeleteNodes, EndIndex,
         Kill, StoreTree
<1>2. \A v \in Indexers : v # w => ix'[v] = ix[v]
  BY DEF QuietStep, StoreFails, StartIndex, SkipCurrent, BuildFails, DeleteNodes, EndIndex,
         Kill, StoreTree, IndexInv
<1>3. w \in DOMAIN ix /\ DOMAIN ix[w] = Fields
  BY DEF IndexInv, WorkInv
<1>4. \/ ix'[w].at \notin {"summarize", "insert"}
      \/ ix[w].at = "summarize" /\ ix'[w].input = ix[w].input
  <2>1. CASE DeleteNodes(w)
    BY <1>3, <2>1 DEF DeleteNodes, Fields
  <2>2. CASE StartIndex(w)
    BY <1>3, <2>2 DEF StartIndex, Idle
  <2>5. CASE Kill(w)
    BY <1>3, <2>5 DEF Kill, Idle
  <2>3. CASE SkipCurrent(w) \/ EndIndex(w)
    BY <1>3, <2>3 DEF SkipCurrent, EndIndex, Fields
  <2>4. CASE BuildFails(w) \/ StoreFails(w)
    BY <1>3, <2>4 DEF BuildFails, StoreFails, StoreTree, PaperFailed, Fields
  <2>. QED BY <2>1, <2>2, <2>3, <2>4, <2>5 DEF QuietStep
<1>5. InputsAreWellFormed'
  BY <1>2, <1>4 DEF InputsAreWellFormed, ShapeInv
<1>. QED BY <1>1, <1>5, ShapeKept

LEMMA LoadPaperKeepsShape ==
  ASSUME IndexInv, ShapeInv, NEW w \in Indexers, LoadPaper(w)
  PROVE  ShapeInv'
<1>0. PICK p : p = Paper(w)
  OBVIOUS
<1>. DEFINE first == {s \in SectionsOf(p) : \A t \in SectionsOf(p) : s.parse <= t.parse}
            load == IF p \in AbstractOnly THEN first ELSE SectionsOf(p)
<1>1. w \in DOMAIN ix /\ DOMAIN ix = Indexers /\ DOMAIN ix[w] = Fields
  BY DEF IndexInv, WorkInv
<1>2. /\ sections' = sections /\ nodes' = nodes /\ ix[w].todo # {}
      /\ ix' = IF p \in AbstractOnly /\ first = {}
               THEN [ix EXCEPT ![w].at = "abstract"]
               ELSE [ix EXCEPT ![w].at = "summarize", ![w].input = load]
  BY <1>0 DEF LoadPaper
<1>3. p \in Papers
  BY <1>0, <1>2, PaperIsTodo DEF IndexInv, WorkInv
<1>4. WellFormed(load)
  <2>1. CASE p \in AbstractOnly
    <3>1. \A s \in load : s.ordinal = 0 /\ s.parent = NoParent
      BY <2>1 DEF ShapeInv, SectionsOf
    <3>. HIDE DEF load
    <3>. QED BY <3>1, AbstractsAreWellFormed
  <2>2. CASE p \notin AbstractOnly
    BY <1>3, <2>2 DEF ShapeInv
  <2>. QED BY <2>1, <2>2
<1>. HIDE DEF load, first
<1>5. /\ \A v \in Indexers : v # w => ix'[v] = ix[v]
      /\ ix'[w].at = "abstract" \/ ix'[w].input = load
  BY <1>1, <1>2 DEF Fields
<1>6. InputsAreWellFormed'
  BY <1>4, <1>5 DEF InputsAreWellFormed, ShapeInv
<1>. QED BY <1>2, <1>6, ShapeKept

LEMMA AddAbstractKeepsShape ==
  ASSUME IndexInv, ShapeInv, NEW w \in Indexers, AddAbstract(w)
  PROVE  ShapeInv'
<1>0. PICK p, fresh : p = Paper(w) /\ fresh = Abstract(p, parses[p] + 1)
  OBVIOUS
<1>1. w \in DOMAIN ix /\ DOMAIN ix = Indexers /\ WorkInv(w) /\ DOMAIN ix[w] = Fields
  BY DEF IndexInv, WorkInv
<1>2. /\ sections' = sections \cup {fresh} /\ nodes' = nodes /\ ix[w].at = "abstract"
      /\ ix' = [ix EXCEPT ![w].at = "summarize", ![w].input = {fresh}]
  BY <1>0 DEF AddAbstract
<1>3. p \in AbstractOnly
  BY <1>0, <1>1, <1>2 DEF WorkInv
<1>4. fresh.paper = p /\ fresh.ordinal = 0 /\ fresh.parent = NoParent
  BY <1>0 DEF Abstract
<1>5. WellFormed({fresh})
  BY <1>4, AbstractsAreWellFormed
<1>6. \A q \in Papers \ AbstractOnly : SectionsOf(q)' = SectionsOf(q)
  BY <1>2, <1>3, <1>4 DEF SectionsOf
<1>7. \A q \in Papers \ AbstractOnly : WellFormed(SectionsOf(q))'
  BY <1>6 DEF ShapeInv
<1>8. \A s \in sections' : s.paper \in AbstractOnly => s.ordinal = 0 /\ s.parent = NoParent
  BY <1>2, <1>4 DEF ShapeInv
<1>9. /\ \A v \in Indexers : v # w => ix'[v] = ix[v]
      /\ ix'[w].input = {fresh}
  BY <1>1, <1>2 DEF Fields
<1>10. InputsAreWellFormed'
  BY <1>5, <1>9 DEF InputsAreWellFormed, ShapeInv
<1>11. \A n \in nodes' : Shaped(n, nodes')
  BY <1>2 DEF ShapeInv
<1>. QED BY <1>7, <1>8, <1>10, <1>11 DEF ShapeInv, InputsAreWellFormed

\* A node keeps its shape as long as its build stays.
LEMMA BuildKeepsShape ==
  ASSUME NEW N, NEW M, NEW n, Shaped(n, N), \A k \in N : k.build = n.build => k \in M
  PROVE  Shaped(n, M)
BY DEF Shaped

LEMMA StoreTreeKeepsShape ==
  ASSUME IndexInv, ShapeInv, NEW w \in Indexers, StoreTree(w), ix[w].input \subseteq sections
  PROVE  ShapeInv'
<1>0. PICK tree, victims :
        /\ victims = ix[w].victims
        /\ tree = build_tree(ix[w].input, builds + 1, ix[w].model)
  OBVIOUS
<1>1. /\ w \in DOMAIN ix /\ WorkInv(w) /\ DOMAIN ix = Indexers
      /\ \A v \in Indexers : DOMAIN ix[v] = Fields
  BY DEF IndexInv, WorkInv
<1>2. /\ ix[w].at = "insert" /\ sections' = sections
      /\ nodes' = (nodes \ victims) \cup tree
      /\ ix' = [Disturbing(w) EXCEPT ![w] = [@ EXCEPT !.at = "check", !.todo = Rest(w),
                                                      !.input = {}, !.victims = {}]]
  BY <1>0 DEF StoreTree
<1>3. \A n \in victims : \A k \in nodes : k.build = n.build => k \in victims
  BY <1>0, <1>1, <1>2 DEF WorkInv, InHand
<1>4. \A n \in nodes : n \notin victims => Shaped(n, nodes')
  <2>. SUFFICES ASSUME NEW n \in nodes, n \notin victims
                PROVE  Shaped(n, nodes')
    OBVIOUS
  <2>1. \A k \in nodes : k.build = n.build => k \in nodes'
    BY <1>2, <1>3
  <2>. QED BY <2>1, BuildKeepsShape DEF ShapeInv
<1>5. \A n \in tree : Shaped(n, nodes')
  <2>1. WellFormed(ix[w].input)
    BY <1>2 DEF ShapeInv
  <2>2. \A n \in tree : Shaped(n, tree)
    BY <1>0, <2>1, BuildIsShaped
  <2>3. \A k \in tree : k \in nodes'
    BY <1>2
  <2>. QED BY <2>2, <2>3, BuildKeepsShape
<1>6. \A n \in nodes' : Shaped(n, nodes')
  BY <1>2, <1>4, <1>5
<1>7. \A p : SectionsOf(p)' = SectionsOf(p)
  BY <1>2 DEF SectionsOf
<1>8. \A p \in Papers \ AbstractOnly : WellFormed(SectionsOf(p))'
  BY <1>7 DEF ShapeInv
<1>9. /\ ix'[w].at = "check"
      /\ \A v \in Indexers : v # w => ix'[v].at = ix[v].at /\ ix'[v].input = ix[v].input
  BY <1>1, <1>2 DEF Disturbing, Fields
<1>10. InputsAreWellFormed'
  BY <1>9 DEF InputsAreWellFormed, ShapeInv
<1>. QED BY <1>2, <1>6, <1>8, <1>10 DEF ShapeInv, InputsAreWellFormed

LEMMA ReparseKeepsShape ==
  ASSUME IndexInv, IndexInv', ShapeInv, NEW p \in Papers, Reparse(p)
  PROVE  ShapeInv'
<1>1. /\ DOMAIN ix = Indexers /\ \A v \in Indexers : DOMAIN ix[v] = Fields
      /\ BuildsInv /\ SectionsInv /\ BuildsInv'
  BY DEF IndexInv, WorkInv
<1>2. PICK new :
        /\ sections' = {s \in sections : s.paper # p} \cup new
        /\ \A s \in new : s.paper = p /\ s.parse = parses[p] + 1
        /\ p \in AbstractOnly => new = {}
        /\ WellFormed(new)
  <2>1. PICK doc \in Documents :
          sections' = {s \in sections : s.paper # p} \cup
                        IF p \in AbstractOnly THEN {} ELSE tei_to_sections(p, parses[p] + 1, doc)
    BY DEF Reparse
  <2>. DEFINE S == IF p \in AbstractOnly THEN {} ELSE tei_to_sections(p, parses[p] + 1, doc)
  <2>2. \A s \in S : s.paper = p /\ s.parse = parses[p] + 1
    BY DocumentSections
  <2>3. WellFormed(S)
    BY DocumentsAreWellFormed, AbstractsAreWellFormed
  <2>4. p \in AbstractOnly => S = {}
    OBVIOUS
  <2>. HIDE DEF S
  <2>. QED BY <2>1, <2>2, <2>3, <2>4 DEF S
<1>3. /\ nodes' = {n \in nodes : n.section \in sections'}
      /\ ix' = [v \in Indexers |-> [ix[v] EXCEPT !.undisturbed = FALSE]]
  BY DEF Reparse
<1>4. \A n \in nodes' : n \in nodes /\ n.paper # p
  <2>. SUFFICES ASSUME NEW n \in nodes'
                PROVE  n \in nodes /\ n.paper # p
    OBVIOUS
  <2>1. n \in nodes /\ n.section \in sections /\ n.section.paper = n.paper
    BY <1>1, <1>3 DEF BuildsInv
  <2>2. /\ parses[p] \in Nat
        /\ n.paper = p => n.section.parse \in Nat /\ n.section.parse <= parses[p]
    BY <1>1, <2>1 DEF SectionsInv
  <2>3. n.section \in new => n.paper = p /\ n.section.parse = parses[p] + 1
    BY <1>2, <2>1
  <2>4. n.section \notin new
    BY <2>2, <2>3
  <2>. QED BY <1>2, <1>3, <2>1, <2>4
<1>5. \A n \in nodes' : Shaped(n, nodes')
  <2>. SUFFICES ASSUME NEW n \in nodes'
                PROVE  Shaped(n, nodes')
    OBVIOUS
  <2>1. \A k \in nodes : k.build = n.build => k.paper # p
    BY <1>1, <1>4 DEF BuildsInv
  <2>2. \A k \in nodes : k.paper # p => k \in nodes'
    BY <1>1, <1>2, <1>3 DEF BuildsInv
  <2>. QED BY <1>4, <2>1, <2>2, BuildKeepsShape DEF ShapeInv
<1>6. ASSUME NEW q \in Papers \ AbstractOnly
      PROVE  WellFormed(SectionsOf(q)')
  <2>1. SectionsOf(q)' = IF q = p THEN new ELSE SectionsOf(q)
    BY <1>2 DEF SectionsOf
  <2>. QED BY <1>2, <2>1 DEF ShapeInv
<1>7. \A q \in Papers \ AbstractOnly : WellFormed(SectionsOf(q))'
  BY <1>6
<1>8. \A s \in sections' : s.paper \in AbstractOnly => s.ordinal = 0 /\ s.parent = NoParent
  BY <1>2 DEF ShapeInv
<1>9. \A v \in Indexers : ix'[v].at = ix[v].at /\ ix'[v].input = ix[v].input
  BY <1>1, <1>3 DEF Fields
<1>10. InputsAreWellFormed'
  BY <1>9 DEF InputsAreWellFormed, ShapeInv
<1>. QED BY <1>5, <1>7, <1>8, <1>10 DEF ShapeInv, InputsAreWellFormed

LEMMA InitShape == Init => ShapeInv
<1>. SUFFICES ASSUME Init PROVE ShapeInv
  OBVIOUS
<1>1. PICK doc \in [Papers \ AbstractOnly -> Documents] :
        sections = UNION {tei_to_sections(p, 1, doc[p]) : p \in Papers \ AbstractOnly}
  BY DEF Init
<1>2. \A p \in Papers \ AbstractOnly :
        \A s \in tei_to_sections(p, 1, doc[p]) : s.paper = p /\ s.parse = 1
  BY DocumentSections
<1>3. \A p \in Papers \ AbstractOnly : SectionsOf(p) = tei_to_sections(p, 1, doc[p])
  BY <1>1, <1>2 DEF SectionsOf
<1>4. \A p \in Papers \ AbstractOnly : WellFormed(SectionsOf(p))
  BY <1>3, DocumentsAreWellFormed
<1>5. \A s \in sections : s.paper \notin AbstractOnly
  BY <1>1, <1>2
<1>6. nodes = {} /\ ix = [w \in Indexers |-> Idle]
  BY DEF Init
<1>. QED BY <1>4, <1>5, <1>6 DEF ShapeInv, Idle

LEMMA NextKeepsShape == IndexInv /\ IndexInv' /\ ShapeInv /\ [Next]_vars => ShapeInv'
<1>. SUFFICES ASSUME IndexInv, IndexInv', ShapeInv, [Next]_vars PROVE ShapeInv'
  OBVIOUS
<1>1. CASE \E w \in Indexers : IndexStep(w)
  <2>1. PICK w \in Indexers : IndexStep(w)
    BY <1>1
  <2>2. \/ QuietStep(w) \/ LoadPaper(w) \/ AddAbstract(w)
        \/ StoreTree(w) /\ ix[w].input \subseteq sections
    BY <2>1 DEF IndexStep, QuietStep, StoreFails
  <2>. QED BY <2>2, QuietStepKeepsShape, LoadPaperKeepsShape, AddAbstractKeepsShape,
              StoreTreeKeepsShape
<1>2. CASE \E p \in Papers : Reparse(p)
  BY <1>2, ReparseKeepsShape
<1>3. CASE Reconfigure \/ UNCHANGED vars
  <2>1. sections' = sections /\ nodes' = nodes /\ ix' = ix
    BY <1>3 DEF Reconfigure, vars
  <2>2. InputsAreWellFormed'
    BY <2>1 DEF InputsAreWellFormed, ShapeInv
  <2>. QED BY <2>1, <2>2, ShapeKept
<1>. QED BY <1>1, <1>2, <1>3 DEF Next

\* Each stored build is a tree no deeper than MaxTreeDepth, whatever the
\* documents, whichever builds replace each other: _flattened_parent_id
\* finds an ancestor at the right level, and the parent it names is stored
\* with the node and goes with it.
THEOREM TreesAreShaped == Spec => []TreeShape
<1>1. ShapeInv => TreeShape
  BY DEF ShapeInv, Shaped, TreeShape
<1>. QED BY <1>1, InitShape, NextKeepsShape, BuildsAreWhole, PTL DEF Spec
=============================================================================
