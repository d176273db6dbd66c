----------------------------- MODULE SectionTrees -----------------------------
(***************************************************************************)
(* The index command: per eligible paper, decide whether its tree is       *)
(* current, load its sections, ask for summaries outside any transaction,  *)
(* and replace its nodes.  Several index commands may run at once, beside  *)
(* ingest runs that replace the sections of a paper, and each may die.     *)
(*                                                                         *)
(* Replacing the nodes is two steps of one transaction, because its DELETE *)
(* removes what had been committed when it started and not what another    *)
(* indexer commits later.  A section is its paper, the parse that wrote it *)
(* and its place in the document; a node also bears the build it is of.    *)
(***************************************************************************)
EXTENDS Integers, FiniteSets, Sequences

CONSTANTS
  Indexers,
  Papers,
  AbstractOnly,  \* papers whose parse_status is "abstract_only"
  Documents,     \* a document: the nesting depth of each div, in order, if any
  MaxTreeDepth,  \* MAX_TREE_DEPTH
  Models,        \* what the configured summary model may be
  NoParent,
  MaxRuns,       \* bound on the index commands started
  MaxParses      \* bound on the parses and abstracts of one paper

ASSUME PapersAssumption == Papers \subseteq Nat /\ AbstractOnly \subseteq Papers
ASSUME DocumentsAssumption ==
  \A d \in Documents :
    /\ d \in Seq(Nat) /\ (d # <<>> => d[1] = 0)
    /\ \A i \in 2..Len(d) : d[i] <= d[i - 1] + 1
ASSUME DepthAssumption == MaxTreeDepth \in Nat \ {0} /\ NoParent \notin Nat

VARIABLES
  model,     \* the configured summary model
  sections,  \* section
  nodes,     \* tree_node
  parses,    \* paper -> how many parses and abstracts it has had
  builds,    \* how many trees were stored
  runs,      \* how many index commands were started
  ix         \* indexer -> what it is doing

vars == <<model, sections, nodes, parses, builds, runs, ix>>

SectionsOf(p) == {s \in sections : s.paper = p}
NodesOf(p)    == {n \in nodes : n.paper = p}

\* tei_to_sections: a div's parent is the last one before it, one level up.
tei_to_sections(p, parse, doc) ==
  LET above(i) == {j \in 1..(i - 1) : doc[j] = doc[i] - 1}
      parent(i) == IF doc[i] = 0 THEN NoParent
                   ELSE (CHOOSE j \in above(i) : \A k \in above(i) : k <= j) - 1
  IN {[paper |-> p, parse |-> parse, ordinal |-> i - 1, parent |-> parent(i)] : i \in DOMAIN doc}

Abstract(p, parse) == [paper |-> p, parse |-> parse, ordinal |-> 0, parent |-> NoParent]

\* Mutant: a tree whose versions agree is current.
VersionsAgree(p, summary_model) == {n.model : n \in NodesOf(p)} = {summary_model}

\* _paper_tree_is_current: one version, not stale, and as many nodes as
\* sections, or one node for an abstract.
TreeIsCurrent(p, summary_model) ==
  /\ {n.model : n \in NodesOf(p)} = {summary_model}
  /\ Cardinality(NodesOf(p)) = IF p \in AbstractOnly THEN 1 ELSE Cardinality(SectionsOf(p))

\* Mutant: a section that is too deep hangs from its own parent.
KeepParent(s, original, up, above) == s.parent

\* _flattened_parent_id.
FlattenedParent(s, original, up, above) ==
  IF original[s] <= MaxTreeDepth THEN s.parent
  ELSE (CHOOSE t \in above[s] : original[t] = MaxTreeDepth - 1).ordinal

\* A section's node, given where its section hangs.
TreeNode(s, build, summary_model, up, original, above) ==
  [build   |-> build,
   paper   |-> s.paper,
   section |-> s,
   parent  |-> FlattenedParent(s, original, up, above),
   depth   |-> IF original[s] < MaxTreeDepth THEN original[s] ELSE MaxTreeDepth,
   model   |-> summary_model]

\* build_tree: a node for every section loaded.
build_tree(input, build, summary_model) ==
  LET up == [s \in {t \in input : t.parent # NoParent} |->
               CHOOSE t \in input : t.ordinal = s.parent]
      original[s \in input] == IF s.parent = NoParent THEN 0 ELSE original[up[s]] + 1
      above[s \in input] == IF s.parent = NoParent THEN {} ELSE {up[s]} \cup above[up[s]]
  IN {TreeNode(s, build, summary_model, up, original, above) : s \in input}

Idle == [at |-> "idle", model |-> "none", todo |-> {}, input |-> {}, victims |-> {},
         failed |-> 0, undisturbed |-> FALSE]

Init ==
  /\ model \in Models
  /\ \E doc \in [Papers \ AbstractOnly -> Documents] :
       sections = UNION {tei_to_sections(p, 1, doc[p]) : p \in Papers \ AbstractOnly}
  /\ nodes = {}
  /\ parses = [p \in Papers |-> 1]
  /\ builds = 0
  /\ runs = 0
  /\ ix = [w \in Indexers |-> Idle]

-----------------------------------------------------------------------------
(* One index command.                                                      *)

\* A history value: what w sees stays what it left, as long as nobody else
\* writes while it works or after it.
Disturbing(w) ==
  [v \in Indexers |-> IF v = w THEN ix[v] ELSE [ix[v] EXCEPT !.undisturbed = FALSE]]

\* The eligible papers of the scope, and the model configured now.
StartIndex(w) ==
  /\ ix[w].at \in {"idle", "ended"} /\ runs < MaxRuns
  /\ runs' = runs + 1
  /\ ix' = [ix EXCEPT ![w] = [Idle EXCEPT !.at = "check", !.model = model, !.todo = Papers,
                              !.undisturbed = \A v \in Indexers \ {w} : ix[v].at \in {"idle", "ended"}]]
  /\ UNCHANGED <<model, sections, nodes, parses, builds>>

\* Papers are taken in the order of their ids.
Paper(w) == CHOOSE p \in ix[w].todo : \A q \in ix[w].todo : p <= q
Rest(w)  == ix[w].todo \ {Paper(w)}

SkipCurrent(w) ==
  /\ ix[w].at = "check" /\ ix[w].todo # {}
  /\ TreeIsCurrent(Paper(w), ix[w].model)
  /\ ix' = [ix EXCEPT ![w].todo = Rest(w)]
  /\ UNCHANGED <<model, sections, nodes, parses, builds, runs>>

\* _load_paper_input: all sections of a parsed paper, the first Abstract of
\* another, which gets one unless it is found.
LoadPaper(w) ==
  /\ ix[w].at = "check" /\ ix[w].todo # {}
  /\ LET p == Paper(w)
         first == {s \in SectionsOf(p) : \A t \in SectionsOf(p) : s.parse <= t.parse}
     IN /\ ~TreeIsCurrent(p, ix[w].model)
        /\ ix' = IF p \in AbstractOnly /\ first = {}
                 THEN [ix EXCEPT ![w].at = "abstract"]
                 ELSE [ix EXCEPT ![w].at = "summarize",
                                 ![w].input = IF p \in AbstractOnly THEN first ELSE SectionsOf(p)]
  /\ UNCHANGED <<model, sections, nodes, parses, builds, runs>>

\* Its INSERT, after a SELECT that found none; another may have been added.
AddAbstract(w) ==
  /\ ix[w].at = "abstract"
  /\ LET p == Paper(w)
         fresh == Abstract(p, parses[p] + 1)
     IN /\ parses[p] < MaxParses
        /\ sections' = sections \cup {fresh}
        /\ parses' = [parses EXCEPT ![p] = @ + 1]
        /\ ix' = [ix EXCEPT ![w].at = "summarize", ![w].input = {fresh}]
  /\ UNCHANGED <<model, nodes, builds, runs>>

PaperFailed(w) == [ix[w] EXCEPT !.at = "check", !.todo = Rest(w), !.input = {}, !.victims = {},
                                !.failed = @ + 1]

\* The summary call or its answer fails, or there was no section to send.
BuildFails(w) ==
  /\ ix[w].at = "summarize"
  /\ ix' = [ix EXCEPT ![w] = PaperFailed(w)]
  /\ UNCHANGED <<model, sections, nodes, parses, builds, runs>>

\* Mutant: the nodes there are stay.
NoVictims(p) == {}

Victims(p) == NodesOf(p)

\* _persist_tree: the DELETE.
DeleteNodes(w) ==
  /\ ix[w].at = "summarize" /\ ix[w].input # {}
  /\ ix' = [ix EXCEPT ![w].at = "insert", ![w].victims = Victims(Paper(w))]
  /\ UNCHANGED <<model, sections, nodes, parses, builds, runs>>

\* The INSERTs and the commit; they need the sections that were loaded.
StoreTree(w) ==
  /\ ix[w].at = "insert"
  /\ IF ix[w].input \subseteq sections
     THEN /\ builds' = builds + 1
          /\ nodes' = (nodes \ ix[w].victims) \cup build_tree(ix[w].input, builds + 1, ix[w].model)
          /\ ix' = [Disturbing(w) EXCEPT ![w] = [@ EXCEPT !.at = "check", !.todo = Rest(w),
                                                          !.input = {}, !.victims = {}]]
     ELSE /\ ix' = [ix EXCEPT ![w] = PaperFailed(w)]
          /\ UNCHANGED <<builds, nodes>>
  /\ UNCHANGED <<model, sections, parses, runs>>

EndIndex(w) ==
  /\ ix[w].at = "check" /\ ix[w].todo = {}
  /\ ix' = [ix EXCEPT ![w].at = "ended"]
  /\ UNCHANGED <<model, sections, nodes, parses, builds, runs>>

Kill(w) ==
  /\ ix[w].at \in {"check", "abstract", "summarize", "insert"}
  /\ ix' = [ix EXCEPT ![w] = Idle]
  /\ UNCHANGED <<model, sections, nodes, parses, builds, runs>>

IndexStep(w) ==
  \/ StartIndex(w) \/ SkipCurrent(w) \/ LoadPaper(w) \/ AddAbstract(w)
  \/ BuildFails(w) \/ DeleteNodes(w) \/ StoreTree(w) \/ EndIndex(w) \/ Kill(w)

-----------------------------------------------------------------------------
(* Around it.                                                              *)

\* _persist_sections of an ingest run that parsed the paper once more; the
\* nodes of the sections it deletes go with them.
Reparse(p) ==
  /\ parses[p] < MaxParses
  /\ \E doc \in Documents :
       sections' = {s \in sections : s.paper # p} \cup
                     IF p \in AbstractOnly THEN {} ELSE tei_to_sections(p, parses[p] + 1, doc)
  /\ nodes' = {n \in nodes : n.section \in sections'}
  /\ parses' = [parses EXCEPT ![p] = @ + 1]
  /\ ix' = [w \in Indexers |-> [ix[w] EXCEPT !.undisturbed = FALSE]]
  /\ UNCHANGED <<model, builds, runs>>

Reconfigure ==
  /\ \E m \in Models \ {model} : model' = m
  /\ UNCHANGED <<sections, nodes, parses, builds, runs, ix>>

Next ==
  \/ \E w \in Indexers : IndexStep(w)
  \/ \E p \in Papers : Reparse(p)
  \/ Reconfigure

Spec == Init /\ [][Next]_vars

-----------------------------------------------------------------------------
(* Properties.                                                             *)

\* A tree the index command would skip, under whatever model, is whole: each
\* section of a parsed paper has exactly one node and every node has its
\* section, for an abstract the one node stands on a section there is.  The
\* code only counts, while trees are built twice, sections are replaced
\* under a build, and builds die.
SkippedTreesAreWhole ==
  \A p \in Papers, m \in Models :
    TreeIsCurrent(p, m) =>
      /\ {n.section : n \in NodesOf(p)} \subseteq SectionsOf(p)
      /\ p \notin AbstractOnly => {n.section : n \in NodesOf(p)} = SectionsOf(p)
      /\ \A n, k \in NodesOf(p) : n.section = k.section => n = k

\* Each stored build is a tree no deeper than MaxTreeDepth: a node below the
\* roots has its parent in the same build, exactly one level above, inserted
\* before it and taken from its own section's ancestors.
TreeShape ==
  \A n \in nodes :
    /\ n.depth \in 0..MaxTreeDepth
    /\ n.parent = NoParent <=> n.depth = 0
    /\ n.parent # NoParent =>
         \E k \in nodes :
           /\ k.build = n.build /\ k.section.ordinal = n.parent
           /\ k.depth = n.depth - 1 /\ k.section.ordinal < n.section.ordinal
           /\ \/ n.section.parent = k.section.ordinal
              \/ \E j \in nodes : /\ j.build = n.build /\ j.depth = MaxTreeDepth
                                  /\ j.section.ordinal = n.section.parent

\* Repeating an index command that failed for no paper, with nothing written
\* by anyone else since it started and the same model, builds nothing: every
\* paper of the scope has a current tree, however its trees were left before.
RepeatBuildsNothing ==
  \A w \in Indexers :
    ix[w].at = "ended" /\ ix[w].failed = 0 /\ ix[w].undisturbed =>
      \A p \in Papers : TreeIsCurrent(p, ix[w].model)
=============================================================================
