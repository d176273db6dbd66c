------------------------------ MODULE Traversal ------------------------------
(***************************************************************************)
(* traverse: from the papers a shortlist names, walk their section trees   *)
(* under one budget of opened nodes, asking the model about each batch,    *)
(* and write one trace row at the end.  The shortlist, the load of the     *)
(* trees and the trace are three transactions, and the index command may   *)
(* replace a paper's tree between any two of them.                         *)
(*                                                                         *)
(* The rows of tree_node a paper may get are known beforehand: Built(p, b) *)
(* are those of its b-th build.  A model's answer is any well formed one,  *)
(* or a failure, which stands for every answer _validated_judgements       *)
(* refuses and every exception of the call.                                *)
(***************************************************************************)
EXTENDS Integers, Sequences, FiniteSets, SequencesExt

CONSTANTS
  Papers,          \* ids of the scope's papers
  Nodes,           \* ids of tree_node rows, in the order of insertion
  PaperOf,         \* node -> its paper
  ParentOf,        \* node -> its parent, or NoParent
  DepthOf,         \* node -> its depth
  BuildOf,         \* node -> the build of its paper's tree it belongs to
  NoParent,
  ShortlistLimit,  \* SHORTLIST_LIMIT
  Limits,          \* max_nodes a caller may ask for
  Relevances       \* a few of 0..100

ASSUME TreesAssumption ==
  /\ IsFiniteSet(Papers) /\ IsFiniteSet(Nodes)
  /\ Nodes \subseteq Nat /\ NoParent \notin Nodes
  /\ PaperOf \in [Nodes -> Papers]
  /\ BuildOf \in [Nodes -> Nat \ {0}]
  /\ DepthOf \in [Nodes -> Nat]
  /\ ParentOf \in [Nodes -> Nodes \cup {NoParent}]
  /\ \A n \in Nodes :
       IF ParentOf[n] = NoParent THEN DepthOf[n] = 0
       ELSE LET m == ParentOf[n]
            IN /\ m < n /\ DepthOf[n] = DepthOf[m] + 1
               /\ PaperOf[n] = PaperOf[m] /\ BuildOf[n] = BuildOf[m]

ASSUME BoundsAssumption ==
  /\ Papers \subseteq Nat /\ Limits \subseteq Int /\ Relevances \subseteq 0..100
  /\ ShortlistLimit \in Nat \ {0}

VARIABLES
  tree,        \* the rows of tree_node
  builds,      \* paper -> how often its tree has been built
  pc,          \* "shortlist", "load", "loop", "judge", "finish", "done", "failed"
  limit,       \* the budget's limit
  used,        \* the budget's count
  candidates,  \* the papers shortlisted, best first
  loaded,      \* the nodes loaded, by paper, depth and id
  frontier,    \* nodes waiting to be opened
  queued,      \* every node that was ever put on the frontier
  batch,       \* the nodes the model is being asked about
  opened,      \* every judgement, in order
  enough,      \* the model's last sufficient_evidence
  traces       \* retrieval_trace

treeVars == <<tree, builds>>
walkVars == <<pc, limit, used, candidates, loaded, frontier, queued, batch,
              opened, enough, traces>>
traversalVars == <<treeVars, walkVars>>

Built(p, b) == {n \in Nodes : PaperOf[n] = p /\ BuildOf[n] = b}

\* The relevance of a node that is not selected is shown and nothing else.
Judgements ==
  {j \in [relevance : Relevances, selected : BOOLEAN, expand : BOOLEAN] :
     j.selected \/ \A r \in Relevances : j.relevance <= r}

remaining == limit - used
exhausted == remaining = 0

\* The members of S in the order Before; there is one such sequence.
Ordered(S, Before(_, _)) ==
  {s \in SetToSeqs(S) : \A i, j \in DOMAIN s : i < j => Before(s[i], s[j])}

\* The order load_scope_tree sorts by.
LoadedBefore(m, n) ==
  LET rank(k) == CHOOSE i \in DOMAIN candidates : candidates[i] = PaperOf[k]
  IN \/ rank(m) < rank(n)
     \/ rank(m) = rank(n) /\ DepthOf[m] < DepthOf[n]
     \/ rank(m) = rank(n) /\ DepthOf[m] = DepthOf[n] /\ m < n

IsRoot(n, rows) == ParentOf[n] = NoParent \/ ParentOf[n] \notin rows

\* Mutant: children of every opened node are queued.
EveryChild(judged) ==
  {n \in Range(loaded) \ queued : \E i \in DOMAIN judged : ParentOf[n] = judged[i].node}

\* The children to queue, after the batch was judged: those of one parent
\* after those of the parents judged before it.
RequestedChildren(judged) ==
  {n \in Range(loaded) \ queued :
     \E i \in DOMAIN judged : judged[i].expand /\ ParentOf[n] = judged[i].node}

QueuedBefore(judged, m, n) ==
  LET place(k) == CHOOSE i \in DOMAIN judged : judged[i].node = ParentOf[k]
  IN place(m) < place(n) \/ (place(m) = place(n) /\ LoadedBefore(m, n))

ids(judged) == [i \in DOMAIN judged |-> judged[i].node]

\* The places in opened of what is selected, most relevant first and then in
\* the order of expansion.
rankings ==
  Ordered({i \in DOMAIN opened : opened[i].selected},
          LAMBDA i, j : \/ opened[i].relevance > opened[j].relevance
                        \/ opened[i].relevance = opened[j].relevance /\ i < j)

\* Mutant: the budget is looked at before the model's own verdict.
BudgetFirst ==
  IF exhausted THEN "budget_exhausted"
  ELSE IF enough THEN "sufficient_evidence" ELSE "no_candidates"

stopped_reason ==
  IF enough THEN "sufficient_evidence"
  ELSE IF loaded # <<>> /\ exhausted THEN "budget_exhausted" ELSE "no_candidates"

-----------------------------------------------------------------------------
(* One traversal.                                                          *)

TraversalInit ==
  /\ builds \in [Papers -> {0, 1}]
  /\ tree = UNION {Built(p, builds[p]) : p \in Papers}
  /\ pc = "shortlist"
  /\ limit \in Limits
  /\ used = 0
  /\ candidates = <<>>
  /\ loaded = <<>>
  /\ frontier = <<>>
  /\ queued = {}
  /\ batch = <<>>
  /\ opened = <<>>
  /\ enough = FALSE
  /\ traces = <<>>

\* At most ShortlistLimit papers, best first.
Ranked(papers) ==
  UNION {SetToSeqs(some) : some \in {s \in SUBSET papers : Cardinality(s) <= ShortlistLimit}}

\* The full-text backend may name any paper of the scope.
FullTextShortlist == Ranked(Papers)

\* The page index names papers that have a tree.
IndexedPapers  == {PaperOf[n] : n \in {m \in tree : ParentOf[m] = NoParent}}
IndexShortlist == Ranked(IndexedPapers)

Shortlist ==
  /\ pc = "shortlist"
  /\ candidates' \in FullTextShortlist \cup IndexShortlist
  /\ pc' = "load"
  /\ UNCHANGED <<treeVars, limit, used, loaded, frontier, queued, batch, opened, enough, traces>>

\* The model's call, or the answer it gave, fails; nothing is written.
ModelFails ==
  /\ \/ pc = "shortlist" /\ IndexedPapers # {}
     \/ pc = "judge"
  /\ pc' = "failed"
  /\ UNCHANGED <<treeVars, limit, used, candidates, loaded, frontier, queued, batch,
                 opened, enough, traces>>

\* load_scope_tree, and the start of the walk at the roots.
LoadTree ==
  /\ pc = "load"
  /\ LET rows  == {n \in tree : PaperOf[n] \in Range(candidates)}
         roots == {n \in rows : IsRoot(n, rows)}
     IN /\ loaded' \in Ordered(rows, LoadedBefore)
        /\ pc' = IF rows = {} THEN "finish" ELSE IF limit < 1 THEN "failed" ELSE "loop"
        /\ frontier' \in Ordered(roots, LoadedBefore)
        /\ queued' = roots
  /\ UNCHANGED <<treeVars, limit, used, candidates, batch, opened, enough, traces>>

\* Mutant: the budget does not cut the batch.
OpenWholeFrontier ==
  /\ pc = "loop"
  /\ frontier # <<>> /\ ~exhausted
  /\ batch' = frontier
  /\ frontier' = <<>>
  /\ used' = used + Len(frontier)
  /\ pc' = "judge"
  /\ UNCHANGED <<treeVars, limit, candidates, loaded, queued, opened, enough, traces>>

\* The head of the loop: take a batch and spend the budget on it.
OpenBatch ==
  /\ pc = "loop"
  /\ frontier # <<>> /\ ~exhausted
  /\ LET size == IF remaining < Len(frontier) THEN remaining ELSE Len(frontier)
     IN /\ batch' = SubSeq(frontier, 1, size)
        /\ frontier' = SubSeq(frontier, size + 1, Len(frontier))
        /\ used' = used + size
  /\ pc' = "judge"
  /\ UNCHANGED <<treeVars, limit, candidates, loaded, queued, opened, enough, traces>>

\* The model judges every node of the batch.
Judge ==
  /\ pc = "judge"
  /\ \E verdicts \in [DOMAIN batch -> Judgements], stop \in BOOLEAN :
       LET judged   == [i \in DOMAIN batch |-> [node      |-> batch[i],
                                                relevance |-> verdicts[i].relevance,
                                                selected  |-> verdicts[i].selected,
                                                expand    |-> verdicts[i].expand]]
           children == RequestedChildren(judged)
       IN /\ opened' = opened \o judged
          /\ enough' = stop
          /\ IF stop
             THEN pc' = "finish" /\ UNCHANGED <<frontier, queued>>
             ELSE /\ pc' = "loop"
                  /\ \E next \in Ordered(children, LAMBDA m, n : QueuedBefore(judged, m, n)) :
                       frontier' = frontier \o next
                  /\ queued' = queued \cup children
  /\ batch' = <<>>
  /\ UNCHANGED <<treeVars, limit, used, candidates, loaded, traces>>

\* Mutant: the loop only ends when nothing waits.
LeaveLoopWhenEmpty ==
  /\ pc = "loop"
  /\ frontier = <<>>
  /\ pc' = "finish"
  /\ UNCHANGED <<treeVars, limit, used, candidates, loaded, frontier, queued, batch,
                 opened, enough, traces>>

LeaveLoop ==
  /\ pc = "loop"
  /\ frontier = <<>> \/ exhausted
  /\ pc' = "finish"
  /\ UNCHANGED <<treeVars, limit, used, candidates, loaded, frontier, queued, batch,
                 opened, enough, traces>>

\* _finish: the trace row, in a transaction of its own.
WriteTrace ==
  /\ pc = "finish"
  /\ \E order \in rankings :
       traces' = Append(traces, [expanded_node_ids |-> ids(opened),
                                 selected_node_ids |-> ids([k \in DOMAIN order |-> opened[order[k]]]),
                                 stopped_reason    |-> stopped_reason])
  /\ pc' = "done"
  /\ UNCHANGED <<treeVars, limit, used, candidates, loaded, frontier, queued, batch,
                 opened, enough>>

TraversalStep ==
  \/ Shortlist \/ ModelFails \/ LoadTree
  \/ OpenBatch \/ Judge \/ LeaveLoop \/ WriteTrace

-----------------------------------------------------------------------------
(* Another process.                                                        *)

\* _persist_tree of a paper.
Rebuild(p) ==
  /\ Built(p, builds[p] + 1) # {}
  /\ builds' = [builds EXCEPT ![p] = @ + 1]
  /\ tree' = {n \in tree : PaperOf[n] # p} \cup Built(p, builds[p] + 1)

\* A new parse replaces the sections of a paper, and its nodes go with them.
DropTree(p) ==
  /\ \E n \in tree : PaperOf[n] = p
  /\ tree' = {n \in tree : PaperOf[n] # p}
  /\ UNCHANGED builds

-----------------------------------------------------------------------------
(* Properties.                                                             *)

\* Whatever the model answers, no more nodes are opened than the caller
\* allowed, over all papers and batches, and no node is opened twice: the
\* batch in flight and the judged nodes are what the budget has counted.
BudgetIsKept ==
  /\ used = Len(opened) + Len(batch)
  /\ used > 0 => used <= limit
  /\ IsInjective(ids(opened) \o batch)

\* A node is opened only as a root of a shortlisted paper or because the
\* model asked for its parent's children earlier on.
OpenedOnRequest ==
  \A i \in DOMAIN opened :
    LET n == opened[i].node
    IN /\ PaperOf[n] \in Range(candidates)
       /\ \/ ParentOf[n] = NoParent
          \/ \E j \in 1..(i - 1) : opened[j].node = ParentOf[n] /\ opened[j].expand

\* A finished traversal has one trace, a failed one none.  The trace lists
\* what was opened, selects from it with the most relevant first, and its
\* reason is true: enough evidence was reported, or the budget was spent, or
\* nothing that was asked for remained unopened.
TraceIsTrue ==
  /\ Len(traces) = IF pc = "done" THEN 1 ELSE 0
  /\ \A k \in DOMAIN traces :
       LET t == traces[k]
           judged(n) == CHOOSE o \in Range(opened) : o.node = n
           wanted == {n \in Range(loaded) :
                        \E o \in Range(opened) : o.node = ParentOf[n] /\ o.expand}
       IN /\ t.expanded_node_ids = ids(opened)
          /\ Range(t.selected_node_ids) = {o.node : o \in {x \in Range(opened) : x.selected}}
          /\ \A i, j \in DOMAIN t.selected_node_ids : i < j =>
               judged(t.selected_node_ids[i]).relevance >= judged(t.selected_node_ids[j]).relevance
          /\ CASE t.stopped_reason = "sufficient_evidence" -> enough
               [] t.stopped_reason = "budget_exhausted"    -> ~enough /\ Len(opened) = limit
               [] t.stopped_reason = "no_candidates"       ->
                    /\ ~enough
                    /\ (opened # <<>> => Len(opened) < limit)
                    /\ wanted \subseteq Range(ids(opened))
=============================================================================
