-------------------------- MODULE AnsweringProofs --------------------------
(***************************************************************************)
(* Proofs about the traversal and the two requests that use it, for every  *)
(* set of papers and trees, every limit and every answer of the model: the *)
(* budget is kept and no node is opened twice or unasked, the trace tells  *)
(* the truth, an answer cites what the trace selects, and a linked claim   *)
(* has the evidence of its links.                                          *)
(***************************************************************************)
EXTENDS Answering, SequenceTheorems, FiniteSetTheorems, TLAPS

Opening == [node : Nodes, relevance : Relevances, selected : BOOLEAN, expand : BOOLEAN]

\* All that was put on the frontier, in the order it was: judged, in flight,
\* and waiting.
walked == ids(opened) \o batch \o frontier

-----------------------------------------------------------------------------
(* Sequences.                                                              *)

\* A sequence of SetToSeqs lists the set, each member once.
LEMMA ListingProperties ==
  ASSUME NEW S, IsFiniteSet(S), NEW s \in SetToSeqs(S)
  PROVE  /\ s \in Seq(S) /\ Len(s) = Cardinality(S)
         /\ IsInjective(s) /\ Range(s) = S
<1>1. Cardinality(S) \in Nat
  BY FS_CardinalityType
<1>. DEFINE D == 1..Cardinality(S)
<1>2. s \in [D -> S] /\ \A i, j \in D : i # j => s[i] # s[j]
  BY DEF SetToSeqs
<1>3. s \in Seq(S) /\ Len(s) = Cardinality(S) /\ DOMAIN s = D
  BY <1>1, <1>2
<1>4. IsInjective(s)
  BY <1>2, <1>3 DEF IsInjective
<1>5. IsFiniteSet(D) /\ Cardinality(D) = Cardinality(S)
  BY <1>1, FS_Interval, 1 \in Int, Cardinality(S) \in Int
<1>. HIDE DEF D
<1>6. s \in Injection(D, S)
  BY <1>2, <1>4 DEF Injection
<1>7. s \in Surjection(D, S)
  BY <1>5, <1>6, FS_Injection
<1>8. Range(s) = S
  BY <1>7, <1>3, <1>2 DEF Surjection, Range
<1>. QED BY <1>3, <1>4, <1>8

LEMMA OrderedIsListing ==
  ASSUME NEW S, NEW Before(_, _), NEW s \in Ordered(S, Before)
  PROVE  s \in SetToSeqs(S)
BY DEF Ordered

LEMMA InjectiveConcat ==
  ASSUME NEW S, NEW s \in Seq(S), NEW t \in Seq(S), IsInjective(s), IsInjective(t),
         Range(s) \cap Range(t) = {}
  PROVE  IsInjective(s \o t)
<1>1. /\ s \o t \in Seq(S) /\ Len(s \o t) = Len(s) + Len(t)
      /\ \A i \in 1..(Len(s) + Len(t)) :
           (s \o t)[i] = IF i <= Len(s) THEN s[i] ELSE t[i - Len(s)]
  BY ConcatProperties
<1>2. Len(s) \in Nat /\ Len(t) \in Nat /\ DOMAIN s = 1..Len(s) /\ DOMAIN t = 1..Len(t)
  OBVIOUS
<1>. SUFFICES ASSUME NEW i \in 1..(Len(s) + Len(t)), NEW j \in 1..(Len(s) + Len(t)),
                     (s \o t)[i] = (s \o t)[j]
              PROVE  i = j
  BY <1>1 DEF IsInjective
<1>3. CASE i <= Len(s) /\ j <= Len(s)
  BY <1>1, <1>2, <1>3 DEF IsInjective
<1>4. CASE i > Len(s) /\ j > Len(s)
  <2>1. i - Len(s) \in DOMAIN t /\ j - Len(s) \in DOMAIN t
    BY <1>2, <1>4
  <2>2. t[i - Len(s)] = t[j - Len(s)]
    BY <1>1, <1>4
  <2>3. i - Len(s) = j - Len(s)
    BY <2>1, <2>2 DEF IsInjective
  <2>. QED BY <2>3, <1>2
<1>5. CASE i <= Len(s) /\ j > Len(s)
  <2>1. i \in DOMAIN s /\ j - Len(s) \in DOMAIN t /\ s[i] = t[j - Len(s)]
    BY <1>1, <1>2, <1>5
  <2>. QED BY <2>1 DEF Range
<1>6. CASE i > Len(s) /\ j <= Len(s)
  <2>1. j \in DOMAIN s /\ i - Len(s) \in DOMAIN t /\ s[j] = t[i - Len(s)]
    BY <1>1, <1>2, <1>6
  <2>. QED BY <2>1 DEF Range
<1>. QED BY <1>2, <1>3, <1>4, <1>5, <1>6

LEMMA IdsProperties ==
  ASSUME NEW s \in Seq(Opening)
  PROVE  /\ ids(s) \in Seq(Nodes) /\ Len(ids(s)) = Len(s)
         /\ \A i \in 1..Len(s) : ids(s)[i] = s[i].node
<1>1. \A i \in 1..Len(s) : s[i] \in Opening
  OBVIOUS
<1>2. \A i \in 1..Len(s) : s[i].node \in Nodes
  BY <1>1 DEF Opening
<1>3. ids(s) = [i \in 1..Len(s) |-> s[i].node] /\ Len(s) \in Nat /\ DOMAIN s = 1..Len(s)
  BY DEF ids
<1>. QED BY <1>2, <1>3

LEMMA IdsConcat ==
  ASSUME NEW s \in Seq(Opening), NEW t \in Seq(Opening)
  PROVE  ids(s \o t) = ids(s) \o ids(t)
<1>. DEFINE a == ids(s)
            b == ids(t)
            c == ids(s \o t)
<1>1. s \o t \in Seq(Opening) /\ Len(s \o t) = Len(s) + Len(t)
      /\ \A i \in 1..(Len(s) + Len(t)) :
           (s \o t)[i] = IF i <= Len(s) THEN s[i] ELSE t[i - Len(s)]
  BY ConcatProperties
<1>2. /\ a \in Seq(Nodes) /\ Len(a) = Len(s) /\ b \in Seq(Nodes) /\ Len(b) = Len(t)
      /\ c \in Seq(Nodes) /\ Len(c) = Len(s) + Len(t)
      /\ \A i \in 1..Len(s) : a[i] = s[i].node
      /\ \A i \in 1..Len(t) : b[i] = t[i].node
      /\ \A i \in 1..(Len(s) + Len(t)) : c[i] = (s \o t)[i].node
  <2>1. a \in Seq(Nodes) /\ Len(a) = Len(s) /\ \A i \in 1..Len(s) : a[i] = s[i].node
    BY IdsProperties
  <2>2. b \in Seq(Nodes) /\ Len(b) = Len(t) /\ \A i \in 1..Len(t) : b[i] = t[i].node
    BY IdsProperties
  <2>3. c \in Seq(Nodes) /\ Len(c) = Len(s \o t)
        /\ \A i \in 1..Len(s \o t) : c[i] = (s \o t)[i].node
    BY <1>1, IdsProperties
  <2>. HIDE DEF a, b, c
  <2>. QED BY <1>1, <2>1, <2>2, <2>3
<1>. HIDE DEF a, b, c
<1>3. a \o b \in Seq(Nodes) /\ Len(a \o b) = Len(s) + Len(t)
      /\ \A i \in 1..(Len(s) + Len(t)) :
           (a \o b)[i] = IF i <= Len(s) THEN a[i] ELSE b[i - Len(s)]
  BY <1>2, ConcatProperties
<1>4. Len(s) \in Nat /\ Len(t) \in Nat
  OBVIOUS
<1>5. ASSUME NEW i \in 1..(Len(s) + Len(t)) PROVE c[i] = (a \o b)[i]
  <2>1. CASE i <= Len(s)
    <3>1. i \in 1..Len(s)
      BY <1>4, <2>1
    <3>2. (s \o t)[i] = s[i] /\ (a \o b)[i] = a[i]
      BY <1>1, <1>3, <2>1
    <3>. QED BY <1>2, <3>1, <3>2
  <2>2. CASE i > Len(s)
    <3>1. i - Len(s) \in 1..Len(t) /\ ~(i <= Len(s))
      BY <1>4, <2>2
    <3>2. (s \o t)[i] = t[i - Len(s)] /\ (a \o b)[i] = b[i - Len(s)]
      BY <1>1, <1>3, <3>1
    <3>. QED BY <1>2, <3>1, <3>2
  <2>3. i <= Len(s) \/ i > Len(s)
    BY <1>4
  <2>. QED BY <2>1, <2>2, <2>3, Zenon
<1>6. c = a \o b
  BY <1>2, <1>3, <1>5, SeqEqual
<1>. QED BY <1>6 DEF a, b, c

-----------------------------------------------------------------------------
(* The invariant of the walk.                                              *)

WalkTypes ==
  /\ tree \subseteq Nodes
  /\ limit \in Int /\ used \in Nat
  /\ candidates \in Seq(Papers) /\ loaded \in Seq(Nodes)
  /\ frontier \in Seq(Nodes) /\ batch \in Seq(Nodes) /\ opened \in Seq(Opening)

\* A tree is replaced as a whole: no node is without its parent.
TreeClosed == \A n \in tree : ParentOf[n] # NoParent => ParentOf[n] \in tree

\* Nothing is put on the frontier twice.
QueuedOnce == IsInjective(walked) /\ Range(walked) = queued /\ queued \subseteq Range(loaded)

Asked(n) == \E i \in DOMAIN opened : opened[i].node = ParentOf[n] /\ opened[i].expand

\* What is on the frontier was asked for, and as long as the model wants more,
\* what was asked for is on the frontier.
QueuedIsAsked ==
  /\ \A n \in queued : PaperOf[n] \in Range(candidates) /\ (ParentOf[n] = NoParent \/ Asked(n))
  /\ ~enough => \A n \in Range(loaded) : Asked(n) => n \in queued

Spent == used = Len(opened) + Len(batch) /\ (used > 0 => used <= limit)

\* What is known at each place of the walk.
Places ==
  /\ pc \in {"shortlist", "load"} =>
       /\ opened = <<>> /\ batch = <<>> /\ frontier = <<>> /\ loaded = <<>>
       /\ queued = {} /\ used = 0 /\ ~enough
  /\ pc \in {"loop", "judge"} => used <= limit /\ ~enough
  /\ pc \notin {"judge", "failed"} => batch = <<>>
  /\ pc \in {"finish", "done"} /\ ~enough => frontier = <<>> \/ exhausted
  /\ pc # "done" => traces = <<>>

WalkInv ==
  /\ WalkTypes /\ TreeClosed /\ QueuedOnce /\ QueuedIsAsked /\ Spent /\ Places
  /\ OpenedOnRequest /\ TraceIsTrue

-----------------------------------------------------------------------------
(* Trees.                                                                  *)

\* A build of a tree has the parents of its nodes.
LEMMA BuiltIsClosed ==
  ASSUME NEW p, NEW b, NEW n \in Built(p, b)
  PROVE  n \in Nodes /\ PaperOf[n] = p /\ (ParentOf[n] # NoParent => ParentOf[n] \in Built(p, b))
<1>1. n \in Nodes /\ PaperOf[n] = p /\ BuildOf[n] = b
  BY DEF Built
<1>2. CASE ParentOf[n] # NoParent
  <2>1. ParentOf[n] \in Nodes /\ PaperOf[n] = PaperOf[ParentOf[n]]
        /\ BuildOf[n] = BuildOf[ParentOf[n]]
    BY <1>1, <1>2, TreesAssumption
  <2>. QED BY <1>1, <2>1 DEF Built
<1>. QED BY <1>1, <1>2

LEMMA IndexingKeepsTrees ==
  ASSUME tree \subseteq Nodes, TreeClosed, Indexing
  PROVE  tree' \subseteq Nodes /\ TreeClosed'
<1>1. PICK p \in Papers : Rebuild(p) \/ DropTree(p)
  BY DEF Indexing
<1>2. \A n \in tree : ParentOf[n] # NoParent => PaperOf[ParentOf[n]] = PaperOf[n]
  BY TreesAssumption
<1>3. CASE Rebuild(p)
  BY <1>2, <1>3, BuiltIsClosed DEF Rebuild, TreeClosed
<1>4. CASE DropTree(p)
  BY <1>2, <1>4 DEF DropTree, TreeClosed
<1>. QED BY <1>1, <1>3, <1>4

-----------------------------------------------------------------------------
(* Steps of the walk.                                                      *)

LEMMA InitWalk == Init => WalkInv
<1>. SUFFICES ASSUME Init PROVE WalkInv
  OBVIOUS
<1>. USE DEF Init, TraversalInit
<1>1. tree \subseteq Nodes /\ TreeClosed
  <2>1. ASSUME NEW n \in tree
        PROVE  n \in Nodes /\ (ParentOf[n] # NoParent => ParentOf[n] \in tree)
    <3>1. PICK p \in Papers : n \in Built(p, builds[p])
      BY <2>1
    <3>. QED BY <3>1, BuiltIsClosed
  <2>. QED BY <2>1 DEF TreeClosed
<1>2. WalkTypes
  BY <1>1, BoundsAssumption DEF WalkTypes
<1>3. walked = <<>>
  BY DEF walked, ids
<1>4. QueuedOnce
  BY <1>3 DEF QueuedOnce, IsInjective, Range
<1>5. QueuedIsAsked
  BY DEF QueuedIsAsked, Range
<1>6. Spent /\ Places /\ OpenedOnRequest /\ TraceIsTrue
  BY DEF Spent, Places, OpenedOnRequest, TraceIsTrue
<1>. QED BY <1>1, <1>2, <1>4, <1>5, <1>6 DEF WalkInv

\* Before there is a trace, nothing is said of it.
LEMMA NoTraceYet ==
  ASSUME pc' # "done", traces' = <<>>
  PROVE  TraceIsTrue'
BY DEF TraceIsTrue

\* Steps that only go from place to place.
LEMMA WalkGoesOn ==
  ASSUME WalkInv, UNCHANGED <<tree, limit, used, candidates, loaded, frontier, queued, batch,
                              opened, enough, traces>>,
         Places', pc' # "done"
  PROVE  WalkInv'
<1>1. UNCHANGED walked
  BY DEF walked, ids
<1>2. TraceIsTrue'
  BY NoTraceYet DEF Places
<1>. QED BY <1>1, <1>2 DEF WalkInv, WalkTypes, TreeClosed, QueuedOnce, QueuedIsAsked, Asked, Spent,
         OpenedOnRequest

LEMMA ModelFailsWalk ==
  ASSUME WalkInv, ModelFails
  PROVE  WalkInv'
<1>1. Places'
  BY DEF ModelFails, WalkInv, Places
<1>. QED BY <1>1, WalkGoesOn DEF ModelFails, treeVars

LEMMA LeaveLoopWalk ==
  ASSUME WalkInv, LeaveLoop
  PROVE  WalkInv'
<1>1. Places'
  BY DEF LeaveLoop, WalkInv, Places, exhausted, remaining
<1>. QED BY <1>1, WalkGoesOn DEF LeaveLoop, treeVars

\* Only papers of the scope are shortlisted.
LEMMA ShortlistWalk ==
  ASSUME WalkInv, Shortlist
  PROVE  WalkInv'
<1>1. IndexedPapers \subseteq Papers
  BY TreesAssumption DEF IndexedPapers, WalkInv, WalkTypes
<1>2. PICK papers \in SUBSET Papers : candidates' \in SetToSeqs(papers)
  BY <1>1 DEF Shortlist, FullTextShortlist, IndexShortlist, Ranked
<1>3. candidates' \in Seq(Papers)
  BY <1>2, ListingProperties, FS_Subset, SeqMonotonic, TreesAssumption
<1>4. UNCHANGED walked
  BY DEF Shortlist, walked, ids
<1>5. pc = "shortlist" /\ pc' = "load" /\ UNCHANGED <<treeVars, limit, used, loaded, frontier,
         queued, batch, opened, enough, traces>>
  BY DEF Shortlist
<1>6. TraceIsTrue' /\ Places'
  BY <1>5, NoTraceYet DEF WalkInv, Places
<1>. QED BY <1>3, <1>4, <1>5, <1>6 DEF WalkInv, WalkTypes, TreeClosed, QueuedOnce, QueuedIsAsked, Asked,
         Spent, Places, OpenedOnRequest, treeVars

\* The walk starts at the roots of whole trees.
LEMMA LoadTreeWalk ==
  ASSUME WalkInv, LoadTree
  PROVE  WalkInv'
<1>. DEFINE rows  == {n \in tree : PaperOf[n] \in Range(candidates)}
            roots == {n \in rows : IsRoot(n, rows)}
<1>1. /\ pc = "load" /\ UNCHANGED <<treeVars, limit, used, candidates, batch, opened, enough, traces>>
      /\ opened = <<>> /\ batch = <<>> /\ used = 0 /\ ~enough /\ traces = <<>>
      /\ queued' = roots
      /\ pc' = IF rows = {} THEN "finish" ELSE IF limit < 1 THEN "failed" ELSE "loop"
  BY DEF LoadTree, WalkInv, Places
<1>2. IsFiniteSet(rows) /\ IsFiniteSet(roots) /\ rows \subseteq Nodes
  BY FS_Subset, TreesAssumption DEF WalkInv, WalkTypes
<1>3. loaded' \in SetToSeqs(rows) /\ frontier' \in SetToSeqs(roots)
  BY OrderedIsListing DEF LoadTree
<1>4. roots \subseteq rows /\ \A n \in roots : ParentOf[n] = NoParent /\ PaperOf[n] \in Range(candidates)
  BY TreesAssumption DEF IsRoot, WalkInv, WalkTypes, TreeClosed
<1>. HIDE DEF rows, roots
<1>5. /\ loaded' \in Seq(Nodes) /\ Range(loaded') = rows
      /\ frontier' \in Seq(Nodes) /\ IsInjective(frontier') /\ Range(frontier') = roots
      /\ Len(frontier') = Cardinality(roots)
  <2>1. loaded' \in Seq(rows) /\ Range(loaded') = rows
    BY <1>2, <1>3, ListingProperties
  <2>2. frontier' \in Seq(roots) /\ IsInjective(frontier') /\ Range(frontier') = roots
        /\ Len(frontier') = Cardinality(roots)
    BY <1>2, <1>3, ListingProperties
  <2>. QED BY <1>2, <1>4, <2>1, <2>2, SeqMonotonic
<1>6. walked' = frontier'
  <2>1. ids(<<>>) = <<>>
    BY DEF ids
  <2>. QED BY <1>1, <1>5, <2>1, ConcatEmptySeq DEF walked
<1>7. QueuedOnce'
  BY <1>1, <1>4, <1>5, <1>6 DEF QueuedOnce
<1>8. QueuedIsAsked'
  BY <1>1, <1>4 DEF QueuedIsAsked, Asked
<1>9. WalkTypes' /\ TreeClosed' /\ Spent' /\ OpenedOnRequest'
  BY <1>1, <1>5 DEF WalkInv, WalkTypes, TreeClosed, Spent, OpenedOnRequest, treeVars
<1>10. Places'
  <2>1. rows = {} => frontier' = <<>>
    <3>1. rows = {} => Len(frontier') = 0
      BY <1>4, <1>5, FS_EmptySet
    <3>. QED BY <1>5, <3>1
  <2>. QED BY <1>1, <2>1 DEF WalkInv, WalkTypes, Places
<1>11. TraceIsTrue'
  BY <1>1, NoTraceYet
<1>. QED BY <1>7, <1>8, <1>9, <1>10, <1>11 DEF WalkInv

\* The head of the frontier becomes the batch: nothing is lost or doubled.
LEMMA OpenBatchWalk ==
  ASSUME WalkInv, OpenBatch
  PROVE  WalkInv'
<1>. DEFINE size == IF remaining < Len(frontier) THEN remaining ELSE Len(frontier)
<1>1. /\ pc = "loop" /\ frontier # <<>> /\ ~exhausted /\ pc' = "judge"
      /\ UNCHANGED <<treeVars, limit, candidates, loaded, queued, opened, enough, traces>>
      /\ batch' = SubSeq(frontier, 1, size) /\ frontier' = SubSeq(frontier, size + 1, Len(frontier))
      /\ used' = used + size
  BY DEF OpenBatch
<1>2. /\ batch = <<>> /\ used <= limit /\ ~enough /\ traces = <<>>
      /\ used \in Nat /\ limit \in Int /\ frontier \in Seq(Nodes) /\ Len(frontier) \in Nat
  BY <1>1 DEF WalkInv, WalkTypes, Places
<1>3. size \in 0..Len(frontier) /\ used + size <= limit
  BY <1>1, <1>2 DEF exhausted, remaining
<1>. HIDE DEF size
<1>4. /\ batch' \in Seq(Nodes) /\ Len(batch') = size
      /\ frontier' \in Seq(Nodes) /\ frontier = batch' \o frontier'
  <2>1. batch' \in Seq(Nodes) /\ Len(batch') = size
    BY <1>1, <1>2, <1>3, SubSeqProperties
  <2>2. frontier' \in Seq(Nodes)
    BY <1>1, <1>2, <1>3, SubSeqProperties
  <2>3. SubSeq(frontier, 1, size) \o SubSeq(frontier, size + 1, Len(frontier))
        = SubSeq(frontier, 1, Len(frontier))
    <3>1. /\ 1 \in 1..(Len(frontier) + 1) /\ size \in (1 - 1)..Len(frontier)
          /\ Len(frontier) \in size..Len(frontier)
      BY <1>2, <1>3
    <3>. QED BY <1>2, <3>1, ConcatAdjacentSubSeq
  <2>4. SubSeq(frontier, 1, Len(frontier)) = frontier
    BY <1>2, SubSeqFull
  <2>. QED BY <1>1, <2>1, <2>2, <2>3, <2>4
<1>5. walked' = walked
  <2>1. ids(opened) \in Seq(Nodes)
    BY IdsProperties DEF WalkInv, WalkTypes
  <2>2. walked = ids(opened) \o frontier
    BY <1>2, <2>1, ConcatEmptySeq DEF walked
  <2>3. walked' = (ids(opened) \o batch') \o frontier'
    BY <1>1 DEF walked
  <2>. QED BY <1>4, <2>1, <2>2, <2>3, ConcatAssociative
<1>6. Spent'
  BY <1>1, <1>2, <1>3, <1>4 DEF WalkInv, Spent
<1>7. WalkTypes' /\ TreeClosed'
  <2>1. used' \in Nat
    BY <1>1, <1>2, <1>3
  <2>2. UNCHANGED tree
    BY <1>1 DEF treeVars
  <2>. QED BY <1>1, <1>4, <2>1, <2>2 DEF WalkInv, WalkTypes, TreeClosed
<1>9. QueuedOnce'
  BY <1>1, <1>5 DEF WalkInv, QueuedOnce
<1>10. QueuedIsAsked' /\ OpenedOnRequest'
  BY <1>1 DEF WalkInv, QueuedIsAsked, Asked, OpenedOnRequest
<1>8. Places' /\ TraceIsTrue'
  BY <1>1, <1>2, <1>3, NoTraceYet DEF Places
<1>. QED BY <1>6, <1>7, <1>8, <1>9, <1>10 DEF WalkInv

LEMMA InjectivePrefix ==
  ASSUME NEW S, NEW s \in Seq(S), NEW t \in Seq(S), IsInjective(s \o t)
  PROVE  IsInjective(s)
<1>1. /\ Len(s \o t) = Len(s) + Len(t) /\ s \o t \in Seq(S)
      /\ \A i \in 1..(Len(s) + Len(t)) :
           (s \o t)[i] = IF i <= Len(s) THEN s[i] ELSE t[i - Len(s)]
  BY ConcatProperties
<1>2. Len(s) \in Nat /\ Len(t) \in Nat /\ DOMAIN s = 1..Len(s)
      /\ DOMAIN (s \o t) = 1..(Len(s) + Len(t))
  BY <1>1
<1>. SUFFICES ASSUME NEW i \in 1..Len(s), NEW j \in 1..Len(s), s[i] = s[j]
              PROVE  i = j
  BY <1>2 DEF IsInjective
<1>3. (s \o t)[i] = s[i] /\ (s \o t)[j] = s[j] /\ i \in DOMAIN (s \o t) /\ j \in DOMAIN (s \o t)
  BY <1>1, <1>2
<1>. QED BY <1>3 DEF IsInjective

\* The model judges the batch: what it asks for is queued, and nothing else.
LEMMA JudgeWalk ==
  ASSUME WalkInv, Judge
  PROVE  WalkInv'
<1>1. /\ pc = "judge" /\ batch' = <<>>
      /\ UNCHANGED <<treeVars, limit, used, candidates, loaded, traces>>
  BY DEF Judge
<1>2. PICK verdicts \in [DOMAIN batch -> Judgements], stop \in BOOLEAN :
        LET judged   == [i \in DOMAIN batch |-> [node      |-> batch[i],
                                                 relevance |-> verdicts[i].relevance,
                                                 selected  |-> verdicts[i].selected,
                                                 expand    |-> verdicts[i].expand]]
            children == RequestedChildren(judged)
        IN /\ opened' = opened \o judged
           /\ enough' = stop
           /\ IF stop
              THEN pc' = "finish" /\ UNCHANGED <<frontier, queued>>
              ELSE /\ pc' = "loop"
                   /\ \E next \in Ordered(children, LAMBDA m, n : QueuedBefore(judged, m, n)) :
                        frontier' = frontier \o next
                   /\ queued' = queued \cup children
  BY DEF Judge
<1>. DEFINE judged   == [i \in DOMAIN batch |-> [node      |-> batch[i],
                                                 relevance |-> verdicts[i].relevance,
                                                 selected  |-> verdicts[i].selected,
                                                 expand    |-> verdicts[i].expand]]
            children == RequestedChildren(judged)
<1>3. /\ opened' = opened \o judged /\ enough' = stop
      /\ stop => pc' = "finish" /\ UNCHANGED <<frontier, queued>>
      /\ ~stop => pc' = "loop" /\ queued' = queued \cup children
  BY <1>2
<1>4. ~stop => \E next \in SetToSeqs(children) : frontier' = frontier \o next
  BY <1>2 DEF Ordered
<1>5. /\ tree \subseteq Nodes /\ opened \in Seq(Opening) /\ batch \in Seq(Nodes)
      /\ frontier \in Seq(Nodes) /\ loaded \in Seq(Nodes) /\ used \in Nat /\ limit \in Int
      /\ used <= limit /\ ~enough /\ traces = <<>>
  BY <1>1 DEF WalkInv, WalkTypes, Places
<1>6. judged \in Seq(Opening) /\ Len(judged) = Len(batch)
      /\ \A i \in 1..Len(batch) : judged[i].node = batch[i]
  <2>1. Len(batch) \in Nat /\ DOMAIN batch = 1..Len(batch)
    BY <1>5
  <2>2. ASSUME NEW i \in 1..Len(batch)
        PROVE  [node      |-> batch[i],
                relevance |-> verdicts[i].relevance,
                selected  |-> verdicts[i].selected,
                expand    |-> verdicts[i].expand] \in Opening
    <3>1. batch[i] \in Nodes
      BY <1>5
    <3>2. verdicts[i] \in [relevance : Relevances, selected : BOOLEAN, expand : BOOLEAN]
      BY <2>1 DEF Judgements
    <3>. QED BY <3>1, <3>2 DEF Opening
  <2>3. judged \in [1..Len(batch) -> Opening]
    BY <2>1, <2>2
  <2>. QED BY <2>1, <2>3
<1>7. children \subseteq Range(loaded) /\ children \cap queued = {}
      /\ \A n \in Range(loaded) : n \in children <=>
           n \notin queued /\ \E i \in DOMAIN judged : judged[i].expand /\ ParentOf[n] = judged[i].node
  BY DEF RequestedChildren
<1>. HIDE DEF judged, children
<1>8. ids(judged) = batch
  <2>1. ids(judged) \in Seq(Nodes) /\ Len(ids(judged)) = Len(judged)
        /\ \A i \in 1..Len(judged) : ids(judged)[i] = judged[i].node
    BY <1>6, IdsProperties
  <2>. DEFINE a == ids(judged)
  <2>2. a \in Seq(Nodes) /\ Len(a) = Len(batch) /\ \A i \in 1..Len(batch) : a[i] = batch[i]
    BY <1>6, <2>1
  <2>. HIDE DEF a
  <2>3. a = batch
    BY <1>5, <2>2, SeqEqual
  <2>. QED BY <2>3 DEF a
<1>9. /\ opened' \in Seq(Opening) /\ Len(opened') = Len(opened) + Len(batch)
      /\ \A i \in 1..(Len(opened) + Len(batch)) :
           opened'[i] = IF i <= Len(opened) THEN opened[i] ELSE judged[i - Len(opened)]
  <2>1. opened \in Seq(Opening) /\ judged \in Seq(Opening) /\ Len(judged) = Len(batch)
    BY <1>5, <1>6
  <2>2. /\ opened \o judged \in Seq(Opening) /\ Len(opened \o judged) = Len(opened) + Len(judged)
        /\ \A i \in 1..(Len(opened) + Len(judged)) :
             (opened \o judged)[i] = IF i <= Len(opened) THEN opened[i] ELSE judged[i - Len(opened)]
    BY <2>1, ConcatProperties
  <2>3. opened' = opened \o judged
    BY <1>3
  <2>. QED BY <2>1, <2>2, <2>3
<1>10. ids(opened') = ids(opened) \o batch /\ ids(opened) \in Seq(Nodes)
  BY <1>3, <1>5, <1>6, <1>8, IdsConcat, IdsProperties
<1>11. ids(opened') \o batch' = ids(opened) \o batch /\ ids(opened) \o batch \in Seq(Nodes)
  <2>1. ids(opened) \o batch \in Seq(Nodes)
    BY <1>5, <1>10, ConcatProperties
  <2>. QED BY <1>1, <1>10, <2>1, ConcatEmptySeq
<1>12. walked' = (ids(opened) \o batch) \o frontier' /\ walked = (ids(opened) \o batch) \o frontier
  BY <1>11 DEF walked
<1>13. Range(batch) \subseteq queued
  <2>. DEFINE a == ids(opened)
  <2>1. a \in Seq(Nodes)
    BY <1>10
  <2>. HIDE DEF a
  <2>2. Range(a \o batch) = Range(a) \cup Range(batch)
    BY <1>5, <2>1, RangeConcatenation
  <2>3. Range((a \o batch) \o frontier) = Range(a \o batch) \cup Range(frontier)
    <3>. DEFINE b == a \o batch
    <3>1. b \in Seq(Nodes) /\ frontier \in Seq(Nodes)
      BY <1>5, <1>11 DEF a
    <3>. HIDE DEF b
    <3>2. Range(b \o frontier) = Range(b) \cup Range(frontier)
      BY <3>1, RangeConcatenation
    <3>. QED BY <3>2 DEF b
  <2>4. Range(walked) = Range((a \o batch) \o frontier)
    BY <1>12 DEF a
  <2>. QED BY <2>2, <2>3, <2>4 DEF WalkInv, QueuedOnce
<1>14. QueuedOnce' /\ frontier' \in Seq(Nodes)
  <2>1. CASE stop
    BY <1>1, <1>3, <1>5, <1>12, <2>1 DEF WalkInv, QueuedOnce
  <2>2. CASE ~stop
    <3>1. PICK next \in SetToSeqs(children) : frontier' = frontier \o next
      BY <1>4, <2>2
    <3>2. children \subseteq Nodes /\ IsFiniteSet(children)
      <4>1. Range(loaded) \subseteq Nodes
        BY <1>5, RangeOfSeq
      <4>. QED BY <1>7, <4>1, FS_Subset, TreesAssumption
    <3>3. next \in Seq(Nodes) /\ IsInjective(next) /\ Range(next) = children
      <4>1. next \in Seq(children) /\ IsInjective(next) /\ Range(next) = children
        BY <3>2, ListingProperties
      <4>. QED BY <3>2, <4>1, SeqMonotonic
    <3>4. frontier' \in Seq(Nodes)
      BY <1>5, <3>1, <3>3, ConcatProperties
    <3>5. walked \in Seq(Nodes) /\ walked' = walked \o next
      <4>. DEFINE a == ids(opened) \o batch
      <4>1. a \in Seq(Nodes)
        BY <1>11
      <4>. HIDE DEF a
      <4>2. a \o frontier \in Seq(Nodes) /\ (a \o frontier) \o next = a \o (frontier \o next)
        <5>1. frontier \in Seq(Nodes) /\ next \in Seq(Nodes)
          BY <1>5, <3>3
        <5>2. a \o frontier \in Seq(Nodes)
          BY <4>1, <5>1, ConcatProperties
        <5>3. (a \o frontier) \o next = a \o (frontier \o next)
          BY <4>1, <5>1, ConcatAssociative
        <5>. QED BY <5>2, <5>3
      <4>. QED BY <1>12, <3>1, <4>2 DEF a
    <3>6. IsInjective(walked) /\ Range(walked) = queued
      BY DEF WalkInv, QueuedOnce
    <3>. DEFINE w == walked
    <3>7. w \in Seq(Nodes) /\ IsInjective(w) /\ Range(w) = queued /\ walked' = w \o next
      BY <3>5, <3>6
    <3>. HIDE DEF w
    <3>8. IsInjective(w \o next)
      BY <1>7, <3>3, <3>7, InjectiveConcat
    <3>9. Range(w \o next) = queued \cup children
      BY <3>3, <3>7, RangeConcatenation
    <3>10. queued \subseteq Range(loaded) /\ loaded' = loaded
      BY <1>1 DEF WalkInv, QueuedOnce
    <3>. QED BY <1>3, <1>7, <2>2, <3>4, <3>7, <3>8, <3>9, <3>10 DEF QueuedOnce
  <2>. QED BY <2>1, <2>2
<1>15. Len(opened) \in Nat /\ Len(batch) \in Nat /\ DOMAIN judged = 1..Len(batch)
       /\ DOMAIN opened = 1..Len(opened) /\ DOMAIN opened' = 1..(Len(opened) + Len(batch))
  BY <1>5, <1>6, <1>9
<1>16. /\ \A n : Asked(n) => Asked(n)'
       /\ \A n : \A i \in DOMAIN judged :
            judged[i].expand /\ ParentOf[n] = judged[i].node => Asked(n)'
       /\ \A n : Asked(n)' => \/ Asked(n)
                              \/ \E i \in DOMAIN judged : judged[i].expand /\ ParentOf[n] = judged[i].node
  <2>1. \A i \in DOMAIN opened : i \in DOMAIN opened' /\ opened'[i] = opened[i]
    BY <1>9, <1>15
  <2>2. \A i \in DOMAIN judged : Len(opened) + i \in DOMAIN opened' /\ opened'[Len(opened) + i] = judged[i]
    <3>. SUFFICES ASSUME NEW i \in DOMAIN judged
                  PROVE  Len(opened) + i \in DOMAIN opened' /\ opened'[Len(opened) + i] = judged[i]
      OBVIOUS
    <3>1. i \in 1..Len(batch) /\ Len(opened) + i \in 1..(Len(opened) + Len(batch))
          /\ ~(Len(opened) + i <= Len(opened)) /\ Len(opened) + i - Len(opened) = i
      BY <1>15
    <3>. QED BY <1>9, <1>15, <3>1
  <2>3. \A i \in DOMAIN opened' : \/ i \in DOMAIN opened /\ opened'[i] = opened[i]
                                  \/ \E k \in DOMAIN judged : opened'[i] = judged[k]
    <3>. SUFFICES ASSUME NEW i \in DOMAIN opened'
                  PROVE  \/ i \in DOMAIN opened /\ opened'[i] = opened[i]
                         \/ \E k \in DOMAIN judged : opened'[i] = judged[k]
      OBVIOUS
    <3>1. CASE i <= Len(opened)
      BY <1>9, <1>15, <3>1
    <3>2. CASE i > Len(opened)
      <4>1. i - Len(opened) \in DOMAIN judged /\ ~(i <= Len(opened))
        BY <1>15, <3>2
      <4>2. opened'[i] = judged[i - Len(opened)]
        BY <1>9, <1>15, <4>1
      <4>. QED BY <4>1, <4>2
    <3>3. i <= Len(opened) \/ i > Len(opened)
      BY <1>15
    <3>. QED BY <3>1, <3>2, <3>3, Zenon
  <2>4. ASSUME NEW n, Asked(n) PROVE Asked(n)'
    <3>1. PICK i \in DOMAIN opened : opened[i].node = ParentOf[n] /\ opened[i].expand
      BY <2>4 DEF Asked
    <3>2. i \in DOMAIN opened' /\ opened'[i] = opened[i]
      BY <2>1, <3>1
    <3>. QED BY <3>1, <3>2 DEF Asked
  <2>5. ASSUME NEW n, NEW i \in DOMAIN judged, judged[i].expand /\ ParentOf[n] = judged[i].node
        PROVE  Asked(n)'
    <3>1. Len(opened) + i \in DOMAIN opened' /\ opened'[Len(opened) + i] = judged[i]
      BY <2>2
    <3>. QED BY <2>5, <3>1 DEF Asked
  <2>6. ASSUME NEW n, Asked(n)'
        PROVE  \/ Asked(n)
               \/ \E i \in DOMAIN judged : judged[i].expand /\ ParentOf[n] = judged[i].node
    <3>1. PICK i \in DOMAIN opened' : opened'[i].node = ParentOf[n] /\ opened'[i].expand
      BY <2>6 DEF Asked
    <3>2. CASE i \in DOMAIN opened /\ opened'[i] = opened[i]
      BY <3>1, <3>2 DEF Asked
    <3>3. CASE \E k \in DOMAIN judged : opened'[i] = judged[k]
      BY <3>1, <3>3
    <3>. QED BY <2>3, <3>1, <3>2, <3>3
  <2>. QED BY <2>4, <2>5, <2>6
<1>17. QueuedIsAsked'
  <2>1. ASSUME NEW n \in queued'
        PROVE  PaperOf[n] \in Range(candidates) /\ (ParentOf[n] = NoParent \/ Asked(n)')
    <3>1. CASE n \in queued
      BY <1>16, <3>1 DEF WalkInv, QueuedIsAsked
    <3>2. CASE n \in children
      <4>1. n \in Range(loaded) /\ n \in Nodes
        BY <1>5, <1>7, <3>2, RangeOfSeq
      <4>2. PICK i \in DOMAIN judged : judged[i].expand /\ ParentOf[n] = judged[i].node
        BY <1>7, <3>2, <4>1
      <4>3. judged[i].node = batch[i] /\ batch[i] \in Range(batch) /\ batch[i] \in Nodes
        BY <1>5, <1>6, <1>15, <4>2 DEF Range
      <4>4. PaperOf[n] = PaperOf[batch[i]]
        BY <4>1, <4>2, <4>3, TreesAssumption
      <4>5. PaperOf[batch[i]] \in Range(candidates)
        BY <1>13, <4>3 DEF WalkInv, QueuedIsAsked
      <4>6. Asked(n)'
        BY <1>16, <4>2
      <4>. QED BY <4>4, <4>5, <4>6
    <3>. QED BY <1>3, <3>1, <3>2
  <2>2. ASSUME ~enough', NEW n \in Range(loaded), Asked(n)'
        PROVE  n \in queued'
    <3>1. CASE Asked(n)
      BY <1>3, <1>5, <2>2, <3>1 DEF WalkInv, QueuedIsAsked
    <3>2. CASE \E i \in DOMAIN judged : judged[i].expand /\ ParentOf[n] = judged[i].node
      BY <1>3, <1>7, <2>2, <3>2
    <3>. QED BY <1>16, <2>2, <3>1, <3>2
  <2>. QED BY <1>1, <2>1, <2>2 DEF QueuedIsAsked
<1>18. OpenedOnRequest'
  <2>. SUFFICES ASSUME NEW i \in DOMAIN opened'
                PROVE  /\ PaperOf[opened'[i].node] \in Range(candidates)
                       /\ \/ ParentOf[opened'[i].node] = NoParent
                          \/ \E j \in 1..(i - 1) : /\ opened'[j].node = ParentOf[opened'[i].node]
                                                   /\ opened'[j].expand
    BY <1>1 DEF OpenedOnRequest
  <2>1. i \in 1..(Len(opened) + Len(batch)) /\ (i <= Len(opened) \/ i > Len(opened))
    BY <1>15
  <2>2. \A j \in 1..Len(opened) : opened'[j] = opened[j]
    BY <1>9, <1>15
  <2>3. CASE i <= Len(opened)
    <3>1. i \in DOMAIN opened /\ opened'[i] = opened[i] /\ \A j \in 1..(i - 1) : j \in 1..Len(opened)
      BY <1>15, <2>1, <2>2, <2>3
    <3>. QED BY <2>2, <3>1 DEF WalkInv, OpenedOnRequest
  <2>4. CASE i > Len(opened)
    <3>1. i - Len(opened) \in 1..Len(batch) /\ ~(i <= Len(opened))
      BY <1>15, <2>1, <2>4
    <3>2. opened'[i].node = batch[i - Len(opened)]
      BY <1>6, <1>9, <2>1, <3>1
    <3>3. opened'[i].node \in queued
      BY <1>5, <1>13, <3>1, <3>2 DEF Range
    <3>4. /\ PaperOf[opened'[i].node] \in Range(candidates)
          /\ ParentOf[opened'[i].node] = NoParent \/ Asked(opened'[i].node)
      BY <3>3 DEF WalkInv, QueuedIsAsked
    <3>5. \A j \in DOMAIN opened : j \in 1..(i - 1) /\ opened'[j] = opened[j]
      BY <1>15, <2>1, <2>2, <2>4
    <3>. QED BY <3>4, <3>5 DEF Asked
  <2>. QED BY <2>1, <2>3, <2>4
<1>19. Spent'
  <2>1. Len(batch') = 0
    BY <1>1
  <2>. QED BY <1>1, <1>9, <1>15, <2>1 DEF WalkInv, Spent
<1>20. WalkTypes' /\ TreeClosed'
  BY <1>1, <1>5, <1>9, <1>14 DEF WalkInv, WalkTypes, TreeClosed, treeVars
<1>21. Places' /\ TraceIsTrue'
  BY <1>1, <1>3, <1>5, NoTraceYet DEF Places
<1>. QED BY <1>14, <1>17, <1>18, <1>19, <1>20, <1>21 DEF WalkInv

\* What TraceIsTrue says of a trace t, of the walk that opened some of the
\* nodes seen, reported enough or not, and had a limit.
Tells(t, some, seen, reported, most) ==
  LET judged(n) == CHOOSE o \in Range(some) : o.node = n
      wanted == {n \in Range(seen) : \E o \in Range(some) : o.node = ParentOf[n] /\ o.expand}
  IN /\ t.expanded_node_ids = ids(some)
     /\ Range(t.selected_node_ids) = {o.node : o \in {x \in Range(some) : x.selected}}
     /\ \A i, j \in DOMAIN t.selected_node_ids : i < j =>
          judged(t.selected_node_ids[i]).relevance >= judged(t.selected_node_ids[j]).relevance
     /\ CASE t.stopped_reason = "sufficient_evidence" -> reported
          [] t.stopped_reason = "budget_exhausted"    -> ~reported /\ Len(some) = most
          [] t.stopped_reason = "no_candidates"       ->
               /\ ~reported
               /\ (some # <<>> => Len(some) < most)
               /\ wanted \subseteq Range(ids(some))

LEMMA TraceTells ==
  /\ TraceIsTrue <=> /\ Len(traces) = IF pc = "done" THEN 1 ELSE 0
                     /\ \A k \in DOMAIN traces : Tells(traces[k], opened, loaded, enough, limit)
  /\ TraceIsTrue' <=> /\ Len(traces') = IF pc' = "done" THEN 1 ELSE 0
                      /\ \A k \in DOMAIN traces' :
                           Tells(traces'[k], opened', loaded', enough', limit')
BY Zenon DEF TraceIsTrue, Tells

\* The trace selects what was selected, the most relevant first.
LEMMA SelectionIsRanked ==
  ASSUME opened \in Seq(Opening), IsInjective(ids(opened)), NEW order \in rankings,
         NEW selected,
         selected = ids([k \in DOMAIN order |-> opened[order[k]]])
  PROVE  /\ selected \in Seq(Nodes)
         /\ Range(selected) = {o.node : o \in {x \in Range(opened) : x.selected}}
         /\ \A i, j \in DOMAIN selected : i < j =>
              (CHOOSE o \in Range(opened) : o.node = selected[i]).relevance
                >= (CHOOSE o \in Range(opened) : o.node = selected[j]).relevance
<1>. DEFINE chosen == {i \in DOMAIN opened : opened[i].selected}
<1>1. /\ order \in SetToSeqs(chosen)
      /\ \A i, j \in DOMAIN order : i < j =>
           \/ opened[order[i]].relevance > opened[order[j]].relevance
           \/ opened[order[i]].relevance = opened[order[j]].relevance /\ order[i] < order[j]
  BY DEF rankings, Ordered
<1>2. IsFiniteSet(chosen) /\ chosen \subseteq DOMAIN opened
  <2>1. DOMAIN opened = 1..Len(opened) /\ Len(opened) \in Nat
    OBVIOUS
  <2>2. IsFiniteSet(1..Len(opened))
    BY <2>1, FS_Interval, 1 \in Int, Len(opened) \in Int
  <2>3. chosen \subseteq 1..Len(opened)
    BY <2>1
  <2>. QED BY <2>1, <2>2, <2>3, FS_Subset
<1>3. order \in Seq(chosen) /\ Range(order) = chosen
  <2>. HIDE DEF chosen
  <2>. QED BY <1>1, <1>2, ListingProperties
<1>4. /\ DOMAIN order = 1..Len(order) /\ Len(order) \in Nat
      /\ \A k \in DOMAIN order : order[k] \in chosen /\ order[k] \in DOMAIN opened
                                 /\ opened[order[k]] \in Opening
                                 /\ opened[order[k]] \in Range(opened)
  BY <1>2, <1>3 DEF Range
<1>5. /\ selected = [k \in DOMAIN order |-> opened[order[k]].node]
      /\ DOMAIN selected = DOMAIN order
      /\ \A k \in DOMAIN order : selected[k] = opened[order[k]].node
  BY DEF ids
<1>6. selected \in Seq(Nodes)
  BY <1>4, <1>5 DEF Opening
<1>7. Range(selected) = {o.node : o \in {x \in Range(opened) : x.selected}}
  <2>1. ASSUME NEW k \in DOMAIN order
        PROVE  selected[k] \in {o.node : o \in {x \in Range(opened) : x.selected}}
    BY <1>4, <1>5
  <2>2. ASSUME NEW o \in Range(opened), o.selected
        PROVE  \E k \in DOMAIN order : selected[k] = o.node
    <3>1. PICK i \in DOMAIN opened : opened[i] = o
      BY DEF Range
    <3>2. i \in Range(order)
      BY <1>3, <2>2, <3>1
    <3>3. PICK k \in DOMAIN order : order[k] = i
      BY <3>2 DEF Range
    <3>. QED BY <1>5, <3>1, <3>3
  <2>. HIDE DEF chosen
  <2>. QED BY <1>5, <2>1, <2>2 DEF Range
<1>8. ASSUME NEW k \in DOMAIN order
      PROVE  (CHOOSE o \in Range(opened) : o.node = selected[k]) = opened[order[k]]
  <2>1. ASSUME NEW o \in Range(opened), o.node = selected[k]
        PROVE  o = opened[order[k]]
    <3>1. PICK i \in DOMAIN opened : opened[i] = o
      BY DEF Range
    <3>2. ids(opened)[i] = o.node /\ ids(opened)[order[k]] = selected[k]
          /\ i \in DOMAIN ids(opened) /\ order[k] \in DOMAIN ids(opened)
      BY <1>4, <1>5, <3>1 DEF ids
    <3>3. i = order[k]
      BY <2>1, <3>2 DEF IsInjective
    <3>. QED BY <3>1, <3>3
  <2>2. opened[order[k]] \in Range(opened) /\ opened[order[k]].node = selected[k]
    BY <1>4, <1>5
  <2>. QED BY <2>1, <2>2
<1>9. ASSUME NEW i \in DOMAIN selected, NEW j \in DOMAIN selected, i < j
      PROVE  (CHOOSE o \in Range(opened) : o.node = selected[i]).relevance
               >= (CHOOSE o \in Range(opened) : o.node = selected[j]).relevance
  <2>1. opened[order[i]].relevance \in Int /\ opened[order[j]].relevance \in Int
    <3>1. \A o \in Opening : o.relevance \in Int
      <4>1. Relevances \subseteq 0..100
        BY BoundsAssumption
      <4>2. \A r \in Relevances : r \in Int
        BY <4>1
      <4>. QED BY <4>2 DEF Opening
    <3>. QED BY <1>4, <1>5, <3>1
  <2>2. opened[order[i]].relevance >= opened[order[j]].relevance
    BY <1>1, <1>5, <1>9, <2>1
  <2>. QED BY <1>5, <1>8, <2>2
<1>. QED BY <1>6, <1>7, <1>9

\* The trace is written once, at the end, and says why the walk stopped.
LEMMA WriteTraceWalk ==
  ASSUME WalkInv, WriteTrace
  PROVE  WalkInv'
<1>1. /\ pc = "finish" /\ pc' = "done"
      /\ UNCHANGED <<treeVars, limit, used, candidates, loaded, frontier, queued, batch,
                     opened, enough>>
  BY DEF WriteTrace
<1>2. /\ traces = <<>> /\ batch = <<>> /\ (~enough => frontier = <<>> \/ exhausted)
      /\ opened \in Seq(Opening) /\ frontier \in Seq(Nodes) /\ loaded \in Seq(Nodes)
      /\ Len(opened) \in Nat /\ limit \in Int
  BY <1>1 DEF WalkInv, WalkTypes, Places
<1>3. used = Len(opened) /\ (used > 0 => used <= limit)
  <2>1. Len(batch) = 0
    BY <1>2
  <2>. QED BY <1>2, <2>1 DEF WalkInv, Spent
<1>4. ids(opened) \in Seq(Nodes) /\ walked = ids(opened) \o frontier
  <2>1. ids(opened) \in Seq(Nodes)
    BY <1>2, IdsProperties
  <2>. QED BY <1>2, <2>1, ConcatEmptySeq DEF walked
<1>5. IsInjective(ids(opened))
  <2>. DEFINE a == ids(opened)
  <2>1. a \in Seq(Nodes) /\ frontier \in Seq(Nodes) /\ IsInjective(a \o frontier)
    BY <1>2, <1>4 DEF WalkInv, QueuedOnce
  <2>. HIDE DEF a
  <2>2. IsInjective(a)
    BY <2>1, InjectivePrefix
  <2>. QED BY <2>2 DEF a
<1>6. PICK order \in rankings :
        traces' = Append(traces, [expanded_node_ids |-> ids(opened),
                                  selected_node_ids |-> ids([k \in DOMAIN order |-> opened[order[k]]]),
                                  stopped_reason    |-> stopped_reason])
  BY DEF WriteTrace
<1>. DEFINE selected == ids([k \in DOMAIN order |-> opened[order[k]]])
            t == [expanded_node_ids |-> ids(opened), selected_node_ids |-> selected,
                  stopped_reason    |-> stopped_reason]
<1>7. traces' = <<t>>
  BY <1>2, <1>6
<1>8. /\ Range(selected) = {o.node : o \in {x \in Range(opened) : x.selected}}
      /\ \A i, j \in DOMAIN selected : i < j =>
           (CHOOSE o \in Range(opened) : o.node = selected[i]).relevance
             >= (CHOOSE o \in Range(opened) : o.node = selected[j]).relevance
  BY <1>2, <1>5, SelectionIsRanked
<1>9. stopped_reason = "sufficient_evidence" => enough
  BY DEF stopped_reason
<1>10. stopped_reason = "budget_exhausted" => ~enough /\ Len(opened) = limit
  BY <1>2, <1>3 DEF stopped_reason, exhausted, remaining
<1>11. ASSUME stopped_reason = "no_candidates"
       PROVE  /\ ~enough
              /\ (opened # <<>> => Len(opened) < limit)
              /\ {n \in Range(loaded) :
                    \E o \in Range(opened) : o.node = ParentOf[n] /\ o.expand} \subseteq Range(ids(opened))
  <2>1. ~enough /\ (loaded = <<>> \/ ~exhausted)
    BY <1>11 DEF stopped_reason
  <2>2. CASE loaded = <<>>
    <3>1. queued = {} /\ Range(loaded) = {}
      BY <2>2 DEF WalkInv, QueuedOnce, Range
    <3>2. Range(ids(opened)) = {}
      <4>. DEFINE a == ids(opened)
      <4>1. a \in Seq(Nodes) /\ frontier \in Seq(Nodes) /\ Range(a \o frontier) = {}
        BY <1>2, <1>4, <3>1 DEF WalkInv, QueuedOnce
      <4>. HIDE DEF a
      <4>2. Range(a) = {}
        BY <4>1, RangeConcatenation
      <4>. QED BY <4>2 DEF a
    <3>3. opened = <<>>
      <4>1. ASSUME opened # <<>> PROVE FALSE
        <5>1. 1 \in DOMAIN opened /\ 1 \in DOMAIN ids(opened)
          BY <1>2, <4>1 DEF ids
        <5>. QED BY <3>2, <5>1 DEF Range
      <4>. QED BY <4>1
    <3>. QED BY <2>1, <3>1, <3>3
  <2>3. CASE ~exhausted
    <3>1. frontier = <<>> /\ used # limit
      BY <1>2, <1>3, <2>1, <2>3 DEF exhausted, remaining
    <3>2. opened # <<>> => Len(opened) > 0
      BY <1>2
    <3>3. Range(ids(opened)) = queued
      BY <1>4, <3>1, ConcatEmptySeq DEF WalkInv, QueuedOnce
    <3>4. ASSUME NEW n \in Range(loaded), NEW o \in Range(opened), o.node = ParentOf[n] /\ o.expand
          PROVE  n \in queued
      <4>1. Asked(n)
        BY <3>4 DEF Asked, Range
      <4>. QED BY <2>1, <4>1 DEF WalkInv, QueuedIsAsked
    <3>. QED BY <1>2, <1>3, <2>1, <3>1, <3>2, <3>3, <3>4
  <2>. QED BY <2>1, <2>2, <2>3
<1>12. stopped_reason \in {"sufficient_evidence", "budget_exhausted", "no_candidates"}
  BY DEF stopped_reason
<1>. HIDE DEF selected
<1>13. TraceIsTrue'
  <2>1. /\ t.expanded_node_ids = ids(opened) /\ t.selected_node_ids = selected
        /\ t.stopped_reason = stopped_reason
    OBVIOUS
  <2>2. Len(traces') = 1 /\ DOMAIN traces' = {1} /\ traces'[1] = t
    BY <1>7
  <2>. HIDE DEF t
  <2>3. opened' = opened /\ loaded' = loaded /\ enough' = enough /\ limit' = limit
        /\ ids(opened)' = ids(opened) /\ pc' = "done"
    BY <1>1 DEF ids
  <2>4. Tells(t, opened, loaded, enough, limit)
    BY <1>8, <1>9, <1>10, <1>11, <1>12, <2>1 DEF Tells
  <2>. QED BY <2>2, <2>3, <2>4, TraceTells
<1>14. UNCHANGED walked
  BY <1>1 DEF walked, ids
<1>15. WalkTypes' /\ TreeClosed' /\ Spent' /\ OpenedOnRequest' /\ QueuedOnce' /\ QueuedIsAsked'
  BY <1>1, <1>14 DEF WalkInv, WalkTypes, TreeClosed, Spent, OpenedOnRequest, QueuedOnce, QueuedIsAsked,
     Asked, treeVars
<1>16. Places'
  BY <1>1, <1>2 DEF Places, exhausted, remaining
<1>. QED BY <1>13, <1>15, <1>16 DEF WalkInv

LEMMA TraversalStepWalk ==
  ASSUME WalkInv, TraversalStep
  PROVE  WalkInv'
BY ShortlistWalk, ModelFailsWalk, LoadTreeWalk, OpenBatchWalk, JudgeWalk, LeaveLoopWalk, WriteTraceWalk
   DEF TraversalStep

\* What a request does beside its traversal leaves the walk alone.
LEMMA OtherStepsWalk ==
  ASSUME WalkInv, UNCHANGED walkVars, tree' \subseteq Nodes, TreeClosed'
  PROVE  WalkInv'
<1>1. UNCHANGED walked
  BY DEF walkVars, walked, ids
<1>2. WalkTypes' /\ Spent' /\ OpenedOnRequest' /\ QueuedOnce' /\ QueuedIsAsked'
  BY <1>1 DEF walkVars, WalkInv, WalkTypes, Spent, OpenedOnRequest, QueuedOnce, QueuedIsAsked, Asked
<1>3. Places'
  BY DEF walkVars, WalkInv, Places, exhausted, remaining
<1>4. TraceIsTrue'
  <2>1. /\ pc' = pc /\ traces' = traces /\ opened' = opened /\ loaded' = loaded
        /\ enough' = enough /\ limit' = limit
    BY DEF walkVars
  <2>2. TraceIsTrue
    BY DEF WalkInv
  <2>. QED BY <2>1, <2>2, TraceTells
<1>. QED BY <1>2, <1>3, <1>4 DEF WalkInv

LEMMA NextWalk ==
  ASSUME WalkInv, [Next]_vars
  PROVE  WalkInv'
<1>1. tree \subseteq Nodes /\ TreeClosed
  BY DEF WalkInv, WalkTypes
<1>2. CASE Traverse
  BY <1>2, TraversalStepWalk DEF Traverse
<1>3. CASE Indexing
  BY <1>1, <1>3, IndexingKeepsTrees, OtherStepsWalk DEF Indexing
<1>4. CASE UNCHANGED traversalVars
  <2>1. UNCHANGED walkVars /\ UNCHANGED tree
    BY <1>4 DEF traversalVars, treeVars
  <2>2. tree' \subseteq Nodes /\ TreeClosed'
    BY <1>1, <2>1 DEF TreeClosed
  <2>. QED BY <2>1, <2>2, OtherStepsWalk
<1>5. UNCHANGED vars => UNCHANGED traversalVars
  BY DEF vars
<1>6. TraversalRaised \/ CallRaises \/ RefuseThin \/ Synthesize \/ Cite \/ LoadCandidates \/ Classify
        \/ ReadExisting \/ SaveLinks \/ LinkElsewhere => UNCHANGED traversalVars
  BY DEF TraversalRaised, CallRaises, RefuseThin, Synthesize, Cite, LoadCandidates, Classify,
     ReadExisting, SaveLinks, LinkElsewhere
<1>. QED BY <1>2, <1>3, <1>4, <1>5, <1>6 DEF Next, RequestStep

LEMMA WalkIsInv == Spec => []WalkInv
<1>. QED BY InitWalk, NextWalk, PTL DEF Spec

LEMMA WalkKeepsBudget == WalkInv => BudgetIsKept
<1>. SUFFICES ASSUME WalkInv PROVE BudgetIsKept
  OBVIOUS
<1>. DEFINE a == ids(opened) \o batch
<1>1. opened \in Seq(Opening) /\ batch \in Seq(Nodes) /\ frontier \in Seq(Nodes)
  BY DEF WalkInv, WalkTypes
<1>2. a \in Seq(Nodes) /\ IsInjective(a \o frontier)
  <2>1. ids(opened) \in Seq(Nodes)
    BY <1>1, IdsProperties
  <2>2. ids(opened) \o batch \in Seq(Nodes)
    BY <1>1, <2>1, ConcatProperties
  <2>. QED BY <2>2 DEF WalkInv, QueuedOnce, walked
<1>. HIDE DEF a
<1>3. IsInjective(a)
  BY <1>1, <1>2, InjectivePrefix
<1>. QED BY <1>3 DEF a, WalkInv, Spent, BudgetIsKept

\* However the model answers and whatever is rebuilt meanwhile, a traversal
\* opens at most the nodes its caller allowed, and none of them twice:
\* BudgetIsKept, of the loop of traverse.
THEOREM TraversalsKeepTheBudget == Spec => []BudgetIsKept
BY WalkIsInv, WalkKeepsBudget, PTL

\* A node is opened as the root of a shortlisted paper, or because the model
\* asked for the children of its parent before: OpenedOnRequest.
THEOREM NodesAreOpenedOnRequest == Spec => []OpenedOnRequest
<1>1. WalkInv => OpenedOnRequest
  BY DEF WalkInv
<1>. QED BY <1>1, WalkIsInv, PTL

\* The one trace row of a finished traversal lists what was opened, selects
\* from it in the order of relevance, and gives the true reason why the walk
\* stopped: TraceIsTrue, of _finish.
THEOREM TracesAreTrue == Spec => []TraceIsTrue
<1>1. WalkInv => TraceIsTrue
  BY DEF WalkInv
<1>. QED BY <1>1, WalkIsInv, PTL

-----------------------------------------------------------------------------
(* The invariant of the requests.                                          *)

\* Statements cite what the finished trace selects, of at least two such nodes.
CitesSelected == pc = "done" /\ cited # {} /\ cited \subseteq citable /\ Cardinality(citable) >= 2

AskInv ==
  /\ stage = "cite" => CitesSelected
  /\ outcome = "answered" =>
       stage = "end" /\ CitesSelected /\ \A n \in cited : PaperOf[n] \in Identified

\* A node that is or was there: once gone, it does not come back.
Known(n) == BuildOf[n] <= builds[PaperOf[n]]

LinkTypes ==
  /\ builds \in [Papers -> Nat]
  /\ evidence \subseteq Rows /\ existing \subseteq Rows /\ links \subseteq Links
  /\ \A n \in tree \cup offered \cup LinkedNodes(existing) : Known(n)

\* Until a request ends, the evidence is the one row another process may have
\* saved, and the save sees all of it that is left.
EvidenceBefore ==
  /\ LinkedNodes(evidence) \subseteq tree
  /\ stage # "end" =>
       (meanwhile = "no" => evidence = {}) /\ \A r, q \in evidence : r = q
  /\ \A r, q \in existing : r = q
  /\ stage = "write" /\ meanwhile # "after" => evidence = {r \in existing : r.node \in tree}

\* The links are about nodes that were selected, one for each.
LinksInv ==
  /\ offered \subseteq Nodes /\ offered \subseteq Range(selection)
  /\ offered # {} => pc = "done"
  /\ LinkedNodes(links) \subseteq offered
  /\ \A l, k \in links : l.node = k.node => l = k
  /\ stage = "start" => offered = {} /\ links = {}
  /\ outcome = "linked" => stage = "end"

StagesInv == AskInv /\ LinkTypes /\ EvidenceBefore /\ LinksInv /\ EvidenceIsLinked

RequestInv == WalkInv /\ StagesInv

-----------------------------------------------------------------------------
(* Steps of the requests.                                                  *)

LEMMA SameSelection ==
  ASSUME UNCHANGED traces
  PROVE  UNCHANGED <<selection, citable>>
BY DEF selection, citable

LEMMA InitStages == Init => StagesInv
<1>. SUFFICES ASSUME Init PROVE StagesInv
  OBVIOUS
<1>. USE DEF Init
<1>1. builds \in [Papers -> Nat]
  BY DEF TraversalInit
<1>2. ASSUME NEW n \in tree PROVE Known(n)
  <2>1. PICK p \in Papers : n \in Built(p, builds[p])
    BY DEF TraversalInit
  <2>2. BuildOf[n] = builds[p] /\ PaperOf[n] = p /\ builds[p] \in Nat
    BY <1>1, <2>1 DEF Built
  <2>. QED BY <2>2 DEF Known
<1>3. LinkTypes
  BY <1>1, <1>2 DEF LinkTypes, LinkedNodes
<1>. QED BY <1>3 DEF StagesInv, AskInv, EvidenceBefore, LinksInv, EvidenceIsLinked, LinkedNodes

\* The walk is over before a request goes on.
LEMMA TraverseStages ==
  ASSUME RequestInv, Traverse
  PROVE  StagesInv'
<1>1. /\ UNCHANGED treeVars /\ pc # "done"
      /\ UNCHANGED <<purpose, stage, attempts, cited, outcome, offered, links, existing, evidence, meanwhile>>
  BY DEF Traverse, TraversalStep, Shortlist, ModelFails, LoadTree, OpenBatch, Judge, LeaveLoop,
     WriteTrace, requestVars
<1>2. tree' = tree /\ builds' = builds
  BY <1>1 DEF treeVars
<1>3. AskInv'
  BY <1>1 DEF RequestInv, StagesInv, AskInv, CitesSelected
<1>4. LinkTypes' /\ EvidenceBefore'
  BY <1>1, <1>2 DEF RequestInv, StagesInv, LinkTypes, EvidenceBefore, LinkedNodes, Known
<1>5. offered = {}
  BY <1>1 DEF RequestInv, StagesInv, LinksInv
<1>6. LinksInv'
  BY <1>1, <1>5 DEF RequestInv, StagesInv, LinksInv, LinkedNodes
<1>7. LinkedNodes(links) = {}
  BY <1>5 DEF RequestInv, StagesInv, LinksInv
<1>8. EvidenceIsLinked'
  BY <1>1, <1>2, <1>7 DEF RequestInv, StagesInv, EvidenceIsLinked, LinkedNodes
<1>. QED BY <1>3, <1>4, <1>6, <1>8 DEF StagesInv

\* The steps of synthesize, and those that end a request with nothing, leave
\* what is linked alone.
LEMMA LinksAreLeft ==
  ASSUME RequestInv, UNCHANGED <<traversalVars, offered, links, existing, evidence, meanwhile>>,
         stage' \in {stage, "cite", "end"},
         outcome' = "linked" => outcome = "linked",
         stage = "end" => stage' = "end"
  PROVE  LinkTypes' /\ EvidenceBefore' /\ LinksInv' /\ EvidenceIsLinked'
<1>1. tree' = tree /\ builds' = builds /\ pc' = pc /\ traces' = traces
  BY DEF traversalVars, treeVars, walkVars
<1>2. UNCHANGED selection
  BY <1>1, SameSelection
<1>. USE DEF RequestInv, StagesInv
<1>3. LinkTypes'
  BY <1>1 DEF LinkTypes, LinkedNodes, Known
<1>4. EvidenceBefore'
  BY <1>1 DEF EvidenceBefore, LinkedNodes
<1>5. LinksInv'
  BY <1>1, <1>2 DEF LinksInv, LinkedNodes
<1>6. EvidenceIsLinked'
  BY <1>1 DEF EvidenceIsLinked, LinkedNodes
<1>. QED BY <1>3, <1>4, <1>5, <1>6

LEMMA SynthesisStages ==
  ASSUME RequestInv, TraversalRaised \/ CallRaises \/ RefuseThin \/ Synthesize \/ Cite
  PROVE  StagesInv'
<1>1. /\ UNCHANGED <<traversalVars, offered, links, existing, evidence, meanwhile>>
      /\ stage' \in {stage, "cite", "end"}
      /\ outcome' = "linked" => outcome = "linked"
      /\ stage # "end"
  BY DEF TraversalRaised, CallRaises, RefuseThin, Synthesize, Cite, End
<1>2. LinkTypes' /\ EvidenceBefore' /\ LinksInv' /\ EvidenceIsLinked'
  BY <1>1, LinksAreLeft
<1>3. pc' = pc /\ traces' = traces
  BY <1>1 DEF traversalVars, walkVars
<1>4. citable' = citable
  BY <1>3, SameSelection
<1>5. outcome # "answered"
  BY <1>1 DEF RequestInv, StagesInv, AskInv
<1>6. CASE TraversalRaised \/ CallRaises \/ RefuseThin
  <2>1. stage' = "end" /\ outcome' \in {"failed", "insufficient"}
    BY <1>6 DEF TraversalRaised, CallRaises, RefuseThin, End
  <2>2. AskInv'
    BY <2>1 DEF AskInv
  <2>. QED BY <1>2, <2>2 DEF StagesInv
<1>7. CASE Synthesize
  <2>1. /\ pc = "done" /\ Cardinality(citable) >= 2 /\ stage = "start"
        /\ \/ cited' \in AcceptedCitations /\ stage' = "cite" /\ outcome' = outcome
           \/ stage' = "end" /\ outcome' = "insufficient"
           \/ stage' = stage /\ outcome' = outcome
    BY <1>7 DEF Synthesize, End
  <2>2. stage' = "cite" => CitesSelected'
    <3>1. pc' = "done" /\ Cardinality(citable') >= 2
      BY <1>3, <1>4, <2>1
    <3>2. stage' = "cite" => cited' # {} /\ cited' \subseteq citable'
      BY <1>4, <2>1 DEF AcceptedCitations
    <3>. QED BY <3>1, <3>2 DEF CitesSelected
  <2>3. outcome' # "answered"
    BY <1>5, <2>1
  <2>4. AskInv'
    BY <2>2, <2>3 DEF AskInv
  <2>. QED BY <1>2, <2>4 DEF StagesInv
<1>8. CASE Cite
  <2>1. CitesSelected
    BY <1>8 DEF Cite, RequestInv, StagesInv, AskInv
  <2>2. cited' = cited /\ stage' = "end"
        /\ outcome' = IF \A n \in cited : PaperOf[n] \in Identified THEN "answered" ELSE "insufficient"
    BY <1>8 DEF Cite, End
  <2>3. CitesSelected'
    BY <1>3, <1>4, <2>1, <2>2 DEF CitesSelected
  <2>4. outcome' = "answered" => \A n \in cited' : PaperOf[n] \in Identified
    BY <2>2
  <2>5. AskInv'
    BY <2>2, <2>3, <2>4 DEF AskInv
  <2>. QED BY <1>2, <2>5 DEF StagesInv
<1>. QED BY <1>6, <1>7, <1>8

\* The steps of link_evidence leave the answer alone.
LEMMA AnswersAreLeft ==
  ASSUME RequestInv, UNCHANGED <<traversalVars, cited>>, stage' # "cite",
         outcome' = "answered" => outcome = "answered", stage # "end"
  PROVE  AskInv'
BY DEF RequestInv, StagesInv, AskInv

LEMMA LoadCandidatesStages ==
  ASSUME RequestInv, LoadCandidates
  PROVE  StagesInv'
<1>1. /\ purpose = "link" /\ stage = "start" /\ pc = "done"
      /\ offered' = Range(selection) \cap tree
      /\ stage' \in {"end", "classify"} /\ outcome' \in {"nothing", outcome}
      /\ UNCHANGED <<traversalVars, purpose, attempts, cited, links, existing, evidence, meanwhile>>
  BY DEF LoadCandidates, End
<1>2. tree' = tree /\ builds' = builds /\ pc' = pc /\ traces' = traces
  BY <1>1 DEF traversalVars, treeVars, walkVars
<1>3. UNCHANGED selection
  BY <1>2, SameSelection
<1>. USE DEF RequestInv, StagesInv
<1>4. AskInv'
  BY <1>1, AnswersAreLeft
<1>5. LinkTypes'
  BY <1>1, <1>2 DEF LinkTypes, LinkedNodes, Known
<1>6. EvidenceBefore'
  BY <1>1, <1>2 DEF EvidenceBefore, LinkedNodes
<1>7. tree \subseteq Nodes /\ links = {} /\ outcome # "linked"
  BY <1>1 DEF LinksInv, WalkInv, WalkTypes
<1>8. LinksInv'
  BY <1>1, <1>2, <1>3, <1>7 DEF LinksInv, LinkedNodes
<1>9. EvidenceIsLinked'
  BY <1>1, <1>7 DEF EvidenceIsLinked
<1>. QED BY <1>4, <1>5, <1>6, <1>8, <1>9

LEMMA ClassifyStages ==
  ASSUME RequestInv, Classify
  PROVE  StagesInv'
<1>1. /\ stage = "classify" /\ stage' = "save"
      /\ UNCHANGED <<traversalVars, purpose, attempts, cited, outcome, offered, existing,
                     evidence, meanwhile>>
  BY DEF Classify
<1>2. PICK verbatim \in SUBSET offered : \E stanceOf \in [verbatim -> Stances] :
        links' = {[node |-> n, stance |-> stanceOf[n]] : n \in verbatim}
  BY DEF Classify
<1>3. PICK stanceOf \in [verbatim -> Stances] :
        links' = {[node |-> n, stance |-> stanceOf[n]] : n \in verbatim}
  BY <1>2
<1>4. tree' = tree /\ builds' = builds /\ pc' = pc /\ traces' = traces
  BY <1>1 DEF traversalVars, treeVars, walkVars
<1>5. UNCHANGED selection
  BY <1>4, SameSelection
<1>. USE DEF RequestInv, StagesInv
<1>6. offered \subseteq Nodes
  BY DEF LinksInv
<1>7. /\ links' \subseteq Links /\ LinkedNodes(links') \subseteq offered
      /\ \A l, k \in links' : l.node = k.node => l = k
  BY <1>3, <1>6 DEF Links, LinkedNodes
<1>8. AskInv'
  BY <1>1, AnswersAreLeft
<1>9. LinkTypes'
  BY <1>1, <1>4, <1>7 DEF LinkTypes, LinkedNodes, Known
<1>10. EvidenceBefore'
  BY <1>1, <1>4 DEF EvidenceBefore, LinkedNodes
<1>11. LinksInv' /\ outcome # "linked"
  BY <1>1, <1>4, <1>5, <1>7 DEF LinksInv
<1>12. EvidenceIsLinked'
  BY <1>1, <1>11 DEF EvidenceIsLinked
<1>. QED BY <1>8, <1>9, <1>10, <1>11, <1>12

LEMMA ReadExistingStages ==
  ASSUME RequestInv, ReadExisting
  PROVE  StagesInv'
<1>1. /\ stage = "save" /\ stage' = "write" /\ existing' = evidence
      /\ UNCHANGED <<traversalVars, purpose, attempts, cited, outcome, offered, links,
                     evidence, meanwhile>>
  BY DEF ReadExisting
<1>2. tree' = tree /\ builds' = builds /\ pc' = pc /\ traces' = traces
  BY <1>1 DEF traversalVars, treeVars, walkVars
<1>3. UNCHANGED selection
  BY <1>2, SameSelection
<1>. USE DEF RequestInv, StagesInv
<1>4. AskInv'
  BY <1>1, AnswersAreLeft
<1>5. LinkedNodes(evidence) \subseteq tree
  BY DEF EvidenceBefore
<1>6. LinkTypes'
  BY <1>1, <1>2, <1>5 DEF LinkTypes, Known
<1>7. EvidenceBefore'
  BY <1>1, <1>2, <1>5 DEF EvidenceBefore, LinkedNodes
<1>8. LinksInv' /\ outcome # "linked"
  BY <1>1, <1>2, <1>3 DEF LinksInv
<1>9. EvidenceIsLinked'
  BY <1>1, <1>8 DEF EvidenceIsLinked
<1>. QED BY <1>4, <1>6, <1>7, <1>8, <1>9

\* Indexing replaces nodes by nodes that were never there.
LEMMA TreesMoveOn ==
  ASSUME LinkTypes, tree \subseteq Nodes, Indexing
  PROVE  /\ builds' \in [Papers -> Nat]
         /\ \A n \in Nodes : Known(n) => Known(n)'
         /\ \A n \in tree' : n \in Nodes /\ Known(n)'
         /\ \A n \in Nodes : Known(n) /\ n \notin tree => n \notin tree'
<1>1. /\ builds \in [Papers -> Nat]
      /\ \A n \in tree : Known(n)
      /\ \A n \in Nodes : PaperOf[n] \in Papers /\ BuildOf[n] \in Nat
  BY TreesAssumption DEF LinkTypes
<1>2. PICK p \in Papers : Rebuild(p) \/ DropTree(p)
  BY DEF Indexing
<1>3. CASE Rebuild(p)
  <2>1. /\ builds' = [builds EXCEPT ![p] = builds[p] + 1] /\ builds[p] \in Nat
        /\ tree' = {n \in tree : PaperOf[n] # p} \cup Built(p, builds[p] + 1)
    BY <1>1, <1>3 DEF Rebuild
  <2>2. /\ builds' \in [Papers -> Nat] /\ builds'[p] = builds[p] + 1
        /\ \A q \in Papers : builds[q] \in Nat /\ (q # p => builds'[q] = builds[q])
    BY <1>1, <2>1
  <2>3. \A n \in Nodes : Known(n) => Known(n)'
    <3>. SUFFICES ASSUME NEW n \in Nodes, Known(n) PROVE Known(n)'
      OBVIOUS
    <3>1. BuildOf[n] \in Nat /\ PaperOf[n] \in Papers /\ BuildOf[n] <= builds[PaperOf[n]]
      BY <1>1 DEF Known
    <3>2. CASE PaperOf[n] = p
      BY <2>2, <3>1, <3>2 DEF Known
    <3>3. CASE PaperOf[n] # p
      BY <2>2, <3>1, <3>3 DEF Known
    <3>. QED BY <3>2, <3>3
  <2>4. \A n \in Built(p, builds[p] + 1) : /\ n \in Nodes /\ PaperOf[n] = p
                                           /\ BuildOf[n] = builds[p] + 1
    BY DEF Built
  <2>5. \A n \in tree' : n \in Nodes /\ Known(n)'
    <3>. SUFFICES ASSUME NEW n \in tree' PROVE n \in Nodes /\ Known(n)'
      OBVIOUS
    <3>1. CASE n \in tree
      BY <1>1, <2>3, <3>1
    <3>2. CASE n \in Built(p, builds[p] + 1)
      <4>1. BuildOf[n] = builds'[PaperOf[n]] /\ BuildOf[n] \in Nat /\ n \in Nodes
        BY <1>1, <2>2, <2>4, <3>2
      <4>. QED BY <4>1 DEF Known
    <3>. QED BY <2>1, <3>1, <3>2
  <2>6. ASSUME NEW n \in Nodes, Known(n), n \notin tree, n \in tree' PROVE FALSE
    <3>1. n \in Built(p, builds[p] + 1)
      BY <2>1, <2>6
    <3>2. BuildOf[n] = builds[p] + 1 /\ BuildOf[n] <= builds[p]
      BY <2>4, <2>6, <3>1 DEF Known
    <3>. QED BY <2>1, <3>2
  <2>. QED BY <2>2, <2>3, <2>5, <2>6
<1>4. CASE DropTree(p)
  BY <1>1, <1>4 DEF DropTree, Known
<1>. QED BY <1>2, <1>3, <1>4

LEMMA IndexingStages ==
  ASSUME RequestInv, Indexing
  PROVE  StagesInv'
<1>. USE DEF RequestInv, StagesInv
<1>1. /\ evidence' = {r \in evidence : r.node \in tree'}
      /\ UNCHANGED walkVars
      /\ UNCHANGED <<purpose, stage, attempts, cited, outcome, offered, links, existing, meanwhile>>
  BY DEF Indexing, requestVars
<1>2. pc' = pc /\ traces' = traces
  BY <1>1 DEF walkVars
<1>3. selection' = selection /\ citable' = citable
  BY <1>2, SameSelection
<1>4. /\ builds' \in [Papers -> Nat]
      /\ \A n \in Nodes : Known(n) => Known(n)'
      /\ \A n \in tree' : n \in Nodes /\ Known(n)'
      /\ \A n \in Nodes : Known(n) /\ n \notin tree => n \notin tree'
  BY TreesMoveOn DEF WalkInv, WalkTypes
<1>5. CitesSelected => CitesSelected'
  <2>1. cited' = cited /\ Cardinality(citable') = Cardinality(citable)
    BY <1>1, <1>3
  <2>. QED BY <1>2, <1>3, <2>1 DEF CitesSelected
<1>6. AskInv'
  BY <1>1, <1>5 DEF AskInv
<1>7. /\ offered \subseteq Nodes /\ LinkedNodes(existing) \subseteq Nodes
      /\ LinkedNodes(links) \subseteq offered /\ LinkedNodes(evidence) \subseteq tree
      /\ \A n \in offered \cup LinkedNodes(existing) : Known(n)
  BY DEF LinksInv, LinkTypes, EvidenceBefore, LinkedNodes, Rows
<1>8. LinkTypes'
  BY <1>1, <1>4, <1>7 DEF LinkTypes, LinkedNodes
<1>9. EvidenceBefore'
  <2>1. LinkedNodes(evidence') \subseteq tree'
    BY <1>1 DEF LinkedNodes
  <2>2. ASSUME stage = "write", meanwhile # "after"
        PROVE  evidence' = {r \in existing : r.node \in tree'}
    <3>1. evidence = {r \in existing : r.node \in tree}
      BY <2>2 DEF EvidenceBefore
    <3>2. \A r \in existing : r.node \notin tree => r.node \notin tree'
      BY <1>4, <1>7 DEF LinkedNodes
    <3>. QED BY <1>1, <3>1, <3>2
  <2>. QED BY <1>1, <2>1, <2>2 DEF EvidenceBefore
<1>10. LinksInv'
  BY <1>1, <1>2, <1>3 DEF LinksInv, LinkedNodes
<1>11. EvidenceIsLinked'
  <2>. SUFFICES ASSUME outcome = "linked", meanwhile # "after"
                PROVE  /\ LinkedNodes(evidence') = LinkedNodes(links) \cap tree'
                       /\ \A r, q \in evidence' : r.node = q.node => r = q
                       /\ \A r \in evidence' : [node |-> r.node, stance |-> r.stance] \in links
                       /\ LinkedNodes(links) \subseteq Range(traces[1].selected_node_ids)
    BY <1>1, <1>2 DEF EvidenceIsLinked, LinkedNodes
  <2>1. /\ LinkedNodes(evidence) = LinkedNodes(links) \cap tree
        /\ \A r, q \in evidence : r.node = q.node => r = q
        /\ \A r \in evidence : [node |-> r.node, stance |-> r.stance] \in links
        /\ LinkedNodes(links) \subseteq Range(traces[1].selected_node_ids)
    BY DEF EvidenceIsLinked
  <2>2. LinkedNodes(evidence') = LinkedNodes(evidence) \cap tree'
    BY <1>1 DEF LinkedNodes
  <2>3. \A n \in LinkedNodes(links) : n \in tree' => n \in tree
    BY <1>4, <1>7
  <2>. QED BY <1>1, <2>1, <2>2, <2>3
<1>. QED BY <1>6, <1>8, <1>9, <1>10, <1>11

LEMMA LinkElsewhereStages ==
  ASSUME RequestInv, LinkElsewhere
  PROVE  StagesInv'
<1>. USE DEF RequestInv, StagesInv
<1>1. /\ meanwhile = "no" /\ stage # "end"
      /\ meanwhile' = IF stage = "write" THEN "after" ELSE "before"
      /\ UNCHANGED traversalVars
      /\ UNCHANGED <<purpose, stage, attempts, cited, outcome, offered, links, existing>>
  BY DEF LinkElsewhere, requestVars
<1>2. PICK n \in tree, s \in Stances :
        evidence' = evidence \cup {[by |-> "other", node |-> n, stance |-> s]}
  BY DEF LinkElsewhere
<1>3. tree' = tree /\ builds' = builds /\ pc' = pc /\ traces' = traces
  BY <1>1 DEF traversalVars, treeVars, walkVars
<1>4. selection' = selection /\ citable' = citable
  BY <1>3, SameSelection
<1>. DEFINE row == [by |-> "other", node |-> n, stance |-> s]
<1>5. evidence' = {row} /\ row \in Rows /\ row.node \in tree
  <2>1. evidence = {}
    BY <1>1 DEF EvidenceBefore
  <2>2. n \in Nodes
    BY DEF WalkInv, WalkTypes
  <2>. QED BY <1>2, <2>1, <2>2 DEF Rows
<1>. HIDE DEF row
<1>6. AskInv' /\ outcome # "linked"
  <2>1. outcome # "answered" /\ outcome # "linked"
    BY <1>1 DEF AskInv, LinksInv
  <2>2. stage = "cite" => CitesSelected'
    <3>1. cited' = cited /\ Cardinality(citable') = Cardinality(citable)
      BY <1>1, <1>4
    <3>. QED BY <1>3, <1>4, <3>1 DEF AskInv, CitesSelected
  <2>. QED BY <1>1, <2>1, <2>2 DEF AskInv
<1>7. LinkTypes'
  BY <1>1, <1>3, <1>5 DEF LinkTypes, LinkedNodes, Known
<1>8. EvidenceBefore'
  BY <1>1, <1>3, <1>5 DEF EvidenceBefore, LinkedNodes
<1>9. LinksInv'
  BY <1>1, <1>3, <1>4 DEF LinksInv, LinkedNodes
<1>10. EvidenceIsLinked'
  BY <1>1, <1>6 DEF EvidenceIsLinked
<1>. QED BY <1>6, <1>7, <1>8, <1>9, <1>10

\* The save replaces what it read by the links, unless a row came in between.
LEMMA SaveLinksStages ==
  ASSUME RequestInv, SaveLinks
  PROVE  StagesInv'
<1>. USE DEF RequestInv, StagesInv
<1>. DEFINE added   == {l \in links : l.node \notin LinkedNodes(existing)}
            kept    == evidence \ StaleRows(existing)
            pairs   == {y \in (kept \cap existing) \X links : y[1].node = y[2].node}
            updated == {[x[1] EXCEPT !.stance = x[2].stance] : x \in pairs}
            left    == {r \in kept : r \notin existing \/ r.node \notin LinkedNodes(links)}
            new     == {[by |-> "self", node |-> l.node, stance |-> l.stance] : l \in added}
<1>1. /\ stage = "write" /\ stage' = "end" /\ outcome' \in {"linked", "failed"}
      /\ outcome' = "linked" => LinkedNodes(added) \subseteq tree /\ evidence' = left \cup updated \cup new
      /\ outcome' # "linked" => evidence' = evidence
      /\ UNCHANGED traversalVars
      /\ UNCHANGED <<purpose, attempts, cited, offered, links, existing, meanwhile>>
  BY DEF SaveLinks, End
<1>2. tree' = tree /\ builds' = builds /\ pc' = pc /\ traces' = traces
  BY <1>1 DEF traversalVars, treeVars, walkVars
<1>3. UNCHANGED selection
  BY <1>2, SameSelection
<1>4. AskInv'
  BY <1>1, AnswersAreLeft
<1>5. /\ evidence \subseteq Rows /\ existing \subseteq Rows /\ links \subseteq Links
      /\ LinkedNodes(evidence) \subseteq tree
      /\ \A r, q \in existing : r = q
      /\ \A l, k \in links : l.node = k.node => l = k
  BY DEF LinkTypes, EvidenceBefore, LinksInv
<1>6. /\ \A r \in left : r \in evidence
      /\ \A u \in updated : \E r \in existing, l \in links :
           /\ r \in evidence /\ r.node = l.node
           /\ u = [by |-> r.by, node |-> l.node, stance |-> l.stance]
      /\ \A r \in existing, l \in links : r \in evidence /\ r.node = l.node =>
           [by |-> r.by, node |-> l.node, stance |-> l.stance] \in updated
  <2>1. \A r \in Rows, l \in Links :
          [r EXCEPT !.stance = l.stance] = [by |-> r.by, node |-> r.node, stance |-> l.stance]
    BY DEF Rows, Links
  <2>2. ASSUME NEW u \in updated
        PROVE  \E r \in existing, l \in links :
                 /\ r \in evidence /\ r.node = l.node
                 /\ u = [by |-> r.by, node |-> l.node, stance |-> l.stance]
    <3>1. PICK x \in pairs : u = [x[1] EXCEPT !.stance = x[2].stance]
      OBVIOUS
    <3>2. x[1] \in evidence /\ x[1] \in existing /\ x[2] \in links /\ x[1].node = x[2].node
      OBVIOUS
    <3>. QED BY <1>5, <2>1, <3>1, <3>2
  <2>3. ASSUME NEW r \in existing, NEW l \in links, r \in evidence, r.node = l.node
        PROVE  [by |-> r.by, node |-> l.node, stance |-> l.stance] \in updated
    <3>1. r \in kept
      BY <2>3 DEF StaleRows, LinkedNodes
    <3>2. <<r, l>> \in pairs
      BY <2>3, <3>1
    <3>. DEFINE pair == <<r, l>>
    <3>3. pair[1] = r /\ pair[2] = l /\ pair \in pairs
      BY <3>2
    <3>. HIDE DEF pair, pairs
    <3>4. [pair[1] EXCEPT !.stance = pair[2].stance] \in updated
      BY <3>3
    <3>5. [r EXCEPT !.stance = l.stance] \in updated
      BY <3>3, <3>4
    <3>6. [r EXCEPT !.stance = l.stance] = [by |-> r.by, node |-> r.node, stance |-> l.stance]
      BY <1>5, <2>1
    <3>. QED BY <2>3, <3>5, <3>6
  <2>. QED BY <2>2, <2>3
<1>7. /\ \A q \in new : \E l \in links : /\ l.node \notin LinkedNodes(existing)
                                         /\ q = [by |-> "self", node |-> l.node, stance |-> l.stance]
      /\ \A l \in links : l.node \notin LinkedNodes(existing) =>
           [by |-> "self", node |-> l.node, stance |-> l.stance] \in new
      /\ \A l \in links : l.node \notin LinkedNodes(existing) => l.node \in LinkedNodes(added)
  BY DEF LinkedNodes
<1>8. meanwhile # "after" => left = {} /\ evidence = {r \in existing : r.node \in tree}
  <2>1. meanwhile # "after" => evidence = {r \in existing : r.node \in tree}
    BY <1>1 DEF EvidenceBefore
  <2>. QED BY <2>1 DEF StaleRows
<1>. HIDE DEF added, updated, left, new
<1>9. outcome' = "linked" => evidence' \subseteq Rows /\ LinkedNodes(evidence') \subseteq tree
  <2>. SUFFICES ASSUME outcome' = "linked", NEW r \in evidence'
                PROVE  r \in Rows /\ r.node \in tree
    BY DEF LinkedNodes
  <2>1. CASE r \in left
    BY <1>5, <1>6, <2>1 DEF LinkedNodes
  <2>2. CASE r \in updated
    <3>1. PICK q \in existing, l \in links :
            /\ q \in evidence /\ q.node = l.node
            /\ r = [by |-> q.by, node |-> l.node, stance |-> l.stance]
      BY <1>6, <2>2
    <3>. QED BY <1>5, <3>1 DEF LinkedNodes, Rows, Links
  <2>3. CASE r \in new
    <3>1. PICK l \in links : /\ l.node \notin LinkedNodes(existing)
                             /\ r = [by |-> "self", node |-> l.node, stance |-> l.stance]
      BY <1>7, <2>3
    <3>. QED BY <1>1, <1>5, <1>7, <3>1 DEF Rows, Links
  <2>. QED BY <1>1, <2>1, <2>2, <2>3
<1>10. LinkTypes'
  BY <1>1, <1>2, <1>9 DEF LinkTypes, LinkedNodes, Known
<1>11. EvidenceBefore'
  BY <1>1, <1>2, <1>5, <1>9 DEF EvidenceBefore
<1>12. LinksInv'
  BY <1>1, <1>2, <1>3 DEF LinksInv, LinkedNodes
<1>13. EvidenceIsLinked'
  <2>. SUFFICES ASSUME outcome' = "linked", meanwhile # "after"
                PROVE  /\ LinkedNodes(evidence') = LinkedNodes(links) \cap tree
                       /\ \A r, q \in evidence' : r.node = q.node => r = q
                       /\ \A r \in evidence' : [node |-> r.node, stance |-> r.stance] \in links
                       /\ LinkedNodes(links) \subseteq Range(traces[1].selected_node_ids)
    BY <1>1, <1>2 DEF EvidenceIsLinked, LinkedNodes
  <2>1. evidence' = updated \cup new /\ LinkedNodes(evidence') \subseteq tree
    BY <1>1, <1>8, <1>9
  <2>2. ASSUME NEW r \in evidence'
        PROVE  \E l \in links : /\ r.node = l.node /\ r.stance = l.stance
                                /\ [node |-> r.node, stance |-> r.stance] = l
                                /\ \/ r.node \in LinkedNodes(existing)
                                      /\ \E q \in existing : r.by = q.by
                                   \/ r.node \notin LinkedNodes(existing) /\ r.by = "self"
                                /\ r = [by |-> r.by, node |-> l.node, stance |-> l.stance]
    <3>1. \A l \in links : l = [node |-> l.node, stance |-> l.stance]
      BY <1>5 DEF Links
    <3>2. CASE r \in updated
      <4>1. PICK q \in existing, l \in links :
              /\ q \in evidence /\ q.node = l.node
              /\ r = [by |-> q.by, node |-> l.node, stance |-> l.stance]
        BY <1>6, <3>2
      <4>. QED BY <3>1, <4>1 DEF LinkedNodes
    <3>3. CASE r \in new
      <4>1. PICK l \in links : /\ l.node \notin LinkedNodes(existing)
                               /\ r = [by |-> "self", node |-> l.node, stance |-> l.stance]
        BY <1>7, <3>3
      <4>. QED BY <3>1, <4>1
    <3>. QED BY <2>1, <3>2, <3>3
  <2>3. ASSUME NEW l \in links, l.node \in tree
        PROVE  l.node \in LinkedNodes(evidence')
    <3>1. CASE l.node \in LinkedNodes(existing)
      <4>1. PICK r \in existing : r.node = l.node
        BY <3>1 DEF LinkedNodes
      <4>2. r \in evidence
        BY <1>8, <2>3, <4>1
      <4>3. [by |-> r.by, node |-> l.node, stance |-> l.stance] \in evidence'
        BY <1>6, <2>1, <4>1, <4>2
      <4>. QED BY <4>3 DEF LinkedNodes
    <3>2. CASE l.node \notin LinkedNodes(existing)
      <4>1. [by |-> "self", node |-> l.node, stance |-> l.stance] \in evidence'
        BY <1>7, <2>1, <3>2
      <4>. QED BY <4>1 DEF LinkedNodes
    <3>. QED BY <3>1, <3>2
  <2>4. LinkedNodes(evidence') = LinkedNodes(links) \cap tree
    BY <2>1, <2>2, <2>3 DEF LinkedNodes
  <2>5. ASSUME NEW r \in evidence', NEW q \in evidence', r.node = q.node
        PROVE  r = q
    <3>1. PICK l \in links : /\ r.node = l.node
                             /\ \/ r.node \in LinkedNodes(existing)
                                   /\ \E x \in existing : r.by = x.by
                                \/ r.node \notin LinkedNodes(existing) /\ r.by = "self"
                             /\ r = [by |-> r.by, node |-> l.node, stance |-> l.stance]
      BY <2>2
    <3>2. PICK k \in links : /\ q.node = k.node
                             /\ \/ q.node \in LinkedNodes(existing)
                                   /\ \E x \in existing : q.by = x.by
                                \/ q.node \notin LinkedNodes(existing) /\ q.by = "self"
                             /\ q = [by |-> q.by, node |-> k.node, stance |-> k.stance]
      BY <2>2
    <3>3. l = k
      BY <1>5, <2>5, <3>1, <3>2
    <3>4. r.by = q.by
      BY <1>5, <2>5, <3>1, <3>2
    <3>. QED BY <3>1, <3>2, <3>3, <3>4
  <2>6. LinkedNodes(links) \subseteq Range(traces[1].selected_node_ids)
    <3>1. LinkedNodes(links) \subseteq Range(selection)
      BY DEF LinksInv
    <3>2. traces = <<>> => LinkedNodes(links) = {}
      <4>1. traces = <<>> => Range(selection) = {}
        BY DEF selection, Range
      <4>. QED BY <3>1, <4>1
    <3>. QED BY <3>1, <3>2 DEF selection
  <2>. QED BY <2>2, <2>4, <2>5, <2>6
<1>. QED BY <1>4, <1>10, <1>11, <1>12, <1>13

LEMMA NextStages ==
  ASSUME RequestInv, Next
  PROVE  StagesInv'
BY TraverseStages, SynthesisStages, LoadCandidatesStages, ClassifyStages, ReadExistingStages,
   SaveLinksStages, IndexingStages, LinkElsewhereStages
   DEF Next, RequestStep

LEMMA RequestIsInv == Spec => []RequestInv
<1>1. Init => RequestInv
  BY InitWalk, InitStages DEF RequestInv
<1>2. RequestInv /\ [Next]_vars => RequestInv'
  <2>. SUFFICES ASSUME RequestInv, [Next]_vars PROVE RequestInv'
    OBVIOUS
  <2>1. WalkInv'
    BY NextWalk DEF RequestInv
  <2>2. CASE Next
    BY <2>1, <2>2, NextStages DEF RequestInv
  <2>3. CASE UNCHANGED vars
    <3>1. /\ UNCHANGED <<traversalVars, requestVars, evidence, meanwhile>>
          /\ tree' = tree /\ builds' = builds /\ pc' = pc /\ traces' = traces
      BY <2>3 DEF vars, traversalVars, treeVars, walkVars
    <3>2. UNCHANGED <<purpose, stage, attempts, cited, outcome, offered, links, existing, evidence,
                      meanwhile>>
      BY <3>1 DEF requestVars
    <3>3. selection' = selection /\ citable' = citable
      BY <3>1, SameSelection
    <3>4. CitesSelected => CitesSelected'
      <4>1. cited' = cited /\ Cardinality(citable') = Cardinality(citable)
        BY <3>2, <3>3
      <4>. QED BY <3>1, <3>3, <4>1 DEF CitesSelected
    <3>5. AskInv'
      BY <3>2, <3>4 DEF RequestInv, StagesInv, AskInv
    <3>6. LinkTypes' /\ EvidenceBefore' /\ LinksInv' /\ EvidenceIsLinked'
      BY <3>1, <3>2, LinksAreLeft
    <3>. QED BY <2>1, <3>5, <3>6 DEF RequestInv, StagesInv
  <2>. QED BY <2>2, <2>3
<1>. QED BY <1>1, <1>2, PTL DEF Spec

LEMMA AnswersFollowTraces == RequestInv => AnswersAreGrounded
<1>. SUFFICES ASSUME RequestInv, outcome = "answered"
              PROVE  /\ cited # {}
                     /\ \A n \in cited :
                          /\ \E o \in Range(opened) : o.node = n /\ o.selected
                          /\ n \in Paged /\ PaperOf[n] \in Identified
                     /\ Cardinality({o.node : o \in {x \in Range(opened) : x.selected}} \cap Paged) >= 2
  BY DEF AnswersAreGrounded
<1>1. CitesSelected /\ \A n \in cited : PaperOf[n] \in Identified
  BY DEF RequestInv, StagesInv, AskInv
<1>2. pc = "done" /\ cited # {} /\ cited \subseteq citable /\ Cardinality(citable) >= 2
  BY <1>1 DEF CitesSelected
<1>3. Len(traces) = 1 /\ \A k \in DOMAIN traces : Tells(traces[k], opened, loaded, enough, limit)
  BY <1>2, TraceTells DEF RequestInv, WalkInv
<1>4. Range(selection) = {o.node : o \in {x \in Range(opened) : x.selected}}
  <2>1. traces # <<>> /\ 1 \in DOMAIN traces
    BY <1>3
  <2>2. Tells(traces[1], opened, loaded, enough, limit)
    BY <1>3, <2>1
  <2>3. Range(traces[1].selected_node_ids) = {o.node : o \in {x \in Range(opened) : x.selected}}
    BY <2>2 DEF Tells
  <2>. QED BY <2>1, <2>3 DEF selection
<1>5. citable = {o.node : o \in {x \in Range(opened) : x.selected}} \cap Paged
  BY <1>4 DEF citable
<1>. QED BY <1>1, <1>2, <1>5

\* An answer that is shown cites nodes its traversal opened and selected, of
\* at least two that could be cited, whatever the model returned:
\* AnswersAreGrounded, of synthesize and render_citation.
THEOREM AnswersCiteSelectedNodes == Spec => []AnswersAreGrounded
BY RequestIsInv, AnswersFollowTraces, PTL

\* A claim that was linked has the evidence of the links just made, and no
\* other, as long as no other process saved between the read and the writes
\* and whatever is indexed meanwhile: EvidenceIsLinked, of save_links.
THEOREM LinkedClaimsHaveTheirLinks == Spec => []EvidenceIsLinked
<1>1. RequestInv => EvidenceIsLinked
  BY DEF RequestInv, StagesInv
<1>. QED BY <1>1, RequestIsInv, PTL
=============================================================================
