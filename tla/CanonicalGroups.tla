-------------------------- MODULE CanonicalGroups --------------------------
(***************************************************************************)
(* _canonical_groups: from the pairs a model called duplicates, in sorted  *)
(* order, groups whose members are pairwise duplicates, kept in a union-   *)
(* find forest.  One step is one pass of a loop body: taking a pair, one   *)
(* hop of find (which halves the path), or the decision about a pair.      *)
(*                                                                         *)
(* A pair is the set of its two claims.  parent and members hold every     *)
(* claim from the start, where the code adds a claim at its first find:    *)
(* a claim alone in its group is filtered out of the result either way.    *)
(***************************************************************************)
EXTENDS Naturals, FiniteSets

CONSTANT Claims       \* ids of the compared claims

ASSUME ClaimsAssumption == Claims \subseteq Nat

VARIABLES
  accepted,   \* the pairs the model called duplicates
  todo,       \* accepted pairs not yet taken
  pc,         \* "take", "left", "right", "decide" or "done"
  pair,       \* the pair being processed
  cursor,     \* where find stands in the forest
  leftRoot,   \* what find returned for the smaller claim of the pair
  parent,     \* the forest
  members     \* root -> the claims of its tree

vars == <<accepted, todo, pc, pair, cursor, leftRoot, parent, members>>

Pairs == {{c, d} : c, d \in Claims} \ {{c} : c \in Claims}
Lower(p) == CHOOSE c \in p : \A d \in p : c <= d
Upper(p) == CHOOSE c \in p : \A d \in p : d <= c

\* The order sorted() puts the pairs in.
Before(p, q) ==
  \/ Lower(p) < Lower(q)
  \/ Lower(p) = Lower(q) /\ Upper(p) <= Upper(q)

\* Mutant: it is enough that one member of each tree is a duplicate.
SomePairAccepted(l, r) ==
  \E c \in members[l], d \in members[r] : {c, d} \in accepted

AllPairsAccepted(l, r) ==
  \A c \in members[l], d \in members[r] : {c, d} \in accepted

-----------------------------------------------------------------------------
Init ==
  /\ accepted \in SUBSET Pairs
  /\ todo = accepted
  /\ pc = "take"
  /\ pair = {}
  /\ cursor = 0
  /\ leftRoot = 0
  /\ parent = [c \in Claims |-> c]
  /\ members = [c \in Claims |-> {c}]

TakePair ==
  /\ pc = "take"
  /\ \E p \in todo :
       /\ \A q \in todo : Before(p, q)
       /\ todo' = todo \ {p}
       /\ pair' = p
       /\ cursor' = Lower(p)
  /\ pc' = "left"
  /\ UNCHANGED <<accepted, leftRoot, parent, members>>

AtRoot == parent[cursor] = cursor

Halved == parent' = [parent EXCEPT ![cursor] = parent[parent[cursor]]]

\* Mutant: the loop of find does not advance.
HopInPlace ==
  /\ pc \in {"left", "right"}
  /\ ~AtRoot
  /\ Halved
  /\ UNCHANGED <<accepted, todo, pc, pair, cursor, leftRoot, members>>

\* One pass of find's loop.
Hop ==
  /\ pc \in {"left", "right"}
  /\ ~AtRoot
  /\ Halved
  /\ cursor' = parent[parent[cursor]]
  /\ UNCHANGED <<accepted, todo, pc, pair, leftRoot, members>>

LeftFound ==
  /\ pc = "left" /\ AtRoot
  /\ leftRoot' = cursor
  /\ cursor' = Upper(pair)
  /\ pc' = "right"
  /\ UNCHANGED <<accepted, todo, pair, parent, members>>

RightFound ==
  /\ pc = "right" /\ AtRoot
  /\ pc' = "decide"
  /\ UNCHANGED <<accepted, todo, pair, cursor, leftRoot, parent, members>>

\* Mutant: the larger of the two roots becomes the new one.
NewRootIsLarger(l, r) == IF l <= r THEN r ELSE l

NewRoot(l, r) == IF l <= r THEN l ELSE r

\* Mutant: the group of the root that lost is not popped.
UnionWithoutPop(l, r) ==
  LET new == NewRoot(l, r)
      old == IF new = l THEN r ELSE l
  IN  /\ parent' = [parent EXCEPT ![old] = new]
      /\ members' = [members EXCEPT ![new] = @ \cup members[old]]

Union(l, r) ==
  LET new == NewRoot(l, r)
      old == IF new = l THEN r ELSE l
  IN  /\ parent' = [parent EXCEPT ![old] = new]
      /\ members' = [c \in DOMAIN members \ {old} |->
                       IF c = new THEN members[new] \cup members[old] ELSE members[c]]

Merge ==
  /\ pc = "decide"
  /\ leftRoot # cursor
  /\ AllPairsAccepted(leftRoot, cursor)
  /\ Union(leftRoot, cursor)
  /\ pc' = "take"
  /\ UNCHANGED <<accepted, todo, pair, cursor, leftRoot>>

\* Mutant: a pair may be passed over for no reason.
KeepApartAnyway ==
  /\ pc = "decide"
  /\ pc' = "take"
  /\ UNCHANGED <<accepted, todo, pair, cursor, leftRoot, parent, members>>

KeepApart ==
  /\ pc = "decide"
  /\ leftRoot = cursor \/ ~AllPairsAccepted(leftRoot, cursor)
  /\ pc' = "take"
  /\ UNCHANGED <<accepted, todo, pair, cursor, leftRoot, parent, members>>

\* Mutant: the last pair is not looked at.
ReturnEarly ==
  /\ pc = "take" /\ Cardinality(todo) <= 1
  /\ pc' = "done"
  /\ UNCHANGED <<accepted, todo, pair, cursor, leftRoot, parent, members>>

Return ==
  /\ pc = "take" /\ todo = {}
  /\ pc' = "done"
  /\ UNCHANGED <<accepted, todo, pair, cursor, leftRoot, parent, members>>

Next == TakePair \/ Hop \/ LeftFound \/ RightFound \/ Merge \/ KeepApart \/ Return

Spec == Init /\ [][Next]_vars

\* The function runs to its end: nothing in its loops waits.
FairSpec == Spec /\ WF_vars(Next)

-----------------------------------------------------------------------------
(* Properties.                                                             *)

\* Every variable has its type; the keys of members are the roots.
TypeOK ==
  /\ accepted \subseteq Pairs
  /\ todo \subseteq accepted
  /\ pc \in {"take", "left", "right", "decide", "done"}
  /\ parent \in [Claims -> Claims]
  /\ members \in [DOMAIN members -> SUBSET Claims]
  /\ DOMAIN members = {c \in Claims : parent[c] = c}

\* Every claim is in exactly one group: no claim is merged twice, which
\* save_canonical_groups relies on when it updates group after group.
GroupsPartition ==
  /\ \A c \in Claims : \E r \in DOMAIN members : c \in members[r]
  /\ \A r, s \in DOMAIN members : r # s => members[r] \cap members[s] = {}

\* Claims end up in one group only when the model called every two of them
\* duplicates: a chain of pairwise answers merges nothing (identity.py:371).
GroupsAreCliques ==
  \A r \in DOMAIN members : \A c, d \in members[r] : c # d => {c, d} \in accepted

\* The canonical claim of a group is its smallest, that is oldest, id
\* (identity.py:379), and find only ever goes to smaller ids.
RootIsLeast ==
  /\ \A r \in DOMAIN members : r \in members[r] /\ \A c \in members[r] : r <= c
  /\ \A c \in Claims : parent[c] <= c

\* find lands in the tree the pair's claim is in: path halving moves no claim
\* to another tree (identity.py:361).
FindStaysInTree ==
  /\ \A r \in DOMAIN members : \A c \in members[r] : parent[c] \in members[r]
  /\ pc \in {"left", "right", "decide"} =>
       /\ pair \in accepted \ todo
       /\ \E r \in DOMAIN members :
            /\ cursor \in members[r]
            /\ (IF pc = "left" THEN Lower(pair) ELSE Upper(pair)) \in members[r]
  /\ pc \in {"right", "decide"} =>
       leftRoot \in DOMAIN members /\ Lower(pair) \in members[leftRoot]
  /\ pc = "decide" => cursor \in DOMAIN members

\* Nothing the model called duplicates is left apart without a reason: for
\* each pair that was decided, its claims share a group or some two members
\* of their groups were told apart.
DecidedPairsAreJustified ==
  \A p \in accepted \ todo :
    (pc \in {"left", "right", "decide"} => p # pair) =>
      \A r, s \in DOMAIN members :
        r # s /\ Lower(p) \in members[r] /\ Upper(p) \in members[s] => ~AllPairsAccepted(r, s)

\* When the loop is over no two groups could still be merged.
GroupsAreMaximal ==
  pc = "done" =>
    \A r, s \in DOMAIN members : r # s => ~AllPairsAccepted(r, s)

\* The groups of the forest are joined as CliqueGrouping says: a step of the
\* loop joins two groups that may be joined or changes none, and the function
\* returns only when nothing is left to join (identity.py:350).
Promise == INSTANCE CliqueGrouping
             WITH groups <- {members[r] : r \in DOMAIN members}, finished <- (pc = "done")
ImplementsPromise == Promise!Spec

\* The function returns, whatever the pairs.
Returns == <>(pc = "done")
=============================================================================
