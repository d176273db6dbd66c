----------------------- MODULE CanonicalGroupsProofs -----------------------
(***************************************************************************)
(* Proofs about CanonicalGroups for every set of claims and every answer   *)
(* of the model: groups are cliques, disjoint, named by their least claim, *)
(* and no two of them could still be merged when the function returns.     *)
(***************************************************************************)
EXTENDS CanonicalGroups, TLAPS

\* The inductive invariant.
Forest == TypeOK /\ GroupsPartition /\ RootIsLeast
IInv == Forest /\ GroupsAreCliques /\ FindStaysInTree /\ DecidedPairsAreJustified

-----------------------------------------------------------------------------
(* Pairs and groups.                                                       *)

LEMMA PairEnds ==
  ASSUME NEW p \in Pairs
  PROVE  Lower(p) \in p /\ Upper(p) \in p /\ p = {Lower(p), Upper(p)}
<1>1. PICK c \in Claims, d \in Claims : p = {c, d} /\ c # d
  BY DEF Pairs
<1>2. c \in Nat /\ d \in Nat
  BY ClaimsAssumption
<1>3. CASE c < d
  <2>1. Lower(p) = c
    BY <1>1, <1>2, <1>3 DEF Lower
  <2>2. Upper(p) = d
    BY <1>1, <1>2, <1>3 DEF Upper
  <2>. QED
    BY <1>1, <2>1, <2>2
<1>4. CASE d < c
  <2>1. Lower(p) = d
    BY <1>1, <1>2, <1>4 DEF Lower
  <2>2. Upper(p) = c
    BY <1>1, <1>2, <1>4 DEF Upper
  <2>. QED
    BY <1>1, <2>1, <2>2
<1>. QED
  BY <1>1, <1>2, <1>3, <1>4

LEMMA AllPairsSymmetric ==
  ASSUME NEW r, NEW s, AllPairsAccepted(r, s)
  PROVE  AllPairsAccepted(s, r)
<1>1. \A c, d : {c, d} = {d, c}
  OBVIOUS
<1>. QED
  BY <1>1, Zenon DEF AllPairsAccepted

\* A claim is in one group only.
LEMMA OneGroup ==
  ASSUME GroupsPartition, NEW r \in DOMAIN members, NEW s \in DOMAIN members,
         NEW c \in members[r], c \in members[s]
  PROVE  r = s
BY DEF GroupsPartition

-----------------------------------------------------------------------------
LEMMA InitInvariant == Init => IInv
<1>. SUFFICES ASSUME Init PROVE IInv
  OBVIOUS
<1>1. TypeOK
  BY DEF Init, TypeOK
<1>2. GroupsPartition
  BY DEF Init, GroupsPartition
<1>3. RootIsLeast
  BY ClaimsAssumption DEF Init, RootIsLeast
<1>4. GroupsAreCliques
  BY DEF Init, GroupsAreCliques
<1>5. FindStaysInTree
  BY DEF Init, FindStaysInTree
<1>6. DecidedPairsAreJustified
  BY DEF Init, DecidedPairsAreJustified
<1>. QED
  BY <1>1, <1>2, <1>3, <1>4, <1>5, <1>6 DEF IInv, Forest

-----------------------------------------------------------------------------
(* Steps that leave the groups alone.                                      *)

LEMMA GroupsUnchanged ==
  ASSUME GroupsPartition, GroupsAreCliques, UNCHANGED <<accepted, members>>
  PROVE  GroupsPartition' /\ GroupsAreCliques'
BY DEF GroupsPartition, GroupsAreCliques

LEMMA ForestUnchanged ==
  ASSUME RootIsLeast, GroupsPartition, GroupsAreCliques, UNCHANGED <<accepted, parent, members>>
  PROVE  GroupsPartition' /\ RootIsLeast' /\ GroupsAreCliques'
BY DEF GroupsPartition, RootIsLeast, GroupsAreCliques

LEMMA TakePairInvariant ==
  ASSUME IInv, TakePair
  PROVE  IInv'
<1>1. PICK p \in todo : todo' = todo \ {p} /\ pair' = p /\ cursor' = Lower(p)
  BY DEF TakePair
<1>2. /\ pc = "take" /\ pc' = "left"
      /\ UNCHANGED <<accepted, leftRoot, parent, members>>
  BY DEF TakePair
<1>3. TypeOK'
  BY <1>1, <1>2 DEF IInv, Forest, TypeOK
<1>4. GroupsPartition' /\ RootIsLeast' /\ GroupsAreCliques'
  BY <1>2, ForestUnchanged DEF IInv, Forest
<1>5. FindStaysInTree'
  <2>1. p \in Pairs /\ p \in accepted
    BY DEF IInv, Forest, TypeOK
  <2>2. Lower(p) \in Claims
    BY <2>1, PairEnds DEF Pairs
  <2>3. PICK r \in DOMAIN members : Lower(p) \in members[r]
    BY <2>2 DEF IInv, Forest, GroupsPartition
  <2>. QED
    BY <1>1, <1>2, <2>1, <2>3 DEF IInv, FindStaysInTree
<1>6. DecidedPairsAreJustified'
  <2>1. \A r, s : AllPairsAccepted(r, s)' <=> AllPairsAccepted(r, s)
    BY <1>2 DEF AllPairsAccepted
  <2>. QED
    BY <1>1, <1>2, <2>1 DEF IInv, DecidedPairsAreJustified
<1>. QED
  BY <1>3, <1>4, <1>5, <1>6 DEF IInv, Forest

LEMMA HopInvariant ==
  ASSUME IInv, Hop
  PROVE  IInv'
<1>1. /\ pc \in {"left", "right"}
      /\ parent[cursor] # cursor
      /\ parent' = [parent EXCEPT ![cursor] = parent[parent[cursor]]]
      /\ cursor' = parent[parent[cursor]]
      /\ UNCHANGED <<accepted, todo, pc, pair, leftRoot, members>>
  BY DEF Hop, AtRoot, Halved
<1>2. PICK r \in DOMAIN members :
        cursor \in members[r] /\ (IF pc = "left" THEN Lower(pair) ELSE Upper(pair)) \in members[r]
  BY <1>1 DEF IInv, FindStaysInTree
<1>3. /\ members[r] \subseteq Claims
      /\ \A c \in members[r] : parent[c] \in members[r]
  BY DEF IInv, Forest, TypeOK, FindStaysInTree
<1>4. cursor \in Claims /\ parent[parent[cursor]] \in members[r] /\ parent[cursor] \in Claims
  BY <1>2, <1>3
\* Halving keeps the roots: the cursor is none and does not become one.
<1>5. /\ parent[parent[cursor]] \in Claims
      /\ parent[parent[cursor]] < cursor
  <2>1. parent[cursor] <= cursor /\ parent[parent[cursor]] <= parent[cursor]
    BY <1>4 DEF IInv, Forest, RootIsLeast
  <2>2. parent[parent[cursor]] \in Claims
    BY <1>4 DEF IInv, Forest, TypeOK
  <2>. QED
    BY <1>1, <1>4, <2>1, <2>2, ClaimsAssumption
<1>6. TypeOK'
  <2>1. parent' \in [Claims -> Claims]
    BY <1>1, <1>5 DEF IInv, Forest, TypeOK
  <2>2. \A c \in Claims : parent'[c] = c <=> parent[c] = c
    BY <1>1, <1>4, <1>5, ClaimsAssumption DEF IInv, Forest, TypeOK
  <2>3. DOMAIN members' = {c \in Claims : parent'[c] = c}
    BY <1>1, <2>2 DEF IInv, Forest, TypeOK
  <2>. QED
    BY <1>1, <2>1, <2>3 DEF IInv, Forest, TypeOK
<1>7. GroupsPartition' /\ GroupsAreCliques'
  BY <1>1, GroupsUnchanged DEF IInv, Forest
<1>8. RootIsLeast'
  <2>1. \A c \in Claims : parent'[c] <= c
    BY <1>1, <1>4, <1>5, ClaimsAssumption DEF IInv, Forest, TypeOK, RootIsLeast
  <2>. QED
    BY <1>1, <2>1 DEF IInv, Forest, RootIsLeast
<1>9. FindStaysInTree'
  <2>1. ASSUME NEW s \in DOMAIN members, NEW c \in members[s]
        PROVE  parent'[c] \in members[s]
    <3>1. CASE c = cursor
      <4>1. s = r
        BY <1>2, <3>1, OneGroup DEF IInv, Forest
      <4>. QED
        BY <1>1, <1>4, <3>1, <4>1 DEF IInv, Forest, TypeOK
    <3>2. CASE c # cursor
      <4>1. c \in Claims /\ parent[c] \in members[s]
        BY DEF IInv, Forest, TypeOK, FindStaysInTree
      <4>. QED
        BY <1>1, <3>2, <4>1 DEF IInv, Forest, TypeOK
    <3>. QED
      BY <3>1, <3>2
  <2>2. cursor' \in members[r]
    BY <1>1, <1>4
  <2>3. Lower(pair)' = Lower(pair) /\ Upper(pair)' = Upper(pair)
    BY <1>1
  <2>. QED
    BY <1>1, <1>2, <2>1, <2>2, <2>3 DEF IInv, FindStaysInTree
<1>10. DecidedPairsAreJustified'
  BY <1>1 DEF IInv, DecidedPairsAreJustified, AllPairsAccepted
<1>. QED
  BY <1>6, <1>7, <1>8, <1>9, <1>10 DEF IInv, Forest

LEMMA FoundInvariant ==
  ASSUME IInv, LeftFound \/ RightFound
  PROVE  IInv'
<1>1. /\ pc \in {"left", "right"} /\ parent[cursor] = cursor
      /\ pc' \in {"right", "decide"}
      /\ UNCHANGED <<accepted, todo, pair, parent, members>>
  BY DEF LeftFound, RightFound, AtRoot
<1>2. pair \in accepted /\ pair \in Pairs /\ pair \notin todo
  BY <1>1 DEF IInv, Forest, TypeOK, FindStaysInTree
<1>3. PICK r \in DOMAIN members :
        cursor \in members[r] /\ (IF pc = "left" THEN Lower(pair) ELSE Upper(pair)) \in members[r]
  BY <1>1 DEF IInv, FindStaysInTree
\* A claim that is its own parent is a root, and the root of its own group.
<1>4. cursor = r
  <2>1. cursor \in DOMAIN members /\ cursor \in members[cursor]
    BY <1>1, <1>3 DEF IInv, Forest, TypeOK, RootIsLeast
  <2>. QED
    BY <1>3, <2>1, OneGroup DEF IInv, Forest
<1>5. TypeOK'
  BY <1>1 DEF IInv, Forest, TypeOK
<1>6. GroupsPartition' /\ RootIsLeast' /\ GroupsAreCliques'
  BY <1>1, ForestUnchanged DEF IInv, Forest
<1>7. DecidedPairsAreJustified'
  BY <1>1 DEF IInv, DecidedPairsAreJustified, AllPairsAccepted
<1>8. FindStaysInTree'
  <2>1. CASE LeftFound
    <3>1. pc = "left" /\ pc' = "right" /\ leftRoot' = cursor /\ cursor' = Upper(pair)
      BY <2>1 DEF LeftFound
    <3>2. PICK s \in DOMAIN members : Upper(pair) \in members[s]
      BY <1>2, PairEnds DEF IInv, Forest, GroupsPartition, Pairs
    <3>. QED
      BY <1>1, <1>2, <1>3, <1>4, <3>1, <3>2 DEF IInv, FindStaysInTree
  <2>2. CASE RightFound
    <3>1. pc = "right" /\ pc' = "decide" /\ UNCHANGED <<leftRoot, cursor>>
      BY <2>2 DEF RightFound
    <3>. QED
      BY <1>1, <1>2, <1>3, <1>4, <3>1 DEF IInv, FindStaysInTree
  <2>. QED
    BY <2>1, <2>2
<1>. QED
  BY <1>5, <1>6, <1>7, <1>8 DEF IInv, Forest

LEMMA ReturnInvariant ==
  ASSUME IInv, Return
  PROVE  IInv'
<1>1. /\ pc = "take" /\ pc' = "done"
      /\ UNCHANGED <<accepted, todo, pair, cursor, leftRoot, parent, members>>
  BY DEF Return
<1>2. TypeOK'
  BY <1>1 DEF IInv, Forest, TypeOK
<1>3. GroupsPartition' /\ RootIsLeast' /\ GroupsAreCliques'
  BY <1>1, ForestUnchanged DEF IInv, Forest
<1>4. FindStaysInTree'
  BY <1>1 DEF IInv, FindStaysInTree
<1>5. DecidedPairsAreJustified'
  BY <1>1 DEF IInv, DecidedPairsAreJustified, AllPairsAccepted
<1>. QED
  BY <1>2, <1>3, <1>4, <1>5 DEF IInv, Forest

-----------------------------------------------------------------------------
(* The decision about a pair.                                              *)

\* When a pair is decided, its claims are in the groups of the two roots.
LEMMA Deciding ==
  ASSUME IInv, pc = "decide"
  PROVE  /\ leftRoot \in DOMAIN members /\ Lower(pair) \in members[leftRoot]
         /\ cursor \in DOMAIN members /\ Upper(pair) \in members[cursor]
         /\ pair \in accepted \ todo
<1>1. PICK r \in DOMAIN members : cursor \in members[r] /\ Upper(pair) \in members[r]
  BY DEF IInv, FindStaysInTree
<1>2. cursor \in DOMAIN members /\ cursor \in members[cursor]
  BY DEF IInv, Forest, RootIsLeast, FindStaysInTree
<1>3. r = cursor
  BY <1>1, <1>2, OneGroup DEF IInv, Forest
<1>. QED
  BY <1>1, <1>2, <1>3 DEF IInv, FindStaysInTree

LEMMA KeepApartInvariant ==
  ASSUME IInv, KeepApart
  PROVE  IInv'
<1>1. /\ pc = "decide" /\ pc' = "take"
      /\ leftRoot = cursor \/ ~AllPairsAccepted(leftRoot, cursor)
      /\ UNCHANGED <<accepted, todo, pair, cursor, leftRoot, parent, members>>
  BY DEF KeepApart
<1>2. TypeOK'
  BY <1>1 DEF IInv, Forest, TypeOK
<1>3. GroupsPartition' /\ RootIsLeast' /\ GroupsAreCliques'
  BY <1>1, ForestUnchanged DEF IInv, Forest
<1>4. FindStaysInTree'
  BY <1>1 DEF IInv, FindStaysInTree
<1>5. DecidedPairsAreJustified'
  <2>. SUFFICES ASSUME NEW p \in accepted \ todo,
                       NEW r \in DOMAIN members, NEW s \in DOMAIN members,
                       r # s, Lower(p) \in members[r], Upper(p) \in members[s]
                PROVE  ~AllPairsAccepted(r, s)
    BY <1>1 DEF DecidedPairsAreJustified, AllPairsAccepted
  <2>1. CASE p # pair
    BY <2>1 DEF IInv, DecidedPairsAreJustified
  <2>2. CASE p = pair
    <3>1. r = leftRoot /\ s = cursor
      BY <1>1, <2>2, Deciding, OneGroup DEF IInv, Forest
    <3>. QED
      BY <1>1, <3>1
  <2>. QED
    BY <2>1, <2>2
<1>. QED
  BY <1>2, <1>3, <1>4, <1>5 DEF IInv, Forest

LEMMA MergeInvariant ==
  ASSUME IInv, Merge
  PROVE  IInv'
<1>. DEFINE new == NewRoot(leftRoot, cursor)
            old == IF new = leftRoot THEN cursor ELSE leftRoot
<1>1. /\ pc = "decide" /\ pc' = "take" /\ leftRoot # cursor
      /\ AllPairsAccepted(leftRoot, cursor)
      /\ parent' = [parent EXCEPT ![old] = new]
      /\ members' = [c \in DOMAIN members \ {old} |->
                       IF c = new THEN members[new] \cup members[old] ELSE members[c]]
      /\ UNCHANGED <<accepted, todo, pair, cursor, leftRoot>>
  BY DEF Merge, Union
<1>2. /\ leftRoot \in DOMAIN members /\ cursor \in DOMAIN members
      /\ Lower(pair) \in members[leftRoot] /\ Upper(pair) \in members[cursor]
  BY <1>1, Deciding
<1>3. DOMAIN members = {c \in Claims : parent[c] = c} /\ Claims \subseteq Nat
  BY ClaimsAssumption DEF IInv, Forest, TypeOK
<1>4. /\ new \in DOMAIN members /\ old \in DOMAIN members
      /\ {new, old} = {leftRoot, cursor} /\ new < old /\ new # old
  <2>1. leftRoot \in Nat /\ cursor \in Nat /\ leftRoot # cursor
    BY <1>1, <1>2, <1>3
  <2>2. CASE leftRoot < cursor
    <3>1. new = leftRoot /\ old = cursor
      BY <2>1, <2>2 DEF NewRoot
    <3>. HIDE DEF new, old
    <3>. QED
      BY <1>2, <2>1, <2>2, <3>1
  <2>3. CASE cursor < leftRoot
    <3>1. new = cursor /\ old = leftRoot
      BY <2>1, <2>3 DEF NewRoot
    <3>. HIDE DEF new, old
    <3>. QED
      BY <1>2, <2>1, <2>3, <3>1
  <2>. QED
    BY <2>1, <2>2, <2>3
<1>5. AllPairsAccepted(new, old)
  BY <1>1, <1>4, AllPairsSymmetric
<1>. HIDE DEF new, old
<1>6. /\ DOMAIN members' = DOMAIN members \ {old}
      /\ members'[new] = members[new] \cup members[old]
      /\ \A c \in DOMAIN members' : c # new => members'[c] = members[c]
  BY <1>1, <1>4
<1>7. \A c \in Claims : parent'[c] = IF c = old THEN new ELSE parent[c]
  BY <1>1 DEF IInv, Forest, TypeOK
<1>8. TypeOK'
  <2>1. parent' \in [Claims -> Claims]
    BY <1>1, <1>3, <1>4, <1>7 DEF IInv, Forest, TypeOK
  <2>2. DOMAIN members' = {c \in Claims : parent'[c] = c}
    <3>1. \A c \in Claims : parent'[c] = c <=> (parent[c] = c /\ c # old)
      BY <1>3, <1>4, <1>7
    <3>. QED
      BY <1>3, <1>6, <3>1
  <2>3. members' \in [DOMAIN members' -> SUBSET Claims]
    BY <1>1, <1>4, <1>6 DEF IInv, Forest, TypeOK
  <2>. QED
    BY <1>1, <2>1, <2>2, <2>3 DEF IInv, Forest, TypeOK
<1>9. GroupsPartition'
  <2>1. ASSUME NEW c \in Claims
        PROVE  \E r \in DOMAIN members' : c \in members'[r]
    <3>1. PICK r \in DOMAIN members : c \in members[r]
      BY DEF IInv, Forest, GroupsPartition
    <3>2. CASE r = old
      <4>1. c \in members'[new] /\ new \in DOMAIN members'
        BY <1>4, <1>6, <1>3, <3>1, <3>2
      <4>. QED
        BY <4>1
    <3>3. CASE r # old
      <4>1. c \in members'[r] /\ r \in DOMAIN members'
        BY <1>4, <1>6, <3>1, <3>3
      <4>. QED
        BY <4>1
    <3>. QED
      BY <3>2, <3>3
  <2>2. ASSUME NEW r \in DOMAIN members', NEW s \in DOMAIN members', r # s
        PROVE  members'[r] \cap members'[s] = {}
    <3>1. \A q, t \in DOMAIN members : q # t => members[q] \cap members[t] = {}
      BY DEF IInv, Forest, GroupsPartition
    <3>. QED
      BY <1>4, <1>6, <2>2, <3>1
  <2>. QED
    BY <2>1, <2>2 DEF GroupsPartition
<1>10. RootIsLeast'
  <2>1. ASSUME NEW r \in DOMAIN members'
        PROVE  r \in members'[r] /\ \A c \in members'[r] : r <= c
    <3>1. /\ \A q \in DOMAIN members : q \in members[q] /\ \A c \in members[q] : q <= c
          /\ \A q \in DOMAIN members : members[q] \subseteq Nat
      BY <1>3 DEF IInv, Forest, TypeOK, RootIsLeast
    <3>2. CASE r = new
      BY <1>3, <1>4, <1>6, <3>1, <3>2
    <3>3. CASE r # new
      BY <1>6, <3>1, <3>3
    <3>. QED
      BY <3>2, <3>3
  <2>2. ASSUME NEW c \in Claims PROVE parent'[c] <= c
    <3>1. CASE c = old
      BY <1>3, <1>4, <1>7, <3>1
    <3>2. CASE c # old
      BY <1>7, <3>2 DEF IInv, Forest, RootIsLeast
    <3>. QED
      BY <3>1, <3>2
  <2>. QED
    BY <2>1, <2>2 DEF RootIsLeast
<1>11. GroupsAreCliques'
  <2>. SUFFICES ASSUME NEW r \in DOMAIN members', NEW c \in members'[r], NEW d \in members'[r],
                       c # d
                PROVE  {c, d} \in accepted
    BY <1>1 DEF GroupsAreCliques
  <2>1. \A q \in DOMAIN members : \A x, y \in members[q] : x # y => {x, y} \in accepted
    BY DEF IInv, GroupsAreCliques
  <2>2. \A x \in members[new], y \in members[old] : {x, y} \in accepted /\ {y, x} \in accepted
    BY <1>5, AllPairsSymmetric DEF AllPairsAccepted
  <2>3. CASE r = new
    BY <1>4, <1>6, <2>1, <2>2, <2>3
  <2>4. CASE r # new
    BY <1>6, <2>1, <2>4
  <2>. QED
    BY <2>3, <2>4
<1>12. FindStaysInTree'
  <2>1. ASSUME NEW r \in DOMAIN members', NEW c \in members'[r]
        PROVE  parent'[c] \in members'[r]
    <3>1. /\ \A q \in DOMAIN members : \A x \in members[q] : parent[x] \in members[q] /\ x \in Claims
          /\ \A q \in DOMAIN members : q \in members[q]
      BY DEF IInv, Forest, TypeOK, FindStaysInTree, RootIsLeast
    <3>2. CASE c = old
      <4>1. r = new
        BY <1>4, <1>6, <3>1, <3>2, OneGroup DEF IInv, Forest
      <4>. QED
        BY <1>3, <1>4, <1>6, <1>7, <3>1, <3>2, <4>1
    <3>3. CASE c # old
      BY <1>4, <1>6, <1>7, <3>1, <3>3
    <3>. QED
      BY <3>2, <3>3
  <2>. QED
    BY <1>1, <2>1 DEF FindStaysInTree
<1>13. DecidedPairsAreJustified'
  <2>. SUFFICES ASSUME NEW p \in accepted \ todo,
                       NEW r \in DOMAIN members', NEW s \in DOMAIN members',
                       r # s, Lower(p) \in members'[r], Upper(p) \in members'[s],
                       AllPairsAccepted(r, s)'
                PROVE  FALSE
    BY <1>1 DEF DecidedPairsAreJustified
  <2>1. p \in Pairs
    BY DEF IInv, Forest, TypeOK
  <2>2. Lower(p) \in Claims /\ Upper(p) \in Claims
    BY <2>1, PairEnds DEF Pairs
  <2>3. PICK q \in DOMAIN members : Lower(p) \in members[q]
    BY <2>2 DEF IInv, Forest, GroupsPartition
  <2>4. PICK t \in DOMAIN members : Upper(p) \in members[t]
    BY <2>2 DEF IInv, Forest, GroupsPartition
  \* The new groups only grew: each holds the old group of its claim.
  <2>5. members[q] \subseteq members'[r] /\ members[t] \subseteq members'[s]
    BY <1>4, <1>6, <2>3, <2>4, OneGroup DEF IInv, Forest
  <2>6. members'[r] \cap members'[s] = {}
    BY <1>9 DEF GroupsPartition
  <2>7. q # t
    BY <2>3, <2>4, <2>5, <2>6
  <2>8. AllPairsAccepted(q, t)
    BY <1>1, <2>5 DEF AllPairsAccepted
  <2>9. CASE p # pair
    BY <2>3, <2>4, <2>7, <2>8, <2>9 DEF IInv, DecidedPairsAreJustified
  <2>10. CASE p = pair
    <3>1. q = leftRoot /\ t = cursor
      BY <1>2, <2>3, <2>4, <2>10, OneGroup DEF IInv, Forest
    <3>2. members[leftRoot] \subseteq members'[new] /\ members[cursor] \subseteq members'[new]
      <4>1. (leftRoot = new /\ cursor = old) \/ (leftRoot = old /\ cursor = new)
        BY <1>4
      <4>. QED
        BY <1>6, <4>1
    <3>3. Lower(p) \in members'[new] /\ Upper(p) \in members'[new] /\ new \in DOMAIN members'
      BY <1>3, <1>4, <1>6, <2>3, <2>4, <3>1, <3>2
    <3>4. r = new /\ s = new
      BY <1>9, <3>3 DEF GroupsPartition
    <3>. QED
      BY <3>4
  <2>. QED
    BY <2>9, <2>10
<1>. QED
  BY <1>8, <1>9, <1>10, <1>11, <1>12, <1>13 DEF IInv, Forest

-----------------------------------------------------------------------------
(* The theorems.                                                           *)

LEMMA NextInvariant == IInv /\ [Next]_vars => IInv'
<1>. SUFFICES ASSUME IInv, [Next]_vars PROVE IInv'
  OBVIOUS
<1>1. CASE Next
  BY <1>1, TakePairInvariant, HopInvariant, FoundInvariant, MergeInvariant,
     KeepApartInvariant, ReturnInvariant DEF Next
<1>2. CASE UNCHANGED vars
  <2>1. /\ UNCHANGED <<accepted, todo, pc, pair, cursor, leftRoot, parent, members>>
        /\ Lower(pair)' = Lower(pair) /\ Upper(pair)' = Upper(pair)
    BY <1>2 DEF vars
  <2>2. TypeOK'
    BY <2>1 DEF IInv, Forest, TypeOK
  <2>3. GroupsPartition' /\ RootIsLeast' /\ GroupsAreCliques'
    BY <2>1, ForestUnchanged DEF IInv, Forest
  <2>4. FindStaysInTree'
    BY <2>1 DEF IInv, FindStaysInTree
  <2>5. DecidedPairsAreJustified'
    BY <2>1 DEF IInv, DecidedPairsAreJustified, AllPairsAccepted
  <2>. QED
    BY <2>2, <2>3, <2>4, <2>5 DEF IInv, Forest
<1>. QED
  BY <1>1, <1>2

THEOREM InvariantHolds == Spec => []IInv
<1>. QED
  BY InitInvariant, NextInvariant, PTL DEF Spec

\* Whatever the model answered, every claim ends in exactly one group, so
\* merging the groups one after the other is merging them at once.
THEOREM GroupsStayApart == Spec => []GroupsPartition
<1>1. IInv => GroupsPartition
  BY DEF IInv, Forest
<1>. QED
  BY <1>1, InvariantHolds, PTL

\* No two claims are merged that the model did not call duplicates.
THEOREM CliquesOnly == Spec => []GroupsAreCliques
<1>1. IInv => GroupsAreCliques
  BY DEF IInv
<1>. QED
  BY <1>1, InvariantHolds, PTL

\* The canonical claim is the oldest of its group.
THEOREM OldestIsCanonical == Spec => []RootIsLeast
<1>1. IInv => RootIsLeast
  BY DEF IInv, Forest
<1>. QED
  BY <1>1, InvariantHolds, PTL

\* When the function returns, every two groups hold two claims the model
\* told apart (at "done" no pair is left: Return requires it, and nothing
\* after it adds one).
DoneIsDone == pc = "done" => todo = {}

THEOREM NothingLeftToMerge == Spec => []GroupsAreMaximal
<1>1. Init => DoneIsDone
  BY DEF Init, DoneIsDone
<1>2. DoneIsDone /\ [Next]_vars => DoneIsDone'
  BY DEF DoneIsDone, Next, vars, TakePair, Hop, LeftFound, RightFound, Merge, KeepApart, Return
<1>3. Spec => []DoneIsDone
  BY <1>1, <1>2, PTL DEF Spec
<1>4. IInv /\ DoneIsDone => GroupsAreMaximal
  <2>. SUFFICES ASSUME IInv, pc = "done", todo = {},
                       NEW r \in DOMAIN members, NEW s \in DOMAIN members, r # s,
                       AllPairsAccepted(r, s)
                PROVE  FALSE
    BY DEF DoneIsDone, GroupsAreMaximal
  <2>. DEFINE p == {r, s}
  <2>1. r \in members[r] /\ s \in members[s]
    BY DEF IInv, Forest, RootIsLeast
  <2>2. p \in accepted /\ p \in Pairs
    BY <2>1 DEF AllPairsAccepted, IInv, Forest, TypeOK
  <2>3. p = {Lower(p), Upper(p)}
    BY <2>2, PairEnds
  <2>4. (Lower(p) = r /\ Upper(p) = s) \/ (Lower(p) = s /\ Upper(p) = r)
    BY <2>3
  <2>5. AllPairsAccepted(s, r)
    BY AllPairsSymmetric
  <2>. HIDE DEF p
  <2>6. \A q, t \in DOMAIN members :
          q # t /\ Lower(p) \in members[q] /\ Upper(p) \in members[t] => ~AllPairsAccepted(q, t)
    BY <2>2 DEF IInv, DecidedPairsAreJustified
  <2>. QED
    BY <2>1, <2>4, <2>5, <2>6
<1>. QED
  BY <1>3, <1>4, InvariantHolds, PTL

-----------------------------------------------------------------------------
(* The loop implements CliqueGrouping.                                     *)

LEMMA InitImplements == Init => Promise!Init
<1>. SUFFICES ASSUME Init PROVE Promise!Init
  OBVIOUS
<1>1. accepted \subseteq {{c, d} : c, d \in Claims}
  BY DEF Init, Pairs
<1>2. {members[r] : r \in DOMAIN members} = {{c} : c \in Claims}
  BY DEF Init
<1>3. (pc = "done") = FALSE
  BY DEF Init
<1>. QED
  BY <1>1, <1>2, <1>3 DEF Promise!Init

\* Merging two trees joins their groups.
LEMMA MergeImplements ==
  ASSUME IInv, Merge
  PROVE  Promise!Join
<1>. DEFINE g == members[leftRoot]
            h == members[cursor]
            new == NewRoot(leftRoot, cursor)
            old == IF new = leftRoot THEN cursor ELSE leftRoot
            now == {members[r] : r \in DOMAIN members}
<1>1. /\ pc = "decide" /\ pc' = "take" /\ leftRoot # cursor
      /\ AllPairsAccepted(leftRoot, cursor)
      /\ members' = [c \in DOMAIN members \ {old} |->
                       IF c = new THEN members[new] \cup members[old] ELSE members[c]]
      /\ accepted' = accepted
  BY DEF Merge, Union
<1>2. leftRoot \in DOMAIN members /\ cursor \in DOMAIN members
  BY <1>1, Deciding
<1>3. \A r, s \in DOMAIN members : r # s => members[r] # members[s]
  BY DEF IInv, Forest, RootIsLeast, GroupsPartition
<1>4. {new, old} = {leftRoot, cursor} /\ new # old
  BY <1>1 DEF NewRoot
<1>5. g \in now /\ h \in now /\ Promise!Joinable(g, h)
  BY <1>1, <1>2, <1>3 DEF Promise!Joinable, AllPairsAccepted
<1>6. members[new] \cup members[old] = g \cup h /\ {members[new], members[old]} = {g, h}
  BY <1>4
<1>. HIDE DEF new, old, g, h
<1>7. new \in DOMAIN members /\ old \in DOMAIN members
  BY <1>2, <1>4
<1>8. {members'[r] : r \in DOMAIN members'} = (now \ {g, h}) \cup {g \cup h}
  <2>1. DOMAIN members' = DOMAIN members \ {old} /\ members'[new] = g \cup h
    BY <1>1, <1>4, <1>6, <1>7
  <2>2. \A r \in DOMAIN members \ {new, old} : members'[r] = members[r]
    BY <1>1
  <2>3. \A r \in DOMAIN members \ {new, old} : members[r] \in now \ {g, h}
    BY <1>3, <1>6, <1>7
  <2>4. \A r \in DOMAIN members : members[r] \notin {g, h} => r \notin {new, old}
    BY <1>6
  <2>5. {members'[r] : r \in DOMAIN members'} \subseteq (now \ {g, h}) \cup {g \cup h}
    <3>. SUFFICES ASSUME NEW r \in DOMAIN members'
                  PROVE  members'[r] \in (now \ {g, h}) \cup {g \cup h}
      OBVIOUS
    <3>1. CASE r = new
      BY <3>1, <2>1
    <3>2. CASE r # new
      BY <3>2, <2>1, <2>2, <2>3
    <3>. QED
      BY <3>1, <3>2
  <2>6. g \cup h \in {members'[r] : r \in DOMAIN members'}
    BY <2>1, <1>4, <1>7
  <2>7. now \ {g, h} \subseteq {members'[r] : r \in DOMAIN members'}
    <3>. SUFFICES ASSUME NEW r \in DOMAIN members, members[r] \notin {g, h}
                  PROVE  members[r] \in {members'[q] : q \in DOMAIN members'}
      OBVIOUS
    <3>. QED
      BY <2>1, <2>2, <2>4
  <2>. QED
    BY <2>5, <2>6, <2>7
<1>. QED
  BY <1>1, <1>5, <1>8 DEF Promise!Join

\* When the function returns, no two groups can be joined.
LEMMA ReturnImplements ==
  ASSUME Return, IInv, GroupsAreMaximal'
  PROVE  Promise!Finish
<1>1. pc' = "done" /\ members' = members /\ accepted' = accepted
  BY DEF Return
<1>2. \A r, s \in DOMAIN members : r # s => ~AllPairsAccepted(r, s)
  BY <1>1 DEF GroupsAreMaximal, AllPairsAccepted
<1>3. \A g, h \in {members[r] : r \in DOMAIN members} : ~Promise!Joinable(g, h)
  BY <1>2 DEF Promise!Joinable, AllPairsAccepted
<1>. QED
  BY <1>1, <1>3 DEF Promise!Finish

\* What canonicalization does with the model's answer, one loop pass at a
\* time, is to join groups that may be joined until none can be.
THEOREM GroupingKeepsItsPromise == Spec => ImplementsPromise
<1>1. IInv /\ GroupsAreMaximal' /\ [Next]_vars => [Promise!Next]_(Promise!vars)
  <2>. SUFFICES ASSUME IInv, GroupsAreMaximal', [Next]_vars
                PROVE  Promise!Next \/ UNCHANGED Promise!vars
    OBVIOUS
  <2>1. CASE Merge
    BY <2>1, MergeImplements DEF Promise!Next
  <2>2. CASE Return
    BY <2>2, ReturnImplements DEF Promise!Next
  <2>3. CASE TakePair \/ Hop \/ LeftFound \/ RightFound \/ KeepApart
    <3>1. UNCHANGED <<accepted, members>> /\ pc # "done" /\ pc' # "done"
      BY <2>3 DEF TakePair, Hop, LeftFound, RightFound, KeepApart
    <3>. QED
      BY <3>1 DEF Promise!vars
  <2>4. CASE UNCHANGED vars
    BY <2>4 DEF vars, Promise!vars
  <2>. QED
    BY <2>1, <2>2, <2>3, <2>4 DEF Next
<1>. QED
  BY <1>1, InitImplements, InvariantHolds, NothingLeftToMerge, PTL
  DEF Spec, ImplementsPromise, Promise!Spec
=============================================================================
