------------------------ MODULE DiscourseSweepProofs ------------------------
(***************************************************************************)
(* Proofs about the discourse sweep, for every set of posts, papers and    *)
(* workers and every number of sweeps: posts mention each known paper, and *)
(* once; a post a poll returned is not lost; and what the sweeps report    *)
(* adds up to no more than is stored.                                      *)
(***************************************************************************)
EXTENDS DiscourseSweep, FiniteSetTheorems, TLAPS

\* What is known of mentions: they belong to stored posts and known papers.
MentionsInv ==
  /\ OldPapers \subseteq corpus
  /\ mentions \subseteq items \X corpus \X {"arxiv", "doi"}
  /\ MentionedOnce
  /\ KnownPapersAreMentioned

Active(w) == phase[w] # "idle"

\* What a worker that stores the answer of a poll has still to account for.
Accounted(w) ==
  \A p \in seen :
    p.source = At(w) /\ p.source \notin Tolerant /\ ~PushedOut(p) => p \in items \cup held[w].polled

\* A sweep that is alone polls since the time that is recorded, and holds
\* what was ever seen of its source and is not stored.
KeptInv ==
  /\ \A p \in seen : posted[p] > 0
  /\ ~overlapped =>
       /\ \A v, w \in Workers : Active(v) /\ Active(w) => v = w
       /\ \A w \in Workers :
            /\ phase[w] \in {"insert", "open"} => held[w].since = polledAt[At(w)]
            /\ phase[w] \in {"store", "advance"} => Accounted(w)
            /\ phase[w] = "advance" => held[w].polled = {}
  /\ SeenPostsAreKept

\* The items a sweep has reported, or is going to, numbered.
Credited ==
  {c \in (DOMAIN sweep) \X (Nat \ {0}) :
     \/ c[2] <= sweep[c[1]].found
     \/ \E w \in Workers :
          Active(w) /\ held[w].sweep = c[1] /\ c[2] <= held[w].found + held[w].new}

\* Every sweep under way has a row of its own, which reports nothing yet, and
\* for every item credited there is one that is stored.
CountInv ==
  /\ \E n \in Nat : DOMAIN sweep = 1..n
  /\ \A w \in Workers : Active(w) =>
       held[w].sweep \in DOMAIN sweep /\ sweep[held[w].sweep].found = 0
  /\ \A v, w \in Workers :
       Active(v) /\ Active(w) /\ held[v].sweep = held[w].sweep => v = w
  /\ \A w \in Workers : phase[w] \in {"next", "insert", "open"} => held[w].new = 0
  /\ IsFiniteSet(Credited) /\ Cardinality(Credited) <= Cardinality(items)

-----------------------------------------------------------------------------
(* Types.                                                                  *)

LEMMA SourceOfNone == NoSweep.source \in Sources
<1>1. Sources # {}
  BY PostsAssumption DEF Sources
<1>. QED BY <1>1 DEF NoSweep

LEMMA Epoch == 0 \in 0..MaxTime
BY BoundsAssumption

LEMMA NoSweepType == NoSweep \in Held
<1>1. NoSweep.source = CHOOSE s \in Sources : TRUE
  BY DEF NoSweep
<1>2. (CHOOSE s \in Sources : TRUE) \in Sources
  BY <1>1, SourceOfNone
<1>. QED BY <1>2, BoundsAssumption DEF NoSweep, Held

LEMMA PastType ==
  ASSUME NEW h \in Held
  PROVE  Past(h) \in Held
BY SourceOfNone, Epoch DEF Past, Held

\* A worker that goes on, with something else in memory.
LEMMA HeldType ==
  ASSUME TypeOK, NEW w \in Workers, NEW h \in Held,
         NEW step \in {"idle", "next", "insert", "open", "store", "advance"},
         held' = [held EXCEPT ![w] = h], Goto(w, step)
  PROVE  held' \in [Workers -> Held]
         /\ phase' \in [Workers -> {"idle", "next", "insert", "open", "store", "advance"}]
BY DEF TypeOK, Goto

LEMMA InitType == Init => TypeOK
<1>. SUFFICES ASSUME Init PROVE TypeOK
  OBVIOUS
<1>1. held \in [Workers -> Held] /\ phase \in [Workers -> {"idle", "next", "insert", "open", "store", "advance"}]
  BY NoSweepType DEF Init
<1>. QED BY <1>1, CorpusAssumption, SourcesAssumption, BoundsAssumption DEF Init, TypeOK

LEMMA StartType ==
  ASSUME TypeOK, NEW w \in Workers, Start(w)
  PROVE  TypeOK'
<1>. DEFINE r == Cardinality(DOMAIN sweep) + 1
            h == [NoSweep EXCEPT !.sweep = r, !.left = Sources]
<1>1. IsFiniteSet(1..MaxSweeps) /\ DOMAIN sweep \subseteq 1..MaxSweeps
  <2>1. MaxSweeps \in Int
    BY BoundsAssumption
  <2>2. IsFiniteSet(1..MaxSweeps)
    BY <2>1, FS_Interval, 1 \in Int
  <2>. QED BY <2>2 DEF TypeOK
<1>2. r \in 1..MaxSweeps
  BY <1>1, FS_Subset, FS_CardinalityType, BoundsAssumption DEF Start
<1>3. h \in Held
  <2>1. r \in 0..MaxSweeps /\ Sources \in SUBSET Sources
    BY <1>2
  <2>. HIDE DEF r
  <2>. QED BY <2>1, NoSweepType DEF Held
<1>4. held' = [held EXCEPT ![w] = h] /\ Goto(w, "next")
  BY DEF Start
<1>5. sweep' = [q \in DOMAIN sweep \cup {r} |->
                  IF q = r THEN [state |-> "running", found |-> 0] ELSE sweep[q]]
  BY DEF Start
<1>6. [state |-> "running", found |-> 0] \in SweepRow
  BY DEF SweepRow, States
<1>. HIDE DEF r, h
<1>7. DOMAIN sweep' \subseteq 1..MaxSweeps /\ sweep' \in [DOMAIN sweep' -> SweepRow]
  BY <1>1, <1>2, <1>5, <1>6 DEF TypeOK
<1>8. held' \in [Workers -> Held]
      /\ phase' \in [Workers -> {"idle", "next", "insert", "open", "store", "advance"}]
  BY <1>3, <1>4, HeldType
<1>. QED BY <1>7, <1>8 DEF Start, TypeOK, world

LEMMA NextSourceType ==
  ASSUME TypeOK, NEW w \in Workers, NextSource(w)
  PROVE  TypeOK'
<1>1. PICK s \in held[w].left :
        /\ held' = [held EXCEPT ![w].left = @ \ {s}, ![w].source = s, ![w].since = polledAt[s]]
        /\ Goto(w, IF s \in rows THEN "open" ELSE "insert")
  BY DEF NextSource
<1>. DEFINE h == [held[w] EXCEPT !.left = @ \ {s}, !.source = s, !.since = polledAt[s]]
<1>2. held[w] \in Held /\ s \in Sources /\ polledAt[s] \in 0..MaxTime
  BY DEF TypeOK, Held
<1>3. h \in Held
  BY <1>2 DEF Held
<1>4. held' = [held EXCEPT ![w] = h]
  BY <1>1 DEF TypeOK
<1>. HIDE DEF h
<1>5. held' \in [Workers -> Held]
      /\ phase' \in [Workers -> {"idle", "next", "insert", "open", "store", "advance"}]
  BY <1>1, <1>3, <1>4, HeldType
<1>. QED BY <1>5 DEF NextSource, TypeOK, world, stored

\* The steps that leave a worker through with its source.
LEMMA PastSourceType ==
  ASSUME TypeOK, NEW w \in Workers, NEW h \in Held,
         held' = [held EXCEPT ![w] = Past(h)], Goto(w, "next")
  PROVE  held' \in [Workers -> Held]
         /\ phase' \in [Workers -> {"idle", "next", "insert", "open", "store", "advance"}]
BY PastType, HeldType

LEMMA PolledType ==
  ASSUME TypeOK, NEW w \in Workers, NEW back \in SUBSET Posts, Polled(w, back)
  PROVE  TypeOK'
<1>. DEFINE h == [held[w] EXCEPT !.polled = back, !.since = 0, !.attempted = @ + 1]
<1>1. held[w] \in Held /\ held[w].attempted + 1 \in Nat
  BY DEF TypeOK, Held
<1>2. h \in Held
  BY <1>1, Epoch DEF Held
<1>3. held' = [held EXCEPT ![w] = h] /\ Goto(w, "store")
  BY DEF Polled, TypeOK
<1>. HIDE DEF h
<1>4. held' \in [Workers -> Held]
      /\ phase' \in [Workers -> {"idle", "next", "insert", "open", "store", "advance"}]
  BY <1>2, <1>3, HeldType
<1>. QED BY <1>4 DEF Polled, TypeOK, world, stored

LEMMA PollFailsType ==
  ASSUME TypeOK, NEW w \in Workers, PollFails(w) \/ SourceFails(w)
  PROVE  TypeOK'
<1>1. held[w] \in Held /\ held[w].attempted + 1 \in Nat /\ held[w].errors + 1 \in Nat
  BY DEF TypeOK, Held
<1>2. [held[w] EXCEPT !.attempted = @ + 1, !.errors = @ + 1] \in Held
      /\ [held[w] EXCEPT !.errors = @ + 1] \in Held
  BY <1>1 DEF Held
<1>3. PICK h \in Held : held' = [held EXCEPT ![w] = Past(h)]
  BY <1>2 DEF PollFails, SourceFails, TypeOK
<1>4. Goto(w, "next")
  BY DEF PollFails, SourceFails
<1>5. held' \in [Workers -> Held]
      /\ phase' \in [Workers -> {"idle", "next", "insert", "open", "store", "advance"}]
  BY <1>3, <1>4, PastSourceType
<1>. QED BY <1>5 DEF PollFails, SourceFails, TypeOK, world, stored

\* What a post is found to mention has rows.
LEMMA MentionsType ==
  ASSUME NEW p, NEW index \in Indexes(p.names)
  PROVE  MentionsOf(p, index) \subseteq {p} \X corpus \X {"arxiv", "doi"}
<1>1. index \in [{i \in p.names : Bearers(i, corpus) # {}} -> corpus]
  BY DEF Indexes
<1>2. \A i \in DOMAIN index : index[i] \in corpus
  BY <1>1
<1>. QED BY <1>2 DEF MentionsOf

LEMMA StorePostType ==
  ASSUME TypeOK, NEW w \in Workers, StorePost(w)
  PROVE  TypeOK'
<1>1. PICK p \in held[w].polled :
        /\ items' = items \cup {p}
        /\ \E index \in Indexes(p.names) :
             mentions' = IF p \in items THEN mentions ELSE mentions \cup MentionsOf(p, index)
        /\ held' = [held EXCEPT ![w].polled = @ \ {p}, ![w].new = Counted(w, p)]
  BY DEF StorePost
<1>. DEFINE h == [held[w] EXCEPT !.polled = @ \ {p}, !.new = Counted(w, p)]
<1>2. held[w] \in Held
  BY DEF TypeOK
<1>3. Counted(w, p) \in Nat /\ p \in Posts /\ held[w].polled \ {p} \in SUBSET Posts
  BY <1>2 DEF Held, Counted
<1>4. h \in Held
  BY <1>2, <1>3 DEF Held
<1>5. held' = [held EXCEPT ![w] = h]
  BY <1>1 DEF TypeOK
<1>. HIDE DEF h
<1>6. held' \in [Workers -> Held]
  BY <1>4, <1>5 DEF TypeOK
<1>7. mentions' \subseteq items' \X corpus \X {"arxiv", "doi"}
  BY <1>1, MentionsType DEF TypeOK
<1>. QED BY <1>1, <1>3, <1>6, <1>7 DEF StorePost, TypeOK, world

LEMMA CountItemsType ==
  ASSUME TypeOK, NEW w \in Workers, CountItems(w)
  PROVE  TypeOK'
<1>. DEFINE h == [held[w] EXCEPT !.found = @ + held[w].new, !.new = 0, !.time = clock]
<1>1. held[w] \in Held /\ clock \in 0..MaxTime
  BY BoundsAssumption DEF TypeOK
<1>2. h \in Held
  <2>1. held[w].found + held[w].new \in Nat
    BY <1>1 DEF Held
  <2>. QED BY <1>1, <2>1 DEF Held
<1>3. held' = [held EXCEPT ![w] = h] /\ Goto(w, "advance")
  BY DEF CountItems, TypeOK
<1>. HIDE DEF h
<1>4. held' \in [Workers -> Held]
      /\ phase' \in [Workers -> {"idle", "next", "insert", "open", "store", "advance"}]
  BY <1>2, <1>3, HeldType
<1>. QED BY <1>4 DEF CountItems, TypeOK, world, stored

LEMMA AdvanceType ==
  ASSUME TypeOK, NEW w \in Workers, Advance(w)
  PROVE  TypeOK'
<1>1. held[w] \in Held /\ held[w].time \in 0..MaxTime
  BY DEF TypeOK, Held
<1>2. held' = [held EXCEPT ![w] = Past(held[w])] /\ Goto(w, "next")
  BY DEF Advance, TypeOK
<1>3. held' \in [Workers -> Held]
      /\ phase' \in [Workers -> {"idle", "next", "insert", "open", "store", "advance"}]
  BY <1>1, <1>2, PastSourceType
<1>4. polledAt' \in [Sources -> 0..MaxTime]
  BY <1>1 DEF Advance, TypeOK
<1>. QED BY <1>3, <1>4 DEF Advance, TypeOK, world

LEMMA FinishType ==
  ASSUME TypeOK, NEW w \in Workers, Finish(w)
  PROVE  TypeOK'
<1>. DEFINE row == [state |-> Outcome(held[w]), found |-> held[w].found]
<1>1. held[w] \in Held
  BY DEF TypeOK
<1>2. row \in SweepRow
  BY <1>1 DEF SweepRow, States, Outcome, Held
<1>3. sweep' = [sweep EXCEPT ![held[w].sweep] = row]
  BY DEF Finish
<1>. HIDE DEF row
<1>4. DOMAIN sweep' \subseteq 1..MaxSweeps /\ sweep' \in [DOMAIN sweep' -> SweepRow]
  BY <1>2, <1>3 DEF TypeOK
<1>5. held' \in [Workers -> Held]
      /\ phase' \in [Workers -> {"idle", "next", "insert", "open", "store", "advance"}]
  BY NoSweepType, HeldType DEF Finish
<1>. QED BY <1>4, <1>5 DEF Finish, TypeOK, world

LEMMA OtherStepsType ==
  ASSUME TypeOK, NEW w \in Workers,
         InsertSource(w) \/ InsertRaises(w) \/ SkipSource(w) \/ Kill(w)
  PROVE  TypeOK'
<1>1. held[w] \in Held
  BY DEF TypeOK
<1>2. CASE InsertSource(w)
  <2>1. At(w) \in Sources
    BY <1>1 DEF At, Held
  <2>. QED BY <1>2, <2>1 DEF InsertSource, Goto, TypeOK, world
<1>3. CASE SkipSource(w)
  BY <1>1, <1>3, PastSourceType DEF SkipSource, TypeOK, world, stored
<1>4. CASE Abandon(w)
  BY <1>4, NoSweepType, HeldType DEF Abandon, TypeOK, world, stored
<1>. QED BY <1>2, <1>3, <1>4 DEF InsertRaises, Kill

LEMMA WorldType ==
  ASSUME TypeOK, (\E p \in Posts : Publish(p)) \/ Tick \/ \E q \in Papers : AddPaper(q)
  PROVE  TypeOK'
<1>1. CASE \E p \in Posts : Publish(p)
  BY <1>1 DEF Publish, TypeOK, stored
<1>2. CASE Tick
  BY <1>2, BoundsAssumption DEF Tick, TypeOK, stored
<1>3. CASE \E q \in Papers : AddPaper(q)
  BY <1>3 DEF AddPaper, TypeOK, stored
<1>. QED BY <1>1, <1>2, <1>3

LEMMA TypeStep == TypeOK /\ [Next]_vars => TypeOK'
<1>. SUFFICES ASSUME TypeOK, [Next]_vars PROVE TypeOK'
  OBVIOUS
<1>1. ASSUME NEW w \in Workers, PollListings(w) \/ PollFeeds(w)
      PROVE  TypeOK'
  BY <1>1, PolledType DEF PollListings, PollFeeds, Answers
<1>2. ASSUME NEW w \in Workers, Start(w) \/ SweepStep(w) \/ Kill(w)
      PROVE  TypeOK'
  BY <1>1, <1>2, StartType, NextSourceType, PollFailsType, StorePostType, CountItemsType,
     AdvanceType, FinishType, OtherStepsType DEF SweepStep, SourceStep
<1>3. CASE UNCHANGED vars
  BY <1>3 DEF TypeOK, vars, world, stored
<1>. QED BY <1>2, <1>3, WorldType DEF Next

-----------------------------------------------------------------------------
(* Mentions.                                                               *)

LEMMA InitMentions == Init => MentionsInv
BY DEF Init, MentionsInv, MentionedOnce, KnownPapersAreMentioned

\* An identifier that is known leads to one of the papers that bear it, and
\* the post mentions that one, under one of the two identifiers.
LEMMA MentionsOfKnown ==
  ASSUME NEW p, NEW index \in Indexes(p.names), NEW i \in p.names, Bearers(i, corpus) # {}
  PROVE  \E q \in Bearers(i, corpus) :
           ({p} \X {q} \X {"arxiv", "doi"}) \cap MentionsOf(p, index) # {}
<1>1. i \in DOMAIN index /\ index[i] \in Bearers(i, corpus)
  BY DEF Indexes
<1>2. <<p, index[i], "arxiv">> \in MentionsOf(p, index)
      \/ <<p, index[i], "doi">> \in MentionsOf(p, index)
  BY <1>1 DEF MentionsOf
<1>. QED BY <1>1, <1>2

LEMMA MentionsOfOnce ==
  ASSUME NEW p, NEW index, NEW m \in MentionsOf(p, index), NEW n \in MentionsOf(p, index),
         m[2] = n[2]
  PROVE  m = n
BY DEF MentionsOf

LEMMA StorePostMentions ==
  ASSUME MentionsInv, NEW w \in Workers, StorePost(w)
  PROVE  MentionsInv'
<1>. USE DEF MentionsInv
<1>0. PICK p :
        /\ items' = items \cup {p} /\ corpus' = corpus
        /\ \E index \in Indexes(p.names) :
             mentions' = IF p \in items THEN mentions ELSE mentions \cup MentionsOf(p, index)
  BY DEF StorePost, world
<1>1. PICK index \in Indexes(p.names) :
        /\ items' = items \cup {p} /\ corpus' = corpus
        /\ mentions' = IF p \in items THEN mentions ELSE mentions \cup MentionsOf(p, index)
  BY <1>0
<1>2. MentionsOf(p, index) \subseteq {p} \X corpus \X {"arxiv", "doi"}
  BY MentionsType
<1>3. mentions' \subseteq items' \X corpus' \X {"arxiv", "doi"}
  BY <1>1, <1>2
<1>4. MentionedOnce'
  BY <1>1, <1>2, MentionsOfOnce DEF MentionedOnce
<1>5. KnownPapersAreMentioned'
  <2>. SUFFICES ASSUME NEW r \in items', NEW i \in r.names, Bearers(i, OldPapers) # {}
                PROVE  \E q \in Bearers(i, corpus) :
                         ({r} \X {q} \X {"arxiv", "doi"}) \cap mentions' # {}
    BY <1>1 DEF KnownPapersAreMentioned
  <2>1. CASE r \in items
    BY <1>1, <2>1 DEF KnownPapersAreMentioned
  <2>2. CASE r \notin items
    <3>1. r = p /\ Bearers(i, corpus) # {}
      BY <1>1, <2>2 DEF Bearers
    <3>2. \E q \in Bearers(i, corpus) :
            ({r} \X {q} \X {"arxiv", "doi"}) \cap MentionsOf(p, index) # {}
      BY <3>1, MentionsOfKnown
    <3>. QED BY <1>1, <2>2, <3>1, <3>2
  <2>. QED BY <2>1, <2>2
<1>. QED BY <1>1, <1>3, <1>4, <1>5

\* A paper that is added bears what it bears; nothing mentions it yet.
LEMMA AddPaperMentions ==
  ASSUME MentionsInv, NEW q \in Papers, AddPaper(q)
  PROVE  MentionsInv'
<1>1. corpus' = corpus \cup {q} /\ items' = items /\ mentions' = mentions
  BY DEF AddPaper, stored
<1>2. \A i : Bearers(i, corpus) \subseteq Bearers(i, corpus')
  BY <1>1 DEF Bearers
<1>. QED BY <1>1, <1>2 DEF MentionsInv, MentionedOnce, KnownPapersAreMentioned

LEMMA MentionsUnchanged ==
  ASSUME MentionsInv, UNCHANGED <<corpus, items, mentions>>
  PROVE  MentionsInv'
BY DEF MentionsInv, MentionedOnce, KnownPapersAreMentioned

LEMMA MentionsStep == MentionsInv /\ [Next]_vars => MentionsInv'
<1>. SUFFICES ASSUME MentionsInv, [Next]_vars PROVE MentionsInv'
  OBVIOUS
<1>1. CASE UNCHANGED <<corpus, items, mentions>>
  BY <1>1, MentionsUnchanged
<1>2. ASSUME NEW w \in Workers, Start(w) \/ SweepStep(w) \/ Kill(w), ~StorePost(w)
      PROVE  UNCHANGED <<corpus, items, mentions>>
  BY <1>2 DEF Start, SweepStep, SourceStep, NextSource, InsertSource, InsertRaises, SkipSource,
     PollListings, PollFeeds, Polled, PollFails, SourceFails, CountItems, Advance, Finish, Kill,
     Abandon,
     world, stored
<1>3. ASSUME (\E p \in Posts : Publish(p)) \/ Tick
      PROVE  UNCHANGED <<corpus, items, mentions>>
  BY <1>3 DEF Publish, Tick, stored
<1>. QED BY <1>1, <1>2, <1>3, StorePostMentions, AddPaperMentions DEF Next, vars, world, stored

\* A stored post mentions a paper for each identifier that is known, whichever
\* of several rows that bear it: no crash, second sweep or other identifier
\* comes between.
THEOREM PostsMentionKnownPapers == Spec => []KnownPapersAreMentioned
<1>1. Init => MentionsInv
  BY InitMentions
<1>2. MentionsInv /\ [Next]_vars => MentionsInv'
  BY MentionsStep
<1>3. MentionsInv => KnownPapersAreMentioned
  BY DEF MentionsInv
<1>. QED BY <1>1, <1>2, <1>3, PTL DEF Spec

\* A post mentions a paper once, though it be named twice, stored by two
\* sweeps, or found under both identifiers.
THEOREM PostsMentionPapersOnce == Spec => []MentionedOnce
<1>1. Init => MentionsInv
  BY InitMentions
<1>2. MentionsInv /\ [Next]_vars => MentionsInv'
  BY MentionsStep
<1>3. MentionsInv => MentionedOnce
  BY DEF MentionsInv
<1>. QED BY <1>1, <1>2, <1>3, PTL DEF Spec

-----------------------------------------------------------------------------
(* Posts that were seen.                                                   *)

LEMMA InitKept == Init => KeptInv
BY DEF Init, KeptInv, Active, Accounted, SeenPostsAreKept

\* A post that appears may push others out, and brings none back.
LEMMA PushedOutStays ==
  ASSUME TypeOK, NEW r \in Posts, Publish(r), NEW p \in Posts, posted[p] > 0, PushedOut(p)
  PROVE  PushedOut(p)'
<1>. DEFINE before == {q \in PostsOn(p.source, p.feed) \ {p} : posted[q] >= posted[p]}
            after  == {q \in PostsOn(p.source, p.feed)' \ {p} : posted'[q] >= posted'[p]}
<1>1. posted' = [posted EXCEPT ![r] = clock] /\ posted[r] = 0 /\ clock \in Nat /\ clock > 0
  BY BoundsAssumption DEF Publish, TypeOK
<1>2. \A q \in Posts : posted[q] \in Nat /\ (q # r => posted'[q] = posted[q])
  BY <1>1, BoundsAssumption DEF TypeOK
<1>3. before \subseteq after
  BY <1>1, <1>2 DEF PostsOn
<1>4. IsFiniteSet(after)
  BY FS_Subset, PostsAssumption DEF PostsOn
<1>. HIDE DEF before, after
<1>5. Cardinality(before) \in Nat /\ Cardinality(after) \in Nat
      /\ Cardinality(before) <= Cardinality(after)
  BY <1>3, <1>4, FS_Subset, FS_CardinalityType
<1>. QED BY <1>5, BoundsAssumption DEF PushedOut, before, after

LEMMA PushedOutUnchanged ==
  ASSUME posted' = posted, NEW p
  PROVE  PushedOut(p)' = PushedOut(p)
BY DEF PushedOut, PostsOn

\* A poll of all feeds returns what is later than its time and still listed.
LEMMA AnswerIsComplete ==
  ASSUME NEW s, NEW since, NEW back \in Answers(s, FeedsOf(s), since),
         NEW p \in Posts, p.source = s, posted[p] > 0, posted[p] > since, ~PushedOut(p)
  PROVE  p \in back
<1>1. p.feed \in FeedsOf(s) /\ p \in PostsOn(s, p.feed)
  BY DEF FeedsOf, PostsOn
<1>2. PICK l \in Listings(s, p.feed) :
        {q \in back : q.feed = p.feed} = {q \in l : posted[q] > since}
  BY <1>1 DEF Answers
<1>3. p \in l
  BY <1>1, <1>2 DEF Listings
<1>. QED BY <1>2, <1>3

\* A step of one worker: what is said of the others holds because, unless
\* sweeps overlapped, they are idle.
LEMMA WorkerKept ==
  ASSUME KeptInv, TypeOK, NEW w \in Workers, NEW step, Goto(w, step), Active(w),
         overlapped' = overlapped,
         \A p \in seen' : posted'[p] > 0, SeenPostsAreKept',
         ~overlapped /\ step \in {"insert", "open"} => held'[w].since = polledAt'[At(w)'],
         ~overlapped /\ step \in {"store", "advance"} => Accounted(w)',
         ~overlapped /\ step = "advance" => held'[w].polled = {}
  PROVE  KeptInv'
<1>1. phase'[w] = step /\ \A v \in Workers : v # w => phase'[v] = phase[v]
  BY DEF Goto, TypeOK
<1>2. ~overlapped' => \A v \in Workers : v # w => phase'[v] = "idle"
  BY <1>1 DEF KeptInv, Active
<1>3. ASSUME ~overlapped', NEW v \in Workers
      PROVE  /\ phase'[v] \in {"insert", "open"} => held'[v].since = polledAt'[At(v)']
             /\ phase'[v] \in {"store", "advance"} => Accounted(v)'
             /\ phase'[v] = "advance" => held'[v].polled = {}
  BY <1>1, <1>2, <1>3
<1>4. ~overlapped' => \A v, u \in Workers : Active(v)' /\ Active(u)' => v = u
  BY <1>2 DEF Active
<1>. QED BY <1>3, <1>4 DEF KeptInv

\* Nothing is lost by a step that leaves posts, rows and times alone.
LEMMA SeenUnchanged ==
  ASSUME KeptInv, UNCHANGED <<posted, polledAt, items, seen>>, overlapped => overlapped'
  PROVE  SeenPostsAreKept' /\ \A p \in seen' : posted'[p] > 0
BY PushedOutUnchanged DEF KeptInv, SeenPostsAreKept

\* A sweep that overlaps with none starts when all workers are idle.
LEMMA StartKept ==
  ASSUME KeptInv, TypeOK, NEW w \in Workers, Start(w)
  PROVE  KeptInv'
<1>1. phase'[w] = "next" /\ \A v \in Workers : v # w => phase'[v] = phase[v]
  BY DEF Start, Goto, TypeOK
<1>2. ~overlapped' => ~overlapped /\ \A v \in Workers : v # w => phase'[v] = "idle"
  BY <1>1 DEF Start
<1>3. SeenPostsAreKept' /\ \A p \in seen' : posted'[p] > 0
  BY <1>2, SeenUnchanged DEF Start, world
<1>4. ~overlapped' => \A v \in Workers : phase'[v] \notin {"insert", "open", "store", "advance"}
  BY <1>1, <1>2
<1>. QED BY <1>2, <1>3, <1>4 DEF KeptInv, Active

LEMMA NextSourceKept ==
  ASSUME KeptInv, TypeOK, NEW w \in Workers, NextSource(w)
  PROVE  KeptInv'
<1>1. PICK s \in held[w].left :
        /\ held' = [held EXCEPT ![w].left = @ \ {s}, ![w].source = s, ![w].since = polledAt[s]]
        /\ Goto(w, IF s \in rows THEN "open" ELSE "insert")
  BY DEF NextSource
<1>2. held[w] \in Held
  BY DEF TypeOK
<1>3. held'[w].since = polledAt[s] /\ held'[w].source = s
  BY <1>1, <1>2 DEF TypeOK, Held
<1>4. SeenPostsAreKept' /\ \A p \in seen' : posted'[p] > 0
  BY SeenUnchanged DEF NextSource, world, stored
<1>. QED BY <1>1, <1>3, <1>4, WorkerKept DEF NextSource, Active, At, stored

LEMMA InsertSourceKept ==
  ASSUME KeptInv, TypeOK, NEW w \in Workers, InsertSource(w)
  PROVE  KeptInv'
<1>1. SeenPostsAreKept' /\ \A p \in seen' : posted'[p] > 0
  BY SeenUnchanged DEF InsertSource, world
<1>2. ~overlapped => held'[w].since = polledAt'[At(w)']
  BY DEF InsertSource, KeptInv, At
<1>. QED BY <1>1, <1>2, WorkerKept DEF InsertSource, Active

\* Steps that end what a worker does for a source, or altogether.
LEMMA LeavingKept ==
  ASSUME KeptInv, TypeOK, NEW w \in Workers,
         SkipSource(w) \/ PollFails(w) \/ SourceFails(w) \/ Finish(w) \/ InsertRaises(w) \/ Kill(w)
  PROVE  KeptInv'
<1>1. UNCHANGED <<posted, polledAt, items, seen>> /\ overlapped' = overlapped /\ Active(w)
  BY DEF SkipSource, PollFails, SourceFails, Finish, InsertRaises, Kill, Abandon, Opened, Active,
     world, stored
<1>2. Goto(w, "next") \/ Goto(w, "idle")
  BY DEF SkipSource, PollFails, SourceFails, Finish, InsertRaises, Kill, Abandon
<1>. QED BY <1>1, <1>2, SeenUnchanged, WorkerKept

\* The answer holds whatever was seen of the source and is not stored.
LEMMA PollKept ==
  ASSUME KeptInv, TypeOK, NEW w \in Workers, PollListings(w) \/ PollFeeds(w)
  PROVE  KeptInv'
<1>1. PICK back \in SUBSET {p \in Posts : p.source = At(w) /\ posted[p] > held[w].since} :
        /\ Polled(w, back)
        /\ At(w) \notin Tolerant => back \in Answers(At(w), FeedsOf(At(w)), held[w].since)
  <2>1. \A feeds : Answers(At(w), feeds, held[w].since)
          \subseteq SUBSET {p \in Posts : p.source = At(w) /\ posted[p] > held[w].since}
    BY DEF Answers
  <2>2. CASE PollListings(w)
    BY <2>1, <2>2 DEF PollListings
  <2>3. CASE PollFeeds(w)
    BY <2>1, <2>3 DEF PollFeeds
  <2>. QED BY <2>2, <2>3
<1>2. /\ phase[w] = "open" /\ Active(w) /\ Goto(w, "store") /\ overlapped' = overlapped
      /\ posted' = posted /\ polledAt' = polledAt /\ items' = items /\ seen' = seen \cup back
  BY <1>1 DEF PollListings, PollFeeds, Opened, Polled, Active, world, stored
<1>3. held[w] \in Held /\ held[w].since \in Nat /\ \A p \in Posts : posted[p] \in Nat
  BY BoundsAssumption DEF TypeOK, Held
<1>4. At(w)' = At(w) /\ held'[w].polled = back
  BY <1>1, <1>3 DEF Polled, TypeOK, Held, At
<1>5. \A p \in back : posted[p] > held[w].since /\ posted[p] > 0 /\ p.source = At(w)
  BY <1>3
<1>6. \A p \in seen' : posted'[p] > 0
  BY <1>2, <1>5 DEF KeptInv
<1>7. ~overlapped => held[w].since = polledAt[At(w)]
  BY <1>2 DEF KeptInv
<1>8. SeenPostsAreKept'
  BY <1>2, <1>5, <1>7, PushedOutUnchanged DEF KeptInv, SeenPostsAreKept
<1>9. ASSUME ~overlapped, NEW p \in seen', p.source = At(w), p.source \notin Tolerant,
             ~PushedOut(p), p \notin items
      PROVE  p \in back
  <2>1. CASE p \notin back
    <3>1. p \in seen /\ p \in Posts /\ posted[p] > 0
      BY <1>2, <1>9, <2>1 DEF TypeOK, KeptInv
    <3>2. posted[p] > held[w].since
      BY <1>7, <1>9, <3>1 DEF KeptInv, SeenPostsAreKept
    <3>3. back \in Answers(At(w), FeedsOf(At(w)), held[w].since)
      BY <1>1, <1>9
    <3>. QED BY <1>9, <3>1, <3>2, <3>3, AnswerIsComplete
  <2>. QED BY <2>1
<1>10. ~overlapped => Accounted(w)'
  BY <1>2, <1>4, <1>9, PushedOutUnchanged DEF Accounted
<1>. QED BY <1>2, <1>6, <1>8, <1>10, WorkerKept

LEMMA StorePostKept ==
  ASSUME KeptInv, TypeOK, NEW w \in Workers, StorePost(w)
  PROVE  KeptInv'
<1>1. PICK p \in held[w].polled :
        /\ items' = items \cup {p}
        /\ held' = [held EXCEPT ![w].polled = @ \ {p}, ![w].new = Counted(w, p)]
  BY DEF StorePost
<1>2. /\ phase[w] = "store" /\ phase' = phase /\ overlapped' = overlapped
      /\ posted' = posted /\ polledAt' = polledAt /\ seen' = seen
  BY DEF StorePost, world
<1>3. held[w] \in Held /\ \A v \in Workers : v # w => held'[v] = held[v]
  BY <1>1 DEF TypeOK
<1>4. At(w)' = At(w) /\ held'[w].polled = held[w].polled \ {p}
  BY <1>1, <1>3 DEF TypeOK, Held, At
<1>5. SeenPostsAreKept' /\ \A q \in seen' : posted'[q] > 0
  BY <1>1, <1>2, PushedOutUnchanged DEF KeptInv, SeenPostsAreKept
<1>6. ~overlapped => Accounted(w)'
  BY <1>1, <1>2, <1>4, PushedOutUnchanged DEF KeptInv, Accounted
<1>7. Goto(w, "store") /\ Active(w)
  BY <1>2 DEF Goto, TypeOK, Active
<1>. QED BY <1>2, <1>5, <1>6, <1>7, WorkerKept

\* Counting leaves what is seen, stored and due alone.
LEMMA CountItemsKept ==
  ASSUME KeptInv, TypeOK, NEW w \in Workers, CountItems(w)
  PROVE  KeptInv'
<1>1. /\ phase[w] = "store" /\ held[w].polled = {} /\ Goto(w, "advance") /\ Active(w)
      /\ overlapped' = overlapped /\ UNCHANGED <<posted, polledAt, items, seen>>
  BY DEF CountItems, MayAdvance, Active, world, stored
<1>2. held[w] \in Held
  BY DEF TypeOK
<1>3. At(w)' = At(w) /\ held'[w].polled = {}
  BY <1>1, <1>2 DEF CountItems, TypeOK, Held, At
<1>4. ~overlapped => Accounted(w)'
  BY <1>1, <1>3, PushedOutUnchanged DEF KeptInv, Accounted
<1>. QED BY <1>1, <1>3, <1>4, SeenUnchanged, WorkerKept

\* The time of the poll moves when all that was seen of the source is stored.
LEMMA AdvanceKept ==
  ASSUME KeptInv, TypeOK, NEW w \in Workers, Advance(w)
  PROVE  KeptInv'
<1>1. /\ phase[w] = "advance" /\ Goto(w, "next") /\ overlapped' = overlapped
      /\ posted' = posted /\ items' = items /\ seen' = seen
      /\ polledAt' = [polledAt EXCEPT ![At(w)] = held[w].time]
  BY DEF Advance, world
<1>2. ~overlapped => Accounted(w) /\ held[w].polled = {}
  BY <1>1 DEF KeptInv
<1>3. SeenPostsAreKept'
  <2>. SUFFICES ASSUME NEW p \in seen, p.source \notin Tolerant, ~PushedOut(p), ~overlapped
                PROVE  p \in items \/ posted[p] > polledAt'[p.source]
    BY <1>1, PushedOutUnchanged DEF SeenPostsAreKept
  <2>1. CASE p.source = At(w)
    BY <1>1, <1>2, <2>1 DEF Accounted
  <2>2. CASE p.source # At(w)
    <3>1. p.source \in Sources
      BY DEF TypeOK, Sources
    <3>. QED BY <1>1, <2>2, <3>1 DEF KeptInv, SeenPostsAreKept, TypeOK
  <2>. QED BY <2>1, <2>2
<1>4. \A p \in seen' : posted'[p] > 0
  BY <1>1 DEF KeptInv
<1>5. Active(w)
  BY <1>1 DEF Active
<1>. QED BY <1>1, <1>3, <1>4, <1>5, WorkerKept

LEMMA PublishKept ==
  ASSUME KeptInv, TypeOK, NEW r \in Posts, Publish(r)
  PROVE  KeptInv'
<1>1. /\ UNCHANGED <<polledAt, items, phase, held, seen, overlapped>>
      /\ posted' = [posted EXCEPT ![r] = clock] /\ posted[r] = 0
  BY DEF Publish, stored
<1>2. \A p \in seen : p \in Posts /\ posted[p] > 0 /\ posted'[p] = posted[p]
  BY <1>1 DEF KeptInv, TypeOK
<1>3. \A p \in seen : ~PushedOut(p)' => ~PushedOut(p)
  BY <1>2, PushedOutStays
<1>4. \A w : Accounted(w) => Accounted(w)'
  BY <1>1, <1>3 DEF Accounted, At
<1>5. SeenPostsAreKept'
  BY <1>1, <1>2, <1>3 DEF KeptInv, SeenPostsAreKept
<1>. QED BY <1>1, <1>2, <1>4, <1>5 DEF KeptInv, Active, At

LEMMA KeptUnchanged ==
  ASSUME KeptInv, UNCHANGED <<posted, polledAt, items, phase, held, seen, overlapped>>
  PROVE  KeptInv'
<1>1. \A w : Accounted(w) => Accounted(w)'
  BY PushedOutUnchanged DEF Accounted, At
<1>2. SeenPostsAreKept'
  BY SeenUnchanged
<1>. QED BY <1>1, <1>2 DEF KeptInv, Active, At

LEMMA KeptStep == KeptInv /\ TypeOK /\ [Next]_vars => KeptInv'
<1>. SUFFICES ASSUME KeptInv, TypeOK, [Next]_vars PROVE KeptInv'
  OBVIOUS
<1>1. CASE \E w \in Workers : Start(w) \/ SweepStep(w) \/ Kill(w)
  BY <1>1, StartKept, NextSourceKept, InsertSourceKept, LeavingKept, PollKept, StorePostKept,
     CountItemsKept, AdvanceKept DEF SweepStep, SourceStep
<1>2. CASE \E p \in Posts : Publish(p)
  BY <1>2, PublishKept
<1>3. CASE Tick \/ (\E q \in Papers : AddPaper(q)) \/ UNCHANGED vars
  BY <1>3, KeptUnchanged DEF Tick, AddPaper, vars, world, stored
<1>. QED BY <1>1, <1>2, <1>3 DEF Next

\* What a poll returned is stored, or due again, however often the source
\* failed or the sweep was killed before, as long as it is listed.
THEOREM PostsSeenAreKept == Spec => []SeenPostsAreKept
<1>1. Init => TypeOK /\ KeptInv
  BY InitType, InitKept
<1>2. TypeOK /\ KeptInv /\ [Next]_vars => (TypeOK /\ KeptInv)'
  BY TypeStep, KeptStep
<1>3. KeptInv => SeenPostsAreKept
  BY DEF KeptInv
<1>. QED BY <1>1, <1>2, <1>3, PTL DEF Spec

-----------------------------------------------------------------------------
(* What is counted.                                                        *)

LEMMA CountsAreNaturals ==
  ASSUME TypeOK, NEW w \in Workers
  PROVE  held[w] \in Held /\ held[w].found \in Nat /\ held[w].new \in Nat
BY DEF TypeOK, Held

LEMMA ItemsAreFinite == TypeOK => IsFiniteSet(items) /\ Cardinality(items) \in Nat
BY FS_Subset, FS_CardinalityType, PostsAssumption DEF TypeOK

LEMMA InitCount == Init => CountInv
<1>. SUFFICES ASSUME Init PROVE CountInv
  OBVIOUS
<1>1. DOMAIN sweep = 1..0 /\ \A w \in Workers : ~Active(w) /\ phase[w] = "idle"
  BY DEF Init, Active
<1>2. Credited = {}
  BY <1>1 DEF Credited
<1>3. Cardinality(items) = 0
  BY FS_EmptySet DEF Init
<1>. QED BY <1>1, <1>2, <1>3, FS_EmptySet DEF CountInv

\* Whatever is credited less needs no item more.
LEMMA CreditedLess ==
  ASSUME CountInv, TypeOK, Credited' \subseteq Credited, items' = items
  PROVE  IsFiniteSet(Credited') /\ Cardinality(Credited') <= Cardinality(items')
<1>1. IsFiniteSet(Credited') /\ Cardinality(Credited') <= Cardinality(Credited)
      /\ Cardinality(Credited') \in Nat /\ Cardinality(Credited) \in Nat
  BY FS_Subset, FS_CardinalityType DEF CountInv
<1>. QED BY <1>1, ItemsAreFinite DEF CountInv

\* A step of a worker that leaves the rows of sweeps alone, and takes no
\* credit for more than it had.
LEMMA WorkerCount ==
  ASSUME CountInv, TypeOK, NEW w \in Workers,
         \A v \in Workers : v # w => phase'[v] = phase[v] /\ held'[v] = held[v],
         sweep' = sweep, items' = items,
         \/ phase'[w] = "idle"
         \/ /\ Active(w) /\ held'[w].sweep = held[w].sweep
            /\ held'[w].found \in Nat /\ held'[w].new \in Nat
            /\ held'[w].found + held'[w].new <= held[w].found + held[w].new
            /\ phase'[w] \in {"next", "insert", "open"} => held'[w].new = 0
  PROVE  CountInv'
<1>1. \A v \in Workers : Active(v)' =>
        Active(v) /\ held'[v].sweep = held[v].sweep
  BY DEF Active
<1>2. \A v \in Workers : Active(v)' =>
        /\ held'[v].found + held'[v].new \in Nat
        /\ held[v].found + held[v].new \in Nat
        /\ held'[v].found + held'[v].new <= held[v].found + held[v].new
  BY CountsAreNaturals DEF Active
<1>3. Credited' \subseteq Credited
  BY <1>1, <1>2 DEF Credited
<1>4. \A v \in Workers : phase'[v] \in {"next", "insert", "open"} => held'[v].new = 0
  BY DEF CountInv
<1>. QED BY <1>1, <1>3, <1>4, CreditedLess DEF CountInv

LEMMA StartCount ==
  ASSUME CountInv, TypeOK, NEW w \in Workers, Start(w)
  PROVE  CountInv'
<1>. DEFINE h == [NoSweep EXCEPT !.sweep = Cardinality(DOMAIN sweep) + 1, !.left = Sources]
<1>1. PICK n \in Nat : DOMAIN sweep = 1..n
  BY DEF CountInv
<1>2. Cardinality(DOMAIN sweep) = n
  BY <1>1, FS_Interval, 1 \in Int, n \in Int
<1>3. DOMAIN sweep' = 1..(n + 1) /\ sweep'[n + 1].found = 0
      /\ \A r \in 1..n : sweep'[r] = sweep[r]
  BY <1>1, <1>2 DEF Start
<1>4. held' = [held EXCEPT ![w] = h] /\ Goto(w, "next") /\ items' = items
  BY DEF Start
<1>5. h.sweep = n + 1 /\ h.found = 0 /\ h.new = 0
  BY <1>2 DEF NoSweep
<1>. HIDE DEF h
<1>6. /\ Active(w)' /\ held'[w] = h /\ phase'[w] = "next"
      /\ \A v \in Workers : v # w => phase'[v] = phase[v] /\ held'[v] = held[v]
  BY <1>4 DEF Goto, TypeOK, Active
<1>7. \A v \in Workers : Active(v)' /\ v # w =>
        Active(v) /\ held'[v] = held[v] /\ held[v].sweep \in 1..n
  BY <1>1, <1>6 DEF Active, CountInv
<1>8. Credited' \subseteq Credited
  <2>. SUFFICES ASSUME NEW c \in Credited' PROVE c \in Credited
    OBVIOUS
  <2>1. c \in (1..(n + 1)) \X (Nat \ {0})
    BY <1>3 DEF Credited
  <2>2. CASE c[2] <= sweep'[c[1]].found
    <3>1. c[1] \in 1..n
      BY <1>3, <2>1, <2>2
    <3>. QED BY <1>1, <1>3, <2>1, <2>2, <3>1 DEF Credited
  <2>3. CASE \E v \in Workers :
               Active(v)' /\ held'[v].sweep = c[1] /\ c[2] <= held'[v].found + held'[v].new
    <3>1. PICK v \in Workers :
            Active(v)' /\ held'[v].sweep = c[1] /\ c[2] <= held'[v].found + held'[v].new
      BY <2>3
    <3>2. v # w
      BY <1>5, <1>6, <2>1, <3>1
    <3>. QED BY <1>1, <1>7, <2>1, <3>1, <3>2 DEF Credited
  <2>. QED BY <2>2, <2>3 DEF Credited
<1>9. \A v \in Workers : Active(v)' =>
        held'[v].sweep \in DOMAIN sweep' /\ sweep'[held'[v].sweep].found = 0
  BY <1>1, <1>3, <1>5, <1>6, <1>7 DEF CountInv
<1>10. \A v, u \in Workers :
         Active(v)' /\ Active(u)' /\ held'[v].sweep = held'[u].sweep => v = u
  BY <1>5, <1>6, <1>7 DEF CountInv
<1>11. \A v \in Workers : phase'[v] \in {"next", "insert", "open"} => held'[v].new = 0
  BY <1>5, <1>6 DEF CountInv
<1>12. \E k \in Nat : DOMAIN sweep' = 1..k
  BY <1>3
<1>. QED BY <1>4, <1>8, <1>9, <1>10, <1>11, <1>12, CreditedLess DEF CountInv

\* What goes through with a source keeps what it has found.
LEMMA PastCount ==
  ASSUME NEW h \in Held
  PROVE  Past(h).sweep = h.sweep /\ Past(h).found = h.found /\ Past(h).new = 0
BY DEF Past, Held

LEMMA SourceStepCount ==
  ASSUME CountInv, TypeOK, NEW w \in Workers,
         \/ NextSource(w) \/ SkipSource(w) \/ PollFails(w) \/ SourceFails(w) \/ Advance(w)
         \/ PollListings(w) \/ PollFeeds(w) \/ CountItems(w) \/ InsertRaises(w) \/ Kill(w)
  PROVE  CountInv'
<1>1. held[w] \in Held /\ held[w].found \in Nat /\ held[w].new \in Nat
  BY CountsAreNaturals
<1>2. CASE NextSource(w)
  <2>1. PICK s :
          held' = [held EXCEPT ![w].left = @ \ {s}, ![w].source = s, ![w].since = polledAt[s]]
    BY <1>2 DEF NextSource
  <2>. DEFINE h == [held[w] EXCEPT !.left = @ \ {s}, !.source = s, !.since = polledAt[s]]
  <2>2. held' = [held EXCEPT ![w] = h]
    BY <2>1 DEF TypeOK
  <2>3. h.sweep = held[w].sweep /\ h.found = held[w].found /\ h.new = held[w].new
    BY <1>1 DEF Held
  <2>. HIDE DEF h
  <2>4. held'[w] = h /\ \A v \in Workers : v # w => phase'[v] = phase[v] /\ held'[v] = held[v]
    BY <1>2, <2>2 DEF NextSource, Goto, TypeOK
  <2>5. Active(w) /\ held[w].new = 0 /\ UNCHANGED <<sweep, items>>
    BY <1>2 DEF NextSource, Active, CountInv, stored
  <2>. QED BY <1>1, <2>3, <2>4, <2>5, WorkerCount
<1>3. CASE SkipSource(w) \/ PollFails(w) \/ SourceFails(w) \/ Advance(w)
  <2>1. Goto(w, "next") /\ UNCHANGED <<sweep, items>> /\ Active(w)
    BY <1>3 DEF SkipSource, PollFails, SourceFails, Advance, Opened, Active, stored
  <2>2. PICK h \in Held : /\ held' = [held EXCEPT ![w] = Past(h)]
                          /\ h.sweep = held[w].sweep /\ h.found = held[w].found
    <3>1. CASE SkipSource(w) \/ Advance(w)
      BY <1>1, <3>1 DEF SkipSource, Advance, TypeOK
    <3>2. CASE PollFails(w)
      <4>. DEFINE h == [held[w] EXCEPT !.attempted = @ + 1, !.errors = @ + 1]
      <4>1. held[w].attempted + 1 \in Nat /\ held[w].errors + 1 \in Nat
        BY <1>1 DEF Held
      <4>2. h \in Held /\ h.sweep = held[w].sweep /\ h.found = held[w].found
        BY <1>1, <4>1 DEF Held
      <4>. QED BY <3>2, <4>2 DEF PollFails
    <3>3. CASE SourceFails(w)
      <4>. DEFINE h == [held[w] EXCEPT !.errors = @ + 1]
      <4>1. held[w].errors + 1 \in Nat
        BY <1>1 DEF Held
      <4>2. h \in Held /\ h.sweep = held[w].sweep /\ h.found = held[w].found
        BY <1>1, <4>1 DEF Held
      <4>. QED BY <3>3, <4>2 DEF SourceFails
    <3>. QED BY <1>3, <3>1, <3>2, <3>3
  <2>3. /\ Past(h).sweep = held[w].sweep /\ Past(h).new = 0 /\ Past(h).found \in Nat
        /\ Past(h).found + Past(h).new <= held[w].found + held[w].new
    BY <1>1, <2>2, PastCount
  <2>4. held'[w] = Past(h) /\ phase'[w] = "next"
        /\ \A v \in Workers : v # w => phase'[v] = phase[v] /\ held'[v] = held[v]
    BY <2>1, <2>2 DEF Goto, TypeOK
  <2>. QED BY <2>1, <2>3, <2>4, WorkerCount
<1>4. CASE PollListings(w) \/ PollFeeds(w)
  <2>1. PICK back : Polled(w, back)
    BY <1>4 DEF PollListings, PollFeeds
  <2>. DEFINE h == [held[w] EXCEPT !.polled = back, !.since = 0, !.attempted = @ + 1]
  <2>2. held' = [held EXCEPT ![w] = h]
    BY <2>1 DEF Polled, TypeOK
  <2>3. h.sweep = held[w].sweep /\ h.found = held[w].found /\ h.new = held[w].new
    BY <1>1 DEF Held
  <2>. HIDE DEF h
  <2>4. Active(w) /\ Goto(w, "store") /\ UNCHANGED <<sweep, items>>
    BY <1>4, <2>1 DEF PollListings, PollFeeds, Opened, Polled, Active, stored
  <2>5. /\ held'[w] = h /\ phase'[w] = "store"
        /\ \A v \in Workers : v # w => phase'[v] = phase[v] /\ held'[v] = held[v]
    BY <2>2, <2>4 DEF Goto, TypeOK
  <2>. QED BY <1>1, <2>3, <2>4, <2>5, WorkerCount
<1>5. CASE CountItems(w)
  <2>. DEFINE h == [held[w] EXCEPT !.found = @ + held[w].new, !.new = 0, !.time = clock]
  <2>1. held' = [held EXCEPT ![w] = h]
    BY <1>5 DEF CountItems, TypeOK
  <2>2. h.sweep = held[w].sweep /\ h.found = held[w].found + held[w].new /\ h.new = 0
    BY <1>1 DEF Held
  <2>. HIDE DEF h
  <2>3. h.found \in Nat /\ h.found + h.new <= held[w].found + held[w].new
    BY <1>1, <2>2
  <2>4. Active(w) /\ Goto(w, "advance") /\ UNCHANGED <<sweep, items>>
    BY <1>5 DEF CountItems, Active, stored
  <2>5. /\ held'[w] = h /\ phase'[w] = "advance"
        /\ \A v \in Workers : v # w => phase'[v] = phase[v] /\ held'[v] = held[v]
    BY <2>1, <2>4 DEF Goto, TypeOK
  <2>. QED BY <2>2, <2>3, <2>4, <2>5, WorkerCount
<1>6. CASE Abandon(w)
  <2>1. phase'[w] = "idle"
        /\ \A v \in Workers : v # w => phase'[v] = phase[v] /\ held'[v] = held[v]
    BY <1>6 DEF Abandon, Goto, TypeOK
  <2>. QED BY <1>6, <2>1, WorkerCount DEF Abandon, stored
<1>. QED BY <1>2, <1>3, <1>4, <1>5, <1>6 DEF InsertRaises, Kill

\* A post is credited to the worker that stored it, and only if it was new.
LEMMA StorePostCount ==
  ASSUME CountInv, TypeOK, NEW w \in Workers, StorePost(w)
  PROVE  CountInv'
<1>1. PICK p \in held[w].polled :
        /\ items' = items \cup {p}
        /\ held' = [held EXCEPT ![w].polled = @ \ {p}, ![w].new = Counted(w, p)]
  BY DEF StorePost
<1>. DEFINE h == [held[w] EXCEPT !.polled = @ \ {p}, !.new = Counted(w, p)]
<1>2. held[w] \in Held /\ held[w].found \in Nat /\ held[w].new \in Nat
  BY CountsAreNaturals
<1>3. h.sweep = held[w].sweep /\ h.found = held[w].found /\ h.new = Counted(w, p)
  BY <1>2 DEF Held
<1>4. held' = [held EXCEPT ![w] = h] /\ Goto(w, "store") /\ Active(w) /\ sweep' = sweep
  BY <1>1 DEF StorePost, TypeOK, Goto, Active
<1>. HIDE DEF h
<1>5. CASE p \in items
  <2>1. items' = items /\ h.new = held[w].new
    BY <1>1, <1>3, <1>5 DEF Counted
  <2>2. /\ held'[w] = h /\ phase'[w] = "store"
        /\ \A v \in Workers : v # w => phase'[v] = phase[v] /\ held'[v] = held[v]
    BY <1>4 DEF StorePost, TypeOK
  <2>. QED BY <1>2, <1>3, <1>4, <2>1, <2>2, WorkerCount
<1>6. CASE p \notin items
  <2>. DEFINE c == <<held[w].sweep, held[w].found + held[w].new + 1>>
  <2>1. h.new = held[w].new + 1
    BY <1>3, <1>6 DEF Counted
  <2>2. /\ phase' = phase /\ held'[w] = h
        /\ \A v \in Workers : v # w => held'[v] = held[v]
    BY <1>4 DEF StorePost, TypeOK
  <2>3. Credited' \subseteq Credited \cup {c}
    <3>. SUFFICES ASSUME NEW d \in Credited', d # c PROVE d \in Credited
      OBVIOUS
    <3>1. d = <<d[1], d[2]>> /\ d[1] \in DOMAIN sweep /\ d[2] \in Nat \ {0}
      BY <1>4 DEF Credited
    <3>2. CASE d[2] <= sweep[d[1]].found
      BY <3>1, <3>2 DEF Credited
    <3>3. ASSUME NEW v \in Workers, Active(v), held'[v].sweep = d[1],
                 d[2] <= held'[v].found + held'[v].new
          PROVE  d \in Credited
      <4>1. CASE v # w
        BY <2>2, <3>1, <3>3, <4>1 DEF Credited
      <4>2. CASE v = w
        <5>1. d[1] = held[w].sweep /\ d[2] <= held[w].found + held[w].new + 1
          BY <1>2, <1>3, <2>1, <2>2, <3>3, <4>2
        <5>2. d[2] # held[w].found + held[w].new + 1
          BY <3>1, <5>1
        <5>3. d[2] <= held[w].found + held[w].new
          <6>1. held[w].found + held[w].new \in Nat /\ d[2] \in Nat
            BY <1>2, <3>1
          <6>. QED BY <5>1, <5>2, <6>1
        <5>. QED BY <1>4, <3>1, <5>1, <5>3 DEF Credited
      <4>. QED BY <4>1, <4>2
    <3>. QED BY <1>4, <2>2, <3>2, <3>3 DEF Credited, Active
  <2>. HIDE DEF c
  <2>4. IsFiniteSet(Credited \cup {c}) /\ Cardinality(Credited \cup {c}) <= Cardinality(Credited) + 1
        /\ Cardinality(Credited) \in Nat
    <3>1. IsFiniteSet(Credited) /\ Cardinality(Credited) \in Nat
      BY FS_CardinalityType DEF CountInv
    <3>2. /\ IsFiniteSet(Credited \cup {c})
          /\ Cardinality(Credited \cup {c})
               = IF c \in Credited THEN Cardinality(Credited) ELSE Cardinality(Credited) + 1
      BY <3>1, FS_AddElement
    <3>. QED BY <3>1, <3>2
  <2>5. IsFiniteSet(Credited') /\ Cardinality(Credited') <= Cardinality(Credited \cup {c})
        /\ Cardinality(Credited') \in Nat /\ Cardinality(Credited \cup {c}) \in Nat
    BY <2>3, <2>4, FS_Subset, FS_CardinalityType
  <2>6. Cardinality(items') = Cardinality(items) + 1 /\ Cardinality(items) \in Nat
    BY <1>1, <1>6, ItemsAreFinite, FS_AddElement
  <2>7. Cardinality(Credited') <= Cardinality(items')
    BY <2>4, <2>5, <2>6 DEF CountInv
  <2>8. \A v \in Workers : held'[v].sweep = held[v].sweep
    BY <1>3, <2>2
  <2>9. \A v \in Workers : phase'[v] \in {"next", "insert", "open"} => held'[v].new = 0
    BY <2>2 DEF CountInv, StorePost
  <2>. QED BY <1>4, <2>2, <2>5, <2>7, <2>8, <2>9 DEF CountInv, Active
<1>. QED BY <1>5, <1>6

\* What was credited to the worker goes into its row.
LEMMA FinishCount ==
  ASSUME CountInv, TypeOK, NEW w \in Workers, Finish(w)
  PROVE  CountInv'
<1>. DEFINE r == held[w].sweep
            row == [state |-> Outcome(held[w]), found |-> held[w].found]
<1>1. held[w].found \in Nat /\ held[w].new = 0 /\ Active(w) /\ r \in DOMAIN sweep
  BY CountsAreNaturals DEF Finish, Active, CountInv
<1>2. sweep' = [sweep EXCEPT ![r] = row] /\ items' = items
  BY DEF Finish
<1>3. row.found = held[w].found
  OBVIOUS
<1>. HIDE DEF row
<1>4. DOMAIN sweep' = DOMAIN sweep /\ sweep'[r].found = held[w].found
      /\ \A q \in DOMAIN sweep : q # r => sweep'[q] = sweep[q]
  BY <1>1, <1>2, <1>3 DEF TypeOK
<1>5. \A v \in Workers : Active(v)' =>
        v # w /\ Active(v) /\ held'[v] = held[v] /\ phase'[v] = phase[v]
  BY DEF Finish, Goto, TypeOK, Active
<1>6. \A v \in Workers : Active(v)' => held[v].sweep # r
  BY <1>1, <1>5 DEF CountInv
<1>7. Credited' \subseteq Credited
  <2>. SUFFICES ASSUME NEW c \in Credited' PROVE c \in Credited
    OBVIOUS
  <2>1. c \in (DOMAIN sweep) \X (Nat \ {0})
    BY <1>4 DEF Credited
  <2>2. CASE c[2] <= sweep'[c[1]].found /\ c[1] = r
    <3>1. c[2] <= held[w].found + held[w].new
      BY <1>1, <1>4, <2>1, <2>2
    <3>. QED BY <1>1, <2>1, <2>2, <3>1 DEF Credited
  <2>3. CASE c[2] <= sweep'[c[1]].found /\ c[1] # r
    BY <1>4, <2>1, <2>3 DEF Credited
  <2>4. CASE \E v \in Workers :
               Active(v)' /\ held'[v].sweep = c[1] /\ c[2] <= held'[v].found + held'[v].new
    BY <1>5, <2>1, <2>4 DEF Credited
  <2>. QED BY <2>2, <2>3, <2>4 DEF Credited
<1>8. \A v \in Workers : Active(v)' =>
        held'[v].sweep \in DOMAIN sweep' /\ sweep'[held'[v].sweep].found = 0
  BY <1>4, <1>5, <1>6 DEF CountInv
<1>9. \A v \in Workers : phase'[v] \in {"next", "insert", "open"} => held'[v].new = 0
  BY <1>5 DEF CountInv, Active
<1>. QED BY <1>2, <1>4, <1>5, <1>7, <1>8, <1>9, CreditedLess DEF CountInv

LEMMA CountUnchanged ==
  ASSUME CountInv, UNCHANGED <<items, sweep, phase, held>>
  PROVE  CountInv'
BY DEF CountInv, Credited, Active

LEMMA CountStep == CountInv /\ TypeOK /\ [Next]_vars => CountInv'
<1>. SUFFICES ASSUME CountInv, TypeOK, [Next]_vars PROVE CountInv'
  OBVIOUS
<1>1. ASSUME NEW w \in Workers, InsertSource(w)
      PROVE  CountInv'
  <2>1. /\ Active(w) /\ phase[w] = "insert" /\ UNCHANGED <<items, sweep, held>>
        /\ Goto(w, "open")
    BY <1>1 DEF InsertSource, Active
  <2>2. phase'[w] = "open"
        /\ \A v \in Workers : v # w => phase'[v] = phase[v] /\ held'[v] = held[v]
    BY <2>1 DEF Goto, TypeOK
  <2>3. held'[w] = held[w] /\ held[w].new = 0 /\ held[w].found \in Nat
    BY <2>1, CountsAreNaturals DEF CountInv
  <2>. QED BY <2>1, <2>2, <2>3, WorkerCount
<1>2. CASE \E w \in Workers : Start(w) \/ SweepStep(w) \/ Kill(w)
  BY <1>1, <1>2, StartCount, SourceStepCount, StorePostCount, FinishCount
     DEF SweepStep, SourceStep
<1>3. CASE \/ \E p \in Posts : Publish(p)
           \/ Tick \/ (\E q \in Papers : AddPaper(q)) \/ UNCHANGED vars
  BY <1>3, CountUnchanged DEF Publish, Tick, AddPaper, vars, stored
<1>. QED BY <1>2, <1>3 DEF Next

\* The sweeps never report more items than there are: sweeps that overlap
\* count a post once.
THEOREM ItemsAreCountedOnce == Spec => []NothingIsCountedTwice
<1>1. Init => TypeOK /\ CountInv
  BY InitType, InitCount
<1>2. TypeOK /\ CountInv /\ [Next]_vars => (TypeOK /\ CountInv)'
  BY TypeStep, CountStep
<1>3. TypeOK /\ CountInv => NothingIsCountedTwice
  <2>. SUFFICES ASSUME TypeOK, CountInv PROVE NothingIsCountedTwice
    OBVIOUS
  <2>. DEFINE reported == UNION {{r} \X (1..sweep[r].found) : r \in DOMAIN sweep}
  <2>1. \A r \in DOMAIN sweep : sweep[r].found \in Nat
    BY DEF TypeOK, SweepRow
  <2>2. reported \subseteq Credited
    BY <2>1 DEF Credited
  <2>. HIDE DEF reported
  <2>3. Cardinality(reported) <= Cardinality(Credited) /\ IsFiniteSet(reported)
    BY <2>2, FS_Subset DEF CountInv
  <2>4. Cardinality(reported) \in Nat /\ Cardinality(Credited) \in Nat
    BY <2>3, FS_CardinalityType DEF CountInv
  <2>5. Cardinality(reported) <= Cardinality(items)
    BY <2>3, <2>4, ItemsAreFinite DEF CountInv
  <2>. QED BY <2>5 DEF NothingIsCountedTwice, reported
<1>. QED BY <1>1, <1>2, <1>3, PTL DEF Spec

\* Every row and every worker's memory has its type.
THEOREM DiscourseTypes == Spec => []TypeOK
<1>1. Init => TypeOK
  BY InitType
<1>2. TypeOK /\ [Next]_vars => TypeOK'
  BY TypeStep
<1>. QED BY <1>1, <1>2, PTL DEF Spec
=============================================================================
