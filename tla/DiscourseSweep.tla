--------------------------- MODULE DiscourseSweep ---------------------------
(***************************************************************************)
(* run_discourse_sweep: poll every enabled community source since its last *)
(* poll, store the posts that are new, with the papers they mention, and   *)
(* account for the sweep in sweep_run.  A sweep is started by the          *)
(* scheduler or from the command line; each worker is one.                 *)
(*                                                                         *)
(* A step is one database transaction, or one call of an adapter.  Posts   *)
(* appear, papers are ingested and the clock goes on in between.  A post   *)
(* is told apart by its source, the feed or subreddit of the source        *)
(* it appears on, and the identifiers its text holds.                      *)
(***************************************************************************)
EXTENDS Naturals, FiniteSets

CONSTANTS
  Workers,     \* concurrent sweeps
  Posts,       \* records [source, feed, names, id]; names are identifiers
  OldPosts,    \* those that are there from the start
  Papers,      \* records [arxiv, doi, id]: the papers that may be in the corpus
  OldPapers,   \* those that are there from the start
  Window,      \* how many posts a feed lists
  OldSources,  \* sources that have rows from earlier sweeps
  Enabled,     \* sources whose row, once there, is enabled
  Keyed,       \* sources that need credentials, there or not
  Place,       \* the order in which the adapters are registered
  Tolerant,    \* sources whose adapter leaves out feeds that fail
  MaxTime,     \* bound: the clock
  MaxSweeps    \* bound: sweep_run rows

Sources == {p.source : p \in Posts}

ASSUME PostsAssumption == IsFiniteSet(Posts) /\ Posts # {}
ASSUME CorpusAssumption == OldPapers \subseteq Papers
ASSUME SourcesAssumption == OldSources \subseteq Sources
ASSUME BoundsAssumption == MaxTime \in Nat \ {0} /\ MaxSweeps \in Nat /\ Window \in Nat

VARIABLES
  clock,     \* the time of day, the same everywhere
  posted,    \* when each post appeared: 0 for not yet
  corpus,    \* papers that have rows
  rows,      \* sources that have a discourse_source row
  polledAt,  \* discourse_source.last_polled_at, 0 for the epoch
  items,     \* discourse_item rows
  mentions,  \* discourse_mention rows, <<post, paper, resolved_by>>
  sweep,     \* sweep_run rows
  phase,     \* the step each worker takes next
  held,      \* what each worker holds in memory
  seen,      \* history: posts a poll returned
  overlapped \* history: two sweeps ran at once

world == <<clock, posted, corpus>>
stored == <<rows, polledAt, items, mentions, sweep>>
vars == <<world, stored, phase, held, seen, overlapped>>

States == {"running", "completed", "completed_with_errors", "failed"}
SweepRow == [state : States, found : Nat]
Held == [sweep : 0..MaxSweeps, left : SUBSET Sources, source : Sources, since : 0..MaxTime,
         polled : SUBSET Posts, time : 0..MaxTime, new : Nat, found : Nat, attempted : Nat,
         errors : Nat]

NoSweep == [sweep |-> 0, left |-> {}, source |-> CHOOSE s \in Sources : TRUE, since |-> 0,
            polled |-> {}, time |-> 0, new |-> 0, found |-> 0, attempted |-> 0, errors |-> 0]

-----------------------------------------------------------------------------
Init ==
  /\ clock = 1
  /\ posted = [p \in Posts |-> IF p \in OldPosts THEN 1 ELSE 0]
  /\ corpus = OldPapers
  /\ rows = OldSources
  /\ polledAt = [s \in Sources |-> 0]
  /\ items = {}
  /\ mentions = {}
  /\ sweep = [r \in {} |-> 0]
  /\ phase = [w \in Workers |-> "idle"]
  /\ held = [w \in Workers |-> NoSweep]
  /\ seen = {}
  /\ overlapped = FALSE

Goto(w, step) == phase' = [phase EXCEPT ![w] = step]
At(w) == held[w].source

Start(w) ==
  /\ phase[w] = "idle"
  /\ LET r == Cardinality(DOMAIN sweep) + 1
     IN  /\ r <= MaxSweeps
         /\ sweep' = [q \in DOMAIN sweep \cup {r} |->
                        IF q = r THEN [state |-> "running", found |-> 0] ELSE sweep[q]]
         /\ held' = [held EXCEPT ![w] = [NoSweep EXCEPT !.sweep = r, !.left = Sources]]
  /\ overlapped' = (overlapped \/ \E v \in Workers \ {w} : phase[v] # "idle")
  /\ Goto(w, "next")
  /\ UNCHANGED <<world, rows, polledAt, items, mentions, seen>>

\* What a worker keeps when it is through with a source.
Past(h) == [h EXCEPT !.source = NoSweep.source, !.since = 0, !.polled = {}, !.time = 0,
                     !.new = 0]

\* The next adapter: its row, with last_polled_at, is looked up.
NextSource(w) ==
  /\ phase[w] = "next"
  /\ \E s \in held[w].left :
       /\ \A t \in held[w].left : Place[s] <= Place[t]
       /\ held' = [held EXCEPT ![w].left = @ \ {s}, ![w].source = s,
                               ![w].since = polledAt[s]]
       /\ Goto(w, IF s \in rows THEN "open" ELSE "insert")
  /\ UNCHANGED <<world, stored, seen, overlapped>>

\* A source seen for the first time gets its row.
InsertSource(w) ==
  /\ phase[w] = "insert" /\ At(w) \notin rows
  /\ rows' = rows \cup {At(w)}
  /\ Goto(w, "open")
  /\ UNCHANGED <<world, polledAt, items, mentions, sweep, held, seen, overlapped>>

\* A source that is disabled or has no credentials is passed over.
SkipSource(w) ==
  /\ phase[w] = "open" /\ (At(w) \notin Enabled \/ At(w) \in Keyed)
  /\ held' = [held EXCEPT ![w] = Past(@)]
  /\ Goto(w, "next")
  /\ UNCHANGED <<world, stored, seen, overlapped>>

PostsOn(s, f) == {p \in Posts : p.source = s /\ p.feed = f /\ posted[p] > 0}

FeedsOf(s) == {p.feed : p \in {q \in Posts : q.source = s}}

\* The posts another Window of the feed are newer than, or as new as.
PushedOut(p) ==
  Cardinality({q \in PostsOn(p.source, p.feed) \ {p} : posted[q] >= posted[p]}) >= Window

\* What a feed may list: its newest posts, as many as fit.
Listings(s, f) ==
  {l \in SUBSET PostsOn(s, f) :
     /\ Cardinality(l) <= Window /\ {p \in PostsOn(s, f) : ~PushedOut(p)} \subseteq l
     /\ l = PostsOn(s, f) \/ Cardinality(l) = Window
     /\ \A p \in l, q \in PostsOn(s, f) \ l : posted[p] >= posted[q]}

\* The answers to a poll of these feeds: what each lists, if later than since.
Answers(s, feeds, since) ==
  {back \in SUBSET {p \in Posts : p.source = s /\ p.feed \in feeds /\ posted[p] > since} :
     \A f \in feeds : \E l \in Listings(s, f) :
       {p \in back : p.feed = f} = {p \in l : posted[p] > since}}

Polled(w, back) ==
  /\ held' = [held EXCEPT ![w].polled = back, ![w].since = 0, ![w].attempted = @ + 1]
  /\ seen' = seen \cup back
  /\ Goto(w, "store")
  /\ UNCHANGED <<world, stored, overlapped>>

Opened(w) == phase[w] = "open" /\ At(w) \in Enabled

\* Hacker News, Reddit, Hugging Face: every listing has to answer.
PollListings(w) ==
  /\ Opened(w) /\ At(w) \notin Tolerant
  /\ \E back \in Answers(At(w), FeedsOf(At(w)), held[w].since) : Polled(w, back)

\* RSS: a feed that does not answer is left out.
PollFeeds(w) ==
  /\ Opened(w) /\ At(w) \in Tolerant
  /\ \E answering \in SUBSET FeedsOf(At(w)) :
       \E back \in Answers(At(w), answering, held[w].since) : Polled(w, back)

PollFails(w) ==
  /\ Opened(w) /\ At(w) \notin Tolerant
  /\ held' = [held EXCEPT ![w] = Past([held[w] EXCEPT !.attempted = @ + 1, !.errors = @ + 1])]
  /\ Goto(w, "next")
  /\ UNCHANGED <<world, stored, seen, overlapped>>

\* A transaction of a source fails, and the sweep goes on with the next.  What
\* was stored is not counted if a post fails, and stays counted if the update
\* of last_polled_at does.
SourceFails(w) ==
  /\ phase[w] \in {"store", "advance"}
  /\ held' = [held EXCEPT ![w] = Past([held[w] EXCEPT !.errors = @ + 1])]
  /\ Goto(w, "next")
  /\ UNCHANGED <<world, stored, seen, overlapped>>

\* The rows that bear an identifier, once both are normalized.
Bearers(i, papers) ==
  {q \in papers : IF i.kind = "arxiv" THEN q.arxiv = i.value ELSE q.doi = i.value}

\* by_arxiv and by_doi: each identifier leads to one row, the last to be read;
\* of two rows that bear both of two identifiers, both lead to the same.
Indexes(names) ==
  {index \in [{i \in names : Bearers(i, corpus) # {}} -> corpus] :
     /\ \A i \in DOMAIN index : index[i] \in Bearers(i, corpus)
     /\ \A i, j \in DOMAIN index :
          index[i] \in Bearers(j, corpus) /\ index[j] \in Bearers(i, corpus) => index[i] = index[j]}

\* Mutant: what an identifier leads to is not looked up among the papers seen.
MentionsPerIdentifier(p, index) == {<<p, index[i], i.kind>> : i \in DOMAIN index}

\* Mutant: a text that holds an arXiv id is not searched for DOIs.
MentionsByArxiv(p, index) ==
  LET kinds == {i.kind : i \in DOMAIN index}
  IN  {<<p, index[i], i.kind>> : i \in {j \in DOMAIN index : j.kind = "arxiv" \/ "arxiv" \notin kinds}}

\* resolve_against_corpus: each paper once, arXiv ids before DOIs.
MentionsOf(p, index) ==
  LET arxivs == {i \in DOMAIN index : i.kind = "arxiv"}
      byArxiv == {index[i] : i \in arxivs}
      byDoi == {index[i] : i \in DOMAIN index \ arxivs}
  IN  ({p} \X byArxiv \X {"arxiv"}) \cup ({p} \X (byDoi \ byArxiv) \X {"doi"})

\* Mutant: every post polled counts.
CountedPolled(w, p) == held[w].new + 1

Counted(w, p) == IF p \in items THEN held[w].new ELSE held[w].new + 1

\* One post and its mentions; the unique constraint turns away one that is there.
StorePost(w) ==
  /\ phase[w] = "store"
  /\ \E p \in held[w].polled :
       /\ items' = items \cup {p}
       /\ \E index \in Indexes(p.names) :
            mentions' = IF p \in items THEN mentions ELSE mentions \cup MentionsOf(p, index)
       /\ held' = [held EXCEPT ![w].polled = @ \ {p}, ![w].new = Counted(w, p)]
  /\ UNCHANGED <<world, rows, polledAt, sweep, phase, seen, overlapped>>

\* Mutant: the time of the poll is recorded before everything is stored.
MayAdvanceEarly(w) == TRUE

MayAdvance(w) == held[w].polled = {}

\* All is stored: the new items count, and the time is taken.
CountItems(w) ==
  /\ phase[w] = "store" /\ MayAdvance(w)
  /\ held' = [held EXCEPT ![w].found = @ + held[w].new, ![w].new = 0, ![w].time = clock]
  /\ Goto(w, "advance")
  /\ UNCHANGED <<world, stored, seen, overlapped>>

\* last_polled_at becomes the time taken, in a transaction of its own.
Advance(w) ==
  /\ phase[w] = "advance"
  /\ polledAt' = [polledAt EXCEPT ![At(w)] = held[w].time]
  /\ held' = [held EXCEPT ![w] = Past(@)]
  /\ Goto(w, "next")
  /\ UNCHANGED <<world, rows, items, mentions, sweep, seen, overlapped>>

Outcome(h) ==
  IF h.errors = 0 THEN "completed"
  ELSE IF h.found = 0 /\ h.errors = h.attempted THEN "failed" ELSE "completed_with_errors"

Finish(w) ==
  /\ phase[w] = "next" /\ held[w].left = {}
  /\ sweep' = [sweep EXCEPT ![held[w].sweep] =
                 [state |-> Outcome(held[w]), found |-> held[w].found]]
  /\ held' = [held EXCEPT ![w] = NoSweep]
  /\ Goto(w, "idle")
  /\ UNCHANGED <<world, rows, polledAt, items, mentions, seen, overlapped>>

-----------------------------------------------------------------------------
Abandon(w) ==
  /\ held' = [held EXCEPT ![w] = NoSweep]
  /\ Goto(w, "idle")
  /\ UNCHANGED <<world, stored, seen, overlapped>>

\* Another sweep inserted the source's row since this one looked: the unique
\* name refuses the second, outside the loop's try.
InsertRaises(w) == phase[w] = "insert" /\ At(w) \in rows /\ Abandon(w)

Kill(w) == phase[w] # "idle" /\ Abandon(w)

\* A post appears.
Publish(p) ==
  /\ posted[p] = 0
  /\ posted' = [posted EXCEPT ![p] = clock]
  /\ UNCHANGED <<clock, corpus, stored, phase, held, seen, overlapped>>

Tick ==
  /\ clock < MaxTime
  /\ clock' = clock + 1
  /\ UNCHANGED <<posted, corpus, stored, phase, held, seen, overlapped>>

\* Ingestion adds a paper.
AddPaper(q) ==
  /\ q \notin corpus
  /\ corpus' = corpus \cup {q}
  /\ UNCHANGED <<clock, posted, stored, phase, held, seen, overlapped>>

-----------------------------------------------------------------------------
SourceStep(w) ==
  \/ InsertSource(w) \/ InsertRaises(w) \/ SkipSource(w)
  \/ PollListings(w) \/ PollFeeds(w) \/ PollFails(w)
  \/ SourceFails(w) \/ StorePost(w) \/ CountItems(w) \/ Advance(w)
SweepStep(w) == NextSource(w) \/ SourceStep(w) \/ Finish(w)

Next ==
  \/ \E w \in Workers : Start(w) \/ SweepStep(w) \/ Kill(w)
  \/ \E p \in Posts : Publish(p)
  \/ Tick
  \/ \E q \in Papers : AddPaper(q)

Spec == Init /\ [][Next]_vars

-----------------------------------------------------------------------------
(* Properties.                                                             *)

\* Every row and every worker's memory has its type.
TypeOK ==
  /\ clock \in 1..MaxTime
  /\ posted \in [Posts -> 0..MaxTime]
  /\ corpus \subseteq Papers
  /\ rows \subseteq Sources
  /\ polledAt \in [Sources -> 0..MaxTime]
  /\ items \subseteq Posts
  /\ mentions \subseteq items \X corpus \X {"arxiv", "doi"}
  /\ DOMAIN sweep \subseteq 1..MaxSweeps /\ sweep \in [DOMAIN sweep -> SweepRow]
  /\ phase \in [Workers -> {"idle", "next", "insert", "open", "store", "advance"}]
  /\ held \in [Workers -> Held]
  /\ seen \subseteq Posts

\* A stored post mentions a paper for each identifier that is known, whichever
\* of several rows that bear it: no crash, second sweep or other identifier
\* comes between (phase-4/05-paper-link-resolution.md:15).
KnownPapersAreMentioned ==
  \A p \in items : \A i \in p.names :
    Bearers(i, OldPapers) # {} =>
      \E q \in Bearers(i, corpus) : {p} \X {q} \X {"arxiv", "doi"} \cap mentions # {}

\* A post mentions a paper once, though it be named twice, stored by two
\* sweeps, or found under both identifiers; the table has no constraint to
\* that effect.
MentionedOnce ==
  \A m, n \in mentions : m[1] = n[1] /\ m[2] = n[2] => m = n

\* The sweeps never report more items than there are: sweeps that overlap
\* count a post once, and so does one whose posts were counted before it failed
\* to record the poll (phase-4/PHASE.md:176, a repeat run adds no duplicates).
NothingIsCountedTwice ==
  Cardinality(UNION {{r} \X (1..sweep[r].found) : r \in DOMAIN sweep}) <= Cardinality(items)

\* What a poll returned is stored, or due again, however often the source
\* failed or the sweep was killed before (phase-4/08-discourse-sweep.md:38,
\* a failing source retries from where it left off), as long as it is listed.
SeenPostsAreKept ==
  \A p \in seen :
    p.source \notin Tolerant /\ ~PushedOut(p) /\ ~overlapped =>
      p \in items \/ posted[p] > polledAt[p.source]
=============================================================================
