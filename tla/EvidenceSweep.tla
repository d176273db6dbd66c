---------------------------- MODULE EvidenceSweep ----------------------------
(***************************************************************************)
(* Subscriptions and the evidence sweep that works through them: for every *)
(* scope followed, count, ingest, count, and then index, extract, link and *)
(* score whatever the scope has that is not yet there.  The scheduler runs *)
(* one sweep a day and never two at once.  What a stage does to one paper  *)
(* is in the other modules; here a paper only moves on by a stage, or is   *)
(* left behind by one that fails for it or raises.  Ingest and the stages  *)
(* may do so in every sweep: a discovery above the ceiling, a document     *)
(* that is not XML and a paper without sections fail again every day.      *)
(***************************************************************************)
EXTENDS Integers, Sequences, FiniteSets

CONSTANTS
  Subscribers,  \* processes of "subscribe"
  Scopes,
  Claims,
  RootOf,       \* claim -> its canonical claim
  Papers,
  Matching,     \* scope -> the papers its search may find
  Ceiling,      \* CORPUS_CEILING
  MaxSubscriptions,  \* bound on the rows of subscription
  Nothing

ASSUME NamesAssumption ==
  Scopes \cap Claims = {} /\ Nothing \notin Scopes \cup Claims /\ RootOf \in [Claims -> Claims]
ASSUME MatchingAssumption == Matching \in [Scopes -> SUBSET Papers]
ASSUME CeilingAssumption == Ceiling \in Nat \ {0}

Stages   == <<"index", "extract", "link", "score">>

VARIABLES
  subscription,  \* rows, in the order of their ids
  pending,       \* subscriber -> the target it found free
  inScope,       \* paper_scope, as pairs
  readable,      \* papers whose parse_status is parsed or abstract_only
  progress,      \* paper -> how many stages it has behind it
  run,           \* the sweep under way, or the one that ended last
  raced          \* two subscribers were at work at once

sweepVars == <<inScope, readable, progress, run>>
subscriptionVars == <<subscription, pending, raced>>
vars == <<sweepVars, subscriptionVars>>

\* todo: the subscriptions whose scope is still to be swept.  Of newly_added
\* and items_found only whether they are above zero is told apart.
Idle == [at |-> "idle", todo |-> {}, before |-> 0, newly_added |-> FALSE, items |-> FALSE,
         listed |-> 0, attempted |-> 0, errors |-> 0, state |-> "none"]

PapersOf(s) == {p \in Papers : <<p, s>> \in inScope}
_paper_count(s) == Cardinality(PapersOf(s))

Init ==
  /\ subscription = <<>>
  /\ pending = [u \in Subscribers |-> Nothing]
  /\ inScope = {}
  /\ readable = {}
  /\ progress = [p \in Papers |-> 0]
  /\ run = Idle
  /\ raced = FALSE

-----------------------------------------------------------------------------
(* Subscriptions.                                                          *)

\* A topic is followed by its scope, a claim by its root.
Resolve(target) == IF target \in Scopes THEN target ELSE RootOf[target]

\* Mutant: a claim's subscriptions are looked up by the id given.
ActiveAsNamed(target) ==
  {i \in DOMAIN subscription : subscription[i].active /\ subscription[i].target = target}

\* The active rows _reject_duplicate finds.
Active(target) ==
  {i \in DOMAIN subscription : subscription[i].active /\ subscription[i].target = Resolve(target)}

\* subscribe_topic and subscribe_claim, up to the test that lets them go on.
FindFree(u) ==
  /\ pending[u] = Nothing
  /\ Len(subscription) + Cardinality({v \in Subscribers : pending[v] # Nothing}) < MaxSubscriptions
  /\ \E target \in Scopes \cup Claims :
       /\ Active(target) = {}
       /\ pending' = [pending EXCEPT ![u] = Resolve(target)]
  /\ raced' = (raced \/ \E v \in Subscribers \ {u} : pending[v] # Nothing)
  /\ UNCHANGED <<subscription, sweepVars>>

\* The insert and the commit.
AddSubscription(u) ==
  /\ pending[u] # Nothing
  /\ subscription' = Append(subscription, [target |-> pending[u], active |-> TRUE])
  /\ pending' = [pending EXCEPT ![u] = Nothing]
  /\ UNCHANGED <<raced, sweepVars>>

Unsubscribe(i) ==
  /\ subscription[i].active
  /\ subscription' = [subscription EXCEPT ![i].active = FALSE]
  /\ UNCHANGED <<pending, raced, sweepVars>>

-----------------------------------------------------------------------------
(* A sweep.                                                                *)

Working == run.at \notin {"idle", "ended"}

\* run_evidence_sweep: its row, and the active topics in the order of ids.
\* The scheduler starts one when the last has ended.
StartSweep ==
  /\ ~Working
  /\ LET topics == {i \in DOMAIN subscription :
                     subscription[i].active /\ subscription[i].target \in Scopes}
     IN run' = [Idle EXCEPT !.at = "count", !.todo = topics, !.listed = Cardinality(topics)]
  /\ UNCHANGED <<subscriptionVars, inScope, readable, progress>>

\* The subscription at hand, and its scope, which never changes.
Current == CHOOSE i \in run.todo : \A j \in run.todo : i <= j
Scope == subscription[Current].target

Leave(added, errors) ==
  [run EXCEPT !.at = "count", !.todo = @ \ {Current}, !.before = 0, !.newly_added = FALSE,
              !.attempted = @ + 1, !.items = @ \/ added, !.errors = @ + errors]

ScopeDone(added) == Leave(added, 0)

\* Mutant: an error ends the sweep.
AbortSweep == [Leave(FALSE, 1) EXCEPT !.todo = {}]

\* An exception inside _sweep_scope is recorded, and the next scope is taken.
ScopeFailed == Leave(FALSE, 1)

\* Nothing is done for a scope at the ceiling.
CountBefore ==
  /\ run.at = "count" /\ run.todo # {}
  /\ run' = IF _paper_count(Scope) >= Ceiling THEN ScopeDone(FALSE)
            ELSE [run EXCEPT !.at = "ingest", !.before = _paper_count(Scope)]
  /\ UNCHANGED <<subscriptionVars, inScope, readable, progress>>

\* What run_ingest leaves of the candidates it takes: each is in the scope,
\* and some of them could be parsed.
Take(candidates) ==
  /\ inScope' = inScope \cup {<<p, Scope>> : p \in candidates}
  /\ \E parsed \in SUBSET candidates : readable' = readable \cup parsed

\* run_ingest takes every candidate of a discovery.
Ingest ==
  /\ run.at = "ingest"
  /\ \E found \in SUBSET Matching[Scope] : Cardinality(found) <= Ceiling /\ Take(found)
  /\ run' = [run EXCEPT !.at = "recount"]
  /\ UNCHANGED <<subscriptionVars, progress>>

\* It raises: before the first candidate if there are more than the ceiling,
\* or after some of them.
IngestRaises ==
  /\ run.at = "ingest"
  /\ \E found \in SUBSET Matching[Scope] : \E taken \in SUBSET found :
       (Cardinality(found) > Ceiling => taken = {}) /\ Take(taken)
  /\ run' = ScopeFailed
  /\ UNCHANGED <<subscriptionVars, progress>>

NewlyAdded(before, after) == after > before

\* Mutant: nothing new, nothing to do.
OnlyWhenNew(added) == IF ~added THEN ScopeDone(FALSE)
                      ELSE [run EXCEPT !.at = "index", !.before = 0, !.newly_added = added]

\* The stages run whether or not papers were added.
ToStages(added) == [run EXCEPT !.at = "index", !.before = 0, !.newly_added = added]

CountAfter ==
  /\ run.at = "recount"
  /\ run' = ToStages(NewlyAdded(run.before, _paper_count(Scope)))
  /\ UNCHANGED <<subscriptionVars, inScope, readable, progress>>

\* The papers of the scope a stage finds to do.
Waiting(k) == {p \in PapersOf(Scope) \cap readable : progress[p] = k - 1}

\* A stage has seen to every one of its papers, and is done with some.
StageDone(k, done) ==
  /\ progress' = [p \in Papers |-> IF p \in done THEN k ELSE progress[p]]
  /\ run' = IF k = Len(Stages) THEN ScopeDone(run.newly_added)
            ELSE [run EXCEPT !.at = Stages[k + 1]]
  /\ UNCHANGED <<subscriptionVars, inScope, readable>>

Stage(k) ==
  /\ run.at = Stages[k]
  /\ StageDone(k, Waiting(k))

\* What fails for one paper or claim is logged, and the stage goes on.
StageLeaves(k) ==
  /\ run.at = Stages[k]
  /\ \E left \in SUBSET Waiting(k) : left # {} /\ StageDone(k, Waiting(k) \ left)

\* The stage itself raises, after some of its papers.
StageRaises(k) ==
  /\ run.at = Stages[k]
  /\ \E done \in SUBSET Waiting(k) :
       progress' = [p \in Papers |-> IF p \in done THEN k ELSE progress[p]]
  /\ run' = ScopeFailed
  /\ UNCHANGED <<subscriptionVars, inScope, readable>>

\* The state written to the row.
FinalState(r) ==
  IF r.listed = 0 \/ r.errors = 0 THEN "completed"
  ELSE IF ~r.items /\ r.errors = r.listed THEN "failed"
  ELSE "completed_with_errors"

EndSweep ==
  /\ run.at = "count" /\ run.todo = {}
  /\ run' = [run EXCEPT !.at = "ended", !.state = FinalState(run)]
  /\ UNCHANGED <<subscriptionVars, inScope, readable, progress>>

\* The process dies, and its row stays "running".
Kill ==
  /\ Working
  /\ run' = Idle
  /\ UNCHANGED <<subscriptionVars, inScope, readable, progress>>

SweepStep ==
  \/ StartSweep \/ CountBefore \/ Ingest \/ IngestRaises \/ CountAfter
  \/ \E k \in DOMAIN Stages : Stage(k) \/ StageLeaves(k) \/ StageRaises(k)
  \/ EndSweep

Next ==
  \/ \E u \in Subscribers : FindFree(u) \/ AddSubscription(u)
  \/ \E i \in DOMAIN subscription : Unsubscribe(i)
  \/ SweepStep \/ Kill

Spec == Init /\ [][Next]_vars /\ WF_vars(SweepStep)

-----------------------------------------------------------------------------
(* Properties.                                                             *)

\* A target has one active subscription at most, unless two subscribe
\* commands ran between each other's test and insert.
OneActivePerTarget ==
  ~raced => \A i, j \in DOMAIN subscription :
    subscription[i].active /\ subscription[j].active
      /\ subscription[i].target = subscription[j].target => i = j

\* A sweep that ended tried every scope it listed, whatever failed before,
\* and its state is the truth about them: failed only if every scope failed
\* and nothing was found, completed only if none failed.
EveryScopeIsAttempted ==
  run.at = "ended" =>
    /\ run.attempted = run.listed
    /\ run.state = "failed" => run.errors = run.attempted /\ ~run.items
    /\ run.state = "completed" => run.errors = 0

Followed(s) == \E i \in DOMAIN subscription : subscription[i].active /\ subscription[i].target = s

\* The steps that keep a paper of a scope from moving on: a sweep that dies,
\* a stage that raises in the scope, one that fails for this very paper.
HeldUp(s, p) ==
  \/ Kill
  \/ \E k \in DOMAIN Stages : StageRaises(k) /\ Scope = s
  \/ \E k \in DOMAIN Stages :
       StageLeaves(k) /\ Scope = s /\ p \in Waiting(k) /\ progress'[p] = progress[p]

\* A paper of a scope that could be parsed comes through every stage, those
\* an earlier fault left behind as well and though nothing new is found: as
\* long as the scope is followed and below the ceiling, its ingest returns
\* again and again, and the paper itself is not held up for ever.  Papers
\* and scopes that fail in every sweep must not hold back the others.
BacklogDrains ==
  \A s \in Scopes, p \in Papers :
    /\ <>[](Followed(s) /\ _paper_count(s) < Ceiling)
    /\ []<><<Ingest /\ Scope = s>>_vars
    /\ <>[][~HeldUp(s, p)]_vars
    => (p \in PapersOf(s) \cap readable ~> progress[p] = Len(Stages))
=============================================================================
