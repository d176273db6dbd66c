# A verification development for AI-Researcher

AI-Researcher keeps a PostgreSQL corpus of scientific papers. It discovers papers for a
saved scope, downloads and parses them, extracts claims with a language model, links
evidence to the claims, merges duplicate claims, scores them, and watches community sites
for posts about the papers. This directory holds TLA+ models of the parts of that program
whose correctness depends on the order in which things happen, the TLC configurations
that check them, and TLAPS proofs of the results that hold for every instance.

Paths below are relative to `src/src/ai_researcher/` unless they start with `phase-`; those are
under `src/docs/superpowers/projects/ai-researcher-app/`.

## 1. The system

Every command opens its own connection per piece of work: `with connect() as connection`
is one transaction, committed when the block ends, under PostgreSQL's default READ
COMMITTED isolation. No command holds a lock across two of them, and apart from the
migrations no table is locked. The commands of the CLI, the scheduler's jobs and the MCP server are
separate processes or threads over the same tables, so what a command read in one
transaction may be out of date in its next.

| Part | State it keeps | Operations | What makes it correct |
|---|---|---|---|
| Ingest (`ingest/pipeline.py`, `discover.py`) | `paper`, `paper_scope`, `section`, `ingest_job` rows | discover, upsert, acquire, record, parse, store sections, finish the job | a paper is inserted once, finished papers stay so, a run that died is resumed, jobs add up |
| Paper identity (`ingest/dedup.py`) | a list of merged papers | match, merge metadata | records of different papers are never one, a record can be found again by its identifiers |
| Acquisition and parsing (`acquire.py`, `parse.py`, `tei.py`) | PDF files, the copy of a row | download, reuse a file, call GROBID | failures are recorded against the paper |
| Section trees (`trees/`) | `tree_node` rows | decide what is current, flatten, replace a paper's tree | a tree that is skipped is whole, what is anchored to old nodes goes with them |
| Claim extraction (`extraction/`) | `claim`, `paper_extraction_state` | skip, load, extract, reconcile, detach groups | stable claims keep their ids, claims that are referred to are kept, the state row is true |
| Evidence linking (`evidence/link.py`) | `claim_evidence` | load unlinked roots, traverse, save | evidence sits where it is looked for |
| Claim identity (`evidence/identity.py`) | `canonical_claim_id`, `identity_checked_at` | prefilter, compare, group, merge, mark | links have depth one, no duplicate hides behind a checked mark, groups are cliques |
| Scoring (`scoring/`) | `claim_score`, `paper_score` | load unscored or stale, score, insert | scores follow the evidence |
| Retrieval and answers (`retrieval/`, `answer/`) | a frontier under a budget | shortlist, expand, read, synthesize | traversal ends within its budget, citations refer to what was read |
| Discourse sweep (`monitor/discourse_sweep.py`, `discourse/`) | `discourse_source`, `discourse_item`, `discourse_mention`, `sweep_run` | poll since the last poll, store, resolve mentions, advance | no post is lost or counted twice, one source's failure stays its own |
| Evidence sweep, scheduler (`monitor/sweep.py`, `scheduler.py`) | `sweep_run` | ingest, index, extract, link, score per scope | every scope is tried, what a fault leaves behind is worked off later, what fails every day holds back nothing else |
| Subscriptions, changes, digests (`monitor/`, `digest/`) | `subscription`, digests | subscribe, list changes, render | each change is reported in one digest |
| Gateway, HTTP client (`llm/`, `sources/_http.py`) | a semaphore, a rate limiter | call with retries | a failed call frees its slot; attempts are bounded |
| Migrations (`db/migrate.py`) | `schema_migration` | apply in order under a lock | each once |
| CLI, MCP server, scoping, rendering, evaluation | none of their own | call the above | - |

How the parts interact: only through tables. `airesearch extract` and the evidence sweep
run extraction, linking, identity and scoring one after the other in one process, and two
such processes interleave freely; the ingest stage runs in the same sweep and as a command
of its own; a tree rebuild deletes nodes, and foreign keys delete what is anchored to them
in the middle of anything else; ingestion adds papers while the discourse sweep resolves
mentions.

What is hard, therefore: rows read in one transaction and written in a later one;
statements of one READ COMMITTED transaction between which another commits; processes that
die between two of their transactions; state rows that outlive what they vouch for;
cascading deletes; and orderings (of adapters' answers, of claims, of pairs) that decide
results. `PROJECT.json` lists each hazard at its line.

## 2. The modules

| Module | Models | State and steps |
|---|---|---|
| `ClaimStore` | `extraction/pipeline.py`, `extraction/validate.py`, `evidence/link.py`, `evidence/identity.py`, the scoring stage, the cascade of `trees/build.py`, claim subscriptions | the claim tables of a scope; workers that run the stages of `extract`, one step per transaction |
| `CanonicalGroups` | `_canonical_groups` in `evidence/identity.py` | its union-find, one step per pass of a loop, path halving included |
| `CliqueGrouping` | what that function promises | a partition, joined two groups at a time; `CanonicalGroups` implements it |
| `PaperIdentity` | `resolve_identity` in `ingest/dedup.py` | operators; identity test, merge and the fold over the candidates |
| `IdentityResolution` | the same loop, as a state machine | one step per candidate, candidates in any order |
| `Ingest` | `run_ingest` with acquisition, parsing and the sweep's ceiling test | the paper tables, the storage directory, the worker's copies of rows |
| `SectionTrees` | `trees/build.py`, `trees/version.py`, the section walk of `ingest/tei.py` | sections and nodes; indexers beside ingest runs |
| `Traversal` | `retrieval/traverse.py`, `budget.py`, both shortlist backends | one walk with its budget, frontier and trace, over trees that are replaced meanwhile |
| `Answering` | `answer/synthesize.py`, `citation.py`, `link_evidence` | a request that uses a traversal: an answer with citations, or the evidence of a claim |
| `EvidenceSweep` | `monitor/sweep.py`, `subscription.py`, `scheduler.py` | subscription rows, papers with the stages behind them, the sweep under way |
| `ScoreRubric` | the arithmetic of `scoring/confidence.py` and `scoring/quality.py` | operators on integers |
| `ScoreHistory` | `load_unscored_claims`, `score_scope_confidence`, `monitor/changes.py`, `digest/build.py` | timestamps of claims, evidence, traces, scores and digests |
| `DiscourseSweep` | `run_discourse_sweep` with its adapters and mention resolution | sources, posts, mentions, sweeps; posts and papers appear while it runs |
| `ClaimStoreProofs`, `CanonicalGroupsProofs`, `IngestProofs`, `SectionTreesProofs`, `AnsweringProofs`, `EvidenceSweepProofs`, `DiscourseSweepProofs`, `ScoreHistoryProofs` | theorems of those modules (`IngestProofs` of `IdentityResolution`, `AnsweringProofs` of `Traversal`, `ScoreHistoryProofs` of `ScoreRubric` as well) | |
| `MC...` | instances for TLC | |

How they fit together. `Ingest` uses `PaperIdentity`: what a run discovers is
`resolve_identity` of the sightings its adapters return, in every order and with any of them
missing. `Answering` EXTENDS `Traversal`, and `ScoreHistory` EXTENDS `ScoreRubric`.
`ClaimStore` takes the result of the grouping as any family of disjoint cliques of the
compared pairs, which is what `CanonicalGroups` is proved to return (`GroupsStayApart`,
`CliquesOnly`, `OldestIsCanonical`); maximality is not needed there, since the model's answer
is arbitrary. What `link_evidence` does between two transactions of `ClaimStore` is in
`Answering`, and what a stage of `EvidenceSweep` does to one paper is in `Ingest`,
`SectionTrees` and `ClaimStore`.

### ClaimStore and the code

`phase` is the stage a worker is in and `todo` what that stage loaded and has yet to go
through; `version`, `plan` and `seen` are what it holds in memory between transactions.

- `StartRun`, `SkipPaper`, `LoadPaper`, `AnswerFails`, `ReconcileRead`, `PersistExtraction`,
  `PersistFails`: the loop of `extract_scope`. `Batches` and `AnswerFails` are what
  `validate_llm_output` may accept of the model's answers and how it may fail. A paper whose `paper_extraction_state` bears
  the worker's version is skipped. `_persist_extractions` is one transaction, split into its
  reads (`ReconcileRead`: prior claims, matches first in first out per identity, the
  dependents check) and its writes (`PersistExtraction`: detach, update, insert, delete,
  state row), because another process can commit between the two.
- `StartLink`, `SaveLinks`, `LinkFails`: `link_scope_evidence`. Which passages are found is
  any set here; `Answering` has the traversal and the model's verdicts.
- `StartDedup`, `Compare`, `MarkChecked`: `canonicalize_scope`, its load, its merge and its
  marking being three transactions. `Relinked` and `MergeEvidence` are
  `save_canonical_groups`.
- `StartScore`, `SaveScore`: only that a score row exists, which keeps a claim from deletion;
  its contents are in `ScoreHistory`.
- `RebuildTree`, `SubscribeClaim`: the rest of the system as far as it touches these tables.
- `Crash`: the process dies, or an exception nothing catches ends the run.

Abstractions: a claim's identity key is one key, and predicate, object value and unit are
one number, close numbers passing the prefilter (a relation that is not transitive);
evidence rows of one claim and passage are not told apart; methods, results, datasets and
metrics, which nothing refers to, are left out. The statements inside
`save_canonical_groups` are taken together, so that two identity passes interleaving inside
their merges are not covered.

### Ingest and the code

`run` holds the loop's local variables: the candidates left, the copy of the row
(`AcquisitionPaper`, `ParsePaper`) and the totals. `UpsertFound`, `UpsertMissing`, `Insert`
and `InsertRaises` are `_upsert_paper`, split between its lookup and its insert, where the
unique constraints catch another process; `Acquire` and `RecordAcquisition` are the download
and the update that writes the copy back; `Parse` and `RecordParse` the call of GROBID and
the transaction of status and sections; `Refuse` and `Finish` are `_finish_job`. `tei` is the
document a row holds: none, one whose body has divs, or one without (`Documents`), which is parsed
as well and leaves the paper no section.
`ParseRaises` is the exception of `tei_to_sections` that `parse_pdf` lets through. Left out:
`paper_author`, `paper_source` and `source` rows, contents of files.

### SectionTrees and the code

`ix` is what an index command holds: the papers left, the model version it started with, the
sections loaded and the nodes its DELETE removes. `SkipCurrent` and `LoadPaper` are one
transaction in the code (`TreeIsCurrent`, then `_load_paper_input`); `AddAbstract` is the
Abstract section it inserts for a paper without full text; `DeleteNodes` and `StoreTree` are
`_persist_tree`, split because READ COMMITTED lets another indexer commit in between;
`build_tree` with `FlattenedParent` is the pure part. `Reparse` is `_persist_sections` of an
ingest run, whose cascade takes the nodes along. The documents include the one without divs: a
paper parsed into it has no sections, so `build_tree` refuses it and it never has a tree. Left out: the summaries' words, and page
ranges. The staleness test counts and the sections are loaded at one moment here; a reparse
between those two statements would cause one wrong decision, healed by the next command.

### Traversal, Answering and the code

`Shortlist`, `LoadTree` and `WriteTrace` are the three transactions of `traverse`, and
`OpenBatch`, `Judge`, `LeaveLoop` its loop: `used` and `limit` are the `ExpansionBudget`, and
what a judgement says is arbitrary. `Rebuild` and `DropTree` replace trees meanwhile, with new
node ids. `RefuseThin`, `Synthesize` and `Cite` are `synthesize` with its second attempt and
the citations that must all resolve; `LoadCandidates`, `Classify`, `ReadExisting` and
`SaveLinks` are `link_evidence`, its save split after the read of the claim's rows.
`LinkElsewhere` is another process linking the same claim. What the code sorts is a sequence of
the set `Ordered`: the members of a set listed in a given order. Left out: how the backends rank
papers, the text of nodes and answers, the lines of a page.

### EvidenceSweep and the code

A paper's `progress` is the number of stages it has behind it; `run.todo` holds the
subscriptions listed and not yet tried, taken in the order they were made. `FindFree` and
`AddSubscription` are `subscribe_topic` and `subscribe_claim`, split between the test for a
duplicate and the insert; `Resolve` takes a claim to its root. `StartSweep`, `CountBefore`,
`Ingest`, `CountAfter`, `Stage`, `EndSweep` are `run_evidence_sweep` and `_sweep_scope`, and
`ScopeFailed` the exception that is recorded while the next scope is taken. `Take` is what ingest
leaves of the candidates it takes: rows of `paper_scope`, and for some a `parse_status` with which
the stages accept them (`readable`); a failed or pending paper is in the scope and counted, and no
stage takes it up. `Stage` is a stage that is done with every paper waiting for it, `StageLeaves` one
that logs a failure of some paper and goes on, `StageRaises` one that raises after some papers, and
`IngestRaises` a discovery above the ceiling, refused before its first candidate, or a document
that stops the run half way. All of these, and the death of the process, may happen any number
of times, in every sweep if need be. Linking and scoring work on claims; here a paper is through
with them when its claims are. Two scheduled sweeps never overlap (the scheduler allows one instance of a job);
a `sweep` command beside the scheduled one is left out here.

### ScoreRubric, ScoreHistory and the code

`ScoreRubric` computes both scores in integers: ratios are percentages, contributions are
kept in ten-thousandths of a point, the precision the code rounds them to, and their total is
rounded half to even as Python's `round` does; the weights, caps and bands are the code's. `ScoreHistory` gives each row the time its transaction started, as `now()` does in
PostgreSQL, and `committed` when it became visible. `Due` is the test of
`load_unscored_claims`; `Load`, `Save` and `SaveFails` are `score_scope_confidence`, which
scores what it loaded, one transaction per claim. `Reextract`, `ReextractChanged`, `Merge`,
`Mark`, `StartLink`, `SaveLinks` and `RebuildTree` are the writers, as far as scoring reads
them. `Digest` is a digest asked for everything since the one before; `NewEvidence`,
`StanceFlips` and `ScoreMovements` are the queries of `detect_changes`, kept apart from the
history that says what really changed.

Abstractions: a merge waits until no link is under way (that race is `ClaimStore`'s); how a
text compares with another is a constant percentage, and so are a paper's facts and
validation counts, although a change of them does not make a score due; stances are supports
and refutes; only papers without claims are rebuilt; `since` is the exact time of the previous
digest, where the CLI takes a date; the score rows kept are the last two, all that
`_score_movements` reads; new papers and mentions, plain comparisons of `created_at`, are left
out.

### DiscourseSweep and the code

`NextSource`, `InsertSource`, `SkipSource`, the polls, `StorePost`, `CountItems`, `Advance`,
`SourceFails`, `Finish` follow the loop over the adapters in the order they are registered. A feed, subreddit
or site lists its newest `Window` posts. `PollListings` is Hacker News, Reddit and Hugging Face,
which raise if any request fails (`PollFails`); `PollFeeds` is RSS (`Tolerant`), which leaves out
feeds that fail. `Keyed` are the sources that need credentials. `StorePost` is the transaction of
`_persist_items` with `resolve_against_corpus`: `Indexes` are its two dictionaries, in which rows
of one work, spelled differently, compete for an identifier. `CountItems` adds the new posts
to `items_found` and takes the time, `Advance` writes that time to the source's row in a transaction
of its own, and `SourceFails` is an exception before either: in the second case the posts stay
counted, the source is one that failed, and the next sweep polls it again from the same time.
What a worker remembers of a source it is through with is cleared. The clock is a counter read by everyone. Left out are the
patterns by which identifiers are found in a text, and SciRate, disabled by default, which asks
for given pages whatever `since` is.

## 3. What is checked

Bounds are constants of the modules and are named in their CONSTANTS sections. Runs stop
when their bounds are used up, so deadlock is not an error in any of them (`CHECK_DEADLOCK
FALSE`); that nothing stops earlier is what the liveness properties say.

| Run | Instance | Shows |
|---|---|---|
| `claim_store_one_worker` | one process, two papers, two versions, two quantities that are close, up to three claims, two per answer, two runs, crashes anywhere | evidence sits on roots (`EvidenceOnRoots`), two checked roots that could be duplicates were compared (`CheckedRootsWereCompared`), the extraction state tells the truth, and claims that are referred to survive re-extraction |
| `claim_store_two_workers` | two processes, three claims, a rebuild of each tree, a subscription, no evidence | canonical links have depth one (`CanonicalPointsToRoot`), duplicates are marked, nothing refers to a deleted claim |
| `canonical_groups` | every set of duplicate pairs of five claims | groups are disjoint cliques, named by their least claim, none of which could still be merged; the function returns |
| `identity_resolution` | lists of up to four records, two DOIs, one in two spellings, an arXiv id in two spellings, with or without a byline | a merged paper bears the identifiers of every record it took in |
| `ingest_one_worker` | two runs of one process, four sightings of two works in every order and subset, a lost file, kills anywhere | inserts never collide, finished papers stay finished, pending ones are resumed by the next run that completes, `papers_parsed` adds up |
| `ingest_two_workers` | two processes, two scopes, a lost file, documents with and without divs | the sections of a parsed paper are those of the document its row holds, whoever wrote it last, and every run ends |
| `section_trees` | two indexers, three commands, a parsed and an abstract-only paper, documents of four levels, of one and of none, a maximum depth of two, up to three parses each, two summary models, kills anywhere | a tree that is skipped is whole, every build is a tree of bounded depth, a repeated command builds nothing |
| `answering` | one question or one claim, two papers of three and one nodes, one rebuild, budgets of 0, 2 and 3, every judgement | the budget holds, nodes are opened on request, the trace is true, answers cite selected nodes, saved evidence is what was judged, every request ends |
| `evidence_sweep` | two scopes that share one of two papers, two claims of one group, two subscribers, any number of daily sweeps and of faults | one active subscription per target, every scope is tried, a paper that could be parsed comes through every stage, whatever fails elsewhere |
| `score_history` | two claims of papers of different kinds, two nodes, five transactions, one digest before the last | when a score can be out of date, that support never lowers a score, what a digest says compared with what changed |
| `discourse` | two sweeps that may overlap, three posts of two subreddits that list one post each and one of an RSS feed, a paper ingested meanwhile that shares an identifier with each of two others, failures and kills anywhere | what a poll returned is stored or due again unless sweeps overlapped or newer posts pushed it out, posts mention the papers they name, once each, no post is counted by two sweeps, nor twice by one whose update of the poll time failed |

Why the bounds suffice. Three claims in two papers are the least that make a duplicate of a
duplicate, a detached group with a member left, and a chain A~B~C in which A and C are not
close. Two runs let a second see what a first left, under another version. Five claims give
the union-find trees of depth two that path halving rewrites. Four records give a paper
that is bridged to by a record without a DOI and then met again. Three sightings of a work
(DOI, arXiv id, both) give each of the ways the two lookups can disagree. A document two
levels too deep makes a flattened node whose own parent is flattened as well. A budget of two
over three nodes cuts a batch, one of three is spent exactly, and zero is refused. Two
scopes that share a paper, one of which can reach the ceiling, let one fail for ever while the other
drains. Five transactions are a link (two), a score, and
two of what can make it stale, a second score or a digest among them; two of the property's
exceptions (`Overtaken`, `Deprived`) are needed within them. The third (`Enlarged`) needs a group
that has a duplicate before it grows, so three claims and six transactions, too many states for a
listed run; the theorem `NotDueMeansCurrent` covers it (section 4). Two sweeps with one clock tick
between them are the least in which a post is polled twice, or by both; subreddits that list one
post let a later post push one out, and two of them let a poll return two posts.

No listed run combines tree rebuilds with evidence: `claim_store_two_workers` has no passages,
so that rebuilds, a subscription and two processes fit together. That evidence never refers
to a deleted claim is proved for every instance (`TypesHold`), and so is that it stays on roots
across rebuilds while one process runs (`OneProcessKeepsEvidenceOnRoots`).

Fairness. `CanonicalGroups` has weak fairness of its next step: it is a function that runs.
`Ingest` has weak fairness of each worker's own steps, not of starts, kills or file losses: a
worker in the middle of a run executes straight-line code whose requests and model calls have
time limits. `Answering` has weak fairness of the request's own steps for the same reason, not
of rebuilds or other linkers. `EvidenceSweep` has weak fairness of the sweep, its start
included: the scheduler starts a job every day, whatever the last one did, as long as it runs.
How its steps come out, which of them fail, what ingestion finds and who subscribes are left to chance:
`BacklogDrains` states its conditions in the formula itself, per scope and paper. The scope is
followed and below the ceiling from some time on, its ingest returns again and again, and from
some time on no sweep dies, no stage raises in this scope and none fails for this paper
(`HeldUp`). Other papers and other scopes may fail in every sweep. No liveness is claimed of the
other modules.

Modules state `TypeOK` for a reader and for the proofs; not every run lists it. Each property
of the passing runs has a mutant of the code model in the module (an operator whose comment
starts with "Mutant:") under which TLC finds it violated; `PROJECT.json` lists them.

### Where the code and its documentation part

One run, `claim_store_merge_race`, shows a property that a docstring states and the code does
not keep (`EvidenceOnRoots`): a linker loads a root, another process merges it, and the linker
saves evidence on what is now a duplicate (`evidence/link.py:163`). Scores, links and merges look for
evidence on roots; it is still read by those who ask for the duplicate's own id, `get_claim`
(`claims/query.py:259`) and the changes of a subscription that stayed on it (`monitor/changes.py:148`).

Others of the same kind follow from steps of the models, and are described here only.

Extraction and identity:

- A tree rebuild deletes a paper's claims but not its `paper_extraction_state`, so extraction
  skips it as current (`extraction/pipeline.py:451`, against phase-3/PHASE.md:126; reachable by
  `RebuildTree`, then `SkipPaper`).
- A rebuild that deletes a canonical claim leaves its duplicates as roots that are still marked as
  checked, so they are not compared with each other or with anything else (`RebuildTree`; this is
  why `CheckedRootsWereCompared` is proved only while no tree was rebuilt).
- A link committed by another process between a re-extraction's dependents check and its
  delete is cascaded away (`ReconcileRead`, another worker's `SaveLinks`, `PersistExtraction`).
- `mark_claims_checked` marks by id: a root whose quantity a re-extraction changed since it
  was loaded is marked though its new value was never compared.
- A canonical claim merged before it had evidence is linked later with several rows of one
  paper; only `save_canonical_groups` reduces rows per paper (phase-3/PHASE.md:107).

Papers:

- `resolve_identity` takes the first paper that matches by any rule, so one with an equal
  title takes a record from a later one with its DOI (phase-1/06-paper-dedup-provenance.md:21).
- Rows are looked up by identifiers as spelled while `resolve_identity` normalizes them: a
  work can be inserted and parsed twice. A failed paper whose PDF is on disk is never parsed
  again, and the next run writes `parse_error = None` over its message
  (`ingest/pipeline.py:150`, against phase-1/PHASE.md:171). The ceiling is compared with one
  discovery, not with what the scope holds. Malformed TEI ends the run and leaves its job
  `running`. With two runs at once, `parsed` can be overwritten by `pending` or `failed`,
  written back from an old copy.
- TEI without a body, or whose body has no divs, makes a paper `parsed` with no section rows
  (`ingest/tei.py:35` and `:77`, `ingest/parse.py:102`, against phase-1/PHASE.md:166), and
  `papers_parsed` counts it. It is terminal, so it is never parsed again; index fails for it in
  every run (`trees/build.py:121`), so it gets no tree and no claims.
- Two indexers can leave a paper with two trees, until the next index command notices that
  the count is wrong.

Questions and evidence:

- An answer may cite node ids a rebuild has removed meanwhile: `ask` reads the tree once.
- An exception inside a traversal leaves no trace, although phase-2/04 says that every
  traversal writes exactly one.
- Two linkers of one claim can leave two rows for one node: `save_links` reads before it
  writes, and no constraint forbids the pair.
- `get_claim`, behind `claim show`, selects `tree_node.section_path` and `tree_node.body_text`,
  columns that table lacks (`claims/query.py:252`), so showing a claim with evidence raises;
  the factors it would recompute differ from those of the stored score (`:340`, `:370`, `:406`).

Sweeps and subscriptions:

- `last_polled_at` is the time after polling and storing, so posts that appear in between are
  never polled (`discourse_sweep.py:117`, against phase-4/PHASE.md:174). The RSS adapter
  reports success when one of its feeds fails, and that feed's posts are then older than
  `last_polled_at`. Two sweeps that overlap can lose posts in the same way (`SeenPostsAreKept`
  excludes them by `overlapped`). Hacker News is asked for its newest 50 stories and Reddit for 100
  posts of each subreddit, so what is pushed out between two polls is lost, even if a poll
  returned it to a sweep that died (excluded by `PushedOut`). Which of two rows of a work a post
  mentions depends on the order of an unordered query (`resolve.py:121`). A post is matched with the corpus once, so a paper ingested
  later gets no mention.
- `items_found` falls short of what was stored when a post fails after others of its source were
  stored: the next sweep finds those there and counts none of them. When the update of `last_polled_at`
  fails instead, the posts stay counted and the sweep, though it stored everything, is
  `completed_with_errors` (`discourse_sweep.py:116-127`).
- Two subscribe commands at once can both insert; the scope is then swept twice, and the next
  subscribe or unsubscribe of that target raises (`OneActivePerTarget` excludes it by `raced`).
- A subscribed root may become a duplicate; the subscription stays on it
  (phase-4/06-subscriptions-cli.md:39).
- At the ceiling a sweep returns before the stages, so what an earlier one left behind stays.
  Below it, a discovery larger than the ceiling (`ingest/pipeline.py:103`) and a document that is
  not XML (`ingest/parse.py:102`, a `ParseError` nothing catches) make ingest raise on every sweep that
  meets them, before any stage runs: the scope then has an error each day and its backlog stays
  (against phase-1/PHASE.md:171 for the document). These are the conditions of `BacklogDrains`.
  Papers that failed or are pending count towards the ceiling and are taken by no stage
  (`trees/build.py:206`, `extraction/pipeline.py:383`).
  Papers added for a scope that then fails are missing from `items_found`.

Scores and digests:

- A change made while a claim is being scored, or evidence committed by a transaction that
  started before the score, is never scored; neither is a loss of evidence by cascade
  (`ScoresAreCurrent` excludes both by `Overtaken` and `Deprived`).
- When a group grows, `save_canonical_groups` sets `identity_checked_at` of the canonical claim and of
  the claims it repoints (`evidence/identity.py:133-153`), not of the claims that were duplicates of
  that canonical one before. Their evidence is the group's, so it changes, but rows it gains
  may be older than their score, and nothing makes them due: they keep a score of evidence they no
  longer have (`ScoresAreCurrent` excludes such duplicates by `Enlarged`; canonical claims keep the
  promise). Without that exception TLC finds, with three claims and six
  transactions: `Merge({1,2})`, a link of claim 3 (`StartLink`, `SaveLinks`), `Load`,
  `Merge({1,3})`, a failed save for 1 (`SaveFails`), `Save` for 2.
- After a group is detached,
  its members keep their old scores until the identity stage marks them, which the evidence
  sweep never runs.
- Evidence that reaches a subscribed claim by a merge, or by a transaction that started before
  the last digest, and a stance that a later link changes in place, are never reported as new
  or as a flip (phase-4/09-change-detection.md:21). The baseline is the user's `--since`, not
  the last completed sweep.

## 4. What is proved

`ClaimStoreProofs`: `TypesHold`, `CanonicalLinksHold` and `DuplicatesStayChecked`, from
`IInv == TypeOK /\ LinksOK`, where `LinksOK` says that a duplicate's canonical claim exists and is a root and that
duplicates are checked. Depth one is inductive only with the types: a merge relinks the
former duplicates of a claim that becomes a duplicate, and re-extraction detaches whole
groups, which needs that a group is known by its root. One lemma per action; the lemmas about
`Relinked`, `RowsWithout` and `RowsAfterPersist` carry the arguments. Assumed: the named
assumptions of `ClaimStore` (bounds are naturals, passages belong to papers, papers and
values are numbers), nothing about their size.

Four more theorems have the hypothesis `OneWorker` (`Workers` is a singleton), because two
processes at once break each of these promises (section 3): `OneProcessKeepsEvidenceOnRoots`,
`OneProcessComparesCheckedRoots`, `OneProcessTellsTheTruth` and `OneProcessKeepsLinkedClaims`.
Their invariant (`Alone`) says what the one process holds between its transactions, crashes
included. `Rooted` holds whatever trees are rebuilt: evidence is on roots, the claims a linker has
still to go through are roots if they exist, and nothing has come to refer to a claim that a
re-extraction is about to delete; to refer is to be evidence, a score or a duplicate of it, which
is what `_claims_have_dependents` counts. A subscription is not counted, so a claim that is only
subscribed to may be deleted, and the subscription with it. `Accurate` holds while no tree was rebuilt (`NeverRebuilt`): what
a re-extraction has planned accounts for each claim of its paper and knows which of them change,
what the identity stage loaded is what the table has, and claims that are marked, or about to be,
were compared. Two of the theorems state their property under `NeverRebuilt`, since a rebuild takes
claims away and leaves the rows that tell about them (section 3): `OneProcessComparesCheckedRoots`
and `OneProcessTellsTheTruth`.

`CanonicalGroupsProofs`: `GroupsStayApart`, `CliquesOnly`, `OldestIsCanonical`,
`NothingLeftToMerge` and the refinement `GroupingKeepsItsPromise` (`Spec => ImplementsPromise`),
for every set of claims and every answer of the model. The invariant
adds that parents lie in their claim's tree, that the worker's cursor stays in the tree of the
claim it looks up, and that each pair already decided is either inside one group or refused
by a pair the model did not accept. Groups only grow, so a refusal stays justified. For the
refinement the groups are the images of the roots under `members`: merging two trees removes two
groups and adds their union because, groups being disjoint, no two roots have the same one; all
other steps stutter, except the return, which needs maximality.

`IngestProofs`: `SectionsAlwaysFollowTei` holds of any number of workers: a parsed paper has
sections exactly if the document in its row has divs. Its invariant
(`Base`) adds that a worker about to write `parsed` back from its copy of a row either found that
row parsed or replaces document and sections in one transaction, and that ids are dense. The other four theorems,
`OneWorkerInsertsNewPapers`, `OneWorkerCountsPapersOnce`, `OneWorkerLeavesDonePapers` and
`OneWorkerLeavesNothingPending`, have the hypothesis `OneWorker` (`Workers` is a singleton), because
the code keeps these promises only then: two runs at once collide on an insert, count a paper
twice and write `pending` over `parsed` (section 3). Their invariant (`Alone`) says that the copy a
worker holds agrees with the row, that what its lookups missed is still missing when it inserts,
that at most its own job is running, and (`Counted`) that what its jobs and its current run have
counted are the papers that are parsed. Kills, lost files and any sequence of runs are covered.

`IngestProofs` also proves `DoisStayApart` and `ArxivIdsStayApart` of `IdentityResolution`, from
`RecordsTyped` and `DoiNamesPaper`, under the assumption that no identifier is blank once normalized.
That the first match is well defined uses that the natural numbers are well-founded.

`SectionTreesProofs`: `SkippedTreesAreWholeAlways` and `RepeatedIndexingBuildsNothing`, from
`BuildsAreWhole`, for any number of indexers beside ingest runs. The code decides by counting,
so the argument is about whole builds (`BuildsInv`): a stored build of a parsed paper has a node for
each section the paper has, because an indexer holds either all sections there are or only sections
that are gone (`InHand`), what it deletes are whole builds, and a reparse takes all nodes of its
paper along. Then as many nodes as sections are one build. That a repeated command builds nothing
is `LeftAlone`: as long as nobody else writes, what an indexer loaded is what there is, and the
papers it is through with have current trees. Of `build_tree` only what a build covers is needed
here, one node per section (`BuildCoversInput`).

`TreesAreShaped` (`Spec => []TreeShape`) is about the depths and parents themselves. A document's
sections are well formed (`WellFormed`): a parent is there and comes first, since a div is at most
one level below the one before it (`DivHasParent`). Therefore the recursive functions of `build_tree`
exist and are what their equations say (`DepthsAreComputed`, `AncestorsAreComputed`), each section has
an ancestor at every level above its own (`AncestorsAreBefore`), and the parent that
`_flattened_parent_id` picks is one level up and inserted before (`BuildIsShaped`). Inductions are on
sets of sections (`SectionInduction`, by a least counterexample). That a stored tree keeps its shape
(`ShapeInv`) follows from `BuildsAreWhole`: the parent goes only with its child.

`AnsweringProofs`, about `Traversal`: `TraversalsKeepTheBudget`, `NodesAreOpenedOnRequest`,
`TracesAreTrue`. The invariant (`WalkInv`) rests on one sequence, `walked`: what was opened, what
is being judged and what waits, in that order, without repetition and all of it marked as queued
(`QueuedOnce`). The budget follows by counting it; that nothing is opened unasked follows from
its waiting for a reason (`QueuedIsAsked`); that a node's children can be asked for needs that
the parent of a loaded node is loaded (`TreeClosed`). About `Answering`:
`AnswersCiteSelectedNodes` and `LinkedClaimsHaveTheirLinks`, from `RequestInv`. The latter is
an argument about time: nodes that a rebuild removed never come back, so between the read
and the writes of `save_links` the rows of the claim can only shrink by cascade, and the nodes that
were read remain those the writes go by.

`EvidenceSweepProofs`: `SubscriptionsStayUnique`, from the fact that as long as nobody raced at
most one subscriber is between its test and its insert, and what it found free still is
(`FoundIsFree`); and `EveryListedScopeIsAttempted`, from counting: what was tried and what is left
add up to what was listed, whatever ingest and the stages do.

`DiscourseSweepProofs`: `PostsMentionKnownPapers`, `PostsMentionPapersOnce`, `PostsSeenAreKept`,
`ItemsAreCountedOnce` and `DiscourseTypes`. `PostsSeenAreKept` is proved of histories in which no two
sweeps overlapped: then one worker is active, what was seen of its source is stored or in its
hand, and what was seen of any other source is newer than the recorded time of its poll
(`KeptInv`). `ItemsAreCountedOnce` needs no such condition: each stored post is credited to one sweep,
and a sweep reports no more than it is credited with, whether or not the update of the poll time that
follows the counting succeeds (`CountInv`).

`ScoreHistoryProofs`: `NotDueMeansCurrent`, `MoreSupportScoresNoLower`, `DigestsTellDifferences`
and `TypesHold`, from one invariant (`IInv`).

- `NotDueMeansCurrent` (`Spec => []ScoresAreCurrent`) is not inductive: whether a claim is due now says
  nothing of what was computed for it before. Inductive is `RightUntilTouched`: a score, saved or
  still in a scorer's hand, is what the inputs give for as long as nothing the scores depend on has
  happened to the claim after the moment they were loaded (`Touched`, which looks at all
  four times and at the history of merges and cascades). Each writer either touches a claim or leaves
  its inputs as they were (`FactsStep`), one lemma per action; the rest (`FactsMayChange`) is
  shared. A checked claim that is not due and falls under none of the exceptions is not touched, so
  the theorem says that these exceptions are all: the four times `load_unscored_claims` compares the score's with
  miss nothing else. That `Enlarged` is about duplicates only is `Stamped`: a canonical claim that is
  checked was checked no earlier than the last merge of its group.
- `MoreSupportScoresNoLower` is arithmetic: rounding to even keeps the order (`PointsKeepOrder`), so do
  the caps and weights (`ContributionKeepsOrder`), and each factor that depends on the support (how
  many nodes, the best coverage among them, whether one says it directly, how many papers) grows with
  the set, whichever finite set it is.
- `DigestsTellDifferences` rests on `SeenByDigest`: as long as its group neither moved nor lost rows, what the
  last digest saw of a claim is what was committed by then.
- `Saved`, `Computed` and `Commits` keep the times in order: a score is not older than what it
  loaded, a row not visible before its transaction started.

The assumptions say that shares are percentages, that there are finitely many nodes and that a sentence
has a reading.

The named assumptions of these modules say that sets of papers, nodes, posts and sightings are
finite where something is counted, that bounds are natural numbers (the clock's at least one),
and how rows relate to each other; none of them limits a size.

Left to TLC: liveness (`Returns`, `RunsEnd`, `RequestEnds`, `BacklogDrains`), which rests
on fairness, and what `resolve_identity` computes for a whole list, beyond `DoiNamesPaper` and
`ArxivNamesPaper`, which is a fold and so an induction over data. Every invariant and action
property of a passing run is stated by a theorem; those of `ClaimStore` and `Ingest` that the code
keeps for one process only have that process as a hypothesis.

## 5. What is not modelled, and the plan

Not modelled for good: rendering and layout, the scoping dialogue, read-only reports and claim
queries, the evaluation harness, configuration, adapters' parsing of answers; the migrations,
all applied in one transaction under a table lock; retries and intervals of the HTTP client,
a bounded loop whose outcome every module takes as a choice; the gateway, one call inside a
semaphore, whose answer every module takes as a choice.

Open, in this order:

1. Statement-level `save_canonical_groups`, refining the `Compare` step of `ClaimStore` when
   one process runs, and its races when two do.
2. New papers and mentions in the digests of `ScoreHistory`.
