------------------------------- MODULE Ingest -------------------------------
(***************************************************************************)
(* run_ingest: discover the papers of a scope, find or insert a row for    *)
(* each, acquire its PDF, have it parsed, store its sections, and account  *)
(* for the run in ingest_job.  Each worker is one `airesearch ingest` or   *)
(* the ingest stage of an evidence sweep.                                  *)
(*                                                                         *)
(* A step is one database transaction, or what happens between two: the    *)
(* row read by the first is then stale, and is written back by the next.   *)
(*                                                                         *)
(* Abstractions.  What an adapter tells about a work is a sighting, a      *)
(* record of PaperIdentity; those of one discovery come in any order.      *)
(* PDF and sections are told apart only by being there or not, TEI also by *)
(* whether its body has divs: one that has none gives no section.          *)
(***************************************************************************)
EXTENDS PaperIdentity, FiniteSets

CONSTANTS
  Workers,      \* concurrent ingest processes
  Scopes,       \* saved scopes
  Sightings,    \* what the adapters may report
  Ceiling,      \* CORPUS_CEILING
  MaxPapers,    \* bound: paper rows
  MaxRuns,      \* bound: runs, and so ingest_job rows
  MaxLosses     \* bound: PDF files removed from the storage directory

ASSUME BoundsAssumption ==
  Ceiling \in Nat /\ MaxPapers \in Nat /\ MaxRuns \in Nat /\ MaxLosses \in Nat

VARIABLES
  paper,     \* the paper table: id -> row
  inScope,   \* paper_scope rows, <<paper, scope>>
  sections,  \* papers that have section rows
  job,       \* the ingest_job table: id -> row
  disk,      \* papers whose PDF file is in the storage directory
  losses,    \* files removed so far
  phase,     \* the step each worker takes next
  run        \* what each worker holds in memory

tables == <<paper, inScope, sections, job>>
vars == <<tables, disk, losses, phase, run>>

PaperIds == 1..MaxPapers
Statuses == {"pending", "parsed", "abstract_only", "failed"}

\* Mutant: only a parsed paper is done with.
ParsedOnly == {"parsed"}

\* Mutant: a paper that has a row is done with.
AllButFailed == {"pending", "parsed", "abstract_only"}

Terminal == {"parsed", "abstract_only"}

\* tei_xml: none, or a document without or with divs in its body.
Documents == {"none", "empty", "divs"}

Dois == {s.doi : s \in Sightings}
Arxivs == {s.arxiv : s \in Sightings}

Row == [doi : Dois, arxiv : Arxivs, status : Statuses,
        pdf : BOOLEAN, tei : Documents, error : BOOLEAN]
Paper == [doi : Dois, arxiv : Arxivs,
          title : {s.title : s \in Sightings}, byline : {s.byline : s \in Sightings}]
Job == [scope : Scopes, state : {"running", "completed", "failed"},
        found : Nat, parsed : Nat]
Phases == {"idle", "discover", "refuse", "upsert", "insert", "acquire", "record", "parse", "store"}

\* left: candidates not yet processed; candidate: the one to insert; id,
\* pdf and status: the copy of the row the worker passes to acquire_pdf and
\* parse_pdf; tei: what parse_pdf left in the copy; error: the last result had
\* one; parsed: papers_newly_parsed; seen (history): the papers this run
\* upserted.
Run == [scope : Scopes, job : 0..MaxRuns, left : SUBSET Paper, found : Nat,
        candidate : Paper \cup {None}, id : 0..MaxPapers, pdf : BOOLEAN,
        status : Statuses, tei : Documents, error : BOOLEAN, parsed : Nat, seen : SUBSET PaperIds]

NoRun == [scope |-> CHOOSE s \in Scopes : TRUE, job |-> 0, left |-> {}, found |-> 0,
          candidate |-> None, id |-> 0, pdf |-> FALSE, status |-> "pending", tei |-> "none",
          error |-> FALSE, parsed |-> 0, seen |-> {}]

Ids == DOMAIN paper
PapersOf(s) == {p \in Ids : <<p, s>> \in inScope}

-----------------------------------------------------------------------------
Init ==
  /\ paper = [p \in {} |-> 0]
  /\ inScope = {}
  /\ sections = {}
  /\ job = [j \in {} |-> 0]
  /\ disk = {}
  /\ losses = 0
  /\ phase = [w \in Workers |-> "idle"]
  /\ run = [w \in Workers |-> NoRun]

Goto(w, step) == phase' = [phase EXCEPT ![w] = step]

NewJob(w, s) ==
  LET j == Cardinality(DOMAIN job) + 1
      row == [scope |-> s, state |-> "running", found |-> 0, parsed |-> 0]
  IN  /\ j <= MaxRuns
      /\ job' = [k \in DOMAIN job \cup {j} |-> IF k = j THEN row ELSE job[k]]
      /\ run' = [run EXCEPT ![w] = [NoRun EXCEPT !.scope = s, !.job = j]]

\* airesearch ingest.
StartIngest(w) ==
  /\ phase[w] = "idle"
  /\ \E s \in Scopes : NewJob(w, s)
  /\ Goto(w, "discover")
  /\ UNCHANGED <<paper, inScope, sections, disk, losses>>

\* An evidence sweep, which skips a scope that is at the ceiling.
StartSweep(w) ==
  /\ phase[w] = "idle"
  /\ \E s \in Scopes :
       /\ Cardinality(PapersOf(s)) < Ceiling
       /\ NewJob(w, s)
  /\ Goto(w, "discover")
  /\ UNCHANGED <<paper, inScope, sections, disk, losses>>

\* discover_candidates: any adapter, or any fetch of a record, may fail.
Discoveries == {ToSet(resolve_identity(s)) : s \in SetToAllKPermutations(Sightings)}

Discover(w) ==
  /\ phase[w] = "discover"
  /\ \E found \in Discoveries :
       /\ run' = [run EXCEPT ![w].left = found, ![w].found = Cardinality(found)]
       /\ Goto(w, IF Cardinality(found) > Ceiling THEN "refuse" ELSE "upsert")
  /\ UNCHANGED <<tables, disk, losses>>

\* Mutant: the papers found are reported as parsed.
FinishJobAllParsed(w, state, parsed) ==
  job' = [job EXCEPT ![run[w].job].state = state,
                     ![run[w].job].found = run[w].found,
                     ![run[w].job].parsed = run[w].found]

FinishJob(w, state, parsed) ==
  job' = [job EXCEPT ![run[w].job].state = state,
                     ![run[w].job].found = run[w].found,
                     ![run[w].job].parsed = parsed]

Refuse(w) ==
  /\ phase[w] = "refuse"
  /\ FinishJob(w, "failed", 0)
  /\ Goto(w, "idle")
  /\ run' = [run EXCEPT ![w] = NoRun]
  /\ UNCHANGED <<paper, inScope, sections, disk, losses>>

-----------------------------------------------------------------------------
(* One paper.                                                              *)

ByDoi(c) == {p \in Ids : c.doi # None /\ paper[p].doi = c.doi}
ByArxiv(c) == {p \in Ids : c.arxiv # None /\ paper[p].arxiv = c.arxiv}

\* Mutant: the arXiv id is not looked up.
FoundByDoi(c) == ByDoi(c)

\* _find_existing_paper: identifiers are compared as they are spelled.
Found(c) == IF ByDoi(c) # {} THEN ByDoi(c) ELSE ByArxiv(c)

\* Mutant: a candidate that is not done with is taken up again.
LeftAgain(w, c, status) == IF status \in Terminal THEN run[w].left \ {c} ELSE run[w].left

LeftAfter(w, c, status) == run[w].left \ {c}

\* The worker keeps a copy of the row.  A paper that is done with is passed over.
Hold(w, c, p, row) ==
  /\ run' = [run EXCEPT ![w].left = LeftAfter(w, c, row.status), ![w].candidate = None,
                        ![w].id = p, ![w].seen = @ \cup {p},
                        ![w].pdf = row.pdf, ![w].status = row.status]
  /\ Goto(w, IF row.status \in Terminal THEN "upsert" ELSE "acquire")

\* _upsert_paper for a candidate that has a row, which keeps its fields.
UpsertFound(w) ==
  /\ phase[w] = "upsert"
  /\ \E c \in run[w].left : \E p \in Found(c) :
       /\ inScope' = inScope \cup {<<p, run[w].scope>>}
       /\ Hold(w, c, p, paper[p])
  /\ UNCHANGED <<paper, sections, job, disk, losses>>

\* _upsert_paper for a candidate that has none: looked for, then inserted.
UpsertMissing(w) ==
  /\ phase[w] = "upsert"
  /\ \E c \in run[w].left :
       /\ Found(c) = {}
       /\ run' = [run EXCEPT ![w].candidate = c]
  /\ Goto(w, "insert")
  /\ UNCHANGED <<tables, disk, losses>>

Collisions(c) == ByDoi(c) \cup ByArxiv(c)

Insert(w) ==
  /\ phase[w] = "insert"
  /\ LET c == run[w].candidate
         p == Cardinality(Ids) + 1
         row == [doi |-> c.doi, arxiv |-> c.arxiv,
                 status |-> "pending", pdf |-> FALSE, tei |-> "none", error |-> FALSE]
     IN  /\ Collisions(c) = {} /\ p <= MaxPapers
         /\ paper' = [q \in Ids \cup {p} |-> IF q = p THEN row ELSE paper[q]]
         /\ inScope' = inScope \cup {<<p, run[w].scope>>}
         /\ Hold(w, c, p, row)
  /\ UNCHANGED <<sections, job, disk, losses>>

\* acquire_pdf.  The copy's status stays what it was when the file is there.
Acquire(w) ==
  /\ phase[w] = "acquire"
  /\ LET p == run[w].id IN
       \/ /\ run[w].pdf /\ p \in disk
          /\ run' = [run EXCEPT ![w].error = FALSE]
          /\ UNCHANGED disk
       \/ /\ ~(run[w].pdf /\ p \in disk)
          /\ \/ /\ run' = [run EXCEPT ![w].pdf = FALSE, ![w].status = "abstract_only",
                                      ![w].error = FALSE]
                /\ UNCHANGED disk
             \/ /\ run' = [run EXCEPT ![w].pdf = FALSE, ![w].status = "failed",
                                      ![w].error = TRUE]
                /\ UNCHANGED disk
             \/ /\ run' = [run EXCEPT ![w].pdf = TRUE, ![w].status = "pending",
                                      ![w].error = FALSE]
                /\ disk' = disk \cup {p}
  /\ Goto(w, "record")
  /\ UNCHANGED <<tables, losses>>

NextAfterRecord(w) == IF run[w].status = "pending" THEN "parse" ELSE "upsert"

\* The copy is written back whatever the row holds by now.
RecordAcquisition(w) ==
  /\ phase[w] = "record"
  /\ paper' = [paper EXCEPT ![run[w].id].pdf = run[w].pdf,
                            ![run[w].id].status = run[w].status,
                            ![run[w].id].error = run[w].status = "failed" /\ run[w].error]
  /\ Goto(w, NextAfterRecord(w))
  /\ UNCHANGED <<inScope, sections, job, disk, losses, run>>

\* parse_pdf: GROBID answers, with divs or without, or the failure is recorded.
Parse(w) ==
  /\ phase[w] = "parse"
  /\ \/ /\ run[w].id \in disk
        /\ \E tei \in {"empty", "divs"} :
             run' = [run EXCEPT ![w].status = "parsed", ![w].tei = tei, ![w].error = FALSE]
     \/ run' = [run EXCEPT ![w].status = "failed", ![w].tei = "none", ![w].error = TRUE]
  /\ Goto(w, "store")
  /\ UNCHANGED <<tables, disk, losses>>

\* Mutant: sections are added to those an earlier parse left.
KeepSections(w) ==
  sections' = IF run[w].tei = "divs" THEN sections \cup {run[w].id} ELSE sections

\* _persist_sections, for a paper that is parsed: its sections are replaced.
StoreSections(w) ==
  sections' = CASE run[w].status # "parsed" -> sections
                [] run[w].tei = "divs"      -> sections \cup {run[w].id}
                [] OTHER                    -> sections \ {run[w].id}

\* Status, TEI and sections are written in one transaction, which holds the
\* paper's row from the first write on.
RecordParse(w) ==
  /\ phase[w] = "store"
  /\ paper' = [paper EXCEPT ![run[w].id].status = run[w].status,
                            ![run[w].id].tei = run[w].tei,
                            ![run[w].id].error = run[w].error]
  /\ StoreSections(w)
  /\ run' = [run EXCEPT ![w].parsed = IF run[w].status = "parsed" THEN @ + 1 ELSE @,
                        ![w].tei = "none"]
  /\ Goto(w, "upsert")
  /\ UNCHANGED <<inScope, job, disk, losses>>

Finish(w) ==
  /\ phase[w] = "upsert" /\ run[w].left = {}
  /\ FinishJob(w, "completed", run[w].parsed)
  /\ Goto(w, "idle")
  /\ run' = [run EXCEPT ![w] = NoRun]
  /\ UNCHANGED <<paper, inScope, sections, disk, losses>>

-----------------------------------------------------------------------------
(* Ends nobody planned.                                                    *)

\* parse_pdf turns what GROBID raises into a failure, but not what
\* tei_to_sections raises on TEI that is not well-formed: the run ends.
ParseRaises(w) ==
  /\ phase[w] = "parse" /\ run[w].id \in disk
  /\ Goto(w, "idle")
  /\ run' = [run EXCEPT ![w] = NoRun]
  /\ UNCHANGED <<tables, disk, losses>>

\* The unique constraints on doi and arxiv_id refuse a row another worker
\* inserted since this one looked.
InsertRaises(w) ==
  /\ phase[w] = "insert" /\ Collisions(run[w].candidate) # {}
  /\ Goto(w, "idle")
  /\ run' = [run EXCEPT ![w] = NoRun]
  /\ UNCHANGED <<tables, disk, losses>>

Kill(w) ==
  /\ phase[w] # "idle"
  /\ Goto(w, "idle")
  /\ run' = [run EXCEPT ![w] = NoRun]
  /\ UNCHANGED <<tables, disk, losses>>

LoseFile(p) ==
  /\ losses < MaxLosses
  /\ losses' = losses + 1
  /\ disk' = disk \ {p}
  /\ UNCHANGED <<tables, phase, run>>

-----------------------------------------------------------------------------
PaperStep(w) ==
  \/ UpsertFound(w) \/ UpsertMissing(w) \/ Insert(w) \/ InsertRaises(w)
  \/ Acquire(w) \/ RecordAcquisition(w) \/ Parse(w) \/ RecordParse(w)
RunStep(w) == Discover(w) \/ Refuse(w) \/ PaperStep(w) \/ Finish(w)

Next ==
  \/ \E w \in Workers :
       StartIngest(w) \/ StartSweep(w) \/ RunStep(w) \/ ParseRaises(w) \/ Kill(w)
  \/ \E p \in disk : LoseFile(p)

Spec == Init /\ [][Next]_vars

\* A run that is under way goes on: every call it makes has a time limit.
FairSpec == Spec /\ \A w \in Workers : WF_vars(RunStep(w))

-----------------------------------------------------------------------------
(* Properties.                                                             *)

\* Every row and every worker's memory has its type.
TypeOK ==
  /\ Ids \subseteq PaperIds /\ paper \in [Ids -> Row]
  /\ inScope \subseteq Ids \X Scopes
  /\ sections \subseteq Ids
  /\ DOMAIN job \subseteq 1..MaxRuns /\ job \in [DOMAIN job -> Job]
  /\ disk \subseteq Ids
  /\ losses \in 0..MaxLosses
  /\ phase \in [Workers -> Phases]
  /\ run \in [Workers -> Run]
  /\ \A w \in Workers : phase[w] = "insert" => run[w].candidate \in Paper
  /\ \A w \in Workers : phase[w] \in {"acquire", "record", "parse", "store"} => run[w].id \in Ids

\* A run alone never runs into the unique constraints: the candidate it
\* inserts shares no identifier with a row, by either lookup.
InsertsAreNew ==
  \A w \in Workers : phase[w] = "insert" => Collisions(run[w].candidate) = {}

\* The sections of a parsed paper are those of the TEI its row holds: there if
\* that document has divs, and none left by another parse if it has not, though
\* two runs parse the paper at once and get different answers
\* (phase-1/PHASE.md:166, TEI is normalized into section rows).
SectionsFollowTei ==
  \A p \in Ids :
    paper[p].status = "parsed" =>
      paper[p].tei # "none" /\ (p \in sections <=> paper[p].tei = "divs")

\* A paper that is parsed or abstract-only stays so: no later run, and no
\* run beside, takes it back (phase-1/10-ingest-pipeline.md:39, "parsed and
\* abstract-only papers are both skipped on re-run").
TerminalStaysTerminal ==
  [][\A p \in Ids :
       paper[p].status \in {"parsed", "abstract_only"} =>
         paper'[p].status = paper[p].status]_vars

\* A run that completes leaves none of its papers where an earlier run that
\* died left it.
CompletedRunsLeaveNothingPending ==
  [][\A w \in Workers :
       Finish(w) => \A p \in run[w].seen : paper[p].status # "pending"]_vars

\* Once no run is under way or was cut short, the jobs' papers_parsed add up
\* to the parsed papers: none is counted twice, none is missing.
JobsAddUp ==
  (\A j \in DOMAIN job : job[j].state # "running") =>
    Cardinality(UNION {{j} \X (1..job[j].parsed) : j \in DOMAIN job})
      = Cardinality({p \in Ids : paper[p].status = "parsed"})

\* A run that is not killed ends.
RunsEnd == \A w \in Workers : phase[w] # "idle" ~> phase[w] = "idle"
=============================================================================
