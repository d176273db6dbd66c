----------------------------- MODULE IngestProofs -----------------------------
(***************************************************************************)
(* Proofs about ingest runs, for every set of sightings and every bound.   *)
(* With any number of workers a parsed paper has the sections of its TEI.  *)
(* What workers side by side break is proved of a worker alone: it inserts *)
(* only what is new, leaves what is done with, completes nothing half done *)
(* and counts each paper once, whatever fails, dies or is lost on the way. *)
(* Last, what resolve_identity keeps of the records it merges.             *)
(***************************************************************************)
EXTENDS Ingest, IdentityResolution, FiniteSetTheorems, WellFoundedInduction, TLAPS

\* One ingest at a time.
OneWorker == \E w \in Workers : Workers = {w}

RunFields == {"scope", "job", "left", "found", "candidate", "id", "pdf", "status", "tei",
              "error", "parsed", "seen"}
RowFields == {"doi", "arxiv", "status", "pdf", "tei", "error"}
JobFields == {"scope", "state", "found", "parsed"}

\* A worker is about to write the row of the paper it took up.
Writing == {"acquire", "record", "parse", "store"}

-----------------------------------------------------------------------------
(* The invariant of any number of workers.                                 *)

Rows ==
  /\ \E n \in 0..MaxPapers : Ids = 1..n
  /\ \A p \in Ids : DOMAIN paper[p] = RowFields /\ paper[p].status \in Statuses

\* The status a worker is going to write, and the TEI that goes with it.
Holds(w) ==
  /\ DOMAIN run[w] = RunFields
  /\ phase[w] \in Writing => run[w].id \in Ids
  /\ phase[w] \in {"acquire", "record"} => run[w].status \in {"pending", "abstract_only", "failed"}
  /\ phase[w] = "store" => run[w].status \in {"parsed", "failed"}
                          /\ (run[w].status = "parsed" => run[w].tei # "none")

Base ==
  /\ phase \in [Workers -> Phases] /\ DOMAIN run = Workers
  /\ \A w \in Workers : Holds(w)
  /\ Rows
  /\ SectionsFollowTei

-----------------------------------------------------------------------------
(* The invariant of a worker alone.                                        *)

\* The paper taken up is not done with, and is the only one this run has seen
\* and left pending.
PaperInHand(w) ==
  /\ phase[w] \in Writing => paper[run[w].id].status \notin Terminal
  /\ run[w].seen \subseteq Ids
  /\ \A p \in run[w].seen : paper[p].status = "pending" => phase[w] \in Writing /\ p = run[w].id

Jobs ==
  /\ \E n \in 0..MaxRuns : DOMAIN job = 1..n
  /\ \A j \in DOMAIN job : /\ DOMAIN job[j] = JobFields /\ job[j].parsed \in Nat
                           /\ job[j].state = "running" => job[j].parsed = 0

JobInHand(w) ==
  /\ run[w].parsed \in Nat
  /\ phase[w] \in {"idle", "discover", "refuse"} => run[w].parsed = 0
  /\ phase[w] # "idle" => run[w].job \in DOMAIN job /\ job[run[w].job].state = "running"

Tally == UNION {{j} \X (1..job[j].parsed) : j \in DOMAIN job}
ParsedPapers == {p \in Ids : paper[p].status = "parsed"}

\* As long as no other run was cut short, the jobs' counts and this run's add
\* up to the parsed papers.
Counted(w) ==
  /\ IsFiniteSet(Tally)
  /\ (\A j \in DOMAIN job : job[j].state = "running" => phase[w] # "idle" /\ j = run[w].job) =>
       Cardinality(Tally) + run[w].parsed = Cardinality(ParsedPapers)

Alone ==
  /\ Base /\ Jobs /\ InsertsAreNew
  /\ \A w \in Workers : PaperInHand(w) /\ JobInHand(w) /\ Counted(w)

-----------------------------------------------------------------------------
(* What each step does to a worker.                                        *)

\* The step is taken by worker w.
Moves(w, step) ==
  /\ phase' \in [Workers -> Phases] /\ phase'[w] = step
  /\ DOMAIN run' = Workers /\ DOMAIN run'[w] = RunFields
  /\ \A v \in Workers \ {w} : phase'[v] = phase[v] /\ run'[v] = run[v]

LEMMA NoRunFields ==
  /\ DOMAIN NoRun = RunFields
  /\ NoRun.job = 0 /\ NoRun.id = 0 /\ NoRun.status = "pending" /\ NoRun.parsed = 0 /\ NoRun.seen = {}
BY DEF NoRun, RunFields

LEMMA Going ==
  ASSUME phase \in [Workers -> Phases], NEW w \in Workers, NEW step \in Phases, Goto(w, step)
  PROVE  /\ phase' \in [Workers -> Phases] /\ phase'[w] = step
         /\ \A v \in Workers \ {w} : phase'[v] = phase[v]
BY DEF Goto

LEMMA Stopping ==
  ASSUME Base, NEW w \in Workers, Goto(w, "idle"), run' = [run EXCEPT ![w] = NoRun]
  PROVE  Moves(w, "idle") /\ run'[w] = NoRun
<1>1. "idle" \in Phases /\ phase \in [Workers -> Phases] /\ DOMAIN run = Workers
  BY DEF Base, Phases
<1>2. /\ phase' \in [Workers -> Phases] /\ phase'[w] = "idle"
      /\ \A v \in Workers \ {w} : phase'[v] = phase[v]
  BY <1>1, Going
<1>3. DOMAIN run' = Workers /\ run'[w] = NoRun /\ \A v \in Workers \ {w} : run'[v] = run[v]
  BY <1>1
<1>. QED BY <1>2, <1>3, NoRunFields DEF Moves

LEMMA Starting ==
  ASSUME Base, NEW w \in Workers, StartIngest(w) \/ StartSweep(w)
  PROVE  /\ Moves(w, "discover") /\ phase[w] = "idle"
         /\ run'[w].parsed = 0 /\ run'[w].seen = {} /\ run'[w].job = Cardinality(DOMAIN job) + 1
         /\ run'[w].job <= MaxRuns
         /\ \E s \in Scopes :
              job' = [k \in DOMAIN job \cup {run'[w].job} |->
                       IF k = run'[w].job
                       THEN [scope |-> s, state |-> "running", found |-> 0, parsed |-> 0]
                       ELSE job[k]]
         /\ UNCHANGED <<paper, sections>>
<1>1. PICK s \in Scopes : NewJob(w, s)
  BY DEF StartIngest, StartSweep
<1>2. "discover" \in Phases /\ phase \in [Workers -> Phases] /\ DOMAIN run = Workers
  BY DEF Base, Phases
<1>3. /\ phase' \in [Workers -> Phases] /\ phase'[w] = "discover"
      /\ \A v \in Workers \ {w} : phase'[v] = phase[v]
  BY <1>2, Going DEF StartIngest, StartSweep
<1>. DEFINE j == Cardinality(DOMAIN job) + 1
            r == [NoRun EXCEPT !.scope = s, !.job = j]
<1>4. /\ run' = [run EXCEPT ![w] = r] /\ j <= MaxRuns
      /\ job' = [k \in DOMAIN job \cup {j} |->
                   IF k = j
                   THEN [scope |-> s, state |-> "running", found |-> 0, parsed |-> 0]
                   ELSE job[k]]
  BY <1>1 DEF NewJob
<1>5. DOMAIN r = RunFields /\ r.job = j /\ r.parsed = 0 /\ r.seen = {}
  BY DEF NoRun, RunFields
<1>. HIDE DEF j, r
<1>6. DOMAIN run' = Workers /\ run'[w] = r /\ \A v \in Workers \ {w} : run'[v] = run[v]
  BY <1>2, <1>4
<1>7. phase[w] = "idle" /\ UNCHANGED <<paper, sections>>
  BY DEF StartIngest, StartSweep
<1>8. Moves(w, "discover") /\ run'[w].job = j /\ run'[w].parsed = 0 /\ run'[w].seen = {}
  BY <1>3, <1>5, <1>6 DEF Moves
<1>. QED BY <1>4, <1>7, <1>8 DEF j

LEMMA Discovering ==
  ASSUME Base, NEW w \in Workers, Discover(w)
  PROVE  /\ phase[w] = "discover" /\ phase'[w] \in {"refuse", "upsert"} /\ Moves(w, phase'[w])
         /\ run'[w].parsed = run[w].parsed /\ run'[w].seen = run[w].seen /\ run'[w].job = run[w].job
         /\ UNCHANGED <<paper, sections, job>>
<1>1. PICK found \in Discoveries :
        /\ run' = [run EXCEPT ![w].left = found, ![w].found = Cardinality(found)]
        /\ Goto(w, IF Cardinality(found) > Ceiling THEN "refuse" ELSE "upsert")
  BY DEF Discover
<1>. DEFINE step == IF Cardinality(found) > Ceiling THEN "refuse" ELSE "upsert"
<1>2. /\ step \in Phases /\ step \in {"refuse", "upsert"}
      /\ phase \in [Workers -> Phases] /\ DOMAIN run = Workers /\ DOMAIN run[w] = RunFields
  BY DEF Base, Phases, Holds
<1>3. Goto(w, step)
  BY <1>1
<1>. HIDE DEF step
<1>4. /\ phase' \in [Workers -> Phases] /\ phase'[w] = step
      /\ \A v \in Workers \ {w} : phase'[v] = phase[v]
  BY <1>2, <1>3, Going
<1>5. /\ DOMAIN run' = Workers /\ DOMAIN run'[w] = RunFields
      /\ run'[w].parsed = run[w].parsed /\ run'[w].seen = run[w].seen /\ run'[w].job = run[w].job
      /\ \A v \in Workers \ {w} : run'[v] = run[v]
  BY <1>1, <1>2 DEF RunFields
<1>. QED BY <1>2, <1>4, <1>5 DEF Discover, Moves, tables

\* The worker takes up a paper.
LEMMA Holding ==
  ASSUME Base, NEW w \in Workers, NEW c, NEW p, NEW row, Hold(w, c, p, row)
  PROVE  /\ Moves(w, IF row.status \in Terminal THEN "upsert" ELSE "acquire")
         /\ run'[w].id = p /\ run'[w].status = row.status /\ run'[w].seen = run[w].seen \cup {p}
         /\ run'[w].parsed = run[w].parsed /\ run'[w].job = run[w].job
<1>. DEFINE step == IF row.status \in Terminal THEN "upsert" ELSE "acquire"
<1>1. /\ step \in Phases
      /\ phase \in [Workers -> Phases] /\ DOMAIN run = Workers /\ DOMAIN run[w] = RunFields
  BY DEF Base, Phases, Holds
<1>2. Goto(w, step)
  BY DEF Hold
<1>. HIDE DEF step
<1>3. /\ phase' \in [Workers -> Phases] /\ phase'[w] = step
      /\ \A v \in Workers \ {w} : phase'[v] = phase[v]
  BY <1>1, <1>2, Going
<1>4. /\ DOMAIN run' = Workers /\ DOMAIN run'[w] = RunFields
      /\ run'[w].id = p /\ run'[w].status = row.status /\ run'[w].seen = run[w].seen \cup {p}
      /\ run'[w].parsed = run[w].parsed /\ run'[w].job = run[w].job
      /\ \A v \in Workers \ {w} : run'[v] = run[v]
  BY <1>1 DEF Hold, RunFields
<1>. QED BY <1>3, <1>4 DEF Moves, step

LEMMA LookingFor ==
  ASSUME Base, NEW w \in Workers, UpsertMissing(w)
  PROVE  /\ phase[w] = "upsert" /\ Moves(w, "insert")
         /\ Found(run'[w].candidate) = {}
         /\ run'[w].parsed = run[w].parsed /\ run'[w].seen = run[w].seen /\ run'[w].job = run[w].job
         /\ UNCHANGED <<paper, sections, job>>
<1>1. PICK c \in run[w].left : Found(c) = {} /\ run' = [run EXCEPT ![w].candidate = c]
  BY DEF UpsertMissing
<1>2. /\ "insert" \in Phases
      /\ phase \in [Workers -> Phases] /\ DOMAIN run = Workers /\ DOMAIN run[w] = RunFields
  BY DEF Base, Phases, Holds
<1>3. /\ phase' \in [Workers -> Phases] /\ phase'[w] = "insert"
      /\ \A v \in Workers \ {w} : phase'[v] = phase[v]
  BY <1>2, Going DEF UpsertMissing
<1>4. /\ DOMAIN run' = Workers /\ DOMAIN run'[w] = RunFields /\ run'[w].candidate = c
      /\ run'[w].parsed = run[w].parsed /\ run'[w].seen = run[w].seen /\ run'[w].job = run[w].job
      /\ \A v \in Workers \ {w} : run'[v] = run[v]
  BY <1>1, <1>2 DEF RunFields
<1>. QED BY <1>1, <1>3, <1>4 DEF UpsertMissing, Moves, tables

LEMMA Acquiring ==
  ASSUME Base, NEW w \in Workers, Acquire(w)
  PROVE  /\ phase[w] = "acquire" /\ Moves(w, "record")
         /\ run'[w].status \in {run[w].status, "abstract_only", "failed", "pending"}
         /\ run'[w].id = run[w].id /\ run'[w].seen = run[w].seen
         /\ run'[w].parsed = run[w].parsed /\ run'[w].job = run[w].job
         /\ UNCHANGED <<paper, sections, job>>
<1>1. /\ "record" \in Phases
      /\ phase \in [Workers -> Phases] /\ DOMAIN run = Workers /\ DOMAIN run[w] = RunFields
  BY DEF Base, Phases, Holds
<1>2. /\ phase' \in [Workers -> Phases] /\ phase'[w] = "record"
      /\ \A v \in Workers \ {w} : phase'[v] = phase[v]
  BY <1>1, Going DEF Acquire
<1>3. \/ run' = [run EXCEPT ![w].error = FALSE]
      \/ \E pdf \in BOOLEAN, status \in {"abstract_only", "failed", "pending"}, error \in BOOLEAN :
           run' = [run EXCEPT ![w].pdf = pdf, ![w].status = status, ![w].error = error]
  BY DEF Acquire
<1>4. /\ DOMAIN run' = Workers /\ DOMAIN run'[w] = RunFields
      /\ run'[w].status \in {run[w].status, "abstract_only", "failed", "pending"}
      /\ run'[w].id = run[w].id /\ run'[w].seen = run[w].seen
      /\ run'[w].parsed = run[w].parsed /\ run'[w].job = run[w].job
      /\ \A v \in Workers \ {w} : run'[v] = run[v]
  <2>1. CASE run' = [run EXCEPT ![w].error = FALSE]
    BY <1>1, <2>1 DEF RunFields
  <2>2. ASSUME NEW pdf \in BOOLEAN, NEW status \in {"abstract_only", "failed", "pending"},
               NEW error \in BOOLEAN,
               run' = [run EXCEPT ![w].pdf = pdf, ![w].status = status, ![w].error = error]
        PROVE  /\ DOMAIN run' = Workers /\ DOMAIN run'[w] = RunFields
               /\ run'[w].status = status
               /\ run'[w].id = run[w].id /\ run'[w].seen = run[w].seen
               /\ run'[w].parsed = run[w].parsed /\ run'[w].job = run[w].job
               /\ \A v \in Workers \ {w} : run'[v] = run[v]
    BY <1>1, <2>2 DEF RunFields
  <2>. QED BY <1>3, <2>1, <2>2
<1>. QED BY <1>2, <1>4 DEF Acquire, Moves, tables

LEMMA Parsing ==
  ASSUME Base, NEW w \in Workers, Parse(w)
  PROVE  /\ phase[w] = "parse" /\ Moves(w, "store")
         /\ run'[w].status \in {"parsed", "failed"}
         /\ run'[w].status = "parsed" => run'[w].tei # "none"
         /\ run'[w].id = run[w].id /\ run'[w].seen = run[w].seen
         /\ run'[w].parsed = run[w].parsed /\ run'[w].job = run[w].job
         /\ UNCHANGED <<paper, sections, job>>
<1>1. /\ "store" \in Phases
      /\ phase \in [Workers -> Phases] /\ DOMAIN run = Workers /\ DOMAIN run[w] = RunFields
  BY DEF Base, Phases, Holds
<1>2. /\ phase' \in [Workers -> Phases] /\ phase'[w] = "store"
      /\ \A v \in Workers \ {w} : phase'[v] = phase[v]
  BY <1>1, Going DEF Parse
<1>3. PICK status \in {"parsed", "failed"}, tei \in Documents, error \in BOOLEAN :
        /\ run' = [run EXCEPT ![w].status = status, ![w].tei = tei, ![w].error = error]
        /\ status = "parsed" => tei # "none"
  BY DEF Parse, Documents
<1>4. /\ DOMAIN run' = Workers /\ DOMAIN run'[w] = RunFields
      /\ run'[w].status = status /\ run'[w].tei = tei
      /\ run'[w].id = run[w].id /\ run'[w].seen = run[w].seen
      /\ run'[w].parsed = run[w].parsed /\ run'[w].job = run[w].job
      /\ \A v \in Workers \ {w} : run'[v] = run[v]
  BY <1>1, <1>3 DEF RunFields
<1>. QED BY <1>2, <1>3, <1>4 DEF Parse, Moves, tables

LEMMA Recording ==
  ASSUME Base, NEW w \in Workers, RecordAcquisition(w)
  PROVE  /\ phase[w] = "record" /\ run' = run
         /\ Moves(w, IF run[w].status = "pending" THEN "parse" ELSE "upsert")
         /\ DOMAIN paper' = Ids /\ DOMAIN paper'[run[w].id] = RowFields
         /\ paper'[run[w].id].status = run[w].status
         /\ \A p \in Ids \ {run[w].id} : paper'[p] = paper[p]
         /\ UNCHANGED <<sections, job>>
<1>. DEFINE step == IF run[w].status = "pending" THEN "parse" ELSE "upsert"
<1>1. /\ step \in Phases /\ phase[w] = "record"
      /\ phase \in [Workers -> Phases] /\ DOMAIN run = Workers /\ DOMAIN run[w] = RunFields
      /\ run[w].id \in Ids /\ DOMAIN paper[run[w].id] = RowFields
  BY DEF Base, Phases, Holds, RecordAcquisition, Writing, Rows
<1>2. Goto(w, step) /\ run' = run
  BY DEF RecordAcquisition, NextAfterRecord
<1>. HIDE DEF step
<1>3. /\ phase' \in [Workers -> Phases] /\ phase'[w] = step
      /\ \A v \in Workers \ {w} : phase'[v] = phase[v]
  BY <1>1, <1>2, Going
<1>. DEFINE r == run[w]
            id == r.id
            failed == r.status = "failed" /\ r.error
<1>4. paper' = [paper EXCEPT ![id].pdf = r.pdf, ![id].status = r.status, ![id].error = failed]
  BY DEF RecordAcquisition
<1>5. id \in DOMAIN paper /\ DOMAIN paper[id] = RowFields
  BY <1>1 DEF Ids
<1>. HIDE DEF id, failed, r
<1>6. /\ DOMAIN paper' = DOMAIN paper /\ DOMAIN paper'[id] = RowFields
      /\ paper'[id].status = r.status
      /\ \A p \in DOMAIN paper \ {id} : paper'[p] = paper[p]
  BY <1>4, <1>5 DEF RowFields
<1>7. Moves(w, step)
  BY <1>1, <1>2, <1>3 DEF Moves
<1>8. UNCHANGED <<sections, job>>
  BY DEF RecordAcquisition
<1>. QED BY <1>1, <1>2, <1>6, <1>7, <1>8 DEF Ids, id, r, step

LEMMA Storing ==
  ASSUME Base, NEW w \in Workers, RecordParse(w)
  PROVE  /\ phase[w] = "store" /\ Moves(w, "upsert")
         /\ run'[w].parsed = IF run[w].status = "parsed" THEN run[w].parsed + 1 ELSE run[w].parsed
         /\ run'[w].id = run[w].id /\ run'[w].seen = run[w].seen /\ run'[w].job = run[w].job
         /\ DOMAIN paper' = Ids /\ DOMAIN paper'[run[w].id] = RowFields
         /\ paper'[run[w].id].status = run[w].status /\ paper'[run[w].id].tei = run[w].tei
         /\ \A p \in Ids \ {run[w].id} : paper'[p] = paper[p]
         /\ \A p : p # run[w].id => (p \in sections' <=> p \in sections)
         /\ run[w].status = "parsed" => (run[w].id \in sections' <=> run[w].tei = "divs")
         /\ UNCHANGED job
<1>1. /\ "upsert" \in Phases /\ phase[w] = "store"
      /\ phase \in [Workers -> Phases] /\ DOMAIN run = Workers /\ DOMAIN run[w] = RunFields
      /\ run[w].id \in Ids /\ DOMAIN paper[run[w].id] = RowFields
  BY DEF Base, Phases, Holds, RecordParse, Writing, Rows
<1>2. /\ phase' \in [Workers -> Phases] /\ phase'[w] = "upsert"
      /\ \A v \in Workers \ {w} : phase'[v] = phase[v]
  BY <1>1, Going DEF RecordParse
<1>. DEFINE n == IF run[w].status = "parsed" THEN run[w].parsed + 1 ELSE run[w].parsed
<1>3. run' = [run EXCEPT ![w].parsed = n, ![w].tei = "none"]
  BY <1>1 DEF RecordParse, RunFields
<1>. HIDE DEF n
<1>4. /\ DOMAIN run' = Workers /\ DOMAIN run'[w] = RunFields /\ run'[w].parsed = n
      /\ run'[w].id = run[w].id /\ run'[w].seen = run[w].seen /\ run'[w].job = run[w].job
      /\ \A v \in Workers \ {w} : run'[v] = run[v]
  BY <1>1, <1>3 DEF RunFields
<1>. DEFINE r == run[w]
            id == r.id
<1>5. paper' = [paper EXCEPT ![id].status = r.status, ![id].tei = r.tei, ![id].error = r.error]
  BY DEF RecordParse
<1>6. id \in DOMAIN paper /\ DOMAIN paper[id] = RowFields
  BY <1>1 DEF Ids
<1>. HIDE DEF id, r
<1>7. /\ DOMAIN paper' = DOMAIN paper /\ DOMAIN paper'[id] = RowFields
      /\ paper'[id].status = r.status /\ paper'[id].tei = r.tei
      /\ \A p \in DOMAIN paper \ {id} : paper'[p] = paper[p]
  BY <1>5, <1>6 DEF RowFields
<1>8. Moves(w, "upsert")
  BY <1>2, <1>4 DEF Moves
<1>9. /\ UNCHANGED job
      /\ \A p : p # run[w].id => (p \in sections' <=> p \in sections)
      /\ run[w].status = "parsed" => (run[w].id \in sections' <=> run[w].tei = "divs")
  BY DEF RecordParse, StoreSections
<1>. QED BY <1>1, <1>4, <1>7, <1>8, <1>9 DEF Ids, id, r, n

LEMMA Inserting ==
  ASSUME Base, NEW w \in Workers, Insert(w)
  PROVE  \E p \in 1..MaxPapers :
           /\ phase[w] = "insert" /\ Moves(w, "acquire") /\ p \notin Ids
           /\ Ids' = Ids \cup {p} /\ Ids' = 1..p
           /\ DOMAIN paper'[p] = RowFields /\ paper'[p].status = "pending"
           /\ \A q \in Ids : paper'[q] = paper[q]
           /\ run'[w].id = p /\ run'[w].status = "pending" /\ run'[w].seen = run[w].seen \cup {p}
           /\ run'[w].parsed = run[w].parsed /\ run'[w].job = run[w].job
           /\ UNCHANGED <<sections, job>>
<1>. DEFINE c == run[w].candidate
            p == Cardinality(Ids) + 1
            row == [doi |-> c.doi, arxiv |-> c.arxiv,
                    status |-> "pending", pdf |-> FALSE, tei |-> "none", error |-> FALSE]
<1>1. /\ phase[w] = "insert" /\ p <= MaxPapers
      /\ paper' = [q \in Ids \cup {p} |-> IF q = p THEN row ELSE paper[q]]
      /\ Hold(w, c, p, row)
      /\ UNCHANGED <<sections, job>>
  BY DEF Insert
<1>2. DOMAIN row = RowFields /\ row.status = "pending" /\ row.status \notin Terminal
  BY DEF RowFields, Terminal
<1>. HIDE DEF c, row
<1>3. PICK n \in 0..MaxPapers : Ids = 1..n
  BY DEF Base, Rows
<1>4. p = n + 1 /\ n \in Nat
  <2>1. n \in Nat /\ MaxPapers \in Nat
    BY BoundsAssumption
  <2>2. Cardinality(1..n) = n
    BY <2>1, FS_Interval, 1 \in Int, n \in Int
  <2>. QED BY <1>3, <2>1, <2>2
<1>. HIDE DEF p
<1>5. /\ p \in 1..MaxPapers /\ p \notin Ids /\ Ids \cup {p} = 1..p
  BY <1>1, <1>3, <1>4, BoundsAssumption
<1>6. /\ Moves(w, IF row.status \in Terminal THEN "upsert" ELSE "acquire")
      /\ run'[w].id = p /\ run'[w].status = row.status /\ run'[w].seen = run[w].seen \cup {p}
      /\ run'[w].parsed = run[w].parsed /\ run'[w].job = run[w].job
  BY <1>1, Holding
<1>7. DOMAIN paper' = Ids \cup {p} /\ paper'[p] = row /\ \A q \in Ids : paper'[q] = paper[q]
  BY <1>1, <1>5
<1>8. Ids' = Ids \cup {p}
  BY <1>7 DEF Ids
<1>9. Moves(w, "acquire") /\ run'[w].status = "pending"
  BY <1>2, <1>6
<1>. QED BY <1>1, <1>2, <1>5, <1>6, <1>7, <1>8, <1>9

\* The steps after which the worker holds no paper.
Stops(w) == Refuse(w) \/ Finish(w) \/ ParseRaises(w) \/ InsertRaises(w) \/ Kill(w)

LEMMA StoppingSteps ==
  ASSUME Base, NEW w \in Workers, Stops(w)
  PROVE  Moves(w, "idle") /\ run'[w] = NoRun /\ phase[w] # "idle" /\ UNCHANGED <<paper, sections>>
<1>1. /\ Goto(w, "idle") /\ run' = [run EXCEPT ![w] = NoRun] /\ phase[w] # "idle"
      /\ UNCHANGED <<paper, sections>>
  BY DEF Stops, Refuse, Finish, ParseRaises, InsertRaises, Kill, tables
<1>. QED BY <1>1, Stopping

LEMMA TakingUp ==
  ASSUME Base, NEW w \in Workers, UpsertFound(w)
  PROVE  \E p \in Ids :
           /\ phase[w] = "upsert"
           /\ Moves(w, IF paper[p].status \in Terminal THEN "upsert" ELSE "acquire")
           /\ run'[w].id = p /\ run'[w].status = paper[p].status
           /\ run'[w].seen = run[w].seen \cup {p}
           /\ run'[w].parsed = run[w].parsed /\ run'[w].job = run[w].job
           /\ UNCHANGED <<paper, sections, job>>
<1>1. PICK c \in run[w].left : \E p \in Found(c) : Hold(w, c, p, paper[p])
  BY DEF UpsertFound
<1>2. PICK p \in Found(c) : Hold(w, c, p, paper[p])
  BY <1>1
<1>3. p \in Ids
  BY DEF Found, ByDoi, ByArxiv
<1>. QED BY <1>2, <1>3, Holding DEF UpsertFound

\* What a worker does, and when.
Steps(w) ==
  \/ StartIngest(w) \/ StartSweep(w) \/ Discover(w) \/ UpsertFound(w) \/ UpsertMissing(w)
  \/ Insert(w) \/ Acquire(w) \/ RecordAcquisition(w) \/ Parse(w) \/ RecordParse(w) \/ Stops(w)

LEMMA NextIsSteps ==
  ASSUME Next
  PROVE  \/ \E w \in Workers : Steps(w)
         \/ UNCHANGED <<paper, sections, job, phase, run>>
BY DEF Next, RunStep, PaperStep, Steps, Stops, LoseFile, tables

-----------------------------------------------------------------------------
(* Any number of workers.                                                  *)

\* The others hold what they held, and no row goes.
LEMMA OthersHold ==
  ASSUME Base, NEW w \in Workers, NEW step, Moves(w, step), Ids \subseteq Ids',
         Holds(w)', Rows', SectionsFollowTei'
  PROVE  Base'
<1>1. ASSUME NEW v \in Workers, v # w PROVE Holds(v)'
  <2>1. phase'[v] = phase[v] /\ run'[v] = run[v]
    BY <1>1 DEF Moves
  <2>2. Holds(v)
    BY DEF Base
  <2>. QED BY <2>1, <2>2 DEF Holds
<1>. QED BY <1>1 DEF Moves, Base

\* So it is for a step that writes no row.
LEMMA MemoryMoves ==
  ASSUME Base, NEW w \in Workers, NEW step, Moves(w, step), Holds(w)', UNCHANGED <<paper, sections>>
  PROVE  Base'
<1>1. Ids' = Ids /\ Rows' /\ SectionsFollowTei'
  BY DEF Base, Rows, SectionsFollowTei, Ids
<1>. QED BY <1>1, OthersHold

\* The row of one paper is written.
LEMMA RowIsWritten ==
  ASSUME Base, NEW id \in Ids, DOMAIN paper' = Ids, DOMAIN paper'[id] = RowFields,
         paper'[id].status \in Statuses, \A p \in Ids \ {id} : paper'[p] = paper[p],
         \A p : p # id => (p \in sections' <=> p \in sections),
         paper'[id].status = "parsed" =>
           paper'[id].tei # "none" /\ (id \in sections' <=> paper'[id].tei = "divs")
  PROVE  Ids' = Ids /\ Rows' /\ SectionsFollowTei'
<1>1. Ids' = Ids
  BY DEF Ids
<1>2. Rows'
  BY <1>1 DEF Base, Rows
<1>3. SectionsFollowTei'
  BY <1>1 DEF Base, SectionsFollowTei
<1>. QED BY <1>1, <1>2, <1>3

LEMMA StepsKeepBase ==
  ASSUME Base, NEW w \in Workers, Steps(w)
  PROVE  Base'
<1>1. Holds(w)
  BY DEF Base
<1>2. CASE StartIngest(w) \/ StartSweep(w)
  <2>1. Moves(w, "discover") /\ UNCHANGED <<paper, sections>>
    BY <1>2, Starting
  <2>2. Holds(w)'
    BY <2>1 DEF Moves, Holds, Writing
  <2>. QED BY <2>1, <2>2, MemoryMoves
<1>3. CASE Discover(w)
  <2>1. phase'[w] \in {"refuse", "upsert"} /\ Moves(w, phase'[w]) /\ UNCHANGED <<paper, sections>>
    BY <1>3, Discovering
  <2>2. Holds(w)'
    BY <2>1 DEF Moves, Holds, Writing
  <2>. QED BY <2>1, <2>2, MemoryMoves
<1>4. CASE UpsertFound(w)
  <2>1. PICK p \in Ids :
          /\ Moves(w, IF paper[p].status \in Terminal THEN "upsert" ELSE "acquire")
          /\ run'[w].id = p /\ run'[w].status = paper[p].status
          /\ UNCHANGED <<paper, sections>>
    BY <1>4, TakingUp
  <2>2. paper[p].status \in Statuses /\ Ids' = Ids
    BY <2>1 DEF Base, Rows, Ids
  <2>3. Holds(w)'
    BY <2>1, <2>2 DEF Moves, Holds, Writing, Statuses, Terminal
  <2>. QED BY <2>1, <2>3, MemoryMoves
<1>5. CASE UpsertMissing(w)
  <2>1. Moves(w, "insert") /\ UNCHANGED <<paper, sections>>
    BY <1>5, LookingFor
  <2>2. Holds(w)'
    BY <2>1 DEF Moves, Holds, Writing
  <2>. QED BY <2>1, <2>2, MemoryMoves
<1>6. CASE Insert(w)
  <2>1. PICK p \in 1..MaxPapers :
           /\ Moves(w, "acquire") /\ p \notin Ids
           /\ Ids' = Ids \cup {p} /\ Ids' = 1..p
           /\ DOMAIN paper'[p] = RowFields /\ paper'[p].status = "pending"
           /\ \A q \in Ids : paper'[q] = paper[q]
           /\ run'[w].id = p /\ run'[w].status = "pending"
           /\ UNCHANGED sections
    BY <1>6, Inserting
  <2>2. Holds(w)'
    BY <2>1 DEF Moves, Holds
  <2>3. Rows'
    <3>1. p \in 0..MaxPapers
      BY BoundsAssumption
    <3>2. \A q \in Ids' : DOMAIN paper'[q] = RowFields /\ paper'[q].status \in Statuses
      BY <2>1 DEF Base, Rows, Statuses
    <3>. QED BY <2>1, <3>1, <3>2 DEF Rows
  <2>4. SectionsFollowTei'
    BY <2>1 DEF Base, SectionsFollowTei
  <2>. QED BY <2>1, <2>2, <2>3, <2>4, OthersHold
<1>7. CASE Acquire(w)
  <2>1. /\ phase[w] = "acquire" /\ Moves(w, "record")
        /\ run'[w].status \in {run[w].status, "abstract_only", "failed", "pending"}
        /\ run'[w].id = run[w].id
        /\ UNCHANGED <<paper, sections>>
    BY <1>7, Acquiring
  <2>2. Ids' = Ids
    BY <2>1 DEF Ids
  <2>3. Holds(w)'
    BY <1>1, <2>1, <2>2 DEF Moves, Holds, Writing
  <2>. QED BY <2>1, <2>3, MemoryMoves
<1>8. CASE RecordAcquisition(w)
  <2>. DEFINE id == run[w].id
  <2>1. /\ phase[w] = "record" /\ run' = run
        /\ Moves(w, IF run[w].status = "pending" THEN "parse" ELSE "upsert")
        /\ DOMAIN paper' = Ids /\ DOMAIN paper'[id] = RowFields
        /\ paper'[id].status = run[w].status
        /\ \A p \in Ids \ {id} : paper'[p] = paper[p]
        /\ UNCHANGED sections
    BY <1>8, Recording
  <2>2. id \in Ids /\ run[w].status \in Statuses /\ run[w].status # "parsed"
    BY <1>1, <2>1 DEF Holds, Writing, Statuses
  <2>3. Ids' = Ids /\ Rows' /\ SectionsFollowTei'
    BY <2>1, <2>2, RowIsWritten
  <2>4. Holds(w)'
    BY <1>1, <2>1, <2>2, <2>3 DEF Moves, Holds, Writing
  <2>. QED BY <2>1, <2>3, <2>4, OthersHold
<1>9. CASE Parse(w)
  <2>1. /\ phase[w] = "parse" /\ Moves(w, "store")
        /\ run'[w].status \in {"parsed", "failed"} /\ run'[w].id = run[w].id
        /\ run'[w].status = "parsed" => run'[w].tei # "none"
        /\ UNCHANGED <<paper, sections>>
    BY <1>9, Parsing
  <2>2. Ids' = Ids
    BY <2>1 DEF Ids
  <2>3. Holds(w)'
    BY <1>1, <2>1, <2>2 DEF Moves, Holds, Writing
  <2>. QED BY <2>1, <2>3, MemoryMoves
<1>10. CASE RecordParse(w)
  <2>. DEFINE id == run[w].id
  <2>1. /\ phase[w] = "store" /\ Moves(w, "upsert")
        /\ DOMAIN paper' = Ids /\ DOMAIN paper'[id] = RowFields
        /\ paper'[id].status = run[w].status /\ paper'[id].tei = run[w].tei
        /\ \A p \in Ids \ {id} : paper'[p] = paper[p]
        /\ \A p : p # id => (p \in sections' <=> p \in sections)
        /\ run[w].status = "parsed" => (id \in sections' <=> run[w].tei = "divs")
    BY <1>10, Storing
  <2>2. /\ id \in Ids /\ run[w].status \in Statuses
        /\ run[w].status = "parsed" => run[w].tei # "none"
    BY <1>1, <2>1 DEF Holds, Writing, Statuses
  <2>3. Ids' = Ids /\ Rows' /\ SectionsFollowTei'
    BY <2>1, <2>2, RowIsWritten
  <2>4. Holds(w)'
    BY <2>1 DEF Moves, Holds, Writing
  <2>. QED BY <2>1, <2>3, <2>4, OthersHold
<1>11. CASE Stops(w)
  <2>1. Moves(w, "idle") /\ UNCHANGED <<paper, sections>>
    BY <1>11, StoppingSteps
  <2>2. Holds(w)'
    BY <2>1 DEF Moves, Holds, Writing
  <2>. QED BY <2>1, <2>2, MemoryMoves
<1>. QED BY <1>2, <1>3, <1>4, <1>5, <1>6, <1>7, <1>8, <1>9, <1>10, <1>11 DEF Steps

LEMMA BaseUnchanged ==
  ASSUME Base, UNCHANGED <<paper, sections, phase, run>>
  PROVE  Base'
BY DEF Base, Holds, Rows, SectionsFollowTei, Ids

LEMMA BaseIsInv == Spec => []Base
<1>1. Init => Base
  <2>. SUFFICES ASSUME Init PROVE Base
    OBVIOUS
  <2>1. Ids = {} /\ Ids = 1..0 /\ 0 \in 0..MaxPapers
    BY BoundsAssumption DEF Init, Ids
  <2>2. Rows /\ SectionsFollowTei
    BY <2>1 DEF Rows, SectionsFollowTei
  <2>3. phase \in [Workers -> Phases] /\ DOMAIN run = Workers
    BY DEF Init, Phases
  <2>4. ASSUME NEW w \in Workers PROVE Holds(w)
    BY NoRunFields DEF Init, Holds, Writing
  <2>. QED BY <2>2, <2>3, <2>4 DEF Base
<1>2. Base /\ [Next]_vars => Base'
  <2>. SUFFICES ASSUME Base, [Next]_vars PROVE Base'
    OBVIOUS
  <2>1. CASE Next
    BY <2>1, NextIsSteps, StepsKeepBase, BaseUnchanged
  <2>2. CASE UNCHANGED vars
    BY <2>2, BaseUnchanged DEF vars, tables
  <2>. QED BY <2>1, <2>2
<1>. QED BY <1>1, <1>2, PTL DEF Spec

\* The sections of a parsed paper are those of the TEI in its row, whichever of
\* any number of workers parses it over another, with divs or without
\* (SectionsFollowTei, of the transaction in which run_ingest records a parse).
THEOREM SectionsAlwaysFollowTei == Spec => []SectionsFollowTei
<1>1. Base => SectionsFollowTei
  BY DEF Base
<1>. QED BY <1>1, BaseIsInv, PTL

-----------------------------------------------------------------------------
(* A worker alone: papers.                                                 *)

LEMMA NothingFoundNothingCollides ==
  ASSUME NEW c, Found(c) = {}
  PROVE  Collisions(c) = {}
BY DEF Found, Collisions

LEMMA StepsKeepPaper ==
  ASSUME Base, NEW w \in Workers, Workers = {w}, PaperInHand(w), Steps(w)
  PROVE  PaperInHand(w)' /\ InsertsAreNew'
<1>. USE DEF PaperInHand
<1>1. Holds(w)
  BY DEF Base
<1>2. ASSUME phase'[w] # "insert" PROVE InsertsAreNew'
  BY <1>2 DEF InsertsAreNew
<1>3. paper' = paper => Ids' = Ids
  BY DEF Ids
<1>4. CASE StartIngest(w) \/ StartSweep(w)
  <2>1. Moves(w, "discover") /\ run'[w].seen = {}
    BY <1>4, Starting
  <2>. QED BY <1>2, <2>1 DEF Moves, Writing
<1>5. CASE Discover(w)
  <2>1. /\ phase[w] = "discover" /\ phase'[w] \in {"refuse", "upsert"}
        /\ run'[w].seen = run[w].seen /\ paper' = paper
    BY <1>5, Discovering
  <2>. QED BY <1>2, <1>3, <2>1 DEF Writing
<1>6. CASE UpsertFound(w)
  <2>1. PICK p \in Ids :
          /\ phase[w] = "upsert"
          /\ Moves(w, IF paper[p].status \in Terminal THEN "upsert" ELSE "acquire")
          /\ run'[w].id = p /\ run'[w].seen = run[w].seen \cup {p} /\ paper' = paper
    BY <1>6, TakingUp
  <2>2. phase'[w] = (IF paper[p].status \in Terminal THEN "upsert" ELSE "acquire")
    BY <2>1 DEF Moves
  <2>3. \A q \in run[w].seen : paper[q].status # "pending"
    BY <2>1 DEF Writing
  <2>4. PaperInHand(w)'
    BY <1>3, <2>1, <2>2, <2>3 DEF Writing, Terminal
  <2>. QED BY <1>2, <2>2, <2>4
<1>7. CASE UpsertMissing(w)
  <2>1. /\ phase[w] = "upsert" /\ Moves(w, "insert") /\ Found(run'[w].candidate) = {}
        /\ run'[w].seen = run[w].seen /\ paper' = paper
    BY <1>7, LookingFor
  <2>2. PaperInHand(w)'
    BY <1>3, <2>1 DEF Moves, Writing
  <2>3. Collisions(run'[w].candidate) = {}
    BY <2>1, NothingFoundNothingCollides
  <2>4. Collisions(run[w].candidate)' = {}
    BY <1>3, <2>1, <2>3 DEF Collisions, ByDoi, ByArxiv
  <2>. QED BY <2>2, <2>4 DEF InsertsAreNew
<1>8. CASE Insert(w)
  <2>1. PICK p \in 1..MaxPapers :
           /\ phase[w] = "insert" /\ Moves(w, "acquire") /\ p \notin Ids
           /\ Ids' = Ids \cup {p}
           /\ paper'[p].status = "pending" /\ \A q \in Ids : paper'[q] = paper[q]
           /\ run'[w].id = p /\ run'[w].seen = run[w].seen \cup {p}
    BY <1>8, Inserting
  <2>2. \A q \in run[w].seen : q \in Ids /\ paper[q].status # "pending"
    BY <2>1 DEF Writing
  <2>. QED BY <1>2, <2>1, <2>2 DEF Moves, Writing, Terminal
<1>9. CASE Acquire(w)
  <2>1. /\ phase[w] = "acquire" /\ Moves(w, "record") /\ run'[w].id = run[w].id
        /\ run'[w].seen = run[w].seen /\ paper' = paper
    BY <1>9, Acquiring
  <2>. QED BY <1>2, <1>3, <2>1 DEF Moves, Writing
<1>10. CASE RecordAcquisition(w)
  <2>. DEFINE id == run[w].id
  <2>1. /\ phase[w] = "record" /\ run' = run
        /\ Moves(w, IF run[w].status = "pending" THEN "parse" ELSE "upsert")
        /\ DOMAIN paper' = Ids /\ paper'[id].status = run[w].status
        /\ \A p \in Ids \ {id} : paper'[p] = paper[p]
    BY <1>10, Recording
  <2>2. phase'[w] = (IF run[w].status = "pending" THEN "parse" ELSE "upsert")
    BY <2>1 DEF Moves
  <2>3. Ids' = Ids
    BY <2>1 DEF Ids
  <2>4. \A q \in run[w].seen : q \in Ids /\ (q # id => paper'[q].status # "pending")
    BY <2>1
  <2>. QED BY <1>2, <2>1, <2>2, <2>3, <2>4 DEF Writing, Terminal
<1>11. CASE Parse(w)
  <2>1. /\ phase[w] = "parse" /\ Moves(w, "store") /\ run'[w].id = run[w].id
        /\ run'[w].seen = run[w].seen /\ paper' = paper
    BY <1>11, Parsing
  <2>. QED BY <1>2, <1>3, <2>1 DEF Moves, Writing
<1>12. CASE RecordParse(w)
  <2>. DEFINE id == run[w].id
  <2>1. /\ phase[w] = "store" /\ Moves(w, "upsert") /\ run'[w].seen = run[w].seen
        /\ DOMAIN paper' = Ids /\ paper'[id].status = run[w].status
        /\ \A p \in Ids \ {id} : paper'[p] = paper[p]
    BY <1>12, Storing
  <2>2. Ids' = Ids /\ paper'[id].status # "pending"
    BY <1>1, <2>1 DEF Ids, Holds
  <2>3. \A q \in run[w].seen : q \in Ids /\ paper'[q].status # "pending"
    BY <2>1, <2>2
  <2>. QED BY <1>2, <2>1, <2>2, <2>3 DEF Moves, Writing
<1>13. CASE Stops(w)
  <2>1. Moves(w, "idle") /\ run'[w].seen = {}
    BY <1>13, StoppingSteps, NoRunFields
  <2>. QED BY <1>2, <2>1 DEF Moves, Writing
<1>. QED BY <1>4, <1>5, <1>6, <1>7, <1>8, <1>9, <1>10, <1>11, <1>12, <1>13 DEF Steps

\* No step takes back a paper that is done with.
LEMMA StepsKeepTerminal ==
  ASSUME Base, NEW w \in Workers, PaperInHand(w), Steps(w),
         NEW p \in Ids, paper[p].status \in Terminal
  PROVE  paper'[p] = paper[p]
<1>1. Holds(w)
  BY DEF Base
<1>2. phase[w] \in Writing => p # run[w].id
  BY DEF PaperInHand
<1>3. CASE Insert(w)
  BY <1>3, Inserting
<1>4. CASE RecordAcquisition(w)
  <2>1. phase[w] \in Writing /\ \A q \in Ids \ {run[w].id} : paper'[q] = paper[q]
    BY <1>4, Recording DEF Writing
  <2>. QED BY <1>2, <2>1
<1>5. CASE RecordParse(w)
  <2>1. phase[w] \in Writing /\ \A q \in Ids \ {run[w].id} : paper'[q] = paper[q]
    BY <1>5, Storing DEF Writing
  <2>. QED BY <1>2, <2>1
<1>6. CASE UNCHANGED paper
  BY <1>6
<1>7. \/ Insert(w) \/ RecordAcquisition(w) \/ RecordParse(w) \/ UNCHANGED paper
  BY DEF Steps, Stops, StartIngest, StartSweep, Discover, UpsertFound, UpsertMissing, Acquire, Parse,
     Refuse, Finish, ParseRaises, InsertRaises, Kill, tables
<1>. QED BY <1>3, <1>4, <1>5, <1>6, <1>7

-----------------------------------------------------------------------------
(* A worker alone: jobs.                                                   *)

\* A job that had counted nothing counts n papers.
LEMMA TallyRaised ==
  ASSUME Jobs, IsFiniteSet(Tally), NEW k \in DOMAIN job, job[k].parsed = 0, NEW n \in Nat,
         DOMAIN job' = DOMAIN job, job'[k].parsed = n,
         \A j \in DOMAIN job \ {k} : job'[j] = job[j]
  PROVE  IsFiniteSet(Tally') /\ Cardinality(Tally') = Cardinality(Tally) + n
<1>. DEFINE A == {k} \X (1..n)
<1>1. IsFiniteSet(1..n) /\ Cardinality(1..n) = n
  BY FS_Interval, 1 \in Int, n \in Int
<1>2. IsFiniteSet({k}) /\ Cardinality({k}) = 1
  BY FS_Singleton
<1>3. IsFiniteSet(A) /\ Cardinality(A) = n
  <2>1. IsFiniteSet(A) /\ Cardinality(A) = Cardinality({k}) * Cardinality(1..n)
    BY <1>1, <1>2, FS_Product
  <2>. QED BY <1>1, <1>2, <2>1
<1>4. Tally' = Tally \cup A
  <2>1. ASSUME NEW x \in Tally' PROVE x \in Tally \cup A
    <3>1. PICK j \in DOMAIN job' : x \in {j} \X (1..job'[j].parsed)
      BY <2>1 DEF Tally
    <3>2. CASE j = k
      BY <3>1, <3>2
    <3>3. CASE j # k
      BY <3>1, <3>3 DEF Tally
    <3>. QED BY <3>2, <3>3
  <2>2. ASSUME NEW x \in Tally PROVE x \in Tally'
    <3>1. PICK j \in DOMAIN job : x \in {j} \X (1..job[j].parsed)
      BY <2>2 DEF Tally
    <3>2. j # k
      BY <3>1
    <3>. QED BY <3>1, <3>2 DEF Tally
  <2>3. A \subseteq Tally'
    BY DEF Tally
  <2>. QED BY <2>1, <2>2, <2>3
<1>5. Tally \cap A = {}
  BY DEF Tally
<1>. HIDE DEF A
<1>6. IsFiniteSet(Tally \cup A)
      /\ Cardinality(Tally \cup A) = Cardinality(Tally) + Cardinality(A) - Cardinality({})
  BY <1>3, <1>5, FS_Union
<1>7. Cardinality({}) = 0 /\ Cardinality(Tally) \in Nat
  BY FS_EmptySet, FS_CardinalityType
<1>. QED BY <1>3, <1>4, <1>6, <1>7

\* The end of a run, completed or refused.
LEMMA Finishing ==
  ASSUME Base, Jobs, NEW w \in Workers, JobInHand(w), Finish(w) \/ Refuse(w)
  PROVE  /\ run[w].job \in DOMAIN job /\ phase[w] # "idle"
         /\ DOMAIN job' = DOMAIN job /\ DOMAIN job'[run[w].job] = JobFields
         /\ job'[run[w].job].state # "running" /\ job'[run[w].job].parsed = run[w].parsed
         /\ \A j \in DOMAIN job \ {run[w].job} : job'[j] = job[j]
         /\ UNCHANGED paper
<1>. DEFINE k == run[w].job
            n == run[w].parsed
            m == run[w].found
<1>1. phase[w] \in {"refuse", "upsert"} /\ UNCHANGED paper
  BY DEF Finish, Refuse
<1>2. k \in DOMAIN job /\ DOMAIN job[k] = JobFields
  BY <1>1 DEF JobInHand, Jobs
<1>3. Refuse(w) => n = 0
  BY DEF Refuse, JobInHand
<1>4. PICK state \in {"failed", "completed"} :
        job' = [job EXCEPT ![k].state = state, ![k].found = m, ![k].parsed = n]
  BY <1>3 DEF Finish, Refuse, FinishJob
<1>. HIDE DEF k, n, m
<1>5. /\ DOMAIN job' = DOMAIN job /\ DOMAIN job'[k] = JobFields
      /\ job'[k].state = state /\ job'[k].parsed = n
      /\ \A j \in DOMAIN job \ {k} : job'[j] = job[j]
  BY <1>2, <1>4 DEF JobFields
<1>. QED BY <1>1, <1>2, <1>5 DEF k, n

\* Steps that leave the jobs and the parsed papers alone.
LEMMA CountsStay ==
  ASSUME Jobs, NEW w \in Workers, JobInHand(w), Counted(w), UNCHANGED job,
         ParsedPapers' = ParsedPapers,
         phase[w] # "idle", phase'[w] \notin {"idle", "discover", "refuse"} \/ phase[w] = "discover",
         run'[w].job = run[w].job, run'[w].parsed = run[w].parsed,
         phase'[w] # "idle"
  PROVE  Jobs' /\ JobInHand(w)' /\ Counted(w)'
<1>1. Tally' = Tally
  BY DEF Tally
<1>2. Jobs'
  BY DEF Jobs
<1>3. JobInHand(w)'
  BY DEF JobInHand
<1>4. Counted(w)'
  BY <1>1 DEF Counted
<1>. QED BY <1>2, <1>3, <1>4

LEMMA ParsedPapersFinite ==
  ASSUME Rows
  PROVE  IsFiniteSet(ParsedPapers)
<1>1. PICK n \in 0..MaxPapers : Ids = 1..n
  BY DEF Rows
<1>2. n \in Int
  BY BoundsAssumption
<1>3. IsFiniteSet(Ids)
  BY <1>1, <1>2, FS_Interval, 1 \in Int
<1>4. ParsedPapers \subseteq Ids
  BY DEF ParsedPapers
<1>. QED BY <1>3, <1>4, FS_Subset

LEMMA StepsKeepJobs ==
  ASSUME Base, Jobs, NEW w \in Workers, PaperInHand(w), JobInHand(w), Counted(w), Steps(w)
  PROVE  Jobs' /\ JobInHand(w)' /\ Counted(w)'
<1>1. Holds(w)
  BY DEF Base
<1>2. paper' = paper => ParsedPapers' = ParsedPapers
  BY DEF ParsedPapers, Ids
<1>3. CASE StartIngest(w) \/ StartSweep(w)
  <2>. DEFINE j == run'[w].job
  <2>1. /\ Moves(w, "discover") /\ phase[w] = "idle"
        /\ run'[w].parsed = 0 /\ j = Cardinality(DOMAIN job) + 1 /\ j <= MaxRuns
        /\ paper' = paper
    BY <1>3, Starting
  <2>2. PICK s \in Scopes :
          job' = [k \in DOMAIN job \cup {j} |->
                   IF k = j THEN [scope |-> s, state |-> "running", found |-> 0, parsed |-> 0]
                   ELSE job[k]]
    BY <1>3, Starting
  <2>3. PICK n \in 0..MaxRuns : DOMAIN job = 1..n
    BY DEF Jobs
  <2>4. j = n + 1 /\ n \in Nat
    <3>1. n \in Nat
      BY BoundsAssumption
    <3>2. Cardinality(1..n) = n
      BY <3>1, FS_Interval, 1 \in Int, n \in Int
    <3>. QED BY <2>1, <2>3, <3>1, <3>2
  <2>. HIDE DEF j
  <2>5. j \notin DOMAIN job /\ j \in 0..MaxRuns /\ DOMAIN job \cup {j} = 1..j
    BY <2>1, <2>3, <2>4, BoundsAssumption
  <2>6. /\ DOMAIN job' = DOMAIN job \cup {j}
        /\ job'[j] = [scope |-> s, state |-> "running", found |-> 0, parsed |-> 0]
        /\ \A k \in DOMAIN job : job'[k] = job[k]
    BY <2>2, <2>5
  <2>7. DOMAIN job'[j] = JobFields /\ job'[j].parsed = 0 /\ job'[j].state = "running"
    BY <2>6 DEF JobFields
  <2>8. Jobs'
    <3>1. \A k \in DOMAIN job' : /\ DOMAIN job'[k] = JobFields /\ job'[k].parsed \in Nat
                                 /\ job'[k].state = "running" => job'[k].parsed = 0
      <4>1. ASSUME NEW k \in DOMAIN job
            PROVE  /\ DOMAIN job'[k] = JobFields /\ job'[k].parsed \in Nat
                   /\ job'[k].state = "running" => job'[k].parsed = 0
        <5>1. job'[k] = job[k]
          BY <2>6
        <5>. QED BY <5>1 DEF Jobs
      <4>2. DOMAIN job'[j] = JobFields /\ job'[j].parsed = 0
        BY <2>7
      <4>. QED BY <2>6, <4>1, <4>2
    <3>2. DOMAIN job' = 1..j
      BY <2>5, <2>6
    <3>. QED BY <2>5, <3>1, <3>2 DEF Jobs
  <2>9. JobInHand(w)'
    BY <2>1, <2>6, <2>7 DEF JobInHand, Moves, j
  <2>10. Tally' = Tally
    <3>1. {j} \X (1..job'[j].parsed) = {}
      BY <2>7
    <3>. QED BY <2>6, <3>1 DEF Tally
  <2>11. Counted(w)'
    <3>. SUFFICES ASSUME \A k \in DOMAIN job' : job'[k].state = "running" => k = run'[w].job
                  PROVE  Cardinality(Tally') + run'[w].parsed = Cardinality(ParsedPapers')
      BY <2>10 DEF Counted
    <3>1. \A k \in DOMAIN job : job[k].state # "running"
      BY <2>5, <2>6 DEF j
    <3>2. run[w].parsed = 0
      BY <2>1 DEF JobInHand
    <3>3. Cardinality(Tally) + run[w].parsed = Cardinality(ParsedPapers)
      BY <3>1 DEF Counted
    <3>. QED BY <1>2, <2>1, <2>10, <3>2, <3>3
  <2>. QED BY <2>8, <2>9, <2>11
<1>4. CASE Discover(w)
  <2>1. /\ phase[w] = "discover" /\ phase'[w] \in {"refuse", "upsert"}
        /\ run'[w].parsed = run[w].parsed /\ run'[w].job = run[w].job
        /\ UNCHANGED <<paper, job>>
    BY <1>4, Discovering
  <2>. QED BY <1>2, <2>1, CountsStay
<1>5. CASE UpsertFound(w)
  <2>1. PICK p \in Ids :
          /\ phase[w] = "upsert"
          /\ Moves(w, IF paper[p].status \in Terminal THEN "upsert" ELSE "acquire")
          /\ run'[w].parsed = run[w].parsed /\ run'[w].job = run[w].job
          /\ UNCHANGED <<paper, job>>
    BY <1>5, TakingUp
  <2>2. phase'[w] \in {"upsert", "acquire"}
    BY <2>1 DEF Moves
  <2>. QED BY <1>2, <2>1, <2>2, CountsStay
<1>6. CASE UpsertMissing(w)
  <2>1. /\ phase[w] = "upsert" /\ phase'[w] = "insert"
        /\ run'[w].parsed = run[w].parsed /\ run'[w].job = run[w].job
        /\ UNCHANGED <<paper, job>>
    BY <1>6, LookingFor DEF Moves
  <2>. QED BY <1>2, <2>1, CountsStay
<1>7. CASE Insert(w)
  <2>1. PICK p \in 1..MaxPapers :
           /\ phase[w] = "insert" /\ Moves(w, "acquire") /\ p \notin Ids
           /\ Ids' = Ids \cup {p}
           /\ paper'[p].status = "pending" /\ \A q \in Ids : paper'[q] = paper[q]
           /\ run'[w].parsed = run[w].parsed /\ run'[w].job = run[w].job
           /\ UNCHANGED job
    BY <1>7, Inserting
  <2>2. ParsedPapers' = ParsedPapers /\ phase'[w] = "acquire"
    BY <2>1 DEF ParsedPapers, Moves
  <2>. QED BY <2>1, <2>2, CountsStay
<1>8. CASE Acquire(w)
  <2>1. /\ phase[w] = "acquire" /\ phase'[w] = "record"
        /\ run'[w].parsed = run[w].parsed /\ run'[w].job = run[w].job
        /\ UNCHANGED <<paper, job>>
    BY <1>8, Acquiring DEF Moves
  <2>. QED BY <1>2, <2>1, CountsStay
<1>9. CASE RecordAcquisition(w)
  <2>. DEFINE id == run[w].id
  <2>1. /\ phase[w] = "record" /\ run' = run
        /\ Moves(w, IF run[w].status = "pending" THEN "parse" ELSE "upsert")
        /\ DOMAIN paper' = Ids /\ paper'[id].status = run[w].status
        /\ \A p \in Ids \ {id} : paper'[p] = paper[p]
        /\ UNCHANGED job
    BY <1>9, Recording
  <2>2. phase'[w] \in {"parse", "upsert"}
    BY <2>1 DEF Moves
  <2>3. id \in Ids /\ paper[id].status # "parsed" /\ paper'[id].status # "parsed"
    BY <1>1, <2>1 DEF Holds, PaperInHand, Writing, Terminal
  <2>4. ParsedPapers' = ParsedPapers
    BY <2>1, <2>3 DEF ParsedPapers, Ids
  <2>. QED BY <2>1, <2>2, <2>4, CountsStay
<1>10. CASE Parse(w)
  <2>1. /\ phase[w] = "parse" /\ phase'[w] = "store"
        /\ run'[w].parsed = run[w].parsed /\ run'[w].job = run[w].job
        /\ UNCHANGED <<paper, job>>
    BY <1>10, Parsing DEF Moves
  <2>. QED BY <1>2, <2>1, CountsStay
<1>11. CASE RecordParse(w)
  <2>. DEFINE id == run[w].id
  <2>1. /\ phase[w] = "store" /\ phase'[w] = "upsert"
        /\ run'[w].parsed = IF run[w].status = "parsed" THEN run[w].parsed + 1 ELSE run[w].parsed
        /\ run'[w].job = run[w].job
        /\ DOMAIN paper' = Ids /\ paper'[id].status = run[w].status
        /\ \A p \in Ids \ {id} : paper'[p] = paper[p]
        /\ UNCHANGED job
    BY <1>11, Storing DEF Moves
  <2>2. id \in Ids /\ id \notin ParsedPapers
    BY <1>1, <2>1 DEF Holds, PaperInHand, Writing, Terminal, ParsedPapers
  <2>3. ParsedPapers' = IF run[w].status = "parsed" THEN ParsedPapers \cup {id} ELSE ParsedPapers
    BY <2>1, <2>2 DEF ParsedPapers, Ids
  <2>4. CASE run[w].status # "parsed"
    BY <2>1, <2>3, <2>4, CountsStay
  <2>5. CASE run[w].status = "parsed"
    <3>1. Cardinality(ParsedPapers') = Cardinality(ParsedPapers) + 1
      <4>. HIDE DEF id
      <4>1. IsFiniteSet(ParsedPapers)
        BY ParsedPapersFinite DEF Base
      <4>. QED BY <2>2, <2>3, <2>5, <4>1, FS_AddElement
    <3>2. Tally' = Tally
      BY <2>1 DEF Tally
    <3>3. run[w].parsed \in Nat /\ run'[w].parsed = run[w].parsed + 1
      BY <2>1, <2>5 DEF JobInHand
    <3>4. JobInHand(w)' /\ Jobs'
      BY <2>1, <3>3 DEF JobInHand, Jobs
    <3>5. Counted(w)'
      <4>. SUFFICES ASSUME \A j \in DOMAIN job : job[j].state = "running" => j = run[w].job
                    PROVE  Cardinality(Tally') + run'[w].parsed = Cardinality(ParsedPapers')
        BY <2>1, <3>2 DEF Counted
      <4>1. Cardinality(Tally) + run[w].parsed = Cardinality(ParsedPapers)
        BY <2>1 DEF Counted
      <4>2. Cardinality(Tally) \in Nat
        BY FS_CardinalityType DEF Counted
      <4>. QED BY <3>1, <3>2, <3>3, <4>1, <4>2
    <3>. QED BY <3>4, <3>5
  <2>. QED BY <2>4, <2>5
<1>12. CASE Finish(w) \/ Refuse(w)
  <2>. DEFINE k == run[w].job
              n == run[w].parsed
  <2>1. /\ k \in DOMAIN job /\ phase[w] # "idle"
        /\ DOMAIN job' = DOMAIN job /\ DOMAIN job'[k] = JobFields
        /\ job'[k].state # "running" /\ job'[k].parsed = n
        /\ \A j \in DOMAIN job \ {k} : job'[j] = job[j]
        /\ paper' = paper
    BY <1>12, Finishing
  <2>2. Moves(w, "idle") /\ run'[w].parsed = 0
    BY <1>12, StoppingSteps, NoRunFields DEF Stops
  <2>3. n \in Nat /\ job[k].parsed = 0
    BY <2>1 DEF JobInHand, Jobs
  <2>4. Jobs'
    BY <2>1, <2>3 DEF Jobs
  <2>5. JobInHand(w)'
    BY <2>2 DEF JobInHand, Moves
  <2>6. IsFiniteSet(Tally)
    BY DEF Counted
  <2>. HIDE DEF k, n
  <2>7. IsFiniteSet(Tally') /\ Cardinality(Tally') = Cardinality(Tally) + n
    BY <2>1, <2>3, <2>6, TallyRaised
  <2>8. Counted(w)'
    <3>. SUFFICES ASSUME \A j \in DOMAIN job' : job'[j].state # "running"
                  PROVE  Cardinality(Tally') + run'[w].parsed = Cardinality(ParsedPapers')
      BY <2>2, <2>7 DEF Counted, Moves
    <3>1. \A j \in DOMAIN job : job[j].state = "running" => j = k
      BY <2>1
    <3>2. Cardinality(Tally) + n = Cardinality(ParsedPapers)
      BY <2>1, <3>1 DEF Counted, k, n
    <3>3. Cardinality(Tally) \in Nat
      BY <2>6, FS_CardinalityType
    <3>. QED BY <1>2, <2>1, <2>2, <2>3, <2>7, <3>2, <3>3
  <2>. QED BY <2>4, <2>5, <2>8
<1>13. CASE ParseRaises(w) \/ InsertRaises(w) \/ Kill(w)
  <2>1. Moves(w, "idle") /\ run'[w].parsed = 0 /\ phase[w] # "idle"
    BY <1>13, StoppingSteps, NoRunFields DEF Stops
  <2>2. UNCHANGED job
    BY <1>13 DEF ParseRaises, InsertRaises, Kill, tables
  <2>3. Jobs' /\ JobInHand(w)' /\ Tally' = Tally
    BY <2>1, <2>2 DEF Jobs, JobInHand, Moves, Tally
  <2>4. run[w].job \in DOMAIN job' /\ job'[run[w].job].state = "running" /\ phase'[w] = "idle"
    BY <2>1, <2>2 DEF JobInHand, Moves
  <2>5. Counted(w)'
    BY <2>3, <2>4 DEF Counted
  <2>. QED BY <2>3, <2>5
<1>. QED BY <1>3, <1>4, <1>5, <1>6, <1>7, <1>8, <1>9, <1>10, <1>11, <1>12, <1>13 DEF Steps, Stops

-----------------------------------------------------------------------------
(* A worker alone: the theorems.                                           *)

LEMMA InitAlone == ASSUME OneWorker PROVE Init => Alone
<1>. SUFFICES ASSUME Init PROVE Alone
  OBVIOUS
<1>1. Ids = {} /\ Ids = 1..0 /\ DOMAIN job = {} /\ DOMAIN job = 1..0
      /\ 0 \in 0..MaxPapers /\ 0 \in 0..MaxRuns
  BY BoundsAssumption DEF Init, Ids
<1>2. Rows /\ SectionsFollowTei /\ Jobs
  BY <1>1 DEF Rows, SectionsFollowTei, Jobs
<1>3. phase \in [Workers -> Phases] /\ DOMAIN run = Workers
  BY DEF Init, Phases
<1>4. ASSUME NEW w \in Workers
      PROVE  Holds(w) /\ PaperInHand(w) /\ JobInHand(w)
  BY NoRunFields DEF Init, Holds, Writing, PaperInHand, JobInHand
<1>5. InsertsAreNew
  BY DEF Init, InsertsAreNew
<1>6. ASSUME NEW w \in Workers PROVE Counted(w)
  <2>1. Tally = {} /\ ParsedPapers = {}
    BY <1>1 DEF Tally, ParsedPapers
  <2>2. run[w].parsed = 0
    BY NoRunFields DEF Init
  <2>. QED BY <2>1, <2>2, FS_EmptySet DEF Counted
<1>. QED BY <1>2, <1>3, <1>4, <1>5, <1>6 DEF Base, Alone

LEMMA NextAlone == ASSUME OneWorker PROVE Alone /\ [Next]_vars => Alone'
<1>. SUFFICES ASSUME Alone, [Next]_vars PROVE Alone'
  OBVIOUS
<1>1. PICK w \in Workers : Workers = {w}
  BY DEF OneWorker
<1>2. Base /\ Jobs /\ InsertsAreNew /\ PaperInHand(w) /\ JobInHand(w) /\ Counted(w)
  BY DEF Alone
<1>3. CASE Steps(w)
  <2>1. Base'
    BY <1>2, <1>3, StepsKeepBase
  <2>2. PaperInHand(w)' /\ InsertsAreNew'
    BY <1>1, <1>2, <1>3, StepsKeepPaper
  <2>3. Jobs' /\ JobInHand(w)' /\ Counted(w)'
    BY <1>2, <1>3, StepsKeepJobs
  <2>. QED BY <1>1, <2>1, <2>2, <2>3 DEF Alone
<1>4. CASE UNCHANGED <<paper, sections, job, phase, run>>
  <2>1. Base' /\ Ids' = Ids
    BY <1>2, <1>4, BaseUnchanged DEF Ids
  <2>2. Jobs' /\ Tally' = Tally /\ ParsedPapers' = ParsedPapers
    BY <1>2, <1>4, <2>1 DEF Jobs, Tally, ParsedPapers
  <2>3. InsertsAreNew'
    BY <1>2, <1>4, <2>1 DEF InsertsAreNew, Collisions, ByDoi, ByArxiv
  <2>4. PaperInHand(w)' /\ JobInHand(w)'
    BY <1>2, <1>4, <2>1 DEF PaperInHand, JobInHand
  <2>5. Counted(w)'
    BY <1>2, <1>4, <2>2 DEF Counted
  <2>. QED BY <1>1, <2>1, <2>2, <2>3, <2>4, <2>5 DEF Alone
<1>5. Next => Steps(w) \/ UNCHANGED <<paper, sections, job, phase, run>>
  BY <1>1, NextIsSteps
<1>6. UNCHANGED vars => UNCHANGED <<paper, sections, job, phase, run>>
  BY DEF vars, tables
<1>. QED BY <1>3, <1>4, <1>5, <1>6

LEMMA AloneIsInv == ASSUME OneWorker PROVE Spec => []Alone
<1>1. Init => Alone
  BY InitAlone
<1>2. Alone /\ [Next]_vars => Alone'
  BY NextAlone
<1>. QED BY <1>1, <1>2, PTL DEF Spec

\* A worker alone never runs into the unique constraints: the candidate it
\* goes on to insert shares no DOI and no arXiv id with a row, as spelled
\* (InsertsAreNew, of _upsert_paper).
THEOREM OneWorkerInsertsNewPapers ==
  ASSUME OneWorker
  PROVE  Spec => []InsertsAreNew
<1>1. Alone => InsertsAreNew
  BY DEF Alone
<1>. QED BY <1>1, AloneIsInv, PTL

\* As long as no run was cut short, the papers_parsed of the jobs of a worker
\* alone add up to the papers that are parsed, over runs that failed, files
\* that were lost and papers taken up again (JobsAddUp, of run_ingest).
THEOREM OneWorkerCountsPapersOnce ==
  ASSUME OneWorker
  PROVE  Spec => []JobsAddUp
<1>1. Alone => JobsAddUp
  <2>. SUFFICES ASSUME Alone, \A j \in DOMAIN job : job[j].state # "running"
                PROVE  Cardinality(Tally) = Cardinality(ParsedPapers)
    BY DEF JobsAddUp, Tally, ParsedPapers
  <2>1. PICK w \in Workers : Workers = {w}
    BY DEF OneWorker
  <2>2. JobInHand(w) /\ Counted(w)
    BY DEF Alone
  <2>3. run[w].parsed = 0
    BY <2>2 DEF JobInHand
  <2>4. Cardinality(Tally) + run[w].parsed = Cardinality(ParsedPapers) /\ IsFiniteSet(Tally)
    BY <2>2 DEF Counted
  <2>5. Cardinality(Tally) \in Nat
    BY <2>4, FS_CardinalityType
  <2>. QED BY <2>3, <2>4, <2>5
<1>. QED BY <1>1, AloneIsInv, PTL

\* A paper that is parsed or abstract-only stays so under a worker alone: the
\* row it writes back is never one that is done with (TerminalStaysTerminal,
\* of the skip in run_ingest).
THEOREM OneWorkerLeavesDonePapers ==
  ASSUME OneWorker
  PROVE  Spec => TerminalStaysTerminal
<1>1. Alone /\ [Next]_vars =>
        [\A p \in Ids : paper[p].status \in {"parsed", "abstract_only"} =>
           paper'[p].status = paper[p].status]_vars
  <2>. SUFFICES ASSUME Alone, [Next]_vars, NEW p \in Ids,
                       paper[p].status \in {"parsed", "abstract_only"}
                PROVE  paper'[p].status = paper[p].status
    OBVIOUS
  <2>1. PICK w \in Workers : Workers = {w}
    BY DEF OneWorker
  <2>2. Base /\ PaperInHand(w) /\ paper[p].status \in Terminal
    BY DEF Alone, Terminal
  <2>3. CASE Steps(w)
    BY <2>2, <2>3, StepsKeepTerminal
  <2>4. CASE paper' = paper
    BY <2>4
  <2>. QED BY <2>1, <2>3, <2>4, NextIsSteps DEF vars, tables
<1>. QED BY <1>1, AloneIsInv, PTL DEF Spec, TerminalStaysTerminal

\* A run that completes leaves no paper it took up pending, also those an
\* earlier run had left so when it died (CompletedRunsLeaveNothingPending, of
\* the loop of run_ingest).
THEOREM OneWorkerLeavesNothingPending ==
  ASSUME OneWorker
  PROVE  Spec => CompletedRunsLeaveNothingPending
<1>1. Alone =>
        [\A w \in Workers : Finish(w) => \A p \in run[w].seen : paper[p].status # "pending"]_vars
  <2>. SUFFICES ASSUME Alone, NEW w \in Workers, Finish(w), NEW p \in run[w].seen
                PROVE  paper[p].status # "pending"
    OBVIOUS
  <2>1. PaperInHand(w) /\ phase[w] = "upsert"
    BY DEF Alone, Finish
  <2>. QED BY <2>1 DEF PaperInHand, Writing
<1>. QED BY <1>1, AloneIsInv, PTL DEF CompletedRunsLeaveNothingPending

-----------------------------------------------------------------------------
(* Identity resolution, for every set of records and every length of their *)
(* list.  Each paper the loop builds bears the DOI of all the records it   *)
(* took in: the step that could break it is the merge into a paper that    *)
(* matched by something else, and there one of the two has no DOI.         *)

ResolveInv == RecordsTyped /\ DoiNamesPaper

-----------------------------------------------------------------------------
\* The paper a candidate goes to is in the list, and matches it.
LEMMA HomeMatches ==
  ASSUME NEW list \in Seq(Record), NEW c, Matches(list, c) # {}
  PROVE  Home(list, c) \in DOMAIN list /\ SameIdentity(list[Home(list, c)], c)
<1>. DEFINE M == Matches(list, c)
<1>1. M \subseteq Nat /\ M \subseteq DOMAIN list
  BY DEF Matches
<1>2. PICK i \in M : \A j \in M : ~(<<j, i>> \in OpToRel(<, Nat))
  <2>. HIDE DEF M
  <2>. QED BY <1>1, NatLessThanWellFounded, WFMin DEF M
<1>3. \A j \in M : ~(j < i)
  BY <1>1, <1>2, Zenon DEF OpToRel
<1>4. \A j \in M : i <= j
  BY <1>1, <1>3
<1>5. Home(list, c) \in M
  BY <1>4 DEF Home
<1>. QED BY <1>1, <1>5 DEF Matches

\* Records that match, and both have a DOI, have the same one.
LEMMA MatchedDois ==
  ASSUME NEW p, NEW c, SameIdentity(p, c)
  PROVE  Normal(p.doi) # None /\ Normal(c.doi) # None => Normal(p.doi) = Normal(c.doi)
BY DEF SameIdentity, Decides

\* A merge keeps a paper's fields in their types, and its DOI where it has one.
LEMMA MergeKeeps ==
  ASSUME NEW p \in Record, NEW c \in Record
  PROVE  /\ MergeMetadata(p, c) \in Record
         /\ p.doi # None => MergeMetadata(p, c).doi = p.doi
         /\ p.doi = None => MergeMetadata(p, c).doi = c.doi
BY DEF MergeMetadata, FirstPresent, Record

\* An identifier that is there is not blank.
LEMMA NamedIsNormal ==
  ASSUME NEW p \in Record, p.doi # None
  PROVE  Normal(p.doi) # None
BY RecordsAssumption DEF Record, Normal

-----------------------------------------------------------------------------
LEMMA ResolveInitInv == ResolveInit => ResolveInv
BY MaxAssumption DEF ResolveInit, ResolveInv, RecordsTyped, DoiNamesPaper

\* A record nothing matches becomes a paper of its own.
LEMMA AppendKeepsInv ==
  ASSUME ResolveInv, NEW c \in Candidates, Take(c), Matches(merged, c) = {}
  PROVE  ResolveInv'
<1>. USE DEF ResolveInv, RecordsTyped
<1>1. c \in Record
  BY RecordsAssumption
<1>2. merged' = Append(merged, c) /\ members' = Append(members, {c})
  BY DEF Take, TakeIn
<1>3. RecordsTyped'
  BY <1>1, <1>2, MaxAssumption DEF Take
<1>4. DoiNamesPaper'
  BY <1>1, <1>2 DEF DoiNamesPaper
<1>. QED BY <1>3, <1>4

\* A record that matches is merged into the first paper that does.
LEMMA MergeKeepsInv ==
  ASSUME ResolveInv, NEW c \in Candidates, Take(c), Matches(merged, c) # {}
  PROVE  ResolveInv'
<1>. USE DEF ResolveInv, RecordsTyped
<1>. DEFINE h == Home(merged, c)
<1>1. c \in Record
  BY RecordsAssumption
<1>2. h \in DOMAIN merged /\ SameIdentity(merged[h], c)
  BY HomeMatches
<1>3. /\ merged' = [merged EXCEPT ![h] = MergeMetadata(@, c)]
      /\ members' = [members EXCEPT ![h] = @ \cup {c}]
  BY DEF Take, TakeIn
<1>. HIDE DEF h
<1>4. merged[h] \in Record
  BY <1>2
<1>5. MergeMetadata(merged[h], c) \in Record
  BY <1>1, <1>4, MergeKeeps
<1>6. RecordsTyped'
  <2>1. merged' \in Seq(Record)
    BY <1>2, <1>3, <1>5
  <2>2. members' \in Seq(SUBSET Candidates) /\ DOMAIN members' = DOMAIN merged'
    BY <1>2, <1>3
  <2>. QED BY <2>1, <2>2, MaxAssumption DEF Take
<1>7. DoiNamesPaper'
  <2>. SUFFICES ASSUME NEW i \in DOMAIN merged, NEW d \in members'[i], d.doi # None
                PROVE  Normal(merged'[i].doi) = Normal(d.doi)
    BY <1>2, <1>3 DEF DoiNamesPaper
  <2>1. CASE i # h
    BY <1>3, <2>1 DEF DoiNamesPaper
  <2>2. CASE i = h
    <3>. DEFINE m == MergeMetadata(merged[h], c)
    <3>1. merged'[i] = m /\ members'[i] = members[h] \cup {c}
      BY <1>2, <1>3, <2>2
    <3>2. CASE d \in members[h]
      <4>1. Normal(merged[h].doi) = Normal(d.doi)
        BY <1>2, <3>2 DEF DoiNamesPaper
      <4>2. d \in Record
        BY <1>2, <3>2, RecordsAssumption
      <4>3. Normal(merged[h].doi) # None
        BY <4>1, <4>2, NamedIsNormal
      <4>4. merged[h].doi # None
        BY <4>3 DEF Normal
      <4>. QED BY <1>1, <1>4, <3>1, <4>1, <4>4, MergeKeeps
    <3>3. CASE d = c
      <4>1. CASE merged[h].doi = None
        BY <1>1, <1>4, <3>1, <3>3, <4>1, MergeKeeps
      <4>2. CASE merged[h].doi # None
        <5>1. Normal(merged[h].doi) # None /\ Normal(c.doi) # None
          BY <1>1, <1>4, <3>3, <4>2, NamedIsNormal
        <5>2. Normal(merged[h].doi) = Normal(c.doi)
          BY <1>2, <5>1, MatchedDois
        <5>. QED BY <1>1, <1>4, <3>1, <3>3, <4>2, <5>2, MergeKeeps
      <4>. QED BY <4>1, <4>2
    <3>. QED BY <3>1, <3>2, <3>3
  <2>. QED BY <2>1, <2>2
<1>. QED BY <1>6, <1>7

\* Every step of the loop keeps the invariant.
LEMMA ResolveStepInv == ResolveInv /\ [ResolveNext]_resolveVars => ResolveInv'
<1>. SUFFICES ASSUME ResolveInv, [ResolveNext]_resolveVars PROVE ResolveInv'
  OBVIOUS
<1>1. CASE ResolveNext
  <2>1. PICK c \in Candidates : Take(c)
    BY <1>1 DEF ResolveNext
  <2>. QED BY <2>1, AppendKeepsInv, MergeKeepsInv
<1>2. CASE UNCHANGED resolveVars
  BY <1>2 DEF resolveVars, ResolveInv, RecordsTyped, DoiNamesPaper
<1>. QED BY <1>1, <1>2

-----------------------------------------------------------------------------
\* The loop never leaves its invariant.
THEOREM ResolveInvHolds == ResolveSpec => []ResolveInv
BY ResolveInitInv, ResolveStepInv, PTL DEF ResolveSpec

\* Every merged paper is made of fields of records (MergedPaper).
THEOREM RecordsStayTyped == ResolveSpec => []RecordsTyped
<1>1. ResolveInv => RecordsTyped
  BY DEF ResolveInv
<1>. QED BY <1>1, ResolveInvHolds, PTL

\* Records with different DOIs are never one paper, whatever connects them
\* (resolve_identity).
THEOREM DoisStayApart == ResolveSpec => []DoiNamesPaper
<1>1. ResolveInv => DoiNamesPaper
  BY DEF ResolveInv
<1>. QED BY <1>1, ResolveInvHolds, PTL

-----------------------------------------------------------------------------
(* The same for arXiv ids.                                                 *)

\* A record without a DOI that matches a paper with an arXiv id, and has one,
\* has the same.
LEMMA MatchedArxivs ==
  ASSUME NEW p, NEW c, SameIdentity(p, c), c.doi = None,
         Normal(p.arxiv) # None, Normal(c.arxiv) # None
  PROVE  Normal(p.arxiv) = Normal(c.arxiv)
BY DEF SameIdentity, Decides, Normal

LEMMA MergeKeepsArxiv ==
  ASSUME NEW p \in Record, NEW c \in Record
  PROVE  /\ p.arxiv # None => MergeMetadata(p, c).arxiv = p.arxiv
         /\ p.arxiv = None => MergeMetadata(p, c).arxiv = c.arxiv
BY DEF MergeMetadata, FirstPresent, Record

LEMMA NamedArxivIsNormal ==
  ASSUME NEW p \in Record, p.arxiv # None
  PROVE  Normal(p.arxiv) # None
BY RecordsAssumption DEF Record, Normal

LEMMA TakeKeepsArxivs ==
  ASSUME RecordsTyped, ArxivNamesPaper, NEW c \in Candidates, Take(c)
  PROVE  ArxivNamesPaper'
<1>. USE DEF RecordsTyped
<1>1. c \in Record
  BY RecordsAssumption
<1>2. CASE Matches(merged, c) = {}
  <2>1. merged' = Append(merged, c) /\ members' = Append(members, {c})
    BY <1>2 DEF Take, TakeIn
  <2>. QED BY <1>1, <2>1 DEF ArxivNamesPaper
<1>3. CASE Matches(merged, c) # {}
  <2>. DEFINE h == Home(merged, c)
  <2>1. h \in DOMAIN merged /\ SameIdentity(merged[h], c)
    BY <1>3, HomeMatches
  <2>2. /\ merged' = [merged EXCEPT ![h] = MergeMetadata(@, c)]
        /\ members' = [members EXCEPT ![h] = @ \cup {c}]
    BY <1>3 DEF Take, TakeIn
  <2>. HIDE DEF h
  <2>3. merged[h] \in Record
    BY <2>1
  <2>. SUFFICES ASSUME NEW i \in DOMAIN merged, NEW d \in members'[i], d.doi = None, d.arxiv # None
                PROVE  Normal(merged'[i].arxiv) = Normal(d.arxiv)
    BY <2>1, <2>2 DEF ArxivNamesPaper
  <2>4. CASE i # h
    BY <2>2, <2>4 DEF ArxivNamesPaper
  <2>5. CASE i = h
    <3>1. merged'[i] = MergeMetadata(merged[h], c) /\ members'[i] = members[h] \cup {c}
      BY <2>1, <2>2, <2>5
    <3>2. CASE d \in members[h]
      <4>1. Normal(merged[h].arxiv) = Normal(d.arxiv)
        BY <2>1, <3>2 DEF ArxivNamesPaper
      <4>2. d \in Record
        BY <2>1, <3>2, RecordsAssumption
      <4>3. Normal(merged[h].arxiv) # None
        BY <4>1, <4>2, NamedArxivIsNormal
      <4>4. merged[h].arxiv # None
        BY <4>3 DEF Normal
      <4>. QED BY <1>1, <2>3, <3>1, <4>1, <4>4, MergeKeepsArxiv
    <3>3. CASE d = c
      <4>1. CASE merged[h].arxiv = None
        BY <1>1, <2>3, <3>1, <3>3, <4>1, MergeKeepsArxiv
      <4>2. CASE merged[h].arxiv # None
        <5>1. Normal(merged[h].arxiv) # None /\ Normal(c.arxiv) # None
          BY <1>1, <2>3, <3>3, <4>2, NamedArxivIsNormal
        <5>2. Normal(merged[h].arxiv) = Normal(c.arxiv)
          BY <2>1, <3>3, <5>1, MatchedArxivs
        <5>. QED BY <1>1, <2>3, <3>1, <3>3, <4>2, <5>2, MergeKeepsArxiv
      <4>. QED BY <4>1, <4>2
    <3>. QED BY <3>1, <3>2, <3>3
  <2>. QED BY <2>4, <2>5
<1>. QED BY <1>2, <1>3

\* A paper bears the arXiv id of each record without a DOI it took in: records
\* with other arXiv ids are never merged with it by their titles, whatever came
\* in between (resolve_identity).
THEOREM ArxivIdsStayApart == ResolveSpec => []ArxivNamesPaper
<1>1. ResolveInit => ArxivNamesPaper
  BY DEF ResolveInit, ArxivNamesPaper
<1>2. ResolveInv /\ ArxivNamesPaper /\ [ResolveNext]_resolveVars => ArxivNamesPaper'
  <2>. SUFFICES ASSUME ResolveInv, ArxivNamesPaper, [ResolveNext]_resolveVars PROVE ArxivNamesPaper'
    OBVIOUS
  <2>1. CASE ResolveNext
    BY <2>1, TakeKeepsArxivs DEF ResolveNext, ResolveInv
  <2>2. CASE UNCHANGED resolveVars
    BY <2>2 DEF resolveVars, ArxivNamesPaper
  <2>. QED BY <2>1, <2>2
<1>. QED BY <1>1, <1>2, ResolveInvHolds, PTL DEF ResolveSpec
=============================================================================
