------------------------------ MODULE Answering ------------------------------
(***************************************************************************)
(* The two requests that use a traversal.  "ask" (the command and the      *)
(* tool) synthesizes an answer whose statements cite selected nodes and    *)
(* resolves the citations; "link" (link_evidence) classifies the selected  *)
(* nodes for one claim and saves its evidence.  Both go on with node ids   *)
(* that were read before the model was asked, while the index command may  *)
(* replace trees and another process may link the same claim.              *)
(***************************************************************************)
EXTENDS Traversal

CONSTANTS
  Paged,      \* nodes whose row has a real page range
  Identified, \* papers with a DOI or an arXiv id
  LinkLimit   \* the configured traversal_max_nodes, which linking uses

ASSUME RequestAssumption ==
  Paged \subseteq Nodes /\ Identified \subseteq Papers /\ LinkLimit \in Limits

VARIABLES
  purpose,   \* "ask" or "link"
  stage,     \* "start", "cite", "classify", "save", "write", "end"
  attempts,  \* of synthesize
  cited,     \* the nodes the accepted statements cite
  outcome,   \* "none", "answered", "insufficient", "failed", "nothing", "linked"
  offered,   \* the nodes put before the model to classify
  links,     \* the links it gave, with a rationale found in the text
  existing,  \* rows of the claim save_links has read
  evidence,  \* claim_evidence of the claim
  meanwhile  \* when another process linked the claim: "no", "before", "after"

requestVars == <<purpose, stage, attempts, cited, outcome, offered, links, existing>>
vars == <<traversalVars, requestVars, evidence, meanwhile>>

Stances == {"supports", "refutes"}
Links   == [node : Nodes, stance : Stances]
Rows    == [by : {"self", "other"}, node : Nodes, stance : Stances]

selection == IF traces = <<>> THEN <<>> ELSE traces[1].selected_node_ids
citable   == {n \in Range(selection) : n \in Paged}

Init ==
  /\ TraversalInit
  /\ purpose \in {"ask", "link"}
  /\ purpose = "link" => limit = LinkLimit
  /\ stage = "start"
  /\ attempts = 0
  /\ cited = {}
  /\ outcome = "none"
  /\ offered = {}
  /\ links = {}
  /\ existing = {}
  /\ evidence = {}
  /\ meanwhile = "no"

TypeOK ==
  /\ tree \subseteq Nodes /\ builds \in [Papers -> Nat]
  /\ pc \in {"shortlist", "load", "loop", "judge", "finish", "done", "failed"}
  /\ limit \in Limits /\ used \in Nat /\ enough \in BOOLEAN
  /\ candidates \in Seq(Papers) /\ Len(candidates) <= ShortlistLimit
  /\ loaded \in Seq(Nodes) /\ frontier \in Seq(Nodes) /\ batch \in Seq(Nodes)
  /\ queued \subseteq Range(loaded)
  /\ purpose \in {"ask", "link"}
  /\ stage \in {"start", "cite", "classify", "save", "write", "end"}
  /\ attempts \in 0..2 /\ cited \subseteq Nodes
  /\ outcome \in {"none", "answered", "insufficient", "failed", "nothing", "linked"}
  /\ offered \subseteq Nodes /\ links \subseteq Links
  /\ existing \subseteq Rows /\ evidence \subseteq Rows
  /\ meanwhile \in {"no", "before", "after"}

-----------------------------------------------------------------------------
(* Steps of both requests.                                                 *)

Traverse ==
  /\ TraversalStep
  /\ UNCHANGED <<requestVars, evidence, meanwhile>>

End(result) == stage' = "end" /\ outcome' = result

\* An exception of the traversal leaves through the caller.
TraversalRaised ==
  /\ stage = "start" /\ pc = "failed"
  /\ End("failed")
  /\ UNCHANGED <<traversalVars, purpose, attempts, cited, offered, links, existing,
                 evidence, meanwhile>>

\* So does one of a model's call, or an answer link_evidence refuses.
CallRaises ==
  /\ \/ stage = "start" /\ pc = "done" /\ purpose = "ask" /\ Cardinality(citable) >= 2
     \/ stage = "classify"
  /\ End("failed")
  /\ UNCHANGED <<traversalVars, purpose, attempts, cited, offered, links, existing,
                 evidence, meanwhile>>

-----------------------------------------------------------------------------
(* synthesize.                                                             *)

\* Too few nodes that could be cited.
RefuseThin ==
  /\ purpose = "ask" /\ stage = "start" /\ pc = "done"
  /\ Cardinality(citable) < 2
  /\ End("insufficient")
  /\ UNCHANGED <<traversalVars, purpose, attempts, cited, offered, links, existing,
                 evidence, meanwhile>>

\* Mutant: anything that was opened may be cited.
AnyOpenedCited == (SUBSET Range(ids(opened))) \ {{}}

\* What the statements of an answer may cite: the nodes supplied.
AcceptedCitations == (SUBSET citable) \ {{}}

LastAttempt(n) == n = 2

\* One attempt: statements that cite supplied nodes only, or a refusal, which
\* is repeated once.
Synthesize ==
  /\ purpose = "ask" /\ stage = "start" /\ pc = "done"
  /\ Cardinality(citable) >= 2
  /\ attempts' = attempts + 1
  /\ \/ /\ cited' \in AcceptedCitations
        /\ stage' = "cite"
        /\ UNCHANGED outcome
     \/ /\ IF LastAttempt(attempts') THEN End("insufficient") ELSE UNCHANGED <<stage, outcome>>
        /\ UNCHANGED cited
  /\ UNCHANGED <<traversalVars, purpose, offered, links, existing, evidence, meanwhile>>

\* render_citation of every cited node: all of them resolve, or none is shown.
Cite ==
  /\ stage = "cite"
  /\ End(IF \A n \in cited : PaperOf[n] \in Identified THEN "answered" ELSE "insufficient")
  /\ UNCHANGED <<traversalVars, purpose, attempts, cited, offered, links, existing,
                 evidence, meanwhile>>

-----------------------------------------------------------------------------
(* link_evidence.                                                          *)

\* load_candidate_nodes: what is left of the selection.
LoadCandidates ==
  /\ purpose = "link" /\ stage = "start" /\ pc = "done"
  /\ offered' = Range(selection) \cap tree
  /\ IF offered' = {} THEN End("nothing") ELSE stage' = "classify" /\ UNCHANGED outcome
  /\ UNCHANGED <<traversalVars, purpose, attempts, cited, links, existing, evidence, meanwhile>>

\* Every candidate gets one stance; a rationale that is not in its text
\* loses the link.
Classify ==
  /\ stage = "classify"
  /\ \E verbatim \in SUBSET offered : \E stanceOf \in [verbatim -> Stances] :
       links' = {[node |-> n, stance |-> stanceOf[n]] : n \in verbatim}
  /\ stage' = "save"
  /\ UNCHANGED <<traversalVars, purpose, attempts, cited, outcome, offered, existing,
                 evidence, meanwhile>>

\* save_links: its first statement.
ReadExisting ==
  /\ stage = "save"
  /\ existing' = evidence
  /\ stage' = "write"
  /\ UNCHANGED <<traversalVars, purpose, attempts, cited, outcome, offered, links,
                 evidence, meanwhile>>

LinkedNodes(some) == {x.node : x \in some}

\* Mutant: rows of nodes no longer linked are left.
NothingStale(rows) == {}

StaleRows(rows) == {r \in rows : r.node \notin LinkedNodes(links)}

\* Its other statements, and its commit: links of nodes that were read become
\* updates, the others inserts, which need their node.
SaveLinks ==
  /\ stage = "write"
  /\ LET added   == {l \in links : l.node \notin LinkedNodes(existing)}
         kept    == evidence \ StaleRows(existing)
         updated == {[x[1] EXCEPT !.stance = x[2].stance] : x \in
                       {y \in (kept \cap existing) \X links : y[1].node = y[2].node}}
     IN IF LinkedNodes(added) \subseteq tree
        THEN /\ evidence' =
                  {r \in kept : r \notin existing \/ r.node \notin LinkedNodes(links)}
                  \cup updated
                  \cup {[by |-> "self", node |-> l.node, stance |-> l.stance] : l \in added}
             /\ End("linked")
        ELSE /\ End("failed")
             /\ UNCHANGED evidence
  /\ UNCHANGED <<traversalVars, purpose, attempts, cited, offered, links, existing, meanwhile>>

-----------------------------------------------------------------------------
(* Other processes.                                                        *)

\* evidence of nodes that go is deleted with them.
Indexing ==
  /\ \E p \in Papers : Rebuild(p) \/ DropTree(p)
  /\ evidence' = {r \in evidence : r.node \in tree'}
  /\ UNCHANGED <<walkVars, requestVars, meanwhile>>

\* Another run of link_evidence for the claim commits one row.
LinkElsewhere ==
  /\ purpose = "link" /\ meanwhile = "no" /\ stage # "end"
  /\ \E n \in tree, s \in Stances :
       evidence' = evidence \cup {[by |-> "other", node |-> n, stance |-> s]}
  /\ meanwhile' = IF stage = "write" THEN "after" ELSE "before"
  /\ UNCHANGED <<traversalVars, requestVars>>

RequestStep ==
  \/ Traverse \/ TraversalRaised \/ CallRaises
  \/ RefuseThin \/ Synthesize \/ Cite
  \/ LoadCandidates \/ Classify \/ ReadExisting \/ SaveLinks

Next == RequestStep \/ Indexing \/ LinkElsewhere

Spec == Init /\ [][Next]_vars /\ WF_vars(RequestStep)

-----------------------------------------------------------------------------
(* Properties.                                                             *)

\* An answer that is shown cites at least one node, and each node it cites
\* was opened by its traversal, selected there, has pages and belongs to a
\* paper a reader can open; it is never given on fewer than two such
\* supporting nodes, whatever the model returned in two attempts.
AnswersAreGrounded ==
  outcome = "answered" =>
    /\ cited # {}
    /\ \A n \in cited :
         /\ \E o \in Range(opened) : o.node = n /\ o.selected
         /\ n \in Paged /\ PaperOf[n] \in Identified
    /\ Cardinality({o.node : o \in {x \in Range(opened) : x.selected}} \cap Paged) >= 2

\* Once a claim is linked, its evidence is what this traversal selected and
\* this model call judged: one row for each link whose node has not gone
\* since, with the stance given, and nothing of an earlier link; unless
\* another process linked it between the read and the writes of the save.
EvidenceIsLinked ==
  outcome = "linked" /\ meanwhile # "after" =>
    /\ LinkedNodes(evidence) = LinkedNodes(links) \cap tree
    /\ \A r, q \in evidence : r.node = q.node => r = q
    /\ \A r \in evidence : [node |-> r.node, stance |-> r.stance] \in links
    /\ LinkedNodes(links) \subseteq Range(traces[1].selected_node_ids)

\* Every request ends, however the model answers and whatever is rebuilt
\* meanwhile: the walk is bounded by its budget and the trees.
RequestEnds == <>(stage = "end")
=============================================================================
