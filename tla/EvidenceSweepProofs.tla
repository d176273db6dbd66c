------------------------ MODULE EvidenceSweepProofs ------------------------
(***************************************************************************)
(* Proofs about subscriptions and the evidence sweep, for every set of     *)
(* subscribers, scopes, claims and papers, whatever ingest and the stages  *)
(* do: a target has one active subscription unless subscribers raced, and  *)
(* a sweep that ended has tried every scope it listed.                     *)
(***************************************************************************)
EXTENDS EvidenceSweep, FiniteSetTheorems, SequenceTheorems, WellFoundedInduction, TLAPS

Targets == Scopes \cup Claims

Subscription == [target : Targets, active : BOOLEAN]

\* The rows, and what each subscriber found free.
SubscriptionsTypeOK ==
  /\ subscription \in Seq(Subscription)
  /\ pending \in [Subscribers -> Targets \cup {Nothing}]

\* As long as nobody raced, one subscriber is at work at most, and what it
\* found free is still free.
FoundIsFree ==
  ~raced =>
    /\ \A u, v \in Subscribers : pending[u] # Nothing /\ pending[v] # Nothing => u = v
    /\ \A u \in Subscribers, i \in DOMAIN subscription :
         pending[u] # Nothing /\ subscription[i].active => subscription[i].target # pending[u]

SubscriptionsInv == SubscriptionsTypeOK /\ FoundIsFree /\ OneActivePerTarget

-----------------------------------------------------------------------------
(* Subscriptions.                                                          *)

LEMMA NothingIsNoTarget == Nothing \notin Targets
BY NamesAssumption DEF Targets

LEMMA ResolveIsTarget ==
  ASSUME NEW target \in Scopes \cup Claims
  PROVE  Resolve(target) \in Targets
BY NamesAssumption DEF Resolve, Targets

LEMMA InitSubscriptions == Init => SubscriptionsInv
BY DEF Init, SubscriptionsInv, SubscriptionsTypeOK, FoundIsFree, OneActivePerTarget

LEMMA FindFreeInv ==
  ASSUME SubscriptionsInv, NEW u \in Subscribers, FindFree(u)
  PROVE  SubscriptionsInv'
<1>. USE DEF SubscriptionsInv
<1>1. PICK target \in Scopes \cup Claims :
        Active(target) = {} /\ pending' = [pending EXCEPT ![u] = Resolve(target)]
  BY DEF FindFree
<1>2. /\ subscription' = subscription /\ Resolve(target) \in Targets
      /\ raced' = (raced \/ \E v \in Subscribers \ {u} : pending[v] # Nothing)
  BY ResolveIsTarget DEF FindFree
<1>3. SubscriptionsTypeOK'
  BY <1>1, <1>2 DEF SubscriptionsTypeOK
<1>4. \A v \in Subscribers : pending'[v] = IF v = u THEN Resolve(target) ELSE pending[v]
  BY <1>1 DEF SubscriptionsTypeOK
<1>5. \A i \in DOMAIN subscription :
        subscription[i].active => subscription[i].target # Resolve(target)
  BY <1>1 DEF Active
<1>6. FoundIsFree'
  BY <1>2, <1>4, <1>5 DEF FoundIsFree
<1>7. OneActivePerTarget'
  BY <1>2 DEF OneActivePerTarget
<1>. QED BY <1>3, <1>6, <1>7

LEMMA AddSubscriptionInv ==
  ASSUME SubscriptionsInv, NEW u \in Subscribers, AddSubscription(u)
  PROVE  SubscriptionsInv'
<1>. USE DEF SubscriptionsInv
<1>. DEFINE row == [target |-> pending[u], active |-> TRUE]
<1>1. /\ pending[u] # Nothing /\ raced' = raced
      /\ subscription' = Append(subscription, row)
      /\ pending' = [pending EXCEPT ![u] = Nothing]
  BY DEF AddSubscription
<1>2. row \in Subscription
  BY <1>1 DEF SubscriptionsTypeOK, Subscription
<1>3. SubscriptionsTypeOK'
  BY <1>1, <1>2 DEF SubscriptionsTypeOK
<1>4. \A v \in Subscribers : pending'[v] = IF v = u THEN Nothing ELSE pending[v]
  BY <1>1 DEF SubscriptionsTypeOK
<1>5. /\ DOMAIN subscription' = DOMAIN subscription \cup {Len(subscription) + 1}
      /\ subscription'[Len(subscription) + 1] = row
      /\ \A i \in DOMAIN subscription : subscription'[i] = subscription[i]
  BY <1>1, <1>2 DEF SubscriptionsTypeOK
<1>. HIDE DEF row
<1>6. row.target = pending[u]
  BY DEF row
<1>7. FoundIsFree'
  BY <1>1, <1>4 DEF FoundIsFree
<1>8. OneActivePerTarget'
  BY <1>1, <1>5, <1>6 DEF OneActivePerTarget, FoundIsFree
<1>. QED BY <1>3, <1>7, <1>8

LEMMA Deactivated ==
  ASSUME NEW r \in Subscription
  PROVE  [r EXCEPT !.active = FALSE] \in Subscription
BY DEF Subscription

LEMMA UnsubscribeInv ==
  ASSUME SubscriptionsInv, NEW i \in DOMAIN subscription, Unsubscribe(i)
  PROVE  SubscriptionsInv'
<1>. USE DEF SubscriptionsInv
<1>1. /\ pending' = pending /\ raced' = raced
      /\ subscription' = [subscription EXCEPT ![i].active = FALSE]
  BY DEF Unsubscribe
<1>. DEFINE row == [subscription[i] EXCEPT !.active = FALSE]
<1>2. SubscriptionsTypeOK'
  <2>1. subscription[i] \in Subscription
    BY DEF SubscriptionsTypeOK
  <2>2. row \in Subscription
    BY <2>1, Deactivated
  <2>3. subscription' = [subscription EXCEPT ![i] = row]
    BY <1>1
  <2>. HIDE DEF row
  <2>4. subscription' \in Seq(Subscription)
    BY <2>2, <2>3, ExceptSeq DEF SubscriptionsTypeOK
  <2>. QED BY <1>1, <2>4 DEF SubscriptionsTypeOK
<1>3. /\ DOMAIN subscription' = DOMAIN subscription
      /\ \A j \in DOMAIN subscription :
           /\ subscription'[j].target = subscription[j].target
           /\ subscription'[j].active => subscription[j].active
  BY <1>1 DEF SubscriptionsTypeOK
<1>4. FoundIsFree'
  BY <1>1, <1>3 DEF FoundIsFree
<1>5. OneActivePerTarget'
  BY <1>1, <1>3 DEF OneActivePerTarget
<1>. QED BY <1>2, <1>4, <1>5

LEMMA SubscriptionsUnchanged ==
  ASSUME SubscriptionsInv, UNCHANGED subscriptionVars
  PROVE  SubscriptionsInv'
BY DEF SubscriptionsInv, SubscriptionsTypeOK, FoundIsFree, OneActivePerTarget, subscriptionVars

LEMMA SweepLeavesSubscriptions ==
  SweepStep \/ Kill \/ UNCHANGED vars => UNCHANGED subscriptionVars
BY DEF SweepStep, StartSweep, CountBefore, Ingest, IngestRaises, CountAfter, Stage, StageLeaves,
       StageRaises, StageDone, EndSweep, Kill, vars

LEMMA SubscriptionsInvStep ==
  ASSUME SubscriptionsInv, [Next]_vars
  PROVE  SubscriptionsInv'
<1>1. CASE \E u \in Subscribers : FindFree(u) \/ AddSubscription(u)
  BY <1>1, FindFreeInv, AddSubscriptionInv
<1>2. CASE \E i \in DOMAIN subscription : Unsubscribe(i)
  BY <1>2, UnsubscribeInv
<1>3. CASE SweepStep \/ Kill \/ UNCHANGED vars
  BY <1>3, SweepLeavesSubscriptions, SubscriptionsUnchanged
<1>. QED BY <1>1, <1>2, <1>3 DEF Next

\* A target has one active subscription at most, unless two subscribe
\* commands ran between each other's test and insert.
THEOREM SubscriptionsStayUnique == Spec => []OneActivePerTarget
<1>1. Init => SubscriptionsInv
  BY InitSubscriptions
<1>2. SubscriptionsInv /\ [Next]_vars => SubscriptionsInv'
  BY SubscriptionsInvStep
<1>3. SubscriptionsInv => OneActivePerTarget
  BY DEF SubscriptionsInv
<1>. QED BY <1>1, <1>2, <1>3, PTL DEF Spec

-----------------------------------------------------------------------------
(* The sweep.                                                              *)

\* The scopes tried and those still to be swept are the scopes listed, each
\* has one error at most, and a stage has a scope to work on.
RunInv ==
  /\ DOMAIN run = DOMAIN Idle
  /\ run.todo \in SUBSET Nat /\ IsFiniteSet(run.todo)
  /\ run.attempted \in Nat /\ run.errors \in 0..run.attempted
  /\ Working => run.listed = run.attempted + Cardinality(run.todo)
  /\ Working /\ run.at # "count" => run.todo # {}
  /\ EveryScopeIsAttempted

\* The subscription at hand is one of those still to be swept.
LEMMA CurrentIsMember ==
  ASSUME RunInv, run.todo # {}
  PROVE  Current \in run.todo
<1>1. PICK i \in run.todo : \A j \in run.todo : ~(<<j, i>> \in OpToRel(<, Nat))
  BY NatLessThanWellFounded, WFMin DEF RunInv
<1>2. \A j \in run.todo : ~(j < i)
  BY <1>1, Zenon DEF OpToRel, RunInv
<1>3. \A j \in run.todo : i <= j
  BY <1>2 DEF RunInv
<1>. QED BY <1>3 DEF Current

\* A scope that is through, with or without an error, has been tried.
LEMMA LeaveInv ==
  ASSUME RunInv, Working, run.todo # {}, NEW added, NEW errors \in {0, 1},
         run' = Leave(added, errors)
  PROVE  RunInv'
<1>1. IsFiniteSet(run.todo \ {Current})
      /\ Cardinality(run.todo \ {Current}) = Cardinality(run.todo) - 1
      /\ Cardinality(run.todo) \in Nat
  BY CurrentIsMember, FS_RemoveElement, FS_CardinalityType DEF RunInv
<1>2. /\ DOMAIN run' = DOMAIN run /\ run'.at = "count"
      /\ run'.todo = run.todo \ {Current} /\ run'.listed = run.listed
      /\ run'.attempted = run.attempted + 1 /\ run'.errors = run.errors + errors
  BY DEF Leave, RunInv, Idle
<1>. QED BY <1>1, <1>2 DEF RunInv, Working, EveryScopeIsAttempted

\* A step that only goes from stage to stage.
LEMMA GoOnInv ==
  ASSUME RunInv, Working, run.todo # {}, DOMAIN run' = DOMAIN run, run'.at # "ended",
         run'.todo = run.todo, run'.listed = run.listed,
         run'.attempted = run.attempted, run'.errors = run.errors
  PROVE  RunInv'
BY DEF RunInv, Working, EveryScopeIsAttempted

LEMMA StartSweepInv ==
  ASSUME SubscriptionsInv, RunInv, StartSweep
  PROVE  RunInv'
<1>. DEFINE topics == {i \in DOMAIN subscription :
                        subscription[i].active /\ subscription[i].target \in Scopes}
<1>1. run' = [Idle EXCEPT !.at = "count", !.todo = topics, !.listed = Cardinality(topics)]
  BY DEF StartSweep
<1>2. topics \subseteq Nat /\ IsFiniteSet(topics)
  BY FS_Interval, FS_Subset, DOMAIN subscription = 1..Len(subscription)
     DEF SubscriptionsInv, SubscriptionsTypeOK
<1>3. Cardinality(topics) \in Nat
  BY <1>2, FS_CardinalityType
<1>. HIDE DEF topics
<1>. QED BY <1>1, <1>2, <1>3 DEF RunInv, Working, EveryScopeIsAttempted, Idle

LEMMA CountBeforeInv ==
  ASSUME RunInv, CountBefore
  PROVE  RunInv'
<1>1. Working /\ run.todo # {}
  BY DEF CountBefore, Working
<1>2. CASE run' = ScopeDone(FALSE)
  BY <1>1, <1>2, LeaveInv DEF ScopeDone
<1>3. CASE run' = [run EXCEPT !.at = "ingest", !.before = _paper_count(Scope)]
  BY <1>1, <1>3, GoOnInv DEF RunInv, Idle
<1>. QED BY <1>2, <1>3 DEF CountBefore

LEMMA IngestInv ==
  ASSUME RunInv, Ingest
  PROVE  RunInv'
<1>1. Working /\ run.todo # {}
  BY DEF Ingest, Working, RunInv
<1>2. run' = [run EXCEPT !.at = "recount"]
  BY DEF Ingest
<1>. QED BY <1>1, <1>2, GoOnInv DEF RunInv, Idle

LEMMA IngestRaisesInv ==
  ASSUME RunInv, IngestRaises
  PROVE  RunInv'
<1>1. Working /\ run.todo # {} /\ run' = ScopeFailed
  BY DEF IngestRaises, Working, RunInv
<1>. QED BY <1>1, LeaveInv DEF ScopeFailed

LEMMA CountAfterInv ==
  ASSUME RunInv, CountAfter
  PROVE  RunInv'
<1>1. Working /\ run.todo # {}
  BY DEF CountAfter, Working, RunInv
<1>2. PICK added : run' = [run EXCEPT !.at = "index", !.before = 0, !.newly_added = added]
  BY DEF CountAfter, ToStages
<1>. QED BY <1>1, <1>2, GoOnInv DEF RunInv, Idle

LEMMA StageNames ==
  /\ DOMAIN Stages = 1..4 /\ Len(Stages) = 4
  /\ \A k \in 1..4 : Stages[k] \in {"index", "extract", "link", "score"}
<1>1. DOMAIN Stages = 1..4 /\ Len(Stages) = 4
  BY DEF Stages
<1>2. Stages[1] = "index" /\ Stages[2] = "extract" /\ Stages[3] = "link" /\ Stages[4] = "score"
  BY DEF Stages
<1>3. \A k \in 1..4 : k = 1 \/ k = 2 \/ k = 3 \/ k = 4
  OBVIOUS
<1>. QED BY <1>1, <1>2, <1>3

\* The run has a scope to work on when it is at a stage.
LEMMA AtStage ==
  ASSUME RunInv, NEW k \in DOMAIN Stages, run.at = Stages[k]
  PROVE  Working /\ run.todo # {}
BY StageNames DEF Working, RunInv

LEMMA StageDoneInv ==
  ASSUME RunInv, NEW k \in DOMAIN Stages, run.at = Stages[k], NEW done, StageDone(k, done)
  PROVE  RunInv'
<1>1. Working /\ run.todo # {}
  BY AtStage
<1>2. CASE run' = ScopeDone(run.newly_added)
  BY <1>1, <1>2, LeaveInv DEF ScopeDone
<1>3. CASE k # Len(Stages) /\ run' = [run EXCEPT !.at = Stages[k + 1]]
  <2>1. Stages[k + 1] # "ended"
    BY <1>3, StageNames
  <2>. QED BY <1>1, <1>3, <2>1, GoOnInv DEF RunInv, Idle
<1>. QED BY <1>2, <1>3 DEF StageDone

LEMMA StageInv ==
  ASSUME RunInv, NEW k \in DOMAIN Stages, Stage(k) \/ StageLeaves(k)
  PROVE  RunInv'
BY StageDoneInv DEF Stage, StageLeaves

LEMMA StageRaisesInv ==
  ASSUME RunInv, NEW k \in DOMAIN Stages, StageRaises(k)
  PROVE  RunInv'
<1>1. Working /\ run.todo # {} /\ run' = ScopeFailed
  BY AtStage DEF StageRaises
<1>. QED BY <1>1, LeaveInv DEF ScopeFailed

\* The one step after which EveryScopeIsAttempted says something.
LEMMA EndSweepInv ==
  ASSUME RunInv, EndSweep
  PROVE  RunInv'
<1>1. /\ Working /\ run.todo = {}
      /\ run' = [run EXCEPT !.at = "ended", !.state = FinalState(run)]
  BY DEF EndSweep, Working
<1>2. run.listed = run.attempted
  BY <1>1, FS_EmptySet DEF RunInv
<1>3. /\ DOMAIN run' = DOMAIN run /\ run'.at = "ended" /\ run'.state = FinalState(run)
      /\ run'.todo = run.todo /\ run'.listed = run.listed /\ run'.items = run.items
      /\ run'.attempted = run.attempted /\ run'.errors = run.errors
  BY <1>1 DEF RunInv, Idle
<1>4. FinalState(run) = "failed" => run.errors = run.listed /\ ~run.items
  BY DEF FinalState
<1>5. FinalState(run) = "completed" => run.errors = 0
  BY <1>2 DEF FinalState, RunInv
<1>. QED BY <1>2, <1>3, <1>4, <1>5 DEF RunInv, Working, EveryScopeIsAttempted

LEMMA IdleInv ==
  ASSUME run = Idle
  PROVE  RunInv
BY FS_EmptySet DEF RunInv, Working, EveryScopeIsAttempted, Idle

LEMMA IdleInvPrime ==
  ASSUME run' = Idle
  PROVE  RunInv'
BY FS_EmptySet DEF RunInv, Working, EveryScopeIsAttempted, Idle

LEMMA RunUnchanged ==
  ASSUME RunInv, run' = run
  PROVE  RunInv'
BY DEF RunInv, Working, EveryScopeIsAttempted

\* A sweep that ended tried every scope it listed, whatever failed before,
\* and its state is the truth about them.
THEOREM EveryListedScopeIsAttempted == Spec => []EveryScopeIsAttempted
<1>1. Init => SubscriptionsInv /\ RunInv
  BY InitSubscriptions, IdleInv DEF Init
<1>2. SubscriptionsInv /\ RunInv /\ [Next]_vars => (SubscriptionsInv /\ RunInv)'
  <2>. SUFFICES ASSUME SubscriptionsInv, RunInv, [Next]_vars PROVE RunInv'
    BY SubscriptionsInvStep
  <2>1. CASE SweepStep
    BY <2>1, StartSweepInv, CountBeforeInv, IngestInv, IngestRaisesInv, CountAfterInv, StageInv,
       StageRaisesInv, EndSweepInv DEF SweepStep
  <2>2. CASE Kill
    BY <2>2, IdleInvPrime DEF Kill
  <2>3. CASE run' = run
    BY <2>3, RunUnchanged
  <2>4. CASE UNCHANGED sweepVars
    BY <2>3, <2>4 DEF sweepVars
  <2>. QED BY <2>1, <2>2, <2>4 DEF Next, FindFree, AddSubscription, Unsubscribe, vars
<1>3. RunInv => EveryScopeIsAttempted
  BY DEF RunInv
<1>. QED BY <1>1, <1>2, <1>3, PTL DEF Spec
=============================================================================
