------------------------ MODULE ActionPipelineProofs ------------------------
(***************************************************************************)
(* Proofs about ActionPipeline: types, the inductive invariant PipelineInv *)
(* and what follows from it; the admission policy of the guards; and on    *)
(* top of these what the executor was asked and answered, what the callers *)
(* are told of it, and what the audit trail says of it, for any number of  *)
(* calls, proposals and targets and however the calls interleave.          *)
(***************************************************************************)
EXTENDS ActionPipeline, FiniteSetTheorems, TLAPS

\* The verdict of the validator is one of its codes.
LEMMA ValidateProposalType ==
  \A p, killed, open, allowed :
    ValidateProposal(p, killed, open, allowed) \in ValidationCodes
  BY DEF ValidateProposal, ValidationCodes

\* A proposal is accepted only past every check.
LEMMA AcceptedMeans ==
  \A p, killed, open, allowed :
    ValidateProposal(p, killed, open, allowed) = "ok"
      => /\ ~ killed /\ ~ open /\ allowed
         /\ p.action \in DOMAIN Allowlist
         /\ p.targets # << >>
         /\ ValidArguments(Allowlist[p.action], p.params)
  BY DEF ValidateProposal

\* execute() hands validate_proposal its whole parameter mapping, the list of
\* targets included; no declared parameter type admits a list, so no request
\* of the abstract interface is ever accepted.
THEOREM ExecuteNeverAccepted ==
  \A q, killed, open, allowed :
    ValidateProposal(ProposalOf(q), killed, open, allowed) # "ok"
<1> SUFFICES ASSUME NEW q, NEW killed, NEW open, NEW allowed,
                    ValidateProposal(ProposalOf(q), killed, open, allowed) = "ok"
             PROVE  FALSE
    OBVIOUS
<1> DEFINE p == ProposalOf(q)
           parameters == Allowlist[p.action].parameters
<1>1. p.targets = TargetsOf(q) /\ p.params = q.params
    BY DEF ProposalOf
<1>2. p.action \in DOMAIN Allowlist /\ p.targets # << >>
      /\ ValidArguments(Allowlist[p.action], p.params)
    BY AcceptedMeans
<1>3. "targets" \in DOMAIN q.params /\ q.params["targets"] = "list"
    BY <1>1, <1>2 DEF TargetsOf
<1>4. "targets" \in DOMAIN parameters
      /\ MatchesType(parameters["targets"], q.params["targets"])
    BY <1>1, <1>2, <1>3 DEF ValidArguments
<1>5. parameters["targets"].type \in {"string", "boolean", "integer", "number"}
    BY <1>2, <1>4, AllowlistAssumption
<1>6. "list" \notin Matching[parameters["targets"].type]
    BY <1>5 DEF Matching
<1> QED
    BY <1>3, <1>4, <1>6 DEF MatchesType

----------------------------------------------------------------------------
(* Types.                                                                   *)

\* Appending an event, or two, keeps the trail a trail.
LEMMA LogType ==
  ASSUME SurfaceTypeOK, NEW id \in Ids, NEW e1 \in Events, NEW e2 \in Events
  PROVE  /\ Log(id, e1) \in [Ids -> Seq(Events)]
         /\ Log2(id, e1, e2) \in [Ids -> Seq(Events)]
<1>1. trail \in [Ids -> Seq(Events)] /\ trail[id] \in Seq(Events)
    BY DEF SurfaceTypeOK
<1>2. Append(trail[id], e1) \in Seq(Events)
    BY <1>1
<1>3. Append(Append(trail[id], e1), e2) \in Seq(Events)
    BY <1>2
<1> QED
    BY <1>1, <1>2, <1>3 DEF Log, Log2

\* The proposal a busy call is at is one of its batch.
LEMMA CurrentType ==
  ASSUME CallTypeOK, Located, NEW c \in Calls, pc[c] \in Busy
  PROVE  at[c] \in DOMAIN batch[c] /\ Current(c) \in Ids
<1>1. batch[c] \in Seq(Ids) /\ at[c] \in Nat \ {0}
    BY DEF CallTypeOK
<1>2. at[c] <= Len(batch[c])
    BY DEF Located
<1>3. at[c] \in DOMAIN batch[c]
    BY <1>1, <1>2
<1> QED
    BY <1>1, <1>3 DEF Current

\* Returning a result keeps the call's bookkeeping well typed.
LEMMA FinishType ==
  ASSUME CallTypeOK, NEW c \in Calls, Current(c) \in Ids,
         NEW state \in ActionStates, Finish(c, state)
  PROVE  CallTypeOK'
<1> DEFINE Results == [id : Ids, state : ActionStates]
           result  == [id |-> Current(c), state |-> state]
<1>a. result \in Results
    OBVIOUS
<1>b. results[c] \in Seq(Results)
    BY DEF CallTypeOK
<1>1. Append(results[c], result) \in Seq(Results)
  <2> HIDE DEF Results, result
  <2> QED BY <1>a, <1>b
<1>2. results' \in [Calls -> Seq([id : Ids, state : ActionStates])]
    BY <1>1 DEF CallTypeOK, Finish, Conclude
<1>3. pc' \in [Calls -> PCs] /\ running' \in Calls \cup {NoCall}
    BY DEF CallTypeOK, Finish, Conclude, PCs, Done
<1>4. at' \in [Calls -> Nat \ {0}]
    BY DEF CallTypeOK, Finish, Conclude
<1>5. outcomes' \in [Calls -> Seq(Statuses)]
    BY DEF CallTypeOK, Finish, Conclude
<1>6. target' \in [Calls -> Nat \ {0}] /\ attempt' \in [Calls -> 1 .. 2]
    BY DEF CallTypeOK, Finish, Conclude
<1>7. batch' \in [Calls -> Seq(Ids)]
    BY DEF CallTypeOK, Finish, Conclude
<1> QED
    BY <1>2, <1>3, <1>4, <1>5, <1>6, <1>7 DEF CallTypeOK

\* The pruned window is a set of stamps.
LEMMA PrunedType == GuardTypeOK => Pruned \subseteq Stamps
  BY DEF GuardTypeOK, Pruned

\* propose() keeps the surface and the guards well typed.
LEMMA SubmitType ==
  ASSUME TypeOK, NEW id \in Ids, NEW p \in Contents, Submit(id, p)
  PROVE  SurfaceTypeOK' /\ GuardTypeOK'
<1> DEFINE code == Verdict(p)
<1>1. code \in ValidationCodes
    BY ValidateProposalType DEF Verdict
<1>2. /\ Event("proposal_created", "-") \in Events
      /\ Event("validation_passed", "-") \in Events
      /\ Event("validation_rejected", code) \in Events
    BY <1>1 DEF Event, Events, EventTypes, Details
<1>3. trail' \in [Ids -> Seq(Events)]
    BY <1>2, LogType DEF TypeOK, Submit, Queue
<1>4. request' \in [Ids -> Contents \cup {NoProposal}]
      /\ verdict' \in [Ids -> ValidationCodes \cup {"-"}]
    BY <1>1 DEF TypeOK, SurfaceTypeOK, Submit, Queue
<1>5. pending' \in Seq(Ids)
    BY DEF TypeOK, SurfaceTypeOK, Submit, Queue
<1>6. GuardTypeOK'
    BY PrunedType DEF TypeOK, GuardTypeOK, Submit, Queue
<1> QED
    BY <1>3, <1>4, <1>5, <1>6 DEF SurfaceTypeOK

\* The events the coroutines log are events.
LEMMA EventFacts ==
  /\ \A type \in EventTypes : Event(type, "-") \in Events
  /\ \A status \in Statuses : Event("target_outcome", status) \in Events
  /\ \A state \in FinalStates : Event("execution_completed", state) \in Events
  BY DEF Event, Events, EventTypes, Details

\* An executor call made by a call is an executor call.
LEMMA ExecutorCallType ==
  ASSUME CallTypeOK, NEW c \in Calls, NEW t \in Nat, NEW a \in Nat, NEW dry \in BOOLEAN
  PROVE  ExecutorCall(c, t, a, dry) \in ExecutorCalls
  BY DEF CallTypeOK, ExecutorCall, ExecutorCalls

\* The positions a call keeps are numbers.
LEMMA CountersType ==
  ASSUME CallTypeOK, NEW c \in Calls
  PROVE  /\ target[c] \in Nat /\ target[c] + 1 \in Nat \ {0} /\ target[c] + 1 \in Nat
         /\ attempt[c] \in Nat /\ attempt[c] + 1 \in Nat /\ 1 \in Nat
<1>1. target[c] \in Nat \ {0} /\ attempt[c] \in 1 .. 2
    BY DEF CallTypeOK
<1> QED
    BY <1>1

\* Type correctness of the step from the first line of process() to its first
\* await.
LEMMA EnterType ==
  ASSUME TypeOK, Located, NEW c \in Calls, Enter(c)
  PROVE  TypeOK'
<1>1. Current(c) \in Ids
    BY CurrentType DEF TypeOK, Enter, IsPlan, Busy
<1>2. GuardTypeOK'
    BY DEF TypeOK, GuardTypeOK, Enter, IsPlan, guardVars
<1>3. request' = request /\ verdict' = verdict /\ pending' = pending
      /\ answered' = answered /\ decisions' = decisions
      /\ started' = started /\ finals' = finals
    BY DEF Enter, IsPlan
<1>4. CASE Killed /\ Blocked(c) /\ issued' = issued
  <2>1. CallTypeOK'
      BY <1>1, <1>4, FinishType DEF TypeOK, Blocked, ActionStates
  <2>2. trail' \in [Ids -> Seq(Events)]
      BY <1>1, <1>4, EventFacts, LogType DEF TypeOK, Blocked, EventTypes
  <2> QED
      BY <1>2, <1>3, <1>4, <2>1, <2>2 DEF TypeOK, SurfaceTypeOK, WorldTypeOK
<1>5. CASE /\ Await(c, "planning")
           /\ Issue(c, target[c], 1, TRUE)
           /\ UNCHANGED << trail, batch, at, target, attempt, outcomes, results >>
  <2>1. CallTypeOK'
      BY <1>5 DEF TypeOK, CallTypeOK, Await, PCs, Waiting
  <2>2. ExecutorCall(c, target[c], 1, TRUE) \in ExecutorCalls
      BY ExecutorCallType, CountersType DEF TypeOK
  <2>3. issued' \subseteq ExecutorCalls
      BY <1>5, <2>2 DEF TypeOK, WorldTypeOK, Issue
  <2> QED
      BY <1>2, <1>3, <1>5, <2>1, <2>3 DEF TypeOK, SurfaceTypeOK, WorldTypeOK
<1>6. CASE /\ Await(c, "gate")
           /\ UNCHANGED << trail, issued, batch, at, target, attempt, outcomes, results >>
  <2>1. CallTypeOK'
      BY <1>6 DEF TypeOK, CallTypeOK, Await, PCs, Waiting
  <2> QED
      BY <1>2, <1>3, <1>6, <2>1 DEF TypeOK, SurfaceTypeOK, WorldTypeOK
<1> QED
    BY <1>4, <1>5, <1>6 DEF Enter, IsPlan

\* Type correctness of the gate's answer.
LEMMA GateType ==
  ASSUME TypeOK, Located, NEW c \in Calls, GateAnswers(c)
  PROVE  TypeOK'
<1> PICK d \in Decisions : \/ GateTimesOut(c, d)
                           \/ HumanRejects(c, d)
                           \/ ApprovedButKilled(c, d)
                           \/ ApprovedAndStarted(c, d)
    BY DEF GateAnswers
<1>1. Decide(c, d)
    BY DEF GateTimesOut, HumanRejects, ApprovedButKilled, ApprovedAndStarted, StartExecution
<1>2. Current(c) \in Ids
    BY <1>1, CurrentType DEF TypeOK, Decide, Busy
<1>3. Execution(c) \in Execs
    BY DEF TypeOK, CallTypeOK, Execution, Execs
<1>4. decisions' \subseteq [exec : Execs, decision : Decisions]
    BY <1>1, <1>3 DEF TypeOK, WorldTypeOK, Decide
<1>5. request' = request /\ verdict' = verdict /\ pending' = pending
      /\ killFlag' = killFlag /\ killFile' = killFile /\ now' = now
      /\ failures' = failures /\ answered' = answered /\ finals' = finals
    BY <1>1 DEF Decide
<1>6. CASE GateTimesOut(c, d)
  <2>1. CallTypeOK'
      BY <1>2, <1>6, FinishType DEF TypeOK, GateTimesOut, ActionStates
  <2>2. trail' \in [Ids -> Seq(Events)]
      BY <1>2, <1>6, EventFacts, LogType DEF TypeOK, GateTimesOut, EventTypes
  <2> QED
      BY <1>4, <1>5, <1>6, <2>1, <2>2
      DEF TypeOK, SurfaceTypeOK, GuardTypeOK, WorldTypeOK, GateTimesOut
<1>7. CASE HumanRejects(c, d)
  <2>1. CallTypeOK'
      BY <1>2, <1>7, FinishType DEF TypeOK, HumanRejects, ActionStates
  <2>2. trail' \in [Ids -> Seq(Events)]
      BY <1>2, <1>7, EventFacts, LogType DEF TypeOK, HumanRejects, EventTypes
  <2> QED
      BY <1>4, <1>5, <1>7, <2>1, <2>2
      DEF TypeOK, SurfaceTypeOK, GuardTypeOK, WorldTypeOK, HumanRejects
<1>8. CASE ApprovedButKilled(c, d)
  <2>1. CallTypeOK'
      BY <1>2, <1>8, FinishType DEF TypeOK, ApprovedButKilled, ActionStates
  <2>2. /\ Event("approval_granted", "-") \in Events
        /\ Event("kill_switch_engaged", "-") \in Events
        /\ Event("action_blocked", "-") \in Events
      BY EventFacts DEF EventTypes
  <2>3. trail' \in [Ids -> Seq(Events)]
      BY <1>2, <1>8, <2>2 DEF TypeOK, SurfaceTypeOK, ApprovedButKilled
  <2> QED
      BY <1>4, <1>5, <1>8, <2>1, <2>3
      DEF TypeOK, SurfaceTypeOK, GuardTypeOK, WorldTypeOK, ApprovedButKilled
<1>9. CASE ApprovedAndStarted(c, d)
  <2>1. CallTypeOK'
      BY <1>9 DEF TypeOK, CallTypeOK, ApprovedAndStarted, StartExecution, Await, PCs, Waiting
  <2>2. trail' \in [Ids -> Seq(Events)]
      BY <1>2, <1>9, EventFacts, LogType DEF TypeOK, ApprovedAndStarted, StartExecution, EventTypes
  <2>3. [exec |-> Execution(c), time |-> now] \in Stamps
      BY <1>3 DEF TypeOK, GuardTypeOK, Stamps
  <2>4. stamps' \subseteq Stamps /\ started' \subseteq Stamps
      BY <1>9, <2>3, PrunedType DEF TypeOK, WorldTypeOK, ApprovedAndStarted, StartExecution
  <2>5. ExecutorCall(c, target[c], attempt[c], FALSE) \in ExecutorCalls
      BY ExecutorCallType, CountersType DEF TypeOK
  <2>6. issued' \subseteq ExecutorCalls
      BY <1>9, <2>5 DEF TypeOK, WorldTypeOK, ApprovedAndStarted, StartExecution, Issue
  <2> QED
      BY <1>4, <1>5, <2>1, <2>2, <2>4, <2>6
      DEF TypeOK, SurfaceTypeOK, GuardTypeOK, WorldTypeOK
<1> QED
    BY <1>6, <1>7, <1>8, <1>9

\* Type correctness of the executor's answer to a live call.
LEMMA ExecutorType ==
  ASSUME TypeOK, Located, NEW c \in Calls, ExecutorAnswers(c)
  PROVE  TypeOK'
<1> PICK answer \in Answers : /\ Answered(c, answer, FALSE)
                              /\ \/ RetryTarget(c, answer)
                                 \/ NextTarget(c, answer)
                                 \/ CompleteExecution(c, answer)
    BY DEF ExecutorAnswers
<1> DEFINE status == StatusOf(answer)
<1>1. Current(c) \in Ids
    BY CurrentType DEF TypeOK, ExecutorAnswers, Busy
<1>2. status \in Statuses
    BY AnswersAssumption DEF StatusOf, Statuses
<1>3. /\ target[c] \in Nat /\ target[c] + 1 \in Nat \ {0} /\ target[c] + 1 \in Nat
      /\ attempt[c] \in Nat /\ attempt[c] + 1 \in Nat /\ 1 \in Nat
    BY CountersType DEF TypeOK
<1>4. answered' \subseteq [asked : ExecutorCalls, answer : Answers]
  <2>1. ExecutorCall(c, target[c], attempt[c], FALSE) \in ExecutorCalls
      BY <1>3, ExecutorCallType DEF TypeOK
  <2>2. [asked |-> ExecutorCall(c, target[c], attempt[c], FALSE), answer |-> answer]
          \in [asked : ExecutorCalls, answer : Answers]
      BY <2>1
  <2> QED
      BY <2>2 DEF TypeOK, WorldTypeOK, Answered
<1>5. request' = request /\ verdict' = verdict /\ pending' = pending
      /\ killFlag' = killFlag /\ killFile' = killFile /\ now' = now
      /\ stamps' = stamps /\ decisions' = decisions /\ started' = started
    BY DEF ExecutorAnswers
<1>6. CASE RetryTarget(c, answer)
  <2>1. attempt[c] + 1 \in 1 .. 2
      BY <1>3, <1>6 DEF RetryTarget, Retries, Attempts
  <2>2. CallTypeOK'
      BY <1>6, <2>1 DEF TypeOK, CallTypeOK, RetryTarget
  <2>3. ExecutorCall(c, target[c], attempt[c] + 1, FALSE) \in ExecutorCalls
      BY <1>3, ExecutorCallType DEF TypeOK
  <2>4. issued' \subseteq ExecutorCalls
      BY <1>6, <2>3 DEF TypeOK, WorldTypeOK, RetryTarget, Issue
  <2> QED
      BY <1>4, <1>5, <1>6, <2>2, <2>4
      DEF TypeOK, SurfaceTypeOK, GuardTypeOK, WorldTypeOK, RetryTarget
<1>7. CASE NextTarget(c, answer)
  <2>1. trail' \in [Ids -> Seq(Events)]
      BY <1>1, <1>2, <1>7, EventFacts, LogType DEF TypeOK, NextTarget, RecordTarget
  <2>2. Append(outcomes[c], status) \in Seq(Statuses)
      BY <1>2 DEF TypeOK, CallTypeOK
  <2>3. outcomes' \in [Calls -> Seq(Statuses)]
      BY <1>7, <2>2 DEF TypeOK, CallTypeOK, NextTarget, RecordTarget
  <2>4. target' \in [Calls -> Nat \ {0}] /\ attempt' \in [Calls -> 1 .. 2]
      BY <1>3, <1>7 DEF TypeOK, CallTypeOK, NextTarget, RecordTarget
  <2>5. CallTypeOK'
      BY <1>7, <2>3, <2>4 DEF TypeOK, CallTypeOK, NextTarget, RecordTarget
  <2>6. ExecutorCall(c, target[c] + 1, 1, FALSE) \in ExecutorCalls
      BY <1>3, ExecutorCallType DEF TypeOK
  <2>7. issued' \subseteq ExecutorCalls
      BY <1>7, <2>6 DEF TypeOK, WorldTypeOK, NextTarget, RecordTarget, Issue
  <2> QED
      BY <1>4, <1>5, <1>7, <2>1, <2>5, <2>7
      DEF TypeOK, SurfaceTypeOK, GuardTypeOK, WorldTypeOK, NextTarget, RecordTarget
<1>8. CASE CompleteExecution(c, answer)
  <2> DEFINE state == FinalState(Append(outcomes[c], status))
  <2>1. state \in FinalStates /\ state \in ActionStates
      BY DEF FinalState, FinalStates, ActionStates
  <2>2. /\ trail' = Log2(Current(c), Event("target_outcome", status),
                                     Event("execution_completed", state))
        /\ failures' = IF state = "executed" THEN 0 ELSE failures + 1
        /\ finals' = Append(finals, state)
        /\ Finish(c, state)
        /\ issued' = issued
      BY <1>8 DEF CompleteExecution, AfterExecution
  <2> HIDE DEF state, status
  <2>3. trail' \in [Ids -> Seq(Events)]
      BY <1>1, <1>2, <2>1, <2>2, EventFacts, LogType DEF TypeOK
  <2>4. CallTypeOK'
      BY <1>1, <2>1, <2>2, FinishType DEF TypeOK
  <2>5. finals' \in Seq(FinalStates) /\ failures' \in Nat
      BY <2>1, <2>2 DEF TypeOK, WorldTypeOK, GuardTypeOK
  <2> QED
      BY <1>4, <1>5, <2>2, <2>3, <2>4, <2>5
      DEF TypeOK, SurfaceTypeOK, GuardTypeOK, WorldTypeOK
<1> QED
    BY <1>6, <1>7, <1>8

\* Type correctness of the executor's answer to a planning call.
LEMMA PlannerType ==
  ASSUME TypeOK, Located, NEW c \in Calls, PlannerAnswers(c)
  PROVE  TypeOK'
<1> PICK answer \in Answers : Answered(c, answer, TRUE)
    BY DEF PlannerAnswers
<1>1. Current(c) \in Ids
    BY CurrentType DEF TypeOK, PlannerAnswers, Busy
<1>2. /\ target[c] \in Nat /\ target[c] + 1 \in Nat \ {0} /\ target[c] + 1 \in Nat
      /\ attempt[c] \in Nat /\ attempt[c] + 1 \in Nat /\ 1 \in Nat
    BY CountersType DEF TypeOK
<1>3. answered' \subseteq [asked : ExecutorCalls, answer : Answers]
  <2>1. ExecutorCall(c, target[c], attempt[c], TRUE) \in ExecutorCalls
      BY <1>2, ExecutorCallType DEF TypeOK
  <2>2. [asked |-> ExecutorCall(c, target[c], attempt[c], TRUE), answer |-> answer]
          \in [asked : ExecutorCalls, answer : Answers]
      BY <2>1
  <2> QED
      BY <2>2 DEF TypeOK, WorldTypeOK, Answered
<1>4. request' = request /\ verdict' = verdict /\ pending' = pending
      /\ decisions' = decisions /\ started' = started /\ finals' = finals
    BY DEF PlannerAnswers
<1>5. GuardTypeOK'
    BY DEF TypeOK, GuardTypeOK, PlannerAnswers, guardVars
<1>6. CASE target[c] < Len(Targets(Current(c)))
  <2>1. target' \in [Calls -> Nat \ {0}]
      BY <1>2, <1>6 DEF TypeOK, CallTypeOK, PlannerAnswers
  <2>2. CallTypeOK'
      BY <1>6, <2>1 DEF TypeOK, CallTypeOK, PlannerAnswers
  <2>3. ExecutorCall(c, target[c] + 1, 1, TRUE) \in ExecutorCalls
      BY <1>2, ExecutorCallType DEF TypeOK
  <2>4. issued' \subseteq ExecutorCalls
      BY <1>6, <2>3 DEF TypeOK, WorldTypeOK, PlannerAnswers, Issue
  <2> QED
      BY <1>3, <1>4, <1>5, <1>6, <2>2, <2>4
      DEF TypeOK, SurfaceTypeOK, WorldTypeOK, PlannerAnswers
<1>7. CASE ~ (target[c] < Len(Targets(Current(c))))
  <2>1. /\ trail' = Log(Current(c), Event("dry_run_planned", "-"))
        /\ Finish(c, "dry_run")
        /\ issued' = issued
      BY <1>7 DEF PlannerAnswers
  <2>2. trail' \in [Ids -> Seq(Events)]
      BY <1>1, <2>1, EventFacts, LogType DEF TypeOK, EventTypes
  <2>3. CallTypeOK'
      BY <1>1, <2>1, FinishType DEF TypeOK, ActionStates
  <2> QED
      BY <1>3, <1>4, <1>5, <2>1, <2>2, <2>3
      DEF TypeOK, SurfaceTypeOK, WorldTypeOK
<1> QED
    BY <1>6, <1>7

\* Every step keeps every variable in its type.
LEMMA TypeStep == TypeOK /\ Located /\ [Next]_vars => TypeOK'
<1> SUFFICES ASSUME TypeOK, Located, [Next]_vars PROVE TypeOK'
    OBVIOUS
<1>1. ASSUME NEW id \in Ids, NEW p \in Proposals, Propose(id, p) PROVE TypeOK'
    BY <1>1, SubmitType
    DEF TypeOK, Propose, Contents, CallTypeOK, WorldTypeOK, callVars, worldVars
<1>2. ASSUME NEW c \in Calls, NEW id \in Ids, ProcessCall(c, id) PROVE TypeOK'
  <2>1. << id >> \in Seq(Ids)
      OBVIOUS
  <2>2. CallTypeOK'
      BY <1>2, <2>1 DEF TypeOK, ProcessCall, Begin, CallTypeOK, PCs
  <2> QED
      BY <1>2, <2>2
      DEF TypeOK, ProcessCall, SurfaceTypeOK, GuardTypeOK, WorldTypeOK, surfaceVars, guardVars, worldVars
<1>3. ASSUME NEW c \in Calls, ProcessPendingCall(c) PROVE TypeOK'
  <2>1. pending \in Seq(Ids) /\ << >> \in Seq(Ids)
      BY DEF TypeOK, SurfaceTypeOK
  <2>2. CallTypeOK'
      BY <1>3, <2>1 DEF TypeOK, ProcessPendingCall, Begin, CallTypeOK, PCs, Done
  <2> QED
      BY <1>3, <2>1, <2>2
      DEF TypeOK, ProcessPendingCall, SurfaceTypeOK, GuardTypeOK, WorldTypeOK, guardVars, worldVars
<1>4. ASSUME NEW c \in Calls, NEW id \in Ids, NEW q \in Requests, ExecuteCall(c, id, q)
      PROVE  TypeOK'
  <2>1. ProposalOf(q) \in Contents /\ Submit(id, ProposalOf(q))
      BY <1>4 DEF TypeOK, ExecuteCall, Contents
  <2>2. SurfaceTypeOK' /\ GuardTypeOK'
      BY <2>1, SubmitType
  <2>3. << id >> \in Seq(Ids)
      OBVIOUS
  <2>4. CallTypeOK'
      BY <1>4, <2>3 DEF TypeOK, ExecuteCall, Begin, CallTypeOK, PCs, Done
  <2> QED
      BY <1>4, <2>2, <2>4 DEF TypeOK, ExecuteCall, WorldTypeOK, worldVars
<1>5. ASSUME NEW c \in Calls, NEW id \in Ids, NEW q \in Requests, ApproveCall(c, id, q)
      PROVE  TypeOK'
  <2>1. ProposalOf(q) \in Contents
      BY DEF TypeOK, Contents
  <2>2. request' \in [Ids -> Contents \cup {NoProposal}]
      BY <1>5, <2>1 DEF TypeOK, ApproveCall, SurfaceTypeOK
  <2>3. pc' \in [Calls -> PCs]
      BY <1>5 DEF TypeOK, ApproveCall, CallTypeOK, PCs, Waiting
  <2> QED
      BY <1>5, <2>2, <2>3
      DEF TypeOK, ApproveCall, SurfaceTypeOK, GuardTypeOK, CallTypeOK, WorldTypeOK, guardVars, worldVars
<1>6. ASSUME NEW c \in Calls, ApproveAnswers(c) \/ Abandon(c) PROVE TypeOK'
  <2>1. pc' \in [Calls -> PCs]
      BY <1>6 DEF TypeOK, ApproveAnswers, Abandon, CallTypeOK, PCs, Done
  <2> QED
      BY <1>6, <2>1
      DEF TypeOK, ApproveAnswers, Abandon, SurfaceTypeOK, GuardTypeOK, CallTypeOK, WorldTypeOK,
          surfaceVars, guardVars, worldVars
<1>7. CASE Engage \/ ToggleKillFile \/ Tick
  <2>1. killFlag' \in BOOLEAN /\ killFile' \in BOOLEAN
      BY <1>7, Zenon DEF TypeOK, GuardTypeOK, Engage, ToggleKillFile, Tick
  <2>2. now' \in Nat /\ stamps' = stamps /\ failures' = failures
      BY <1>7 DEF TypeOK, GuardTypeOK, Engage, ToggleKillFile, Tick
  <2>3. UNCHANGED << surfaceVars, callVars, worldVars >>
      BY <1>7 DEF Engage, ToggleKillFile, Tick
  <2> QED
      BY <2>1, <2>2, <2>3
      DEF TypeOK, SurfaceTypeOK, GuardTypeOK, CallTypeOK, WorldTypeOK, surfaceVars, callVars,
          worldVars
<1>8. CASE UNCHANGED vars
    BY <1>8
    DEF TypeOK, SurfaceTypeOK, GuardTypeOK, CallTypeOK, WorldTypeOK, vars, surfaceVars, guardVars,
        callVars, worldVars
<1> QED
    BY <1>1, <1>2, <1>3, <1>4, <1>5, <1>6, <1>7, <1>8,
       EnterType, GateType, ExecutorType, PlannerType DEF Next

----------------------------------------------------------------------------
(* The inductive invariant.  Its lemmas follow the shapes a step can have:  *)
(* a quiet one, one that gives a fresh id a content, one that begins a      *)
(* batch, one that returns a result, one that asks the executor.            *)

LEMMA ExecFacts ==
  ASSUME NEW c \in Calls
  PROVE  /\ Subject(Execution(c)) = Current(c)
         /\ Execution(c).call = c /\ Execution(c).index = at[c]
  BY DEF Subject, Execution, Current

\* Nothing the invariant speaks of changes, except that calls may stop.
LEMMA QuietStep ==
  ASSUME PipelineInv, TypeOK,
         UNCHANGED << request, verdict, batch, at, issued, decisions, started >>,
         pending' = pending \/ pending' = << >>,
         \A c \in Calls : pc'[c] = pc[c] \/ pc'[c] \in {"returned", "raised", "asking"}
  PROVE  PipelineInv'
<1>1. Located' /\ Fresh'
    BY DEF PipelineInv, Located, Fresh, Busy
<1>2. OnlyAccepted'
    BY DEF PipelineInv, OnlyAccepted
<1>3. Stage'
    BY DEF PipelineInv, Stage, Current, Execution, Granted
<1>4. Traces' /\ ApprovedBeforeMutation' /\ DryRunsAreInert'
    BY DEF PipelineInv, Traces, ApprovedBeforeMutation, DryRunsAreInert, Mutations, Recorded,
           Granted, Subject, ExecOf
<1> QED
    BY <1>1, <1>2, <1>3, <1>4 DEF PipelineInv

\* A fresh id gets a content: no batch can hold it yet.
LEMMA FreshContent ==
  ASSUME PipelineInv, TypeOK, NEW id \in Ids, NEW p \in Contents,
         request[id] = NoProposal,
         request' = [request EXCEPT ![id] = p],
         NEW code, verdict' = [verdict EXCEPT ![id] = code],
         \/ pending' = pending
         \/ pending' = Append(pending, id) /\ code = "ok",
         UNCHANGED << batch, at, issued, decisions, started >>,
         \A c \in Calls : pc'[c] = pc[c] \/ pc'[c] \in {"returned", "raised", "asking"}
  PROVE  PipelineInv'
<1>1. verdict[id] # "ok"
    BY DEF PipelineInv, OnlyAccepted
<1>2. \A other \in Ids : verdict[other] = "ok"
        => other # id /\ verdict'[other] = "ok" /\ request'[other] = request[other]
    BY <1>1 DEF TypeOK, SurfaceTypeOK
<1>3. \A c \in Calls : \A k \in DOMAIN batch[c] :
        batch[c][k] \in Ids /\ verdict[batch[c][k]] = "ok"
    BY DEF PipelineInv, OnlyAccepted, TypeOK, CallTypeOK
<1>4. p # NoProposal
    BY NoProposalAssumption DEF Contents
<1>5. Located' /\ Fresh'
    BY DEF PipelineInv, Located, Fresh, Busy
<1>6. OnlyAccepted'
  <2>1. \A other \in Ids : request'[other] = NoProposal => verdict'[other] # "ok"
      BY <1>4 DEF PipelineInv, OnlyAccepted, TypeOK, SurfaceTypeOK
  <2>2. \A i \in DOMAIN pending' : verdict'[pending'[i]] = "ok"
    <3>1. pending \in Seq(Ids)
        BY DEF TypeOK, SurfaceTypeOK
    <3>2. \A i \in DOMAIN pending : pending[i] \in Ids /\ verdict[pending[i]] = "ok"
        BY <3>1 DEF PipelineInv, OnlyAccepted
    <3>3. CASE pending' = pending
        BY <1>2, <3>2, <3>3
    <3>4. CASE pending' = Append(pending, id) /\ code = "ok"
      <4>1. verdict'[id] = "ok"
          BY <3>4 DEF TypeOK, SurfaceTypeOK
      <4>2. \A i \in DOMAIN pending' :
              \/ pending'[i] = id
              \/ i \in DOMAIN pending /\ pending'[i] = pending[i]
          BY <3>1, <3>4
      <4> QED
          BY <1>2, <3>2, <4>1, <4>2
    <3> QED
        BY <3>3, <3>4
  <2>3. \A c \in Calls : \A k \in DOMAIN batch'[c] : verdict'[batch'[c][k]] = "ok"
      BY <1>2, <1>3
  <2> QED
      BY <2>1, <2>2, <2>3 DEF OnlyAccepted
<1>7. Stage'
  <2> SUFFICES ASSUME NEW c \in Calls, pc'[c] \in {"gate", "executing"}
               PROVE  /\ ~ request'[Current(c)'].dryRun
                      /\ pc'[c] = "executing" => Granted(Execution(c))'
      BY DEF Stage
  <2>1. pc'[c] = pc[c] /\ pc[c] \in Busy
      BY DEF Busy
  <2>2. at[c] \in DOMAIN batch[c] /\ Current(c) \in Ids
      BY <2>1, CurrentType DEF PipelineInv, TypeOK
  <2>3. verdict[Current(c)] = "ok"
      BY <1>3, <2>2 DEF Current
  <2>4. request'[Current(c)] = request[Current(c)] /\ Current(c)' = Current(c)
      BY <1>2, <2>2, <2>3 DEF Current
  <2> QED
      BY <2>1, <2>4 DEF PipelineInv, Stage, Granted, Execution
<1>8. Traces'
    BY DEF PipelineInv, Traces, Recorded, ExecOf
<1>9. \A exec : Recorded(exec) => /\ Subject(exec)' = Subject(exec)
                                  /\ verdict'[Subject(exec)] = "ok"
                                  /\ request'[Subject(exec)] = request[Subject(exec)]
    BY <1>2, <1>3 DEF Recorded, Subject
<1>10. ApprovedBeforeMutation' /\ DryRunsAreInert'
  <2>1. \A x \in issued : Recorded(ExecOf(x))
      BY DEF PipelineInv, Traces
  <2>2. \A d \in decisions : Recorded(d.exec)
      BY DEF PipelineInv, Traces
  <2>3. \A z \in started : Recorded(z.exec)
      BY DEF PipelineInv, Traces
  <2>4. \A exec : Granted(exec)' <=> Granted(exec)
      BY DEF Granted
  <2>5. \A x : ExecOf(x)' = ExecOf(x)
      BY DEF ExecOf
  <2>6. ApprovedBeforeMutation'
      BY <1>9, <2>1, <2>4 DEF PipelineInv, ApprovedBeforeMutation, Mutations
  <2>7. DryRunsAreInert'
      BY <1>9, <2>1, <2>2, <2>3 DEF PipelineInv, DryRunsAreInert, Mutations
  <2> QED
      BY <2>6, <2>7
<1> QED
    BY <1>5, <1>6, <1>7, <1>8, <1>10 DEF PipelineInv

\* An idle call takes a batch of accepted proposals: it has left no trace yet.
LEMMA BatchBegins ==
  ASSUME PipelineInv, TypeOK, NEW c \in Calls, pc[c] = "idle",
         NEW ids \in Seq(Ids), ids # << >>,
         \A i \in DOMAIN ids : verdict[ids[i]] = "ok",
         Begin(c, ids),
         pending' = pending \/ pending' = << >>,
         UNCHANGED << request, verdict, at, issued, decisions, started >>
  PROVE  PipelineInv'
<1>1. batch' = [batch EXCEPT ![c] = ids] /\ pc' = [pc EXCEPT ![c] = "entering"]
    BY DEF Begin
<1>2. batch[c] = << >> /\ at[c] = 1
    BY DEF PipelineInv, Fresh
<1>3. \A exec : Recorded(exec)
        => exec.call # c /\ Recorded(exec)' /\ Subject(exec)' = Subject(exec)
    BY <1>1, <1>2 DEF Recorded, Subject, TypeOK, CallTypeOK
<1>4. \A exec : Granted(exec)' <=> Granted(exec)
    BY DEF Granted
<1>5. Located' /\ Fresh'
  <2>1. Len(ids) \in Nat \ {0}
      OBVIOUS
  <2> QED
      BY <1>1, <1>2, <2>1 DEF PipelineInv, Located, Fresh, TypeOK, CallTypeOK
<1>6. OnlyAccepted'
    BY <1>1 DEF PipelineInv, OnlyAccepted, TypeOK, CallTypeOK
<1>7. Stage'
  <2> SUFFICES ASSUME NEW other \in Calls, pc'[other] \in {"gate", "executing"}
               PROVE  /\ ~ request'[Current(other)'].dryRun
                      /\ pc'[other] = "executing" => Granted(Execution(other))'
      BY DEF Stage
  <2>1. other # c /\ pc'[other] = pc[other]
      BY <1>1 DEF TypeOK, CallTypeOK
  <2>2. Current(other)' = Current(other) /\ Execution(other)' = Execution(other)
      BY <1>1, <2>1 DEF Current, Execution, TypeOK, CallTypeOK
  <2> QED
      BY <1>4, <2>1, <2>2 DEF PipelineInv, Stage
<1>8. Traces'
    BY <1>3 DEF PipelineInv, Traces, ExecOf
<1>9. ApprovedBeforeMutation' /\ DryRunsAreInert'
  <2>1. \A x : ExecOf(x)' = ExecOf(x)
      BY DEF ExecOf
  <2>2. /\ \A x \in issued : Subject(ExecOf(x))' = Subject(ExecOf(x))
        /\ \A d \in decisions : Subject(d.exec)' = Subject(d.exec)
        /\ \A z \in started : Subject(z.exec)' = Subject(z.exec)
      BY <1>3 DEF PipelineInv, Traces
  <2> QED
      BY <1>4, <2>1, <2>2 DEF PipelineInv, ApprovedBeforeMutation, DryRunsAreInert, Mutations
<1> QED
    BY <1>5, <1>6, <1>7, <1>8, <1>9 DEF PipelineInv

\* A busy call returns a result; the gate may have answered in the same step.
LEMMA ResultReturned ==
  ASSUME PipelineInv, TypeOK, NEW c \in Calls, pc[c] \in Busy,
         NEW state, Finish(c, state),
         UNCHANGED << request, verdict, pending, issued, started >>,
         decisions \subseteq decisions',
         \A d \in decisions' : \/ d \in decisions
                               \/ d.exec = Execution(c) /\ ~ request[Current(c)].dryRun
  PROVE  PipelineInv'
<1>1. /\ batch' = batch
      /\ at' = [at EXCEPT ![c] = @ + 1]
      /\ \/ pc' = [pc EXCEPT ![c] = "entering"] /\ at[c] < Len(batch[c])
         \/ pc' = [pc EXCEPT ![c] = "returned"]
    BY DEF Finish, Conclude
<1>2. at[c] \in DOMAIN batch[c]
    BY CurrentType DEF PipelineInv, TypeOK
<1>3. batch[c] \in Seq(Ids) /\ at[c] \in Nat \ {0} /\ Len(batch[c]) \in Nat
    BY DEF TypeOK, CallTypeOK
<1>4. Located' /\ Fresh'
    BY <1>1, <1>3 DEF PipelineInv, Located, Fresh, Busy, TypeOK, CallTypeOK
<1>5. OnlyAccepted'
    BY <1>1 DEF PipelineInv, OnlyAccepted
<1>6. \A exec : Granted(exec) => Granted(exec)'
    BY DEF Granted
<1>7. Stage'
  <2> SUFFICES ASSUME NEW other \in Calls, pc'[other] \in {"gate", "executing"}
               PROVE  /\ ~ request'[Current(other)'].dryRun
                      /\ pc'[other] = "executing" => Granted(Execution(other))'
      BY DEF Stage
  <2>1. other # c /\ pc'[other] = pc[other]
      BY <1>1 DEF TypeOK, CallTypeOK
  <2>2. Current(other)' = Current(other) /\ Execution(other)' = Execution(other)
      BY <1>1, <2>1 DEF Current, Execution, TypeOK, CallTypeOK
  <2> QED
      BY <1>6, <2>1, <2>2 DEF PipelineInv, Stage
<1>8. \A exec : (Recorded(exec)' <=> Recorded(exec)) /\ Subject(exec)' = Subject(exec)
    BY <1>1 DEF Recorded, Subject
<1>9. Recorded(Execution(c))
    BY <1>2, ExecFacts DEF Recorded
<1>10. Traces'
    BY <1>8, <1>9 DEF PipelineInv, Traces, ExecOf
<1>11. ApprovedBeforeMutation' /\ DryRunsAreInert'
  <2>1. \A x : ExecOf(x)' = ExecOf(x)
      BY DEF ExecOf
  <2>2. Subject(Execution(c)) = Current(c)
      BY ExecFacts
  <2>3. ApprovedBeforeMutation'
      BY <1>6, <1>8, <2>1 DEF PipelineInv, ApprovedBeforeMutation, Mutations
  <2>4. \A d \in decisions' : ~ request'[Subject(d.exec)'].dryRun
      BY <1>8, <2>2 DEF PipelineInv, DryRunsAreInert
  <2>5. DryRunsAreInert'
      BY <1>8, <2>1, <2>4 DEF PipelineInv, DryRunsAreInert, Mutations
  <2> QED
      BY <2>3, <2>5
<1> QED
    BY <1>4, <1>5, <1>7, <1>10, <1>11 DEF PipelineInv

\* A busy call asks the executor, live or for a plan, or goes to the gate.
\* Live, it must hold a grant for the proposal it is at, which is no dry run.
LEMMA CallGoesOn ==
  ASSUME PipelineInv, TypeOK, NEW c \in Calls, pc[c] \in Busy,
         NEW where \in {"gate", "executing", "planning"},
         pc' = [pc EXCEPT ![c] = where],
         UNCHANGED << request, verdict, pending, batch, at >>,
         where # "planning" => ~ request[Current(c)].dryRun,
         where = "executing" => Granted(Execution(c))',
         decisions \subseteq decisions',
         \A d \in decisions' : \/ d \in decisions
                               \/ d.exec = Execution(c) /\ where # "planning",
         \A z \in started' : \/ z \in started
                             \/ z.exec = Execution(c) /\ where # "planning",
         \A x \in issued' : \/ x \in issued
                            \/ /\ ExecOf(x) = Execution(c)
                               /\ x.dry \/ where = "executing"
  PROVE  PipelineInv'
<1>1. at[c] \in DOMAIN batch[c] /\ Current(c) \in Ids
    BY CurrentType DEF PipelineInv, TypeOK
<1>2. verdict[Current(c)] = "ok"
    BY <1>1 DEF PipelineInv, OnlyAccepted, Current
<1>3. Located' /\ Fresh'
    BY DEF PipelineInv, Located, Fresh, Busy, TypeOK, CallTypeOK
<1>4. OnlyAccepted'
    BY DEF PipelineInv, OnlyAccepted
<1>5. \A exec : Granted(exec) => Granted(exec)'
    BY DEF Granted
<1>6. \A other \in Calls : Current(other)' = Current(other)
                           /\ Execution(other)' = Execution(other)
    BY DEF Current, Execution
<1>7. Stage'
  <2> SUFFICES ASSUME NEW other \in Calls, pc'[other] \in {"gate", "executing"}
               PROVE  /\ ~ request'[Current(other)'].dryRun
                      /\ pc'[other] = "executing" => Granted(Execution(other))'
      BY DEF Stage
  <2>1. CASE other = c
      BY <1>6, <2>1 DEF TypeOK, CallTypeOK, Execution
  <2>2. CASE other # c
    <3>1. pc'[other] = pc[other]
        BY <2>2 DEF TypeOK, CallTypeOK
    <3> QED
        BY <1>5, <1>6, <3>1 DEF PipelineInv, Stage
  <2> QED
      BY <2>1, <2>2
<1>8. \A exec : (Recorded(exec)' <=> Recorded(exec)) /\ Subject(exec)' = Subject(exec)
    BY DEF Recorded, Subject
<1>9. Recorded(Execution(c)) /\ Subject(Execution(c)) = Current(c)
    BY <1>1, ExecFacts DEF Recorded
<1>10. \A x : ExecOf(x)' = ExecOf(x)
    BY DEF ExecOf
<1>11. Traces'
    BY <1>8, <1>9, <1>10 DEF PipelineInv, Traces
<1>12. ApprovedBeforeMutation'
  <2> SUFFICES ASSUME NEW x \in issued', ~ x.dry
               PROVE  Granted(ExecOf(x))' /\ verdict'[Subject(ExecOf(x))'] = "ok"
      BY DEF ApprovedBeforeMutation, Mutations
  <2>1. CASE x \in issued
      BY <1>5, <1>8, <1>10, <2>1 DEF PipelineInv, ApprovedBeforeMutation, Mutations
  <2>2. CASE ExecOf(x) = Execution(c) /\ where = "executing"
    <3>1. Granted(ExecOf(x))'
        BY <2>2 DEF Granted, ExecOf, Execution
    <3> QED
        BY <1>2, <1>8, <1>9, <1>10, <2>2, <3>1
  <2> QED
      BY <2>1, <2>2
<1>13. DryRunsAreInert'
  <2>1. \A x \in issued' : ~ x.dry => ~ request'[Subject(ExecOf(x))'].dryRun
      BY <1>8, <1>9, <1>10 DEF PipelineInv, DryRunsAreInert, Mutations
  <2>2. \A d \in decisions' : ~ request'[Subject(d.exec)'].dryRun
      BY <1>8, <1>9 DEF PipelineInv, DryRunsAreInert
  <2>3. \A z \in started' : ~ request'[Subject(z.exec)'].dryRun
      BY <1>8, <1>9 DEF PipelineInv, DryRunsAreInert
  <2> QED
      BY <2>1, <2>2, <2>3 DEF DryRunsAreInert, Mutations
<1> QED
    BY <1>3, <1>4, <1>7, <1>11, <1>12, <1>13 DEF PipelineInv

\* The invariant holds at the start.
LEMMA PipelineInit == Init => TypeOK /\ PipelineInv
<1> SUFFICES ASSUME Init PROVE TypeOK /\ PipelineInv
    OBVIOUS
<1>1. SurfaceTypeOK
    BY DEF Init, SurfaceTypeOK
<1>2. GuardTypeOK
    BY DEF Init, GuardTypeOK
<1>3. CallTypeOK
    BY DEF Init, CallTypeOK, PCs
<1>4. WorldTypeOK
    BY DEF Init, WorldTypeOK
<1>5. Located /\ Fresh
    BY DEF Init, Located, Fresh, Busy
<1>6. OnlyAccepted
    BY DEF Init, OnlyAccepted
<1>7. Stage
    BY DEF Init, Stage
<1>8. Traces /\ ApprovedBeforeMutation /\ DryRunsAreInert
    BY DEF Init, Traces, ApprovedBeforeMutation, DryRunsAreInert, Mutations
<1> QED
    BY <1>1, <1>2, <1>3, <1>4, <1>5, <1>6, <1>7, <1>8 DEF TypeOK, PipelineInv

\* execute() never queues, never begins a batch: its proposal is rejected.
LEMMA ExecuteIsRejected ==
  ASSUME TypeOK, NEW c \in Calls, NEW id \in Ids, NEW q \in Requests, ExecuteCall(c, id, q)
  PROVE  /\ verdict'[id] # "ok" /\ pending' = pending
         /\ pc' = [pc EXCEPT ![c] = "returned"]
         /\ UNCHANGED << batch, running >>
<1>1. Submit(id, ProposalOf(q))
    BY DEF ExecuteCall
<1>2. Verdict(ProposalOf(q)) # "ok"
    BY ExecuteNeverAccepted DEF Verdict
<1>3. verdict'[id] = Verdict(ProposalOf(q))
    BY <1>1 DEF Submit, Queue, TypeOK, SurfaceTypeOK
<1> QED
    BY <1>1, <1>2, <1>3 DEF ExecuteCall, Submit, Queue

\* The gate's answer keeps the invariant.
LEMMA GateStep ==
  ASSUME PipelineInv, TypeOK, NEW c \in Calls, GateAnswers(c)
  PROVE  PipelineInv'
<1> PICK d \in Decisions : \/ GateTimesOut(c, d)
                           \/ HumanRejects(c, d)
                           \/ ApprovedButKilled(c, d)
                           \/ ApprovedAndStarted(c, d)
    BY DEF GateAnswers
<1>1. /\ pc[c] = "gate" /\ pc[c] \in Busy
      /\ UNCHANGED << request, verdict, pending >>
      /\ decisions' = decisions \cup {[exec |-> Execution(c), decision |-> d]}
    BY DEF GateTimesOut, HumanRejects, ApprovedButKilled, ApprovedAndStarted, StartExecution, Decide, Busy
<1>2. ~ request[Current(c)].dryRun
    BY <1>1 DEF PipelineInv, Stage
<1>3. CASE GateTimesOut(c, d) \/ HumanRejects(c, d) \/ ApprovedButKilled(c, d)
  <2> PICK state : Finish(c, state)
      BY <1>3 DEF GateTimesOut, HumanRejects, ApprovedButKilled
  <2>1. UNCHANGED << issued, started >>
      BY <1>3 DEF GateTimesOut, HumanRejects, ApprovedButKilled
  <2> QED
      BY <1>1, <1>2, <2>1, ResultReturned
<1>4. CASE ApprovedAndStarted(c, d)
  <2>1. /\ pc' = [pc EXCEPT ![c] = "executing"]
        /\ UNCHANGED << batch, at >>
        /\ issued' = issued \cup {ExecutorCall(c, target[c], attempt[c], FALSE)}
        /\ started' = started \cup {[exec |-> Execution(c), time |-> now]}
        /\ d.approved /\ ~ d.timedOut
      BY <1>4 DEF ApprovedAndStarted, StartExecution, Await, Issue
  <2>2. Granted(Execution(c))'
    <3> DEFINE e == [exec |-> Execution(c), decision |-> d]
    <3>1. e \in decisions' /\ e.exec = Execution(c) /\ e.decision = d
        BY <1>1
    <3>2. Execution(c)' = Execution(c)
        BY <2>1 DEF Execution
    <3> QED
        BY <2>1, <3>1, <3>2 DEF Granted
  <2>3. \A x \in issued' : x \in issued \/ ExecOf(x) = Execution(c)
    <3>1. ExecOf(ExecutorCall(c, target[c], attempt[c], FALSE)) = Execution(c)
        BY DEF ExecOf, ExecutorCall, Execution
    <3> QED
        BY <2>1, <3>1
  <2>4. \A z \in started' : z \in started \/ z.exec = Execution(c)
      BY <2>1
  <2>5. \A e \in decisions' : e \in decisions \/ e.exec = Execution(c)
      BY <1>1
  <2> QED
      BY <1>1, <1>2, <2>1, <2>2, <2>3, <2>4, <2>5, CallGoesOn
<1> QED
    BY <1>3, <1>4

\* Every step keeps the invariant.
LEMMA PipelineStep == PipelineInv /\ TypeOK /\ [Next]_vars => PipelineInv'
<1> SUFFICES ASSUME PipelineInv, TypeOK, [Next]_vars PROVE PipelineInv'
    OBVIOUS
<1>1. ASSUME NEW id \in Ids, NEW p \in Proposals, Propose(id, p) PROVE PipelineInv'
  <2>1. p \in Contents /\ Submit(id, p)
        /\ UNCHANGED << batch, at, pc, issued, decisions, started >>
      BY <1>1 DEF Propose, Contents, callVars, worldVars
  <2>2. /\ request[id] = NoProposal
        /\ request' = [request EXCEPT ![id] = p]
        /\ verdict' = [verdict EXCEPT ![id] = Verdict(p)]
        /\ \/ pending' = pending
           \/ pending' = Append(pending, id) /\ Verdict(p) = "ok"
      BY <2>1 DEF Submit, Queue
  <2> QED
      BY <2>1, <2>2, FreshContent
<1>2. ASSUME NEW c \in Calls, NEW id \in Ids, ProcessCall(c, id) PROVE PipelineInv'
  <2>1. << id >> \in Seq(Ids) /\ << id >> # << >>
        /\ \A i \in DOMAIN << id >> : << id >>[i] = id
      OBVIOUS
  <2>2. pc[c] = "idle" /\ verdict[id] = "ok" /\ Begin(c, << id >>)
        /\ UNCHANGED << request, verdict, pending, at, issued, decisions, started >>
      BY <1>2 DEF ProcessCall, surfaceVars, worldVars
  <2> QED
      BY <2>1, <2>2, BatchBegins
<1>3. ASSUME NEW c \in Calls, ProcessPendingCall(c) PROVE PipelineInv'
  <2>1. /\ pc[c] = "idle" /\ pending' = << >>
        /\ UNCHANGED << request, verdict, at, issued, decisions, started >>
      BY <1>3 DEF ProcessPendingCall, worldVars
  <2>2. CASE pending = << >>
    <3>1. pc' = [pc EXCEPT ![c] = "returned"] /\ batch' = batch
        BY <1>3, <2>2 DEF ProcessPendingCall
    <3>2. \A k \in Calls : pc'[k] = pc[k] \/ pc'[k] \in {"returned", "raised", "asking"}
        BY <3>1 DEF TypeOK, CallTypeOK
    <3> QED
        BY <2>1, <3>1, <3>2, QuietStep
  <2>3. CASE pending # << >>
    <3>1. Begin(c, pending) /\ pending \in Seq(Ids)
        BY <1>3, <2>3 DEF ProcessPendingCall, TypeOK, SurfaceTypeOK
    <3>2. \A i \in DOMAIN pending : verdict[pending[i]] = "ok"
        BY DEF PipelineInv, OnlyAccepted
    <3> QED
        BY <2>1, <2>3, <3>1, <3>2, BatchBegins
  <2> QED
      BY <2>2, <2>3
<1>4. ASSUME NEW c \in Calls, NEW id \in Ids, NEW q \in Requests, ExecuteCall(c, id, q)
      PROVE  PipelineInv'
  <2>1. /\ pc' = [pc EXCEPT ![c] = "returned"] /\ pending' = pending
        /\ batch' = batch
      BY <1>4, ExecuteIsRejected
  <2>2. Submit(id, ProposalOf(q)) /\ UNCHANGED << at, issued, decisions, started >>
        /\ ProposalOf(q) \in Contents
      BY <1>4 DEF ExecuteCall, worldVars, Contents
  <2>3. /\ request[id] = NoProposal
        /\ request' = [request EXCEPT ![id] = ProposalOf(q)]
        /\ verdict' = [verdict EXCEPT ![id] = Verdict(ProposalOf(q))]
      BY <2>2 DEF Submit, Queue
  <2>4. \A k \in Calls : pc'[k] = pc[k] \/ pc'[k] \in {"returned", "raised", "asking"}
      BY <2>1 DEF TypeOK, CallTypeOK
  <2> QED
      BY <2>1, <2>2, <2>3, <2>4, FreshContent
<1>5. ASSUME NEW c \in Calls, NEW id \in Ids, NEW q \in Requests, ApproveCall(c, id, q)
      PROVE  PipelineInv'
  <2>1. /\ request[id] = NoProposal
        /\ request' = [request EXCEPT ![id] = ProposalOf(q)]
        /\ ProposalOf(q) \in Contents
        /\ pc' = [pc EXCEPT ![c] = "asking"]
        /\ UNCHANGED << verdict, pending, batch, at, issued, decisions, started >>
      BY <1>5 DEF ApproveCall, Contents, worldVars
  <2>2. verdict' = [verdict EXCEPT ![id] = verdict[id]]
      BY <2>1 DEF TypeOK, SurfaceTypeOK
  <2>3. \A k \in Calls : pc'[k] = pc[k] \/ pc'[k] \in {"returned", "raised", "asking"}
      BY <2>1 DEF TypeOK, CallTypeOK
  <2> QED
      BY <2>1, <2>2, <2>3, FreshContent
<1>6. ASSUME NEW c \in Calls, ApproveAnswers(c) \/ Abandon(c) PROVE PipelineInv'
  <2>1. /\ pc' = [pc EXCEPT ![c] = "returned"] \/ pc' = [pc EXCEPT ![c] = "raised"]
        /\ UNCHANGED << request, verdict, pending, batch, at, issued, decisions, started >>
      BY <1>6 DEF ApproveAnswers, Abandon, surfaceVars, worldVars
  <2>2. \A k \in Calls : pc'[k] = pc[k] \/ pc'[k] \in {"returned", "raised", "asking"}
      BY <2>1 DEF TypeOK, CallTypeOK
  <2> QED
      BY <2>1, <2>2, QuietStep
<1>7. ASSUME NEW c \in Calls, Enter(c) PROVE PipelineInv'
  <2>1. /\ pc[c] \in Busy
        /\ UNCHANGED << request, verdict, pending, decisions, started >>
      BY <1>7 DEF Enter, IsPlan, Busy
  <2>2. CASE Blocked(c) /\ issued' = issued
      BY <2>1, <2>2, ResultReturned DEF Blocked
  <2>3. CASE /\ Await(c, "planning")
             /\ Issue(c, target[c], 1, TRUE)
             /\ UNCHANGED << trail, batch, at, target, attempt, outcomes, results >>
    <3>1. /\ pc' = [pc EXCEPT ![c] = "planning"] /\ UNCHANGED << batch, at >>
          /\ issued' = issued \cup {ExecutorCall(c, target[c], 1, TRUE)}
        BY <2>3 DEF Await, Issue
    <3>2. \A x \in issued' : x \in issued \/ (ExecOf(x) = Execution(c) /\ x.dry)
      <4>1. /\ ExecOf(ExecutorCall(c, target[c], 1, TRUE)) = Execution(c)
            /\ ExecutorCall(c, target[c], 1, TRUE).dry
          BY DEF ExecOf, ExecutorCall, Execution
      <4> QED
          BY <3>1, <4>1
    <3> QED
        BY <2>1, <3>1, <3>2, CallGoesOn
  <2>4. CASE /\ ~ request[Current(c)].dryRun
             /\ Await(c, "gate")
             /\ UNCHANGED << trail, issued, batch, at, target, attempt, outcomes, results >>
    <3>1. pc' = [pc EXCEPT ![c] = "gate"] /\ UNCHANGED << batch, at, issued >>
        BY <2>4 DEF Await
    <3> QED
        BY <2>1, <2>4, <3>1, CallGoesOn
  <2> QED
      BY <1>7, <2>2, <2>3, <2>4 DEF Enter, IsPlan
<1>8. ASSUME NEW c \in Calls, ExecutorAnswers(c) PROVE PipelineInv'
  <2> PICK answer \in Answers : \/ RetryTarget(c, answer)
                                \/ NextTarget(c, answer)
                                \/ CompleteExecution(c, answer)
      BY <1>8 DEF ExecutorAnswers
  <2>1. /\ pc[c] = "executing" /\ pc[c] \in Busy
        /\ UNCHANGED << request, verdict, pending, decisions, started >>
      BY <1>8 DEF ExecutorAnswers, Busy
  <2>2. ~ request[Current(c)].dryRun /\ Granted(Execution(c))
      BY <2>1 DEF PipelineInv, Stage
  <2>3. CASE RetryTarget(c, answer) \/ NextTarget(c, answer)
    <3>1. UNCHANGED << pc, batch, at >>
        BY <2>3 DEF RetryTarget, NextTarget, RecordTarget
    <3>2. PICK t, a : issued' = issued \cup {ExecutorCall(c, t, a, FALSE)}
        BY <2>3 DEF RetryTarget, NextTarget, RecordTarget, Issue
    <3>3. pc' = [pc EXCEPT ![c] = "executing"]
        BY <2>1, <3>1 DEF TypeOK, CallTypeOK
    <3>4. \A x \in issued' : x \in issued \/ ExecOf(x) = Execution(c)
      <4>1. ExecOf(ExecutorCall(c, t, a, FALSE)) = Execution(c)
          BY DEF ExecOf, ExecutorCall, Execution
      <4> QED
          BY <3>2, <4>1
    <3>5. Granted(Execution(c))'
        BY <2>1, <2>2, <3>1 DEF Granted, Execution
    <3> QED
        BY <2>1, <2>2, <3>1, <3>3, <3>4, <3>5, CallGoesOn
  <2>4. CASE CompleteExecution(c, answer)
    <3>1. issued' = issued
        BY <2>4 DEF CompleteExecution, AfterExecution
    <3>2. PICK state : Finish(c, state)
        BY <2>4 DEF CompleteExecution, AfterExecution
    <3> QED
        BY <2>1, <3>1, <3>2, ResultReturned
  <2> QED
      BY <2>3, <2>4
<1>9. ASSUME NEW c \in Calls, PlannerAnswers(c) PROVE PipelineInv'
  <2>1. /\ pc[c] = "planning" /\ pc[c] \in Busy
        /\ UNCHANGED << request, verdict, pending, decisions, started >>
      BY <1>9 DEF PlannerAnswers, Busy
  <2>2. CASE target[c] < Len(Targets(Current(c)))
    <3>1. /\ UNCHANGED << pc, batch, at >>
          /\ issued' = issued \cup {ExecutorCall(c, target[c] + 1, 1, TRUE)}
        BY <1>9, <2>2 DEF PlannerAnswers, Issue
    <3>2. pc' = [pc EXCEPT ![c] = "planning"]
        BY <2>1, <3>1 DEF TypeOK, CallTypeOK
    <3>3. \A x \in issued' : x \in issued \/ (ExecOf(x) = Execution(c) /\ x.dry)
      <4>1. /\ ExecOf(ExecutorCall(c, target[c] + 1, 1, TRUE)) = Execution(c)
            /\ ExecutorCall(c, target[c] + 1, 1, TRUE).dry
          BY DEF ExecOf, ExecutorCall, Execution
      <4> QED
          BY <3>1, <4>1
    <3> QED
        BY <2>1, <3>1, <3>2, <3>3, CallGoesOn
  <2>3. CASE ~ (target[c] < Len(Targets(Current(c))))
    <3>1. Finish(c, "dry_run") /\ issued' = issued
        BY <1>9, <2>3 DEF PlannerAnswers
    <3> QED
        BY <2>1, <3>1, ResultReturned
  <2> QED
      BY <2>2, <2>3
<1>10. CASE Engage \/ ToggleKillFile \/ Tick \/ UNCHANGED vars
  <2>1. UNCHANGED << request, verdict, pending, pc, batch, at, issued, decisions, started >>
      BY <1>10
      DEF Engage, ToggleKillFile, Tick, vars, surfaceVars, callVars, worldVars
  <2> QED
      BY <2>1, QuietStep
<1> QED
    BY <1>1, <1>2, <1>3, <1>4, <1>5, <1>6, <1>7, <1>8, <1>9, <1>10, GateStep DEF Next

\* Every reachable state is well typed and satisfies the inductive invariant.
THEOREM PipelineInvariant == Spec => [](TypeOK /\ PipelineInv)
<1>1. TypeOK /\ PipelineInv /\ [Next]_vars => (TypeOK /\ PipelineInv)'
    BY TypeStep, PipelineStep DEF PipelineInv
<1> QED
    BY <1>1, PipelineInit, PTL DEF Spec

\* Type correctness, for every number of calls, proposals and targets.
THEOREM TypeCorrectness == Spec => []TypeOK
<1>1. TypeOK /\ PipelineInv => TypeOK
    OBVIOUS
<1> QED
    BY <1>1, PipelineInvariant, PTL

\* No executor call mutates anything without a validated proposal and a grant
\* of the gate for that very execution.
THEOREM ApprovalIsNeeded == Spec => []ApprovedBeforeMutation
<1>1. TypeOK /\ PipelineInv => ApprovedBeforeMutation
    BY DEF PipelineInv
<1> QED
    BY <1>1, PipelineInvariant, PTL

\* A dry run never reaches the gate, the rate limiter or a mutating call.
THEOREM DryRunsStayInert == Spec => []DryRunsAreInert
<1>1. TypeOK /\ PipelineInv => DryRunsAreInert
    BY DEF PipelineInv
<1> QED
    BY <1>1, PipelineInvariant, PTL

----------------------------------------------------------------------------
(* The guards.                                                              *)

GuardInv == StampsCoverWindow /\ BreakerCountsFailures

\* Pruning the stamps leaves those of the executions begun in the window.
LEMMA PrunedIsWindow == StampsCoverWindow => Pruned = InWindow
  BY DEF StampsCoverWindow, Pruned, InWindow

\* A completed execution moves the breaker with the history.
LEMMA BreakerStep ==
  ASSUME TypeOK, BreakerCountsFailures, NEW state \in FinalStates,
         finals' = Append(finals, state),
         failures' = IF state = "executed" THEN 0 ELSE failures + 1
  PROVE  BreakerCountsFailures'
<1> DEFINE n == Len(finals)
<1>1. finals \in Seq(FinalStates) /\ n \in Nat /\ failures \in Nat
    BY DEF TypeOK, WorldTypeOK, GuardTypeOK
<1>2. /\ Len(finals') = n + 1
      /\ finals'[n + 1] = state
      /\ \A i \in 1 .. n : finals'[i] = finals[i]
    BY <1>1
<1>3. /\ failures <= n
      /\ \A i \in (n - failures + 1) .. n : finals[i] # "executed"
      /\ failures < n => finals[n - failures] = "executed"
    BY DEF BreakerCountsFailures
<1> DEFINE Counted(m) ==
             /\ failures' <= m
             /\ \A i \in (m - failures' + 1) .. m : finals'[i] # "executed"
             /\ failures' < m => finals'[m - failures'] = "executed"
<1>4. Counted(Len(finals')) => BreakerCountsFailures'
    BY DEF BreakerCountsFailures
<1>5. SUFFICES Counted(n + 1)
    BY <1>2, <1>4
<1> HIDE DEF n, Counted
<1>6. CASE state = "executed"
    BY <1>1, <1>2, <1>6 DEF Counted
<1>7. CASE state # "executed"
  <2>1. failures' = failures + 1 /\ failures' <= n + 1
      BY <1>1, <1>3, <1>7
  <2> DEFINE tail == ((n + 1) - failures' + 1) .. (n + 1)
  <2>2. \A i \in tail : finals'[i] # "executed"
    <3> SUFFICES ASSUME NEW i \in tail
                 PROVE  finals'[i] # "executed"
        OBVIOUS
    <3>1. CASE i = n + 1
        BY <1>2, <1>7, <3>1
    <3>2. CASE i # n + 1
      <4>1. i \in (n - failures + 1) .. n /\ i \in 1 .. n
          BY <1>1, <1>3, <2>1, <3>2
      <4> QED
          BY <1>2, <1>3, <4>1
    <3> QED
        BY <3>1, <3>2
  <2>3. failures' < n + 1 => finals'[(n + 1) - failures'] = "executed"
    <3> SUFFICES ASSUME failures' < n + 1 PROVE finals'[(n + 1) - failures'] = "executed"
        OBVIOUS
    <3>1. failures < n /\ (n + 1) - failures' = n - failures /\ n - failures \in 1 .. n
        BY <1>1, <2>1
    <3> QED
        BY <1>2, <1>3, <3>1
  <2> QED
      BY <2>1, <2>2, <2>3 DEF Counted
<1> QED
    BY <1>6, <1>7

\* The guards' bookkeeping keeps agreeing with what happened.
LEMMA GuardStep == TypeOK /\ GuardInv /\ [Next]_vars => GuardInv'
<1> SUFFICES ASSUME TypeOK, GuardInv, [Next]_vars PROVE GuardInv'
    OBVIOUS
<1> DEFINE Same == UNCHANGED << now, stamps, started >>
           SameBreaker == UNCHANGED << failures, finals >>
<1>1. Same => StampsCoverWindow'
    BY DEF GuardInv, StampsCoverWindow, InWindow
<1>2. SameBreaker => BreakerCountsFailures'
    BY DEF GuardInv, BreakerCountsFailures
<1>3. ASSUME NEW id \in Ids, NEW p, Submit(id, p), UNCHANGED worldVars PROVE GuardInv'
  <2>1. SameBreaker /\ now' = now /\ started' = started
        /\ (stamps' = Pruned \/ stamps' = stamps)
      BY <1>3 DEF Submit, Queue, worldVars
  <2>2. StampsCoverWindow'
      BY <2>1 DEF GuardInv, StampsCoverWindow, InWindow, Pruned
  <2> QED
      BY <1>2, <2>1, <2>2 DEF GuardInv
<1>4. ASSUME NEW c \in Calls, GateAnswers(c) PROVE GuardInv'
  <2> PICK d \in Decisions : \/ GateTimesOut(c, d)
                             \/ HumanRejects(c, d)
                             \/ ApprovedButKilled(c, d)
                             \/ ApprovedAndStarted(c, d)
      BY <1>4 DEF GateAnswers
  <2>1. SameBreaker /\ now' = now
      BY DEF GateTimesOut, HumanRejects, ApprovedButKilled, ApprovedAndStarted, StartExecution, Decide
  <2>2. CASE ApprovedAndStarted(c, d)
    <3>1. stamps' = Pruned \cup {[exec |-> Execution(c), time |-> now]}
          /\ started' = started \cup {[exec |-> Execution(c), time |-> now]}
        BY <2>2 DEF ApprovedAndStarted, StartExecution
    <3>2. StampsCoverWindow'
        BY <2>1, <3>1 DEF GuardInv, StampsCoverWindow, InWindow, Pruned
    <3> QED
        BY <1>2, <2>1, <3>2 DEF GuardInv
  <2>3. CASE GateTimesOut(c, d) \/ HumanRejects(c, d) \/ ApprovedButKilled(c, d)
    <3>1. Same
        BY <2>1, <2>3 DEF GateTimesOut, HumanRejects, ApprovedButKilled
    <3> QED
        BY <1>1, <1>2, <2>1, <3>1 DEF GuardInv
  <2> QED
      BY <2>2, <2>3
<1>5. ASSUME NEW c \in Calls, ExecutorAnswers(c) PROVE GuardInv'
  <2> PICK answer \in Answers : \/ RetryTarget(c, answer)
                                \/ NextTarget(c, answer)
                                \/ CompleteExecution(c, answer)
      BY <1>5 DEF ExecutorAnswers
  <2>1. Same
      BY <1>5 DEF ExecutorAnswers
  <2>2. CASE RetryTarget(c, answer) \/ NextTarget(c, answer)
      BY <1>1, <1>2, <2>1, <2>2 DEF GuardInv, RetryTarget, NextTarget, RecordTarget
  <2>3. CASE CompleteExecution(c, answer)
    <3> DEFINE state == FinalState(Append(outcomes[c], StatusOf(answer)))
    <3>1. /\ finals' = Append(finals, state)
          /\ failures' = IF state = "executed" THEN 0 ELSE failures + 1
        BY <2>3 DEF CompleteExecution, AfterExecution
    <3>2. state \in FinalStates
        BY DEF FinalState, FinalStates
    <3> HIDE DEF state
    <3>3. BreakerCountsFailures'
        BY <3>1, <3>2, BreakerStep DEF GuardInv
    <3> QED
        BY <1>1, <2>1, <3>3 DEF GuardInv
  <2> QED
      BY <2>2, <2>3
<1>6. CASE Tick
  <2>1. now' = now + 1 /\ stamps' = stamps /\ started' = started /\ SameBreaker
      BY <1>6 DEF Tick, worldVars
  <2>2. InWindow' \subseteq InWindow
    <3>1. now \in Nat /\ Window \in Int /\ \A z \in started : z.time \in Nat
        BY GuardsAssumption DEF TypeOK, WorldTypeOK, GuardTypeOK, Stamps
    <3>2. \A z \in started : z.time > now' - Window => z.time > now - Window
        BY <2>1, <3>1
    <3> QED
        BY <2>1, <3>2 DEF InWindow
  <2>3. StampsCoverWindow'
      BY <2>1, <2>2 DEF GuardInv, StampsCoverWindow
  <2> QED
      BY <1>2, <2>1, <2>3 DEF GuardInv
<1>7. ASSUME NEW c \in Calls, NEW id \in Ids, NEW q \in Requests,
             ProcessCall(c, id) \/ ProcessPendingCall(c) \/ ApproveCall(c, id, q)
      PROVE  GuardInv'
    BY <1>1, <1>2, <1>7
    DEF ProcessCall, ProcessPendingCall, ApproveCall, GuardInv, guardVars, worldVars
<1>8. ASSUME NEW c \in Calls,
             \/ ApproveAnswers(c) \/ Abandon(c) \/ Enter(c) \/ PlannerAnswers(c)
             \/ ProcessPendingCall(c) \/ \E id \in Ids : ProcessCall(c, id)
      PROVE  GuardInv'
    BY <1>1, <1>2, <1>8
    DEF ApproveAnswers, Abandon, Enter, IsPlan, PlannerAnswers, ProcessCall, ProcessPendingCall,
        GuardInv, guardVars, worldVars
<1>9. CASE Engage \/ ToggleKillFile \/ UNCHANGED vars
    BY <1>1, <1>2, <1>9
    DEF Engage, ToggleKillFile, GuardInv, vars, guardVars, worldVars
<1>10. ASSUME NEW id \in Ids, NEW p, Propose(id, p) PROVE GuardInv'
    BY <1>3, <1>10 DEF Propose
<1>11. ASSUME NEW c \in Calls, NEW id \in Ids, NEW q, ExecuteCall(c, id, q) PROVE GuardInv'
    BY <1>3, <1>11 DEF ExecuteCall
<1> QED
    BY <1>4, <1>5, <1>6, <1>7, <1>8, <1>9, <1>10, <1>11 DEF Next

\* The guards' bookkeeping agrees with what happened in every reachable state.
LEMMA GuardInvariant == Spec => []GuardInv
<1>1. Init => GuardInv
    BY DEF Init, GuardInv, StampsCoverWindow, InWindow, BreakerCountsFailures
<1>2. TypeOK /\ PipelineInv /\ GuardInv /\ [Next]_vars => GuardInv'
    BY GuardStep
<1> QED
    BY <1>1, <1>2, PipelineInvariant, PTL DEF Spec

\* The breaker's counter is the length of the run of failed executions at the
\* end of the history, whatever calls interleave.
THEOREM BreakerCounts == Spec => []BreakerCountsFailures
<1>1. GuardInv => BreakerCountsFailures
    BY DEF GuardInv
<1> QED
    BY <1>1, GuardInvariant, PTL

\* Pruning never loses an execution that is still in the window.
THEOREM PruningIsSafe == Spec => []StampsCoverWindow
<1>1. GuardInv => StampsCoverWindow
    BY DEF GuardInv
<1> QED
    BY <1>1, GuardInvariant, PTL

\* If the last Threshold executions failed, the breaker is open.
LEMMA FailuresOpenBreaker ==
  ASSUME TypeOK, BreakerCountsFailures, LastExecutionsFailed
  PROVE  IsOpen
<1> DEFINE n == Len(finals)
<1>1. n \in Nat /\ failures \in Nat /\ Threshold \in Int
    BY GuardsAssumption DEF TypeOK, WorldTypeOK, GuardTypeOK
<1>2. /\ failures < n => finals[n - failures] = "executed"
      /\ Threshold <= n
      /\ \A i \in (n - Threshold + 1) .. n : finals[i] # "executed"
    BY DEF BreakerCountsFailures, LastExecutionsFailed
<1> HIDE DEF n
<1>3. SUFFICES ASSUME failures < Threshold PROVE FALSE
    BY <1>1 DEF IsOpen
<1>4. failures < n /\ n - failures \in (n - Threshold + 1) .. n
    BY <1>1, <1>2, <1>3
<1> QED
    BY <1>2, <1>4

\* A step admits a proposal only in propose() or execute(), when every guard
\* agrees; and what the guards say is what happened.
LEMMA AdmissionStep ==
  ASSUME TypeOK, GuardInv, [Next]_vars, Admits
  PROVE  ~ Killed /\ Cardinality(InWindow) < MaxActions /\ ~ LastExecutionsFailed
<1>1. PICK id \in Ids : verdict[id] # "ok" /\ verdict'[id] = "ok"
    BY DEF Admits
<1>2. verdict' # verdict
    BY <1>1
<1>3. \E other \in Ids : \E p : Submit(other, p)
    BY <1>2
    DEF Next, Propose, ProcessCall, ProcessPendingCall, ExecuteCall, ApproveCall, ApproveAnswers,
        Enter, IsPlan, GateAnswers, GateTimesOut, HumanRejects, ApprovedButKilled, ApprovedAndStarted, StartExecution,
        Decide, ExecutorAnswers, PlannerAnswers, Abandon, Engage, ToggleKillFile, Tick,
        vars, surfaceVars
<1>4. PICK other \in Ids : \E p : Submit(other, p)
    BY <1>3
<1>5. PICK p : Submit(other, p)
    BY <1>4
<1>6. verdict' = [verdict EXCEPT ![other] = Verdict(p)]
    BY <1>5 DEF Submit, Queue
<1>7. Verdict(p) = "ok"
    BY <1>1, <1>6 DEF TypeOK, SurfaceTypeOK
<1>8. ~ Killed /\ ~ IsOpen /\ Allowed
    BY <1>7, AcceptedMeans DEF Verdict
<1> QED
    BY <1>8, PrunedIsWindow, FailuresOpenBreaker DEF GuardInv, Allowed

\* The admission policy of the guards, for every history of executions.
THEOREM AdmissionFollowsHistory == Spec => AdmissionPolicy
<1>1. TypeOK /\ PipelineInv /\ GuardInv /\ [Next]_vars
        => [Admits => /\ ~ Killed
                      /\ Cardinality(InWindow) < MaxActions
                      /\ ~ LastExecutionsFailed]_vars
    BY AdmissionStep
<1> QED
    BY <1>1, PipelineInvariant, GuardInvariant, PTL DEF Spec, AdmissionPolicy

\* While the kill switch is engaged no step begins an execution or goes to the
\* gate.
LEMMA KilledStep ==
  ASSUME TypeOK, [Next]_vars, Killed
  PROVE  started' = started /\ \A c \in Calls : pc'[c] = "gate" => pc[c] = "gate"
<1>1. started' = started
    BY DEF Next, Propose, ProcessCall, ProcessPendingCall, ExecuteCall, ApproveCall,
           ApproveAnswers, Enter, IsPlan, GateAnswers, GateTimesOut, HumanRejects, ApprovedButKilled,
           ApprovedAndStarted, StartExecution, ExecutorAnswers, PlannerAnswers, Abandon, Engage, ToggleKillFile,
           Tick, vars, worldVars
<1>2. \A c \in Calls : \A state : Finish(c, state)
        => \A k \in Calls : pc'[k] = "gate" => pc[k] = "gate"
    BY DEF Finish, Conclude, TypeOK, CallTypeOK
<1>3. \A c \in Calls, id \in Ids, q \in Requests :
        ExecuteCall(c, id, q) \/ ApproveCall(c, id, q)
        => \A k \in Calls : pc'[k] = "gate" => pc[k] = "gate"
    BY DEF ExecuteCall, ApproveCall, Begin, TypeOK, CallTypeOK
<1>4. \A c \in Calls : Enter(c)
        => \A k \in Calls : pc'[k] = "gate" => pc[k] = "gate"
    BY <1>2 DEF Enter, IsPlan, Blocked
<1>5. \A c \in Calls : GateAnswers(c)
        => \A k \in Calls : pc'[k] = "gate" => pc[k] = "gate"
    BY <1>2 DEF GateAnswers, GateTimesOut, HumanRejects, ApprovedButKilled, ApprovedAndStarted, StartExecution
<1>6. \A c \in Calls : ExecutorAnswers(c) \/ PlannerAnswers(c)
        => \A k \in Calls : pc'[k] = "gate" => pc[k] = "gate"
    BY <1>2 DEF ExecutorAnswers, RetryTarget, NextTarget, RecordTarget, CompleteExecution, AfterExecution, PlannerAnswers
<1>7. (\E id \in Ids, p \in Proposals : Propose(id, p)) \/ Engage \/ ToggleKillFile \/ Tick
        \/ UNCHANGED vars => pc' = pc
    BY DEF Propose, Engage, ToggleKillFile, Tick, vars, callVars
<1>8. \A c \in Calls : pc'[c] = "gate" => pc[c] = "gate"
  <2>1. CASE \E c \in Calls, id \in Ids, q \in Requests :
               ExecuteCall(c, id, q) \/ ApproveCall(c, id, q)
      BY <1>3, <2>1
  <2>2. CASE \E c \in Calls, id \in Ids : ProcessCall(c, id)
      BY <2>2 DEF ProcessCall, Begin, TypeOK, CallTypeOK
  <2>3. CASE \E c \in Calls : ProcessPendingCall(c) \/ ApproveAnswers(c) \/ Abandon(c)
      BY <2>3 DEF ProcessPendingCall, ApproveAnswers, Abandon, Begin, TypeOK, CallTypeOK
  <2> QED
      BY <1>4, <1>5, <1>6, <1>7, <2>1, <2>2, <2>3 DEF Next
<1> QED
    BY <1>1, <1>8

\* No execution begins and no human is asked under an engaged kill switch.
THEOREM KillSwitchHolds == Spec => KilledStartsNothing
<1>1. TypeOK /\ PipelineInv /\ [Next]_vars
        => [Killed => /\ started' = started
                      /\ \A c \in Calls : pc'[c] = "gate" => pc[c] = "gate"]_vars
    BY KilledStep
<1> QED
    BY <1>1, PipelineInvariant, PTL DEF Spec, KilledStartsNothing

----------------------------------------------------------------------------
(* What the executor was asked, call by call.                               *)

\* A proposal that passed validation has targets and a declared action.
AcceptedContent ==
  \A id \in Ids : verdict[id] = "ok" =>
    /\ Len(request[id].targets) \in Nat \ {0}
    /\ request[id].action \in DOMAIN Allowlist

\* Only what was asked is answered, and once.
AnsweredOnce ==
  /\ \A y \in answered : y.asked \in issued
  /\ \A y, z \in answered : y.asked = z.asked => y = z

\* The live answers for a target of an execution, and what the last one says.
About(y, exec, t) == ~ y.asked.dry /\ ExecOf(y.asked) = exec /\ y.asked.target = t

Ended(exec, t, status) ==
  \E y \in answered :
    /\ About(y, exec, t) /\ StatusOf(y.answer) = status
    /\ \A z \in answered : About(z, exec, t) => z = y \/ z.asked.attempt < y.asked.attempt

\* Targets 1..n, and no others, were asked live in an execution.
AskedLive(exec, n) ==
  /\ \A t \in 1 .. n : \E x \in Mutations : ExecOf(x) = exec /\ x.target = t
  /\ \A x \in Mutations : ExecOf(x) = exec => x.target \in 1 .. n

\* Where a call stands in its batch.
Placed(c) ==
  /\ at[c] <= Len(batch[c]) + 1
  /\ pc[c] \in {"idle", "asking"} => batch[c] = << >> /\ at[c] = 1
  /\ pc[c] = "returned" => at[c] = Len(batch[c]) + 1

\* It has one result for each proposal before the one it is at.
Accounted(c) ==
  /\ Len(results[c]) = at[c] - 1
  /\ \A k \in DOMAIN results[c] : results[c][k].id = batch[c][k]

\* Nothing was done to a proposal of its batch before its turn came.
InTurn(c) ==
  /\ \A x \in issued : x.call = c =>
       /\ x.index <= at[c]
       /\ x.index = at[c] => pc[c] \in {"executing", "planning", "raised"}
  /\ \A d \in decisions : d.exec.call = c =>
       d.exec.index <= at[c] /\ (d.exec.index = at[c] => pc[c] \in {"executing", "raised"})
  /\ \A s \in started : s.exec.call = c =>
       s.exec.index <= at[c] /\ (s.exec.index = at[c] => pc[c] \in {"executing", "raised"})

\* Before the executor is asked, the counters are at their start; a plan is
\* asked for once.
Ready(c) ==
  /\ pc[c] \in {"idle", "entering", "gate"} =>
       target[c] = 1 /\ attempt[c] = 1 /\ outcomes[c] = << >>
  /\ pc[c] = "planning" => attempt[c] = 1

\* The executor call a call waits for: the latest of its execution, live or
\* dry as the execution is, and not answered yet.
Awaited(c) == ExecutorCall(c, target[c], attempt[c], pc[c] = "planning")

Outstanding(c) ==
  pc[c] \in {"executing", "planning"} =>
    /\ Awaited(c) \in issued
    /\ \A y \in answered : y.asked # Awaited(c)
    /\ \A x \in issued : ExecOf(x) = Execution(c) =>
         /\ x.dry = (pc[c] = "planning")
         /\ x.target <= target[c]
         /\ x.target = target[c] => x.attempt <= attempt[c]

\* The outcomes collected so far are the last answers of the targets behind.
Underway(c) ==
  pc[c] = "executing" =>
    /\ target[c] <= Len(Targets(Current(c)))
    /\ Len(outcomes[c]) = target[c] - 1
    /\ \A t \in 1 .. (target[c] - 1) : Ended(Execution(c), t, outcomes[c][t])
    /\ AskedLive(Execution(c), target[c])

\* A result is the final state of the last answers of all targets, or stands
\* for an execution that asked nothing live.
ToldBy(exec, state) ==
  IF state \in FinalStates
    THEN LET n == Len(Targets(Subject(exec))) IN
         /\ AskedLive(exec, n)
         /\ \E outs \in Seq(Statuses) :
              /\ Len(outs) = n /\ state = FinalState(outs)
              /\ \A t \in 1 .. n : Ended(exec, t, outs[t])
    ELSE \A x \in Mutations : ExecOf(x) # exec

Told(c) == \A k \in DOMAIN results[c] : ToldBy([call |-> c, index |-> k], results[c][k].state)

CallInv(c) ==
  Placed(c) /\ Accounted(c) /\ InTurn(c) /\ Ready(c) /\ Outstanding(c) /\ Underway(c) /\ Told(c)

ExecutionInv ==
  AcceptedContent /\ AnsweredOnce /\ RetryPolicy /\ \A c \in Calls : CallInv(c)

----------------------------------------------------------------------------
(* Executions.                                                              *)

LEMMA ExecIs ==
  ASSUME NEW x, NEW c, NEW k
  PROVE  /\ ExecOf(x) = [call |-> c, index |-> k] <=> x.call = c /\ x.index = k
         /\ ExecOf(x).call = x.call /\ ExecOf(x).index = x.index
         /\ ExecOf(x)' = ExecOf(x)
  BY DEF ExecOf

\* A finished execution, or one that another call disturbs, stays as it was.
LEMMA ExecKept ==
  ASSUME NEW exec, issued \subseteq issued', answered \subseteq answered',
         \A x \in issued' : x \in issued \/ ExecOf(x) # exec,
         \A y \in answered' : y \in answered \/ ExecOf(y.asked) # exec
  PROVE  /\ \A t, status : Ended(exec, t, status) => Ended(exec, t, status)'
         /\ \A n : AskedLive(exec, n) => AskedLive(exec, n)'
         /\ (\A x \in Mutations : ExecOf(x) # exec) => \A x \in Mutations' : ExecOf(x) # exec
<1>1. ASSUME NEW t, NEW status, Ended(exec, t, status) PROVE Ended(exec, t, status)'
  <2>1. PICK y \in answered :
          /\ About(y, exec, t) /\ StatusOf(y.answer) = status
          /\ \A z \in answered : About(z, exec, t) => z = y \/ z.asked.attempt < y.asked.attempt
      BY <1>1 DEF Ended
  <2>2. \A z \in answered' : About(z, exec, t) => z \in answered
      BY DEF About
  <2> QED
      BY <2>1, <2>2 DEF Ended, About, ExecOf
<1>2. ASSUME NEW n, AskedLive(exec, n) PROVE AskedLive(exec, n)'
    BY <1>2 DEF AskedLive, Mutations, ExecOf
<1>3. (\A x \in Mutations : ExecOf(x) # exec) => \A x \in Mutations' : ExecOf(x) # exec
    BY DEF Mutations
<1> QED
    BY <1>1, <1>2, <1>3

LEMMA ToldKept ==
  ASSUME NEW exec, NEW state, ToldBy(exec, state),
         issued \subseteq issued', answered \subseteq answered',
         \A x \in issued' : x \in issued \/ ExecOf(x) # exec,
         \A y \in answered' : y \in answered \/ ExecOf(y.asked) # exec,
         Targets(Subject(exec))' = Targets(Subject(exec))
  PROVE  ToldBy(exec, state)'
<1>1. PICK n : n = Len(Targets(Subject(exec)))
    OBVIOUS
<1>2. n = Len(Targets(Subject(exec)))'
    BY <1>1
<1>3. CASE state \in FinalStates
  <2>1. /\ AskedLive(exec, n)
        /\ \E outs \in Seq(Statuses) :
             /\ Len(outs) = n /\ state = FinalState(outs)
             /\ \A t \in 1 .. n : Ended(exec, t, outs[t])
      BY <1>1, <1>3 DEF ToldBy
  <2>2. AskedLive(exec, n)'
      BY <2>1, ExecKept
  <2>3. PICK outs \in Seq(Statuses) :
          /\ Len(outs) = n /\ state = FinalState(outs)
          /\ \A t \in 1 .. n : Ended(exec, t, outs[t])
      BY <2>1
  <2>4. \A t \in 1 .. n : Ended(exec, t, outs[t])'
      BY <2>3, ExecKept
  <2> QED
      BY <1>2, <1>3, <2>2, <2>3, <2>4 DEF ToldBy
<1>4. CASE state \notin FinalStates
    BY <1>4, ExecKept DEF ToldBy
<1> QED
    BY <1>3, <1>4

\* What is not about call o leaves it as it was, also when it raises; so does
\* a call of approve(), or one that finds nothing to process.
LEMMA Undisturbed ==
  ASSUME TypeOK, TypeOK', PipelineInv, NEW o \in Calls, CallInv(o),
         issued \subseteq issued', answered \subseteq answered',
         \A x \in issued' : x \in issued \/ x.call # o,
         \A y \in answered' : y \in answered \/ y.asked.call # o,
         \A d \in decisions' : d \in decisions \/ d.exec.call # o,
         \A s \in started' : s \in started \/ s.exec.call # o,
         at'[o] = at[o], batch'[o] = batch[o], target'[o] = target[o],
         attempt'[o] = attempt[o], outcomes'[o] = outcomes[o], results'[o] = results[o],
         \A k \in DOMAIN batch[o] : request'[batch[o][k]] = request[batch[o][k]],
         \/ pc'[o] = pc[o]
         \/ pc'[o] = "raised" /\ pc[o] \in Waiting
         \/ pc'[o] \in {"asking", "returned"} /\ pc[o] \in {"idle", "asking"}
  PROVE  CallInv(o)'
<1>1. /\ at[o] \in Nat \ {0} /\ batch[o] \in Seq(Ids) /\ target[o] \in Nat \ {0}
      /\ attempt[o] \in 1 .. 2 /\ outcomes[o] \in Seq(Statuses)
      /\ results[o] \in Seq([id : Ids, state : ActionStates])
    BY DEF TypeOK, CallTypeOK
<1>2. Placed(o)'
    BY <1>1 DEF CallInv, Placed, Waiting
<1>3. Accounted(o)'
    BY DEF CallInv, Accounted
<1>4. InTurn(o)'
    BY <1>1 DEF CallInv, InTurn, Waiting
<1>5. Ready(o)'
    BY DEF CallInv, Ready
<1>6. Execution(o)' = Execution(o) /\ Execution(o).call = o /\ Execution(o).index = at[o]
    BY DEF Execution
<1>7. \A x : ExecOf(x)' = ExecOf(x) /\ ExecOf(x).call = x.call
    BY DEF ExecOf
<1>8. Outstanding(o)'
  <2> SUFFICES ASSUME pc'[o] \in {"executing", "planning"}
               PROVE  /\ Awaited(o)' \in issued'
                      /\ \A y \in answered' : y.asked # Awaited(o)'
                      /\ \A x \in issued' : ExecOf(x)' = Execution(o)' =>
                           /\ x.dry = (pc'[o] = "planning")
                           /\ x.target <= target'[o]
                           /\ x.target = target'[o] => x.attempt <= attempt'[o]
      BY DEF Outstanding
  <2>1. pc'[o] = pc[o]
      OBVIOUS
  <2>2. Awaited(o)' = Awaited(o) /\ Awaited(o).call = o
      BY <2>1 DEF Awaited, ExecutorCall
  <2>3. /\ Awaited(o) \in issued
        /\ \A y \in answered : y.asked # Awaited(o)
        /\ \A x \in issued : ExecOf(x) = Execution(o) =>
             /\ x.dry = (pc[o] = "planning")
             /\ x.target <= target[o]
             /\ x.target = target[o] => x.attempt <= attempt[o]
      BY <2>1 DEF CallInv, Outstanding
  <2>4. \A y \in answered' : y.asked # Awaited(o)'
      BY <2>2, <2>3
  <2>5. \A x \in issued' : ExecOf(x) = Execution(o) => x \in issued
      BY <1>6, <1>7
  <2> QED
      BY <1>6, <1>7, <2>1, <2>2, <2>3, <2>4, <2>5
<1>9. \A k \in DOMAIN batch[o] :
        LET exec == [call |-> o, index |-> k] IN
        Targets(Subject(exec))' = Targets(Subject(exec))
    BY DEF Targets, Subject
<1>10. \A k : LET exec == [call |-> o, index |-> k] IN
         /\ \A x \in issued' : x \in issued \/ ExecOf(x) # exec
         /\ \A y \in answered' : y \in answered \/ ExecOf(y.asked) # exec
    BY DEF ExecOf
<1>11. Underway(o)'
  <2> SUFFICES ASSUME pc'[o] = "executing"
               PROVE  /\ target'[o] <= Len(Targets(Current(o))')
                      /\ Len(outcomes'[o]) = target'[o] - 1
                      /\ \A t \in 1 .. (target'[o] - 1) : Ended(Execution(o), t, outcomes[o][t])'
                      /\ AskedLive(Execution(o), target[o])'
      BY DEF Underway
  <2>1. pc[o] = "executing"
      OBVIOUS
  <2>2. PICK e : e = Execution(o)
      OBVIOUS
  <2>3. PICK n : n = target[o]
      OBVIOUS
  <2>4. PICK outs : outs = outcomes[o]
      OBVIOUS
  <2>5. /\ n <= Len(Targets(Current(o))) /\ Len(outs) = n - 1
        /\ \A t \in 1 .. (n - 1) : Ended(e, t, outs[t])
        /\ AskedLive(e, n)
      BY <2>1, <2>2, <2>3, <2>4 DEF CallInv, Underway
  <2>6. e = [call |-> o, index |-> at[o]]
      BY <2>2 DEF Execution
  <2>7. /\ \A t \in 1 .. (n - 1) : Ended(e, t, outs[t])'
        /\ AskedLive(e, n)'
      BY <1>10, <2>5, <2>6, ExecKept
  <2>8. Current(o) = Subject(e) /\ Current(o)' = Subject(e)' /\ at[o] \in DOMAIN batch[o]
      BY <2>1, <2>6, CurrentType DEF PipelineInv, TypeOK, Current, Subject, Busy
  <2>9. Targets(Current(o))' = Targets(Current(o))
      BY <1>9, <2>6, <2>8
  <2> QED
      BY <1>6, <2>2, <2>3, <2>4, <2>5, <2>7, <2>9
<1>12. Told(o)'
  <2> SUFFICES ASSUME NEW k \in DOMAIN results[o]
               PROVE  ToldBy([call |-> o, index |-> k], results[o][k].state)'
      BY DEF Told
  <2>1. PICK state : state = results[o][k].state
      OBVIOUS
  <2>2. ToldBy([call |-> o, index |-> k], state)
      BY <2>1 DEF CallInv, Told
  <2>3. k \in DOMAIN batch[o]
      BY <1>1 DEF CallInv, Placed, Accounted
  <2>4. ToldBy([call |-> o, index |-> k], state)'
      BY <1>9, <1>10, <2>2, <2>3, ToldKept
  <2> QED
      BY <2>1, <2>4
<1> QED
    BY <1>2, <1>3, <1>4, <1>5, <1>8, <1>11, <1>12 DEF CallInv

\* A call takes its batch: it has left no trace yet.
LEMMA CallBegins ==
  ASSUME TypeOK, NEW c \in Calls, CallInv(c), pc[c] = "idle",
         NEW ids \in Seq(Ids), Begin(c, ids),
         UNCHANGED << at, target, attempt, outcomes, results, issued, decisions, started >>
  PROVE  CallInv(c)'
<1>a. pc'[c] = "entering" /\ batch'[c] = ids
    BY DEF Begin, TypeOK, CallTypeOK
<1>b. results[c] \in Seq([id : Ids, state : ActionStates])
    BY DEF TypeOK, CallTypeOK
<1>1. /\ pc'[c] = "entering" /\ batch'[c] = ids /\ Len(ids) \in Nat
      /\ results[c] \in Seq([id : Ids, state : ActionStates])
    BY <1>a, <1>b
<1>2. /\ at[c] = 1 /\ results[c] = << >>
      /\ target[c] = 1 /\ attempt[c] = 1 /\ outcomes[c] = << >>
    BY <1>1 DEF CallInv, Placed, Accounted, Ready
<1>3. /\ \A x \in issued : x.call = c => x.index <= at[c] /\ x.index # at[c]
      /\ \A d \in decisions : d.exec.call = c => d.exec.index <= at[c] /\ d.exec.index # at[c]
      /\ \A s \in started : s.exec.call = c => s.exec.index <= at[c] /\ s.exec.index # at[c]
    BY DEF CallInv, InTurn
<1>4. Placed(c)' /\ Accounted(c)' /\ Ready(c)' /\ Outstanding(c)' /\ Underway(c)' /\ Told(c)'
    BY <1>1, <1>2 DEF Placed, Accounted, Ready, Outstanding, Underway, Told
<1>5. InTurn(c)'
    BY <1>3 DEF InTurn
<1> QED
    BY <1>4, <1>5 DEF CallInv

\* A call returns a result for the proposal it is at.
LEMMA CallFinishes ==
  ASSUME TypeOK, TypeOK', PipelineInv, NEW c \in Calls, CallInv(c), pc[c] \in Busy,
         NEW state, Finish(c, state), NEW k, k = at[c],
         ToldBy([call |-> c, index |-> k], state)',
         UNCHANGED << request, issued, started >>,
         answered \subseteq answered',
         \A y \in answered' : y \in answered \/ ExecOf(y.asked) = Execution(c),
         \A d \in decisions' : d \in decisions \/ d.exec = Execution(c)
  PROVE  CallInv(c)'
<1>1. /\ at[c] \in Nat \ {0} /\ batch[c] \in Seq(Ids) /\ k \in DOMAIN batch[c]
      /\ results[c] \in Seq([id : Ids, state : ActionStates])
    BY CurrentType DEF TypeOK, CallTypeOK, PipelineInv
<1> DEFINE result == [id |-> Current(c), state |-> state]
<1>2. /\ results'[c] = Append(results[c], result) /\ batch' = batch
      /\ at'[c] = k + 1 /\ target'[c] = 1 /\ attempt'[c] = 1 /\ outcomes'[c] = << >>
      /\ \/ pc'[c] = "entering" /\ k < Len(batch[c])
         \/ pc'[c] = "returned" /\ ~ (k < Len(batch[c]))
    BY DEF Finish, Conclude, TypeOK, CallTypeOK
<1>3. Len(results[c]) = k - 1 /\ \A i \in DOMAIN results[c] : results[c][i].id = batch[c][i]
    BY DEF CallInv, Accounted
<1>4. result.id = batch[c][k] /\ result.state = state
    BY DEF Current
<1> HIDE DEF result
<1>5. /\ Len(results'[c]) = k /\ results'[c][k] = result
      /\ \A i \in 1 .. (k - 1) : results'[c][i] = results[c][i] /\ i \in DOMAIN results[c]
  <2>1. PICK S : results[c] \in Seq(S)
      BY <1>1
  <2>2. PICK s : s = results[c]
      OBVIOUS
  <2>3. PICK r : r = result
      OBVIOUS
  <2>4. s \in Seq(S \cup {r}) /\ Len(s) = k - 1 /\ k \in Nat
      BY <1>1, <1>3, <2>1, <2>2
  <2>5. /\ Len(Append(s, r)) = k /\ Append(s, r)[k] = r
        /\ \A i \in 1 .. (k - 1) : Append(s, r)[i] = s[i] /\ i \in DOMAIN s
      BY <2>4
  <2> QED
      BY <1>2, <2>2, <2>3, <2>5
<1>6. DOMAIN results'[c] = 1 .. k
    BY <1>1, <1>5 DEF TypeOK, CallTypeOK
<1>7. Placed(c)'
    BY <1>1, <1>2 DEF Placed
<1>8. Accounted(c)'
  <2>1. \A i \in 1 .. k : i = k \/ i \in 1 .. (k - 1)
      BY <1>1
  <2>2. \A i \in DOMAIN results'[c] : results'[c][i].id = batch[c][i]
      BY <1>3, <1>4, <1>5, <1>6, <2>1
  <2> QED
      BY <1>1, <1>2, <1>5, <2>2 DEF Accounted
<1>9. InTurn(c)'
  <2>1. \A x \in issued : x.call = c => x.index \in Nat /\ x.index <= k
      BY DEF CallInv, InTurn, TypeOK, WorldTypeOK, ExecutorCalls
  <2>2. \A d \in decisions' : d.exec.call = c => d.exec.index \in Nat /\ d.exec.index <= k
      BY DEF CallInv, InTurn, TypeOK, WorldTypeOK, Execs, Execution
  <2>3. \A s \in started : s.exec.call = c => s.exec.index \in Nat /\ s.exec.index <= k
      BY DEF CallInv, InTurn, TypeOK, WorldTypeOK, Stamps, Execs
  <2> QED
      BY <1>1, <1>2, <2>1, <2>2, <2>3 DEF InTurn
<1>10. Ready(c)' /\ Outstanding(c)' /\ Underway(c)'
    BY <1>2 DEF Ready, Outstanding, Underway
<1>11. Told(c)'
  <2> SUFFICES ASSUME NEW i \in 1 .. k
               PROVE  ToldBy([call |-> c, index |-> i], results[c][i].state)'
      BY <1>6 DEF Told
  <2>1. CASE i = k
      BY <1>4, <1>5, <2>1
  <2>2. CASE i # k
    <3>1. i \in 1 .. (k - 1)
        BY <1>1, <2>2
    <3>2. PICK st : st = results[c][i].state
        OBVIOUS
    <3>3. PICK exec : exec = [call |-> c, index |-> i]
        OBVIOUS
    <3>4. ToldBy(exec, st)
        BY <1>5, <3>1, <3>2, <3>3 DEF CallInv, Told
    <3>5. \A y \in answered' : y \in answered \/ ExecOf(y.asked) # exec
        BY <2>2, <3>3 DEF Execution
    <3>6. Targets(Subject(exec))' = Targets(Subject(exec))
        BY <1>2 DEF Targets, Subject
    <3>7. ToldBy(exec, st)'
        BY <3>4, <3>5, <3>6, ToldKept
    <3> QED
        BY <1>5, <3>1, <3>2, <3>3, <3>7
  <2> QED
      BY <2>1, <2>2
<1> QED
    BY <1>7, <1>8, <1>9, <1>10, <1>11 DEF CallInv

----------------------------------------------------------------------------
(* Asking the executor, and its answers.                                    *)

LEMMA EndedKept ==
  ASSUME NEW exec, NEW t, NEW status, Ended(exec, t, status),
         answered \subseteq answered',
         \A y \in answered' : y \in answered \/ ~ About(y, exec, t)
  PROVE  Ended(exec, t, status)'
<1>1. PICK y \in answered :
        /\ About(y, exec, t) /\ StatusOf(y.answer) = status
        /\ \A z \in answered : About(z, exec, t) => z = y \/ z.asked.attempt < y.asked.attempt
    BY DEF Ended
<1>2. \A z \in answered' : About(z, exec, t) => z \in answered
    OBVIOUS
<1> QED
    BY <1>1, <1>2 DEF Ended, About, ExecOf

\* The record of an executor call is what it is about.
LEMMA AskedIs ==
  ASSUME WorldTypeOK, NEW x \in issued, NEW c, NEW t, NEW a, NEW dry
  PROVE  /\ x = ExecutorCall(c, t, a, dry) <=>
              ExecOf(x) = Execution(c) /\ x.target = t /\ x.attempt = a /\ x.dry = dry
         /\ x.target \in Nat /\ x.attempt \in Nat /\ x.dry \in BOOLEAN
         /\ x.call \in Calls /\ x.index \in Nat
<1>1. x \in ExecutorCalls
    BY DEF WorldTypeOK
<1> QED
    BY <1>1 DEF ExecutorCalls, ExecutorCall, ExecOf, Execution

\* A call asks for something new, within its turn.
LEMMA CallAsks ==
  ASSUME TypeOK, TypeOK', PipelineInv, AnsweredOnce, NEW c \in Calls, CallInv(c), pc[c] \in Busy,
         NEW x, x = Awaited(c)', x \notin issued, issued' = issued \cup {x},
         pc'[c] \in {"executing", "planning"},
         UNCHANGED << request, batch, at, results >>,
         \A z \in issued : ExecOf(z) = Execution(c) =>
           /\ z.dry = (pc'[c] = "planning")
           /\ z.target <= target'[c]
           /\ z.target = target'[c] => z.attempt <= attempt'[c],
         answered \subseteq answered',
         \A y \in answered' : y \in answered \/ (y.asked \in issued /\ ExecOf(y.asked) = Execution(c)),
         \A d \in decisions' : d \in decisions \/ (d.exec = Execution(c) /\ pc'[c] = "executing"),
         \A s \in started' : s \in started \/ (s.exec = Execution(c) /\ pc'[c] = "executing"),
         pc[c] = "executing" => pc'[c] = "executing",
         pc'[c] = "planning" => attempt'[c] = 1,
         Underway(c)'
  PROVE  CallInv(c)'
<1>1. /\ at[c] \in Nat \ {0} /\ batch[c] \in Seq(Ids) /\ Len(batch[c]) \in Nat
      /\ at[c] <= Len(batch[c])
    BY DEF TypeOK, CallTypeOK, PipelineInv, Located
<1>2. /\ ExecOf(x) = Execution(c) /\ x.call = c /\ x.index = at[c]
      /\ x.target = target'[c] /\ x.attempt = attempt'[c] /\ x.dry = (pc'[c] = "planning")
    BY DEF Awaited, ExecutorCall, ExecOf, Execution
<1>3. Execution(c)' = Execution(c) /\ Execution(c).call = c /\ Execution(c).index = at[c]
    BY DEF Execution
<1>4. Placed(c)' /\ Accounted(c)'
    BY <1>1 DEF CallInv, Placed, Accounted
<1>5. InTurn(c)'
  <2>1. \A z \in issued' : z.call = c => z.index <= at[c]
      BY <1>1, <1>2 DEF CallInv, InTurn
  <2>2. \A d \in decisions' : d.exec.call = c =>
          d.exec.index <= at[c] /\ (d.exec.index = at[c] => pc'[c] \in {"executing", "raised"})
      BY <1>1, <1>3 DEF CallInv, InTurn, Busy
  <2>3. \A s \in started' : s.exec.call = c =>
          s.exec.index <= at[c] /\ (s.exec.index = at[c] => pc'[c] \in {"executing", "raised"})
      BY <1>1, <1>3 DEF CallInv, InTurn, Busy
  <2> QED
      BY <2>1, <2>2, <2>3 DEF InTurn
<1>6. Ready(c)'
    BY DEF Ready
<1>7. Outstanding(c)'
  <2>1. Awaited(c)' \in issued'
      OBVIOUS
  <2>2. \A y \in answered' : y.asked # Awaited(c)'
      BY DEF AnsweredOnce
  <2>3. target'[c] \in Nat /\ attempt'[c] \in Nat
    <3>1. target'[c] \in Nat \ {0} /\ attempt'[c] \in 1 .. 2
        BY DEF TypeOK, CallTypeOK
    <3> QED
        BY <3>1
  <2>4. \A z \in issued' : ExecOf(z) = Execution(c) =>
           /\ z.dry = (pc'[c] = "planning")
           /\ z.target <= target'[c]
           /\ z.target = target'[c] => z.attempt <= attempt'[c]
      BY <1>2, <2>3
  <2> QED
      BY <1>3, <2>1, <2>2, <2>4, ExecIs DEF Outstanding
<1>8. Told(c)'
  <2> SUFFICES ASSUME NEW i \in DOMAIN results[c]
               PROVE  ToldBy([call |-> c, index |-> i], results[c][i].state)'
      BY DEF Told
  <2>1. i # at[c]
    <3>1. results[c] \in Seq([id : Ids, state : ActionStates])
        BY DEF TypeOK, CallTypeOK
    <3>2. Len(results[c]) = at[c] - 1
        BY DEF CallInv, Accounted
    <3> QED
        BY <1>1, <3>1, <3>2
  <2>2. PICK st : st = results[c][i].state
      OBVIOUS
  <2>3. PICK exec : exec = [call |-> c, index |-> i]
      OBVIOUS
  <2>4. exec # Execution(c)
      BY <2>1, <2>3 DEF Execution
  <2>5. ToldBy(exec, st)
      BY <2>2, <2>3 DEF CallInv, Told
  <2>6. /\ \A y \in answered' : y \in answered \/ ExecOf(y.asked) # exec
        /\ \A z \in issued' : z \in issued \/ ExecOf(z) # exec
      BY <1>2, <2>4
  <2>7. Targets(Subject(exec))' = Targets(Subject(exec))
      BY DEF Targets, Subject
  <2>8. ToldBy(exec, st)'
      BY <2>5, <2>6, <2>7, ToldKept
  <2> QED
      BY <2>2, <2>3, <2>8
<1> QED
    BY <1>4, <1>5, <1>6, <1>7, <1>8 DEF CallInv

\* Before its turn nothing was asked for an execution.
LEMMA NothingAsked ==
  ASSUME NEW c \in Calls, CallInv(c), pc[c] \in {"idle", "entering", "gate", "asking"}
  PROVE  /\ \A x \in issued : ExecOf(x) # Execution(c)
         /\ \A d \in decisions : d.exec # Execution(c)
         /\ \A s \in started : s.exec # Execution(c)
  BY DEF CallInv, InTurn, ExecOf, Execution

LEMMA SameAsked ==
  ASSUME NEW exec, NEW n, issued' = issued, AskedLive(exec, n)
  PROVE  AskedLive(exec, n)'
  BY DEF AskedLive, Mutations, ExecOf

\* One target more was asked.
LEMMA AskedOneMore ==
  ASSUME WorldTypeOK, NEW exec, NEW n \in Nat, NEW x, issued' = issued \cup {x},
         ExecOf(x) = exec, ~ x.dry, x.target = n + 1,
         AskedLive(exec, n) \/ AskedLive(exec, n + 1)
  PROVE  AskedLive(exec, n + 1)'
<1>1. CASE AskedLive(exec, n)
  <2>1. \A t \in 1 .. (n + 1) : t = n + 1 \/ t \in 1 .. n
      OBVIOUS
  <2>2. \A t \in 1 .. n : t \in 1 .. (n + 1)
      OBVIOUS
  <2>3. n + 1 \in 1 .. (n + 1)
      OBVIOUS
  <2> QED
      BY <1>1, <2>1, <2>2, <2>3 DEF AskedLive, Mutations, ExecOf
<1>2. CASE AskedLive(exec, n + 1)
  <2>1. n + 1 \in 1 .. (n + 1)
      OBVIOUS
  <2> QED
      BY <1>2, <2>1 DEF AskedLive, Mutations, ExecOf
<1> QED
    BY <1>1, <1>2

\* An answer that is not followed by a retry ends its target.
LEMMA JustEnded ==
  ASSUME TypeOK, AnsweredOnce, NEW c \in Calls, CallInv(c), pc[c] = "executing",
         NEW answer, Answered(c, answer, FALSE), NEW exec, exec = Execution(c),
         NEW n, n = target[c]
  PROVE  Ended(exec, n, StatusOf(answer))'
<1> DEFINE y == [asked |-> ExecutorCall(c, target[c], attempt[c], FALSE), answer |-> answer]
<1>1. answered' = answered \cup {y} /\ y.asked = Awaited(c) /\ y.answer = answer
    BY DEF Answered, Awaited
<1>2. /\ ExecOf(y.asked) = exec /\ y.asked.target = n /\ ~ y.asked.dry
      /\ y.asked.attempt = attempt[c]
    BY DEF ExecOf, ExecutorCall, Execution
<1>3. About(y, exec, n)
    BY <1>2 DEF About
<1> HIDE DEF y
<1>4. ASSUME NEW z \in answered, About(z, exec, n)
      PROVE  z.asked.attempt < attempt[c]
  <2>1. /\ z.asked \in issued /\ ExecOf(z.asked) = Execution(c) /\ z.asked.target = target[c]
        /\ ~ z.asked.dry
      BY <1>4 DEF AnsweredOnce, About
  <2>2. z.asked.attempt <= attempt[c] /\ z.asked # Awaited(c)
      BY <2>1 DEF CallInv, Outstanding
  <2>3. z.asked.attempt # attempt[c]
      BY <2>1, <2>2, AskedIs DEF Awaited, TypeOK
  <2>4. z.asked.attempt \in Nat /\ attempt[c] \in Nat
      BY <2>1, AskedIs, CountersType DEF TypeOK
  <2> QED
      BY <2>2, <2>3, <2>4
<1>5. \A z \in answered' : About(z, exec, n) => z = y \/ z.asked.attempt < y.asked.attempt
    BY <1>1, <1>2, <1>4
<1> QED
    BY <1>1, <1>3, <1>5 DEF Ended, About, ExecOf

----------------------------------------------------------------------------
(* The steps of the surface.                                                *)

\* Only the record of call c moves, and what is done is done by it.
OnlyMoves(c) ==
  /\ \A o \in Calls \ {c} :
       /\ pc'[o] = pc[o] /\ batch'[o] = batch[o] /\ at'[o] = at[o]
       /\ target'[o] = target[o] /\ attempt'[o] = attempt[o]
       /\ outcomes'[o] = outcomes[o] /\ results'[o] = results[o]
  /\ issued \subseteq issued' /\ answered \subseteq answered'
  /\ \A x \in issued' : x \in issued \/ x.call = c
  /\ \A y \in answered' : y \in answered \/ y.asked.call = c
  /\ \A d \in decisions' : d \in decisions \/ d.exec.call = c
  /\ \A s \in started' : s \in started \/ s.exec.call = c

LEMMA EnterMoves ==
  ASSUME TypeOK, NEW c \in Calls, Enter(c)
  PROVE  OnlyMoves(c)
<1>1. CASE Blocked(c) /\ issued' = issued
    BY <1>1 DEF Enter, OnlyMoves, Blocked, Finish, Conclude, TypeOK, CallTypeOK
<1>2. CASE /\ Await(c, "planning")
           /\ Issue(c, target[c], 1, TRUE)
           /\ UNCHANGED << trail, batch, at, target, attempt, outcomes, results >>
    BY <1>2 DEF Enter, OnlyMoves, Await, Issue, ExecutorCall, TypeOK, CallTypeOK
<1>3. CASE /\ Await(c, "gate")
           /\ UNCHANGED << trail, issued, batch, at, target, attempt, outcomes, results >>
    BY <1>3 DEF Enter, OnlyMoves, Await, TypeOK, CallTypeOK
<1> QED
    BY <1>1, <1>2, <1>3 DEF Enter

LEMMA GateMoves ==
  ASSUME TypeOK, NEW c \in Calls, GateAnswers(c)
  PROVE  OnlyMoves(c)
<1> PICK d \in Decisions : \/ GateTimesOut(c, d)
                           \/ HumanRejects(c, d)
                           \/ ApprovedButKilled(c, d)
                           \/ ApprovedAndStarted(c, d)
    BY DEF GateAnswers
<1>1. /\ answered' = answered
      /\ \A e \in decisions' : e \in decisions \/ e.exec.call = c
  <2>1. Decide(c, d)
      BY DEF GateTimesOut, HumanRejects, ApprovedButKilled, ApprovedAndStarted, StartExecution
  <2> QED
      BY <2>1 DEF Decide, Execution
<1>2. CASE GateTimesOut(c, d) \/ HumanRejects(c, d) \/ ApprovedButKilled(c, d)
  <2>1. issued' = issued /\ started' = started /\ \E state : Finish(c, state)
      BY <1>2 DEF GateTimesOut, HumanRejects, ApprovedButKilled
  <2> QED
      BY <1>1, <2>1 DEF OnlyMoves, Finish, Conclude, TypeOK, CallTypeOK
<1>3. CASE ApprovedAndStarted(c, d)
  <2>1. /\ pc' = [pc EXCEPT ![c] = "executing"]
        /\ issued' = issued \cup {ExecutorCall(c, target[c], attempt[c], FALSE)}
        /\ started' = started \cup {[exec |-> Execution(c), time |-> now]}
        /\ UNCHANGED << batch, at, target, attempt, outcomes, results >>
      BY <1>3 DEF ApprovedAndStarted, StartExecution, Await, Issue
  <2> QED
      BY <1>1, <2>1 DEF OnlyMoves, ExecutorCall, Execution, TypeOK, CallTypeOK
<1> QED
    BY <1>2, <1>3

LEMMA ExecutorMoves ==
  ASSUME TypeOK, NEW c \in Calls, ExecutorAnswers(c)
  PROVE  OnlyMoves(c)
<1> PICK answer \in Answers : /\ Answered(c, answer, FALSE)
                              /\ \/ RetryTarget(c, answer)
                                 \/ NextTarget(c, answer)
                                 \/ CompleteExecution(c, answer)
    BY DEF ExecutorAnswers
<1>1. /\ answered \subseteq answered' /\ \A y \in answered' : y \in answered \/ y.asked.call = c
      /\ decisions' = decisions /\ started' = started
    BY DEF ExecutorAnswers, Answered, ExecutorCall
<1>2. CASE RetryTarget(c, answer)
    BY <1>1, <1>2 DEF OnlyMoves, RetryTarget, Issue, ExecutorCall, TypeOK, CallTypeOK
<1>3. CASE NextTarget(c, answer)
    BY <1>1, <1>3 DEF OnlyMoves, NextTarget, Issue, ExecutorCall, TypeOK, CallTypeOK
<1>4. CASE CompleteExecution(c, answer)
  <2>1. issued' = issued /\ \E state : Finish(c, state)
      BY <1>4 DEF CompleteExecution
  <2> QED
      BY <1>1, <2>1 DEF OnlyMoves, Finish, Conclude, TypeOK, CallTypeOK
<1> QED
    BY <1>2, <1>3, <1>4

LEMMA PlannerMoves ==
  ASSUME TypeOK, NEW c \in Calls, PlannerAnswers(c)
  PROVE  OnlyMoves(c)
<1>1. /\ answered \subseteq answered' /\ \A y \in answered' : y \in answered \/ y.asked.call = c
      /\ decisions' = decisions /\ started' = started
    BY DEF PlannerAnswers, Answered, ExecutorCall
<1>2. CASE target[c] < Len(Targets(Current(c)))
    BY <1>1, <1>2 DEF PlannerAnswers, OnlyMoves, Issue, ExecutorCall, TypeOK, CallTypeOK
<1>3. CASE ~ (target[c] < Len(Targets(Current(c))))
    BY <1>1, <1>3 DEF PlannerAnswers, OnlyMoves, Finish, Conclude, TypeOK, CallTypeOK
<1> QED
    BY <1>2, <1>3

\* The other calls keep their part of the invariant.
LEMMA OthersKept ==
  ASSUME TypeOK, TypeOK', PipelineInv, \A o \in Calls : CallInv(o), NEW c \in Calls, OnlyMoves(c),
         request' = request
  PROVE  \A o \in Calls : o # c => CallInv(o)'
  BY Undisturbed DEF OnlyMoves

\* The first line of process() to its first await.
LEMMA EnterCall ==
  ASSUME TypeOK, TypeOK', PipelineInv, AnsweredOnce, NEW c \in Calls, CallInv(c), Enter(c)
  PROVE  CallInv(c)'
<1>1. pc[c] = "entering" /\ UNCHANGED << request, answered, decisions, started >>
    BY DEF Enter
<1>2. \A x \in issued : ExecOf(x) # Execution(c)
    BY <1>1, NothingAsked
<1>3. target[c] = 1 /\ attempt[c] = 1
    BY <1>1 DEF CallInv, Ready
<1>4. pc[c] \in Busy
    BY <1>1 DEF Busy
<1>5. CASE Blocked(c) /\ issued' = issued
  <2>1. PICK k : k = at[c]
      OBVIOUS
  <2>2. ToldBy([call |-> c, index |-> k], "killed")'
      BY <1>2, <1>5, <2>1 DEF ToldBy, FinalStates, Mutations, ExecOf, Execution
  <2> QED
      BY <1>1, <1>4, <1>5, <2>1, <2>2, CallFinishes DEF Blocked
<1>6. CASE /\ Await(c, "planning")
           /\ Issue(c, target[c], 1, TRUE)
           /\ UNCHANGED << trail, batch, at, target, attempt, outcomes, results >>
  <2>1. pc'[c] = "planning"
      BY <1>6 DEF Await, TypeOK, CallTypeOK
  <2>2. Awaited(c)' = ExecutorCall(c, target[c], 1, TRUE)
      BY <1>3, <1>6, <2>1 DEF Awaited, ExecutorCall
  <2>3. PICK x : x = Awaited(c)'
      OBVIOUS
  <2>4. ExecOf(x) = Execution(c)
      BY <2>2, <2>3 DEF ExecOf, ExecutorCall, Execution
  <2>5. x \notin issued /\ issued' = issued \cup {x}
      BY <1>2, <1>6, <2>2, <2>3, <2>4 DEF Issue
  <2>6. Underway(c)'
      BY <2>1 DEF Underway
  <2> QED
      BY <1>1, <1>2, <1>3, <1>4, <1>6, <2>1, <2>3, <2>5, <2>6, CallAsks
<1>7. CASE /\ Await(c, "gate")
           /\ UNCHANGED << trail, issued, batch, at, target, attempt, outcomes, results >>
  <2>1. pc'[c] = "gate"
      BY <1>7 DEF Await, TypeOK, CallTypeOK
  <2>2. Placed(c)' /\ Accounted(c)' /\ Ready(c)' /\ Outstanding(c)' /\ Underway(c)'
      BY <1>1, <1>7, <2>1 DEF CallInv, Placed, Accounted, Ready, Outstanding, Underway
  <2>3. InTurn(c)'
      BY <1>1, <1>7 DEF CallInv, InTurn
  <2>4. Told(c)'
    <3> SUFFICES ASSUME NEW k \in DOMAIN results[c]
                 PROVE  ToldBy([call |-> c, index |-> k], results[c][k].state)'
        BY <1>7 DEF Told
    <3>1. PICK st : st = results[c][k].state
        OBVIOUS
    <3>2. PICK exec : exec = [call |-> c, index |-> k]
        OBVIOUS
    <3>3. ToldBy(exec, st)
        BY <3>1, <3>2 DEF CallInv, Told
    <3>4. Targets(Subject(exec))' = Targets(Subject(exec))
        BY <1>1, <1>7 DEF Targets, Subject
    <3>5. ToldBy(exec, st)'
        BY <1>1, <1>7, <3>3, <3>4, ToldKept
    <3> QED
        BY <1>7, <3>1, <3>2, <3>5
  <2> QED
      BY <2>2, <2>3, <2>4 DEF CallInv
<1> QED
    BY <1>5, <1>6, <1>7 DEF Enter

\* The gate's answer: a refusal asks nothing, a grant asks the first target.
LEMMA GateCall ==
  ASSUME TypeOK, TypeOK', PipelineInv, AcceptedContent, AnsweredOnce,
         NEW c \in Calls, CallInv(c), GateAnswers(c)
  PROVE  CallInv(c)'
<1> PICK d \in Decisions : \/ GateTimesOut(c, d)
                           \/ HumanRejects(c, d)
                           \/ ApprovedButKilled(c, d)
                           \/ ApprovedAndStarted(c, d)
    BY DEF GateAnswers
<1>1. /\ pc[c] = "gate" /\ request' = request /\ answered' = answered
      /\ decisions' = decisions \cup {[exec |-> Execution(c), decision |-> d]}
    BY DEF GateTimesOut, HumanRejects, ApprovedButKilled, ApprovedAndStarted, StartExecution, Decide
<1>2. \A x \in issued : ExecOf(x) # Execution(c)
    BY <1>1, NothingAsked
<1>3. target[c] = 1 /\ attempt[c] = 1 /\ outcomes[c] = << >>
    BY <1>1 DEF CallInv, Ready
<1>4. pc[c] \in Busy
    BY <1>1 DEF Busy
<1>5. \A e \in decisions' : e \in decisions \/ e.exec = Execution(c)
    BY <1>1
<1>6. ASSUME NEW state, state \notin FinalStates, Finish(c, state), issued' = issued,
             started' = started
      PROVE  CallInv(c)'
  <2>1. PICK k : k = at[c]
      OBVIOUS
  <2>2. ToldBy([call |-> c, index |-> k], state)'
      BY <1>2, <1>6, <2>1 DEF ToldBy, Mutations, ExecOf, Execution
  <2> QED
      BY <1>1, <1>4, <1>5, <1>6, <2>1, <2>2, CallFinishes
<1>7. CASE GateTimesOut(c, d) \/ HumanRejects(c, d) \/ ApprovedButKilled(c, d)
    BY <1>6, <1>7 DEF GateTimesOut, HumanRejects, ApprovedButKilled, FinalStates
<1>8. CASE ApprovedAndStarted(c, d)
  <2>1. /\ pc' = [pc EXCEPT ![c] = "executing"]
        /\ issued' = issued \cup {ExecutorCall(c, target[c], attempt[c], FALSE)}
        /\ started' = started \cup {[exec |-> Execution(c), time |-> now]}
        /\ UNCHANGED << batch, at, target, attempt, outcomes, results >>
      BY <1>8 DEF ApprovedAndStarted, StartExecution, Await, Issue
  <2>2. pc'[c] = "executing"
      BY <2>1 DEF TypeOK, CallTypeOK
  <2>3. PICK x : x = Awaited(c)'
      OBVIOUS
  <2>4. x = ExecutorCall(c, target[c], attempt[c], FALSE)
      BY <2>1, <2>2, <2>3 DEF Awaited, ExecutorCall
  <2>5. PICK exec : exec = Execution(c)
      OBVIOUS
  <2>6. ExecOf(x) = exec /\ x.target = 1 /\ ~ x.dry
      BY <1>3, <2>4, <2>5 DEF ExecOf, ExecutorCall, Execution
  <2>7. x \notin issued /\ issued' = issued \cup {x}
      BY <1>2, <2>1, <2>4, <2>5, <2>6
  <2>8. AskedLive(exec, 1)'
    <3>1. AskedLive(exec, 0)
        BY <1>2, <2>5 DEF AskedLive, Mutations
    <3>2. AskedLive(exec, 0 + 1)'
        BY <2>6, <2>7, <3>1, AskedOneMore DEF TypeOK
    <3> QED
        BY <3>2
  <2>9. 1 <= Len(Targets(Current(c)))
    <3>1. Current(c) \in Ids /\ at[c] \in DOMAIN batch[c]
        BY <1>4, CurrentType DEF TypeOK, PipelineInv
    <3>2. verdict[Current(c)] = "ok"
        BY <3>1 DEF PipelineInv, OnlyAccepted, Current
    <3>3. Len(request[Current(c)].targets) \in Nat \ {0}
        BY <3>1, <3>2 DEF AcceptedContent
    <3> QED
        BY <3>3 DEF Targets
  <2>10. Underway(c)'
    <3>1. Current(c)' = Current(c) /\ Targets(Current(c))' = Targets(Current(c))
        BY <1>1, <2>1 DEF Current, Targets
    <3>2. Execution(c)' = exec
        BY <2>1, <2>5 DEF Execution
    <3> QED
        BY <1>3, <2>1, <2>8, <2>9, <3>1, <3>2 DEF Underway
  <2>11. \A s \in started' : s \in started \/ s.exec = Execution(c)
      BY <2>1
  <2> QED
      BY <1>1, <1>2, <1>4, <1>5, <2>1, <2>2, <2>3, <2>7, <2>10, <2>11, CallAsks
<1> QED
    BY <1>7, <1>8

\* The executor's answer to a live call: another attempt, the next target, or
\* the end of the execution.
LEMMA ExecutorCallStep ==
  ASSUME TypeOK, TypeOK', PipelineInv, AnsweredOnce, NEW c \in Calls, CallInv(c),
         ExecutorAnswers(c)
  PROVE  CallInv(c)'
<1> PICK answer \in Answers : /\ Answered(c, answer, FALSE)
                              /\ \/ RetryTarget(c, answer)
                                 \/ NextTarget(c, answer)
                                 \/ CompleteExecution(c, answer)
    BY DEF ExecutorAnswers
<1>1. /\ pc[c] = "executing" /\ pc[c] \in Busy
      /\ UNCHANGED << request, decisions, started >>
    BY DEF ExecutorAnswers, Busy
<1>2. PICK exec : exec = Execution(c) /\ exec = [call |-> c, index |-> at[c]]
    BY DEF Execution
<1>3. PICK n : n = target[c]
    OBVIOUS
<1>4. PICK outs : outs = outcomes[c]
    OBVIOUS
<1>5. /\ n \in Nat \ {0} /\ attempt[c] \in Nat /\ outs \in Seq(Statuses)
    BY <1>3, <1>4, CountersType DEF TypeOK, CallTypeOK
<1>6. /\ n <= Len(Targets(Current(c))) /\ Len(outs) = n - 1
      /\ \A t \in 1 .. (n - 1) : Ended(exec, t, outs[t])
      /\ AskedLive(exec, n)
    BY <1>1, <1>2, <1>3, <1>4 DEF CallInv, Underway
<1> DEFINE y == [asked |-> ExecutorCall(c, target[c], attempt[c], FALSE), answer |-> answer]
<1>7. answered' = answered \cup {y} /\ y.asked = Awaited(c) /\ y.answer = answer
    BY <1>1 DEF Answered, Awaited
<1>8. ExecOf(y.asked) = exec /\ y.asked.target = n /\ Awaited(c) \in issued
    BY <1>1, <1>2, <1>3 DEF ExecOf, ExecutorCall, Execution, CallInv, Outstanding
<1> HIDE DEF y
<1>9. \A t \in 1 .. (n - 1) : Ended(exec, t, outs[t])'
  <2> SUFFICES ASSUME NEW t \in 1 .. (n - 1) PROVE Ended(exec, t, outs[t])'
      OBVIOUS
  <2>1. t # n
      BY <1>5
  <2>2. \A z \in answered' : z \in answered \/ ~ About(z, exec, t)
      BY <1>7, <1>8, <2>1 DEF About
  <2> QED
      BY <1>6, <1>7, <2>2, EndedKept
<1>10. Ended(exec, n, StatusOf(answer))'
    BY <1>1, <1>2, <1>3, JustEnded
<1>11. \A z \in issued : ExecOf(z) = exec =>
         /\ z.dry = (pc[c] = "planning") /\ z.target \in Nat /\ z.attempt \in Nat
         /\ z.target <= n
         /\ z.target = n => z.attempt <= attempt[c]
    BY <1>1, <1>2, <1>3, AskedIs DEF CallInv, Outstanding, TypeOK
<1>12. \A z \in answered' : z \in answered \/ (z.asked \in issued /\ ExecOf(z.asked) = Execution(c))
    BY <1>2, <1>7, <1>8
<1>13. PICK x : x = Awaited(c)'
    OBVIOUS
<1>14. CASE RetryTarget(c, answer)
  <2>1. /\ UNCHANGED << pc, batch, at, target, outcomes, results >>
        /\ issued' = issued \cup {ExecutorCall(c, target[c], attempt[c] + 1, FALSE)}
        /\ attempt'[c] = attempt[c] + 1
      BY <1>14 DEF RetryTarget, Issue, TypeOK, CallTypeOK
  <2>2. x = ExecutorCall(c, target[c], attempt[c] + 1, FALSE)
      BY <1>1, <1>13, <2>1 DEF Awaited, ExecutorCall
  <2>3. /\ ExecOf(x) = exec /\ x.target = n /\ ~ x.dry /\ x.attempt = attempt[c] + 1
      BY <1>2, <1>3, <2>2 DEF ExecOf, ExecutorCall, Execution
  <2>4. x \notin issued /\ issued' = issued \cup {x}
    <3>1. x \notin issued
        BY <1>5, <1>11, <2>3
    <3> QED
        BY <2>1, <2>2, <3>1
  <2>5. AskedLive(exec, n)'
    <3>1. AskedLive(exec, (n - 1) + 1)'
      <4>1. n - 1 \in Nat /\ (n - 1) + 1 = n
          BY <1>5
      <4> QED
          BY <1>6, <2>3, <2>4, <4>1, AskedOneMore DEF TypeOK
    <3> QED
        BY <1>5, <3>1
  <2>6. Underway(c)'
    <3>1. Targets(Current(c))' = Targets(Current(c)) /\ Execution(c)' = exec
        BY <1>1, <1>2, <2>1 DEF Current, Targets, Execution
    <3> QED
        BY <1>3, <1>4, <1>6, <1>9, <2>1, <2>5, <3>1 DEF Underway
  <2>7. \A z \in issued : ExecOf(z) = Execution(c) =>
           /\ z.dry = (pc'[c] = "planning")
           /\ z.target <= target'[c]
           /\ z.target = target'[c] => z.attempt <= attempt'[c]
      BY <1>2, <1>3, <1>5, <1>11, <2>1
  <2>8. answered \subseteq answered'
      BY <1>7
  <2> QED
      BY <1>1, <1>12, <1>13, <2>1, <2>4, <2>6, <2>7, <2>8, CallAsks
<1>15. CASE NextTarget(c, answer)
  <2>1. /\ UNCHANGED << pc, batch, at, results >>
        /\ issued' = issued \cup {ExecutorCall(c, target[c] + 1, 1, FALSE)}
        /\ attempt'[c] = 1 /\ target'[c] = n + 1
        /\ outcomes'[c] = Append(outs, StatusOf(answer))
        /\ target[c] < Len(Targets(Current(c)))
      BY <1>3, <1>4, <1>15 DEF NextTarget, Issue, TypeOK, CallTypeOK
  <2>2. x = ExecutorCall(c, target[c] + 1, 1, FALSE)
      BY <1>1, <1>3, <1>13, <2>1 DEF Awaited, ExecutorCall
  <2>3. /\ ExecOf(x) = exec /\ x.target = n + 1 /\ ~ x.dry /\ x.attempt = 1
      BY <1>2, <1>3, <2>2 DEF ExecOf, ExecutorCall, Execution
  <2>4. x \notin issued /\ issued' = issued \cup {x}
    <3>1. x \notin issued
        BY <1>5, <1>11, <2>3
    <3> QED
        BY <2>1, <2>2, <3>1
  <2>5. AskedLive(exec, n + 1)'
      BY <1>5, <1>6, <2>3, <2>4, AskedOneMore DEF TypeOK
  <2>6. Underway(c)'
    <3>1. Targets(Current(c))' = Targets(Current(c)) /\ Execution(c)' = exec
        BY <1>1, <1>2, <2>1 DEF Current, Targets, Execution
    <3>2. PICK new : new = Append(outs, StatusOf(answer))
        OBVIOUS
    <3>3. PICK status : status = StatusOf(answer)
        OBVIOUS
    <3>4. status \in Statuses
        BY <3>3, AnswersAssumption DEF StatusOf, Statuses
    <3>5. Len(new) = n /\ new[n] = status /\ \A t \in 1 .. (n - 1) : new[t] = outs[t]
        BY <1>5, <1>6, <3>2, <3>3, <3>4
    <3>6. \A t \in 1 .. n : Ended(exec, t, new[t])'
      <4> SUFFICES ASSUME NEW t \in 1 .. n PROVE Ended(exec, t, new[t])'
          OBVIOUS
      <4>1. t = n \/ t \in 1 .. (n - 1)
          BY <1>5
      <4> QED
          BY <1>9, <1>10, <3>3, <3>5, <4>1
    <3>7. PICK m : m = Len(Targets(Current(c)))
        OBVIOUS
    <3>8. n + 1 <= m
      <4>1. at[c] \in DOMAIN batch[c] /\ Current(c) \in Ids
          BY <1>1, CurrentType DEF TypeOK, PipelineInv
      <4> QED
          BY <1>3, <1>5, <2>1, <3>7
    <3> QED
        BY <1>5, <2>1, <2>5, <3>1, <3>2, <3>5, <3>6, <3>7, <3>8 DEF Underway
  <2>7. \A z \in issued : ExecOf(z) = Execution(c) =>
           /\ z.dry = (pc'[c] = "planning")
           /\ z.target <= target'[c]
           /\ z.target = target'[c] => z.attempt <= attempt'[c]
      BY <1>2, <1>3, <1>5, <1>11, <2>1
  <2>8. answered \subseteq answered'
      BY <1>7
  <2> QED
      BY <1>1, <1>12, <1>13, <2>1, <2>4, <2>6, <2>7, <2>8, CallAsks
<1>16. CASE CompleteExecution(c, answer)
  <2>1. PICK new : new = Append(outs, StatusOf(answer))
      OBVIOUS
  <2>2. PICK status : status = StatusOf(answer)
      OBVIOUS
  <2>3. status \in Statuses
      BY <2>2, AnswersAssumption DEF StatusOf, Statuses
  <2>4. /\ Len(new) = n /\ new[n] = status /\ new \in Seq(Statuses)
        /\ \A t \in 1 .. (n - 1) : new[t] = outs[t]
      BY <1>5, <1>6, <2>1, <2>2, <2>3
  <2>5. \A t \in 1 .. n : Ended(exec, t, new[t])'
    <3> SUFFICES ASSUME NEW t \in 1 .. n PROVE Ended(exec, t, new[t])'
        OBVIOUS
    <3>1. t = n \/ t \in 1 .. (n - 1)
        BY <1>5
    <3> QED
        BY <1>9, <1>10, <2>2, <2>4, <3>1
  <2>6. PICK state : state = FinalState(new)
      OBVIOUS
  <2>7. /\ Finish(c, state) /\ issued' = issued /\ target[c] = Len(Targets(Current(c)))
      BY <1>4, <1>16, <2>1, <2>6 DEF CompleteExecution
  <2>8. Subject(exec) = Current(c) /\ Subject(exec)' = Subject(exec)
    <3>1. batch' = batch
        BY <2>7 DEF Finish, Conclude
    <3> QED
        BY <1>2, <3>1 DEF Subject, Current
  <2>9. n = Len(Targets(Subject(exec)))'
      BY <1>1, <1>3, <2>7, <2>8 DEF Targets
  <2>10. AskedLive(exec, n)'
    <3>1. issued' = issued
        BY <2>7
    <3> QED
        BY <1>6, <3>1, SameAsked
  <2>11. ToldBy(exec, state)'
    <3>1. state \in FinalStates
        BY <2>6 DEF FinalState, FinalStates
    <3> QED
        BY <2>4, <2>5, <2>6, <2>9, <2>10, <3>1 DEF ToldBy
  <2>12. PICK k : k = at[c]
      OBVIOUS
  <2>13. answered \subseteq answered' /\ \A z \in answered' : z \in answered \/ ExecOf(z.asked) = Execution(c)
      BY <1>7, <1>12
  <2> QED
      BY <1>1, <1>2, <2>7, <2>11, <2>12, <2>13, CallFinishes
<1> QED
    BY <1>14, <1>15, <1>16

\* The planner's answer: the next target, or the plan is complete.
LEMMA PlannerCall ==
  ASSUME TypeOK, TypeOK', PipelineInv, AnsweredOnce, NEW c \in Calls, CallInv(c),
         PlannerAnswers(c)
  PROVE  CallInv(c)'
<1> PICK answer : Answered(c, answer, TRUE)
    BY DEF PlannerAnswers
<1>1. /\ pc[c] = "planning" /\ pc[c] \in Busy
      /\ UNCHANGED << request, decisions, started >>
    BY DEF PlannerAnswers, Busy
<1>2. \A z \in issued : ExecOf(z) = Execution(c) =>
        z.dry = (pc[c] = "planning") /\ z.target \in Nat /\ z.target <= target[c]
    BY <1>1, AskedIs DEF CallInv, Outstanding, TypeOK
<1> DEFINE y == [asked |-> ExecutorCall(c, target[c], attempt[c], TRUE), answer |-> answer]
<1>3. answered' = answered \cup {y} /\ y.asked = Awaited(c)
    BY <1>1 DEF Answered, Awaited
<1>4. Awaited(c) \in issued /\ ExecOf(y.asked) = Execution(c)
    BY <1>1, <1>3 DEF CallInv, Outstanding, ExecOf, ExecutorCall, Execution
<1> HIDE DEF y
<1>5. /\ answered \subseteq answered'
      /\ \A z \in answered' : z \in answered \/ (z.asked \in issued /\ ExecOf(z.asked) = Execution(c))
    BY <1>3, <1>4
<1>6. target[c] \in Nat
    BY CountersType DEF TypeOK
<1>7. CASE target[c] < Len(Targets(Current(c)))
  <2>1. /\ target'[c] = target[c] + 1
        /\ issued' = issued \cup {ExecutorCall(c, target[c] + 1, 1, TRUE)}
        /\ UNCHANGED << pc, batch, at, attempt, results >>
      BY <1>7 DEF PlannerAnswers, Issue, TypeOK, CallTypeOK
  <2>2. attempt[c] = 1
      BY <1>1 DEF CallInv, Ready
  <2>3. PICK x : x = Awaited(c)'
      OBVIOUS
  <2>4. x = ExecutorCall(c, target[c] + 1, 1, TRUE)
      BY <1>1, <2>1, <2>2, <2>3 DEF Awaited, ExecutorCall
  <2>5. ExecOf(x) = Execution(c) /\ x.target = target[c] + 1
      BY <2>4 DEF ExecOf, ExecutorCall, Execution
  <2>6. x \notin issued /\ issued' = issued \cup {x}
    <3>1. x \notin issued
        BY <1>2, <1>6, <2>5
    <3> QED
        BY <2>1, <2>4, <3>1
  <2>7. \A z \in issued : ExecOf(z) = Execution(c) =>
           /\ z.dry = (pc'[c] = "planning")
           /\ z.target <= target'[c]
           /\ z.target = target'[c] => z.attempt <= attempt'[c]
    <3> SUFFICES ASSUME NEW z \in issued, ExecOf(z) = Execution(c)
                 PROVE  /\ z.dry = (pc'[c] = "planning")
                        /\ z.target <= target'[c] /\ z.target # target'[c]
        OBVIOUS
    <3>1. z.dry = (pc[c] = "planning") /\ z.target \in Nat /\ z.target <= target[c]
        BY <1>2
    <3>2. target'[c] = target[c] + 1 /\ pc' = pc
        BY <2>1
    <3> QED
        BY <1>6, <3>1, <3>2
  <2>8. Underway(c)'
      BY <1>1, <2>1 DEF Underway
  <2> QED
      BY <1>1, <1>5, <2>1, <2>2, <2>3, <2>6, <2>7, <2>8, CallAsks
<1>8. CASE ~ (target[c] < Len(Targets(Current(c))))
  <2>1. Finish(c, "dry_run") /\ issued' = issued
      BY <1>8 DEF PlannerAnswers
  <2>2. PICK k : k = at[c]
      OBVIOUS
  <2>3. ToldBy([call |-> c, index |-> k], "dry_run")'
      BY <1>1, <1>2, <2>1, <2>2 DEF ToldBy, FinalStates, Mutations, ExecOf, Execution
  <2> QED
      BY <1>1, <1>5, <2>1, <2>2, <2>3, CallFinishes
<1> QED
    BY <1>7, <1>8

----------------------------------------------------------------------------
(* The invariant of executions.                                             *)

\* What was asked was asked for an accepted proposal of a batch.
LEMMA AskedForAccepted ==
  ASSUME TypeOK, PipelineInv, NEW exec, Recorded(exec)
  PROVE  Subject(exec) \in Ids /\ verdict[Subject(exec)] = "ok"
  BY DEF PipelineInv, OnlyAccepted, Recorded, Subject, TypeOK, CallTypeOK

\* The retry policy is about the calls of the executor: old ones stay as they
\* are, new first attempts are free.
LEMMA RetriesKept ==
  ASSUME RetryPolicy, answered \subseteq answered',
         \A x \in issued :
           Allowlist[request'[Subject(ExecOf(x))'].action]
             = Allowlist[request[Subject(ExecOf(x))].action],
         \A x \in issued' : x \in issued \/ x.attempt = 1
  PROVE  RetryPolicy'
<1> SUFFICES ASSUME NEW x \in issued', x.attempt > 1
             PROVE  /\ x.attempt = 2 /\ ~ x.dry
                    /\ Allowlist[request'[Subject(ExecOf(x))'].action].idempotent
                    /\ \E y \in answered' :
                         y.asked = [x EXCEPT !.attempt = 1] /\ y.answer # "success"
    BY ExecIs DEF RetryPolicy
<1>1. x \in issued
    OBVIOUS
<1>2. /\ x.attempt = 2 /\ ~ x.dry
      /\ Allowlist[request[Subject(ExecOf(x))].action].idempotent
      /\ \E y \in answered : y.asked = [x EXCEPT !.attempt = 1] /\ y.answer # "success"
    BY <1>1 DEF RetryPolicy
<1> QED
    BY <1>1, <1>2

\* A step that asks nothing, answers nothing and takes no batch; it may give a
\* fresh id its content.
LEMMA CalmStep ==
  ASSUME TypeOK, TypeOK', PipelineInv, ExecutionInv, AcceptedContent',
         UNCHANGED << batch, at, target, attempt, outcomes, results,
                      issued, answered, decisions, started >>,
         \A id \in Ids : verdict[id] = "ok" => request'[id] = request[id],
         \A o \in Calls :
           \/ pc'[o] = pc[o]
           \/ pc'[o] = "raised" /\ pc[o] \in Waiting
           \/ pc'[o] \in {"asking", "returned"} /\ pc[o] \in {"idle", "asking"}
  PROVE  ExecutionInv'
<1>1. ASSUME NEW o \in Calls PROVE CallInv(o)'
  <2>1. ASSUME NEW k \in DOMAIN batch[o] PROVE request'[batch[o][k]] = request[batch[o][k]]
    <3>1. batch[o] \in Seq(Ids)
        BY DEF TypeOK, CallTypeOK
    <3>2. batch[o][k] \in Ids
        BY <3>1
    <3>3. verdict[batch[o][k]] = "ok"
        BY DEF PipelineInv, OnlyAccepted
    <3> QED
        BY <3>2, <3>3
  <2> QED
      BY <2>1, Undisturbed DEF ExecutionInv
<1>2. RetryPolicy'
  <2>1. ASSUME NEW x \in issued
        PROVE  request'[Subject(ExecOf(x))'] = request[Subject(ExecOf(x))]
    <3>1. Recorded(ExecOf(x)) /\ Subject(ExecOf(x))' = Subject(ExecOf(x))
        BY DEF PipelineInv, Traces, Subject, ExecOf
    <3> QED
        BY <3>1, AskedForAccepted
  <2> QED
      BY <2>1, RetriesKept DEF ExecutionInv
<1>3. AnsweredOnce'
    BY DEF ExecutionInv, AnsweredOnce
<1> QED
    BY <1>1, <1>2, <1>3 DEF ExecutionInv

\* The content an id gets is accepted only with targets and a declared action.
LEMMA SubmitContent ==
  ASSUME TypeOK, AcceptedContent, PipelineInv,
         NEW id \in Ids, NEW p \in Proposals, Submit(id, p)
  PROVE  /\ AcceptedContent'
         /\ \A other \in Ids : verdict[other] = "ok" => request'[other] = request[other]
<1>1. /\ request' = [request EXCEPT ![id] = p] /\ verdict' = [verdict EXCEPT ![id] = Verdict(p)]
      /\ verdict[id] # "ok"
    BY DEF Submit, PipelineInv, OnlyAccepted
<1>2. ASSUME NEW other \in Ids, verdict'[other] = "ok"
      PROVE  /\ Len(request'[other].targets) \in Nat \ {0}
             /\ request'[other].action \in DOMAIN Allowlist
  <2>1. CASE other # id
      BY <1>1, <1>2, <2>1 DEF AcceptedContent, TypeOK, SurfaceTypeOK
  <2>2. CASE other = id
    <3>1. request'[other] = p /\ Verdict(p) = "ok"
        BY <1>1, <1>2, <2>2 DEF TypeOK, SurfaceTypeOK
    <3>2. p.action \in DOMAIN Allowlist /\ p.targets # << >>
        BY <3>1, AcceptedMeans DEF Verdict
    <3>3. PICK S, s : s = p.targets /\ s \in Seq(S)
        BY TargetsAssumption
    <3>4. Len(s) \in Nat \ {0}
        BY <3>2, <3>3
    <3> QED
        BY <3>1, <3>2, <3>3, <3>4
  <2> QED
      BY <2>1, <2>2
<1> QED
    BY <1>1, <1>2 DEF AcceptedContent, TypeOK, SurfaceTypeOK

\* A call takes a batch.
LEMMA BeginStep ==
  ASSUME TypeOK, TypeOK', PipelineInv, ExecutionInv, NEW c \in Calls, pc[c] = "idle",
         NEW ids \in Seq(Ids), Begin(c, ids),
         UNCHANGED << request, verdict, at, target, attempt, outcomes, results,
                      issued, answered, decisions, started >>
  PROVE  ExecutionInv'
<1>1. CallInv(c)'
    BY CallBegins DEF ExecutionInv
<1>2. /\ OnlyMoves(c)
      /\ \A o \in Calls : o # c => batch'[o] = batch[o]
    BY DEF OnlyMoves, Begin, TypeOK, CallTypeOK
<1>3. \A o \in Calls : o # c => CallInv(o)'
    BY <1>2, OthersKept DEF ExecutionInv
<1>4. ASSUME NEW x \in issued PROVE Subject(ExecOf(x))' = Subject(ExecOf(x))
  <2>1. Recorded(ExecOf(x)) /\ batch[c] = << >>
      BY DEF PipelineInv, Traces, Fresh
  <2>2. ExecOf(x).call \in Calls \ {c}
      BY <2>1 DEF Recorded
  <2> QED
      BY <1>2, <2>2 DEF Subject, ExecOf
<1>5. RetryPolicy'
    BY <1>4, RetriesKept DEF ExecutionInv
<1>6. AcceptedContent' /\ AnsweredOnce'
    BY DEF ExecutionInv, AcceptedContent, AnsweredOnce
<1> QED
    BY <1>1, <1>3, <1>5, <1>6 DEF ExecutionInv

\* A call that holds its batch takes a step of process().
LEMMA BusyStep ==
  ASSUME TypeOK, TypeOK', PipelineInv, ExecutionInv, NEW c \in Calls, OnlyMoves(c),
         CallInv(c)', AnsweredOnce', RetryPolicy',
         request' = request, verdict' = verdict
  PROVE  ExecutionInv'
<1>1. \A o \in Calls : o # c => CallInv(o)'
    BY OthersKept DEF ExecutionInv
<1> QED
    BY <1>1 DEF ExecutionInv, AcceptedContent

\* What is answered is what the call waits for: asked, and not answered yet.
LEMMA AnswerStep ==
  ASSUME AnsweredOnce, NEW c \in Calls, CallInv(c), pc[c] \in {"executing", "planning"},
         NEW answer, Answered(c, answer, pc[c] = "planning"), issued \subseteq issued'
  PROVE  AnsweredOnce'
<1> DEFINE y == [asked |-> Awaited(c), answer |-> answer]
<1>1. answered' = answered \cup {y} /\ y.asked = Awaited(c)
    BY DEF Answered, Awaited
<1>2. Awaited(c) \in issued /\ \A z \in answered : z.asked # Awaited(c)
    BY DEF CallInv, Outstanding
<1> HIDE DEF y
<1> QED
    BY <1>1, <1>2 DEF AnsweredOnce

LEMMA EnterExecution ==
  ASSUME TypeOK, TypeOK', PipelineInv, ExecutionInv, NEW c \in Calls, Enter(c)
  PROVE  ExecutionInv'
<1>1. UNCHANGED << request, verdict, answered, batch >>
    BY DEF Enter, Blocked, Finish, Conclude
<1>2. \A x \in issued' : x \in issued \/ x.attempt = 1
    BY DEF Enter, Blocked, Issue, ExecutorCall
<1>3. RetryPolicy'
    BY <1>1, <1>2, RetriesKept DEF ExecutionInv, Subject, ExecOf
<1>4. OnlyMoves(c) /\ CallInv(c)'
    BY EnterMoves, EnterCall DEF ExecutionInv
<1>5. AnsweredOnce'
    BY <1>1, <1>4 DEF ExecutionInv, AnsweredOnce, OnlyMoves
<1> QED
    BY <1>1, <1>3, <1>4, <1>5, BusyStep

LEMMA GateExecution ==
  ASSUME TypeOK, TypeOK', PipelineInv, ExecutionInv, NEW c \in Calls, GateAnswers(c)
  PROVE  ExecutionInv'
<1> PICK d \in Decisions : \/ GateTimesOut(c, d)
                           \/ HumanRejects(c, d)
                           \/ ApprovedButKilled(c, d)
                           \/ ApprovedAndStarted(c, d)
    BY DEF GateAnswers
<1>1. pc[c] = "gate" /\ UNCHANGED << request, verdict, answered >>
    BY DEF GateTimesOut, HumanRejects, ApprovedButKilled, ApprovedAndStarted, StartExecution, Decide
<1>2. attempt[c] = 1
    BY <1>1 DEF ExecutionInv, CallInv, Ready
<1>3. batch' = batch
    BY DEF GateTimesOut, HumanRejects, ApprovedButKilled, ApprovedAndStarted, StartExecution,
           Finish, Conclude
<1>4. \A x \in issued' : x \in issued \/ x.attempt = 1
    BY <1>2 DEF GateTimesOut, HumanRejects, ApprovedButKilled, ApprovedAndStarted, StartExecution,
                Issue, ExecutorCall
<1>5. RetryPolicy'
    BY <1>1, <1>3, <1>4, RetriesKept DEF ExecutionInv, Subject, ExecOf
<1>6. OnlyMoves(c) /\ CallInv(c)'
    BY GateMoves, GateCall DEF ExecutionInv
<1>7. AnsweredOnce'
    BY <1>1, <1>6 DEF ExecutionInv, AnsweredOnce, OnlyMoves
<1> QED
    BY <1>1, <1>5, <1>6, <1>7, BusyStep

\* The call a second attempt is compared with.
LEMMA FirstAttempt ==
  ASSUME CallTypeOK, NEW c \in Calls, NEW x, x = ExecutorCall(c, target[c], 2, FALSE)
  PROVE  [x EXCEPT !.attempt = 1] = ExecutorCall(c, target[c], 1, FALSE)
<1>1. PICK z : z = [x EXCEPT !.attempt = 1]
    OBVIOUS
<1>2. PICK w : w = ExecutorCall(c, target[c], 1, FALSE)
    OBVIOUS
<1>3. target[c] \in Nat /\ 1 \in Nat /\ 2 \in Nat
    BY CountersType
<1>4. x \in ExecutorCalls /\ w \in ExecutorCalls
    BY <1>2, <1>3, ExecutorCallType
<1>5. z \in ExecutorCalls
    BY <1>1, <1>4 DEF ExecutorCalls
<1>6. /\ z.call = w.call /\ z.index = w.index /\ z.target = w.target
      /\ z.attempt = w.attempt /\ z.dry = w.dry
    BY <1>1, <1>2, <1>4 DEF ExecutorCalls, ExecutorCall
<1>7. z = w
    BY <1>4, <1>5, <1>6 DEF ExecutorCalls
<1> QED
    BY <1>1, <1>2, <1>7

LEMMA ExecutorExecution ==
  ASSUME TypeOK, TypeOK', PipelineInv, ExecutionInv, NEW c \in Calls, ExecutorAnswers(c)
  PROVE  ExecutionInv'
<1> PICK answer \in Answers : /\ Answered(c, answer, FALSE)
                              /\ \/ RetryTarget(c, answer)
                                 \/ NextTarget(c, answer)
                                 \/ CompleteExecution(c, answer)
    BY DEF ExecutorAnswers
<1>1. pc[c] = "executing" /\ UNCHANGED << request, verdict >>
    BY DEF ExecutorAnswers
<1>2. batch' = batch
    BY DEF RetryTarget, NextTarget, CompleteExecution, Finish, Conclude
<1>3. \A x : Subject(ExecOf(x))' = Subject(ExecOf(x))
    BY <1>2 DEF Subject, ExecOf
<1>4. OnlyMoves(c) /\ CallInv(c)'
    BY ExecutorMoves, ExecutorCallStep DEF ExecutionInv
<1>5. AnsweredOnce'
    BY <1>1, <1>4, AnswerStep DEF ExecutionInv, OnlyMoves
<1>6. CASE NextTarget(c, answer) \/ CompleteExecution(c, answer)
  <2>1. \A x \in issued' : x \in issued \/ x.attempt = 1
      BY <1>6 DEF NextTarget, CompleteExecution, Issue, ExecutorCall
  <2>2. RetryPolicy'
      BY <1>1, <1>3, <1>4, <2>1, RetriesKept DEF ExecutionInv, OnlyMoves
  <2> QED
      BY <1>1, <1>4, <1>5, <2>2, BusyStep
<1>7. CASE RetryTarget(c, answer)
  <2>1. /\ issued' = issued \cup {ExecutorCall(c, target[c], attempt[c] + 1, FALSE)}
        /\ attempt[c] < Attempts(Current(c)) /\ answer # "success"
      BY <1>7 DEF RetryTarget, Retries, Issue
  <2>2. /\ attempt[c] = 1 /\ attempt[c] + 1 = 2
        /\ Allowlist[request[Current(c)].action].idempotent
    <3>1. attempt[c] \in Nat \ {0}
      <4>1. attempt[c] \in 1 .. 2
          BY DEF TypeOK, CallTypeOK
      <4> QED
          BY <4>1
    <3>2. \/ Attempts(Current(c)) = 2 /\ Allowlist[request[Current(c)].action].idempotent
          \/ Attempts(Current(c)) = 1
        BY DEF Attempts
    <3> QED
        BY <2>1, <3>1, <3>2
  <2>3. PICK x : x = ExecutorCall(c, target[c], 2, FALSE)
      OBVIOUS
  <2>4. /\ x.attempt = 2 /\ ~ x.dry /\ ExecOf(x) = Execution(c)
        /\ [x EXCEPT !.attempt = 1] = ExecutorCall(c, target[c], 1, FALSE)
    <3>1. x.attempt = 2 /\ ~ x.dry /\ ExecOf(x) = Execution(c)
        BY <2>3 DEF ExecutorCall, ExecOf, Execution
    <3> QED
        BY <2>3, <3>1, FirstAttempt DEF TypeOK
  <2>5. \E y \in answered' : y.asked = [x EXCEPT !.attempt = 1] /\ y.answer # "success"
    <3>1. PICK y : y = [asked |-> ExecutorCall(c, target[c], 1, FALSE), answer |-> answer]
        OBVIOUS
    <3>2. y \in answered' /\ y.asked = ExecutorCall(c, target[c], 1, FALSE) /\ y.answer = answer
        BY <2>2, <3>1 DEF Answered
    <3>3. PICK first : first = [x EXCEPT !.attempt = 1]
        OBVIOUS
    <3>4. y.asked = first /\ y.answer # "success"
        BY <2>1, <2>4, <3>2, <3>3
    <3>5. \E z \in answered' : z.asked = first /\ z.answer # "success"
        BY <3>2, <3>4
    <3> QED
        BY <3>3, <3>5
  <2>6. Subject(ExecOf(x))' = Current(c)
      BY <1>3, <2>4, ExecFacts
  <2>7. issued' = issued \cup {x}
      BY <2>1, <2>2, <2>3
  <2>8. ASSUME NEW z \in issued', z.attempt > 1
        PROVE  /\ z.attempt = 2 /\ ~ z.dry
               /\ Allowlist[request'[Subject(ExecOf(z))'].action].idempotent
               /\ \E y \in answered' :
                    y.asked = [z EXCEPT !.attempt = 1] /\ y.answer # "success"
    <3>1. CASE z = x
        BY <1>1, <2>2, <2>4, <2>5, <2>6, <3>1
    <3>2. CASE z \in issued
      <4>1. /\ z.attempt = 2 /\ ~ z.dry
            /\ Allowlist[request[Subject(ExecOf(z))].action].idempotent
            /\ \E y \in answered : y.asked = [z EXCEPT !.attempt = 1] /\ y.answer # "success"
          BY <2>8, <3>2 DEF ExecutionInv, RetryPolicy
      <4> QED
          BY <1>1, <1>3, <1>4, <4>1 DEF OnlyMoves
    <3> QED
        BY <2>7, <3>1, <3>2
  <2>9. RetryPolicy'
      BY <2>8, ExecIs DEF RetryPolicy
  <2> QED
      BY <1>1, <1>4, <1>5, <2>9, BusyStep
<1> QED
    BY <1>6, <1>7

LEMMA PlannerExecution ==
  ASSUME TypeOK, TypeOK', PipelineInv, ExecutionInv, NEW c \in Calls, PlannerAnswers(c)
  PROVE  ExecutionInv'
<1> PICK answer : Answered(c, answer, TRUE)
    BY DEF PlannerAnswers
<1>1. pc[c] = "planning" /\ UNCHANGED << request, verdict >>
    BY DEF PlannerAnswers
<1>2. batch' = batch /\ \A x \in issued' : x \in issued \/ x.attempt = 1
    BY DEF PlannerAnswers, Finish, Conclude, Issue, ExecutorCall
<1>3. OnlyMoves(c) /\ CallInv(c)'
    BY PlannerMoves, PlannerCall DEF ExecutionInv
<1>4. AnsweredOnce'
    BY <1>1, <1>3, AnswerStep DEF ExecutionInv, OnlyMoves
<1>5. RetryPolicy'
    BY <1>1, <1>2, <1>3, RetriesKept DEF ExecutionInv, OnlyMoves, Subject, ExecOf
<1> QED
    BY <1>1, <1>3, <1>4, <1>5, BusyStep

LEMMA ExecutionStep == TypeOK /\ TypeOK' /\ PipelineInv /\ ExecutionInv /\ [Next]_vars => ExecutionInv'
<1> SUFFICES ASSUME TypeOK, TypeOK', PipelineInv, ExecutionInv, [Next]_vars PROVE ExecutionInv'
    OBVIOUS
<1>1. ASSUME NEW id \in Ids, NEW p \in Proposals, Propose(id, p) PROVE ExecutionInv'
  <2>1. Submit(id, p) /\ UNCHANGED << pc, batch, at, target, attempt, outcomes, results,
                                      issued, answered, decisions, started >>
      BY <1>1 DEF Propose, callVars, worldVars
  <2>2. /\ AcceptedContent'
        /\ \A other \in Ids : verdict[other] = "ok" => request'[other] = request[other]
      BY <2>1, SubmitContent DEF ExecutionInv
  <2> QED
      BY <2>1, <2>2, CalmStep
<1>2. ASSUME NEW c \in Calls, NEW id \in Ids, ProcessCall(c, id) PROVE ExecutionInv'
  <2>1. << id >> \in Seq(Ids)
      OBVIOUS
  <2> QED
      BY <1>2, <2>1, BeginStep DEF ProcessCall, surfaceVars, worldVars
<1>3. ASSUME NEW c \in Calls, ProcessPendingCall(c) PROVE ExecutionInv'
  <2>1. /\ pc[c] = "idle"
        /\ UNCHANGED << request, verdict, at, target, attempt, outcomes, results,
                        issued, answered, decisions, started >>
      BY <1>3 DEF ProcessPendingCall, worldVars
  <2>2. CASE pending = << >>
    <3>1. pc' = [pc EXCEPT ![c] = "returned"] /\ batch' = batch
        BY <1>3, <2>2 DEF ProcessPendingCall
    <3>2. \A o \in Calls : pc'[o] = pc[o] \/ (pc'[o] = "returned" /\ pc[o] = "idle")
        BY <2>1, <3>1 DEF TypeOK, CallTypeOK
    <3>3. AcceptedContent'
        BY <2>1 DEF ExecutionInv, AcceptedContent
    <3> QED
        BY <2>1, <3>1, <3>2, <3>3, CalmStep
  <2>3. CASE pending # << >>
    <3>1. Begin(c, pending) /\ pending \in Seq(Ids)
        BY <1>3, <2>3 DEF ProcessPendingCall, TypeOK, SurfaceTypeOK
    <3> QED
        BY <2>1, <3>1, BeginStep
  <2> QED
      BY <2>2, <2>3
<1>4. ASSUME NEW c \in Calls, NEW id \in Ids, NEW q \in Requests,
             ExecuteCall(c, id, q) \/ ApproveCall(c, id, q)
      PROVE  ExecutionInv'
  <2>1. /\ pc[c] = "idle" /\ (pc' = [pc EXCEPT ![c] = "returned"] \/ pc' = [pc EXCEPT ![c] = "asking"])
        /\ batch' = batch
      BY <1>4, ExecuteIsRejected DEF ExecuteCall, ApproveCall
  <2>2. UNCHANGED << at, target, attempt, outcomes, results, issued, answered, decisions, started >>
      BY <1>4 DEF ExecuteCall, ApproveCall, worldVars
  <2>3. \A o \in Calls : \/ pc'[o] = pc[o]
                         \/ pc'[o] \in {"asking", "returned"} /\ pc[o] = "idle"
      BY <2>1 DEF TypeOK, CallTypeOK
  <2>4. /\ request[id] = NoProposal /\ verdict[id] # "ok"
        /\ request' = [request EXCEPT ![id] = ProposalOf(q)]
        /\ \/ verdict' = [verdict EXCEPT ![id] = Verdict(ProposalOf(q))]
           \/ verdict' = verdict
      BY <1>4 DEF ExecuteCall, ApproveCall, Submit, PipelineInv, OnlyAccepted
  <2>5. Verdict(ProposalOf(q)) # "ok"
      BY ExecuteNeverAccepted DEF Verdict
  <2>6. \A other \in Ids : verdict'[other] = "ok" =>
          verdict[other] = "ok" /\ request'[other] = request[other]
      BY <2>4, <2>5 DEF TypeOK, SurfaceTypeOK
  <2>7. AcceptedContent'
      BY <2>6 DEF ExecutionInv, AcceptedContent
  <2>8. \A other \in Ids : verdict[other] = "ok" => request'[other] = request[other]
      BY <2>4 DEF TypeOK, SurfaceTypeOK
  <2> QED
      BY <2>1, <2>2, <2>3, <2>7, <2>8, CalmStep
<1>5. ASSUME NEW c \in Calls, ApproveAnswers(c) \/ Abandon(c) PROVE ExecutionInv'
  <2>1. UNCHANGED << request, verdict, batch, at, target, attempt, outcomes, results,
                     issued, answered, decisions, started >>
      BY <1>5 DEF ApproveAnswers, Abandon, surfaceVars, worldVars
  <2>2. \A o \in Calls : \/ pc'[o] = pc[o]
                         \/ pc'[o] = "raised" /\ pc[o] \in Waiting
                         \/ pc'[o] = "returned" /\ pc[o] = "asking"
      BY <1>5 DEF ApproveAnswers, Abandon, TypeOK, CallTypeOK
  <2>3. AcceptedContent'
      BY <2>1 DEF ExecutionInv, AcceptedContent
  <2> QED
      BY <2>1, <2>2, <2>3, CalmStep
<1>6. CASE Engage \/ ToggleKillFile \/ Tick \/ UNCHANGED vars
  <2>1. UNCHANGED << request, verdict, pc, batch, at, target, attempt, outcomes, results,
                     issued, answered, decisions, started >>
      BY <1>6 DEF Engage, ToggleKillFile, Tick, vars, surfaceVars, callVars, worldVars
  <2>2. AcceptedContent'
      BY <2>1 DEF ExecutionInv, AcceptedContent
  <2> QED
      BY <2>1, <2>2, CalmStep
<1> QED
    BY <1>1, <1>2, <1>3, <1>4, <1>5, <1>6,
       EnterExecution, GateExecution, ExecutorExecution, PlannerExecution DEF Next

LEMMA ExecutionInit == Init => ExecutionInv
<1> SUFFICES ASSUME Init PROVE ExecutionInv
    OBVIOUS
<1>1. /\ issued = {} /\ answered = {} /\ decisions = {} /\ started = {}
      /\ \A id \in Ids : verdict[id] = "-"
      /\ \A c \in Calls : /\ pc[c] = "idle" /\ batch[c] = << >> /\ at[c] = 1 /\ target[c] = 1
                          /\ attempt[c] = 1 /\ outcomes[c] = << >> /\ results[c] = << >>
    BY DEF Init
<1>2. AcceptedContent /\ AnsweredOnce /\ RetryPolicy
    BY <1>1 DEF AcceptedContent, AnsweredOnce, RetryPolicy
<1>3. ASSUME NEW c \in Calls PROVE CallInv(c)
    BY <1>1 DEF CallInv, Placed, Accounted, InTurn, Ready, Outstanding, Underway, Told
<1> QED
    BY <1>2, <1>3 DEF ExecutionInv

\* In every reachable state, and however the calls interleave, every executor
\* call and every answer has its place in the execution it belongs to.
THEOREM ExecutionInvariant == Spec => []ExecutionInv
<1>1. TypeOK /\ PipelineInv /\ ExecutionInv /\ (TypeOK /\ PipelineInv)' /\ [Next]_vars
        => ExecutionInv'
    BY ExecutionStep
<1> QED
    BY <1>1, ExecutionInit, PipelineInvariant, PTL DEF Spec

\* No silent retries: a target is asked twice only for an idempotent action
\* whose first attempt did not succeed, and never a third time (_execute_one
\* and its two attempts).
THEOREM RetriesAreDeclared == Spec => []RetryPolicy
<1>1. ExecutionInv => RetryPolicy
    BY DEF ExecutionInv
<1> QED
    BY <1>1, ExecutionInvariant, PTL

----------------------------------------------------------------------------
(* What the callers are told.                                               *)

\* The last answer for a target is unique, so it is the one that ended it.
LEMMA LastAnswer ==
  ASSUME WorldTypeOK, NEW exec, NEW t, NEW status, Ended(exec, t, status)
  PROVE  LastStatus(exec, t) = status
<1> DEFINE of == {y \in answered : ExecOf(y.asked) = exec /\ y.asked.target = t /\ ~ y.asked.dry}
           last == CHOOSE y \in of : \A z \in of : z.asked.attempt <= y.asked.attempt
<1>1. PICK y \in answered :
        /\ About(y, exec, t) /\ StatusOf(y.answer) = status
        /\ \A z \in answered : About(z, exec, t) => z = y \/ z.asked.attempt < y.asked.attempt
    BY DEF Ended
<1>2. \A z \in of : z \in answered /\ About(z, exec, t) /\ z.asked.attempt \in Nat
    BY DEF About, WorldTypeOK, ExecutorCalls
<1>3. y \in of
    BY <1>1 DEF About
<1>4. \A z \in of : z.asked.attempt <= y.asked.attempt
    BY <1>1, <1>2, <1>3
<1>5. last \in of /\ \A z \in of : z.asked.attempt <= last.asked.attempt
    BY <1>3, <1>4
<1>6. last = y
    BY <1>1, <1>2, <1>3, <1>5
<1> QED
    BY <1>1, <1>6 DEF LastStatus

LEMMA ToldIsTrue ==
  ASSUME WorldTypeOK, NEW exec, NEW state, ToldBy(exec, state)
  PROVE  LET all == 1 .. Len(Targets(Subject(exec)))
             some(status) == \E t \in all : LastStatus(exec, t) = status
         IN  IF state \in FinalStates
               THEN /\ {x.target : x \in {y \in Mutations : ExecOf(y) = exec}} = all
                    /\ state = "executed" <=> ~ some("failure")
                    /\ state = "partial" <=> some("failure") /\ some("success")
               ELSE ~ \E x \in Mutations : ExecOf(x) = exec
<1>1. CASE state \notin FinalStates
    BY <1>1 DEF ToldBy
<1>2. CASE state \in FinalStates
  <2>1. PICK n : n = Len(Targets(Subject(exec)))
      OBVIOUS
  <2>2. AskedLive(exec, n)
      BY <1>2, <2>1 DEF ToldBy
  <2>3. PICK outs \in Seq(Statuses) :
          /\ Len(outs) = n /\ state = FinalState(outs)
          /\ \A t \in 1 .. n : Ended(exec, t, outs[t])
      BY <1>2, <2>1 DEF ToldBy
  <2>4. \A t \in 1 .. n : LastStatus(exec, t) = outs[t]
      BY <2>3, LastAnswer
  <2>5. DOMAIN outs = 1 .. n
      BY <2>3
  <2>6. /\ (state = "executed") <=> ~ \E t \in 1 .. n : LastStatus(exec, t) = "failure"
        /\ (state = "partial") <=> /\ \E t \in 1 .. n : LastStatus(exec, t) = "failure"
                                   /\ \E t \in 1 .. n : LastStatus(exec, t) = "success"
      BY <2>3, <2>4, <2>5 DEF FinalState
  <2>7. {x.target : x \in {y \in Mutations : ExecOf(y) = exec}} = 1 .. n
      BY <2>2 DEF AskedLive
  <2> QED
      BY <1>2, <2>1, <2>6, <2>7
<1> QED
    BY <1>1, <1>2

LEMMA ResultsFromInvariant == TypeOK /\ ExecutionInv => ResultsTellWhatHappened
<1> SUFFICES ASSUME TypeOK, ExecutionInv PROVE ResultsTellWhatHappened
    OBVIOUS
<1>1. BatchIsAccountedFor
  <2> SUFFICES ASSUME NEW c \in Calls
               PROVE  /\ \A k \in DOMAIN results[c] : results[c][k].id = batch[c][k]
                      /\ Len(results[c]) = at[c] - 1
                      /\ pc[c] = "returned" => Len(results[c]) = Len(batch[c])
      BY DEF BatchIsAccountedFor
  <2>1. batch[c] \in Seq(Ids) /\ Len(batch[c]) \in Nat
      BY DEF TypeOK, CallTypeOK
  <2> QED
      BY <2>1 DEF ExecutionInv, CallInv, Placed, Accounted
<1>2. \A c \in Calls : \A k \in DOMAIN results[c] :
        ToldBy([call |-> c, index |-> k], results[c][k].state)
    BY DEF ExecutionInv, CallInv, Told
<1> QED
    BY <1>1, <1>2, ToldIsTrue DEF ResultsTellWhatHappened, TypeOK

\* The ActionResults a caller gets tell what the executor did, one for each
\* proposal of its batch (process, process_pending and _execute): the state of
\* an executed action agrees with the last answer of every target, all asked;
\* any other state stands for an action that asked nothing live.
THEOREM ResultsAreTrue == Spec => []ResultsTellWhatHappened
  BY ResultsFromInvariant, ExecutionInvariant, PipelineInvariant, PTL

----------------------------------------------------------------------------
(* What the audit trail says.  Each kind of event is counted against the    *)
(* set of what happened in the world; a step that adds an element to such a *)
(* set adds one event of its kind to the proposal's trail.                  *)

OfType(type) == {e \in Events : e.type = type}
Places(s, E) == {i \in DOMAIN s : s[i] \in E}

\* The trail s has as many events in E as W has elements.
Tallied(s, E, W) == IsFiniteSet(W) /\ Cardinality(Places(s, E)) = Cardinality(W)

Tallies(s, starts, approvals, completions, successes) ==
  /\ Tallied(s, OfType("execution_started"), starts)
  /\ Tallied(s, OfType("approval_granted"), approvals)
  /\ Tallied(s, OfType("execution_completed"), completions)
  /\ Tallied(s, {Event("target_outcome", "success")}, successes)

AuditInv ==
  \A id \in Ids :
    Tallies(trail[id], Starts(id), Approvals(id), Completions(id), Successes(id))

\* An event that counts for nothing.
Uncounted(e) ==
  /\ e \in Events
  /\ e \notin OfType("execution_started") /\ e \notin OfType("approval_granted")
  /\ e \notin OfType("execution_completed") /\ e # Event("target_outcome", "success")

LEMMA PlacesAppended ==
  ASSUME NEW s \in Seq(Events), NEW e, NEW E
  PROVE  /\ IsFiniteSet(Places(s, E)) /\ Cardinality(Places(s, E)) \in Nat
         /\ e \notin E => Places(Append(s, e), E) = Places(s, E)
         /\ e \in E => Cardinality(Places(Append(s, e), E)) = Cardinality(Places(s, E)) + 1
<1>1. PICK n : n = Len(s) /\ n \in Nat /\ DOMAIN s = 1 .. n
    OBVIOUS
<1>2. /\ DOMAIN Append(s, e) = 1 .. (n + 1) /\ Append(s, e)[n + 1] = e
      /\ \A i \in 1 .. n : Append(s, e)[i] = s[i]
  <2>1. s \in Seq(Events \cup {e})
      OBVIOUS
  <2> QED
      BY <1>1, <2>1
<1>3. \A i : i \in 1 .. (n + 1) <=> (i \in 1 .. n \/ i = n + 1)
    BY <1>1
<1>4. Places(Append(s, e), E) = Places(s, E) \cup (IF e \in E THEN {n + 1} ELSE {})
    BY <1>1, <1>2, <1>3 DEF Places
<1>5. n + 1 \notin Places(s, E) /\ Places(s, E) \subseteq 1 .. n
    BY <1>1 DEF Places
<1>6. IsFiniteSet(Places(s, E))
  <2>1. IsFiniteSet(1 .. n)
      BY <1>1, FS_Interval
  <2> QED
      BY <1>5, <2>1, FS_Subset
<1>7. Cardinality(Places(s, E)) \in Nat
    BY <1>6, FS_CardinalityType
<1>8. Cardinality(Places(s, E) \cup {n + 1}) = Cardinality(Places(s, E)) + 1
    BY <1>5, <1>6, FS_AddElement
<1> QED
    BY <1>4, <1>6, <1>7, <1>8

LEMMA TalliedMore ==
  ASSUME NEW s \in Seq(Events), NEW E, NEW W, Tallied(s, E, W), NEW e \in E, NEW w, w \notin W
  PROVE  Tallied(Append(s, e), E, W \cup {w})
<1>1. IsFiniteSet(W \cup {w}) /\ Cardinality(W \cup {w}) = Cardinality(W) + 1
    BY FS_AddElement DEF Tallied
<1> QED
    BY <1>1, PlacesAppended DEF Tallied

LEMMA TalliedSame ==
  ASSUME NEW s \in Seq(Events), NEW E, NEW W, Tallied(s, E, W), NEW e, e \notin E
  PROVE  Tallied(Append(s, e), E, W)
  BY PlacesAppended DEF Tallied

LEMMA KindsOfEvents ==
  /\ Event("execution_started", "-") \in Events
  /\ Event("approval_granted", "-") \in Events
  /\ \A state \in FinalStates : Event("execution_completed", state) \in Events
  /\ \A status \in Statuses : Event("target_outcome", status) \in Events
  /\ \A status \in Statuses : status # "success" => Uncounted(Event("target_outcome", status))
  /\ \A code \in ValidationCodes : Uncounted(Event("validation_rejected", code))
  /\ \A type \in EventTypes \ {"execution_started", "approval_granted", "execution_completed"} :
       Uncounted(Event(type, "-"))
<1>1. \A type \in EventTypes, detail \in Details : Event(type, detail) \in Events
    BY DEF Event, Events
<1>2. \A type, detail : Event(type, detail).type = type /\ Event(type, detail).detail = detail
    BY DEF Event
<1>3. \A type \in EventTypes, detail \in Details :
        \/ type \in {"execution_started", "approval_granted", "execution_completed"}
        \/ type = "target_outcome" /\ detail = "success"
        \/ Uncounted(Event(type, detail))
    BY <1>1, <1>2 DEF Uncounted, OfType
<1>4. "-" \in Details /\ Statuses \subseteq Details /\ FinalStates \subseteq Details
      /\ ValidationCodes \subseteq Details /\ "-" # "success"
    BY DEF Details
<1>5. {"execution_started", "approval_granted", "execution_completed", "target_outcome",
       "validation_rejected"} \subseteq EventTypes
    BY DEF EventTypes
<1>6. \A status \in Statuses : status # "success" => Uncounted(Event("target_outcome", status))
    BY <1>3, <1>4, <1>5
<1>7. \A code \in ValidationCodes : Uncounted(Event("validation_rejected", code))
    BY <1>3, <1>4, <1>5
<1>8. \A type \in EventTypes \ {"execution_started", "approval_granted", "execution_completed"} :
        Uncounted(Event(type, "-"))
    BY <1>3, <1>4
<1> QED
    BY <1>1, <1>4, <1>5, <1>6, <1>7, <1>8

\* What one more event does to the tallies.
LEMMA TalliesMore ==
  ASSUME NEW s \in Seq(Events), NEW A, NEW B, NEW C, NEW D, Tallies(s, A, B, C, D)
  PROVE  /\ \A e : Uncounted(e) => Tallies(Append(s, e), A, B, C, D)
         /\ \A a : a \notin A => Tallies(Append(s, Event("execution_started", "-")), A \cup {a}, B, C, D)
         /\ \A b : b \notin B => Tallies(Append(s, Event("approval_granted", "-")), A, B \cup {b}, C, D)
         /\ \A state \in FinalStates : \A x : x \notin C =>
              Tallies(Append(s, Event("execution_completed", state)), A, B, C \cup {x}, D)
         /\ \A d : d \notin D =>
              Tallies(Append(s, Event("target_outcome", "success")), A, B, C, D \cup {d})
<1>0. "success" \in Statuses
    BY DEF Statuses
<1>1. /\ Event("execution_started", "-") \in OfType("execution_started")
      /\ Event("approval_granted", "-") \in OfType("approval_granted")
      /\ \A state \in FinalStates :
           Event("execution_completed", state) \in OfType("execution_completed")
    BY KindsOfEvents DEF OfType, Event
<1>2. /\ Event("execution_started", "-") \notin OfType("approval_granted")
      /\ Event("execution_started", "-") \notin OfType("execution_completed")
      /\ Event("execution_started", "-") # Event("target_outcome", "success")
    BY DEF OfType, Event
<1>3. /\ Event("approval_granted", "-") \notin OfType("execution_started")
      /\ Event("approval_granted", "-") \notin OfType("execution_completed")
      /\ Event("approval_granted", "-") # Event("target_outcome", "success")
    BY DEF OfType, Event
<1>4. \A state : /\ Event("execution_completed", state) \notin OfType("execution_started")
                 /\ Event("execution_completed", state) \notin OfType("approval_granted")
                 /\ Event("execution_completed", state) # Event("target_outcome", "success")
    BY DEF OfType, Event
<1>5. /\ Event("target_outcome", "success") \notin OfType("execution_started")
      /\ Event("target_outcome", "success") \notin OfType("approval_granted")
      /\ Event("target_outcome", "success") \notin OfType("execution_completed")
    BY DEF OfType, Event
<1>6. \A e : Uncounted(e) => Tallies(Append(s, e), A, B, C, D)
    BY TalliedSame DEF Uncounted, Tallies
<1>7. \A a : a \notin A => Tallies(Append(s, Event("execution_started", "-")), A \cup {a}, B, C, D)
    BY <1>1, <1>2, TalliedSame, TalliedMore DEF Tallies
<1>8. \A b : b \notin B => Tallies(Append(s, Event("approval_granted", "-")), A, B \cup {b}, C, D)
    BY <1>1, <1>3, TalliedSame, TalliedMore DEF Tallies
<1>9. \A state \in FinalStates : \A x : x \notin C =>
        Tallies(Append(s, Event("execution_completed", state)), A, B, C \cup {x}, D)
    BY <1>1, <1>4, TalliedSame, TalliedMore DEF Tallies
<1>10. \A d : d \notin D =>
         Tallies(Append(s, Event("target_outcome", "success")), A, B, C, D \cup {d})
    BY <1>5, TalliedSame, TalliedMore DEF Tallies
<1> QED
    BY <1>6, <1>7, <1>8, <1>9, <1>10

\* What a step adds to the world's view of a proposal.
LEMMA StartsMore ==
  ASSUME batch' = batch, NEW s, started' = started \cup {s}
  PROVE  \A id : Starts(id)' = IF Subject(s.exec) = id THEN Starts(id) \cup {s} ELSE Starts(id)
  BY DEF Starts, Subject

LEMMA ApprovalsMore ==
  ASSUME batch' = batch, NEW d, decisions' = decisions \cup {d}
  PROVE  \A id : Approvals(id)' =
           IF d.decision.approved /\ ~ d.decision.timedOut /\ Subject(d.exec) = id
             THEN Approvals(id) \cup {d} ELSE Approvals(id)
  BY DEF Approvals, Subject

LEMMA SuccessesMore ==
  ASSUME batch' = batch, NEW y, answered' = answered \cup {y}
  PROVE  \A id : Successes(id)' =
           IF ~ y.asked.dry /\ y.answer = "success" /\ Subject(ExecOf(y.asked)) = id
             THEN Successes(id) \cup {y} ELSE Successes(id)
  BY DEF Successes, Subject, ExecOf

LEMMA CompletionIs ==
  \A id, e :
    /\ e \in Completions(id) <=>
         \E c \in Calls : \E k \in DOMAIN results[c] :
           /\ e = [call |-> c, index |-> k]
           /\ results[c][k].id = id /\ results[c][k].state \in FinalStates
    /\ e \in Completions(id)' <=>
         \E c \in Calls : \E k \in DOMAIN results'[c] :
           /\ e = [call |-> c, index |-> k]
           /\ results'[c][k].id = id /\ results'[c][k].state \in FinalStates
  BY DEF Completions

LEMMA CompletionsMore ==
  ASSUME TypeOK, TypeOK', NEW c \in Calls, Accounted(c), NEW state, Finish(c, state)
  PROVE  \A id : /\ Completions(id)' = IF state \in FinalStates /\ Current(c) = id
                                         THEN Completions(id) \cup {Execution(c)}
                                         ELSE Completions(id)
                 /\ Execution(c) \notin Completions(id)
<1>1. PICK k : k = at[c] /\ k \in Nat \ {0}
    BY DEF TypeOK, CallTypeOK
<1>2. PICK s : s = results[c] /\ s \in Seq([id : Ids, state : ActionStates]) /\ Len(s) = k - 1
    BY <1>1 DEF TypeOK, CallTypeOK, Accounted
<1>3. PICK r : r = [id |-> Current(c), state |-> state]
    OBVIOUS
<1>4. r.id = Current(c) /\ r.state = state
    BY <1>3
<1>5. /\ results'[c] = Append(s, r)
      /\ \A o \in Calls : o # c => results'[o] = results[o]
    BY <1>2, <1>3 DEF Finish, Conclude, TypeOK, CallTypeOK
<1>6. /\ DOMAIN Append(s, r) = 1 .. k /\ Append(s, r)[k] = r
      /\ \A i \in 1 .. (k - 1) : Append(s, r)[i] = s[i]
      /\ DOMAIN s = 1 .. (k - 1)
  <2>1. PICK S : s \in Seq(S)
      BY <1>2
  <2>2. s \in Seq(S \cup {r})
      BY <2>1
  <2> QED
      BY <1>1, <1>2, <2>2
<1>7. \A i : i \in 1 .. k <=> (i \in 1 .. (k - 1) \/ i = k)
    BY <1>1
<1>8. k \notin 1 .. (k - 1)
    BY <1>1
<1>9. Execution(c) = [call |-> c, index |-> k]
    BY <1>1 DEF Execution
<1>10. ASSUME NEW id, NEW e
       PROVE  e \in Completions(id)' <=>
                \/ e \in Completions(id)
                \/ e = Execution(c) /\ state \in FinalStates /\ Current(c) = id
  <2>1. ASSUME NEW o \in Calls, o # c
        PROVE  (\E i \in DOMAIN results'[o] :
                  /\ e = [call |-> o, index |-> i]
                  /\ results'[o][i].id = id /\ results'[o][i].state \in FinalStates)
               <=> (\E i \in DOMAIN results[o] :
                  /\ e = [call |-> o, index |-> i]
                  /\ results[o][i].id = id /\ results[o][i].state \in FinalStates)
      BY <1>5, <2>1
  <2>2. (\E i \in DOMAIN results'[c] :
           /\ e = [call |-> c, index |-> i]
           /\ results'[c][i].id = id /\ results'[c][i].state \in FinalStates)
        <=> \/ \E i \in DOMAIN results[c] :
                 /\ e = [call |-> c, index |-> i]
                 /\ results[c][i].id = id /\ results[c][i].state \in FinalStates
            \/ e = Execution(c) /\ state \in FinalStates /\ Current(c) = id
      BY <1>2, <1>4, <1>5, <1>6, <1>7, <1>9
  <2> QED
      BY <2>1, <2>2, CompletionIs
<1>11. \A id : Execution(c) \notin Completions(id)
  <2>1. k \notin DOMAIN results[c]
      BY <1>2, <1>6, <1>8
  <2> QED
      BY <1>9, <2>1, CompletionIs
<1>12. \A id : Completions(id)' = IF state \in FinalStates /\ Current(c) = id
                                    THEN Completions(id) \cup {Execution(c)}
                                    ELSE Completions(id)
    BY <1>10
<1> QED
    BY <1>11, <1>12

\* Nothing happened in the world, though a call may have taken its batch.
LEMMA WorldKept ==
  ASSUME PipelineInv, AnsweredOnce, UNCHANGED << started, decisions, answered, results >>,
         \A exec : Recorded(exec) => Subject(exec)' = Subject(exec)
  PROVE  \A id : /\ Starts(id)' = Starts(id) /\ Approvals(id)' = Approvals(id)
                 /\ Completions(id)' = Completions(id) /\ Successes(id)' = Successes(id)
<1>1. /\ \A s \in started : Subject(s.exec)' = Subject(s.exec)
      /\ \A d \in decisions : Subject(d.exec)' = Subject(d.exec)
      /\ \A y \in answered : Subject(ExecOf(y.asked))' = Subject(ExecOf(y.asked))
    BY ExecIs DEF PipelineInv, Traces, AnsweredOnce, Subject, ExecOf
<1> QED
    BY <1>1 DEF Starts, Approvals, Completions, Successes

\* A step that logs nothing that counts, and changes nothing in the world.
LEMMA AuditCalm ==
  ASSUME TypeOK, PipelineInv, AnsweredOnce, AuditInv,
         UNCHANGED << started, decisions, answered, results >>,
         \A exec : Recorded(exec) => Subject(exec)' = Subject(exec),
         \A id \in Ids :
           \/ trail'[id] = trail[id]
           \/ \E e1, e2 : /\ Uncounted(e1) /\ Uncounted(e2)
                          /\ trail'[id] = Append(Append(trail[id], e1), e2)
  PROVE  AuditInv'
<1> SUFFICES ASSUME NEW id \in Ids
             PROVE  Tallies(trail'[id], Starts(id), Approvals(id), Completions(id), Successes(id))
    BY WorldKept DEF AuditInv
<1>1. PICK s : s = trail[id] /\ s \in Seq(Events)
    BY DEF TypeOK, SurfaceTypeOK
<1>2. PICK A, B, C, D : A = Starts(id) /\ B = Approvals(id) /\ C = Completions(id) /\ D = Successes(id)
    OBVIOUS
<1>3. Tallies(s, A, B, C, D)
    BY <1>1, <1>2 DEF AuditInv
<1>4. ASSUME NEW e1, NEW e2, Uncounted(e1), Uncounted(e2)
      PROVE  Tallies(Append(Append(s, e1), e2), A, B, C, D)
  <2>1. Append(s, e1) \in Seq(Events)
      BY <1>1, <1>4 DEF Uncounted
  <2> QED
      BY <1>1, <1>3, <1>4, <2>1, TalliesMore
<1> QED
    BY <1>1, <1>2, <1>3, <1>4

\* A step of process(): it writes the trail of the proposal the call is at,
\* and the world changes for that proposal only.
LEMMA AuditBusy ==
  ASSUME TypeOK, AuditInv, NEW cur \in Ids, NEW log, trail' = [trail EXCEPT ![cur] = log],
         \A id \in Ids : id # cur =>
           /\ Starts(id)' = Starts(id) /\ Approvals(id)' = Approvals(id)
           /\ Completions(id)' = Completions(id) /\ Successes(id)' = Successes(id),
         Tallies(log, Starts(cur)', Approvals(cur)', Completions(cur)', Successes(cur)')
  PROVE  AuditInv'
<1> SUFFICES ASSUME NEW id \in Ids
             PROVE  Tallies(trail'[id], Starts(id)', Approvals(id)', Completions(id)', Successes(id)')
    BY DEF AuditInv
<1>1. trail \in [Ids -> Seq(Events)]
    BY DEF TypeOK, SurfaceTypeOK
<1>2. CASE id = cur
    BY <1>1, <1>2
<1>3. CASE id # cur
    BY <1>1, <1>3 DEF AuditInv
<1> QED
    BY <1>2, <1>3

LEMMA WorldSame ==
  /\ UNCHANGED << batch, started >> => \A id : Starts(id)' = Starts(id)
  /\ UNCHANGED << batch, decisions >> => \A id : Approvals(id)' = Approvals(id)
  /\ UNCHANGED << batch, answered >> => \A id : Successes(id)' = Successes(id)
  /\ UNCHANGED results => \A id : Completions(id)' = Completions(id)
<1>1. UNCHANGED << batch, started >> => \A id : Starts(id)' = Starts(id)
    BY DEF Starts, Subject
<1>2. UNCHANGED << batch, decisions >> => \A id : Approvals(id)' = Approvals(id)
    BY DEF Approvals, Subject
<1>3. UNCHANGED << batch, answered >> => \A id : Successes(id)' = Successes(id)
    BY DEF Successes, Subject, ExecOf
<1>4. UNCHANGED results => \A id : Completions(id)' = Completions(id)
    BY DEF Completions
<1> QED
    BY <1>1, <1>2, <1>3, <1>4

\* The tallies of the proposal a call is at, with names for their parts.
LEMMA TalliesHere ==
  ASSUME TypeOK, AuditInv, NEW cur \in Ids
  PROVE  /\ trail[cur] \in Seq(Events)
         /\ Tallies(trail[cur], Starts(cur), Approvals(cur), Completions(cur), Successes(cur))
  BY DEF TypeOK, SurfaceTypeOK, AuditInv

LEMMA EnterAudit ==
  ASSUME TypeOK, TypeOK', PipelineInv, ExecutionInv, AuditInv, NEW c \in Calls, Enter(c)
  PROVE  AuditInv'
<1>1. pc[c] \in Busy /\ UNCHANGED << answered, decisions, started, batch >>
    BY DEF Enter, Busy, Blocked, Finish, Conclude
<1>2. PICK cur \in Ids : cur = Current(c)
    BY <1>1, CurrentType DEF TypeOK, PipelineInv
<1>3. CASE Blocked(c)
  <2>1. PICK e1, e2 : e1 = Event("kill_switch_engaged", "-") /\ e2 = Event("action_blocked", "-")
      OBVIOUS
  <2>2. Uncounted(e1) /\ Uncounted(e2)
      BY <2>1, KindsOfEvents DEF EventTypes
  <2>3. trail' = [trail EXCEPT ![cur] = Append(Append(trail[cur], e1), e2)] /\ Finish(c, "killed")
      BY <1>2, <1>3, <2>1 DEF Blocked, Log2
  <2>4. \A id : Completions(id)' = Completions(id)
      BY <2>3, CompletionsMore DEF ExecutionInv, CallInv, FinalStates
  <2>5. trail[cur] \in Seq(Events) /\ Append(trail[cur], e1) \in Seq(Events)
      BY <2>2, TalliesHere DEF Uncounted
  <2>6. Tallies(Append(Append(trail[cur], e1), e2),
                Starts(cur), Approvals(cur), Completions(cur), Successes(cur))
    <3>1. Tallies(Append(trail[cur], e1), Starts(cur), Approvals(cur), Completions(cur), Successes(cur))
        BY <2>2, <2>5, TalliesHere, TalliesMore
    <3> QED
        BY <2>2, <2>5, <3>1, TalliesMore
  <2> QED
    <3>1. \A id : Starts(id)' = Starts(id) /\ Approvals(id)' = Approvals(id) /\ Successes(id)' = Successes(id)
        BY <1>1, WorldSame
    <3> QED
        BY <2>3, <2>4, <2>6, <3>1, AuditBusy
<1>4. CASE UNCHANGED << trail, results >>
  <2>1. \A exec : Subject(exec)' = Subject(exec)
      BY <1>1 DEF Subject
  <2> QED
      BY <1>1, <1>4, <2>1, AuditCalm DEF ExecutionInv
<1> QED
    BY <1>3, <1>4 DEF Enter

LEMMA GateAudit ==
  ASSUME TypeOK, TypeOK', PipelineInv, ExecutionInv, AuditInv, NEW c \in Calls, GateAnswers(c)
  PROVE  AuditInv'
<1> PICK d \in Decisions : \/ GateTimesOut(c, d)
                           \/ HumanRejects(c, d)
                           \/ ApprovedButKilled(c, d)
                           \/ ApprovedAndStarted(c, d)
    BY DEF GateAnswers
<1>0. PICK new : new = [exec |-> Execution(c), decision |-> d]
    OBVIOUS
<1>1. new = [exec |-> Execution(c), decision |-> d] /\ new.exec = Execution(c) /\ new.decision = d
    BY <1>0
<1>2. /\ pc[c] = "gate" /\ pc[c] \in Busy /\ answered' = answered
      /\ decisions' = decisions \cup {new}
    BY <1>1 DEF GateTimesOut, HumanRejects, ApprovedButKilled, ApprovedAndStarted, StartExecution,
                Decide, Busy
<1>3. PICK cur \in Ids : cur = Current(c)
    BY <1>2, CurrentType DEF TypeOK, PipelineInv
<1>4. Subject(Execution(c)) = cur
    BY <1>3, ExecFacts
<1>5. batch' = batch
    BY DEF GateTimesOut, HumanRejects, ApprovedButKilled, ApprovedAndStarted, StartExecution,
           Finish, Conclude
<1>6. PICK s, A, B, C, D : /\ s = trail[cur] /\ s \in Seq(Events)
                           /\ A = Starts(cur) /\ B = Approvals(cur)
                           /\ C = Completions(cur) /\ D = Successes(cur)
                           /\ Tallies(s, A, B, C, D)
    BY TalliesHere
<1>7. \A id : Successes(id)' = Successes(id)
    BY <1>2, <1>5, WorldSame
<1>8. new \notin B /\ \A z \in started : z.exec # Execution(c)
    BY <1>1, <1>2, <1>6, NothingAsked DEF ExecutionInv, Approvals
<1>9. ASSUME NEW state, state \notin FinalStates, Finish(c, state), started' = started
      PROVE  \A id : Completions(id)' = Completions(id) /\ Starts(id)' = Starts(id)
    BY <1>5, <1>9, WorldSame, CompletionsMore DEF ExecutionInv, CallInv
<1>10. CASE GateTimesOut(c, d) \/ HumanRejects(c, d)
  <2>1. PICK e : /\ e \in {Event("approval_timeout", "-"), Event("approval_rejected", "-")}
                 /\ trail' = [trail EXCEPT ![cur] = Append(s, e)]
      BY <1>3, <1>6, <1>10 DEF GateTimesOut, HumanRejects, Log
  <2>2. Uncounted(e)
      BY <2>1, KindsOfEvents DEF EventTypes
  <2>3. /\ ~ (d.approved /\ ~ d.timedOut)
        /\ \A id : Completions(id)' = Completions(id) /\ Starts(id)' = Starts(id)
      BY <1>9, <1>10 DEF GateTimesOut, HumanRejects, FinalStates
  <2>4. \A id : Approvals(id)' = Approvals(id)
      BY <1>1, <1>2, <1>5, <2>3, ApprovalsMore
  <2>5. Tallies(Append(s, e), A, B, C, D)
      BY <1>6, <2>2, TalliesMore
  <2> QED
      BY <1>6, <1>7, <2>1, <2>3, <2>4, <2>5, AuditBusy
<1>11. ASSUME d.approved, ~ d.timedOut
       PROVE  /\ Approvals(cur)' = B \cup {new}
              /\ \A id : id # cur => Approvals(id)' = Approvals(id)
    BY <1>1, <1>2, <1>4, <1>5, <1>6, <1>11, ApprovalsMore
<1>12. PICK e0 : e0 = Event("approval_granted", "-") /\ Append(s, e0) \in Seq(Events)
    BY <1>6, KindsOfEvents
<1>13. Tallies(Append(s, e0), A, B \cup {new}, C, D)
    BY <1>6, <1>8, <1>12, TalliesMore
<1>14. CASE ApprovedButKilled(c, d)
  <2>1. PICK e1, e2 : e1 = Event("kill_switch_engaged", "-") /\ e2 = Event("action_blocked", "-")
      OBVIOUS
  <2>2. Uncounted(e1) /\ Uncounted(e2)
      BY <2>1, KindsOfEvents DEF EventTypes
  <2>3. trail' = [trail EXCEPT ![cur] = Append(Append(Append(s, e0), e1), e2)]
      BY <1>3, <1>6, <1>12, <1>14, <2>1 DEF ApprovedButKilled
  <2>4. \A id : Completions(id)' = Completions(id) /\ Starts(id)' = Starts(id)
      BY <1>9, <1>14 DEF ApprovedButKilled, FinalStates
  <2>5. Append(Append(s, e0), e1) \in Seq(Events)
      BY <1>12, <2>2 DEF Uncounted
  <2>6. Tallies(Append(Append(Append(s, e0), e1), e2), A, B \cup {new}, C, D)
    <3>1. Tallies(Append(Append(s, e0), e1), A, B \cup {new}, C, D)
        BY <1>12, <1>13, <2>2, TalliesMore
    <3> QED
        BY <2>2, <2>5, <3>1, TalliesMore
  <2>7. d.approved /\ ~ d.timedOut
      BY <1>14 DEF ApprovedButKilled
  <2> QED
      BY <1>6, <1>7, <1>11, <2>3, <2>4, <2>6, <2>7, AuditBusy
<1>15. CASE ApprovedAndStarted(c, d)
  <2>1. PICK e1 : e1 = Event("execution_started", "-")
      OBVIOUS
  <2>0. PICK begun : begun = [exec |-> Execution(c), time |-> now]
      OBVIOUS
  <2>2. begun = [exec |-> Execution(c), time |-> now] /\ begun.exec = Execution(c)
      BY <2>0
  <2>3. /\ trail' = [trail EXCEPT ![cur] = Append(Append(s, e0), e1)]
        /\ started' = started \cup {begun} /\ results' = results
        /\ d.approved /\ ~ d.timedOut
      BY <1>3, <1>6, <1>12, <1>15, <2>1, <2>2 DEF ApprovedAndStarted, StartExecution, Log2
  <2>4. begun \notin A
      BY <1>6, <1>8, <2>2 DEF Starts
  <2>5. Starts(cur)' = A \cup {begun} /\ \A id : id # cur => Starts(id)' = Starts(id)
      BY <1>4, <1>5, <1>6, <2>2, <2>3, StartsMore
  <2>6. \A id : Completions(id)' = Completions(id)
      BY <2>3, WorldSame
  <2>7. Tallies(Append(Append(s, e0), e1), A \cup {begun}, B \cup {new}, C, D)
      BY <1>12, <1>13, <2>1, <2>4, TalliesMore
  <2> QED
      BY <1>6, <1>7, <1>11, <2>3, <2>5, <2>6, <2>7, AuditBusy
<1> QED
    BY <1>10, <1>14, <1>15

LEMMA ExecutorAudit ==
  ASSUME TypeOK, TypeOK', PipelineInv, ExecutionInv, AuditInv, NEW c \in Calls, ExecutorAnswers(c)
  PROVE  AuditInv'
<1> PICK answer \in Answers : /\ Answered(c, answer, FALSE)
                              /\ \/ RetryTarget(c, answer)
                                 \/ NextTarget(c, answer)
                                 \/ CompleteExecution(c, answer)
    BY DEF ExecutorAnswers
<1>0. PICK y : y = [asked |-> ExecutorCall(c, target[c], attempt[c], FALSE), answer |-> answer]
    OBVIOUS
<1>1. /\ y = [asked |-> ExecutorCall(c, target[c], attempt[c], FALSE), answer |-> answer]
      /\ y.answer = answer
    BY <1>0
<1>2. /\ pc[c] = "executing" /\ pc[c] \in Busy /\ UNCHANGED << decisions, started >>
      /\ answered' = answered \cup {y}
    BY <1>1 DEF ExecutorAnswers, Answered, Busy
<1>3. y.asked = Awaited(c) /\ ExecOf(y.asked) = Execution(c) /\ ~ y.asked.dry
    BY <1>1, <1>2 DEF Awaited, ExecutorCall, ExecOf, Execution
<1>4. PICK cur \in Ids : cur = Current(c)
    BY <1>2, CurrentType DEF TypeOK, PipelineInv
<1>5. Subject(ExecOf(y.asked)) = cur
    BY <1>3, <1>4, ExecFacts
<1>6. batch' = batch
    BY DEF RetryTarget, NextTarget, CompleteExecution, Finish, Conclude
<1>7. PICK s, A, B, C, D : /\ s = trail[cur] /\ s \in Seq(Events)
                           /\ A = Starts(cur) /\ B = Approvals(cur)
                           /\ C = Completions(cur) /\ D = Successes(cur)
                           /\ Tallies(s, A, B, C, D)
    BY TalliesHere
<1>8. \A id : Starts(id)' = Starts(id) /\ Approvals(id)' = Approvals(id)
    BY <1>2, <1>6, WorldSame
<1>9. y \notin D
    BY <1>2, <1>3, <1>7 DEF ExecutionInv, CallInv, Outstanding, Successes
<1>10. \A id : Successes(id)' = IF answer = "success" /\ id = cur THEN Successes(id) \cup {y}
                                                                  ELSE Successes(id)
    BY <1>1, <1>2, <1>3, <1>5, <1>6, SuccessesMore
<1>11. PICK status : status = StatusOf(answer)
    OBVIOUS
<1>12. status \in Statuses /\ (status = "success" <=> answer = "success")
    BY <1>11, AnswersAssumption DEF StatusOf, Statuses
<1>13. PICK e1 : e1 = Event("target_outcome", status) /\ Append(s, e1) \in Seq(Events)
    BY <1>7, <1>12, KindsOfEvents
<1>14. Tallies(Append(s, e1), A, B, C, Successes(cur)')
    BY <1>7, <1>9, <1>10, <1>12, <1>13, KindsOfEvents, TalliesMore
<1>15. CASE RetryTarget(c, answer)
  <2>1. answer # "success" /\ UNCHANGED << trail, results >>
      BY <1>15 DEF RetryTarget, Retries
  <2>2. \A id : Successes(id)' = Successes(id) /\ Completions(id)' = Completions(id)
      BY <1>10, <2>1, WorldSame
  <2> QED
      BY <1>8, <2>1, <2>2 DEF AuditInv
<1>16. CASE NextTarget(c, answer)
  <2>1. trail' = [trail EXCEPT ![cur] = Append(s, e1)] /\ results' = results
      BY <1>4, <1>7, <1>11, <1>13, <1>16 DEF NextTarget, RecordTarget, Log
  <2>2. \A id : Completions(id)' = Completions(id)
      BY <2>1, WorldSame
  <2> QED
      BY <1>7, <1>8, <1>10, <1>14, <2>1, <2>2, AuditBusy
<1>17. CASE CompleteExecution(c, answer)
  <2>1. PICK state : state = FinalState(Append(outcomes[c], StatusOf(answer)))
      OBVIOUS
  <2>2. state \in FinalStates
      BY <2>1 DEF FinalState, FinalStates
  <2>3. PICK e2 : e2 = Event("execution_completed", state)
      OBVIOUS
  <2>4. /\ trail' = [trail EXCEPT ![cur] = Append(Append(s, e1), e2)]
        /\ Finish(c, state)
      BY <1>4, <1>7, <1>11, <1>13, <1>17, <2>1, <2>3 DEF CompleteExecution, Log2
  <2>5. PICK x : x = Execution(c)
      OBVIOUS
  <2>6. /\ x \notin C /\ Completions(cur)' = C \cup {x}
        /\ \A id : id # cur => Completions(id)' = Completions(id)
      BY <1>4, <1>7, <2>2, <2>4, <2>5, CompletionsMore DEF ExecutionInv, CallInv
  <2>7. PICK D2 : D2 = Successes(cur)'
      OBVIOUS
  <2>8. Tallies(Append(Append(s, e1), e2), A, B, C \cup {x}, D2)
      BY <1>13, <1>14, <2>2, <2>3, <2>6, <2>7, TalliesMore
  <2> QED
      BY <1>7, <1>8, <1>10, <2>4, <2>6, <2>7, <2>8, AuditBusy
<1> QED
    BY <1>15, <1>16, <1>17

LEMMA PlannerAudit ==
  ASSUME TypeOK, TypeOK', PipelineInv, ExecutionInv, AuditInv, NEW c \in Calls, PlannerAnswers(c)
  PROVE  AuditInv'
<1> PICK answer : Answered(c, answer, TRUE)
    BY DEF PlannerAnswers
<1>0. PICK y : y = [asked |-> ExecutorCall(c, target[c], attempt[c], TRUE), answer |-> answer]
    OBVIOUS
<1>1. /\ y = [asked |-> ExecutorCall(c, target[c], attempt[c], TRUE), answer |-> answer]
      /\ y.asked.dry
    BY <1>0 DEF ExecutorCall
<1>2. /\ pc[c] \in Busy /\ UNCHANGED << decisions, started, batch >>
      /\ answered' = answered \cup {y}
    BY <1>1 DEF PlannerAnswers, Answered, Busy, Finish, Conclude
<1>3. \A id : Starts(id)' = Starts(id) /\ Approvals(id)' = Approvals(id) /\ Successes(id)' = Successes(id)
    BY <1>1, <1>2, WorldSame, SuccessesMore
<1>4. PICK cur \in Ids : cur = Current(c)
    BY <1>2, CurrentType DEF TypeOK, PipelineInv
<1>5. CASE target[c] < Len(Targets(Current(c)))
  <2>1. UNCHANGED << trail, results >>
      BY <1>5 DEF PlannerAnswers
  <2>2. \A id : Completions(id)' = Completions(id)
      BY <2>1, WorldSame
  <2> QED
      BY <1>3, <2>1, <2>2 DEF AuditInv
<1>6. CASE ~ (target[c] < Len(Targets(Current(c))))
  <2>1. PICK e : e = Event("dry_run_planned", "-")
      OBVIOUS
  <2>2. trail' = [trail EXCEPT ![cur] = Append(trail[cur], e)] /\ Finish(c, "dry_run")
      BY <1>4, <1>6, <2>1 DEF PlannerAnswers, Log
  <2>3. Uncounted(e)
      BY <2>1, KindsOfEvents DEF EventTypes
  <2>4. \A id : Completions(id)' = Completions(id)
      BY <2>2, CompletionsMore DEF ExecutionInv, CallInv, FinalStates
  <2>5. Tallies(Append(trail[cur], e), Starts(cur), Approvals(cur), Completions(cur), Successes(cur))
      BY <2>3, TalliesHere, TalliesMore
  <2> QED
      BY <1>3, <2>2, <2>4, <2>5, AuditBusy
<1> QED
    BY <1>5, <1>6

\* A proposal's first two events count for nothing.
LEMMA SubmitLogs ==
  ASSUME TypeOK, NEW id \in Ids, NEW p, Submit(id, p)
  PROVE  \A other \in Ids :
           \/ trail'[other] = trail[other]
           \/ \E e1, e2 : /\ Uncounted(e1) /\ Uncounted(e2)
                          /\ trail'[other] = Append(Append(trail[other], e1), e2)
<1>1. PICK code : code = Verdict(p)
    OBVIOUS
<1>2. code \in ValidationCodes
    BY <1>1, ValidateProposalType DEF Verdict
<1>3. PICK e1 : e1 = Event("proposal_created", "-")
    OBVIOUS
<1>4. PICK e2 : e2 = IF code = "ok" THEN Event("validation_passed", "-")
                                    ELSE Event("validation_rejected", code)
    OBVIOUS
<1>5. Uncounted(e1) /\ Uncounted(e2)
    BY <1>2, <1>3, <1>4, KindsOfEvents DEF EventTypes
<1>6. trail' = [trail EXCEPT ![id] = Append(Append(trail[id], e1), e2)]
    BY <1>1, <1>3, <1>4 DEF Submit, Log2
<1> QED
    BY <1>5, <1>6 DEF TypeOK, SurfaceTypeOK

LEMMA AuditStep ==
  TypeOK /\ TypeOK' /\ PipelineInv /\ ExecutionInv /\ AuditInv /\ [Next]_vars => AuditInv'
<1> SUFFICES ASSUME TypeOK, TypeOK', PipelineInv, ExecutionInv, AuditInv, [Next]_vars PROVE AuditInv'
    OBVIOUS
<1>0. AnsweredOnce /\ (batch' = batch => \A exec : Subject(exec)' = Subject(exec))
    BY DEF ExecutionInv, Subject
<1>1. ASSUME NEW id \in Ids, NEW p \in Proposals, Propose(id, p) PROVE AuditInv'
  <2>1. Submit(id, p) /\ UNCHANGED << batch, started, decisions, answered, results >>
      BY <1>1 DEF Propose, callVars, worldVars
  <2> QED
      BY <1>0, <2>1, SubmitLogs, AuditCalm
<1>2. ASSUME NEW c \in Calls, pc[c] = "idle", NEW ids, batch' = [batch EXCEPT ![c] = ids],
             UNCHANGED << trail, started, decisions, answered, results >>
      PROVE  AuditInv'
  <2>1. \A exec : Recorded(exec) => Subject(exec)' = Subject(exec)
    <3>1. batch[c] = << >>
        BY <1>2 DEF PipelineInv, Fresh
    <3> QED
        BY <1>2, <3>1 DEF Recorded, Subject, TypeOK, CallTypeOK
  <2> QED
      BY <1>0, <1>2, <2>1, AuditCalm
<1>3. ASSUME NEW c \in Calls, NEW id \in Ids, ProcessCall(c, id) PROVE AuditInv'
    BY <1>2, <1>3 DEF ProcessCall, Begin, surfaceVars, worldVars
<1>4. ASSUME NEW c \in Calls, ProcessPendingCall(c) PROVE AuditInv'
  <2>1. pc[c] = "idle" /\ UNCHANGED << trail, started, decisions, answered, results >>
        /\ (batch' = batch \/ batch' = [batch EXCEPT ![c] = pending])
      BY <1>4 DEF ProcessPendingCall, Begin, worldVars
  <2> QED
      BY <1>0, <1>2, <2>1, AuditCalm
<1>5. ASSUME NEW c \in Calls, NEW id \in Ids, NEW q \in Requests, ExecuteCall(c, id, q)
      PROVE  AuditInv'
  <2>1. /\ Submit(id, ProposalOf(q)) /\ batch' = batch
        /\ UNCHANGED << started, decisions, answered, results >>
      BY <1>5, ExecuteIsRejected DEF ExecuteCall, worldVars
  <2> QED
      BY <1>0, <2>1, SubmitLogs, AuditCalm
<1>6. CASE UNCHANGED << trail, batch, started, decisions, answered, results >>
    BY <1>0, <1>6, AuditCalm
<1>7. ASSUME NEW c \in Calls, NEW id \in Ids, NEW q \in Requests, ApproveCall(c, id, q)
      PROVE  AuditInv'
    BY <1>6, <1>7 DEF ApproveCall, worldVars
<1>8. ASSUME NEW c \in Calls, ApproveAnswers(c) \/ Abandon(c) PROVE AuditInv'
    BY <1>6, <1>8 DEF ApproveAnswers, Abandon, surfaceVars, worldVars
<1>9. CASE Engage \/ ToggleKillFile \/ Tick \/ UNCHANGED vars
    BY <1>6, <1>9 DEF Engage, ToggleKillFile, Tick, vars, surfaceVars, callVars, worldVars
<1> QED
    BY <1>1, <1>3, <1>4, <1>5, <1>7, <1>8, <1>9,
       EnterAudit, GateAudit, ExecutorAudit, PlannerAudit DEF Next

LEMMA AuditInit == Init => AuditInv
<1> SUFFICES ASSUME Init, NEW id \in Ids
             PROVE  Tallies(trail[id], Starts(id), Approvals(id), Completions(id), Successes(id))
    BY DEF AuditInv
<1>1. Starts(id) = {} /\ Approvals(id) = {} /\ Completions(id) = {} /\ Successes(id) = {}
  <2>1. started = {} /\ decisions = {} /\ answered = {} /\ \A c \in Calls : results[c] = << >>
      BY DEF Init
  <2>2. Completions(id) = {}
      BY <2>1, CompletionIs
  <2> QED
      BY <2>1, <2>2 DEF Starts, Approvals, Successes
<1>2. trail[id] = << >>
    BY DEF Init
<1>3. \A E : Places(<< >>, E) = {}
    BY DEF Places
<1> QED
    BY <1>1, <1>2, <1>3, FS_EmptySet DEF Tallies, Tallied

LEMMA AuditFromInvariant == TypeOK /\ AuditInv => AuditMatchesWorld
<1> SUFFICES ASSUME TypeOK, AuditInv, NEW id \in Ids
             PROVE  /\ Count(id, "execution_started") = Cardinality(Starts(id))
                    /\ Count(id, "approval_granted") = Cardinality(Approvals(id))
                    /\ Count(id, "execution_completed") = Cardinality(Completions(id))
                    /\ Cardinality({i \in DOMAIN trail[id] :
                                      trail[id][i] = Event("target_outcome", "success")})
                         = Cardinality(Successes(id))
    BY DEF AuditMatchesWorld
<1>1. PICK s : s = trail[id] /\ s \in Seq(Events)
    BY DEF TypeOK, SurfaceTypeOK
<1>2. \A i \in DOMAIN s : s[i] \in Events
    BY <1>1
<1>3. \A type : {i \in DOMAIN s : s[i].type = type} = Places(s, OfType(type))
    BY <1>2 DEF Places, OfType
<1>4. {i \in DOMAIN s : s[i] = Event("target_outcome", "success")}
        = Places(s, {Event("target_outcome", "success")})
    BY DEF Places
<1>5. Tallies(s, Starts(id), Approvals(id), Completions(id), Successes(id))
    BY <1>1 DEF AuditInv
<1> QED
    BY <1>1, <1>3, <1>4, <1>5 DEF Tallies, Tallied, Count

\* The audit trail has, for each proposal, one start per execution begun, one
\* grant per approval, one completion per final result and one success per
\* executor call that succeeded (every self._audit.record of the pipeline),
\* for any number of calls that process the proposal at once.
THEOREM AuditIsTrue == Spec => []AuditMatchesWorld
<1>1. TypeOK /\ PipelineInv /\ ExecutionInv /\ AuditInv /\ (TypeOK /\ PipelineInv)' /\ [Next]_vars
        => AuditInv'
    BY AuditStep
<1>2. Spec => []AuditInv
    BY <1>1, AuditInit, ExecutionInvariant, PipelineInvariant, PTL DEF Spec
<1> QED
    BY <1>2, AuditFromInvariant, PipelineInvariant, PTL
=============================================================================
