--------------------------- MODULE ActionPipeline ---------------------------
(***************************************************************************)
(* GatedActionSurface (actions/pipeline.py) with its guards                *)
(* (actions/guards.py): propose, process, process_pending, approve and     *)
(* execute, run as coroutines of one asyncio event loop.                   *)
(*                                                                         *)
(* A member of Calls is one call of a coroutine method.  A coroutine runs  *)
(* without interruption up to its next await, so `running` names the call  *)
(* that holds the event loop: a call waiting for its gate or its executor  *)
(* has released it.  The clock and the kill-switch file belong to the      *)
(* operating system and move at any moment.                                *)
(*                                                                         *)
(* The variables after the marker "observation" are the world's view of    *)
(* the program (what the executor was asked, what the human answered);     *)
(* no guard reads them.                                                    *)
(***************************************************************************)
EXTENDS ActionValidation, FiniteSets

CONSTANTS
  Calls,        \* the coroutine calls of one behaviour (a bound)
  Ids,          \* the ids the surface may assign (a bound on proposals)
  Proposals,    \* the contents propose() is called with
  Requests,     \* the ActionRequests approve() and execute() are called with
  MaxActions,   \* rate_limit.max_actions
  Window,       \* rate_limit.window_seconds, in clock ticks
  Threshold,    \* circuit_breaker.failure_threshold
  MaxTime,      \* bound on the clock
  Answers,      \* what an executor call may come back with
  NoCall, NoProposal

ASSUME GuardsAssumption ==
  MaxActions \in Int /\ Window \in Int /\ Threshold \in Int /\ MaxTime \in Nat

ASSUME CallsAssumption == NoCall \notin Calls

ASSUME NoProposalAssumption ==
  /\ NoProposal \notin Proposals
  /\ \A q \in Requests : ProposalOf(q) # NoProposal

\* The targets of a proposal are a list.
ASSUME TargetsAssumption ==
  \A p \in Proposals : p.targets \in Seq({p.targets[i] : i \in DOMAIN p.targets})

VARIABLES
  request,    \* id -> the proposal's content
  verdict,    \* id -> the ValidationOutcome code propose() returned
  pending,    \* GatedActionSurface._pending, ids in order
  trail,      \* id -> AuditLog.events_for(id)
  killFlag,   \* KillSwitch._engaged
  killFile,   \* whether the kill-switch file exists
  now,        \* the monotonic clock
  stamps,     \* RateLimiter._timestamps, each with the execution it is for
  failures,   \* CircuitBreaker._consecutive_failures
  running,    \* the call that holds the event loop
  pc,         \* call -> where it is
  batch,      \* call -> the proposals it processes, in order
  at,         \* call -> index of the current one in its batch
  target,     \* call -> index of the current target
  attempt,    \* call -> attempt number on the current target
  outcomes,   \* call -> statuses of the targets already done
  results,    \* call -> the ActionResults so far
  \* ---- observation ----
  issued,     \* executor calls made
  answered,   \* executor calls with the status they came back with
  decisions,  \* what the gate answered, per call and batch index
  started,    \* executions begun, with their time (never pruned)
  finals      \* final states of the executions, in order of completion

surfaceVars == << request, verdict, pending, trail >>
guardVars   == << killFlag, killFile, now, stamps, failures >>
callVars    == << running, pc, batch, at, target, attempt, outcomes, results >>
worldVars   == << issued, answered, decisions, started, finals >>
vars == << surfaceVars, guardVars, callVars, worldVars >>

EventTypes ==
  { "proposal_created", "validation_passed", "validation_rejected",
    "approval_granted", "approval_rejected", "approval_timeout",
    "execution_started", "target_outcome", "execution_completed",
    "dry_run_planned", "kill_switch_engaged", "action_blocked" }

\* TargetStatus, and the states of ActionState a result can carry.
Statuses     == { "success", "failure", "skipped", "planned" }
FinalStates  == { "executed", "partial", "failed" }
ActionStates ==
  FinalStates \cup { "rejected_by_human", "approval_timeout", "killed", "dry_run" }

\* An executor call either returns a status or raises.
ASSUME AnswersAssumption == Answers \subseteq Statuses \cup {"raise"}

\* An audit event: its type and the detail the properties look at (the
\* validation code, the target's status, the final state).
Event(type, detail) == [type |-> type, detail |-> detail]
Details == ValidationCodes \cup Statuses \cup FinalStates \cup {"-"}
Events  == [type : EventTypes, detail : Details]

\* ApprovalDecision.  process() looks at timed_out before approved.
Decisions == [approved : BOOLEAN, timedOut : BOOLEAN]

Waiting == { "gate", "asking", "executing", "planning" }
Done    == { "returned", "raised" }
PCs     == { "idle", "entering" } \cup Waiting \cup Done

----------------------------------------------------------------------------
(* The guards.                                                              *)

Killed == killFlag \/ killFile

\* CircuitBreaker.is_open
IsOpen == failures >= Threshold

\* Slip: the comparison of _prune swapped.
PrunedSwapped == { s \in stamps : s.time <= now - Window }

\* RateLimiter._prune: keeps what is strictly younger than the window.
Pruned == { s \in stamps : s.time > now - Window }

\* Slip: one execution too many.
AllowedAtLimit == Cardinality(Pruned) <= MaxActions

\* RateLimiter.allowed
Allowed == Cardinality(Pruned) < MaxActions

----------------------------------------------------------------------------
(* What a call works on.                                                    *)

Current(c)  == batch[c][at[c]]
Targets(id) == request[id].targets

\* Slip: every action gets its second attempt, idempotent or not.
AttemptsAlwaysTwo(id) == 2

Attempts(id) ==
  IF request[id].action \in DOMAIN Allowlist /\ Allowlist[request[id].action].idempotent
    THEN 2 ELSE 1

\* The execution of the at[c]-th proposal of call c.
Execution(c) == [call |-> c, index |-> at[c]]

ExecutorCall(c, t, a, dry) ==
  [call |-> c, index |-> at[c], target |-> t, attempt |-> a, dry |-> dry]

\* Slip: one success is enough to call the action executed.
FinalStateAnySuccess(outs) ==
  IF \E i \in DOMAIN outs : outs[i] = "failure" /\ Len(outs) = 1 THEN "failed" ELSE "executed"

\* The state _execute computes from the per-target outcomes.
FinalState(outs) ==
  LET failed    == \E i \in DOMAIN outs : outs[i] = "failure"
      succeeded == \E i \in DOMAIN outs : outs[i] = "success"
  IN  IF failed /\ succeeded THEN "partial"
      ELSE IF failed THEN "failed"
      ELSE "executed"

\* ActionResult.executed
Executed(state) == state \in {"executed", "partial"}

----------------------------------------------------------------------------
(* Building blocks.                                                         *)

Log(id, event)  == [trail EXCEPT ![id] = Append(@, event)]
Log2(id, e1, e2) == [trail EXCEPT ![id] = Append(Append(@, e1), e2)]

\* The call begins on a batch and holds the loop.
Begin(c, ids) ==
  /\ pc' = [pc EXCEPT ![c] = "entering"]
  /\ batch' = [batch EXCEPT ![c] = ids]
  /\ running' = c

\* Slip: a blocking wait where the code awaits.
AwaitBlocking(c, where) ==
  /\ pc' = [pc EXCEPT ![c] = where]
  /\ running' = c

\* The call awaits: it gives the loop up.
Await(c, where) ==
  /\ pc' = [pc EXCEPT ![c] = where]
  /\ running' = NoCall

\* process() returns a result; process_pending goes on with the next
\* proposal of the batch without giving the loop up.
Conclude(c, state, goesOn) ==
  /\ results' = [results EXCEPT ![c] = Append(@, [id |-> Current(c), state |-> state])]
  /\ at' = [at EXCEPT ![c] = @ + 1]
  /\ target' = [target EXCEPT ![c] = 1]
  /\ attempt' = [attempt EXCEPT ![c] = 1]
  /\ outcomes' = [outcomes EXCEPT ![c] = << >>]
  /\ IF goesOn
       THEN pc' = [pc EXCEPT ![c] = "entering"] /\ running' = c
       ELSE pc' = [pc EXCEPT ![c] = "returned"] /\ running' = NoCall
  /\ UNCHANGED batch

\* Slip: the batch stops at the first proposal the kill switch blocks.
FinishStopsWhenKilled(c, state) ==
  Conclude(c, state, at[c] < Len(batch[c]) /\ state # "killed")
Finish(c, state) == Conclude(c, state, at[c] < Len(batch[c]))

\* _blocked
Blocked(c) ==
  /\ trail' = Log2(Current(c), Event("kill_switch_engaged", "-"),
                               Event("action_blocked", "-"))
  /\ Finish(c, "killed")

\* The executor is asked to act on target t of the current proposal.
Issue(c, t, a, dry) == issued' = issued \cup {ExecutorCall(c, t, a, dry)}

----------------------------------------------------------------------------
(* propose() and the entry of the coroutine methods.                        *)

Verdict(p) == ValidateProposal(p, Killed, IsOpen, Allowed)

\* Only an accepted proposal joins the queue.
Queue(id, code) == IF code = "ok" THEN Append(pending, id) ELSE pending

\* propose: record, audit, validate, queue.  Nothing is executed.
Submit(id, p) ==
  LET code == Verdict(p) IN
  /\ request[id] = NoProposal
  /\ request' = [request EXCEPT ![id] = p]
  /\ verdict' = [verdict EXCEPT ![id] = code]
  /\ trail' = Log2(id, Event("proposal_created", "-"),
                       IF code = "ok" THEN Event("validation_passed", "-")
                                      ELSE Event("validation_rejected", code))
  /\ pending' = Queue(id, code)
  /\ stamps' = IF AsksRateLimiter(code) THEN Pruned ELSE stamps
  /\ UNCHANGED << killFlag, killFile, now, failures >>

Propose(id, p) ==
  /\ running = NoCall
  /\ Submit(id, p)
  /\ UNCHANGED << callVars, worldVars >>

\* process() on a proposal propose() returned.  The caller may hold one that
\* is still queued, and may pass the same one twice.
ProcessCall(c, id) ==
  /\ running = NoCall /\ pc[c] = "idle" /\ verdict[id] = "ok"
  /\ Begin(c, << id >>)
  /\ UNCHANGED << surfaceVars, guardVars, at, target, attempt, outcomes, results, worldVars >>

\* process_pending: snapshot the queue, clear it, process one by one.
ProcessPendingCall(c) ==
  /\ running = NoCall /\ pc[c] = "idle"
  /\ IF pending = << >>
       THEN pc' = [pc EXCEPT ![c] = "returned"] /\ UNCHANGED << batch, running >>
       ELSE Begin(c, pending)
  /\ pending' = << >>
  /\ UNCHANGED << request, verdict, trail, guardVars, at, target, attempt,
                  outcomes, results, worldVars >>

\* execute: propose, then process what was accepted.
ExecuteCall(c, id, q) ==
  /\ running = NoCall /\ pc[c] = "idle"
  /\ Submit(id, ProposalOf(q))
  /\ IF verdict'[id] = "ok"
       THEN Begin(c, << id >>)
       ELSE pc' = [pc EXCEPT ![c] = "returned"] /\ UNCHANGED << batch, running >>
  /\ UNCHANGED << at, target, attempt, outcomes, results, worldVars >>

\* approve: asks the gate about a fresh proposal that is neither validated
\* nor audited.
ApproveCall(c, id, q) ==
  /\ running = NoCall /\ pc[c] = "idle" /\ request[id] = NoProposal
  /\ request' = [request EXCEPT ![id] = ProposalOf(q)]
  /\ pc' = [pc EXCEPT ![c] = "asking"]
  /\ UNCHANGED << verdict, pending, trail, guardVars, running, batch, at, target,
                  attempt, outcomes, results, worldVars >>

ApproveAnswers(c) ==
  /\ running = NoCall /\ pc[c] = "asking"
  /\ pc' = [pc EXCEPT ![c] = "returned"]
  /\ UNCHANGED << surfaceVars, guardVars, running, batch, at, target, attempt,
                  outcomes, results, worldVars >>

----------------------------------------------------------------------------
(* process(): from its first line to its first await, then the gate.        *)

\* Slip: the dry-run branch is never taken.
IsPlanNever(id) == FALSE
IsPlan(id) == request[id].dryRun

Enter(c) ==
  /\ running = c /\ pc[c] = "entering"
  /\ \/ /\ Killed
        /\ Blocked(c)
        /\ UNCHANGED issued
     \/ /\ ~ Killed /\ IsPlan(Current(c))
        /\ Await(c, "planning")
        /\ Issue(c, target[c], 1, TRUE)
        /\ UNCHANGED << trail, batch, at, target, attempt, outcomes, results >>
     \/ /\ ~ Killed /\ ~ IsPlan(Current(c))
        /\ Await(c, "gate")
        /\ UNCHANGED << trail, issued, batch, at, target, attempt, outcomes, results >>
  /\ UNCHANGED << request, verdict, pending, guardVars, answered, decisions,
                  started, finals >>

Decide(c, d) ==
  /\ running = NoCall /\ pc[c] = "gate"
  /\ decisions' = decisions \cup {[exec |-> Execution(c), decision |-> d]}
  /\ UNCHANGED << request, verdict, pending, killFlag, killFile, now, failures,
                  answered, finals >>

GateTimesOut(c, d) ==
  /\ d.timedOut
  /\ Decide(c, d)
  /\ trail' = Log(Current(c), Event("approval_timeout", "-"))
  /\ Finish(c, "approval_timeout")
  /\ UNCHANGED << stamps, issued, started >>

HumanRejects(c, d) ==
  /\ ~ d.timedOut /\ ~ d.approved
  /\ Decide(c, d)
  /\ trail' = Log(Current(c), Event("approval_rejected", "-"))
  /\ Finish(c, "rejected_by_human")
  /\ UNCHANGED << stamps, issued, started >>

\* Approved, but the kill switch was engaged while the human was deciding.
ApprovedButKilled(c, d) ==
  /\ ~ d.timedOut /\ d.approved /\ Killed
  /\ Decide(c, d)
  /\ trail' = [trail EXCEPT ![Current(c)] =
                 Append(Append(Append(@, Event("approval_granted", "-")),
                               Event("kill_switch_engaged", "-")),
                        Event("action_blocked", "-"))]
  /\ Finish(c, "killed")
  /\ UNCHANGED << stamps, issued, started >>

\* The rate limiter records the execution (pruning first) and the executor
\* gets its first target.
StartExecution(c, d) ==
  /\ Decide(c, d)
  /\ trail' = Log2(Current(c), Event("approval_granted", "-"),
                               Event("execution_started", "-"))
  /\ stamps' = Pruned \cup {[exec |-> Execution(c), time |-> now]}
  /\ started' = started \cup {[exec |-> Execution(c), time |-> now]}
  /\ Await(c, "executing")
  /\ Issue(c, target[c], attempt[c], FALSE)
  /\ UNCHANGED << batch, at, target, attempt, outcomes, results >>

\* Slips: approved looked at before timed_out; no second look at the switch.
StartsOnLateApproval(c, d) == d.approved /\ ~ Killed /\ StartExecution(c, d)
StartsThoughKilled(c, d) == ~ d.timedOut /\ d.approved /\ StartExecution(c, d)

ApprovedAndStarted(c, d) ==
  /\ ~ d.timedOut /\ d.approved /\ ~ Killed
  /\ StartExecution(c, d)

GateAnswers(c) ==
  \E d \in Decisions :
    \/ GateTimesOut(c, d)
    \/ HumanRejects(c, d)
    \/ ApprovedButKilled(c, d)
    \/ ApprovedAndStarted(c, d)

----------------------------------------------------------------------------
(* _execute() and _execute_one().                                           *)

\* Slip: the except clause passes the exception on as an outcome.
StatusOfUncaught(answer) == answer

\* An exception of the executor becomes a FAILURE outcome.
StatusOf(answer) == IF answer = "raise" THEN "failure" ELSE answer

Answered(c, answer, dry) ==
  answered' = answered \cup
    {[asked |-> ExecutorCall(c, target[c], attempt[c], dry), answer |-> answer]}

\* An idempotent action has a second attempt unless the first succeeded.
Retries(c, answer) == attempt[c] < Attempts(Current(c)) /\ answer # "success"

RetryTarget(c, answer) ==
  /\ Retries(c, answer)
  /\ attempt' = [attempt EXCEPT ![c] = @ + 1]
  /\ Issue(c, target[c], attempt[c] + 1, FALSE)
  /\ UNCHANGED << trail, failures, running, pc, batch, at, target, outcomes,
                  results, finals >>

\* One audit event per target.  Slip: those before the last are forgotten.
RecordNothing(c, status) == trail
RecordTarget(c, status) == Log(Current(c), Event("target_outcome", status))

NextTarget(c, answer) ==
  /\ ~ Retries(c, answer) /\ target[c] < Len(Targets(Current(c)))
  /\ trail' = RecordTarget(c, StatusOf(answer))
  /\ outcomes' = [outcomes EXCEPT ![c] = Append(@, StatusOf(answer))]
  /\ target' = [target EXCEPT ![c] = @ + 1]
  /\ attempt' = [attempt EXCEPT ![c] = 1]
  /\ Issue(c, target[c] + 1, 1, FALSE)
  /\ UNCHANGED << failures, running, pc, batch, at, results, finals >>

\* CircuitBreaker.record_success and record_failure: only a full success
\* closes the breaker.  Slip: a success does not reset the count.
AfterExecutionWithoutReset(state) == IF state = "executed" THEN failures ELSE failures + 1
AfterExecution(state) == IF state = "executed" THEN 0 ELSE failures + 1

\* The last target: sum up, tell the breaker, audit, return.
CompleteExecution(c, answer) ==
  LET state == FinalState(Append(outcomes[c], StatusOf(answer))) IN
  /\ ~ Retries(c, answer) /\ target[c] = Len(Targets(Current(c)))
  /\ trail' = Log2(Current(c), Event("target_outcome", StatusOf(answer)),
                               Event("execution_completed", state))
  /\ failures' = AfterExecution(state)
  /\ finals' = Append(finals, state)
  /\ Finish(c, state)
  /\ UNCHANGED issued

ExecutorAnswers(c) ==
  /\ running = NoCall /\ pc[c] = "executing"
  /\ \E answer \in Answers :
       /\ Answered(c, answer, FALSE)
       /\ \/ RetryTarget(c, answer)
          \/ NextTarget(c, answer)
          \/ CompleteExecution(c, answer)
  /\ UNCHANGED << request, verdict, pending, killFlag, killFile, now, stamps,
                  decisions, started >>

----------------------------------------------------------------------------
(* _dry_run(): no approval, and no try around the executor.                 *)

PlannerAnswers(c) ==
  /\ running = NoCall /\ pc[c] = "planning"
  /\ \E answer \in Answers \ {"raise"} : Answered(c, answer, TRUE)
  /\ IF target[c] < Len(Targets(Current(c)))
       THEN /\ target' = [target EXCEPT ![c] = @ + 1]
            /\ Issue(c, target[c] + 1, 1, TRUE)
            /\ UNCHANGED << trail, running, pc, batch, at, attempt, outcomes, results >>
       ELSE /\ trail' = Log(Current(c), Event("dry_run_planned", "-"))
            /\ Finish(c, "dry_run")
            /\ UNCHANGED issued
  /\ UNCHANGED << request, verdict, pending, guardVars, decisions, started, finals >>

\* The awaited gate or planner raises, or the call is cancelled while it
\* waits (Ctrl-C, a caller's timeout): the exception leaves process(), and
\* process_pending with it, so the rest of its batch is dropped.
Abandon(c) ==
  /\ running = NoCall /\ pc[c] \in Waiting
  /\ pc' = [pc EXCEPT ![c] = "raised"]
  /\ UNCHANGED << surfaceVars, guardVars, running, batch, at, target, attempt,
                  outcomes, results, worldVars >>

----------------------------------------------------------------------------
(* The environment.                                                         *)

\* KillSwitch.engage(): called by Python code, so between two coroutine steps.
Engage ==
  /\ running = NoCall /\ ~ killFlag
  /\ killFlag' = TRUE
  /\ UNCHANGED << surfaceVars, killFile, now, stamps, failures, callVars, worldVars >>

\* An operator creates or removes the kill-switch file.
ToggleKillFile ==
  /\ killFile' = ~ killFile
  /\ UNCHANGED << surfaceVars, killFlag, now, stamps, failures, callVars, worldVars >>

Tick ==
  /\ now < MaxTime
  /\ now' = now + 1
  /\ UNCHANGED << surfaceVars, killFlag, killFile, stamps, failures, callVars, worldVars >>

----------------------------------------------------------------------------
Init ==
  /\ request = [id \in Ids |-> NoProposal]
  /\ verdict = [id \in Ids |-> "-"]
  /\ pending = << >>
  /\ trail = [id \in Ids |-> << >>]
  /\ killFlag = FALSE
  /\ killFile \in BOOLEAN
  /\ now = 0
  /\ stamps = {}
  /\ failures = 0
  /\ running = NoCall
  /\ pc = [c \in Calls |-> "idle"]
  /\ batch = [c \in Calls |-> << >>]
  /\ at = [c \in Calls |-> 1]
  /\ target = [c \in Calls |-> 1]
  /\ attempt = [c \in Calls |-> 1]
  /\ outcomes = [c \in Calls |-> << >>]
  /\ results = [c \in Calls |-> << >>]
  /\ issued = {}
  /\ answered = {}
  /\ decisions = {}
  /\ started = {}
  /\ finals = << >>

Next ==
  \/ \E id \in Ids, p \in Proposals : Propose(id, p)
  \/ \E c \in Calls, id \in Ids : ProcessCall(c, id)
  \/ \E c \in Calls : ProcessPendingCall(c)
  \/ \E c \in Calls, id \in Ids, q \in Requests : ExecuteCall(c, id, q)
  \/ \E c \in Calls, id \in Ids, q \in Requests : ApproveCall(c, id, q)
  \/ \E c \in Calls : ApproveAnswers(c)
  \/ \E c \in Calls : Enter(c)
  \/ \E c \in Calls : GateAnswers(c)
  \/ \E c \in Calls : ExecutorAnswers(c)
  \/ \E c \in Calls : PlannerAnswers(c)
  \/ \E c \in Calls : Abandon(c)
  \/ Engage
  \/ ToggleKillFile
  \/ Tick

Spec == Init /\ [][Next]_vars
----------------------------------------------------------------------------
(* Fairness: asyncio runs every ready coroutine; a gate must answer (deny   *)
(* by default on a timeout) and an executor call must come back.            *)

CallStep(c) == \/ Enter(c) \/ GateAnswers(c) \/ ApproveAnswers(c)
               \/ ExecutorAnswers(c) \/ PlannerAnswers(c)

FairSpec == Spec /\ \A c \in Calls : WF_vars(CallStep(c))

----------------------------------------------------------------------------
(* Properties.                                                              *)

Execs         == [call : Calls, index : Nat \ {0}]
Stamps        == [exec : Execs, time : Nat]
ExecutorCalls == [call : Calls, index : Nat \ {0}, target : Nat, attempt : Nat, dry : BOOLEAN]
Contents      == Proposals \cup {ProposalOf(q) : q \in Requests}

SurfaceTypeOK ==
  /\ request \in [Ids -> Contents \cup {NoProposal}]
  /\ verdict \in [Ids -> ValidationCodes \cup {"-"}]
  /\ pending \in Seq(Ids)
  /\ trail \in [Ids -> Seq(Events)]

GuardTypeOK ==
  /\ killFlag \in BOOLEAN /\ killFile \in BOOLEAN
  /\ now \in Nat
  /\ stamps \subseteq Stamps
  /\ failures \in Nat

CallTypeOK ==
  /\ running \in Calls \cup {NoCall}
  /\ pc \in [Calls -> PCs]
  /\ batch \in [Calls -> Seq(Ids)]
  /\ at \in [Calls -> Nat \ {0}]
  /\ target \in [Calls -> Nat \ {0}]
  /\ attempt \in [Calls -> 1 .. 2]
  /\ outcomes \in [Calls -> Seq(Statuses)]
  /\ results \in [Calls -> Seq([id : Ids, state : ActionStates])]

WorldTypeOK ==
  /\ issued \subseteq ExecutorCalls
  /\ answered \subseteq [asked : ExecutorCalls, answer : Answers]
  /\ decisions \subseteq [exec : Execs, decision : Decisions]
  /\ started \subseteq Stamps
  /\ finals \in Seq(FinalStates)

\* Every variable has its type; the trail holds only lifecycle events and the
\* results only states of ActionState.
TypeOK == SurfaceTypeOK /\ GuardTypeOK /\ CallTypeOK /\ WorldTypeOK

\* The proposal an execution is about.
Subject(exec) == batch[exec.call][exec.index]
ExecOf(x) == [call |-> x.call, index |-> x.index]
Mutations == {x \in issued : ~ x.dry}
Granted(exec) ==
  \E d \in decisions : d.exec = exec /\ d.decision.approved /\ ~ d.decision.timedOut

\* "Rejection or timeout means no execution": every mutating executor call
\* belongs to a validated proposal whose gate, consulted for this very
\* execution, granted it, whatever other calls did meanwhile and however
\* often the same proposal is processed.
ApprovedBeforeMutation ==
  \A x \in Mutations : Granted(ExecOf(x)) /\ verdict[Subject(ExecOf(x))] = "ok"

\* "A dry-run produces a plan, mutates nothing, and needs no approval": no
\* path through process(), in a batch or alone, gives a dry-run proposal to
\* the gate, to the rate limiter or to a mutating executor call.
DryRunsAreInert ==
  /\ \A x \in Mutations : ~ request[Subject(ExecOf(x))].dryRun
  /\ \A d \in decisions : ~ request[Subject(d.exec)].dryRun
  /\ \A s \in started : ~ request[Subject(s.exec)].dryRun

\* "No silent retries on non-idempotent operations": a target is asked a
\* second time only if the action is declared idempotent and the first
\* attempt came back with something else than success; never a third time.
RetryPolicy ==
  \A x \in issued : x.attempt > 1 =>
    /\ x.attempt = 2 /\ ~ x.dry
    /\ Allowlist[request[Subject(ExecOf(x))].action].idempotent
    /\ \E y \in answered : y.asked = [x EXCEPT !.attempt = 1] /\ y.answer # "success"

\* The strengthening of the two above that is inductive: where a call is says
\* what has happened to the proposal it is at.
Busy == { "entering", "gate", "executing", "planning" }

Located == \A c \in Calls : pc[c] \in Busy => at[c] <= Len(batch[c])

Recorded(exec) == exec.call \in Calls /\ exec.index \in DOMAIN batch[exec.call]

\* A call that has not begun has left no trace, so fixing its batch is safe.
Fresh ==
  \A c \in Calls : pc[c] = "idle" =>
    /\ at[c] = 1 /\ batch[c] = << >>

\* What is queued or taken passed validation, and stays so: an id in use is
\* never given a second content.
OnlyAccepted ==
  /\ \A id \in Ids : request[id] = NoProposal => verdict[id] # "ok"
  /\ \A i \in DOMAIN pending : verdict[pending[i]] = "ok"
  /\ \A c \in Calls : \A k \in DOMAIN batch[c] : verdict[batch[c][k]] = "ok"

\* A call past the gate holds the gate's grant for the proposal it is at.
Stage ==
  \A c \in Calls :
    /\ pc[c] \in {"gate", "executing"} => ~ request[Current(c)].dryRun
    /\ pc[c] = "executing" => Granted(Execution(c))

\* What was done, was done to a proposal of the call's batch.
Traces ==
  /\ \A x \in issued : Recorded(ExecOf(x))
  /\ \A d \in decisions : Recorded(d.exec)
  /\ \A s \in started : Recorded(s.exec)

PipelineInv ==
  /\ Located /\ Fresh /\ OnlyAccepted /\ Stage /\ Traces
  /\ ApprovedBeforeMutation /\ DryRunsAreInert

\* The last answer for a target of an execution, as a status.
LastStatus(exec, t) ==
  LET of == {y \in answered : ExecOf(y.asked) = exec /\ y.asked.target = t /\ ~ y.asked.dry}
      last == CHOOSE y \in of : \A z \in of : z.asked.attempt <= y.asked.attempt
  IN  StatusOf(last.answer)

\* A call that returned normally has one result for each proposal it took
\* off the queue, in the queue's order; one that is still running has results
\* for exactly those before the current one.
BatchIsAccountedFor ==
  \A c \in Calls :
    /\ \A k \in DOMAIN results[c] : results[c][k].id = batch[c][k]
    /\ Len(results[c]) = at[c] - 1
    /\ pc[c] = "returned" => Len(results[c]) = Len(batch[c])

\* The results a caller gets tell what the executor did, one for each proposal
\* of the batch: an executed, partial or failed result agrees with the last
\* answer of every target, all of them asked; any other result stands for an
\* execution that asked nothing live.
ResultsTellWhatHappened ==
  /\ BatchIsAccountedFor
  /\ \A c \in Calls : \A k \in DOMAIN results[c] :
      LET exec  == [call |-> c, index |-> k]
          state == results[c][k].state
          all   == 1 .. Len(Targets(Subject(exec)))
          some(status) == \E t \in all : LastStatus(exec, t) = status
      IN  IF state \in FinalStates
            THEN /\ {x.target : x \in {y \in Mutations : ExecOf(y) = exec}} = all
                 /\ state = "executed" <=> ~ some("failure")
                 /\ state = "partial" <=> some("failure") /\ some("success")
            ELSE ~ \E x \in Mutations : ExecOf(x) = exec

\* What the world saw of a proposal: executions begun, approvals, final
\* results, executor calls that succeeded.
Starts(id)    == {s \in started : Subject(s.exec) = id}
Approvals(id) ==
  {d \in decisions : d.decision.approved /\ ~ d.decision.timedOut /\ Subject(d.exec) = id}
Completions(id) ==
  {e \in UNION {{[call |-> c, index |-> k] : k \in DOMAIN results[c]} : c \in Calls} :
     LET result == results[e.call][e.index] IN result.id = id /\ result.state \in FinalStates}
Successes(id) ==
  {y \in answered : ~ y.asked.dry /\ y.answer = "success" /\ Subject(ExecOf(y.asked)) = id}

Count(id, type) == Cardinality({i \in DOMAIN trail[id] : trail[id][i].type = type})

\* "What was attempted versus what actually completed": for each proposal the
\* audit trail has one start per execution begun, one grant per approval of
\* the gate, one completion per final result, and one success outcome per
\* executor call that succeeded, also when two calls process it at once.
AuditMatchesWorld ==
  \A id \in Ids :
    /\ Count(id, "execution_started") = Cardinality(Starts(id))
    /\ Count(id, "approval_granted") = Cardinality(Approvals(id))
    /\ Count(id, "execution_completed") = Cardinality(Completions(id))
    /\ Cardinality({i \in DOMAIN trail[id] : trail[id][i] = Event("target_outcome", "success")})
         = Cardinality(Successes(id))

\* The breaker counts the failed executions since the last full success, in
\* the order they completed.
BreakerCountsFailures ==
  LET n == Len(finals) IN
  /\ failures <= n
  /\ \A i \in (n - failures + 1) .. n : finals[i] # "executed"
  /\ failures < n => finals[n - failures] = "executed"

InWindow == {s \in started : s.time > now - Window}

\* Pruning only ever drops what has left the window.
StampsCoverWindow == stamps \subseteq started /\ InWindow \subseteq stamps

LastExecutionsFailed ==
  Threshold <= Len(finals)
    /\ \A i \in (Len(finals) - Threshold + 1) .. Len(finals) : finals[i] # "executed"

\* A proposal is queued for approval only while the kill switch is off, fewer
\* than max_actions executions began within the window, and the last
\* failure_threshold executions did not all fail: the guards' own bookkeeping
\* (pruned stamps, a counter) never loses an execution that matters.
Admits == \E id \in Ids : verdict[id] # "ok" /\ verdict'[id] = "ok"
AdmissionPolicy ==
  [][Admits => /\ ~ Killed
               /\ Cardinality(InWindow) < MaxActions
               /\ ~ LastExecutionsFailed]_vars

\* No execution begins and no human is asked while the kill switch is
\* engaged, also when it was engaged during the approval.
KilledStartsNothing ==
  [][Killed => /\ started' = started
               /\ \A c \in Calls : pc'[c] = "gate" => pc[c] = "gate"]_vars

\* Every call returns or raises, provided gates and executors answer.
CallsReturn == \A c \in Calls : pc[c] \notin {"idle"} \cup Done ~> pc[c] \in Done

\* A queued proposal taken by process_pending is settled (its trail ends in a
\* terminal event) or the call that took it has raised.
Taken(c, id)  == \E k \in DOMAIN batch[c] : batch[c][k] = id
Settled(c, id) == \E k \in DOMAIN results[c] : results[c][k].id = id
TakenIsSettled ==
  \A c \in Calls, id \in Ids : Taken(c, id) ~> Settled(c, id) \/ pc[c] = "raised"

----------------------------------------------------------------------------
(* What the source says and the code does not do: violated by a run.        *)

\* guards.py: "A sliding-window cap on executed actions."
RateCap == Cardinality(InWindow) <= MaxActions

=============================================================================
