# A verification project for tendwell

Tendwell watches a system against its SLOs, lets a language model explain what
it sees, and, when actions are enabled, lets the model *propose* actions that a
human approves and an executor carries out. This directory holds TLA+ modules of
that program, TLC configurations that check them on small instances, and TLAPS
proofs of the properties that matter most for every instance. Source paths below
are relative to `src/`.

## 1. Inventory

| Component | State | Operations | Makes it correct | Module |
|---|---|---|---|---|
| action pipeline, `tendwell/actions/pipeline.py` | queue of pending proposals | `propose`, `process`, `process_pending`, `approve`, `execute` | nothing is mutated without a validated proposal and its own grant; dry runs are inert; results and audit agree with what was done | `ActionPipeline` |
| guards, `actions/guards.py` | kill flag and file, stamps, failure counter | `engaged`, `allowed`, `record`, `is_open`, `record_success`, `record_failure` | admission follows the history of executions; the switch starts nothing | `ActionPipeline` |
| validation and allowlist, `actions/validation.py`, `actions/allowlist.py` | none | `validate_proposal`, `validate_arguments` | only declared, in-scope, typed proposals pass; the first failing check names the code | `ActionValidation` |
| approval gates, `actions/approval.py` | proposals waiting for a human | `decide`, `approve`, `reject` | deny by default, one decision per proposal, no answer lost | `ApprovalQueue`, `GateContract` |
| audit log, `actions/audit.py` | events, file | `append`, `verify`, `events_for` | append-only, chained, memory and file agree | `AuditLog` |
| executors, `actions/executor.py` | external | `execute_target` | environment | in `ActionPipeline` |
| reasoning drivers, `core/reasoning.py` | message list, step, retries | `run` (native, ReAct) | bounded, one observation per call, truncation reported | `Reasoning`, `ReasoningContract` |
| tool executor, `core/tools.py` | snapshot | `execute`, `tool_specs` | every failure is an observation | `Reasoning` |
| ReAct parser, `llm/react.py` | none | `parse_react` | one kind of step per reply, and a cut reply is safe | `ReactParser` |
| LLM backends, `llm/openai_backend.py` | none | `complete` | a call the model made reaches the driver once | in `Reasoning` |
| health analyzer, `core/agent.py`, `core/types.py` | none across calls | `analyze` | one status per SLO, source failure is never health | `HealthAnalysis` |
| data sources, `sources/*` | HTTP client | `query` | a value is the first of the newest readable samples, or the number at a path, or an error | `DataSources` |
| knowledge, `context/*` | entries by id | `load`, `upsert`, `retrieve` | chunks cover the text, re-indexing replaces, retrieval returns at most k, the best | `KnowledgeStore` |
| embeddings, `context/embeddings.py` | HTTP client | `embed` | environment | in `KnowledgeStore` |
| wiring and daemon, `app.py`, `__main__.py` | stop event, the clients of an analysis | `run_analysis`, `run_on_demand`, the three commands | what stays open is known, daemon stops, no execution in monitoring, exit codes | `Application` |
| configuration, `config/*` | none | `load_config`, validators, `egress_targets` | actions are opted into, egress is announced | in `Application` |
| output, `output/*` | none | `report_to_findings`, `emit` | every breach is in the report, with its figures | in `HealthAnalysis`, `Application` |
| demo data, `demo/synthetic.py` | none | `query` | always answers | in `DataSources` |

How they interact: the daemon and the one-shot command build the sources, the
store and the analyzer (`app.py`) and call `analyze`. The analyzer evaluates the
SLOs, retrieves context, and runs a reasoning driver, whose tool calls go to the
tool executor. Its `propose_action` tool calls `propose` on the action surface,
which validates and queues. Only the on-demand command goes on to
`process_pending`, which asks the approval gate and then the executor. Every
step of a proposal's life is appended to the audit log. Everything runs on one
asyncio event loop: two coroutines interleave at `await` and nowhere else. What
is outside the loop is the clock, the kill-switch file, the executor's effects
and the human.

Hard behaviours: what a coroutine read before an `await` and relies on after it
(the guards are read at `propose` and the execution happens a human decision
later); the kill switch moving at any point; a batch one of whose members
raises; the same proposal processed twice; a sliding window pruned from two
call sites; the decision racing its timer; a write that fails after the event is
in memory; restarts over an existing audit file. `PROJECT.json` lists each at
its line.

## 2. How the modules fit together

```
Application ........ the process: commands, wiring, daemon loop, exit
  |  one step "Analyze" of it is
  +- KnowledgeStore ... index_context and retrieval (the "index" stage before it)
  +- HealthAnalysis ... analyze(): snapshot, retrieval, report
  |    +- DataSources ...... what a source makes of a reply   (operators)
  |    |  one step "Reason" of it is
  |    +- Reasoning ........ a driver's run, refines ReasoningContract
  |         +- ReactParser .. parse_react                     (operators)
  |  one step "Act" of it is
  +- ActionPipeline ... process_pending() of what was proposed
       +- ActionValidation .. validate_proposal               (operators)
       |  one gate of it is
       +- ApprovalQueue ..... refines GateContract
       +- AuditLog .......... the log it appends to
```

`Selections` is the loop that appends what it wants, which several of them run.
`XProofs` holds the theorems about the module `X` and those it uses.

An outer module takes one step where the inner one takes many, and lets that
step end in every way the inner one can: return, or raise. Each was modelled in
the order of what it may do to the outside: pipeline, gate, audit, then
reasoning, wiring, health, knowledge.

Left to do: a refinement between the levels (an analysis with the driver's run
inside; an execution whose audit writes fail), an abstract `GatedAction` that
the pipeline implements, and the validator against a declarative reference.

## 3. The action pipeline

`ActionValidation` holds pure operators: `ValidateProposal` is
`validate_proposal` with its order of checks, and what it calls in
`allowlist.py`. Names and targets are members of small sets, an argument's value
is the tag of its Python type.

`ActionPipeline` is `GatedActionSurface` and its guards. A member of `Calls` is
one call of a coroutine method. `running` names the call that holds the event
loop; a call that awaits its gate (`pc = "gate"`, or `"asking"` for `approve`)
or its executor (`"executing"`, `"planning"`) has released it. One action is one
uninterrupted stretch of a coroutine:

| Action | Code |
|---|---|
| `Propose` | `propose`: record, audit, validate, queue |
| `ProcessCall`, `ProcessPendingCall`, `ExecuteCall`, `ApproveCall` | a method is called, up to where `process` begins or to its first `await` |
| `Enter` | `process` from its first line to its `await`: blocked by the kill switch, dry run, or gate |
| `GateAnswers` | from the gate's answer on: timed out, rejected, approved but killed, or `_execute` to its first executor call |
| `ExecutorAnswers` | from an executor's answer on: second attempt, next target, or completion with breaker and audit |
| `PlannerAnswers` | the same for a dry run, which has no `try` and no audit of its targets |
| `ApproveAnswers` | `approve` returns |
| `Abandon` | the awaited gate or planner raises, or the call is cancelled; the rest of the batch goes with it |
| `Engage`, `ToggleKillFile`, `Tick` | the operator and the clock |

`ApproveAnswers` forgets the decision it returns: nothing else is touched by it.

The record variables (`issued`, `answered`, `decisions`, `started`, `finals`)
are observations: no guard reads them. `stamps` is the limiter's list, each
stamp with the execution it is for, so that equal clock readings stay distinct
as they are in the code's list. Within one stretch of a coroutine the kill-switch
file and the clock are read at one instant. An exception of `audit.append` (a
failing file write) is not part of this module.

### Runs

All runs use `MCActionPipeline`: two actions over the targets `api` and
`worker`, the second action idempotent.

| Run | Instance | Shows |
|---|---|---|
| `pipeline_core` | 2 calls, 2 ids; a two-target action, an idempotent one, a dry run, an undeclared action; answers success, skip, exception (a failure to the pipeline) | types; approval before mutation; inert dry runs; the audit trail and the results match the executor's last answers; who is asked twice; nothing starts while killed |
| `pipeline_guards` | 2 calls, 3 ids, success, failure, skip, clock 0..1, window 1, 2 actions per window, threshold 2 | the breaker counter and the pruned stamps never lose an execution that matters; admission follows the true history |
| `pipeline_live` | 2 calls, 2 ids, fairness | calls return; taken proposals are settled |
| `violates_rate_cap` | two calls, two ids | divergence 1 of section 11 |

Why the bounds are enough. Two calls are what an interleaving needs, and with
two ids a batch has a first and a last member and one proposal can be in two
calls. The window and threshold are crossed: three proposals against two slots
and a threshold of two reach the limited and the open state and leave both. Two
targets give full, partial and failed executions, with a skipped target in each
place; two attempts are the code's own maximum, and a batch has an execution
that is retried next to one that is not. Retries inside an execution of several
targets are covered by the theorems only (`RetriesAreDeclared`,
`ResultsAreTrue`). The clock runs to one because the window is one tick, so a
stamp can be inside, at the boundary, and out.  `Calls` and `Ids` are symmetric
(no operator orders them); the run with liveness does not use symmetry.

Deadlock is checked in every run: the kill-switch file can always be toggled, so
a stuck call is caught by `CallsReturn` rather than by deadlock.

### Fairness

`FairSpec` asks weak fairness of each call's own step. asyncio runs every ready
coroutine, and a gate or an executor that never answers is outside the code: the
gate's contract is to deny by default on a timeout (`approval.py`), the
executor's to return a per-target outcome. Nothing is assumed of `Abandon`, the
operator, the clock, or of new calls being made. `TakenIsSettled` excepts a call
that raised: there the code does drop the rest of its batch.

## 4. The approval queue

`GateContract` is what the pipeline needs of any gate (`ApprovalGate` in
`approval.py`): a call of `decide()` is answered at most once, and granted only
if a human said yes to that call while it was waiting. Every other answer is
allowed, which is "default to deny".

`ApprovalQueue` is `PendingApprovalQueue`. A member of `Calls` is one call of
`decide()`; `listed` is the dictionary `_pending`, `decision` the field of a
call's record, `expired` whether its timer has fired.

| Action | Code |
|---|---|
| `Decide` | `decide` up to `wait_for`: register the id, replacing what was there |
| `Resolve` | `approve`, `reject`, with `_resolve`'s early return as the guard `Answerable` |
| `TimerFires` | the timer of `wait_for` |
| `Resume` | the coroutine goes on: return a decision or the timeout, and the `finally` clause |
| `Cancel` | the waiting task is cancelled: the `finally` clause |

The answer and the timer may both come before the coroutine is resumed. The
project runs on Python 3.11 and later, whose versions of `wait_for` settle that
race differently, so `Resume` may return either; a grant still needs a yes.

`KeepsContract` is the refinement: `ApprovalQueue` implements `GateContract`
with `consent` read off the record's decision.

| Run | Instance | Shows |
|---|---|---|
| `approval_queue` | 3 calls, 2 ids, fairness | no record outlives its wait; a call that cannot be answered shares its id with another; the first answer stands; the contract is kept; every `decide()` comes back |

A second `decide()` about a pending id overwrites the first one's record, which
no human can then reach: that call can only time out. `UnanswerableIsOvertaken`
says that this is the one way to become unanswerable.

Three calls over two ids give two calls about one id next to one that is alone,
and three about one id. No action bounds anything else, so the state space is
complete for that many calls. A behaviour ends when every call has come back and
no call is left to make, so deadlock is not checked. `FairSpec` assumes weak
fairness of `TimerFires` and `Resume` for each call: the event loop fires its
timers and resumes what is ready. It assumes nothing of humans.

## 5. The audit log

`AuditLog` is the class and `verify_chain`. A member of `Runs` is one object,
that is one run of the program; runs share the file, as `build_action_surface`
gives each the same default path, and follow each other or overlap. The hash of
an event commits to its content and to the previous hash; it is modelled as the
whole history it commits to, which is what makes different histories have
different hashes. `AppendEvent` is `append`: the event goes into memory, and then
its line is written, or the write fails with nothing on file, or with the
beginning of a line (`Fragment`) to which the next line will be glued.

| Run | Instance | Shows |
|---|---|---|
| `audit_log` | 2 runs, 2 contents, 3 events a run | each log verifies; the file keeps each run's events in order; what a run has on file verifies exactly when no event is missing in between; a changed, removed or exchanged entry is found; nothing is ever rewritten |

Three events are a first, a middle and a last one, so a write can be lost before,
between and after others; two runs interleave or follow each other. There is no
liveness: nothing has to be logged. A behaviour ends at `MaxEvents`, so deadlock
is not checked.

Removing the *last* entries of a chain is not found by `verify_chain`, and
`AlterationShows` does not claim it: the document it is about speaks of the chain
"from that point forward".

## 6. Reasoning

`Reasoning` is one run of `NativeToolDriver` or `ReActDriver` (`cfg.native`
tells which), with the `ToolExecutor` they call. `ReactParser` is `parse_react`.

A reply without tool calling is a sequence of *lines*, each of which is what the
parser's regular expressions see of it (fence, thought, action, input, final,
other, with the argument after the colon). The arguments of a call are one of
the JSON kinds the code tells apart: an object that fits the tool's schema, one
that does not, an empty one, a list that `dict()` turns into `{}`, a value it
refuses, no JSON at all, and a text with an integer longer than Python converts.

| Action | Code |
|---|---|
| `NativeAnswer` | `complete` returns; calls are decoded (`openai_backend.py`) and the assistant message is appended, or the answer is returned |
| `ReactReply`, `TakeReply` | the same without tool calling: the lines, then what the driver makes of them, correction and retry included |
| `ExecuteCall` | one `execute` and the observation appended; after the last of a reply the next step begins |
| `Exhausted` | the loop ends: truncated |
| `CompletionFails` | `complete` raises |

`proposals` counts what `propose_action` put on the surface; no property is about
it, since one call updates it and tells the model. `reply` is history
for `CutRepliesAreSafe`: whatever is cut off the end of a reply (a token limit),
what remains calls no tool that the whole reply would not have called, when the
whole reply parses.

`KeepsContract`: both drivers implement `ReasoningContract`. It is what
`HealthAnalyzer` relies on: at most `limit` turns, each with all its calls
observed, then one outcome; after the last turn only "truncated".

| Run | Instance | Shows |
|---|---|---|
| `reasoning` | step bounds 0..2, retry budgets 0..1, 2 calls or 3 lines a reply, six calls and thirteen lines | every call is observed under its id, in order, before the model is asked again; replies stay within the two bounds; cut replies are safe; the contract; the run ends |
| `violates_format` | the same | divergence 2 of section 11 |

Three lines hold a thought, an action and its input, an action next to a final
answer, two lines of one form, or a fence around either: every case of the
parser. Step bound two has a
first and a last step, a budget of one has a retry and none; zero is allowed by
the configuration and included. `FairSpec`: every await comes back, because the
HTTP clients have timeouts. What it comes back with is not constrained.

## 7. Data sources and the health analysis

`DataSources` holds `query` of the four sources, from a reply to samples or an
exception, and `latest_value`. Kinds of reply other than `"data"` stand for the
failures each adapter tells apart and raises for. A Prometheus reply is the list
of points of all its series; http_json walks a tree by `value_path`.

`HealthAnalysis` is `analyze`: one action per SLO (`EvaluateUnowned`,
`EvaluateOwned`), `Retrieve`, `Reason` (the driver's run, section 6, as one
step), `Serve` (`report_to_findings`). A status carries its SLO, its state, the
observed value and the kind of its detail; a finding about a breach its severity
and the figures of the status.

The properties recompute from `asked` (history: the reply each status was made
from) what was measured for an SLO, `Measured`: for a series the value of the
first of the newest usable points, if all of them can be dated; for http_json the
number at the configured path; for logs, failures and anything else nothing. This
is stated without the adapters' operators, except that the walk along an
http_json path is the code's own (`ExtractValue`). Queries are indexed by the
*name* of the source that lists them, and names need not be distinct, so the
source asked may be another one than the one configured with the query; `Owners`
says who can be asked, again without the two indices of the code.

| Run | Instance | Shows |
|---|---|---|
| `health_analysis` | 6 lists of sources with shared names and queries, 4 lists of SLOs, every kind of reply of every type of source | an SLO shows the measured value and is judged by its bound, NaN included, and is unknown exactly when nothing was measured (an empty or unusable series too); under a green report everything was measured on the healthy side; every breach is served once, in order, as critical, with value and bound |

Values 0, 1, 2 lie below, at and above the threshold. Series are empty or have
two points with equal, ascending and descending times, unreadable values and
unreadable times. An analysis has no loop that could stall, so there is no
liveness.

## 8. The knowledge context

`KnowledgeStore` is the indexing pass that begins every analysis and the
retrievals after it. A text is a sequence of characters, `Space` standing for
all white space.

| Action | Code |
|---|---|
| `Begin`, `Finish` | an analysis builds its store, or opens Chroma's (`chroma`, `persistent`), and ends |
| `ListFiles`, `ReadFile` | `load`: the listing, then each file in order |
| `CutWindow`, `FileDone` | `_chunk_file`, one round of its loop at a time |
| `Upsert` | `upsert` of a loader's documents: embed, then store by id |
| `Retrieve` | `retrieve`, with any `k` the model may send |
| `Edit` | somebody writes, shortens or removes a file, at any moment |
| `Fail` (in the actions) | a directory or file is gone, a file cannot be read or decoded, or the embeddings endpoint raises: the pass is over |

The order of the files is their order in `FilesOf`. Similarity counts common
characters, which orders the entries as the embedder of the demo does. `Rank` is
the stable descending sort of the memory store, told by how many entries sort
before one; a query with a zero vector finds nothing there. Chroma's search is
external and approximate: `Searched` lets it come back with any distinct entries,
at most `k`, and raise for a `k` below one, which Chroma refuses.

| Run | Instance | Shows |
|---|---|---|
| `knowledge_store` | 2 loaders that share a relative path, texts of up to 5 characters in windows of 3, overlap 1 and -1, 2 edits | no character inside a window is lost; what was read is stored under its id, and what else is stored is a leftover tail; the memory store returns the k best entries, Chroma at most k distinct ones; every pass ends |
| `violates_up_to_k` | the same | divergence 3 of section 11 |

The loader's constructor refuses an overlap of a chunk or more and nothing else,
so chunk sizes below one are accepted when the overlap lies further below; such a
loader keeps little or nothing of a text (its windows end before they begin, or at
a negative bound that counts from the end). The run has chunk size three; the
proofs cover every accepted one.

The texts end inside, at and one past a window, begin with white space, and one
has blank windows first. Two edits shorten a file and remove it, or change it
between listing and reading. `FairSpec`: the coroutine is scheduled; files are
edited or not.

`LeftoversAreTails` names the three ways an entry can outlive its text: a file
that became shorter in a store that outlives the analysis, a file that is gone
from such a store, and two loaders under which one relative path exists, since
ids hold the relative path only.

## 9. The application

`Application` is the process: `validate`, `run`, `daemon` and `daemon --once`,
and the two things argparse answers by itself, help (or the version) and a usage
error.
A configuration file is a record of what the code looks at: whether it exists
and parses, its permissions, the type, name, endpoint and schema of each source,
provider and endpoint of the model and of the embeddings, store and loaders. An
endpoint is `"local"`, `"remote"`, absent, or `"opaque"` (no host can be read
from it).

| Action | Code |
|---|---|
| `LoadFails`, `Load` | `_load`, its errors and its egress warnings; `_cmd_validate` |
| `Parse` | `parse_args`, which exits by itself with 0 for help and 2 for a usage error |
| `BuildSurface` | `run_on_demand` and `build_action_surface`, whose audit log may fail to make its directory |
| `BuildSources`, `BuildStore`, `Index`, `BuildAnalyzer` | `build_sources`, `build_embeddings` and `build_context_store`, `index_context`, `build_llm` |
| `Analyze` | `analyzer.analyze`, returning or raising |
| `CloseSource`, `CloseStore` | the `finally` of `run_analysis`; `store.close()` is the interface's no-op in both stores and releases nothing |
| `Act` | `process_pending` in `run_on_demand` |
| `Emit`, `PrintResults` | the console sink; then `run` prints the results of its actions, and the stream may go at any of them |
| `Check`, `Wake`, `Woken`, `Signal` | the daemon's loop, its timer and its stop event |

`rounds`, `unclosed`, `contacted`, `executed`, `served`, `told` are observations.
`unclosed` holds every client an analysis constructed: the HTTP client of each
source that has one, the model's, the embeddings', and Chroma's. Only the sources
in the dictionary of `run_analysis` are ever closed. `LeakIsKnown` counts what
stays open per analysis for as long as the process lives; its death releases the
rest. Exit code 1 also stands for the interpreter's own code when the last flush
of a stream fails.

| Run | Instance | Shows |
|---|---|---|
| `application` | 51 files, 6 kinds of command line, 2 analyses | nothing off-host is contacted unannounced; an analysis that comes back leaves open exactly its model, embeddings and Chroma clients and the sources whose name was taken, and whatever leaves more ends the process; executions need every opt-in; the exit code tells; a stop is heard before another analysis and ends the process |

The files vary one sound file in each thing the code branches on. Two analyses
of the daemon are what it takes for one to leave something behind for the next.
`MaxRounds` bounds them: the daemon then waits for its signal, which is why
`Ended` includes that state. `FairSpec` assumes that the process runs and its
awaits return; nobody owes it a signal.

## 10. What is proved

Every safety invariant and every safety action property of the passing runs is a
theorem; liveness and the three disagreements of section 11 are not.

`ActionPipelineProofs`, for every set of calls, ids, proposals and requests,
every allowlist that satisfies `AllowlistAssumption` (names not reserved,
declared types among the four literals), and integer guard parameters:

- `TypeCorrectness`, `ApprovalIsNeeded`, `DryRunsStayInert`, all from
  `PipelineInvariant`. `ApprovedBeforeMutation` is not inductive: nothing in it
  says that a call about to issue its next executor call holds a grant. The
  strengthening `PipelineInv` adds where each call is (`Located`, `Stage`: a call
  that is `"executing"` holds the grant of the proposal it is at), that what is
  queued or taken was accepted and keeps its verdict (`OnlyAccepted`), that a
  call that has not begun has left no trace, so fixing its batch cannot
  reinterpret a recorded execution (`Fresh`), and that every recorded fact is
  about a member of its call's batch (`Traces`). One step per action shows it is
  preserved.
- `BreakerCounts` and `PruningIsSafe`: the counter is the failing tail of the
  history, and the stamps cover the window. With these,
  `AdmissionFollowsHistory`: whenever a proposal is accepted, the *true* history
  (not the pruned list) has fewer than `MaxActions` executions in the window and
  no failing tail of `Threshold`, and the switch is off.
- `KillSwitchHolds`: no step begins an execution or consults the gate while the
  switch is engaged.
- `RetriesAreDeclared` and `ResultsAreTrue`, from `ExecutionInvariant`. Neither
  property says what is still outstanding, so neither survives the next answer.
  `ExecutionInv` says it of every call: one result for each proposal behind it
  (`Placed`, `Accounted`); nothing done to a proposal before its turn (`InTurn`);
  the counters at their start before the executor is asked (`Ready`); the
  executor call it waits for is the latest of its execution and unanswered
  (`Outstanding`); the outcomes collected are the last answers of the targets
  behind, and those and the present one were asked live (`Underway`); and every
  result given is the final state of the last answers of all targets, or nothing
  was asked live for it (`Told`). A step of one call leaves the others' parts
  alone because a call only adds facts about its own executions.
- `AuditIsTrue`, for any number of calls that process one proposal at once. The
  trail is a list and the world a collection of sets, so `AuditInv` keeps, for
  each kind of event, the number of its places in the trail equal to the number of
  its executions (`Tallied`, which carries their finiteness); each action appends
  one event and adds one new fact, or appends what counts for nothing.
- `ExecuteNeverAccepted`: no `ActionRequest` is ever accepted by `execute()`.
  The list of targets is itself an argument, and no declared type admits a list.

`ApprovalQueueProofs`, for any calls and ids, all from the inductive `QueueInv`,
which adds to the types and the two state properties that a call which has not
asked has no decision and that a grant has a yes behind it:

- `ListedBelongs`, `DistinctIdsAnswerable`: the dictionary against the calls.
- `FirstAnswer`: no step replaces or reverses an answer.
- `QueueKeepsContract`: the initial state is one of the contract, and every step
  is a step of the contract or a stutter (registration is `Ask`, a yes is
  `Consent`, a return is `Answer`; a no and a timer are stutters).

`AuditLogProofs`, for any runs, contents and number of events:

- `LogTypeCorrectness`, `LogVerifies`, `LogIsAppendOnly`. The first two are
  inductive together; the lemma `NextEntryExtends` says that `append`'s entry
  carries on any chain that verifies.
- `AlterationsShow`: `verify_chain` fails on a log with a changed content, a
  removed entry that others follow, or two neighbours exchanged.
- `FileKeepsOrder`, `GapsShow`, however many writes fail or are cut and however
  the runs interleave in one file. `FileInv` says of each run that its lines are
  events of its log (`Kept`), in its order (`InOrder`), and that counting the
  lines before a line numbers them without a hole (`Ranked`). Without `Ranked`
  nothing relates a place in the run's own file to a number in its log, which is
  what a gap is.

`ReasoningProofs`, for every set of settings (any integers), lines and calls:

- `RunTypeCorrectness`: every state is well typed, whatever is decoded.
- `RunKeepsContract`: each step is a turn, a return or a stutter of the
  contract. The invariant `Bounded` says that a turn is under way only within
  the step bound. The lemma `ParseKinds` covers every reply.
- `AsksAreBudgeted`: the number of replies is at most `maxSteps * (maxRetries
  + 1)`, or `maxSteps` with native calls. Not inductive by itself: `BudgetInv`
  ties the replies so far to the step and the retries spent in it.
- `ConversationsAreAnswered`. At a request to the model the conversation may hold
  any number of turns, so `ChatInv` says of each reply that it is settled (all its
  observations follow, then the next reply) or is the latest; while calls are
  executed the latest one has its first `d` observations, and `todo` is the rest
  of its calls, in order.
- `CutRepliesStaySafe`, for replies of any length. A fact about the parser and not
  about steps: dropping the fence lines of the first `n` lines gives a prefix of
  what dropping them from all gives, and the first line of a kind, if a prefix has
  one, is the first of the whole.

`ApplicationProofs`, for any configuration files: `EgressAnnounced`,
`OptInNeeded`, `ExitCodeTruthful`, `StopIsHeard` and `LeakIsAccounted`. The
inductive `AppInv` adds to them what was loaded before anything was built, whom
the process can send anything (`Sendable`, a subset of what is warned about when
off-host), how many analyses were begun and served at each stage (`Counted`), and
that what was executed and not reported is still to be printed (`Reported`).
`LeakInv` says at every stage of an analysis which of its clients are open
(`Opened`): the sources still to be closed or shadowed, and the clients built so
far; of every earlier analysis, what it leaves open.

`HealthProofs`, for any configurations, replies and SLOs: `StatusesAreMeasured`,
`GreenIsMeasured` and `BreachesAreServed`, from `HealthInv`. Each status is what
the reply of the metric's own source comes to, or unknown when nobody lists it
(`Judged`); statuses and replies stay in step (`InStep`); a report was written
from the statuses as they are (`Written`); and what is served is made of them
(`Reported`). The rest relates what the code computes to what was measured.
`LatestIsFirstNewest`: the code filters the points and takes the first of the
newest among those left, which is the first of the newest usable points of the
reply. `ReplyFits` adds the other types of source: every reply measures one value
or none, and the status shows it and is judged by it, or is unknown
(`VerdictFits`). `OwnersOwn` and `OwnerIsAsked`: the two "last one wins" rules of
the code leave the one source that can be asked, if any. `BreachesAreMeasured`:
the breached statuses are the SLOs measured on the wrong side, so counting them
places each finding.

`KnowledgeProofs`, for any chunk size and overlap the constructor accepts (zero
and negative ones too), loaders,
directories and texts of any length:

- `CutsCoverTexts`. `CutInv` adds that windows begin at multiples of the step and
  that what is cut is a text of the disk; with a negative overlap exactly the
  characters in the gaps are not claimed.
- `PassesIndexWhatWasRead` (`LeftoversAreTails`). The property speaks of the end
  of a pass; `IndexInv` of its every step. The ids of the documents and of the
  entries tell them apart (`Shaped`); the files of a loader are read one by one,
  each once (`Reads`); the documents of a file are its non-blank pieces that
  begin before the next window, numbered without a hole (`Documented`); and the
  store holds, for what was upserted so far, every chunk of the latest text, and
  what else is under a file's name is one of the three kinds of leftover
  (`Shelved`). The two lemmas that carry it are `OneMoreDocument` (a round of
  the cutting loop) and `ShelfGrows` (an upsert over what earlier loaders left).
- `RetrievalsReturnTheBest` (`AnswerIsTopK`), for any `k`; of a negative one it
  says only that what comes back are entries, each once, the best ones
  (divergence 3). Of Chroma it says that the entries are distinct and at most
  `k`. `SortedPlaces` shows that counting who sorts before whom numbers the
  entries without a hole and in order of score, which is what a stable sort
  does.

`SelectionProofs`: the lemma `Selection` under the proofs about loops that append
what they want (the parser, the findings, the decoding of calls, the chunks).
`Selections` defines that loop as a recursive function, and induction over the
list's length is done on a *set* of numbers, since a lemma here cannot have an
operator as its parameter. The library's `SelectSeq` and `SortSeq` could have
said the same, but the prover has no definition of them: this is why the models
use `Selected`, and why `Rank` says which place an entry takes.

Assumptions on constants are named where they are declared, and TLC evaluates
each in the runs: chunk size and overlaps are integers, the overlap below the
chunk size (all that the constructor refuses); the files of a directory are a
list without repetition, texts are lists, what a retrieval is asked with is an
integer; configurations with lists where the schema has lists, source types
among the four, replies as the sources' types admit them (no value is `None`,
the demo source's points are whole); an allowlist as its constructor leaves it,
a list of targets in every proposal; a cut line is no entry; a `Thought:` line
bears no tool; bounds of the model that are naturals.

Only model-checked: every liveness property (`CallsReturn`, `TakenIsSettled`,
`DecideReturns`, `RunEnds`, `PassEnds`, `StopEnds`), since liveness and `ENABLED`
are outside what the prover handles.

## 11. Where the code and its documents part

Three are `violates_*` runs and entries of `findings` in `PROJECT.json`.

1. `RateCap`: the cap is on *admissions* judged by past executions, not on
   executions; a batch admitted together runs past it (`pipeline.py:220` against
   `guards.py:38`).
2. `FormatNeverRaises`: tool arguments that are JSON but no object, and an
   integer too long to convert, raise out of `execute()`, the driver and the
   analysis (`core/tools.py:197` against `core/tools.py:185`).
3. `UpToK`: a negative `k`, which the model may send with `search_knowledge` and
   nobody checks (`core/tools.py:57`), returns all entries of the memory store
   but that many (`context/memory_store.py:70` against
   `interfaces/context_store.py:67`).

The others were met while modelling and read off the code; the modules contain
the behaviour, and no run is spent on it.

4. An open breaker stops new proposals, not the execution of those already
   accepted: it is read at validation only (`docs/security-model.md:123`).
5. A running execution finishes its remaining targets and its retry after the
   kill switch engages (`config/models.py:308`).
6. `execute()` rejects every request: the list of targets is itself an undeclared
   argument (`pipeline.py:285`; theorem `ExecuteNeverAccepted`).
7. An execution that skipped every target is "executed" (`types.py:119`).
8. Each run starts its chain from the genesis hash, so a file two runs wrote does
   not verify as one chain (`docs/security-model.md:94`).
9. The daemon ends on any exception of an analysis: nothing between
   `run_analysis` and `asyncio.run` catches it (`__main__.py:114`).
10. The daemon's message about proposals that await approval cannot appear: it
    calls `run_analysis` without a surface, so nothing is ever proposed.
11. An unknown `${VAR}` stays in an endpoint, is not reported at validation as
    `config/loading.py` says it can be, and has no host, so it gives no egress
    warning either. It does not contradict `EgressIsAnnounced`: such a URL is
    refused by the client.
12. Egress warnings may be false alarms: endpoints are looked at whatever the
    provider (stub, hash, synthetic), and a Chroma path with a scheme is a
    directory.
13. A file `validate` accepts may still fail to build: unknown source, store and
    loader types, and missing endpoints, are found when they are used.
14. Sources that share a name: the earlier object is never closed, and its
    queries go to the later one (`app.py:61`). The clients of the model and of
    the embeddings are never closed at all.

## 12. Not modelled

- Text: reasons, prompts, findings, headings and metadata of chunks, the tool
  schemas of `propose_tool_spec` (the model may call anything anyway).
- Hashes and embeddings as functions of bytes and numbers, the wire format of
  requests, and an embeddings reply with fewer vectors than texts (`embed`
  promises one each).
- The stub and the scripted model, and `FakeActionExecutor`: special cases of
  environments that answer anything.
- `query_all` and `health_check` of the sources: no code calls them.
- The command-line gate between its prompt and the answer: it keeps no state, and
  its four outcomes are those of the pipeline's gate.
- A signal before the daemon has its handlers, and Ctrl-C or SIGTERM in `run`: the
  interpreter's own exit. What a killed process held open the system releases.
- Whether a report handed to the output stream is delivered: `served` counts what
  was printed, and a stream that is gone raises at the print or at the last flush.
- Field types, defaults and ranges of the configuration schema beyond those that
  decide a branch.

