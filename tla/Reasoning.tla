----------------------------- MODULE Reasoning -----------------------------
(***************************************************************************)
(* One run of a reasoning driver: core/reasoning.py (NativeToolDriver,     *)
(* ReActDriver), the ToolExecutor of core/tools.py it calls, and what      *)
(* llm/openai_backend.py makes of a reply.  The model is an environment:   *)
(* at every completion it may answer anything, or fail; so may the data    *)
(* sources and the store behind a tool.                                    *)
(*                                                                         *)
(* Every await is a step: a completion, and each tool call.                *)
(***************************************************************************)
EXTENDS ReactParser, SequencesExt

CONSTANTS
  Configs,    \* the driver settings the runs start from
  Lines,      \* the lines a model without tool calling writes
  MaxLines,   \* bound on the lines of a reply
  ToolCalls,  \* the calls a model with tool calling makes: [name, args]
  MaxCalls    \* bound on the calls of one reply

\* max_reasoning_steps and fallback_max_retries are unconstrained integers.
ASSUME ConfigAssumption ==
  Configs \subseteq [ native : BOOLEAN, surface : BOOLEAN,
                      maxSteps : Int, maxRetries : Int ]

\* Of a thought it matters only whether it is empty.
ASSUME LinesAssumption == \A l \in Lines : l.form = "thought" => l.arg \in { "", "thought" }

ASSUME ToolCallsAssumption == \A call \in ToolCalls : call.args \in JsonTexts

ASSUME BoundsAssumption == MaxLines \in Nat /\ MaxCalls \in Nat

VARIABLES
  cfg,          \* the settings of this run
  pc,           \* "ask" before a completion, "parse", "tools" before a call, or ended
  step,         \* the loop variable of range(max_steps)
  retries,      \* malformed replies in this step (ReAct)
  messages,     \* the conversation, as the roles and ids that structure it
  todo,         \* the calls of the reply still to be executed
  last,         \* last_content or last_thought
  proposals,    \* proposals recorded on the action surface
  result,       \* the DriverResult, once there is one
  reply         \* the lines of a reply, until the driver has taken it (ReAct)

vars == << cfg, pc, step, retries, messages, todo, last, proposals, result,
           reply >>

\* A result; `note` tells the two truncations apart.
Result(answer, steps, note) ==
  [ answer |-> answer, steps |-> steps, truncated |-> note # "none", note |-> note ]

Pending == Result("", 0, "none")

System           == [ role |-> "system" ]
User(kind)       == [ role |-> "user", kind |-> kind ]
Assistant(ids)   == [ role |-> "assistant", ids |-> ids ]
Tool(id, seen)   == [ role |-> "tool", id |-> id, seen |-> seen ]

\* tool_specs: the tools advertised; propose_action only with a surface.
ReadTools == { "query_metrics", "search_knowledge", "get_health_snapshot" }

\* The JSON values dict() accepts, and those the tool's model then accepts.
\* get_health_snapshot takes no argument, so an empty object fits it.
IsMapping(args) == args \in Objects \cup { "pairs" }
Validates(call) ==
  \/ call.args = "fits"
  \/ call.args \in { "empty", "pairs" } /\ call.name = "get_health_snapshot"

\* ToolExecutor.execute (and _query_metrics, _search_knowledge): what a call
\* can lead to.  dict(arguments) stands outside the try, so a value that is no
\* mapping raises; an unknown source or query id, and whatever a source or
\* the store raises, become an error observation.
ReadOutcomes(call) ==
  IF call.name \notin ReadTools THEN { "error" }
  ELSE IF ~ IsMapping(call.args) THEN { "raise" }
  ELSE IF ~ Validates(call) THEN { "error" }
  ELSE IF call.name = "get_health_snapshot" THEN { "ok" } ELSE { "ok", "error" }

\* _propose_action: recorded or rejected by the surface's validation; the
\* audit file may fail under it.
ProposeOutcomes(call) ==
  IF ~ IsMapping(call.args) THEN { "raise" }
  ELSE IF ~ Validates(call) THEN { "error" } ELSE { "recorded", "error", "raise" }

Outcomes(call) ==
  IF call.name = "propose_action" /\ cfg.surface
    THEN ProposeOutcomes(call) ELSE ReadOutcomes(call)

\* Slip: arguments that are no JSON are passed on.
DecodeRaw(calls) ==
  [ i \in DOMAIN calls |->
      [ id |-> i, name |-> calls[i].name, args |-> calls[i].args ] ]

\* OpenAICompatibleLLMBackend.complete: arguments that are no JSON become {}.
\* An overlong integer raises here (RaisesDecoding).  A call's id is its place
\* in the reply.
Decode(calls) ==
  [ i \in DOMAIN calls |->
      [ id |-> i, name |-> calls[i].name,
        args |-> IF calls[i].args = "malformed" THEN "empty" ELSE calls[i].args ] ]

RaisesDecoding(calls) == \E i \in DOMAIN calls : calls[i].args = "overlong"

NativeReplies ==
  [ content : { "", "text" }, calls : UNION { [1..n -> ToolCalls] : n \in 0..MaxCalls } ]

ReactReplies == UNION { [1..n -> Lines] : n \in 0..MaxLines }

---------------------------------------------------------------------------
Init ==
  /\ cfg \in Configs
  /\ pc = "ask" /\ step = 0 /\ retries = 0 /\ todo = << >> /\ last = ""
  /\ messages = << System, User("prompt") >>
  /\ proposals = 0 /\ result = Pending /\ reply = << >>

\* Slip: one step too many.
HasStepsInclusive == step <= cfg.maxSteps

HasSteps == step < cfg.maxSteps

Ask == pc = "ask" /\ HasSteps

Return(res) == pc' = "done" /\ result' = res

\* The loop ends without a final answer.
Exhausted ==
  /\ pc = "ask" /\ ~ HasSteps
  /\ Return(Result(last, cfg.maxSteps, "steps"))
  /\ UNCHANGED << cfg, step, retries, messages, todo, last, proposals, reply >>

\* complete() raises: the endpoint fails, or sends no choices.
CompletionFails ==
  /\ Ask /\ pc' = "raised"
  /\ UNCHANGED << cfg, step, retries, messages, todo, last, proposals, result,
                  reply >>

NativeAnswer ==
  /\ cfg.native /\ Ask
  /\ \E r \in NativeReplies :
       IF RaisesDecoding(r.calls)
       THEN /\ pc' = "raised" /\ UNCHANGED << messages, todo, last, result >>
       ELSE IF r.calls = << >>
       THEN /\ Return(Result(r.content, step + 1, "none"))
            /\ UNCHANGED << messages, todo, last >>
       ELSE /\ pc' = "tools"
            /\ messages' = Append(messages, Assistant([ i \in DOMAIN r.calls |-> i ]))
            /\ todo' = Decode(r.calls)
            /\ last' = IF r.content # "" THEN r.content ELSE last
            /\ UNCHANGED result
  /\ UNCHANGED << cfg, step, retries, proposals, reply >>

\* Slip: a malformed reply is not counted.
RetriedUncounted == retries

Retried == retries + 1

\* Slip: the same question again, neither counted nor corrected.
MalformedForgotten(said) ==
  pc' = "ask" /\ UNCHANGED << retries, messages, todo, result >>

\* The malformed reply: within the retry budget the model is corrected and
\* asked again in the same step, past it the run is truncated.
Malformed(said) ==
  IF Retried > cfg.maxRetries
  THEN /\ Return(Result(last', step + 1, "retries"))
       /\ messages' = said /\ UNCHANGED << retries, todo >>
  ELSE /\ messages' = Append(said, User("corrective"))
       /\ retries' = Retried /\ pc' = "ask"
       /\ UNCHANGED << todo, result >>

\* Without tool calling the model writes lines ...
ReactReply ==
  /\ ~ cfg.native /\ Ask
  /\ reply' \in ReactReplies /\ pc' = "parse"
  /\ UNCHANGED << cfg, step, retries, messages, todo, last, proposals, result >>

\* ... and the driver takes them for a call, an answer or neither.
TakeReply ==
  /\ pc = "parse" /\ reply' = << >>
  /\ LET parsed == ParseReact(reply)
         said   == Append(messages, Assistant(<< >>))
     IN  /\ last' = IF parsed.kind # "raise" /\ parsed.thought # ""
                      THEN parsed.thought ELSE last
         /\ CASE parsed.kind = "raise" ->
                   /\ pc' = "raised" /\ messages' = said
                   /\ UNCHANGED << retries, todo, result >>
              [] parsed.kind = "final" ->
                   /\ Return(Result("answer", step + 1, "none"))
                   /\ messages' = said /\ UNCHANGED << retries, todo >>
              [] parsed.kind = "action" ->
                   /\ pc' = "tools" /\ messages' = said
                   /\ todo' = << [id |-> 0, name |-> parsed.name, args |-> parsed.args] >>
                   /\ UNCHANGED << retries, result >>
              [] parsed.kind = "error" -> Malformed(said)
  /\ UNCHANGED << cfg, step, proposals >>

\* Slip: the observation answers the last call of the reply.
ObservationOfLast(seen) ==
  IF cfg.native THEN Tool(todo[Len(todo)].id, seen) ELSE User(seen)

\* The observation of the call at the head of todo, as each driver appends it.
Observation(seen) ==
  IF cfg.native THEN Tool(Head(todo).id, seen) ELSE User(seen)

\* One tool call.  After the last of a reply the next step begins.
ExecuteCall ==
  /\ pc = "tools"
  /\ \E seen \in Outcomes(Head(todo)) :
       IF seen = "raise"
       THEN /\ pc' = "raised"
            /\ UNCHANGED << step, retries, messages, todo, proposals >>
       ELSE /\ messages' = Append(messages, Observation(seen))
            /\ proposals' = IF seen = "recorded" THEN proposals + 1 ELSE proposals
            /\ todo' = Tail(todo)
            /\ IF Len(todo) > 1 THEN UNCHANGED << pc, step, retries >>
               ELSE pc' = "ask" /\ step' = step + 1 /\ retries' = 0
  /\ UNCHANGED << cfg, last, result, reply >>

\* The run is over; its caller goes on.
Ended == pc \in { "done", "raised" } /\ UNCHANGED vars

Next ==
  \/ Exhausted \/ CompletionFails \/ NativeAnswer \/ ReactReply
  \/ TakeReply \/ ExecuteCall \/ Ended

Spec == Init /\ [][Next]_vars

\* Completions and tool calls are awaited by a coroutine that is always
\* scheduled again: each comes back, with an answer or an error (the HTTP
\* clients have timeouts).  What it comes back with is left open.
FairSpec == Spec /\ WF_vars(Next /\ ~ Ended)
---------------------------------------------------------------------------
TypeOK ==
  /\ cfg \in Configs
  /\ pc \in { "ask", "parse", "tools", "done", "raised" }
  /\ step \in Nat /\ retries \in Nat /\ proposals \in Nat
  /\ last \in { "", "text", "thought" }
  /\ \A i \in DOMAIN todo : todo[i].args \in Objects \cup { "pairs", "scalar" }
  /\ reply \in Seq(Lines)

\* A chat endpoint refuses a conversation in which a tool call is left without
\* its answer.  Whenever the model is asked, each reply that called tools is
\* followed by one observation per call, in the order of the calls and under
\* their ids, and each textual reply by what was made of it.
ConversationIsAnswered ==
  pc = "ask" =>
    \A k \in DOMAIN messages :
      messages[k].role = "assistant" =>
        IF cfg.native
        THEN LET ids == messages[k].ids IN
             /\ k + Len(ids) <= Len(messages)
             /\ \A j \in DOMAIN ids :
                  messages[k + j].role = "tool" /\ messages[k + j].id = ids[j]
             /\ k + Len(ids) < Len(messages)
                  => messages[k + Len(ids) + 1].role = "assistant"
        ELSE k < Len(messages) /\ messages[k + 1].role = "user"

Replies(said) == { k \in DOMAIN said : said[k].role = "assistant" }

\* max_reasoning_steps, and the replies one step may take, of integers that
\* may be negative.
StepBound == IF cfg.maxSteps < 0 THEN 0 ELSE cfg.maxSteps
PerStep   == IF cfg.native \/ cfg.maxRetries < 0 THEN 1 ELSE cfg.maxRetries + 1

\* However the model answers, a run asks at most once per step and, without
\* tool calling, once more per retry: malformed replies cost retries of their
\* own step only and are not carried over.
AsksWithinBudget == Cardinality(Replies(messages)) <= PerStep * StepBound

\* A reply cut at a token limit never runs another call than the whole one
\* would, had it parsed (react.py).
CutRepliesAreSafe == CutIsSafe(reply)

\* "Never raises for bad model input" (tools.py:185), "Neither driver raises
\* for model-format problems" (reasoning.py:6): with an endpoint that answers
\* and no surface whose audit could fail, a reply raises nothing.
FormatNeverRaises ==
  [][ (pc' = "raised" /\ ~ cfg.surface) => CompletionFails ]_vars

\* Both drivers keep the contract the agent loop relies on.
Contract ==
  INSTANCE ReasoningContract
    WITH limit <- cfg.maxSteps, turns <- step,
         outcome <- CASE pc = "raised" -> "raised"
                      [] pc = "done" -> IF result.truncated THEN "truncated"
                                        ELSE "answered"
                      [] OTHER -> "running"

KeepsContract == Contract!Spec

\* A run comes back whatever the model does, even if no reply is ever usable.
RunEnds == <>(pc \in { "done", "raised" })
=============================================================================
