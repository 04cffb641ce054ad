---------------------------- MODULE MCReasoning ----------------------------
(***************************************************************************)
(* Small instances of Reasoning: every line form, one known tool of each   *)
(* kind and an unknown one, step bounds from 0 and retry budgets from 0.   *)
(***************************************************************************)
EXTENDS Reasoning

Line(form, arg) == [ form |-> form, arg |-> arg ]

MCLines ==
  { Line("thought", "thought"), Line("fence", ""), Line("other", "chat"),
    Line("other", ""), Line("final", ""), Line("final", "healthy"),
    Line("action", "query_metrics"), Line("action", ""),
    Line("action", "propose_action"), Line("input", "fits"), Line("input", "unfit"),
    Line("input", "scalar"), Line("input", "overlong") }

Call(name, args) == [ name |-> name, args |-> args ]

MCToolCalls ==
  { Call("query_metrics", "fits"), Call("get_health_snapshot", "malformed"),
    Call("get_health_snapshot", "pairs"),
    Call("propose_action", "fits"), Call("restart", "fits"),
    Call("search_knowledge", "overlong") }

BadCalls == { Call("search_knowledge", "scalar") }

MCConfigs ==
  { c \in [ native : BOOLEAN, surface : BOOLEAN, maxSteps : 0..2, maxRetries : 0..1 ] :
      /\ c.native => c.maxRetries = 0
      /\ ~ c.native => c.surface }
=============================================================================
