-------------------------- MODULE ActionValidation --------------------------
(***************************************************************************)
(* The deterministic, pre-human checkpoint of the action surface:          *)
(* actions/validation.py (validate_proposal) and the part of               *)
(* actions/allowlist.py it calls.  Pure operators, no state: the pipeline  *)
(* module evaluates them inside propose().                                 *)
(*                                                                         *)
(* A name or a target is a member of a small set; an argument value is the *)
(* tag of its Python type ("str", "bool", "int", "float", or "list" for    *)
(* every value that is none of these), which is all the type check sees.   *)
(***************************************************************************)
EXTENDS Integers, Sequences

CONSTANTS
  Allowlist,      \* function: declared action name -> its ActionConfig
  ReservedNames,  \* the action names that contain a reserved substring
  NoLimit         \* max_targets = None

ValidationCodes ==
  { "ok", "kill_switch", "reserved", "unknown_action", "no_targets",
    "schema_invalid", "out_of_scope", "too_many_targets", "breaker_open",
    "rate_limited" }

ValueTags == { "str", "bool", "int", "float", "list" }

\* The Python types that satisfy a declared parameter type; a bool is an int
\* to isinstance and is excluded from "integer" and "number" by hand.
Matching ==
  [ string |-> {"str"}, boolean |-> {"bool"},
    integer |-> {"int"}, number |-> {"int", "float"} ]

\* ActionAllowlist.__init__ refuses a reserved name, and ActionParamSpec.type
\* is one of four literals.
ASSUME AllowlistAssumption ==
  \A name \in DOMAIN Allowlist :
    /\ name \notin ReservedNames
    /\ \A n \in DOMAIN Allowlist[name].parameters :
         Allowlist[name].parameters[n].type \in {"string", "boolean", "integer", "number"}

MatchesType(spec, value) == value \in Matching[spec.type]

\* ActionAllowlist.validate_arguments: no undeclared argument, no required
\* one missing, every present one of its declared type.
ValidArguments(action, params) ==
  /\ DOMAIN params \subseteq DOMAIN action.parameters
  /\ \A n \in DOMAIN action.parameters :
       IF n \in DOMAIN params
         THEN MatchesType(action.parameters[n], params[n])
         ELSE ~ action.parameters[n].required

InScope(action, targets) == \A i \in DOMAIN targets : targets[i] \in action.scope

WithinLimit(action, targets) ==
  action.maxTargets = NoLimit \/ Len(targets) <= action.maxTargets

\* validate_proposal: the first check that fails names the code.  `killed`,
\* `open` and `allowed` are what the three guards answer when asked.
ValidateProposal(p, killed, open, allowed) ==
  IF killed THEN "kill_switch"
  ELSE IF p.action \in ReservedNames THEN "reserved"
  ELSE IF p.action \notin DOMAIN Allowlist THEN "unknown_action"
  ELSE IF p.targets = << >> THEN "no_targets"
  ELSE LET action == Allowlist[p.action] IN
       IF ~ ValidArguments(action, p.params) THEN "schema_invalid"
       ELSE IF ~ InScope(action, p.targets) THEN "out_of_scope"
       ELSE IF ~ WithinLimit(action, p.targets) THEN "too_many_targets"
       ELSE IF open THEN "breaker_open"
       ELSE IF ~ allowed THEN "rate_limited"
       ELSE "ok"

\* The rate limiter is asked (and prunes its window) only when every earlier
\* check has passed.
AsksRateLimiter(code) == code \in {"ok", "rate_limited"}

\* _targets_of, for the ActionRequest of the abstract interface: its targets
\* travel inside its parameters, under the key "targets".
TargetsOf(q) ==
  IF "targets" \in DOMAIN q.params /\ q.params["targets"] = "list"
    THEN q.listed ELSE << >>

\* The proposal execute() builds from an ActionRequest: the whole parameter
\* mapping, "targets" included, becomes the proposal's arguments.
ProposalOf(q) ==
  [ action |-> q.action, targets |-> TargetsOf(q), params |-> q.params,
    dryRun |-> FALSE ]
=============================================================================
