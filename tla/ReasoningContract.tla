------------------------- MODULE ReasoningContract -------------------------
(***************************************************************************)
(* What the agent loop relies on, whichever driver it runs                 *)
(* (core/reasoning.py, DriverResult): a run takes at most `limit` turns,   *)
(* each of which called tools, and then comes back once: with an answer    *)
(* found in the turn after the last, or truncated, or by an exception.     *)
(***************************************************************************)
EXTENDS Integers

VARIABLES
  limit,    \* max_reasoning_steps
  turns,    \* turns whose tool calls have all been observed
  outcome   \* "running", "answered", "truncated" or "raised"

cvars == << limit, turns, outcome >>

Init == turns = 0 /\ outcome = "running"

Turn ==
  /\ outcome = "running" /\ turns < limit
  /\ turns' = turns + 1
  /\ UNCHANGED << limit, outcome >>

Return ==
  /\ outcome = "running"
  /\ outcome' \in { "answered", "truncated", "raised" }
  /\ (turns >= limit) => (outcome' = "truncated")
  /\ UNCHANGED << limit, turns >>

Next == Turn \/ Return

Spec == Init /\ [][Next]_cvars
=============================================================================
