---------------------------- MODULE GateContract ----------------------------
(***************************************************************************)
(* What ApprovalGate (actions/approval.py) promises the pipeline: each     *)
(* decide() is answered at most once, and granted only if a human said yes *)
(* to that proposal while that call was waiting.  "Implementations must    *)
(* default to deny": every other answer is open to the gate.               *)
(***************************************************************************)
CONSTANTS
  Calls,  \* the calls of decide()
  Ids,    \* the proposals
  NoId    \* no proposal

VARIABLES
  asked,    \* call -> the proposal it is about
  consent,  \* call -> whether a human said yes to it
  answer    \* call -> what decide() came back with

contractVars == << asked, consent, answer >>

Answers == { "granted", "denied", "expired", "raised" }

Open(c) == asked[c] # NoId /\ answer[c] = "none"

ContractInit ==
  /\ asked = [c \in Calls |-> NoId]
  /\ consent = [c \in Calls |-> FALSE]
  /\ answer = [c \in Calls |-> "none"]

Ask(c, id) ==
  /\ asked[c] = NoId
  /\ asked' = [asked EXCEPT ![c] = id]
  /\ UNCHANGED << consent, answer >>

Consent(c) ==
  /\ Open(c)
  /\ consent' = [consent EXCEPT ![c] = TRUE]
  /\ UNCHANGED << asked, answer >>

Answer(c, a) ==
  /\ Open(c)
  /\ a = "granted" => consent[c]
  /\ answer' = [answer EXCEPT ![c] = a]
  /\ UNCHANGED << asked, consent >>

ContractNext ==
  \E c \in Calls :
    \/ \E id \in Ids : Ask(c, id)
    \/ Consent(c)
    \/ \E a \in Answers : Answer(c, a)

ContractSpec == ContractInit /\ [][ContractNext]_contractVars
=============================================================================
