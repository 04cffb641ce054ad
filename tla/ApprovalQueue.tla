---------------------------- MODULE ApprovalQueue ----------------------------
(***************************************************************************)
(* PendingApprovalQueue (actions/approval.py): decide() registers the      *)
(* proposal and waits for a human or the timer.                            *)
(*                                                                         *)
(* A call of decide() is a coroutine: it runs from its registration to     *)
(* wait_for, and once more when the event loop resumes it.  Between the    *)
(* human's answer (or the timer) and that resumption other callbacks run.  *)
(* When both the answer and the timer come before it, asyncio's wait_for   *)
(* lets one of them win, and which one differs between the Python versions *)
(* the project supports (3.11, 3.12): Resume leaves the choice open.       *)
(***************************************************************************)
CONSTANTS
  Calls,  \* the calls of decide() of one behaviour (a bound)
  Ids,    \* proposal ids
  NoId, NoCall

ASSUME NoneAssumption == NoId \notin Ids /\ NoCall \notin Calls

VARIABLES
  asked,     \* call -> the proposal's id
  listed,    \* id -> the call whose _Pending record _pending holds
  decision,  \* call -> _Pending.decision of its record ("none", "yes", "no")
  expired,   \* call -> the timer of its wait_for has fired
  answer     \* call -> what decide() came back with

vars == << asked, listed, decision, expired, answer >>

Waiting(c) == asked[c] # NoId /\ answer[c] = "none"

Init ==
  /\ asked = [c \in Calls |-> NoId]
  /\ listed = [id \in Ids |-> NoCall]
  /\ decision = [c \in Calls |-> "none"]
  /\ expired = [c \in Calls |-> FALSE]
  /\ answer = [c \in Calls |-> "none"]

\* decide, up to wait_for: a fresh record takes the id's place in _pending,
\* whatever was there.
Decide(c, id) ==
  /\ asked[c] = NoId
  /\ asked' = [asked EXCEPT ![c] = id]
  /\ listed' = [listed EXCEPT ![id] = c]
  /\ UNCHANGED << decision, expired, answer >>

\* _resolve ignores an id that is not pending and one that already has its
\* decision.  Slip: the later answer replaces the earlier.
AnswerableAlways(id) == listed[id] # NoCall
Answerable(id) == listed[id] # NoCall /\ decision[listed[id]] = "none"

\* approve (yes) and reject (no), by a human on another surface.
Resolve(id, yesNo) ==
  /\ Answerable(id)
  /\ decision' = [decision EXCEPT ![listed[id]] = yesNo]
  /\ UNCHANGED << asked, listed, expired, answer >>

TimerFires(c) ==
  /\ Waiting(c) /\ ~ expired[c]
  /\ expired' = [expired EXCEPT ![c] = TRUE]
  /\ UNCHANGED << asked, listed, decision, answer >>

\* The finally clause: pop the id, whoever's record it holds by now.
\* Slip: the whole dictionary is cleared.
PopEverything(c) == [id \in Ids |-> NoCall]
Pop(c) == [listed EXCEPT ![asked[c]] = NoCall]

Return(c, a) ==
  /\ answer' = [answer EXCEPT ![c] = a]
  /\ listed' = Pop(c)
  /\ UNCHANGED << asked, decision, expired >>

\* What wait_for lets decide() return.  Slips: a timeout counts as assent;
\* the wait has no timeout.
OutcomesAssenting(c) ==
  { a \in {"granted", "denied"} :
      \/ a = "granted" /\ (decision[c] = "yes" \/ expired[c])
      \/ a = "denied" /\ decision[c] = "no" }
OutcomesUntimed(c) ==
  { a \in {"granted", "denied"} :
      \/ a = "granted" /\ decision[c] = "yes"
      \/ a = "denied" /\ decision[c] = "no" }
Outcomes(c) ==
  { a \in {"granted", "denied", "expired"} :
      \/ a = "granted" /\ decision[c] = "yes"
      \/ a = "denied" /\ decision[c] = "no"
      \/ a = "expired" /\ expired[c] }

Resume(c) == Waiting(c) /\ \E a \in Outcomes(c) : Return(c, a)

\* The waiting task is cancelled.
Cancel(c) == Waiting(c) /\ Return(c, "raised")

Next ==
  \/ \E c \in Calls, id \in Ids : Decide(c, id)
  \/ \E id \in Ids, yesNo \in {"yes", "no"} : Resolve(id, yesNo)
  \/ \E c \in Calls : TimerFires(c) \/ Resume(c) \/ Cancel(c)

Spec == Init /\ [][Next]_vars

\* The event loop fires its timers and resumes what is ready; no human needs
\* to answer.
FairSpec == Spec /\ \A c \in Calls : WF_vars(TimerFires(c)) /\ WF_vars(Resume(c))

----------------------------------------------------------------------------
(* Properties.                                                              *)

\* Every variable has its type.
TypeOK ==
  /\ asked \in [Calls -> Ids \cup {NoId}]
  /\ listed \in [Ids -> Calls \cup {NoCall}]
  /\ decision \in [Calls -> {"none", "yes", "no"}]
  /\ expired \in [Calls -> BOOLEAN]
  /\ answer \in [Calls -> {"none", "granted", "denied", "expired", "raised"}]

\* _pending never keeps a record nobody waits on: every listed id belongs to
\* a decide() about that id that has not come back, also when calls about one
\* id overlap or are cancelled.
ListedIsWaiting ==
  \A id \in Ids : listed[id] # NoCall => Waiting(listed[id]) /\ asked[listed[id]] = id

\* A waiting call a human cannot answer (its record is not the one listed)
\* shares its id with another call: with distinct ids every waiting call can
\* be answered.
Overtaken(c) == \E other \in Calls \ {c} : asked[other] = asked[c]
UnanswerableIsOvertaken ==
  \A c \in Calls : Waiting(c) /\ listed[asked[c]] # c => Overtaken(c)

\* The first answer stands: what a human decided about a waiting call is
\* neither replaced by a later approve or reject nor returned as its opposite.
FirstAnswerStands ==
  [][\A c \in Calls :
       /\ decision[c] # "none" => decision'[c] = decision[c]
       /\ answer'[c] = "granted" => decision[c] = "yes"
       /\ answer'[c] = "denied" => decision[c] = "no"]_vars

\* The queue is a gate as the pipeline needs it: see GateContract.
Gate == INSTANCE GateContract WITH consent <- [c \in Calls |-> decision[c] = "yes"]
KeepsContract == Gate!ContractSpec

\* Every decide() comes back, answered or not.
DecideReturns == \A c \in Calls : Waiting(c) ~> answer[c] # "none"
=============================================================================
