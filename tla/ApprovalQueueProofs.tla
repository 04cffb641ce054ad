------------------------- MODULE ApprovalQueueProofs -------------------------
(***************************************************************************)
(* Proofs about ApprovalQueue: its inductive invariant, that the first     *)
(* answer stands, and that it implements GateContract.                     *)
(***************************************************************************)
EXTENDS ApprovalQueue, TLAPS

\* A call that has not begun has left no trace, and an answer is backed by
\* the decision of the call's own record.
Untouched == \A c \in Calls : asked[c] = NoId => decision[c] = "none" /\ answer[c] = "none"
Backed ==
  \A c \in Calls : /\ answer[c] = "granted" => decision[c] = "yes"
                   /\ answer[c] = "denied" => decision[c] = "no"

QueueInv ==
  TypeOK /\ ListedIsWaiting /\ UnanswerableIsOvertaken /\ Untouched /\ Backed

LEMMA QueueInit == Init => QueueInv
  BY NoneAssumption
  DEF Init, QueueInv, TypeOK, ListedIsWaiting, UnanswerableIsOvertaken, Untouched,
      Backed, Waiting

LEMMA DecideStep ==
  ASSUME QueueInv, NEW c \in Calls, NEW id \in Ids, Decide(c, id)
  PROVE  QueueInv'
<1>1. TypeOK'
    BY DEF QueueInv, TypeOK, Decide
<1>2. \A other \in Calls \ {c} : Waiting(other)' = Waiting(other) /\ asked'[other] = asked[other]
    BY DEF QueueInv, TypeOK, Decide, Waiting
<1>3. ~ Waiting(c) /\ Waiting(c)' /\ asked'[c] = id
    BY NoneAssumption DEF QueueInv, TypeOK, Untouched, Decide, Waiting
<1>4. ListedIsWaiting'
    BY <1>2, <1>3, NoneAssumption DEF QueueInv, TypeOK, ListedIsWaiting, Decide
<1>5. UnanswerableIsOvertaken'
  <2> SUFFICES ASSUME NEW k \in Calls, Waiting(k)', listed'[asked'[k]] # k
               PROVE  \E other \in Calls \ {k} : asked'[other] = asked'[k]
      BY DEF UnanswerableIsOvertaken, Overtaken
  <2>1. k # c /\ Waiting(k) /\ asked'[k] = asked[k] /\ asked[k] \in Ids
      BY <1>2, <1>3 DEF QueueInv, TypeOK, Decide, Waiting
  <2>2. CASE asked[k] = id
      BY <1>3, <2>1, <2>2
  <2>3. CASE asked[k] # id
    <3>1. PICK other \in Calls \ {k} : asked[other] = asked[k]
        BY <2>1, <2>3 DEF QueueInv, TypeOK, UnanswerableIsOvertaken, Overtaken, Decide
    <3>2. other # c
        BY <2>1, <3>1, NoneAssumption DEF Decide
    <3> QED
        BY <1>2, <2>1, <3>1, <3>2
  <2> QED
      BY <2>2, <2>3
<1>6. Untouched' /\ Backed'
    BY NoneAssumption DEF QueueInv, TypeOK, Untouched, Backed, Decide
<1> QED
    BY <1>1, <1>4, <1>5, <1>6 DEF QueueInv

LEMMA ResolveStep ==
  ASSUME QueueInv, NEW id \in Ids, NEW yesNo \in {"yes", "no"}, Resolve(id, yesNo)
  PROVE  /\ QueueInv'
         /\ listed[id] \in Calls /\ Waiting(listed[id])
<1>1. listed[id] \in Calls /\ Waiting(listed[id]) /\ asked[listed[id]] = id
    BY DEF QueueInv, TypeOK, ListedIsWaiting, Resolve, Answerable
<1>2. TypeOK' /\ Untouched' /\ Backed'
    BY <1>1 DEF QueueInv, TypeOK, Untouched, Backed, Resolve, Waiting
<1>3. ListedIsWaiting' /\ UnanswerableIsOvertaken'
    BY DEF QueueInv, ListedIsWaiting, UnanswerableIsOvertaken, Overtaken, Resolve, Waiting
<1> QED
    BY <1>1, <1>2, <1>3 DEF QueueInv

\* Both ways back from the wait: resumed with an outcome, or cancelled.
LEMMA ReturnStep ==
  ASSUME QueueInv, NEW c \in Calls, Waiting(c), NEW a \in Outcomes(c) \cup {"raised"},
         Return(c, a)
  PROVE  QueueInv'
<1>1. /\ a \in {"granted", "denied", "expired", "raised"}
      /\ a = "granted" => decision[c] = "yes"
      /\ a = "denied" => decision[c] = "no"
    BY DEF Outcomes
<1>2. asked[c] \in Ids /\ answer' = [answer EXCEPT ![c] = a]
      /\ listed' = [listed EXCEPT ![asked[c]] = NoCall]
    BY DEF QueueInv, TypeOK, Waiting, Return, Pop
<1>3. TypeOK' /\ Untouched' /\ Backed'
    BY <1>1, <1>2 DEF QueueInv, TypeOK, Untouched, Backed, Return, Waiting
<1>4. ~ Waiting(c)'
    BY <1>1, <1>2 DEF QueueInv, TypeOK, Waiting
<1>5. \A other \in Calls \ {c} : Waiting(other)' = Waiting(other)
    BY <1>2 DEF QueueInv, TypeOK, Waiting, Return
<1>6. asked' = asked
    BY DEF Return
<1>7. ListedIsWaiting'
    BY <1>2, <1>5, <1>6 DEF QueueInv, TypeOK, ListedIsWaiting
<1>8. UnanswerableIsOvertaken'
  <2> SUFFICES ASSUME NEW k \in Calls, Waiting(k)', listed'[asked'[k]] # k
               PROVE  Overtaken(k)
      BY <1>6 DEF UnanswerableIsOvertaken, Overtaken
  <2>1. k # c /\ Waiting(k)
      BY <1>4, <1>5
  <2>2. CASE asked[k] = asked[c]
      BY <2>1, <2>2 DEF Overtaken
  <2>3. CASE asked[k] # asked[c]
      BY <1>2, <1>6, <2>1, <2>3
      DEF QueueInv, TypeOK, UnanswerableIsOvertaken, Waiting
  <2> QED
      BY <2>2, <2>3
<1> QED
    BY <1>3, <1>7, <1>8 DEF QueueInv

LEMMA QueueStep == QueueInv /\ [Next]_vars => QueueInv'
<1> SUFFICES ASSUME QueueInv, [Next]_vars PROVE QueueInv'
    OBVIOUS
<1>1. ASSUME NEW c \in Calls, TimerFires(c) PROVE QueueInv'
    BY <1>1
    DEF QueueInv, TypeOK, ListedIsWaiting, UnanswerableIsOvertaken, Overtaken,
        Untouched, Backed, TimerFires, Waiting
<1>2. ASSUME NEW c \in Calls, Resume(c) \/ Cancel(c) PROVE QueueInv'
    BY <1>2, ReturnStep DEF Resume, Cancel
<1>3. CASE UNCHANGED vars
    BY <1>3
    DEF QueueInv, TypeOK, ListedIsWaiting, UnanswerableIsOvertaken, Overtaken,
        Untouched, Backed, Waiting, vars
<1> QED
    BY <1>1, <1>2, <1>3, DecideStep, ResolveStep DEF Next

\* The queue's inductive invariant holds for any number of calls and ids.
THEOREM QueueInvariant == Spec => []QueueInv
  BY QueueInit, QueueStep, PTL DEF Spec

\* No record outlives its wait.
THEOREM ListedBelongs == Spec => []ListedIsWaiting
<1>1. QueueInv => ListedIsWaiting
    BY DEF QueueInv
<1> QED
    BY <1>1, QueueInvariant, PTL

\* With distinct ids, every waiting call can be answered.
THEOREM DistinctIdsAnswerable == Spec => []UnanswerableIsOvertaken
<1>1. QueueInv => UnanswerableIsOvertaken
    BY DEF QueueInv
<1> QED
    BY <1>1, QueueInvariant, PTL

\* A decision made for a waiting call is final, and is the one returned.
THEOREM FirstAnswer == Spec => FirstAnswerStands
<1> DEFINE Stands ==
      \A c \in Calls :
        /\ decision[c] # "none" => decision'[c] = decision[c]
        /\ answer'[c] = "granted" => decision[c] = "yes"
        /\ answer'[c] = "denied" => decision[c] = "no"
<1>1. QueueInv /\ [Next]_vars => [Stands]_vars
  <2> SUFFICES ASSUME QueueInv, Next PROVE Stands
      OBVIOUS
  <2>1. ASSUME NEW c \in Calls, NEW id \in Ids, Decide(c, id) PROVE Stands
      BY <2>1 DEF QueueInv, Backed, Decide
  <2>2. ASSUME NEW id \in Ids, NEW yesNo \in {"yes", "no"}, Resolve(id, yesNo) PROVE Stands
      BY <2>2, ResolveStep DEF QueueInv, TypeOK, Backed, Resolve, Answerable
  <2>3. ASSUME NEW c \in Calls, TimerFires(c) PROVE Stands
      BY <2>3 DEF QueueInv, Backed, TimerFires
  <2>4. ASSUME NEW c \in Calls, Resume(c) \/ Cancel(c) PROVE Stands
      BY <2>4 DEF QueueInv, TypeOK, Backed, Resume, Cancel, Return, Outcomes
  <2> QED
      BY <2>1, <2>2, <2>3, <2>4 DEF Next
<1> QED
    BY <1>1, QueueInvariant, PTL DEF Spec, FirstAnswerStands

\* The queue implements the gate the pipeline relies on: an approval is only
\* ever returned for a human's yes to that call, each call is answered once.
THEOREM QueueKeepsContract == Spec => KeepsContract
<1>1. Init => Gate!ContractInit
    BY DEF Init, Gate!ContractInit
<1>2. QueueInv /\ [Next]_vars => [Gate!ContractNext]_(Gate!contractVars)
  <2> SUFFICES ASSUME QueueInv, [Next]_vars
               PROVE  Gate!ContractNext \/ UNCHANGED Gate!contractVars
      OBVIOUS
  <2>1. ASSUME NEW c \in Calls, NEW id \in Ids, Decide(c, id) PROVE Gate!Ask(c, id)
      BY <2>1 DEF Decide, Gate!Ask
  <2>2. ASSUME NEW id \in Ids, Resolve(id, "yes") PROVE \E c \in Calls : Gate!Consent(c)
    <3>1. PICK c \in Calls : c = listed[id]
        BY <2>2, ResolveStep
    <3>2. Gate!Consent(c)
        BY <2>2, <3>1, ResolveStep
        DEF QueueInv, TypeOK, Resolve, Waiting, Gate!Consent, Gate!Open
    <3> QED
        BY <3>2
  <2>3. ASSUME NEW id \in Ids, Resolve(id, "no") PROVE UNCHANGED Gate!contractVars
      BY <2>3, ResolveStep
      DEF QueueInv, TypeOK, Resolve, Answerable, Gate!contractVars
  <2>4. ASSUME NEW c \in Calls, TimerFires(c) PROVE UNCHANGED Gate!contractVars
      BY <2>4 DEF TimerFires, Gate!contractVars
  <2>5. ASSUME NEW c \in Calls, Resume(c) \/ Cancel(c)
        PROVE  \E a \in Gate!Answers : Gate!Answer(c, a)
    <3>1. PICK a \in Outcomes(c) \cup {"raised"} : Return(c, a)
        BY <2>5 DEF Resume, Cancel
    <3>2. a \in Gate!Answers /\ (a = "granted" => decision[c] = "yes")
        BY DEF Outcomes, Gate!Answers
    <3>3. Gate!Answer(c, a)
        BY <2>5, <3>1, <3>2
        DEF Resume, Cancel, Waiting, Return, Gate!Answer, Gate!Open
    <3> QED
        BY <3>2, <3>3
  <2>6. CASE UNCHANGED vars
      BY <2>6 DEF vars, Gate!contractVars
  <2>7. CASE \E c \in Calls, id \in Ids : Decide(c, id)
      BY <2>1, <2>7 DEF Gate!ContractNext
  <2>8. CASE \E id \in Ids, yesNo \in {"yes", "no"} : Resolve(id, yesNo)
    <3>1. PICK id \in Ids : Resolve(id, "yes") \/ Resolve(id, "no")
        BY <2>8
    <3>2. CASE Resolve(id, "yes")
        BY <2>2, <3>2 DEF Gate!ContractNext
    <3>3. CASE Resolve(id, "no")
        BY <2>3, <3>3
    <3> QED
        BY <3>1, <3>2, <3>3
  <2>9. CASE \E c \in Calls : TimerFires(c) \/ Resume(c) \/ Cancel(c)
      BY <2>4, <2>5, <2>9 DEF Gate!ContractNext
  <2> QED
      BY <2>6, <2>7, <2>8, <2>9 DEF Next
<1> QED
    BY <1>1, <1>2, QueueInvariant, PTL DEF Spec, KeepsContract, Gate!ContractSpec
=============================================================================
