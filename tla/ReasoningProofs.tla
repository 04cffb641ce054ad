--------------------------- MODULE ReasoningProofs ---------------------------
(***************************************************************************)
(* Proofs about Reasoning, for every setting of the drivers and whatever   *)
(* the model answers: a run keeps the contract of the agent loop, the      *)
(* model is asked no more often than the two bounds allow and answered     *)
(* whenever it is asked, and a reply that is cut calls nothing the whole   *)
(* one does not.                                                           *)
(***************************************************************************)
EXTENDS Reasoning, SelectionProofs

\* The parser comes back with one of four kinds of step.
LEMMA ParseKinds ==
  ASSUME NEW text
  PROVE  ParseReact(text).kind \in { "action", "final", "error", "raise" }
<1> DEFINE t       == StripFences(text)
           actions == ActionLines(t)
           finals  == LinesOf(t, "final")
           inputs  == LinesOf(t, "input")
           kind    == InputKind(FirstArg(t, inputs))
           Plain(k) == [ kind |-> k, thought |-> FirstThought(t),
                         name |-> "", args |-> "empty" ]
<1>1. kind \in { "action", "error", "raise" }
    BY DEF InputKind
<1>2. [ Plain(kind) EXCEPT !.name = FirstArg(t, actions),
                           !.args = FirstArg(t, inputs) ].kind = kind
    OBVIOUS
<1>3. \A k : Plain(k).kind = k
    OBVIOUS
<1> HIDE DEF t, actions, finals, inputs, kind, Plain
<1>4. ParseReact(text) \in
        { Plain("error"), Plain("final"), Plain(kind),
          [ Plain(kind) EXCEPT !.name = FirstArg(t, actions), !.args = FirstArg(t, inputs) ] }
    BY DEF ParseReact, t, actions, finals, inputs, kind, Plain
<1> QED
    BY <1>1, <1>2, <1>3, <1>4

----------------------------------------------------------------------------
(* The contract.                                                            *)

\* A turn is under way only within the step bound.
Bounded ==
  /\ cfg \in Configs /\ step \in Nat
  /\ pc \in { "ask", "parse", "tools", "done", "raised" }
  /\ pc \in { "parse", "tools" } => step < cfg.maxSteps

LEMMA ConfigTypes ==
  ASSUME cfg \in Configs
  PROVE  cfg.maxSteps \in Int /\ cfg.maxRetries \in Int
  BY ConfigAssumption

LEMMA Initially ==
  ASSUME Init
  PROVE  /\ cfg \in Configs /\ pc = "ask" /\ step = 0 /\ retries = 0 /\ proposals = 0
         /\ messages = << System, User("prompt") >>
  BY Zenon DEF Init

LEMMA BoundedInit == Init => Bounded
  BY Initially DEF Bounded

\* What taking a reply can lead to.
LEMMA TakeCases ==
  ASSUME TakeReply, cfg \in Configs, retries \in Nat
  PROVE  /\ pc = "parse" /\ cfg' = cfg /\ step' = step /\ proposals' = proposals
         /\ \/ /\ pc' = "raised" /\ retries' = retries
               /\ messages' = Append(messages, Assistant(<< >>))
            \/ /\ pc' = "done" /\ result' = Result("answer", step + 1, "none")
               /\ retries' = retries /\ messages' = Append(messages, Assistant(<< >>))
            \/ /\ pc' = "tools" /\ retries' = retries
               /\ messages' = Append(messages, Assistant(<< >>))
            \/ /\ pc' = "done" /\ result' = Result(last', step + 1, "retries")
               /\ retries' = retries /\ messages' = Append(messages, Assistant(<< >>))
            \/ /\ pc' = "ask" /\ retries + 1 <= cfg.maxRetries /\ retries' = retries + 1
               /\ messages' = Append(Append(messages, Assistant(<< >>)), User("corrective"))
<1> DEFINE parsed == ParseReact(reply)
           said   == Append(messages, Assistant(<< >>))
<1>1. parsed.kind \in { "action", "final", "error", "raise" }
    BY ParseKinds
<1>2. pc = "parse" /\ cfg' = cfg /\ step' = step /\ proposals' = proposals
    BY DEF TakeReply
<1>3. /\ parsed.kind = "raise" => pc' = "raised" /\ messages' = said /\ retries' = retries
      /\ parsed.kind = "final" => /\ Return(Result("answer", step + 1, "none"))
                                   /\ messages' = said /\ retries' = retries
      /\ parsed.kind = "action" => pc' = "tools" /\ messages' = said /\ retries' = retries
      /\ parsed.kind = "error" => Malformed(said)
    BY <1>1 DEF TakeReply
<1>4. Malformed(said) =>
        \/ /\ pc' = "done" /\ result' = Result(last', step + 1, "retries")
           /\ retries' = retries /\ messages' = said
        \/ /\ pc' = "ask" /\ retries + 1 <= cfg.maxRetries /\ retries' = retries + 1
           /\ messages' = Append(said, User("corrective"))
    BY ConfigTypes DEF Malformed, Retried, Return
<1> HIDE DEF parsed
<1> QED
    BY <1>1, <1>2, <1>3, <1>4 DEF Return

LEMMA BoundedStep == Bounded /\ retries \in Nat /\ [Next]_vars => Bounded'
<1> SUFFICES ASSUME Bounded, retries \in Nat, [Next]_vars PROVE Bounded'
    OBVIOUS
<1>1. CASE Exhausted \/ CompletionFails \/ NativeAnswer \/ ReactReply
    BY <1>1 DEF Bounded, Exhausted, CompletionFails, NativeAnswer, ReactReply, Ask,
                HasSteps, Return
<1>2. CASE TakeReply
    BY <1>2, TakeCases DEF Bounded
<1>3. CASE ExecuteCall
    BY <1>3 DEF Bounded, ExecuteCall
<1>4. CASE Ended \/ UNCHANGED vars
    BY <1>4 DEF Ended, vars, Bounded
<1> QED
    BY <1>1, <1>2, <1>3, <1>4 DEF Next

LEMMA RetriesStep == retries \in Nat /\ cfg \in Configs /\ [Next]_vars => retries' \in Nat
<1> SUFFICES ASSUME retries \in Nat, cfg \in Configs, [Next]_vars PROVE retries' \in Nat
    OBVIOUS
<1>1. CASE TakeReply
    BY <1>1, TakeCases
<1>2. CASE Exhausted \/ CompletionFails \/ NativeAnswer \/ ReactReply
    BY <1>2 DEF Exhausted, CompletionFails, NativeAnswer, ReactReply
<1>3. CASE ExecuteCall
    BY <1>3 DEF ExecuteCall
<1>4. CASE Ended \/ UNCHANGED vars
    BY <1>4 DEF Ended, vars
<1> QED
    BY <1>1, <1>2, <1>3, <1>4 DEF Next

RunInv == Bounded /\ retries \in Nat

\* A turn is under way only within the step bound, whatever the model answers.
THEOREM RunInvariant == Spec => []RunInv
<1>1. Init => RunInv
    BY BoundedInit, Initially DEF RunInv
<1>2. RunInv /\ [Next]_vars => RunInv'
    BY BoundedStep, RetriesStep DEF RunInv, Bounded
<1> QED
    BY <1>1, <1>2, PTL DEF Spec

\* The outcome the contract sees.
Outcome ==
  CASE pc = "raised" -> "raised"
    [] pc = "done" -> IF result.truncated THEN "truncated" ELSE "answered"
    [] OTHER -> "running"

LEMMA ReturnKeeps ==
  ASSUME Bounded, pc \in { "ask", "parse", "tools" }, cfg' = cfg, step' = step,
         \/ pc' = "raised" /\ step < cfg.maxSteps
         \/ pc' = "done" /\ (result'.truncated \/ step < cfg.maxSteps)
  PROVE  Contract!Return
<1>1. /\ Outcome = "running" /\ Outcome' \in { "answered", "truncated", "raised" }
      /\ step >= cfg.maxSteps => Outcome' = "truncated"
    BY ConfigTypes DEF Outcome, Bounded
<1> QED
    BY <1>1 DEF Contract!Return, Outcome

\* Both drivers, whatever the model does, take at most max_steps turns and
\* come back once: answered, truncated or by an exception.
THEOREM RunKeepsContract == Spec => KeepsContract
<1>1. Init => Contract!Init
    BY Initially DEF Contract!Init
<1>2. RunInv /\ [Next]_vars => [Contract!Next]_(Contract!cvars)
  <2> SUFFICES ASSUME RunInv, [Next]_vars
               PROVE  Contract!Next \/ UNCHANGED Contract!cvars
      OBVIOUS
  <2>0. Bounded /\ retries \in Nat /\ cfg.maxSteps \in Int /\ step \in Nat
      BY ConfigTypes DEF RunInv, Bounded
  <2>1. CASE Exhausted
    <3>1. Contract!Return
        BY <2>0, <2>1, ReturnKeeps DEF Exhausted, Return, Result
    <3> QED
        BY <3>1 DEF Contract!Next
  <2>2. CASE CompletionFails
    <3>1. Contract!Return
        BY <2>0, <2>2, ReturnKeeps DEF CompletionFails, Ask, HasSteps
    <3> QED
        BY <3>1 DEF Contract!Next
  <2>3. CASE NativeAnswer
    <3>1. /\ pc = "ask" /\ cfg' = cfg /\ step' = step /\ step < cfg.maxSteps
          /\ pc' = "raised" \/ pc' = "done" \/ pc' = "tools"
        BY <2>3 DEF NativeAnswer, Ask, HasSteps, Return
    <3>2. CASE pc' = "tools"
        BY <3>1, <3>2 DEF Contract!cvars
    <3>3. CASE pc' # "tools"
      <4>1. Contract!Return
          BY <2>0, <3>1, <3>3, ReturnKeeps
      <4> QED
          BY <4>1 DEF Contract!Next
    <3> QED
        BY <3>2, <3>3
  <2>4. CASE ReactReply
      BY <2>4 DEF ReactReply, Ask, Contract!cvars
  <2>5. CASE TakeReply
    <3>1. /\ pc = "parse" /\ cfg' = cfg /\ step' = step /\ step < cfg.maxSteps
          /\ pc' \in { "raised", "done", "tools", "ask" }
        BY <2>0, <2>5, TakeCases DEF Bounded
    <3>2. CASE pc' \in { "tools", "ask" }
        BY <3>1, <3>2 DEF Contract!cvars
    <3>3. CASE pc' \in { "raised", "done" }
      <4>1. Contract!Return
          BY <2>0, <3>1, <3>3, ReturnKeeps
      <4> QED
          BY <4>1 DEF Contract!Next
    <3> QED
        BY <3>1, <3>2, <3>3
  <2>6. CASE ExecuteCall
    <3>1. /\ pc = "tools" /\ cfg' = cfg /\ step < cfg.maxSteps
          /\ \/ pc' = "raised" /\ step' = step
             \/ pc' = "tools" /\ step' = step
             \/ pc' = "ask" /\ step' = step + 1
        BY <2>0, <2>6 DEF ExecuteCall, Bounded
    <3>2. CASE pc' = "raised" /\ step' = step
      <4>1. Contract!Return
          BY <2>0, <3>1, <3>2, ReturnKeeps
      <4> QED
          BY <4>1 DEF Contract!Next
    <3>3. CASE pc' = "tools" /\ step' = step
        BY <3>1, <3>3 DEF Contract!cvars
    <3>4. CASE pc' = "ask" /\ step' = step + 1
      <4>1. Contract!Turn
          BY <3>1, <3>4 DEF Contract!Turn
      <4> QED
          BY <4>1 DEF Contract!Next
    <3> QED
        BY <3>1, <3>2, <3>3, <3>4
  <2>7. CASE Ended \/ UNCHANGED vars
      BY <2>7 DEF Ended, vars, Contract!cvars
  <2> QED
      BY <2>1, <2>2, <2>3, <2>4, <2>5, <2>6, <2>7 DEF Next
<1> QED
    BY <1>1, <1>2, RunInvariant, PTL DEF Spec, KeepsContract, Contract!Spec
----------------------------------------------------------------------------
(* Counting over a conversation.                                            *)

\* Appending to a sequence.
LEMMA Appended ==
  ASSUME NEW S, NEW s \in Seq(S), NEW e
  PROVE  /\ Append(s, e) \in Seq(S \cup {e})
         /\ Len(s) \in Nat /\ DOMAIN s = 1..Len(s)
         /\ DOMAIN Append(s, e) = (1..Len(s)) \cup {Len(s) + 1}
         /\ Append(s, e)[Len(s) + 1] = e
         /\ \A i \in 1..Len(s) : Append(s, e)[i] = s[i]
<1>1. s \in Seq(S \cup {e}) /\ e \in S \cup {e}
    OBVIOUS
<1>2. Append(s, e) \in Seq(S \cup {e}) /\ Len(Append(s, e)) = Len(s) + 1
    BY <1>1
<1>3. Len(s) \in Nat /\ DOMAIN s = 1..Len(s)
      /\ DOMAIN Append(s, e) = 1..(Len(s) + 1)
    BY <1>1, <1>2
<1>4. Append(s, e)[Len(s) + 1] = e /\ \A i \in 1..Len(s) : Append(s, e)[i] = s[i]
    BY <1>1, <1>3
<1>5. \A n \in Nat : 1..(n + 1) = (1..n) \cup {n + 1}
    OBVIOUS
<1>6. DOMAIN Append(s, e) = (1..Len(s)) \cup {Len(s) + 1}
    BY <1>3, <1>5
<1> QED
    BY <1>2, <1>3, <1>4, <1>6

\* One more element beyond an interval.
LEMMA OneMore ==
  ASSUME NEW n \in Nat, NEW T \in SUBSET (1..n)
  PROVE  /\ IsFiniteSet(T) /\ Cardinality(T) \in Nat
         /\ Cardinality(T \cup {n + 1}) = Cardinality(T) + 1
<1>0. IsFiniteSet(1..n)
    BY FS_Interval
<1>1. IsFiniteSet(T)
    BY <1>0, FS_Subset
<1>2. n + 1 \notin T
    OBVIOUS
<1> QED
    BY <1>1, <1>2, FS_AddElement, FS_CardinalityType

LEMMA RepliesAppended ==
  ASSUME NEW S, NEW s \in Seq(S), NEW e
  PROVE  /\ Cardinality(Replies(s)) \in Nat
         /\ e.role = "assistant" =>
              Cardinality(Replies(Append(s, e))) = Cardinality(Replies(s)) + 1
         /\ e.role # "assistant" => Replies(Append(s, e)) = Replies(s)
<1> DEFINE n == Len(s)
<1>1. n \in Nat /\ Replies(s) \in SUBSET (1..n)
    BY DEF Replies
<1>2. Replies(Append(s, e)) = Replies(s) \cup (IF e.role = "assistant" THEN {n + 1} ELSE {})
    BY Appended, <1>1 DEF Replies
<1> HIDE DEF n
<1> QED
    BY <1>1, <1>2, OneMore

\* A budget of r replies for each of b steps, of which a are taken.
LEMMA Budget ==
  ASSUME NEW r \in Nat, NEW a \in Nat, NEW b \in Nat
  PROVE  /\ r * a \in Nat /\ r * b \in Nat
         /\ a <= b => r * a <= r * b
         /\ a < b => r * a + r <= r * b
         /\ r * (a + 1) = r * a + r
<1>1. r * a \in Nat /\ r * b \in Nat
    OBVIOUS
<1>2. r * (a + 1) = r * a + r
    OBVIOUS
<1>3. ASSUME a <= b PROVE r * a <= r * b
  <2>1. PICK d \in Nat : b = a + d
    <3>1. b - a \in Nat /\ b = a + (b - a)
        BY <1>3
    <3> QED
        BY <3>1
  <2>2. r * b = r * a + r * d /\ r * d \in Nat
      BY <2>1
  <2> QED
      BY <1>1, <2>2
<1>4. ASSUME a < b PROVE r * a + r <= r * b
  <2>1. PICK d \in Nat : b = a + 1 + d
    <3>1. b - (a + 1) \in Nat /\ b = a + 1 + (b - (a + 1))
        BY <1>4
    <3> QED
        BY <3>1
  <2>2. r * b = r * a + r + r * d /\ r * d \in Nat
      BY <2>1
  <2> QED
      BY <1>1, <2>2
<1> QED
    BY <1>1, <1>2, <1>3, <1>4


LEMMA AnotherReply ==
  ASSUME NEW r \in Nat, NEW a \in Nat, NEW b \in Nat, NEW k \in Nat, NEW n \in Nat,
         a < b, k < r, n <= r * a + k
  PROVE  /\ n + 1 <= r * a + (k + 1)
         /\ n + 1 <= r * (a + 1)
         /\ n + 1 <= r * b
<1>1. r * a \in Nat /\ r * b \in Nat /\ r * a + r <= r * b /\ r * (a + 1) = r * a + r
    BY Budget
<1> QED
    BY <1>1

----------------------------------------------------------------------------
(* What a step adds to the conversation.                                    *)

Conversation == \E S : messages \in Seq(S)

Adds(e) == messages' = Append(messages, e)

LEMMA Grown ==
  ASSUME Conversation
  PROVE  /\ Cardinality(Replies(messages)) \in Nat
         /\ \A e : Adds(e) =>
              /\ Conversation'
              /\ e.role = "assistant" =>
                   Cardinality(Replies(messages')) = Cardinality(Replies(messages)) + 1
              /\ e.role # "assistant" => Replies(messages') = Replies(messages)
<1>1. PICK S : messages \in Seq(S)
    BY DEF Conversation
<1>2. ASSUME NEW e, Adds(e) PROVE Conversation'
  <2>1. messages' \in Seq(S \cup {e})
      BY <1>1, <1>2, Appended DEF Adds
  <2> QED
      BY <2>1 DEF Conversation
<1> QED
    BY <1>1, <1>2, RepliesAppended DEF Adds

\* A malformed reply and its correction are two messages.
LEMMA GrownTwice ==
  ASSUME Conversation, NEW ids, NEW kind,
         messages' = Append(Append(messages, Assistant(ids)), User(kind))
  PROVE  /\ Conversation'
         /\ Cardinality(Replies(messages')) = Cardinality(Replies(messages)) + 1
<1> DEFINE a == Assistant(ids)
           u == User(kind)
<1>1. a.role = "assistant" /\ u.role = "user" /\ u.kind = kind
    BY DEF Assistant, User
<1>2. messages' = Append(Append(messages, a), u)
    OBVIOUS
<1> HIDE DEF a, u
<1>3. PICK S : messages \in Seq(S)
    BY DEF Conversation
<1>4. Append(messages, a) \in Seq(S \cup {a})
    BY <1>3, Appended
<1>5. messages' \in Seq((S \cup {a}) \cup {u})
    BY <1>2, <1>4, Appended
<1>6. Cardinality(Replies(Append(messages, a))) = Cardinality(Replies(messages)) + 1
    BY <1>1, <1>3, RepliesAppended
<1>7. Replies(messages') = Replies(Append(messages, a))
    BY <1>1, <1>2, <1>4, RepliesAppended
<1> QED
    BY <1>5, <1>6, <1>7 DEF Conversation

\* What executing a call does to the conversation.
LEMMA CallCases ==
  ASSUME ExecuteCall, cfg \in Configs
  PROVE  /\ pc = "tools" /\ cfg' = cfg
         /\ \/ /\ pc' = "raised"
               /\ UNCHANGED << step, retries, messages >>
            \/ \E e : /\ Adds(e) /\ e.role # "assistant"
                      /\ \/ pc' = "tools" /\ step' = step /\ retries' = retries
                         \/ pc' = "ask" /\ step' = step + 1 /\ retries' = 0
<1>1. pc = "tools" /\ cfg' = cfg
    BY DEF ExecuteCall
<1>2. PICK seen \in Outcomes(Head(todo)) :
       IF seen = "raise"
       THEN /\ pc' = "raised"
            /\ UNCHANGED << step, retries, messages, todo, proposals >>
       ELSE /\ messages' = Append(messages, Observation(seen))
            /\ proposals' = IF seen = "recorded" THEN proposals + 1 ELSE proposals
            /\ todo' = Tail(todo)
            /\ IF Len(todo) > 1 THEN UNCHANGED << pc, step, retries >>
               ELSE pc' = "ask" /\ step' = step + 1 /\ retries' = 0
    BY DEF ExecuteCall
<1>3. CASE seen = "raise"
    BY <1>1, <1>2, <1>3
<1>4. CASE seen # "raise"
  <2> DEFINE e == Observation(seen)
  <2>1. e.role # "assistant"
      BY DEF Observation, Tool, User
  <2>2. Adds(e)
      BY <1>2, <1>4 DEF Adds
  <2>3. \/ pc' = "tools" /\ step' = step /\ retries' = retries
        \/ pc' = "ask" /\ step' = step + 1 /\ retries' = 0
      BY <1>1, <1>2, <1>4
  <2> HIDE DEF e
  <2> QED
      BY <1>1, <2>1, <2>2, <2>3
<1> QED
    BY <1>3, <1>4

\* What a reply with tool calls, or an ending, does.
LEMMA AnswerCases ==
  ASSUME NativeAnswer
  PROVE  /\ cfg.native /\ pc = "ask" /\ step < cfg.maxSteps
         /\ UNCHANGED << cfg, step, retries, proposals >>
         /\ \/ pc' \in { "raised", "done" } /\ messages' = messages
            \/ pc' = "tools" /\ \E ids : Adds(Assistant(ids))
<1>1. /\ cfg.native /\ pc = "ask" /\ step < cfg.maxSteps
      /\ UNCHANGED << cfg, step, retries, proposals >>
    BY DEF NativeAnswer, Ask, HasSteps
<1>2. PICK r \in NativeReplies :
       IF RaisesDecoding(r.calls)
       THEN /\ pc' = "raised" /\ UNCHANGED << messages, todo, last, result >>
       ELSE IF r.calls = << >>
       THEN /\ Return(Result(r.content, step + 1, "none"))
            /\ UNCHANGED << messages, todo, last >>
       ELSE /\ pc' = "tools"
            /\ messages' = Append(messages, Assistant([ i \in DOMAIN r.calls |-> i ]))
            /\ todo' = Decode(r.calls)
            /\ last' = IF r.content # "" THEN r.content ELSE last
            /\ UNCHANGED result
    BY DEF NativeAnswer
<1>3. \/ pc' \in { "raised", "done" } /\ messages' = messages
      \/ pc' = "tools" /\ Adds(Assistant([ i \in DOMAIN r.calls |-> i ]))
    BY <1>2 DEF Return, Adds
<1> QED
    BY <1>1, <1>3

LEMMA AssistantIsReply == \A ids : Assistant(ids).role = "assistant"
  BY DEF Assistant

LEMMA FirstMessages ==
  ASSUME Init
  PROVE  Conversation /\ Replies(messages) = {}
<1> DEFINE a == System
           b == User("prompt")
<1>1. messages = << a, b >>
    BY Initially
<1>2. a.role = "system" /\ b.role = "user" /\ b.kind = "prompt"
    BY DEF System, User
<1> HIDE DEF a, b
<1>3. << a, b >> \in Seq({a, b}) /\ DOMAIN << a, b >> = {1, 2}
      /\ << a, b >>[1] = a /\ << a, b >>[2] = b
    OBVIOUS
<1> QED
    BY <1>1, <1>2, <1>3 DEF Conversation, Replies

----------------------------------------------------------------------------
(* How often the model is asked.                                            *)

\* The replies so far, against the steps taken and the retries of this one.
BudgetInv ==
  /\ RunInv
  /\ Conversation
  /\ retries < PerStep
  /\ step <= StepBound
  /\ pc = "parse" => ~ cfg.native
  /\ pc = "ask" =>
       /\ Cardinality(Replies(messages)) <= PerStep * step + retries
       /\ retries > 0 => step < StepBound
  /\ pc = "parse" => Cardinality(Replies(messages)) <= PerStep * step + retries
  /\ pc = "tools" => Cardinality(Replies(messages)) <= PerStep * (step + 1)
  /\ AsksWithinBudget

LEMMA BoundTypes ==
  ASSUME cfg \in Configs
  PROVE  /\ StepBound \in Nat /\ PerStep \in Nat /\ PerStep >= 1
         /\ \A k \in Nat : k < cfg.maxSteps => k < StepBound
         /\ \A k \in Nat : ~ cfg.native /\ k + 1 <= cfg.maxRetries => k + 1 < PerStep
  BY ConfigTypes DEF StepBound, PerStep

LEMMA BudgetInit == Init => BudgetInv
<1> SUFFICES ASSUME Init PROVE BudgetInv
    OBVIOUS
<1>1. Cardinality({}) = 0
    BY FS_EmptySet
<1>2. cfg \in Configs /\ pc = "ask" /\ step = 0 /\ retries = 0 /\ RunInv
    BY Initially, BoundedInit DEF RunInv
<1>3. StepBound \in Nat /\ PerStep \in Nat /\ PerStep >= 1
    BY <1>2, BoundTypes
<1>4. PerStep * step + retries = 0 /\ PerStep * StepBound \in Nat
    BY <1>2, <1>3, Budget
<1>5. Cardinality(Replies(messages)) = 0 /\ Conversation
    BY <1>1, FirstMessages
<1> QED
    BY <1>2, <1>3, <1>4, <1>5 DEF BudgetInv, AsksWithinBudget

LEMMA BudgetStep == BudgetInv /\ [Next]_vars => BudgetInv'
<1> SUFFICES ASSUME BudgetInv, [Next]_vars PROVE BudgetInv'
    OBVIOUS
<1> DEFINE n == Cardinality(Replies(messages))
<1>0. /\ RunInv' /\ cfg \in Configs /\ retries \in Nat /\ step \in Nat
      /\ pc \in { "parse", "tools" } => step < cfg.maxSteps
    BY BoundedStep, RetriesStep DEF BudgetInv, RunInv, Bounded
<1>1. /\ StepBound \in Nat /\ PerStep \in Nat /\ PerStep >= 1
      /\ \A k \in Nat : k < cfg.maxSteps => k < StepBound
      /\ \A k \in Nat : ~ cfg.native /\ k + 1 <= cfg.maxRetries => k + 1 < PerStep
    BY <1>0, BoundTypes
<1>2. n \in Nat
    BY Grown DEF BudgetInv
<1>3. cfg' = cfg => StepBound' = StepBound /\ PerStep' = PerStep
    BY DEF StepBound, PerStep
\* The run ends, or nothing is added.
<1>4. ASSUME UNCHANGED << cfg, step, retries, messages >>,
             pc' \in { "done", "raised" } \/ pc' = pc
                 \/ (pc = "ask" /\ pc' = "parse" /\ ~ cfg.native)
      PROVE  BudgetInv'
  <2>1. Conversation' /\ Replies(messages') = Replies(messages)
      BY <1>4 DEF BudgetInv, Conversation
  <2> QED
      BY <1>0, <1>3, <1>4, <2>1 DEF BudgetInv, AsksWithinBudget
\* A reply.
<1>5. ASSUME pc \in { "ask", "parse" }, step < cfg.maxSteps,
             UNCHANGED << cfg, step >>, Conversation',
             Cardinality(Replies(messages')) = n + 1,
             \/ pc' \in { "done", "raised", "tools" } /\ retries' = retries
             \/ /\ pc' = "ask" /\ retries' = retries + 1
                /\ ~ cfg.native /\ retries + 1 <= cfg.maxRetries
      PROVE  BudgetInv'
  <2>1. step < StepBound /\ retries < PerStep /\ n <= PerStep * step + retries
      BY <1>0, <1>1, <1>5 DEF BudgetInv
  <2>2. /\ n + 1 <= PerStep * step + (retries + 1)
        /\ n + 1 <= PerStep * (step + 1)
        /\ n + 1 <= PerStep * StepBound
      BY <1>0, <1>1, <1>2, <2>1, AnotherReply
  <2>3. AsksWithinBudget'
      BY <1>3, <1>5, <2>2 DEF AsksWithinBudget
  <2>4. retries' < PerStep' /\ step' <= StepBound' /\ step' < StepBound'
      BY <1>0, <1>1, <1>3, <1>5, <2>1
  <2>5. /\ pc' = "ask" => Cardinality(Replies(messages')) <= PerStep' * step' + retries'
        /\ pc' = "tools" => Cardinality(Replies(messages')) <= PerStep' * (step' + 1)
      BY <1>3, <1>5, <2>2
  <2> HIDE DEF n
  <2> QED
      BY <1>0, <1>5, <2>3, <2>4, <2>5 DEF BudgetInv
<1>6. CASE NativeAnswer
  <2>1. CASE messages' = messages /\ pc' \in { "raised", "done" }
      BY <1>4, <1>6, <2>1, AnswerCases
  <2>2. ASSUME NEW ids, Adds(Assistant(ids)), pc' = "tools" PROVE BudgetInv'
    <3>1. Conversation' /\ Cardinality(Replies(messages')) = n + 1
        BY <2>2, Grown, AssistantIsReply DEF BudgetInv
    <3> QED
        BY <1>5, <1>6, <2>2, <3>1, AnswerCases
  <2> QED
      BY <1>6, <2>1, <2>2, AnswerCases
<1>7. CASE TakeReply
  <2>1. pc = "parse" /\ ~ cfg.native /\ UNCHANGED << cfg, step >>
      BY <1>0, <1>7, TakeCases DEF BudgetInv
  <2>2. CASE messages' = Append(messages, Assistant(<< >>))
             /\ pc' \in { "done", "raised", "tools" } /\ retries' = retries
    <3>1. Conversation' /\ Cardinality(Replies(messages')) = n + 1
        BY <2>2, Grown, AssistantIsReply DEF BudgetInv, Adds
    <3> QED
        BY <1>0, <1>5, <2>1, <2>2, <3>1
  <2>3. CASE /\ messages' = Append(Append(messages, Assistant(<< >>)), User("corrective"))
             /\ pc' = "ask" /\ retries' = retries + 1 /\ retries + 1 <= cfg.maxRetries
    <3>1. Conversation' /\ Cardinality(Replies(messages')) = n + 1
        BY <2>3, GrownTwice DEF BudgetInv
    <3> QED
        BY <1>0, <1>5, <2>1, <2>3, <3>1
  <2> QED
      BY <1>0, <1>7, <2>2, <2>3, TakeCases
<1>8. CASE ExecuteCall
  <2>1. CASE pc' = "raised" /\ UNCHANGED << cfg, step, retries, messages >>
      BY <1>4, <2>1
  <2>2. ASSUME NEW e, pc = "tools", cfg' = cfg, Adds(e), e.role # "assistant",
               \/ pc' = "tools" /\ step' = step /\ retries' = retries
               \/ pc' = "ask" /\ step' = step + 1 /\ retries' = 0
        PROVE  BudgetInv'
    <3>1. Conversation' /\ Replies(messages') = Replies(messages)
        BY <2>2, Grown DEF BudgetInv
    <3>2. AsksWithinBudget' /\ n <= PerStep * (step + 1) /\ PerStep * (step + 1) \in Nat
        BY <1>0, <1>1, <1>3, <2>2, <3>1, Budget DEF BudgetInv, AsksWithinBudget
    <3>3. step + 1 <= StepBound
        BY <1>0, <1>1, <2>2
    <3>4. CASE pc' = "tools" /\ step' = step /\ retries' = retries
      <4>1. Cardinality(Replies(messages')) <= PerStep' * (step' + 1)
          BY <1>3, <2>2, <3>1, <3>2, <3>4
      <4>2. retries' < PerStep' /\ step' <= StepBound'
          BY <1>3, <2>2, <3>4 DEF BudgetInv
      <4> HIDE DEF n
      <4> QED
          BY <1>0, <3>1, <3>2, <3>4, <4>1, <4>2 DEF BudgetInv
    <3>5. CASE pc' = "ask" /\ step' = step + 1 /\ retries' = 0
      <4>1. Cardinality(Replies(messages')) <= PerStep' * step' + retries'
          BY <1>3, <2>2, <3>1, <3>2, <3>5
      <4>2. retries' < PerStep' /\ step' <= StepBound' /\ ~ (retries' > 0)
          BY <1>1, <1>3, <2>2, <3>3, <3>5
      <4> HIDE DEF n
      <4> QED
          BY <1>0, <3>1, <3>2, <3>5, <4>1, <4>2 DEF BudgetInv
    <3> QED
        BY <2>2, <3>4, <3>5
  <2> QED
      BY <1>0, <1>8, <2>1, <2>2, CallCases
<1>9. CASE Exhausted \/ CompletionFails \/ ReactReply
    BY <1>4, <1>9 DEF Exhausted, CompletionFails, ReactReply, Ask, Return
<1>10. CASE Ended \/ UNCHANGED vars
    BY <1>4, <1>10 DEF Ended, vars
<1> QED
    BY <1>6, <1>7, <1>8, <1>9, <1>10 DEF Next

\* However the model answers, it is asked once per step and once more per
\* retry: max_reasoning_steps and fallback_max_retries together bound a run.
THEOREM AsksAreBudgeted == Spec => []AsksWithinBudget
<1>1. BudgetInv => AsksWithinBudget
    BY DEF BudgetInv
<1> QED
    BY <1>1, BudgetInit, BudgetStep, PTL DEF Spec

----------------------------------------------------------------------------
(* The conversation a chat endpoint is sent leaves no tool call and no      *)
(* textual reply without its answer, whatever the model answers.            *)

\* The ids of a reply of n calls.
Ids(n) == [ i \in 1..n |-> i ]

\* Message k is a reply of n calls, d of which have been observed, in order.
Observed(s, k, n, d) ==
  /\ k \in DOMAIN s /\ s[k].role = "assistant" /\ s[k].ids = Ids(n)
  /\ n \in Nat /\ d \in Nat /\ d <= n
  /\ k + d <= Len(s)
  /\ \A j \in 1..d : s[k + j].role = "tool" /\ s[k + j].id = j

\* ... and the next message, if any, is the next reply.
Settled(s, k) ==
  \E n \in Nat : Observed(s, k, n, n) /\ k + n < Len(s) /\ s[k + n + 1].role = "assistant"

\* ... or there is none yet.
Latest(s, k, n, d) == Observed(s, k, n, d) /\ k + d = Len(s)

AllObserved(s) ==
  \A k \in Replies(s) : Settled(s, k) \/ \E n \in Nat : Latest(s, k, n, n)

\* The calls still to be executed are those of the latest reply that have no
\* observation.
Observing(s, calls) ==
  \E k \in Replies(s), n \in Nat, d \in Nat :
    /\ d < n /\ Latest(s, k, n, d)
    /\ \E S : calls \in Seq(S)
    /\ Len(calls) = n - d
    /\ \A i \in 1..(n - d) : calls[i].id = d + i
    /\ \A h \in Replies(s) \ {k} : Settled(s, h)

\* Each textual reply is followed by a message to the model; the latest one
\* may wait for its observation.
TextAnswered(s) == \A k \in Replies(s) : k < Len(s) /\ s[k + 1].role = "user"
TextWaiting(s)  == \A k \in Replies(s) : k = Len(s) \/ (k < Len(s) /\ s[k + 1].role = "user")

ChatInv ==
  /\ RunInv /\ Conversation
  /\ pc = "parse" => ~ cfg.native
  /\ cfg.native /\ pc = "ask" => AllObserved(messages)
  /\ cfg.native /\ pc = "tools" => Observing(messages, todo)
  /\ ~ cfg.native /\ pc \in { "ask", "parse" } => TextAnswered(messages)
  /\ ~ cfg.native /\ pc = "tools" => TextWaiting(messages) /\ \E call : todo = << call >>

----------------------------------------------------------------------------
(* One message more.                                                        *)

LEMMA NewReplies ==
  ASSUME NEW S, NEW s \in Seq(S), NEW e
  PROVE  /\ Len(s) \in Nat /\ Replies(s) \subseteq 1..Len(s)
         /\ Replies(Append(s, e))
              = Replies(s) \cup (IF e.role = "assistant" THEN {Len(s) + 1} ELSE {})
         /\ DOMAIN s = 1..Len(s) /\ DOMAIN Append(s, e) = 1..(Len(s) + 1)
         /\ Len(Append(s, e)) = Len(s) + 1 /\ Append(s, e)[Len(s) + 1] = e
         /\ \A i \in 1..Len(s) : Append(s, e)[i] = s[i]
  BY Appended DEF Replies

LEMMA ObservedStays ==
  ASSUME NEW S, NEW s \in Seq(S), NEW e, NEW k, NEW n, NEW d, Observed(s, k, n, d)
  PROVE  Observed(Append(s, e), k, n, d)
<1> DEFINE t == Append(s, e)
<1>1. /\ Len(s) \in Nat /\ DOMAIN s = 1..Len(s) /\ DOMAIN t = 1..(Len(s) + 1)
      /\ Len(t) = Len(s) + 1 /\ \A i \in 1..Len(s) : t[i] = s[i]
  BY NewReplies
<1> HIDE DEF t
<1>2. /\ k \in 1..Len(s) /\ s[k].role = "assistant" /\ s[k].ids = Ids(n)
      /\ n \in Nat /\ d \in Nat /\ d <= n /\ k + d <= Len(s)
      /\ \A j \in 1..d : s[k + j].role = "tool" /\ s[k + j].id = j
  BY <1>1 DEF Observed
<1>3. \A j \in 1..d : t[k + j] = s[k + j]
  BY <1>1, <1>2
<1>4. Observed(t, k, n, d)
  BY <1>1, <1>2, <1>3 DEF Observed
<1>5. QED
  BY <1>4 DEF t

LEMMA SettledStays ==
  ASSUME NEW S, NEW s \in Seq(S), NEW e, NEW k, Settled(s, k)
  PROVE  Settled(Append(s, e), k)
<1>1. PICK n \in Nat : Observed(s, k, n, n) /\ k + n < Len(s) /\ s[k + n + 1].role = "assistant"
  BY DEF Settled
<1>2. Observed(Append(s, e), k, n, n)
  BY <1>1, ObservedStays
<1>3. /\ Len(s) \in Nat /\ Len(Append(s, e)) = Len(s) + 1
      /\ DOMAIN s = 1..Len(s) /\ \A i \in 1..Len(s) : Append(s, e)[i] = s[i]
  BY NewReplies
<1>4. k \in 1..Len(s)
  BY <1>1, <1>3 DEF Observed
<1>5. k + n < Len(Append(s, e)) /\ Append(s, e)[k + n + 1] = s[k + n + 1]
  BY <1>1, <1>3, <1>4
<1>6. QED
  BY <1>1, <1>2, <1>5 DEF Settled

\* A new reply settles the latest one.
LEMMA ReplySettles ==
  ASSUME NEW S, NEW s \in Seq(S), NEW e, e.role = "assistant",
         NEW k, NEW n \in Nat, Latest(s, k, n, n)
  PROVE  Settled(Append(s, e), k)
<1>1. Observed(Append(s, e), k, n, n) /\ k + n = Len(s)
  BY ObservedStays DEF Latest
<1>2. Len(s) \in Nat /\ Len(Append(s, e)) = Len(s) + 1 /\ Append(s, e)[Len(s) + 1] = e
  BY NewReplies
<1>3. k + n < Len(Append(s, e)) /\ Append(s, e)[k + n + 1] = e
  BY <1>1, <1>2
<1>4. QED
  BY <1>1, <1>3 DEF Settled

\* A reply of n calls, and the observation of the next of them.
LEMMA ReplyIsLatest ==
  ASSUME NEW S, NEW s \in Seq(S), NEW n \in Nat
  PROVE  LET t == Append(s, Assistant(Ids(n))) IN Latest(t, Len(s) + 1, n, 0)
<1> DEFINE e == Assistant(Ids(n))
           t == Append(s, e)
<1>1. e.role = "assistant" /\ e.ids = Ids(n)
  BY DEF Assistant
<1> HIDE DEF e
<1>2. /\ Len(s) \in Nat /\ DOMAIN t = 1..(Len(s) + 1) /\ Len(t) = Len(s) + 1
      /\ t[Len(s) + 1] = e
  BY NewReplies
<1> HIDE DEF t
<1>3. Latest(t, Len(s) + 1, n, 0)
  BY <1>1, <1>2 DEF Latest, Observed
<1>4. QED
  BY <1>3 DEF t, e

LEMMA ObservationIsNext ==
  ASSUME NEW S, NEW s \in Seq(S), NEW e, NEW k, NEW n, NEW d,
         Latest(s, k, n, d), d < n, e.role = "tool", e.id = d + 1
  PROVE  Latest(Append(s, e), k, n, d + 1)
<1> DEFINE t == Append(s, e)
<1>1. Observed(t, k, n, d)
  BY ObservedStays DEF Latest
<1>2. /\ Len(s) \in Nat /\ Len(t) = Len(s) + 1 /\ t[Len(s) + 1] = e /\ DOMAIN s = 1..Len(s)
      /\ k + d = Len(s) /\ k \in 1..Len(s) /\ n \in Nat /\ d \in Nat
  BY NewReplies DEF Latest, Observed
<1> HIDE DEF t
<1>3. t[k + (d + 1)] = e /\ k + (d + 1) = Len(t)
  BY <1>2
<1>4. \A j \in 1..(d + 1) : t[k + j].role = "tool" /\ t[k + j].id = j
  <2>1. TAKE j \in 1..(d + 1)
  <2>2. j = d + 1 \/ j \in 1..d
    BY <1>2
  <2>3. QED
    BY <1>1, <1>3, <2>2 DEF Observed
<1>5. Latest(t, k, n, d + 1)
  BY <1>1, <1>2, <1>3, <1>4 DEF Latest, Observed
<1>6. QED
  BY <1>5 DEF t

----------------------------------------------------------------------------
(* The steps of a run.                                                      *)

LEMMA ChatInit == Init => ChatInv
<1> SUFFICES ASSUME Init PROVE ChatInv
  OBVIOUS
<1>1. Conversation /\ Replies(messages) = {}
  BY FirstMessages
<1>2. RunInv /\ pc = "ask"
  BY Initially, BoundedInit DEF RunInv
<1>3. QED
  BY <1>1, <1>2 DEF ChatInv, AllObserved, TextAnswered

\* A reply with native calls.
LEMMA NativeCases ==
  ASSUME NativeAnswer
  PROVE  \/ pc' \in { "raised", "done" } /\ messages' = messages
         \/ /\ pc' = "tools"
            /\ \E n \in Nat \ {0} :
                 /\ Adds(Assistant(Ids(n)))
                 /\ \E S : todo' \in Seq(S)
                 /\ Len(todo') = n
                 /\ \A i \in 1..n : todo'[i].id = i
<1>1. PICK r \in NativeReplies :
       IF RaisesDecoding(r.calls)
       THEN /\ pc' = "raised" /\ UNCHANGED << messages, todo, last, result >>
       ELSE IF r.calls = << >>
       THEN /\ Return(Result(r.content, step + 1, "none"))
            /\ UNCHANGED << messages, todo, last >>
       ELSE /\ pc' = "tools"
            /\ messages' = Append(messages, Assistant([ i \in DOMAIN r.calls |-> i ]))
            /\ todo' = Decode(r.calls)
            /\ last' = IF r.content # "" THEN r.content ELSE last
            /\ UNCHANGED result
  BY DEF NativeAnswer
<1>2. CASE RaisesDecoding(r.calls) \/ r.calls = << >>
  BY <1>1, <1>2 DEF Return
<1>3. CASE ~ RaisesDecoding(r.calls) /\ r.calls # << >>
  <2>1. /\ pc' = "tools" /\ todo' = Decode(r.calls)
        /\ messages' = Append(messages, Assistant([ i \in DOMAIN r.calls |-> i ]))
    BY <1>1, <1>3
  <2>2. r.calls \in UNION { [1..n -> ToolCalls] : n \in 0..MaxCalls }
    BY DEF NativeReplies
  <2>3. PICK n \in 0..MaxCalls : r.calls \in [1..n -> ToolCalls]
    BY <2>2
  <2>4. n \in Nat
    BY <2>3, BoundsAssumption
  <2>5. n # 0
    <3>1. SUFFICES ASSUME n = 0 PROVE FALSE
      OBVIOUS
    <3>2. r.calls \in [1..0 -> ToolCalls]
      BY <2>3, <3>1
    <3>3. r.calls = << >>
      BY <3>2
    <3>4. QED
      BY <1>3, <3>3
  <2>6. DOMAIN r.calls = 1..n
    BY <2>3
  <2>7. Adds(Assistant(Ids(n)))
    BY <2>1, <2>6 DEF Adds, Ids
  <2> DEFINE call(i) == [ id |-> i, name |-> r.calls[i].name,
                          args |-> IF r.calls[i].args = "malformed" THEN "empty"
                                   ELSE r.calls[i].args ]
             all == { call(i) : i \in 1..n }
  <2>8. todo' = [ i \in 1..n |-> call(i) ]
    BY <2>1, <2>6 DEF Decode
  <2>9. \A i \in 1..n : call(i) \in all /\ call(i).id = i
    OBVIOUS
  <2> HIDE DEF call, all
  <2>10. todo' \in Seq(all) /\ Len(todo') = n /\ \A i \in 1..n : todo'[i].id = i
    BY <2>4, <2>8, <2>9
  <2>11. \E S : todo' \in Seq(S)
    BY <2>10
  <2>12. QED
    BY <2>1, <2>4, <2>5, <2>7, <2>10, <2>11
<1>4. QED
  BY <1>2, <1>3

\* A textual reply leads to one call at most.
LEMMA OneCall ==
  ASSUME TakeReply, pc' = "tools"
  PROVE  \E call : todo' = << call >>
<1> DEFINE parsed == ParseReact(reply)
           call   == [ id |-> 0, name |-> parsed.name, args |-> parsed.args ]
<1>1. parsed.kind \in { "action", "final", "error", "raise" }
  BY ParseKinds
<1>2. /\ parsed.kind = "raise" => pc' = "raised"
      /\ parsed.kind = "final" => Return(Result("answer", step + 1, "none"))
      /\ parsed.kind = "action" => todo' = << call >>
      /\ parsed.kind = "error" => Malformed(Append(messages, Assistant(<< >>)))
  BY <1>1 DEF TakeReply
<1>3. parsed.kind = "action"
  <2> HIDE DEF parsed, call
  <2>1. parsed.kind # "raise" /\ parsed.kind # "final"
    BY <1>2 DEF Return
  <2>2. parsed.kind # "error"
    BY <1>2 DEF Return, Malformed
  <2>3. QED
    BY <1>1, <2>1, <2>2
<1>4. QED
  BY <1>2, <1>3

\* The observation of a call, and what is left to do.
LEMMA ObservationCases ==
  ASSUME ExecuteCall
  PROVE  /\ pc = "tools" /\ cfg' = cfg
         /\ \/ pc' = "raised"
            \/ \E seen :
                 /\ Adds(Observation(seen)) /\ todo' = Tail(todo)
                 /\ IF Len(todo) > 1 THEN pc' = pc ELSE pc' = "ask"
  BY DEF ExecuteCall, Adds

LEMMA ChatStep == ChatInv /\ [Next]_vars => ChatInv'
<1> SUFFICES ASSUME ChatInv, [Next]_vars PROVE ChatInv'
  OBVIOUS
<1>1. RunInv' /\ cfg \in Configs /\ retries \in Nat
  BY BoundedStep, RetriesStep DEF ChatInv, RunInv, Bounded
<1>2. PICK S : messages \in Seq(S)
  BY DEF ChatInv, Conversation
<1>3. \A e : Adds(e) => Conversation'
  BY Grown DEF ChatInv
\* The run ends, or the conversation stays as it is.
<1>4. ASSUME pc' \in { "done", "raised" }, Conversation'
      PROVE  ChatInv'
  BY <1>1, <1>4 DEF ChatInv
<1>5. ASSUME UNCHANGED << cfg, messages, todo >>,
             pc' = pc \/ (pc = "ask" /\ pc' = "parse" /\ ~ cfg.native)
                 \/ pc' \in { "done", "raised" }
      PROVE  ChatInv'
  BY <1>1, <1>5 DEF ChatInv, Conversation
<1>6. CASE NativeAnswer
  <2>1. cfg.native /\ pc = "ask" /\ cfg' = cfg
    BY <1>6 DEF NativeAnswer, Ask
  <2>2. CASE pc' \in { "raised", "done" } /\ messages' = messages
    BY <1>4, <2>2 DEF ChatInv, Conversation
  <2>3. ASSUME pc' = "tools", NEW n \in Nat \ {0}, Adds(Assistant(Ids(n))),
               \E T : todo' \in Seq(T), Len(todo') = n, \A i \in 1..n : todo'[i].id = i
        PROVE  ChatInv'
    <3> DEFINE e == Assistant(Ids(n))
               k == Len(messages) + 1
    <3>1. e.role = "assistant"
      BY DEF Assistant
    <3>2. messages' = Append(messages, e) /\ Conversation'
      BY <1>3, <2>3 DEF Adds
    <3>3. Latest(messages', k, n, 0)
      BY <1>2, <3>2, ReplyIsLatest
    <3> HIDE DEF e
    <3>4. Replies(messages') = Replies(messages) \cup {k}
      BY <1>2, <3>1, <3>2, NewReplies
    <3>5. \A h \in Replies(messages) : Settled(messages', h)
      <4>1. TAKE h \in Replies(messages)
      <4>2. Settled(messages, h) \/ \E m \in Nat : Latest(messages, h, m, m)
        BY <2>1 DEF ChatInv, AllObserved
      <4>3. CASE Settled(messages, h)
        BY <1>2, <3>2, <4>3, SettledStays
      <4>4. CASE \E m \in Nat : Latest(messages, h, m, m)
        BY <1>2, <3>1, <3>2, <4>4, ReplySettles
      <4>5. QED
        BY <4>2, <4>3, <4>4
    <3>6. \A i \in 1..(n - 0) : todo'[i].id = 0 + i
      BY <2>3
    <3>7. n - 0 = n /\ 0 < n /\ 0 \in Nat
      OBVIOUS
    <3> HIDE DEF k
    <3>8. Observing(messages', todo')
      BY <2>3, <3>3, <3>4, <3>5, <3>6, <3>7 DEF Observing
    <3>9. QED
      BY <1>1, <2>1, <2>3, <3>2, <3>8 DEF ChatInv
  <2>4. QED
    BY <1>6, <2>2, <2>3, NativeCases
<1>7. CASE TakeReply
  <2>1. pc = "parse" /\ cfg' = cfg /\ ~ cfg.native /\ TextAnswered(messages)
    BY <1>1, <1>7, TakeCases DEF ChatInv
  <2> DEFINE a == Assistant(<< >>)
             u == User("corrective")
             said == Append(messages, a)
  <2>2. a.role = "assistant" /\ u.role = "user"
    BY DEF Assistant, User
  <2> HIDE DEF a, u
  <2>3. /\ Len(messages) \in Nat /\ Replies(messages) \subseteq 1..Len(messages)
        /\ Replies(said) = Replies(messages) \cup {Len(messages) + 1}
        /\ Len(said) = Len(messages) + 1
        /\ \A i \in 1..Len(messages) : said[i] = messages[i]
    BY <1>2, <2>2, NewReplies
  <2>4. \A k \in Replies(messages) : k < Len(messages) /\ said[k + 1].role = "user"
    BY <2>1, <2>3 DEF TextAnswered
  <2>5. TextWaiting(said)
    <3> HIDE DEF said
    <3>1. QED
      BY <2>3, <2>4 DEF TextWaiting
  <2>6. CASE messages' = said /\ pc' \in { "raised", "done", "tools" }
    <3>1. Conversation'
      BY <1>3, <2>6 DEF Adds
    <3>2. CASE pc' \in { "raised", "done" }
      BY <1>4, <3>1, <3>2
    <3>3. CASE pc' = "tools"
      <4>1. \E call : todo' = << call >>
        BY <1>7, <3>3, OneCall
      <4>2. TextWaiting(messages')
        BY <2>5, <2>6
      <4>3. QED
        BY <1>1, <2>1, <3>1, <3>3, <4>1, <4>2 DEF ChatInv
    <3>4. QED
      BY <2>6, <3>2, <3>3
  <2>7. CASE messages' = Append(said, u) /\ pc' = "ask"
    <3>1. Conversation'
      BY <2>7, GrownTwice DEF ChatInv, said, a, u
    <3>2. said \in Seq(S \cup {a})
      BY <1>2, Appended
    <3> HIDE DEF said
    <3>3. /\ Len(said) \in Nat /\ Replies(messages') = Replies(said) /\ Len(messages') = Len(said) + 1
          /\ messages'[Len(said) + 1] = u
          /\ \A i \in 1..Len(said) : messages'[i] = said[i]
      <4> DEFINE t == Append(said, u)
      <4>1. u.role # "assistant"
        BY <2>2
      <4>2. Replies(t) = Replies(said)
        BY <3>2, <4>1, RepliesAppended
      <4>3. /\ Len(said) \in Nat /\ Len(t) = Len(said) + 1 /\ t[Len(said) + 1] = u
            /\ \A i \in 1..Len(said) : t[i] = said[i]
        BY <3>2, NewReplies
      <4>4. messages' = t
        BY <2>7
      <4> HIDE DEF t
      <4>5. QED
        BY <4>2, <4>3, <4>4
    <3>4. TextAnswered(messages')
      <4>1. SUFFICES ASSUME NEW k \in Replies(said)
                     PROVE  k < Len(messages') /\ messages'[k + 1].role = "user"
        BY <3>3 DEF TextAnswered
      <4>2. k \in Nat /\ k >= 1 /\ k <= Len(said)
        BY <2>3, <4>1
      <4>3. k = Len(said) \/ (k < Len(said) /\ said[k + 1].role = "user")
        BY <2>5, <4>1 DEF TextWaiting
      <4>4. QED
        BY <2>2, <3>3, <4>2, <4>3
    <3>5. QED
      BY <1>1, <2>1, <2>7, <3>1, <3>4 DEF ChatInv
  <2>8. QED
    BY <1>1, <1>7, <2>6, <2>7, TakeCases DEF said, a, u
<1>8. CASE ExecuteCall
  <2>1. pc = "tools" /\ cfg' = cfg
    BY <1>8, ObservationCases
  <2>2. CASE pc' = "raised"
    <3>1. Conversation'
      BY <1>1, <1>3, <1>8, CallCases DEF ChatInv, Conversation
    <3>2. QED
      BY <1>4, <2>2, <3>1
  <2>3. ASSUME NEW seen, Adds(Observation(seen)), todo' = Tail(todo),
               IF Len(todo) > 1 THEN pc' = pc ELSE pc' = "ask"
        PROVE  ChatInv'
    <3> DEFINE e == Observation(seen)
    <3>1. messages' = Append(messages, e) /\ Conversation'
      BY <1>3, <2>3 DEF Adds
    <3>2. e.role # "assistant"
      BY DEF Observation, Tool, User
    <3>3. Replies(messages') = Replies(messages)
      <4> HIDE DEF e
      <4>1. Replies(Append(messages, e)) = Replies(messages)
        BY <1>2, <3>2, RepliesAppended
      <4>2. QED
        BY <3>1, <4>1
    <3>4. CASE cfg.native
      <4>1. PICK k \in Replies(messages), n \in Nat, d \in Nat :
              /\ d < n /\ Latest(messages, k, n, d)
              /\ \E T : todo \in Seq(T)
              /\ Len(todo) = n - d
              /\ \A i \in 1..(n - d) : todo[i].id = d + i
              /\ \A h \in Replies(messages) \ {k} : Settled(messages, h)
        BY <2>1, <3>4 DEF ChatInv, Observing
      <4>2. PICK T : todo \in Seq(T)
        BY <4>1
      <4>3. todo # << >> /\ Head(todo) = todo[1] /\ Head(todo).id = d + 1
        BY <4>1, <4>2
      <4>4. e.role = "tool" /\ e.id = d + 1
        BY <3>4, <4>3 DEF Observation, Tool
      <4> HIDE DEF e
      <4>5. Latest(messages', k, n, d + 1)
        BY <1>2, <3>1, <4>1, <4>4, ObservationIsNext
      <4>6. \A h \in Replies(messages') \ {k} : Settled(messages', h)
        BY <1>2, <3>1, <3>3, <4>1, SettledStays
      <4>7. CASE Len(todo) > 1
        <5>1. /\ todo' \in Seq(T) /\ Len(todo') = n - (d + 1)
              /\ \A i \in 1..(n - (d + 1)) : todo'[i] = todo[i + 1]
          BY <2>3, <4>1, <4>2, <4>3
        <5>2. \A i \in 1..(n - (d + 1)) : todo'[i].id = (d + 1) + i
          <6>1. TAKE i \in 1..(n - (d + 1))
          <6>2. (i + 1) \in 1..(n - d) /\ d + (i + 1) = (d + 1) + i
            BY <4>1
          <6>3. QED
            BY <4>1, <5>1, <6>2
        <5>3. d + 1 < n /\ (d + 1) \in Nat /\ k \in Replies(messages')
          BY <3>3, <4>1, <4>7
        <5>4. Observing(messages', todo')
          BY <4>5, <4>6, <5>1, <5>2, <5>3 DEF Observing
        <5>5. pc' = "tools"
          BY <2>1, <2>3, <4>7
        <5>6. QED
          BY <1>1, <2>1, <3>1, <3>4, <5>4, <5>5 DEF ChatInv
      <4>8. CASE ~ (Len(todo) > 1)
        <5>1. d + 1 = n
          BY <4>1, <4>8
        <5>2. AllObserved(messages')
          BY <4>1, <4>5, <4>6, <5>1 DEF AllObserved
        <5>3. pc' = "ask"
          BY <2>3, <4>8
        <5>4. QED
          BY <1>1, <2>1, <3>1, <3>4, <5>2, <5>3 DEF ChatInv
      <4>9. QED
        BY <4>7, <4>8
    <3>5. CASE ~ cfg.native
      <4>1. TextWaiting(messages) /\ \E call : todo = << call >>
        BY <2>1, <3>5 DEF ChatInv
      <4>2. Len(todo) = 1
        BY <4>1
      <4>3. pc' = "ask"
        BY <2>3, <4>2
      <4>4. e.role = "user"
        BY <3>5 DEF Observation, User
      <4> HIDE DEF e
      <4>5. /\ Len(messages) \in Nat /\ Replies(messages) \subseteq 1..Len(messages)
            /\ Len(messages') = Len(messages) + 1 /\ messages'[Len(messages) + 1] = e
            /\ \A i \in 1..Len(messages) : messages'[i] = messages[i]
        BY <1>2, <3>1, NewReplies
      <4>6. TextAnswered(messages')
        <5>1. SUFFICES ASSUME NEW k \in Replies(messages)
                       PROVE  k < Len(messages') /\ messages'[k + 1].role = "user"
          BY <3>3 DEF TextAnswered
        <5>2. k \in Nat /\ k >= 1 /\ k <= Len(messages)
          BY <4>5, <5>1
        <5>3. k = Len(messages) \/ (k < Len(messages) /\ messages[k + 1].role = "user")
          BY <4>1, <5>1 DEF TextWaiting
        <5>4. QED
          BY <4>4, <4>5, <5>2, <5>3
      <4>7. QED
        BY <1>1, <2>1, <3>1, <3>5, <4>3, <4>6 DEF ChatInv
    <3>6. QED
      BY <3>4, <3>5
  <2>4. QED
    BY <1>8, <2>2, <2>3, ObservationCases
<1>9. CASE Exhausted \/ CompletionFails \/ ReactReply
  BY <1>5, <1>9 DEF Exhausted, CompletionFails, ReactReply, Ask, Return
<1>10. CASE Ended \/ UNCHANGED vars
  BY <1>5, <1>10 DEF Ended, vars
<1>11. QED
  BY <1>6, <1>7, <1>8, <1>9, <1>10 DEF Next

\* Whenever the model is asked, each of its replies has its observations,
\* whatever calls it made and whichever of them failed.
THEOREM ConversationsAreAnswered == Spec => []ConversationIsAnswered
<1>1. ChatInv => ConversationIsAnswered
  <2> SUFFICES ASSUME ChatInv, pc = "ask", NEW k \in DOMAIN messages,
                      messages[k].role = "assistant"
               PROVE  IF cfg.native
                      THEN LET ids == messages[k].ids IN
                           /\ k + Len(ids) <= Len(messages)
                           /\ \A j \in DOMAIN ids :
                                messages[k + j].role = "tool" /\ messages[k + j].id = ids[j]
                           /\ k + Len(ids) < Len(messages)
                                => messages[k + Len(ids) + 1].role = "assistant"
                      ELSE k < Len(messages) /\ messages[k + 1].role = "user"
    BY DEF ConversationIsAnswered
  <2>1. k \in Replies(messages)
    BY DEF Replies
  <2>2. CASE ~ cfg.native
    BY <2>1, <2>2 DEF ChatInv, TextAnswered
  <2>3. CASE cfg.native
    <3>1. Settled(messages, k) \/ \E n \in Nat : Latest(messages, k, n, n)
      BY <2>1, <2>3 DEF ChatInv, AllObserved
    <3>2. PICK n \in Nat :
            /\ Observed(messages, k, n, n)
            /\ k + n < Len(messages) => messages[k + n + 1].role = "assistant"
      <4>1. CASE Settled(messages, k)
        BY <4>1 DEF Settled
      <4>2. ASSUME NEW n \in Nat, Latest(messages, k, n, n)
            PROVE  /\ Observed(messages, k, n, n)
                   /\ k + n < Len(messages) => messages[k + n + 1].role = "assistant"
        <5>1. PICK S : messages \in Seq(S)
          BY DEF ChatInv, Conversation
        <5>2. Len(messages) \in Nat
          BY <5>1
        <5>3. QED
          BY <4>2, <5>2 DEF Latest
      <4>3. QED
        BY <3>1, <4>1, <4>2
    <3>3. messages[k].ids = Ids(n) /\ k + n <= Len(messages)
          /\ \A j \in 1..n : messages[k + j].role = "tool" /\ messages[k + j].id = j
      BY <3>2 DEF Observed
    <3>4. Len(Ids(n)) = n /\ DOMAIN Ids(n) = 1..n /\ \A j \in 1..n : Ids(n)[j] = j
      BY DEF Ids
    <3>5. QED
      BY <2>3, <3>2, <3>3, <3>4
  <2>4. QED
    BY <2>2, <2>3
<1>2. QED
  BY <1>1, ChatInit, ChatStep, PTL DEF Spec

----------------------------------------------------------------------------
(* The parser on a cut reply.                                               *)

\* What the parser makes of lines once the fences are gone.
LEMMA ParsedAction ==
  ASSUME NEW text, NEW t, t = StripFences(text)
  PROVE  /\ ParseReact(text).kind \in { "action", "final" } /\ ActionLines(t) # {}
              => ParseReact(text).kind = "action"
         /\ ParseReact(text).kind = "action" =>
              /\ LinesOf(t, "final") = {} /\ ActionLines(t) # {} /\ LinesOf(t, "input") # {}
              /\ ParseReact(text).name = FirstArg(t, ActionLines(t))
              /\ ParseReact(text).args = FirstArg(t, LinesOf(t, "input"))
              /\ ParseReact(text).args \in Objects
<1> DEFINE actions == ActionLines(t)
           finals  == LinesOf(t, "final")
           inputs  == LinesOf(t, "input")
           kind    == InputKind(FirstArg(t, inputs))
           Plain(k) == [ kind |-> k, thought |-> FirstThought(t),
                         name |-> "", args |-> "empty" ]
<1>1. ParseReact(text) =
        IF Ambiguous(actions, finals) THEN Plain("error")
        ELSE IF finals # {} THEN
          IF FirstArg(t, finals) # "" \/ Followed(t, Min(finals)) THEN Plain("final") ELSE Plain("error")
        ELSE IF actions = {} \/ inputs = {} THEN Plain("error")
        ELSE IF kind # "action" THEN Plain(kind)
        ELSE [ Plain(kind) EXCEPT !.name = FirstArg(t, actions), !.args = FirstArg(t, inputs) ]
  BY Zenon DEF ParseReact
<1>2. \A k : Plain(k).kind = k
  OBVIOUS
<1>3. kind \in { "action", "raise", "error" } /\ (kind = "action" => FirstArg(t, inputs) \in Objects)
  BY DEF InputKind
<1>4. /\ [ Plain(kind) EXCEPT !.name = FirstArg(t, actions), !.args = FirstArg(t, inputs) ].kind = kind
      /\ [ Plain(kind) EXCEPT !.name = FirstArg(t, actions), !.args = FirstArg(t, inputs) ].name
           = FirstArg(t, actions)
      /\ [ Plain(kind) EXCEPT !.name = FirstArg(t, actions), !.args = FirstArg(t, inputs) ].args
           = FirstArg(t, inputs)
  OBVIOUS
<1> DEFINE called == [ Plain(kind) EXCEPT !.name = FirstArg(t, actions), !.args = FirstArg(t, inputs) ]
<1> HIDE DEF actions, finals, inputs, kind, Plain, called
<1>5. ParseReact(text) =
        IF actions # {} /\ finals # {} THEN Plain("error")
        ELSE IF finals # {} THEN
          IF FirstArg(t, finals) # "" \/ Followed(t, Min(finals)) THEN Plain("final") ELSE Plain("error")
        ELSE IF actions = {} \/ inputs = {} THEN Plain("error")
        ELSE IF kind # "action" THEN Plain(kind) ELSE called
  BY <1>1 DEF Ambiguous, called
<1>6. called.kind = kind /\ called.name = FirstArg(t, actions) /\ called.args = FirstArg(t, inputs)
  BY <1>4 DEF called
<1>7. ASSUME ParseReact(text).kind \in { "action", "final" }, actions # {}
      PROVE  ParseReact(text).kind = "action"
  BY <1>2, <1>3, <1>5, <1>6, <1>7
<1>8. ASSUME ParseReact(text).kind = "action"
      PROVE  finals = {} /\ actions # {} /\ inputs # {} /\ ParseReact(text) = called /\ kind = "action"
  <2>1. finals = {}
    <3>1. Plain("error").kind # "action" /\ Plain("final").kind # "action"
      BY <1>2
    <3>2. finals # {} => ParseReact(text) = Plain("error") \/ ParseReact(text) = Plain("final")
      BY <1>5, Zenon
    <3>3. QED
      BY <1>8, <3>1, <3>2
  <2>2. actions # {} /\ inputs # {}
    BY <1>2, <1>5, <1>8, <2>1
  <2>3. kind = "action"
    BY <1>2, <1>5, <1>8, <2>1, <2>2
  <2>4. QED
    BY <1>5, <2>1, <2>2, <2>3
<1>9. QED
  BY <1>3, <1>6, <1>7, <1>8 DEF actions, finals, inputs

\* The first of a set of places is also the first of those up to a bound.
LEMMA FirstOfPart ==
  ASSUME NEW T, T \subseteq Nat, NEW U, U \subseteq T, U # {}, Min(T) \in U
  PROVE  Min(U) = Min(T)
<1>1. PICK a : a = Min(T)
  OBVIOUS
<1>2. PICK b : b = Min(U)
  OBVIOUS
<1>3. \A y \in T : a =< y
  BY <1>1, LeastIndex
<1>4. b \in U /\ \A y \in U : b =< y
  BY <1>2, LeastIndex
<1>5. a \in Nat /\ b \in Nat /\ a =< b /\ b =< a
  BY <1>1, <1>3, <1>4
<1>6. QED
  BY <1>1, <1>2, <1>5

\* The first lines of a reply call the tool the whole calls, or none.
LEMMA CutsAreSafe ==
  ASSUME NEW S, NEW text \in Seq(S)
  PROVE  CutIsSafe(text)
<1> SUFFICES ASSUME NEW n \in 0..Len(text),
                    ParseReact(SubSeq(text, 1, n)).kind = "action",
                    ParseReact(text).kind \in { "action", "final" }
             PROVE  /\ ParseReact(text).kind = "action"
                    /\ ParseReact(SubSeq(text, 1, n)).name = ParseReact(text).name
                    /\ ParseReact(SubSeq(text, 1, n)).args = ParseReact(text).args
  BY DEF CutIsSafe
<1>1. PICK cut : cut = SubSeq(text, 1, n)
  OBVIOUS
<1>2. PICK t : t = StripFences(text)
  OBVIOUS
<1>3. PICK c : c = StripFences(cut)
  OBVIOUS
<1>4. /\ t \in Seq(S) /\ c \in Seq(S) /\ Len(c) <= Len(t)
      /\ \A k \in 1..Len(c) : c[k] = t[k]
  <2>1. \A i \in 1..n : i \in Unfenced(cut) <=> i \in Unfenced(text)
    <3>1. n \in Nat /\ Len(text) \in Nat /\ n <= Len(text)
      OBVIOUS
    <3>2. DOMAIN cut = 1..n /\ DOMAIN text = 1..Len(text) /\ \A i \in 1..n : cut[i] = text[i]
      BY <1>1, <3>1
    <3>3. QED
      BY <3>1, <3>2 DEF Unfenced
  <2>2. c = Selected(SubSeq(text, 1, n), Unfenced(cut)) /\ t = Selected(text, Unfenced(text))
    BY <1>1, <1>2, <1>3 DEF StripFences
  <2>3. QED
    BY <2>1, <2>2, PrefixSelects
<1>5. PICK m \in Nat, k \in Nat : /\ m = Len(c) /\ DOMAIN c = 1..m
                                  /\ k = Len(t) /\ DOMAIN t = 1..k /\ m <= k
  BY <1>4
<1>6. \A form : LinesOf(c, form) = LinesOf(t, form) \cap 1..m
  BY <1>4, <1>5 DEF LinesOf
<1>7. \A i : Followed(c, i) => Followed(t, i)
  BY <1>4, <1>5 DEF Followed
<1>8. ActionLines(c) \subseteq ActionLines(t)
  BY <1>4, <1>5, <1>6, <1>7 DEF ActionLines
<1>9. ActionLines(t) \subseteq Nat /\ ActionLines(t) \subseteq LinesOf(t, "action")
      /\ LinesOf(t, "input") \subseteq Nat
  <2>1. \A form : LinesOf(t, form) \subseteq Nat
    BY <1>5 DEF LinesOf
  <2>2. ActionLines(t) \subseteq LinesOf(t, "action")
    BY DEF ActionLines
  <2>3. QED
    BY <2>1, <2>2
<1>10. ActionLines(c) # {} /\ LinesOf(c, "input") # {}
       /\ ParseReact(cut).name = FirstArg(c, ActionLines(c))
       /\ ParseReact(cut).args = FirstArg(c, LinesOf(c, "input"))
  BY <1>1, <1>3, ParsedAction
<1>11. ParseReact(text).kind = "action"
       /\ ParseReact(text).name = FirstArg(t, ActionLines(t))
       /\ ParseReact(text).args = FirstArg(t, LinesOf(t, "input"))
  BY <1>2, <1>8, <1>10, ParsedAction
<1>12. PICK a : a = Min(ActionLines(t))
  OBVIOUS
<1>13. a \in ActionLines(t) /\ \A y \in ActionLines(t) : a =< y
  BY <1>8, <1>9, <1>10, <1>12, LeastIndex
<1>14. a \in ActionLines(c) /\ a \in 1..m
  <2>1. PICK b \in ActionLines(c) : TRUE
    BY <1>10
  <2>2. b \in ActionLines(t) /\ b \in LinesOf(c, "action") /\ b \in 1..m /\ c[b].form = "action"
    BY <1>5, <1>8 DEF ActionLines, LinesOf
  <2>3. a \in LinesOf(t, "action") /\ a \in 1..m
    <3>1. a \in LinesOf(t, "action") /\ a =< b
      BY <1>9, <1>13, <2>2
    <3>2. a \in 1..k
      BY <1>5, <3>1 DEF LinesOf
    <3>3. QED
      BY <1>5, <2>2, <3>1, <3>2
  <2>4. a \in LinesOf(c, "action")
    BY <1>6, <2>3
  <2>5. CASE a = b
    BY <1>13, <2>1, <2>3, <2>5
  <2>6. CASE a # b
    <3>1. b > a
      BY <1>13, <2>2, <2>3, <2>6
    <3>2. ~ IsBlank(c[b])
      BY <2>2 DEF IsBlank
    <3>3. Followed(c, a)
      BY <1>5, <2>2, <3>1, <3>2 DEF Followed
    <3>4. QED
      BY <2>3, <2>4, <3>3 DEF ActionLines
  <2>7. QED
    BY <2>5, <2>6
<1>15. Min(ActionLines(c)) = a
  BY <1>8, <1>9, <1>10, <1>12, <1>14, FirstOfPart
<1>16. PICK i : i = Min(LinesOf(t, "input"))
  OBVIOUS
<1>17. LinesOf(c, "input") \subseteq LinesOf(t, "input")
  BY <1>6
<1>18. i \in LinesOf(t, "input") /\ \A y \in LinesOf(t, "input") : i =< y
  BY <1>9, <1>10, <1>16, <1>17, LeastIndex
<1>19. i \in LinesOf(c, "input") /\ i \in 1..m
  <2>1. PICK b \in LinesOf(c, "input") : TRUE
    BY <1>10
  <2>2. b \in 1..m /\ b \in LinesOf(t, "input") /\ i \in 1..k
    BY <1>5, <1>6, <1>18, <2>1 DEF LinesOf
  <2>3. i =< b
    BY <1>18, <2>2
  <2>4. i \in 1..m
    BY <1>5, <2>2, <2>3
  <2>5. QED
    BY <1>6, <1>18, <2>4
<1>20. Min(LinesOf(c, "input")) = i
  BY <1>9, <1>10, <1>16, <1>17, <1>19, FirstOfPart
<1>21. c[a] = t[a] /\ c[i] = t[i]
  BY <1>4, <1>5, <1>14, <1>19
<1>22. QED
  BY <1>1, <1>10, <1>11, <1>12, <1>15, <1>16, <1>20, <1>21 DEF FirstArg

----------------------------------------------------------------------------
(* Types.                                                                   *)

\* The arguments that reach a tool: JSON values.
Passed == Objects \cup { "pairs", "scalar" }

Queue(s) == (\E S : s \in Seq(S)) /\ \A i \in DOMAIN s : s[i].args \in Passed

Typed ==
  /\ proposals \in Nat /\ last \in { "", "text", "thought" } /\ reply \in Seq(Lines)
  /\ Queue(todo) /\ (pc = "tools" => todo # << >>)

\* A nonempty list without its head.
LEMMA Rest ==
  ASSUME NEW s, \E S : s \in Seq(S), s # << >>, NEW r, r = Tail(s)
  PROVE  /\ \E S : r \in Seq(S)
         /\ Len(s) \in Nat /\ (Len(s) > 1 => r # << >>)
         /\ \A i \in DOMAIN r : i + 1 \in DOMAIN s /\ r[i] = s[i + 1]
<1>1. PICK S : s \in Seq(S)
  OBVIOUS
<1>2. r \in Seq(S) /\ Len(r) = Len(s) - 1 /\ Len(s) \in Nat \ {0}
  BY <1>1
<1>3. \A i \in 1..Len(r) : r[i] = s[i + 1]
  BY <1>1
<1>4. QED
  BY <1>1, <1>2, <1>3

\* A thought of a reply is empty or not.
LEMMA ThoughtType ==
  ASSUME NEW text \in Seq(Lines)
  PROVE  ParseReact(text).thought \in { "", "thought" }
<1>1. PICK t : t = StripFences(text)
  OBVIOUS
<1>2. t \in Seq(Lines)
  BY <1>1, Selection DEF StripFences
<1>3. FirstThought(t) \in { "", "thought" }
  <2> SUFFICES ASSUME LinesOf(t, "thought") # {}
               PROVE  FirstArg(t, LinesOf(t, "thought")) \in { "", "thought" }
    BY DEF FirstThought
  <2>1. LinesOf(t, "thought") \subseteq Nat
    BY <1>2 DEF LinesOf
  <2>2. PICK i : i = Min(LinesOf(t, "thought"))
    OBVIOUS
  <2>3. i \in LinesOf(t, "thought")
    BY <2>1, <2>2, LeastIndex
  <2>4. t[i] \in Lines /\ t[i].form = "thought"
    BY <1>2, <2>3 DEF LinesOf
  <2>5. t[i].arg \in { "", "thought" }
    BY <2>4, LinesAssumption
  <2>6. QED
    BY <2>2, <2>5 DEF FirstArg
<1> DEFINE actions == ActionLines(t)
           finals  == LinesOf(t, "final")
           inputs  == LinesOf(t, "input")
           kind    == InputKind(FirstArg(t, inputs))
           Plain(k) == [ kind |-> k, thought |-> FirstThought(t),
                         name |-> "", args |-> "empty" ]
           called == [ Plain(kind) EXCEPT !.name = FirstArg(t, actions), !.args = FirstArg(t, inputs) ]
<1>4. \/ \E k : ParseReact(text) = Plain(k)
      \/ ParseReact(text) = called
  <2>1. ParseReact(text) =
          IF Ambiguous(actions, finals) THEN Plain("error")
          ELSE IF finals # {} THEN
            IF FirstArg(t, finals) # "" \/ Followed(t, Min(finals)) THEN Plain("final") ELSE Plain("error")
          ELSE IF actions = {} \/ inputs = {} THEN Plain("error")
          ELSE IF kind # "action" THEN Plain(kind) ELSE called
    BY <1>1, Zenon DEF ParseReact
  <2> HIDE DEF actions, finals, inputs, kind, Plain, called
  <2>2. QED
    BY <2>1
<1>5. (\A k : Plain(k).thought = FirstThought(t)) /\ called.thought = FirstThought(t)
  OBVIOUS
<1> HIDE DEF Plain, called
<1>6. QED
  BY <1>3, <1>4, <1>5

LEMMA TypedInit == Init => Typed
<1> SUFFICES ASSUME Init PROVE Typed
  OBVIOUS
<1>1. proposals = 0 /\ last = "" /\ reply = << >> /\ todo = << >> /\ pc = "ask"
  BY Zenon DEF Init
<1>2. << >> \in Seq(Lines) /\ DOMAIN << >> = {}
  OBVIOUS
<1>3. QED
  BY <1>1, <1>2 DEF Typed, Queue

\* What the decoder passes on of the calls of a reply.
LEMMA DecodedCalls ==
  ASSUME NEW n \in 0..MaxCalls, NEW calls \in [ 1..n -> ToolCalls ], ~ RaisesDecoding(calls),
         calls # << >>
  PROVE  Queue(Decode(calls)) /\ Decode(calls) # << >>
<1>1. n \in Nat /\ DOMAIN calls = 1..n
  BY BoundsAssumption
<1>2. n # 0
  BY <1>1
<1> DEFINE q == Decode(calls)
           S == { q[i] : i \in 1..n }
<1>3. DOMAIN q = 1..n /\ q = [ i \in 1..n |-> q[i] ]
  BY <1>1 DEF Decode
<1>4. ASSUME NEW i \in 1..n PROVE q[i].args \in Passed
  <2>1. calls[i] \in ToolCalls /\ calls[i].args # "overlong"
    BY <1>1, <1>4 DEF RaisesDecoding
  <2>2. calls[i].args \in JsonTexts
    BY <2>1, ToolCallsAssumption
  <2>3. q[i].args = IF calls[i].args = "malformed" THEN "empty" ELSE calls[i].args
    BY <1>1, <1>4 DEF Decode
  <2>4. QED
    BY <2>1, <2>2, <2>3 DEF JsonTexts, Passed, Objects
<1> HIDE DEF q
<1>5. q \in Seq(S) /\ Len(q) = n
  <2>1. q \in [ 1..n -> S ]
    BY <1>3
  <2> HIDE DEF S
  <2>2. QED
    BY <1>1, <2>1
<1>6. q # << >>
  BY <1>2, <1>5
<1>7. QED
  BY <1>3, <1>4, <1>5, <1>6 DEF q, Queue

LEMMA TypedNext == RunInv /\ Typed /\ [Next]_vars => Typed'
<1> SUFFICES ASSUME RunInv, Typed, [Next]_vars PROVE Typed'
  OBVIOUS
<1>1. CASE Exhausted \/ CompletionFails
  BY <1>1 DEF Typed, Exhausted, CompletionFails, Return
<1>2. CASE NativeAnswer
  <2>1. PICK r \in NativeReplies :
          IF RaisesDecoding(r.calls)
          THEN /\ pc' = "raised" /\ UNCHANGED << messages, todo, last, result >>
          ELSE IF r.calls = << >>
          THEN /\ Return(Result(r.content, step + 1, "none"))
               /\ UNCHANGED << messages, todo, last >>
          ELSE /\ pc' = "tools"
               /\ messages' = Append(messages, Assistant([ i \in DOMAIN r.calls |-> i ]))
               /\ todo' = Decode(r.calls)
               /\ last' = IF r.content # "" THEN r.content ELSE last
               /\ UNCHANGED result
    BY <1>2 DEF NativeAnswer
  <2>2. UNCHANGED << proposals, reply >>
    BY <1>2 DEF NativeAnswer
  <2>3. PICK n \in 0..MaxCalls : r.calls \in [ 1..n -> ToolCalls ] /\ r.content \in { "", "text" }
    BY DEF NativeReplies
  <2>4. CASE RaisesDecoding(r.calls) \/ r.calls = << >>
    <3>1. pc' # "tools" /\ UNCHANGED << todo, last >>
      BY <2>1, <2>4 DEF Return
    <3>2. QED
      BY <2>2, <3>1 DEF Typed
  <2>5. CASE ~ RaisesDecoding(r.calls) /\ r.calls # << >>
    <3>1. PICK calls : calls = r.calls
      OBVIOUS
    <3>2. Queue(Decode(calls)) /\ Decode(calls) # << >>
      BY <2>3, <2>5, <3>1, DecodedCalls
    <3>3. todo' = Decode(calls) /\ last' \in { r.content, last }
      BY <2>1, <2>5, <3>1
    <3>4. Queue(todo)' /\ todo' # << >>
      BY <3>2, <3>3 DEF Queue
    <3>5. QED
      BY <2>2, <2>3, <3>3, <3>4 DEF Typed
  <2>6. QED
    BY <2>4, <2>5
<1>3. CASE ReactReply
  <2>1. reply' \in ReactReplies /\ pc' = "parse" /\ UNCHANGED << proposals, last, todo >>
    BY <1>3 DEF ReactReply
  <2>2. reply' \in Seq(Lines)
    <3>1. PICK n \in 0..MaxLines : reply' \in [ 1..n -> Lines ]
      BY <2>1 DEF ReactReplies
    <3>2. n \in Nat
      BY BoundsAssumption
    <3>3. QED
      BY <3>1, <3>2
  <2>3. Queue(todo)'
    BY <2>1 DEF Typed, Queue
  <2>4. QED
    BY <2>1, <2>2, <2>3 DEF Typed
<1>4. CASE TakeReply
  <2> DEFINE parsed == ParseReact(reply)
             said   == Append(messages, Assistant(<< >>))
  <2>1. parsed.kind \in { "action", "final", "error", "raise" }
    BY ParseKinds
  <2>2. /\ UNCHANGED proposals /\ reply' = << >>
        /\ last' = IF parsed.kind # "raise" /\ parsed.thought # "" THEN parsed.thought ELSE last
    BY <1>4 DEF TakeReply
  <2>3. /\ parsed.kind \in { "raise", "final", "error" } => pc' # "tools" /\ UNCHANGED todo
        /\ parsed.kind = "action" =>
             todo' = << [ id |-> 0, name |-> parsed.name, args |-> parsed.args ] >>
    <3>1. /\ parsed.kind = "raise" => pc' = "raised" /\ UNCHANGED todo
          /\ parsed.kind = "final" => pc' = "done" /\ UNCHANGED todo
          /\ parsed.kind = "action" =>
               todo' = << [ id |-> 0, name |-> parsed.name, args |-> parsed.args ] >>
          /\ parsed.kind = "error" => Malformed(said)
      BY <1>4, <2>1 DEF TakeReply, Return
    <3>2. Malformed(said) => pc' # "tools" /\ UNCHANGED todo
      BY DEF Malformed, Return
    <3>3. QED
      BY <3>1, <3>2
  <2>4. parsed.thought \in { "", "thought" }
    BY ThoughtType DEF Typed
  <2>5. parsed.kind = "action" => parsed.args \in Objects
    BY ParsedAction
  <2> HIDE DEF parsed
  <2>6. last' \in { "", "text", "thought" } /\ reply' \in Seq(Lines) /\ proposals' \in Nat
    <3>1. last \in { "", "text", "thought" } /\ proposals \in Nat
      BY DEF Typed
    <3>2. last' \in { "", "text", "thought" }
      BY <2>2, <2>4, <3>1
    <3>3. << >> \in Seq(Lines)
      OBVIOUS
    <3>4. QED
      BY <2>2, <3>1, <3>2, <3>3
  <2>7. CASE parsed.kind = "action"
    <3>1. PICK call : call = [ id |-> 0, name |-> parsed.name, args |-> parsed.args ]
      OBVIOUS
    <3>2. todo' = << call >> /\ call.args \in Passed
      BY <2>3, <2>5, <2>7, <3>1 DEF Passed
    <3>3. << call >> \in Seq({ call }) /\ DOMAIN << call >> = { 1 } /\ << call >>[1] = call
          /\ << call >> # << >>
      OBVIOUS
    <3>4. Queue(todo)' /\ todo' # << >>
      BY <3>2, <3>3 DEF Queue
    <3>5. QED
      BY <2>6, <3>4 DEF Typed
  <2>8. CASE parsed.kind \in { "raise", "final", "error" }
    <3>1. Queue(todo)' /\ pc' # "tools"
      BY <2>3, <2>8 DEF Typed, Queue
    <3>2. QED
      BY <2>6, <3>1 DEF Typed
  <2>9. QED
    BY <2>1, <2>7, <2>8
<1>5. CASE ExecuteCall
  <2>1. pc = "tools" /\ UNCHANGED << cfg, last, result, reply >>
    BY <1>5 DEF ExecuteCall
  <2>2. PICK seen \in Outcomes(Head(todo)) :
          IF seen = "raise"
          THEN /\ pc' = "raised"
               /\ UNCHANGED << step, retries, messages, todo, proposals >>
          ELSE /\ messages' = Append(messages, Observation(seen))
               /\ proposals' = IF seen = "recorded" THEN proposals + 1 ELSE proposals
               /\ todo' = Tail(todo)
               /\ IF Len(todo) > 1 THEN UNCHANGED << pc, step, retries >>
                  ELSE pc' = "ask" /\ step' = step + 1 /\ retries' = 0
    BY <1>5 DEF ExecuteCall
  <2>3. CASE seen = "raise"
    <3>1. pc' = "raised" /\ UNCHANGED << todo, proposals >>
      BY <2>2, <2>3
    <3>2. QED
      BY <2>1, <3>1 DEF Typed, Queue
  <2>4. CASE seen # "raise"
    <3>1. /\ proposals' = IF seen = "recorded" THEN proposals + 1 ELSE proposals
          /\ todo' = Tail(todo)
          /\ pc' = "tools" => Len(todo) > 1
      BY <2>2, <2>4
    <3>2. PICK q, r : q = todo /\ r = Tail(q)
      OBVIOUS
    <3>3. (\E S : q \in Seq(S)) /\ q # << >> /\ \A i \in DOMAIN q : q[i].args \in Passed
      BY <2>1, <3>2 DEF Typed, Queue
    <3>4. (\E S : r \in Seq(S)) /\ \A i \in DOMAIN r : i + 1 \in DOMAIN q /\ r[i] = q[i + 1]
      BY <3>2, <3>3, Rest
    <3>5. Len(q) > 1 => r # << >>
      BY <3>2, <3>3, Rest
    <3>6. Queue(r)
      BY <3>3, <3>4 DEF Queue
    <3>7. todo' = r /\ Queue(todo)' /\ (pc' = "tools" => todo' # << >>)
      BY <3>1, <3>2, <3>5, <3>6 DEF Queue
    <3>8. proposals' \in Nat
      <4>1. proposals \in Nat
        BY DEF Typed
      <4>2. QED
        BY <3>1, <4>1
    <3>9. QED
      BY <2>1, <3>7, <3>8 DEF Typed
  <2>5. QED
    BY <2>3, <2>4
<1>6. CASE Ended \/ UNCHANGED vars
  BY <1>6 DEF Ended, vars, Typed, Queue
<1>7. QED
  BY <1>1, <1>2, <1>3, <1>4, <1>5, <1>6 DEF Next

\* Every reachable state is well typed; in particular no argument that is no
\* JSON value reaches a tool, from either kind of model (Decode, InputKind).
THEOREM RunTypeCorrectness == Spec => []TypeOK
<1>1. RunInv /\ Typed => TypeOK
  BY DEF RunInv, Bounded, Typed, Queue, Passed, TypeOK
<1>2. QED
  BY <1>1, RunInvariant, TypedInit, TypedNext, PTL DEF Spec

\* A token limit that cuts a reply short never makes the driver run another
\* call than the whole reply asks for (react.py).
THEOREM CutRepliesStaySafe == Spec => []CutRepliesAreSafe
<1>1. Typed => CutRepliesAreSafe
  BY CutsAreSafe DEF Typed, CutRepliesAreSafe
<1>2. QED
  BY <1>1, RunInvariant, TypedInit, TypedNext, PTL DEF Spec
=============================================================================
