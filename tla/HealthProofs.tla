---------------------------- MODULE HealthProofs ----------------------------
(***************************************************************************)
(* Proofs about HealthAnalysis, for every configuration, set of replies    *)
(* and number of SLOs: every status is what the source that owns the       *)
(* metric measured, a green report leaves nothing out, and every breach is *)
(* served with its figures.                                                *)
(***************************************************************************)
EXTENDS HealthAnalysis, SelectionProofs

\* The status of an SLO is what its own source's reply says, if it has one.
Verdict(slo, status, reply) ==
  IF Listing(slo.metric) = {} THEN status = Unknown(slo, "no_source") /\ reply.kind = "none"
  ELSE LET source == setup.sources[OwnerIndex(slo.metric)] IN
       reply \in Replies[source.type] /\ status = StatusOf(slo, Query(source, slo.metric, reply))

Judged == \A i \in DOMAIN statuses : Verdict(setup.slos[i], statuses[i], asked[i])

\* What is served is the report's findings about these statuses.
Reported == pc = "served" => findings = ReportToFindings

\* One status and one reply per SLO, in order.
InStep ==
  /\ \E S : statuses \in Seq(S)
  /\ \E S : asked \in Seq(S)
  /\ Len(asked) = Len(statuses)
  /\ pc # "snapshot" => Len(statuses) = Len(setup.slos)
  /\ pc = "snapshot" => Len(statuses) <= Len(setup.slos)

\* The report was written from the statuses as they are.
Written ==
  /\ pc \in { "report", "served" } => report.overall = OverallSeverity
  /\ report.overall = "ok" => pc \in { "report", "served" }

HealthInv == setup \in Setups /\ Judged /\ InStep /\ Written /\ Reported

\* A sequence over any set with one element more.
LEMMA Lengthened ==
  ASSUME NEW s, NEW e, NEW t, t = Append(s, e), \E S : s \in Seq(S)
  PROVE  /\ \E S : t \in Seq(S)
         /\ Len(s) \in Nat /\ DOMAIN s = 1..Len(s)
         /\ DOMAIN t = 1..(Len(s) + 1) /\ Len(t) = Len(s) + 1
         /\ t[Len(s) + 1] = e
         /\ \A i \in 1..Len(s) : t[i] = s[i]
<1>1. PICK S : s \in Seq(S)
  OBVIOUS
<1> DEFINE larger == S \cup {e}
<1>2. s \in Seq(larger) /\ e \in larger
  BY <1>1
<1> HIDE DEF larger
<1>3. QED
  BY <1>2

LEMMA HealthInit == Init => HealthInv
<1> SUFFICES ASSUME Init PROVE HealthInv
  OBVIOUS
<1>1. /\ setup \in Setups /\ pc = "snapshot" /\ statuses = << >> /\ asked = << >>
      /\ report = None
  BY Zenon DEF Init
<1>2. << >> \in Seq({}) /\ Len(<< >>) = 0 /\ DOMAIN << >> = {}
  OBVIOUS
<1>3. Len(setup.slos) \in Nat
  BY <1>1, SetupsAssumption
<1>4. InStep
  BY <1>1, <1>2, <1>3 DEF InStep
<1>5. Judged /\ Reported
  BY <1>1, <1>2 DEF Judged, Reported
<1>6. Written
  BY <1>1 DEF Written, None
<1>7. QED
  BY <1>1, <1>4, <1>5, <1>6 DEF HealthInv

\* Verdicts are about the configuration only.
LEMMA VerdictsStay ==
  ASSUME setup' = setup, NEW slo, NEW status, NEW reply
  PROVE  Verdict(slo, status, reply)' <=> Verdict(slo, status, reply)
  BY DEF Verdict, Listing, OwnerIndex, Named

\* _build_snapshot adds the status of one SLO.
LEMMA SnapshotSteps ==
  ASSUME HealthInv, HasSlo, NEW status, NEW reply,
         statuses' = Append(statuses, status), asked' = Append(asked, reply),
         UNCHANGED << setup, pc, report >>, Verdict(Slo, status, reply)
  PROVE  HealthInv'
<1>1. /\ \E S : statuses' \in Seq(S)
      /\ Len(statuses) \in Nat /\ DOMAIN statuses = 1..Len(statuses)
      /\ DOMAIN statuses' = 1..(Len(statuses) + 1) /\ Len(statuses') = Len(statuses) + 1
      /\ statuses'[Len(statuses) + 1] = status
      /\ \A i \in 1..Len(statuses) : statuses'[i] = statuses[i]
  <2>1. \E S : statuses \in Seq(S)
    BY DEF HealthInv, InStep
  <2>2. QED
    BY <2>1, Lengthened
<1>2. /\ \E S : asked' \in Seq(S)
      /\ Len(asked) = Len(statuses) /\ Len(asked') = Len(statuses) + 1
      /\ asked'[Len(statuses) + 1] = reply
      /\ \A i \in 1..Len(statuses) : asked'[i] = asked[i]
  <2>1. (\E S : asked \in Seq(S)) /\ Len(asked) = Len(statuses)
    BY DEF HealthInv, InStep
  <2>2. QED
    BY <2>1, Lengthened
<1>3. pc = "snapshot" /\ Len(statuses) < Len(setup.slos) /\ Len(setup.slos) \in Nat
  BY SetupsAssumption DEF HasSlo, HealthInv
<1>4. InStep'
  BY <1>1, <1>2, <1>3 DEF InStep
<1>5. Judged'
  <2>1. SUFFICES ASSUME NEW i \in 1..(Len(statuses) + 1)
                 PROVE  Verdict(setup.slos[i], statuses'[i], asked'[i])
    BY <1>1, VerdictsStay DEF Judged
  <2>2. CASE i = Len(statuses) + 1
    BY <1>1, <1>2, <2>2 DEF Slo
  <2>3. CASE i \in 1..Len(statuses)
    <3>1. Verdict(setup.slos[i], statuses[i], asked[i])
      BY <1>1, <2>3 DEF HealthInv, Judged
    <3>2. QED
      BY <1>1, <1>2, <2>3, <3>1
  <2>4. i = Len(statuses) + 1 \/ i \in 1..Len(statuses)
    BY <1>1
  <2>5. QED
    BY <2>2, <2>3, <2>4
<1>6. Written' /\ Reported'
  BY <1>3 DEF HealthInv, Written, Reported
<1>7. QED
  BY <1>4, <1>5, <1>6 DEF HealthInv

\* After the snapshot the statuses do not change any more.
LEMMA LaterSteps ==
  ASSUME HealthInv, UNCHANGED << setup, statuses, asked >>,
         pc' = pc \/ (Len(statuses) = Len(setup.slos) /\ pc' # "snapshot")
  PROVE  Judged' /\ InStep' /\ \A state : InState(state)' = InState(state)
<1>1. Judged'
  BY VerdictsStay DEF HealthInv, Judged
<1>2. QED
  BY <1>1 DEF HealthInv, InStep, InState

LEMMA HealthNext == HealthInv /\ [Next]_vars => HealthInv'
<1> SUFFICES ASSUME HealthInv, [Next]_vars PROVE HealthInv'
  OBVIOUS
<1>1. CASE EvaluateUnowned
  <2> DEFINE status == Unknown(Slo, "no_source")
             reply == [ kind |-> "none" ]
  <2>1. /\ HasSlo /\ statuses' = Append(statuses, status) /\ asked' = Append(asked, reply)
        /\ UNCHANGED << setup, pc, report >> /\ Listing(Slo.metric) = {}
    BY <1>1 DEF EvaluateUnowned
  <2>2. Verdict(Slo, status, reply)
    BY <2>1 DEF Verdict
  <2> HIDE DEF status, reply
  <2>3. QED
    BY <2>1, <2>2, SnapshotSteps
<1>2. CASE EvaluateOwned
  <2> DEFINE source == setup.sources[OwnerIndex(Slo.metric)]
  <2>1. HasSlo /\ Listing(Slo.metric) # {} /\ UNCHANGED << setup, pc, report >>
    BY <1>2 DEF EvaluateOwned
  <2>2. PICK reply \in Replies[source.type] :
          /\ statuses' = Append(statuses, StatusOf(Slo, Query(source, Slo.metric, reply)))
          /\ asked' = Append(asked, reply)
    BY <1>2, Zenon DEF EvaluateOwned
  <2> DEFINE status == StatusOf(Slo, Query(source, Slo.metric, reply))
  <2>3. Verdict(Slo, status, reply)
    BY <2>1, <2>2 DEF Verdict
  <2> HIDE DEF status
  <2>4. statuses' = Append(statuses, status)
    BY <2>2 DEF status
  <2>5. QED
    BY <2>1, <2>2, <2>3, <2>4, SnapshotSteps
<1>3. CASE Retrieve
  <2>1. /\ pc = "snapshot" /\ Len(statuses) = Len(setup.slos)
        /\ pc' \in { "reason", "failed" }
        /\ UNCHANGED << setup, statuses, asked, report >>
    BY <1>3 DEF Retrieve
  <2>2. Judged' /\ InStep'
    BY <2>1, LaterSteps
  <2>3. Written' /\ Reported'
    BY <2>1 DEF HealthInv, Written, Reported
  <2>4. QED
    BY <2>1, <2>2, <2>3 DEF HealthInv
<1>4. CASE Reason
  <2>1. /\ pc = "reason" /\ UNCHANGED << setup, statuses, asked >>
        /\ \/ pc' = "report" /\ report'.overall = OverallSeverity
           \/ pc' = "failed" /\ report' = report
    <3>1. CASE pc' = "failed" /\ UNCHANGED report
      BY <1>4, <3>1 DEF Reason
    <3>2. CASE \E answer \in { "", "blank", "text" }, truncated \in BOOLEAN :
                 /\ report' = [ overall |-> OverallSeverity, summary |-> Summary(answer),
                                citations |-> chunks, truncated |-> truncated ]
                 /\ pc' = "report"
      <4>1. PICK answer \in { "", "blank", "text" }, truncated \in BOOLEAN :
              /\ report' = [ overall |-> OverallSeverity, summary |-> Summary(answer),
                             citations |-> chunks, truncated |-> truncated ]
              /\ pc' = "report"
        BY <3>2
      <4>2. report'.overall = OverallSeverity /\ pc' = "report"
        BY <4>1
      <4>3. QED
        BY <1>4, <4>2 DEF Reason
    <3>3. QED
      BY <1>4, <3>1, <3>2 DEF Reason
  <2>2. Len(statuses) = Len(setup.slos)
    BY <2>1 DEF HealthInv, InStep
  <2>3. Judged' /\ InStep'
    BY <2>1, <2>2, LaterSteps
  <2>4. OverallSeverity' = OverallSeverity
    BY <2>1, <2>2, LaterSteps DEF OverallSeverity
  <2>5. Written' /\ Reported'
    BY <2>1, <2>4 DEF HealthInv, Written, Reported
  <2>6. QED
    BY <2>1, <2>3, <2>5 DEF HealthInv
<1>5. CASE Serve
  <2>1. /\ pc = "report" /\ pc' = "served" /\ UNCHANGED << setup, statuses, asked, report >>
        /\ findings' = ReportToFindings
    BY <1>5 DEF Serve
  <2>2. Len(statuses) = Len(setup.slos)
    BY <2>1 DEF HealthInv, InStep
  <2>3. Judged' /\ InStep' /\ \A state : InState(state)' = InState(state)
    BY <2>1, <2>2, LaterSteps
  <2>4. ReportToFindings' = ReportToFindings /\ OverallSeverity' = OverallSeverity
    BY <2>1, <2>3 DEF ReportToFindings, OverallFinding, OverallSeverity
  <2>5. Written' /\ Reported'
    BY <2>1, <2>3, <2>4 DEF HealthInv, Written, Reported
  <2>6. QED
    BY <2>1, <2>3, <2>5 DEF HealthInv
<1>6. CASE UNCHANGED vars
  <2>1. UNCHANGED << setup, pc, statuses, asked, report, findings >>
    BY <1>6 DEF vars
  <2>2. pc' = pc /\ UNCHANGED << setup, statuses, asked >>
    BY <2>1
  <2>3. Judged' /\ InStep' /\ \A state : InState(state)' = InState(state)
    BY <2>2, LaterSteps
  <2>4. ReportToFindings' = ReportToFindings /\ OverallSeverity' = OverallSeverity
    BY <2>1, <2>3 DEF ReportToFindings, OverallFinding, OverallSeverity
  <2>5. Written' /\ Reported'
    BY <2>1, <2>3, <2>4 DEF HealthInv, Written, Reported
  <2>6. QED
    BY <2>1, <2>3, <2>5 DEF HealthInv
<1>7. QED
  BY <1>1, <1>2, <1>3, <1>4, <1>5, <1>6 DEF Next, Ended

\* The inductive invariant, for any configuration and replies.
THEOREM HealthInvariant == Spec => []HealthInv
  BY HealthInit, HealthNext, PTL DEF Spec

----------------------------------------------------------------------------
(* What is measured.                                                        *)

\* A nonempty list of numbers has a greatest one.
LEMMA LatestTime ==
  ASSUME NEW n \in Nat, NEW t, \A i \in 1..n : t[i] \in Int, n # 0
  PROVE  \E i \in 1..n : \A j \in 1..n : t[j] <= t[i]
<1> DEFINE P == { m \in Nat : m # 0 /\ m <= n => \E i \in 1..m : \A j \in 1..m : t[j] <= t[i] }
<1>1. 0 \in P
  OBVIOUS
<1>2. ASSUME NEW m \in Nat, m \in P PROVE m + 1 \in P
  <2>1. SUFFICES ASSUME m + 1 <= n
                 PROVE  \E i \in 1..(m + 1) : \A j \in 1..(m + 1) : t[j] <= t[i]
    OBVIOUS
  <2>2. \A j \in 1..(m + 1) : t[j] \in Int /\ (j \in 1..m \/ j = m + 1)
    BY <2>1
  <2>3. CASE m = 0
    <3>1. 1 \in 1..(m + 1) /\ \A j \in 1..(m + 1) : j = 1
      BY <2>3
    <3>2. t[1] \in Int
      BY <2>2, <3>1
    <3>3. t[1] <= t[1]
      BY <3>2
    <3>4. QED
      BY <3>1, <3>3
  <2>4. CASE m # 0
    <3>1. PICK i \in 1..m : \A j \in 1..m : t[j] <= t[i]
      BY <1>2, <2>1, <2>4
    <3>2. i \in 1..(m + 1) /\ m + 1 \in 1..(m + 1) /\ t[i] \in Int /\ t[m + 1] \in Int
      BY <2>2
    <3>3. CASE t[m + 1] <= t[i]
      BY <2>2, <3>1, <3>2, <3>3
    <3>4. CASE ~ (t[m + 1] <= t[i])
      <4>1. \A j \in 1..(m + 1) : t[j] <= t[m + 1]
        <5>1. TAKE j \in 1..(m + 1)
        <5>2. t[j] \in Int /\ (j = m + 1 \/ t[j] <= t[i])
          BY <2>2, <3>1
        <5>3. QED
          BY <3>2, <3>4, <5>2
      <4>2. QED
        BY <3>2, <4>1
    <3>5. QED
      BY <3>3, <3>4
  <2>5. QED
    BY <2>3, <2>4
<1>3. n \in P
  <2> HIDE DEF P
  <2>1. QED
    BY <1>1, <1>2, SetInduction
<1>4. QED
  BY <1>3

\* The samples u are the usable points of a reply in their order: pos says
\* where each of them went.
Kept(u, body, pos) ==
  /\ Len(u) \in Nat /\ DOMAIN u = 1..Len(u) /\ (u = << >> <=> Len(u) = 0)
  /\ \A i \in UsableAt(body) : pos[i] \in 1..Len(u) /\ u[pos[i]] = body[i]
  /\ \A k \in 1..Len(u) : \E i \in UsableAt(body) : pos[i] = k
  /\ \A i, j \in UsableAt(body) : i < j => pos[i] < pos[j]

\* _parse_vector keeps the usable points, in their order.
LEMMA UsablePoints ==
  ASSUME NEW S, NEW body \in Seq(S)
  PROVE  \E pos : Kept(Selected(body, UsableAt(body)), body, pos)
<1>1. PICK U, u : U = UsableAt(body) /\ u = Selected(body, U)
  OBVIOUS
<1>2. Len(body) \in Nat /\ U \subseteq 1..Len(body)
  BY <1>1 DEF UsableAt
<1>3. Wanted(U, Len(body)) = U
  BY <1>2 DEF Wanted
<1>4. /\ u \in Seq(S)
      /\ \A i \in U : Cardinality(Wanted(U, i)) \in 1..Len(u) /\ u[Cardinality(Wanted(U, i))] = body[i]
      /\ \A k \in 1..Len(u) : \E i \in U : Cardinality(Wanted(U, i)) = k
  BY <1>1, <1>3, Selection
<1>5. Len(u) \in Nat /\ DOMAIN u = 1..Len(u) /\ (u = << >> <=> Len(u) = 0)
  BY <1>4
<1>6. \A i, j \in U : i < j => Cardinality(Wanted(U, i)) < Cardinality(Wanted(U, j))
  BY <1>2, WantedGrows
<1>7. PICK pos : pos = [ i \in U |-> Cardinality(Wanted(U, i)) ]
  OBVIOUS
<1>8. \A i \in U : pos[i] = Cardinality(Wanted(U, i))
  BY <1>7
<1>9. Kept(u, body, pos)
  BY <1>1, <1>4, <1>5, <1>6, <1>8 DEF Kept
<1>10. QED
  BY <1>1, <1>9

\* A reply without an unusable point is its own samples.
LEMMA WholeReply ==
  ASSUME NEW S, NEW body \in Seq(S), \A i \in DOMAIN body : Usable(body[i])
  PROVE  \E pos : Kept(body, body, pos)
<1>1. /\ Len(body) \in Nat /\ DOMAIN body = 1..Len(body) /\ (body = << >> <=> Len(body) = 0)
      /\ UsableAt(body) = 1..Len(body)
  BY DEF UsableAt
<1>2. PICK pos : pos = [ i \in 1..Len(body) |-> i ]
  OBVIOUS
<1>3. \A i \in 1..Len(body) : pos[i] = i
  BY <1>2
<1>4. Kept(body, body, pos)
  BY <1>1, <1>3 DEF Kept
<1>5. QED
  BY <1>4

\* The latest value of the samples is that of the first newest usable point.
LEMMA LatestIsFirstNewest ==
  ASSUME NEW body, DOMAIN body \subseteq Nat, NEW u, NEW pos, Kept(u, body, pos),
         UsableAt(body) # {},
         \A i \in UsableAt(body) : body[i].ts \in Int /\ body[i].ts # BadTime
  PROVE  \E n \in UsableAt(body) : FirstNewest(body) = {n} /\ LatestValue(u) = body[n].value
<1>1. PICK n, U : n \in Nat /\ n = Len(u) /\ U = UsableAt(body) /\ U \subseteq Nat
  <2>1. UsableAt(body) \subseteq Nat
    BY DEF UsableAt
  <2>2. Len(u) \in Nat
    BY DEF Kept
  <2>3. QED
    BY <2>1, <2>2
<1>2. /\ DOMAIN u = 1..n /\ n # 0 /\ u # << >>
      /\ \A i \in U : pos[i] \in 1..n /\ u[pos[i]] = body[i] /\ body[i].ts \in Int
      /\ \A k \in 1..n : \E i \in U : pos[i] = k
      /\ \A i, j \in U : i < j => pos[i] < pos[j]
  BY <1>1 DEF Kept
<1> DEFINE N == { i \in 1..n : \A j \in 1..n : u[j].ts <= u[i].ts }
           times == [ i \in 1..n |-> u[i].ts ]
<1>3. N # {}
  <2>1. \A i \in 1..n : times[i] \in Int /\ times[i] = u[i].ts
    BY <1>2
  <2> HIDE DEF times
  <2>2. \E i \in 1..n : \A j \in 1..n : times[j] <= times[i]
    BY <1>1, <1>2, <2>1, LatestTime
  <2>3. QED
    BY <2>1, <2>2
<1>4. Min(N) \in N /\ \A y \in N : Min(N) <= y
  <2>1. N \subseteq Nat
    OBVIOUS
  <2> HIDE DEF N
  <2>2. QED
    BY <1>3, <2>1, LeastIndex
<1>5. LatestValue(u) = u[Min(N)].value
  <2>1. N = { i \in DOMAIN u : \A j \in DOMAIN u : u[j].ts <= u[i].ts }
    BY <1>2
  <2> HIDE DEF N
  <2>2. QED
    BY <1>2, <2>1 DEF LatestValue
<1>6. PICK m : m = Min(N)
  OBVIOUS
<1>7. m \in 1..n /\ (\A j \in 1..n : u[j].ts <= u[m].ts) /\ \A y \in N : m <= y
  BY <1>4, <1>6
<1>8. PICK i \in U : pos[i] = m /\ u[m] = body[i]
  BY <1>2, <1>7
<1>9. ASSUME NEW k \in U
      PROVE  body[k].ts < body[i].ts \/ (body[k].ts = body[i].ts /\ i <= k)
  <2>1. pos[k] \in 1..n /\ u[pos[k]] = body[k] /\ body[k].ts \in Int /\ body[i].ts \in Int
    BY <1>2
  <2>2. body[k].ts <= body[i].ts
    BY <1>7, <1>8, <2>1
  <2>3. CASE body[k].ts = body[i].ts
    <3>1. \A j \in 1..n : u[j].ts <= u[pos[k]].ts
      BY <1>7, <1>8, <2>1, <2>3
    <3>2. pos[k] \in N
      BY <2>1, <3>1
    <3>3. m <= pos[k]
      BY <1>7, <3>2
    <3>4. ~ (k < i)
      BY <1>2, <1>7, <1>8, <2>1, <3>3
    <3>5. i <= k
      BY <1>1, <3>4
    <3>6. QED
      BY <2>3, <3>5
  <2>4. QED
    BY <2>1, <2>2, <2>3
<1>10. ASSUME NEW k \in U, \A j \in U : body[j].ts < body[k].ts \/ (body[j].ts = body[k].ts /\ k <= j)
       PROVE  k = i
  <2>1. body[i].ts < body[k].ts \/ (body[i].ts = body[k].ts /\ k <= i)
    BY <1>10
  <2>2. body[k].ts < body[i].ts \/ (body[k].ts = body[i].ts /\ i <= k)
    BY <1>9
  <2>3. body[k].ts \in Int /\ body[i].ts \in Int /\ k \in Nat /\ i \in Nat
    BY <1>1, <1>2
  <2>4. QED
    BY <2>1, <2>2, <2>3
<1>11. FirstNewest(body) = {i}
  <2>1. ~ \E k \in UsableAt(body) : body[k].ts = BadTime
    BY <1>1, <1>2
  <2>2. FirstNewest(body) = { k \in U : \A j \in U :
          body[j].ts < body[k].ts \/ (body[j].ts = body[k].ts /\ k <= j) }
    BY <1>1, <2>1 DEF FirstNewest
  <2>3. QED
    BY <1>9, <1>10, <2>2
<1>12. QED
  BY <1>1, <1>5, <1>6, <1>8, <1>11

\* A status is that of the one value that was measured, if there is one.
Fits(slo, status, values) ==
  IF values = {} THEN status.state = "unknown"
  ELSE \A value \in values :
         /\ status.observed = value
         /\ status.state = IF OnSide(slo, value) THEN "ok" ELSE "breached"

\* _evaluate, for a value that was read.
LEMMA EvaluationFits ==
  ASSUME NEW slo, slo.direction \in { "above", "below" }, NEW result,
         result.raised = "none", NEW value, value # NoValue,
         value = LatestValue(result.samples),
         NEW status, status = StatusOf(slo, result)
  PROVE  Fits(slo, status, { value })
<1>1. status = [ slo |-> slo, state |-> Evaluate(value, slo),
                 observed |-> value, detail |-> "none" ]
  BY DEF StatusOf
<1>2. Evaluate(value, slo) = IF OnSide(slo, value) THEN "ok" ELSE "breached"
  BY DEF Evaluate, OnSide
<1>3. status.observed = value /\ status.state = Evaluate(value, slo)
  BY <1>1
<1>4. QED
  BY <1>2, <1>3 DEF Fits

\* What becomes of a series, Prometheus' or the demo's.
LEMMA SeriesFits ==
  ASSUME NEW slo, slo.direction \in { "above", "below" },
         NEW S, NEW body \in Seq(S), NEW u, NEW pos, Kept(u, body, pos),
         \A i \in DOMAIN body : body[i].ts \in Int \cup { BadTime } /\ body[i].value # NoValue,
         NEW result,
         result = IF \E n \in UsableAt(body) : body[n].ts = BadTime
                    THEN Raised("error") ELSE Answered(u),
         NEW status, status = StatusOf(slo, result)
  PROVE  Fits(slo, status, { body[n].value : n \in FirstNewest(body) })
<1> DEFINE values == { body[n].value : n \in FirstNewest(body) }
<1>1. UsableAt(body) \subseteq DOMAIN body /\ DOMAIN body \subseteq Nat
  BY DEF UsableAt
<1>2. CASE \E n \in UsableAt(body) : body[n].ts = BadTime
  <2>1. result.raised = "error"
    BY <1>2 DEF Raised
  <2>2. status.state = "unknown"
    BY <2>1 DEF StatusOf, Unknown
  <2>3. FirstNewest(body) = {}
    BY <1>2 DEF FirstNewest
  <2>4. QED
    BY <2>2, <2>3 DEF Fits
<1>3. CASE ~ \E n \in UsableAt(body) : body[n].ts = BadTime
  <2>1. result.raised = "none" /\ result.samples = u
    BY <1>3 DEF Answered
  <2>2. CASE UsableAt(body) = {}
    <3>1. u = << >>
      BY <2>2 DEF Kept
    <3>2. LatestValue(result.samples) = NoValue
      BY <2>1, <3>1 DEF LatestValue
    <3>3. status.state = "unknown"
      BY <2>1, <3>2 DEF StatusOf, Unknown
    <3>4. FirstNewest(body) = {}
      BY <2>2 DEF FirstNewest
    <3>5. QED
      BY <3>3, <3>4 DEF Fits
  <2>3. CASE UsableAt(body) # {}
    <3>1. \A i \in UsableAt(body) : body[i].ts \in Int /\ body[i].ts # BadTime
      BY <1>1, <1>3
    <3>2. PICK n \in UsableAt(body) : FirstNewest(body) = {n} /\ LatestValue(u) = body[n].value
      BY <1>1, <2>3, <3>1, LatestIsFirstNewest
    <3>3. body[n].value # NoValue
      BY <1>1, <3>2
    <3>4. Fits(slo, status, { body[n].value })
      BY <2>1, <3>2, <3>3, EvaluationFits
    <3>5. { body[k].value : k \in FirstNewest(body) } = { body[n].value }
      BY <3>2
    <3>6. QED
      BY <3>4, <3>5
  <2>4. QED
    BY <2>2, <2>3
<1>4. QED
  BY <1>2, <1>3

\* One sample is its own latest.
LEMMA SingleLatest ==
  ASSUME NEW sample, sample.ts \in Int
  PROVE  LatestValue(<< sample >>) = sample.value
<1>1. PICK u : u = << sample >>
  OBVIOUS
<1>2. DOMAIN u = {1} /\ u[1] = sample /\ u # << >>
  BY <1>1
<1>3. { i \in DOMAIN u : \A j \in DOMAIN u : u[j].ts <= u[i].ts } = {1}
  BY <1>2
<1>4. Min({1}) = 1
  <2>1. {1} # {} /\ {1} \subseteq Nat
    OBVIOUS
  <2>2. Min({1}) \in {1}
    BY <2>1, LeastIndex
  <2>3. QED
    BY <2>2
<1>5. LatestValue(u) = u[1].value
  BY <1>2, <1>3, <1>4 DEF LatestValue
<1>6. QED
  BY <1>1, <1>2, <1>5

\* What becomes of the reply of an owner that has the query, by its type.
LEMMA ReplyFits ==
  ASSUME setup \in Setups, NEW s \in DOMAIN setup.sources, NEW source, source = setup.sources[s],
         NEW slo, slo.direction \in { "above", "below" }, slo.metric \in source.queries,
         NEW reply \in Replies[source.type],
         NEW status, status = StatusOf(slo, Query(source, slo.metric, reply))
  PROVE  Fits(slo, status, Values(source, reply))
<1>1. source.type \in { "prometheus", "loki", "http_json", "synthetic" }
  BY SetupsAssumption
<1>2. PICK result : result = Query(source, slo.metric, reply) /\ status = StatusOf(slo, result)
  OBVIOUS
<1>3. ASSUME result.raised = "error" PROVE status.state = "unknown"
  BY <1>2, <1>3 DEF StatusOf, Unknown
<1>4. CASE reply.kind # "data"
  <2>1. source.type # "synthetic"
    BY <1>4, RepliesAssumption
  <2>2. result.raised = "error"
    BY <1>1, <1>2, <1>4, <2>1 DEF Query, Prometheus, Loki, HttpJson, Raised
  <2>3. Values(source, reply) = {}
    BY <1>4 DEF Values
  <2>4. QED
    BY <1>3, <2>2, <2>3 DEF Fits
<1>5. CASE reply.kind = "data" /\ source.type = "prometheus"
  <2>1. PICK body, S : body = reply.body /\ body \in Seq(S) /\ S = Range(reply.body)
    BY <1>5, RepliesAssumption
  <2>2. \A i \in DOMAIN body : body[i].ts \in Int \cup { BadTime } /\ body[i].value # NoValue
    BY <1>5, <2>1, RepliesAssumption
  <2>3. PICK u : u = Selected(body, UsableAt(body))
    OBVIOUS
  <2>4. PICK pos : Kept(u, body, pos)
    BY <2>1, <2>3, UsablePoints
  <2>5. (\E k \in DOMAIN u : u[k].ts = BadTime) <=> \E n \in UsableAt(body) : body[n].ts = BadTime
    <3>1. /\ DOMAIN u = 1..Len(u)
          /\ \A i \in UsableAt(body) : pos[i] \in 1..Len(u) /\ u[pos[i]] = body[i]
          /\ \A k \in 1..Len(u) : \E i \in UsableAt(body) : pos[i] = k
      BY <2>4 DEF Kept
    <3>2. ASSUME NEW k \in DOMAIN u, u[k].ts = BadTime
          PROVE  \E n \in UsableAt(body) : body[n].ts = BadTime
      BY <3>1, <3>2
    <3>3. ASSUME NEW n \in UsableAt(body), body[n].ts = BadTime
          PROVE  \E k \in DOMAIN u : u[k].ts = BadTime
      BY <3>1, <3>3
    <3>4. QED
      BY <3>2, <3>3
  <2>6. result = IF \E n \in UsableAt(body) : body[n].ts = BadTime
                   THEN Raised("error") ELSE Answered(u)
    BY <1>2, <1>5, <2>1, <2>3, <2>5 DEF Query, Prometheus
  <2>7. Values(source, reply) = { body[n].value : n \in FirstNewest(body) }
    BY <1>5, <2>1 DEF Values
  <2>8. Fits(slo, status, { body[n].value : n \in FirstNewest(body) })
    BY <1>2, <2>1, <2>2, <2>4, <2>6, SeriesFits
  <2>9. QED
    BY <2>7, <2>8
<1>6. CASE reply.kind = "data" /\ source.type = "synthetic"
  <2>1. PICK body, S : body = reply.body /\ body \in Seq(S) /\ S = Range(reply.body)
    BY <1>6, RepliesAssumption
  <2>2. \A i \in DOMAIN body : /\ body[i].ts \in Int \cup { BadTime } /\ body[i].value # NoValue
                               /\ Usable(body[i]) /\ body[i].ts # BadTime
    BY <1>6, <2>1, RepliesAssumption
  <2>3. PICK pos : Kept(body, body, pos)
    BY <2>1, <2>2, WholeReply
  <2>4. ~ \E n \in UsableAt(body) : body[n].ts = BadTime
    BY <2>2 DEF UsableAt
  <2>5. result = IF \E n \in UsableAt(body) : body[n].ts = BadTime
                   THEN Raised("error") ELSE Answered(body)
    BY <1>2, <1>6, <2>1, <2>4 DEF Query, Synthetic
  <2>6. Values(source, reply) = { body[n].value : n \in FirstNewest(body) }
    BY <1>6, <2>1 DEF Values
  <2>7. Fits(slo, status, { body[n].value : n \in FirstNewest(body) })
    BY <1>2, <2>1, <2>2, <2>3, <2>5, SeriesFits
  <2>8. QED
    BY <2>6, <2>7
<1>7. CASE reply.kind = "data" /\ source.type = "http_json"
  <2>1. PICK leaf : leaf = ExtractValue(reply.body, source.path)
    OBVIOUS
  <2>2. leaf.is = "number" => leaf.value # NoValue
    BY <1>7, <2>1, RepliesAssumption
  <2>3. CASE leaf.is # "number"
    <3>1. result.raised = "error"
      BY <1>2, <1>7, <2>1, <2>3 DEF Query, HttpJson, Raised
    <3>2. Values(source, reply) = {}
      BY <1>7, <2>1, <2>3 DEF Values
    <3>3. QED
      BY <1>3, <3>1, <3>2 DEF Fits
  <2>4. CASE leaf.is = "number"
    <3>1. PICK sample : sample = [ shape |-> TRUE, ts |-> 0, value |-> leaf.value ]
      OBVIOUS
    <3>2. result = Answered(<< sample >>)
      BY <1>2, <1>7, <2>1, <2>4, <3>1 DEF Query, HttpJson
    <3>3. result.raised = "none" /\ result.samples = << sample >>
      BY <3>2 DEF Answered
    <3>4. LatestValue(<< sample >>) = leaf.value
      BY <3>1, SingleLatest
    <3>5. Values(source, reply) = { leaf.value }
      BY <1>7, <2>1, <2>4 DEF Values
    <3>6. QED
      BY <1>2, <2>2, <2>4, <3>3, <3>4, <3>5, EvaluationFits
  <2>5. QED
    BY <2>3, <2>4
<1>8. CASE reply.kind = "data" /\ source.type = "loki"
  <2>1. result = Answered(<< >>)
    BY <1>2, <1>8 DEF Query, Loki
  <2>2. result.raised = "none" /\ LatestValue(result.samples) = NoValue
    BY <2>1 DEF Answered, LatestValue
  <2>3. status.state = "unknown"
    BY <1>2, <2>2 DEF StatusOf, Unknown
  <2>4. Values(source, reply) = {}
    BY <1>8 DEF Values
  <2>5. QED
    BY <2>3, <2>4 DEF Fits
<1>9. QED
  BY <1>1, <1>4, <1>5, <1>6, <1>7, <1>8

\* Whoever can be asked for an SLO is the source that owns its metric.
LEMMA OwnersOwn ==
  ASSUME setup \in Setups, NEW i, NEW s \in Owners(i)
  PROVE  /\ Listing(setup.slos[i].metric) # {} /\ s = OwnerIndex(setup.slos[i].metric)
         /\ s \in DOMAIN setup.sources /\ setup.slos[i].metric \in setup.sources[s].queries
<1> DEFINE metric == setup.slos[i].metric
<1>1. /\ s \in DOMAIN setup.sources
      /\ metric \in setup.sources[s].queries
      /\ \A t \in DOMAIN setup.sources :
           /\ setup.sources[t].name = setup.sources[s].name => t <= s
           /\ metric \in setup.sources[t].queries => t <= s
  BY DEF Owners
<1>2. Len(setup.sources) \in Nat /\ DOMAIN setup.sources = 1..Len(setup.sources)
  BY SetupsAssumption
<1>3. Max(Listing(metric)) = s
  <2>1. Listing(metric) \subseteq 1..Len(setup.sources) /\ s \in Listing(metric)
    BY <1>1, <1>2 DEF Listing
  <2>2. PICK x : x = Max(Listing(metric))
    OBVIOUS
  <2>3. x \in Listing(metric) /\ \A y \in Listing(metric) : y <= x
    BY <1>2, <2>1, <2>2, GreatestIndex
  <2>4. x <= s /\ s <= x /\ x \in Nat /\ s \in Nat
    BY <1>1, <1>2, <2>1, <2>3 DEF Listing
  <2>5. QED
    BY <2>2, <2>4
<1>4. OwnerIndex(metric) = Max(Named(setup.sources[s].name))
  BY <1>3 DEF OwnerIndex
<1>5. Max(Named(setup.sources[s].name)) = s
  <2>1. PICK T : T = Named(setup.sources[s].name)
    OBVIOUS
  <2>2. T \subseteq 1..Len(setup.sources) /\ s \in T /\ \A t \in T : t <= s
    BY <1>1, <1>2, <2>1 DEF Named
  <2>3. PICK x : x = Max(T)
    OBVIOUS
  <2>4. x \in T /\ \A y \in T : y <= x
    BY <1>2, <2>2, <2>3, GreatestIndex
  <2>5. x <= s /\ s <= x /\ x \in Nat /\ s \in Nat
    BY <1>2, <2>2, <2>4
  <2>6. QED
    BY <2>1, <2>3, <2>5
<1>6. s \in Listing(metric)
  BY <1>1 DEF Listing
<1>7. QED
  BY <1>1, <1>4, <1>5, <1>6

\* The owner of a metric that some source lists, when it has the query too,
\* can be asked: it is the last that lists it and the last of its name.
LEMMA OwnerIsAsked ==
  ASSUME setup \in Setups, NEW i, Listing(setup.slos[i].metric) # {}
  PROVE  LET owner == OwnerIndex(setup.slos[i].metric) IN
         /\ owner \in DOMAIN setup.sources
         /\ setup.slos[i].metric \in setup.sources[owner].queries => owner \in Owners(i)
<1> DEFINE metric == setup.slos[i].metric
           lister == Max(Listing(metric))
           owner == OwnerIndex(metric)
           name == setup.sources[lister].name
<1>1. Len(setup.sources) \in Nat /\ DOMAIN setup.sources = 1..Len(setup.sources)
  BY SetupsAssumption
<1>2. lister \in Listing(metric) /\ \A t \in Listing(metric) : t <= lister
  <2>1. Listing(metric) \subseteq 1..Len(setup.sources)
    BY <1>1 DEF Listing
  <2>2. QED
    BY <1>1, <2>1, GreatestIndex
<1>3. lister \in Named(name)
  BY <1>2 DEF Named, Listing
<1>4. owner = Max(Named(name))
  BY DEF OwnerIndex
<1>5. owner \in Named(name) /\ \A t \in Named(name) : t <= owner
  <2>1. Named(name) \subseteq 1..Len(setup.sources)
    BY <1>1 DEF Named
  <2>2. QED
    BY <1>1, <1>3, <1>4, <2>1, GreatestIndex
<1> HIDE DEF lister, owner
<1>6. owner \in DOMAIN setup.sources /\ setup.sources[owner].name = name
  BY <1>5 DEF Named
<1>7. ASSUME metric \in setup.sources[owner].queries
      PROVE  owner \in Owners(i)
  <2>1. owner \in Listing(metric)
    BY <1>6, <1>7 DEF Listing
  <2>2. owner <= lister /\ lister <= owner /\ owner \in Nat /\ lister \in Nat
    BY <1>1, <1>2, <1>3, <1>5, <1>6, <2>1 DEF Listing
  <2>3. owner = lister
    BY <2>2
  <2>4. \A t \in DOMAIN setup.sources :
          /\ setup.sources[t].name = setup.sources[owner].name => t <= owner
          /\ setup.slos[i].metric \in setup.sources[t].queries => t <= owner
    BY <1>2, <1>5, <1>6, <2>3 DEF Named, Listing
  <2>5. QED
    BY <1>6, <1>7, <2>4 DEF Owners
<1>8. QED
  BY <1>6, <1>7 DEF owner

\* A status with a verdict is what was measured for its SLO.
LEMMA VerdictFits ==
  ASSUME setup \in Setups, NEW i \in DOMAIN setup.slos, NEW status,
         Verdict(setup.slos[i], status, asked[i])
  PROVE  Fits(setup.slos[i], status, Measured(i))
<1>1. PICK slo, reply, metric, owner :
        /\ slo = setup.slos[i] /\ reply = asked[i] /\ metric = slo.metric
        /\ owner = OwnerIndex(metric)
  OBVIOUS
<1>2. slo.direction \in { "above", "below" }
  BY <1>1, SetupsAssumption
<1>3. CASE Owners(i) = {}
  <2>1. Measured(i) = {}
    BY <1>3 DEF Measured
  <2>2. status.state = "unknown"
    <3>1. CASE Listing(metric) = {}
      BY <1>1, <3>1 DEF Verdict, Unknown
    <3>2. CASE Listing(metric) # {}
      <4>1. PICK source : source = setup.sources[owner]
        OBVIOUS
      <4>2. metric \notin source.queries
        BY <1>1, <1>3, <3>2, <4>1, OwnerIsAsked
      <4>3. status = StatusOf(slo, Query(source, metric, reply))
        BY <1>1, <3>2, <4>1 DEF Verdict
      <4>4. Query(source, metric, reply).raised = "key"
        BY <4>2 DEF Query, Raised
      <4>5. QED
        BY <4>3, <4>4 DEF StatusOf, Unknown
    <3>3. QED
      BY <3>1, <3>2
  <2>3. QED
    BY <2>1, <2>2 DEF Fits
<1>4. CASE Owners(i) # {}
  <2>1. Owners(i) = { owner } /\ Listing(metric) # {} /\ owner \in DOMAIN setup.sources
          /\ metric \in setup.sources[owner].queries
    BY <1>1, <1>4, OwnersOwn
  <2>2. PICK source : source = setup.sources[owner]
    OBVIOUS
  <2>3. Measured(i) = Values(source, reply)
    BY <1>1, <2>1, <2>2 DEF Measured
  <2>4. reply \in Replies[source.type] /\ status = StatusOf(slo, Query(source, metric, reply))
    BY <1>1, <2>1, <2>2 DEF Verdict
  <2>5. Fits(slo, status, Values(source, reply))
    BY <1>1, <1>2, <2>1, <2>2, <2>4, ReplyFits
  <2>6. QED
    BY <1>1, <2>3, <2>5
<1>5. QED
  BY <1>3, <1>4

\* The statuses there are belong to SLOs.
LEMMA StatusPlaces ==
  ASSUME HealthInv
  PROVE  /\ DOMAIN statuses = 1..Len(statuses) /\ Len(statuses) \in Nat
         /\ DOMAIN setup.slos = 1..Len(setup.slos) /\ Len(setup.slos) \in Nat
         /\ DOMAIN statuses \subseteq DOMAIN setup.slos
         /\ pc # "snapshot" =>
              Len(statuses) = Len(setup.slos) /\ DOMAIN statuses = DOMAIN setup.slos
<1>1. DOMAIN statuses = 1..Len(statuses) /\ Len(statuses) \in Nat
  <2>1. PICK S : statuses \in Seq(S)
    BY DEF HealthInv, InStep
  <2>2. QED
    BY <2>1
<1>2. DOMAIN setup.slos = 1..Len(setup.slos) /\ Len(setup.slos) \in Nat
  BY SetupsAssumption DEF HealthInv
<1>3. QED
  BY <1>1, <1>2 DEF HealthInv, InStep

LEMMA StatusesFit ==
  ASSUME HealthInv
  PROVE  HealthyMeansMeasured /\ \A i \in DOMAIN statuses :
           Fits(setup.slos[i], statuses[i], Measured(i))
<1>1. ASSUME NEW i \in DOMAIN statuses
      PROVE  Fits(setup.slos[i], statuses[i], Measured(i))
  <2>1. i \in DOMAIN setup.slos
    BY StatusPlaces
  <2>2. setup \in Setups /\ Verdict(setup.slos[i], statuses[i], asked[i])
    BY DEF HealthInv, Judged
  <2>3. QED
    BY <2>1, <2>2, VerdictFits
<1>2. HealthyMeansMeasured
  BY <1>1 DEF HealthyMeansMeasured, Fits
<1>3. QED
  BY <1>1, <1>2

\* A status is what the owner of the SLO's metric measured, whatever type of
\* source that is and whatever the others replied: green or breached by the
\* first of the newest samples or by the number at the path, else unknown.
THEOREM StatusesAreMeasured == Spec => []HealthyMeansMeasured
  BY StatusesFit, HealthInvariant, PTL

\* A green report is never served, nor written, about an SLO that its source
\* did not measure on the healthy side, for any configuration and whatever the
\* backends reply: no unknown, an empty series' included, is under it.
THEOREM GreenIsMeasured == Spec => []GreenMeansAllMeasured
<1>1. ASSUME HealthInv, report.overall = "ok"
      PROVE  /\ Len(statuses) = Len(setup.slos)
             /\ \A i \in DOMAIN setup.slos :
                  /\ Measured(i) # {}
                  /\ \A value \in Measured(i) : OnSide(setup.slos[i], value)
  <2>1. pc \in { "report", "served" } /\ OverallSeverity = "ok"
    BY <1>1 DEF HealthInv, Written
  <2>2. InState("breached") = {} /\ InState("unknown") = {}
    BY <2>1 DEF OverallSeverity
  <2>3. Len(statuses) = Len(setup.slos) /\ DOMAIN statuses = DOMAIN setup.slos
    BY <1>1, <2>1, StatusPlaces
  <2>4. ASSUME NEW i \in DOMAIN setup.slos
        PROVE  /\ Measured(i) # {}
               /\ \A value \in Measured(i) : OnSide(setup.slos[i], value)
    <3>1. Fits(setup.slos[i], statuses[i], Measured(i))
      BY <1>1, <2>3, StatusesFit
    <3>2. statuses[i].state # "breached" /\ statuses[i].state # "unknown"
      BY <2>2, <2>3 DEF InState
    <3>3. QED
      BY <3>1, <3>2 DEF Fits
  <2>5. QED
    BY <2>3, <2>4
<1>2. HealthInv => GreenMeansAllMeasured
  BY <1>1 DEF GreenMeansAllMeasured
<1>3. QED
  BY <1>2, HealthInvariant, PTL

----------------------------------------------------------------------------
(* What is served.                                                          *)

LEMMA Preceded ==
  ASSUME NEW e, NEW n \in Nat, NEW f, f = [ k \in 1..n |-> f[k] ]
  PROVE  /\ (<< e >> \o f)[1] = e /\ Len(<< e >> \o f) = 1 + n
         /\ \A k \in 1..n : (<< e >> \o f)[1 + k] = f[k]
<1> DEFINE S == { f[k] : k \in 1..n } \cup { e }
<1>1. f \in [ 1..n -> S ] /\ e \in S
  OBVIOUS
<1> HIDE DEF S
<1>2. f \in Seq(S) /\ Len(f) = n
  BY <1>1
<1>3. << e >> \in Seq(S) /\ Len(<< e >>) = 1 /\ << e >>[1] = e
  BY <1>1
<1>4. QED
  BY <1>2, <1>3

\* A verdict names the SLO it is about.
LEMMA VerdictNames ==
  ASSUME NEW slo, NEW status, NEW reply, Verdict(slo, status, reply)
  PROVE  status.slo = slo
<1>1. \A why : Unknown(slo, why).slo = slo
  BY DEF Unknown
<1>2. ASSUME NEW result PROVE StatusOf(slo, result).slo = slo
  <2>1. CASE result.raised = "key" \/ result.raised = "error"
    BY <1>1, <2>1 DEF StatusOf
  <2>2. CASE ~ (result.raised = "key" \/ result.raised = "error")
    <3>1. CASE LatestValue(result.samples) = NoValue
      BY <1>1, <2>2, <3>1 DEF StatusOf
    <3>2. CASE LatestValue(result.samples) # NoValue
      BY <2>2, <3>2 DEF StatusOf
    <3>3. QED
      BY <3>1, <3>2
  <2>3. QED
    BY <2>1, <2>2
<1>3. QED
  BY <1>1, <1>2 DEF Verdict

\* What is breached is what was measured on the wrong side, with that value.
LEMMA BreachesAreMeasured ==
  ASSUME HealthInv, pc = "served"
  PROVE  /\ Breached = InState("breached")
         /\ \A i \in Breached :
              statuses[i].slo = setup.slos[i] /\ statuses[i].observed \in Measured(i)
<1>1. DOMAIN statuses = DOMAIN setup.slos
  BY StatusPlaces
<1>2. ASSUME NEW i \in DOMAIN statuses
      PROVE  /\ statuses[i].slo = setup.slos[i]
             /\ Fits(setup.slos[i], statuses[i], Measured(i))
  <2>1. Verdict(setup.slos[i], statuses[i], asked[i])
    BY DEF HealthInv, Judged
  <2>2. QED
    BY <2>1, VerdictNames, StatusesFit
<1>3. ASSUME NEW i \in DOMAIN statuses, NEW value \in Measured(i), ~ OnSide(setup.slos[i], value)
      PROVE  statuses[i].state = "breached" /\ statuses[i].observed \in Measured(i)
  BY <1>2, <1>3 DEF Fits
<1>4. ASSUME NEW i \in DOMAIN statuses, statuses[i].state = "breached"
      PROVE  \E value \in Measured(i) : ~ OnSide(setup.slos[i], value)
  <2>1. Measured(i) # {}
    BY <1>2, <1>4 DEF Fits
  <2>2. PICK value \in Measured(i) : TRUE
    BY <2>1
  <2>3. statuses[i].state = IF OnSide(setup.slos[i], value) THEN "ok" ELSE "breached"
    BY <1>2, <2>1 DEF Fits
  <2>4. QED
    BY <1>4, <2>3
<1>5. Breached = InState("breached")
  BY <1>1, <1>3, <1>4 DEF Breached, InState
<1>6. QED
  BY <1>1, <1>2, <1>3, <1>5 DEF Breached

\* What an operator reads tells of every SLO measured on the wrong side, once
\* and in the order of the SLOs, as critical, with the value that was measured
\* and the bound, whatever the model made of them (report_to_findings).
THEOREM BreachesAreServed == Spec => []EveryBreachIsServed
<1>1. ASSUME HealthInv, pc = "served"
      PROVE  /\ findings[1].id = "overall" /\ Len(findings) = 1 + Cardinality(Breached)
             /\ findings[1].severity = "critical" <=> Breached # {}
             /\ \A i \in Breached :
                  findings[1 + Cardinality({ j \in Breached : j <= i })]
                    = BreachFinding(statuses[i])
  <2> DEFINE T == InState("breached")
             F == [ k \in DOMAIN Selected(statuses, T) |->
                      BreachFinding(Selected(statuses, T)[k]) ]
  <2>1. findings = << OverallFinding >> \o F
    BY <1>1, Zenon DEF HealthInv, Reported, ReportToFindings
  <2>2. PICK n \in Nat : n = Len(setup.slos) /\ n = Len(statuses) /\ DOMAIN statuses = 1..n
    <3>1. Len(setup.slos) \in Nat /\ Len(statuses) = Len(setup.slos)
      BY <1>1, SetupsAssumption DEF HealthInv, InStep
    <3>2. DOMAIN statuses = 1..Len(statuses)
      <4>1. PICK S : statuses \in Seq(S)
        BY <1>1 DEF HealthInv, InStep
      <4>2. QED
        BY <4>1
    <3>3. QED
      BY <3>1, <3>2
  <2>3. T = Wanted(T, n) /\ \A i \in T : i \in Nat /\ { j \in T : j <= i } = Wanted(T, i)
    <3>1. T \subseteq 1..n
      BY <2>2 DEF InState
    <3> HIDE DEF T
    <3>2. T = Wanted(T, n)
      BY <3>1 DEF Wanted
    <3>3. ASSUME NEW i \in T PROVE i \in Nat /\ { j \in T : j <= i } = Wanted(T, i)
      <4>1. i \in 1..n /\ \A j \in T : j \in 1..n
        BY <3>1
      <4>2. \A j \in T : j <= i <=> j \in 1..i
        BY <4>1
      <4>3. \A j : j \in { k \in T : k <= i } <=> j \in Wanted(T, i)
        BY <4>2 DEF Wanted
      <4>4. QED
        BY <4>1, <4>3
    <3>4. QED
      BY <3>2, <3>3
  <2>4. PICK s, S : s = statuses /\ s \in Seq(S)
    BY <1>1 DEF HealthInv, InStep
  <2>5. Len(s) = n /\ Wanted(T, Len(s)) = T
    <3> HIDE DEF T
    <3>1. QED
      BY <2>2, <2>3, <2>4
  <2>6. PICK U : U = T
    OBVIOUS
  <2>7. PICK b : b = Selected(s, U)
    OBVIOUS
  <2>8. /\ b \in Seq(S) /\ Len(b) = Cardinality(U)
        /\ \A i \in U : /\ Cardinality(Wanted(U, i)) \in 1..Len(b)
                        /\ b[Cardinality(Wanted(U, i))] = s[i]
    BY <2>4, <2>5, <2>6, <2>7, Selection
  <2>9. PICK c \in Nat : c = Cardinality(U) /\ c = Len(b) /\ DOMAIN b = 1..c
    BY <2>8
  <2>10. F = [ k \in 1..c |-> BreachFinding(b[k]) ]
    BY <2>4, <2>6, <2>7, <2>9
  <2>11. F = [ k \in 1..c |-> F[k] ] /\ \A k \in 1..c : F[k] = BreachFinding(b[k])
    BY <2>10
  <2> HIDE DEF F
  <2>12. /\ findings[1] = OverallFinding /\ Len(findings) = 1 + c
         /\ \A k \in 1..c : findings[1 + k] = F[k]
    BY <2>1, <2>11, Preceded
  <2>13. ASSUME NEW i \in U
         PROVE  findings[1 + Cardinality({ j \in U : j <= i })] = BreachFinding(s[i])
    <3>1. PICK k : k = Cardinality(Wanted(U, i)) /\ k \in 1..c /\ b[k] = s[i]
      BY <2>8, <2>9
    <3>2. k = Cardinality({ j \in U : j <= i })
      BY <2>3, <2>6, <3>1
    <3>3. findings[1 + k] = BreachFinding(s[i])
      BY <2>11, <2>12, <3>1
    <3>4. QED
      BY <3>2, <3>3
  <2>14. U = Breached
    BY <1>1, <2>6, BreachesAreMeasured
  <2>15. findings[1].id = "overall" /\ findings[1].severity = report.overall
    BY <2>12 DEF OverallFinding
  <2>16. report.overall = "critical" <=> U # {}
    <3>1. report.overall = OverallSeverity
      BY <1>1 DEF HealthInv, Written
    <3>2. QED
      BY <2>6, <3>1 DEF OverallSeverity
  <2>17. QED
    BY <2>4, <2>9, <2>12, <2>13, <2>14, <2>15, <2>16
<1>2. ASSUME HealthInv, pc = "served", NEW i \in Breached, NEW finding,
             finding = BreachFinding(statuses[i])
      PROVE  /\ finding.id = setup.slos[i].name /\ finding.severity = "critical"
             /\ finding.threshold = setup.slos[i].threshold
             /\ finding.direction = setup.slos[i].direction
             /\ finding.observed \in Measured(i)
  <2>1. statuses[i].slo = setup.slos[i] /\ statuses[i].observed \in Measured(i)
    BY <1>2, BreachesAreMeasured
  <2>2. QED
    BY <1>2, <2>1 DEF BreachFinding
<1>3. HealthInv => EveryBreachIsServed
  BY <1>1, <1>2 DEF EveryBreachIsServed
<1>4. QED
  BY <1>3, HealthInvariant, PTL
=============================================================================
