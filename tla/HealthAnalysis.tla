--------------------------- MODULE HealthAnalysis ---------------------------
(***************************************************************************)
(* One health analysis: core/agent.py (HealthAnalyzer.analyze), the types  *)
(* of core/types.py, the wiring of app.build_sources and the findings of   *)
(* output/findings.py.  The backends, the knowledge store and the model    *)
(* are environments: each may answer anything its code can return, or      *)
(* fail.  The reasoning run in the middle is one step here; module         *)
(* Reasoning is its inside.                                                *)
(***************************************************************************)
EXTENDS DataSources, FiniteSets

CONSTANTS
  Setups,   \* configurations: [sources, slos]
  Replies,  \* function: source type -> the replies of its backend
  Chunks    \* the results the store may return

\* The configuration is parsed into lists; a source is of a type that
\* app.build_sources knows, and an SLO is healthy on one of two sides.
ASSUME SetupsAssumption ==
  \A s \in Setups :
    /\ s.sources \in Seq(Range(s.sources)) /\ s.slos \in Seq(Range(s.slos))
    /\ \A i \in DOMAIN s.slos : s.slos[i].direction \in { "above", "below" }
    /\ \A i \in DOMAIN s.sources :
         s.sources[i].type \in { "prometheus", "loki", "http_json", "synthetic" }

\* The points of a Prometheus reply are a list; a timestamp that converts is a
\* number, and no value is None.  The demo source invents its data, every point
\* with a time and a value.  The number at an http_json source's path is a value.
ASSUME RepliesAssumption ==
  /\ \A type \in { "prometheus", "synthetic" } : \A reply \in Replies[type] :
       reply.kind = "data" =>
         /\ reply.body \in Seq(Range(reply.body))
         /\ \A i \in DOMAIN reply.body :
              reply.body[i].ts \in Int \cup { BadTime } /\ reply.body[i].value # NoValue
  /\ \A reply \in Replies["synthetic"] :
       /\ reply.kind = "data"
       /\ \A i \in DOMAIN reply.body : Usable(reply.body[i]) /\ reply.body[i].ts # BadTime
  /\ \A reply \in Replies["http_json"], s \in Setups : \A i \in DOMAIN s.sources :
       reply.kind = "data" /\ s.sources[i].type = "http_json" =>
         LET leaf == ExtractValue(reply.body, s.sources[i].path)
         IN  leaf.is = "number" => leaf.value # NoValue

VARIABLES
  setup, question,  \* the configuration; whether the operator asked something
  pc,        \* "snapshot", "reason", "report", "served" or "failed"
  statuses,  \* the SLOStatus list, in order
  asked,     \* history: the reply each status was made from
  chunks,    \* what the store returned
  report,    \* the HealthReport, or None
  findings   \* what the sink is given

vars == << setup, question, pc, statuses, asked, chunks, report, findings >>

None == [ overall |-> "none" ]

\* app.build_sources: sources are indexed by name, and a query by the source
\* that lists it; in both, the last one configured wins.
Named(name)    == { i \in DOMAIN setup.sources : setup.sources[i].name = name }
Listing(query) == { i \in DOMAIN setup.sources : query \in setup.sources[i].queries }
OwnerIndex(query) == Max(Named(setup.sources[Max(Listing(query))].name))

\* _evaluate: healthy at the threshold itself; no comparison holds of NaN.
Evaluate(value, slo) ==
  IF value # NaN /\ (IF slo.direction = "below" THEN value <= slo.threshold
                     ELSE value >= slo.threshold)
    THEN "ok" ELSE "breached"

Unknown(slo, why) ==
  [ slo |-> slo, state |-> "unknown", observed |-> NoValue, detail |-> why ]

\* The status of one SLO from what its source came back with.
StatusOf(slo, result) ==
  LET value == LatestValue(result.samples) IN
  CASE result.raised = "key"   -> Unknown(slo, "not_configured")
    [] result.raised = "error" -> Unknown(slo, "source_error")
    [] OTHER -> IF value = NoValue THEN Unknown(slo, "no_samples")
                ELSE [ slo |-> slo, state |-> Evaluate(value, slo),
                       observed |-> value, detail |-> "none" ]

InState(state) == { i \in DOMAIN statuses : statuses[i].state = state }

\* HealthSnapshot.overall_severity.  Slip: an unknown SLO is not seen.
SeverityOfBreaches == IF InState("breached") # {} THEN "critical" ELSE "ok"

OverallSeverity ==
  IF InState("breached") # {} THEN "critical"
  ELSE IF InState("unknown") # {} THEN "warning" ELSE "ok"

DeterministicSummary ==
  IF InState("breached") # {} THEN "breaches"
  ELSE IF InState("unknown") # {} THEN "unknowns" ELSE "healthy"

\* _retrieval_query is not empty.
NeedsRetrieval == question \/ InState("breached") # {}

\* report_to_findings: the overall finding, then the breaches in order, each
\* with the figures of its status.
BreachFinding(status) ==
  [ id |-> status.slo.name, severity |-> "critical", observed |-> status.observed,
    threshold |-> status.slo.threshold, direction |-> status.slo.direction ]

OverallFinding == [ id |-> "overall", severity |-> report.overall, slos |-> statuses ]

\* Slip: one finding per SLO name.
FindingsByName ==
  LET last(name) == Max({ i \in InState("breached") : statuses[i].slo.name = name })
  IN  << OverallFinding >> \o
      SetToSeq({ BreachFinding(statuses[last(statuses[i].slo.name)]) :
                   i \in InState("breached") })

ReportToFindings ==
  << OverallFinding >> \o
  LET breaches == Selected(statuses, InState("breached"))
  IN  [ k \in DOMAIN breaches |-> BreachFinding(breaches[k]) ]

---------------------------------------------------------------------------
Init ==
  /\ setup \in Setups /\ question \in BOOLEAN
  /\ pc = "snapshot" /\ statuses = << >> /\ asked = << >>
  /\ chunks = << >> /\ report = None /\ findings = << >>

Slo == setup.slos[Len(statuses) + 1]
HasSlo == pc = "snapshot" /\ Len(statuses) < Len(setup.slos)

\* _build_snapshot, one SLO: no source lists the metric ...
EvaluateUnowned ==
  /\ HasSlo /\ Listing(Slo.metric) = {}
  /\ statuses' = Append(statuses, Unknown(Slo, "no_source"))
  /\ asked' = Append(asked, [ kind |-> "none" ])
  /\ UNCHANGED << setup, question, pc, chunks, report, findings >>

\* ... or its owner is asked; an exception counts for this SLO only.
EvaluateOwned ==
  /\ HasSlo /\ Listing(Slo.metric) # {}
  /\ LET source == setup.sources[OwnerIndex(Slo.metric)] IN
     \E reply \in Replies[source.type] :
       /\ statuses' = Append(statuses, StatusOf(Slo, Query(source, Slo.metric, reply)))
       /\ asked' = Append(asked, reply)
  /\ UNCHANGED << setup, question, pc, chunks, report, findings >>

\* The store is asked only for a question or for breaches, and may raise.
Retrieve ==
  /\ pc = "snapshot" /\ Len(statuses) = Len(setup.slos)
  /\ IF NeedsRetrieval
     THEN \/ chunks' \in Chunks /\ pc' = "reason"
          \/ pc' = "failed" /\ UNCHANGED chunks
     ELSE pc' = "reason" /\ UNCHANGED chunks
  /\ UNCHANGED << setup, question, statuses, asked, report, findings >>

\* The driver's run and the report: a blank answer is replaced by the
\* deterministic summary.
Summary(answer) == IF answer = "text" THEN "text" ELSE DeterministicSummary

Reason ==
  /\ pc = "reason"
  /\ \/ \E answer \in { "", "blank", "text" }, truncated \in BOOLEAN :
          /\ report' = [ overall |-> OverallSeverity, summary |-> Summary(answer),
                         citations |-> chunks, truncated |-> truncated ]
          /\ pc' = "report"
     \/ pc' = "failed" /\ UNCHANGED report
  /\ UNCHANGED << setup, question, statuses, asked, chunks, findings >>

Serve ==
  /\ pc = "report" /\ pc' = "served" /\ findings' = ReportToFindings
  /\ UNCHANGED << setup, question, statuses, asked, chunks, report >>

Ended == pc \in { "served", "failed" } /\ UNCHANGED vars

Next == EvaluateUnowned \/ EvaluateOwned \/ Retrieve \/ Reason \/ Serve \/ Ended

Spec == Init /\ [][Next]_vars

---------------------------------------------------------------------------
TypeOK ==
  /\ setup \in Setups /\ question \in BOOLEAN
  /\ pc \in { "snapshot", "reason", "report", "served", "failed" }
  /\ Len(statuses) <= Len(setup.slos) /\ Len(asked) = Len(statuses)
  /\ \A i \in DOMAIN statuses : statuses[i].state \in { "ok", "breached", "unknown" }
  /\ chunks \in Chunks \cup { << >> }
  /\ report = None \/ report.summary \in { "text", "breaches", "unknowns", "healthy" }

\* A value on the healthy side of an SLO's threshold, which NaN never is.
OnSide(slo, value) ==
  /\ value # NaN
  /\ slo.direction = "below" => value <= slo.threshold
  /\ slo.direction = "above" => value >= slo.threshold

\* The first of the newest usable points, if every one of them can be dated.
FirstNewest(body) ==
  IF \E k \in UsableAt(body) : body[k].ts = BadTime THEN {}
  ELSE { n \in UsableAt(body) : \A k \in UsableAt(body) :
           body[k].ts < body[n].ts \/ (body[k].ts = body[n].ts /\ n <= k) }

\* The value a reply measures, for each type of source; logs measure nothing.
Values(source, reply) ==
  CASE reply.kind # "data" -> {}
    [] reply.kind = "data" /\ source.type \in { "prometheus", "synthetic" } ->
         { reply.body[n].value : n \in FirstNewest(reply.body) }
    [] reply.kind = "data" /\ source.type = "http_json" ->
         LET leaf == ExtractValue(reply.body, source.path)
         IN  IF leaf.is = "number" THEN { leaf.value } ELSE {}
    [] OTHER -> {}

\* Who can be asked for SLO i: the source configured last under the name of
\* the last source that lists the metric, if that is one that lists it.
Owners(i) ==
  { s \in DOMAIN setup.sources :
      /\ setup.slos[i].metric \in setup.sources[s].queries
      /\ \A t \in DOMAIN setup.sources :
           /\ setup.sources[t].name = setup.sources[s].name => t <= s
           /\ setup.slos[i].metric \in setup.sources[t].queries => t <= s }

\* What was measured for SLO i: one value or none.
Measured(i) == UNION { Values(setup.sources[s], asked[i]) : s \in Owners(i) }

Breached == { i \in DOMAIN setup.slos :
                \E value \in Measured(i) : ~ OnSide(setup.slos[i], value) }

\* Whatever the other sources do, an SLO's state and observed value are those
\* of the one value its own source's reply measured: the first of the newest
\* samples, or the number at the configured path, green exactly on the healthy
\* side of the threshold.  With nothing measured, and only then (no owner, a
\* failed backend, an empty, unusable or undatable series, a leaf that is no
\* number, logs), the SLO is unknown.
HealthyMeansMeasured ==
  \A i \in DOMAIN statuses :
    IF Measured(i) = {} THEN statuses[i].state = "unknown"
    ELSE \A value \in Measured(i) :
           /\ statuses[i].observed = value
           /\ statuses[i].state =
                IF OnSide(setup.slos[i], value) THEN "ok" ELSE "breached"

\* A green overall means every SLO was measured and healthy: one that could
\* not be evaluated, for whatever reason, is never hidden under it.
GreenMeansAllMeasured ==
  report # None /\ report.overall = "ok" =>
    /\ Len(statuses) = Len(setup.slos)
    /\ \A i \in DOMAIN setup.slos :
         /\ Measured(i) # {}
         /\ \A value \in Measured(i) : OnSide(setup.slos[i], value)

\* Every SLO measured on the wrong side is served once, in the order of the
\* SLOs, as critical, with the value that was measured and the bound it broke,
\* after an overall finding that is critical too, whatever the model answered;
\* SLOs of one name get a finding each, under one id.
EveryBreachIsServed ==
  pc = "served" =>
    /\ findings[1].id = "overall" /\ Len(findings) = 1 + Cardinality(Breached)
    /\ findings[1].severity = "critical" <=> Breached # {}
    /\ \A i \in Breached :
         LET finding == findings[1 + Cardinality({ j \in Breached : j <= i })] IN
         /\ finding.id = setup.slos[i].name /\ finding.severity = "critical"
         /\ finding.threshold = setup.slos[i].threshold
         /\ finding.direction = setup.slos[i].direction
         /\ finding.observed \in Measured(i)

=============================================================================
