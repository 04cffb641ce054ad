---------------------------- MODULE DataSources ----------------------------
(***************************************************************************)
(* What a data source makes of its backend's reply: sources/prometheus.py, *)
(* loki.py, http_json.py and demo/synthetic.py, up to the latest value the *)
(* analyzer reads.  Pure operators; HealthAnalysis calls them.             *)
(*                                                                         *)
(* A reply is [kind, body].  Kinds other than "data" have no usable body:  *)
(* no connection, a status other than 200 (401 and 403 included), a body   *)
(* that is no JSON, a payload that says the query failed.  The body of     *)
(* "data" is, for Prometheus, Loki and the demo source, the points of all  *)
(* series in order: [shape, ts, value] with shape = FALSE for an entry     *)
(* that is no pair; for http_json, a JSON tree.                            *)
(***************************************************************************)
EXTENDS Selections, SequencesExt

CONSTANTS
  NaN,       \* the float
  BadValue,  \* a value float() refuses
  BadTime,   \* a timestamp float() or int() refuses
  NoValue,   \* latest_value is None
  NotInt,    \* a path segment int() refuses
  IntOf      \* int(), as a function on the path segments

\* What query() comes back with: samples, or KeyError, or another exception.
Answered(samples) == [ raised |-> "none", samples |-> samples ]
Raised(what)      == [ raised |-> what, samples |-> << >> ]

Usable(point)  == point.shape /\ point.value # BadValue
UsableAt(body) == { i \in DOMAIN body : Usable(body[i]) }

\* _parse_vector: a point that is no pair or has no numeric value is skipped;
\* the timestamp of any other is converted outside the try and may raise.
Prometheus(reply) ==
  IF reply.kind # "data" THEN Raised("error")
  ELSE LET usable == Selected(reply.body, UsableAt(reply.body)) IN
       IF \E i \in DOMAIN usable : usable[i].ts = BadTime
         THEN Raised("error") ELSE Answered(usable)

\* _parse_streams: logs and never a sample; a bad timestamp is skipped.
Loki(reply) ==
  IF reply.kind # "data" THEN Raised("error") ELSE Answered(<< >>)

\* One segment of extract_value's walk.  A list takes an index, counted from
\* its end when negative; a dict takes a key.
Descend(node, segment) ==
  CASE node.is = "list" /\ IntOf[segment] # NotInt
         /\ IntOf[segment] \in -Len(node.items)..(Len(node.items) - 1) ->
           node.items[ IF IntOf[segment] >= 0 THEN IntOf[segment] + 1
                       ELSE Len(node.items) + IntOf[segment] + 1 ]
    [] node.is = "dict" /\ segment \in DOMAIN node.items -> node.items[segment]
    [] OTHER -> [ is |-> "error" ]

ExtractValue(node, path) == FoldLeft(Descend, node, path)

\* The value extract_value reaches must be a number; a bool is not one.
HttpJson(reply, path) ==
  IF reply.kind # "data" \/ ExtractValue(reply.body, path).is # "number" THEN Raised("error")
  ELSE Answered(<< [ shape |-> TRUE, ts |-> 0,
                     value |-> ExtractValue(reply.body, path).value ] >>)

\* SyntheticDataSource never fails: its series, oldest first.
Synthetic(reply) == Answered(reply.body)

\* DataSource.query: a source answers for the queries configured on it.
Query(source, metric, reply) ==
  IF metric \notin source.queries THEN Raised("key")
  ELSE CASE source.type = "prometheus" -> Prometheus(reply)
         [] source.type = "loki"       -> Loki(reply)
         [] source.type = "http_json"  -> HttpJson(reply, source.path)
         [] source.type = "synthetic"  -> Synthetic(reply)

\* Slip: the last of the newest samples, as a sort by time would leave it.
LastNewest(samples) ==
  IF samples = << >> THEN NoValue
  ELSE LET newest == { i \in DOMAIN samples :
                         \A j \in DOMAIN samples : samples[j].ts <= samples[i].ts }
       IN  samples[Max(newest)].value

\* QueryResult.latest_value: max() keeps the first of the newest samples.
LatestValue(samples) ==
  IF samples = << >> THEN NoValue
  ELSE LET newest == { i \in DOMAIN samples :
                         \A j \in DOMAIN samples : samples[j].ts <= samples[i].ts }
       IN  samples[Min(newest)].value
=============================================================================
