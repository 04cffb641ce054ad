-------------------------- MODULE MCHealthAnalysis --------------------------
(***************************************************************************)
(* Small instances of HealthAnalysis: values 0 to 2 around a threshold of  *)
(* 1, up to two points with equal and different timestamps, two sources    *)
(* under one name or two, two SLOs.                                        *)
(***************************************************************************)
EXTENDS HealthAnalysis, TLC

MCIntOf == ("0" :> 0) @@ ("-2" :> -2) @@ ("v" :> NotInt)

Point(ts, value) == [ shape |-> TRUE, ts |-> ts, value |-> value ]
Data(body) == [ kind |-> "data", body |-> body ]

Failures == { [ kind |-> k ] : k \in { "unreachable", "refused", "not_json", "failed" } }

Series ==
  { << >>, << [ Point(1, 0) EXCEPT !.shape = FALSE ] >>,
    << Point(1, BadValue), Point(1, 1) >>, << Point(BadTime, 0) >>,
    << Point(BadTime, BadValue) >>,
    << Point(1, 0), Point(2, 2) >>, << Point(2, 0), Point(1, 2) >>,
    << Point(1, 2), Point(1, 0) >>, << Point(1, NaN) >> }

Number(v) == [ is |-> "number", value |-> v ]
Dict(v)   == [ is |-> "dict", items |-> ("v" :> v) @@ ("0" :> v) ]
List(v)   == [ is |-> "list", items |-> << v, Number(2) >> ]

Trees ==
  { Number(1), Dict(Dict(Number(NaN))), List(Dict(Number(1))), List(Number(0)), Dict(Dict(Number(2))),
    Dict([ is |-> "bool" ]), List(Dict([ is |-> "bool" ])) }

MCReplies ==
  [ prometheus |-> Failures \cup { Data(s) : s \in Series },
    loki       |-> { [ kind |-> "failed" ], Data(<< Point(1, BadValue) >>) },
    http_json  |-> { [ kind |-> "unreachable", body |-> Number(1) ] }
                     \cup { Data(t) : t \in Trees },
    synthetic  |-> { Data(<< Point(1, 0), Point(2, 0) >>),
                     Data(<< Point(1, 2), Point(2, 2) >>) } ]

Source(name, type, queries) ==
  [ name |-> name, type |-> type, queries |-> queries, path |-> << "0", "v" >> ]

Prom   == Source("a", "prometheus", { "errors", "latency" })
Logs   == Source("b", "loki", { "errors" })
Json   == Source("b", "http_json", { "latency" })
Demo   == Source("a", "synthetic", { "latency" })
FromEnd == [ Source("b", "http_json", { "errors" }) EXCEPT !.path = << "-2", "v" >> ]

MCSlo(name, metric, direction) ==
  [ name |-> name, metric |-> metric, threshold |-> 1, direction |-> direction ]

Errors  == MCSlo("errors", "errors", "below")
Latency == MCSlo("latency", "latency", "below")
Traffic == MCSlo("errors", "errors", "above")

MCSetups ==
  { [ sources |-> ss, slos |-> os ] :
      ss \in { << >>, << Prom >>, << Prom, Logs >>, << Prom, Json >>,
               << Prom, Demo >>, << FromEnd, Demo >> },
      os \in { << >>, << Errors >>, << Errors, Latency >>, << Errors, Traffic >> } }

MCChunks == { << >>, << "runbook" >>, << "runbook", "postmortem" >> }
=============================================================================
