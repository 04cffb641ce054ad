---------------------------- MODULE MCApplication ----------------------------
(* Configuration files for TLC: one sound file, and what varies from it. *)
EXTENDS Application

Restart  == [ words |-> { "restart" }, requireApproval |-> TRUE ]
Unasked  == [ words |-> { "scale" }, requireApproval |-> FALSE ]
Reserved == [ words |-> { "rotate", "secret" }, requireApproval |-> TRUE ]

Source(name, type, endpoint, schemaOk) ==
  [ name |-> name, type |-> type, endpoint |-> endpoint, schemaOk |-> schemaOk ]

Prom      == Source("a", "prometheus", "local", TRUE)
Far       == Source("a", "loki", "remote", TRUE)
Unset     == Source("b", "http_json", "opaque", TRUE)
Synthetic == Source("b", "synthetic", "none", TRUE)
Homeless  == Source("b", "loki", "none", TRUE)
Odd       == Source("b", "influx", "local", TRUE)
Misshapen == Source("b", "prometheus", "local", FALSE)

Demo ==
  [ exists |-> TRUE, wellFormed |-> TRUE, audit |-> TRUE,
    mode |-> "read_only", actions |-> {}, sources |-> << Prom >>,
    llm |-> [ provider |-> "openai", endpoint |-> "local" ],
    embeddings |-> [ provider |-> "openai", endpoint |-> "local" ],
    store |-> [ type |-> "memory", path |-> "opaque" ],
    loaders |-> << [ type |-> "markdown", path |-> TRUE ] >> ]

Files ==
  { [ Demo EXCEPT !.exists = FALSE ], [ Demo EXCEPT !.wellFormed = FALSE ],
    [ Demo EXCEPT !.audit = FALSE ] }

WithActions ==
  { [ Demo EXCEPT !.mode = mode, !.actions = actions ] :
      mode \in { "read_only", "actions_enabled" },
      actions \in { {}, { Restart }, { Restart, Unasked }, { Restart, Reserved } } }

WithSources ==
  { [ Demo EXCEPT !.sources = sources ] :
      sources \in { << >>, << Prom, Far >>, << Far, Prom, Unset >>, << Far, Prom, Far >>,
                    << Far, Synthetic >>, << Synthetic, Unset >>, << Prom, Homeless >>, << Prom, Odd, Far >>,
                    << Prom, Misshapen >> } }

WithBackends ==
  { [ Demo EXCEPT !.llm = [ provider |-> l, endpoint |-> at ],
                  !.embeddings = [ provider |-> e, endpoint |-> to ] ] :
      l \in { "openai", "stub" }, e \in { "openai", "hash" },
      at \in { "local", "remote", "opaque" }, to \in { "local", "remote" } }

WithStores ==
  { [ Demo EXCEPT !.store = kb, !.loaders = loaders ] :
      kb \in { [ type |-> "chroma", path |-> "remote" ],
               [ type |-> "qdrant", path |-> "opaque" ] },
      loaders \in { << >>, Demo.loaders, << [ type |-> "confluence", path |-> TRUE ] >>,
                    << [ type |-> "markdown", path |-> FALSE ] >> } }

AllConfigs == Files \cup WithActions \cup WithSources \cup WithBackends \cup WithStores
=============================================================================
