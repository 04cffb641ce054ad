----------------------------- MODULE Application -----------------------------
(***************************************************************************)
(* The process: the command line (__main__.py), the configuration it loads *)
(* (config/loading.py, config/models.py) and the wiring of one analysis    *)
(* (app.py).  `validate` loads and reports; `run` analyses once and then   *)
(* takes the proposals through the gate; `daemon` analyses on an interval  *)
(* until a signal sets its stop event, or once.  "help" stands for --help  *)
(* and --version, "misused" for a command line argparse refuses.           *)
(*                                                                         *)
(* An analysis is one step here (module HealthAnalysis is its inside) and  *)
(* so is the action phase (ActionPipeline).  What either contacts and      *)
(* executes, and whether it raises, is the environment's choice.           *)
(***************************************************************************)
EXTENDS Naturals, Sequences, FiniteSets

CONSTANTS
  Configs,   \* contents of the configuration file: see MCApplication
  Commands,  \* subset of { "validate", "run", "daemon", "once", "help", "misused" }
  MaxRounds  \* bound on the analyses of a daemon

ASSUME RoundsAssumption == MaxRounds \in Nat \ {0}

\* data_sources is a list.
ASSUME SourcesAssumption ==
  \A c \in Configs : DOMAIN c.sources \subseteq Nat

VARIABLES
  config, cmd,  \* the file and the command
  pc,           \* where the process is
  code,         \* its exit code; 1 also stands for an uncaught exception and
                \* for a last flush of the streams that fails
  warned,       \* the components it warned about at startup
  surface,      \* whether an action surface was built
  built,        \* indices of the sources the current analysis is to close
  failed,       \* whether the current analysis raised
  stop,         \* the daemon's stop event
  \* ---- observation ----
  rounds,       \* analyses begun
  unclosed,     \* clients constructed and not closed: << analysis, component >>
  contacted,    \* components that were sent something
  executed,     \* actions the executor carried out
  served,       \* reports written to the console
  told          \* executed actions whose results were printed

vars == << config, cmd, pc, code, warned, surface, built, failed, stop,
           rounds, unclosed, contacted, executed, served, told >>
world == << contacted, executed, served, told >>
fixed == << config, cmd, warned >>

SourceTypes == { "prometheus", "loki", "http_json", "synthetic" }

----------------------------------------------------------------------------
(* The configuration.                                                       *)

ReservedSubstrings ==
  { "config", "allowlist", "audit", "approval", "approve", "credential", "secret" }

\* ActionConfig's validators: action.words are the words its lowered name holds.
NameNotReserved(action) == action.words \cap ReservedSubstrings = {}

\* Slip: the mandatory approval is not checked.
ValidatesAnyApproval(c) ==
  c.wellFormed /\ c.audit /\ \A a \in c.actions : NameNotReserved(a)

\* TendwellConfig.model_validate
Validates(c) ==
  /\ c.wellFormed /\ c.audit
  /\ \A a \in c.actions : NameNotReserved(a) /\ a.requireApproval

\* urlparse(endpoint).hostname of each kind of endpoint: one without a scheme,
\* or with a ${VAR} left unexpanded, has none.
HostOf(endpoint) ==
  CASE endpoint = "local"  -> "localhost"
    [] endpoint = "remote" -> "elsewhere"
    [] OTHER               -> ""

OffHost(endpoint) == HostOf(endpoint) \notin { "", "localhost" }

\* A component is << "source", its index >> or << its section, 0 >>.
OffHostSources(c) ==
  { << "source", i >> : i \in { k \in DOMAIN c.sources : OffHost(c.sources[k].endpoint) } }

\* Slip: the embeddings endpoint is forgotten.
EgressWithoutEmbeddings(c) ==
  OffHostSources(c) \cup IF OffHost(c.llm.endpoint) THEN { << "llm", 0 >> } ELSE {}

\* egress_targets: whatever the providers, every endpoint is looked at.
EgressTargets(c) ==
  OffHostSources(c)
  \cup { << p, 0 >> : p \in { q \in { "llm", "embeddings" } : OffHost(c[q].endpoint) } }
  \cup IF OffHost(c.store.path) THEN { << "vector_store", 0 >> } ELSE {}

----------------------------------------------------------------------------
(* The wiring.                                                              *)

\* build_sources raises at the first source of an unknown type, without the
\* endpoint its adapter needs, or refused by the adapter's own schema.
Constructs(source) ==
  /\ source.type \in SourceTypes
  /\ source.schemaOk
  /\ source.type # "synthetic" => source.endpoint # "none"

\* The adapters that speak HTTP hold a client; the synthetic one nothing.
HoldsClient(source) == source.type # "synthetic"

Refused == { i \in DOMAIN config.sources : ~Constructs(config.sources[i]) }

\* The dictionary keeps, under each name, the last source constructed.
Kept(indices) ==
  { i \in indices : \A k \in indices :
      config.sources[k].name = config.sources[i].name => k <= i }

\* A loader index_context accepts.
Loads(loader) == loader.type = "markdown" /\ loader.path

\* A reply to the openai provider's request, or a refused connection, is a
\* contact; the stub and the hash embedder send nothing, and a URL without a
\* host is refused by the client.
Sends(part) ==
  config[part].provider = "openai" /\ HostOf(config[part].endpoint) # ""

Askable ==
  { << "source", i >> : i \in { k \in built :
      config.sources[k].type # "synthetic" /\ HostOf(config.sources[k].endpoint) # "" } }
  \cup { << p, 0 >> : p \in { q \in { "llm", "embeddings" } : Sends(q) } }

\* run_on_demand and build_action_surface.  Slip: the mode is not looked at.
BuildsSurfaceInAnyMode(c) == c.actions # {}

BuildsSurface(c) == c.mode = "actions_enabled" /\ c.actions # {}

----------------------------------------------------------------------------
Init ==
  /\ config \in Configs /\ cmd \in Commands
  /\ pc = "parse" /\ code = 0 /\ warned = {} /\ surface = FALSE
  /\ built = {} /\ failed = FALSE /\ stop = FALSE
  /\ rounds = 0 /\ unclosed = {} /\ contacted = {} /\ executed = {} /\ served = 0
  /\ told = {}

Exit(c) == pc' = "exit" /\ code' = c

Goto(step) == pc' = step /\ UNCHANGED code

\* Slip: the exception is swallowed.
RaisesQuietly == Exit(0)

\* An exception nobody catches: the interpreter exits with 1.
Raises == Exit(1)

\* parse_args: argparse exits by itself for a usage error and for help.
Parse ==
  /\ pc = "parse"
  /\ CASE cmd = "misused" -> Exit(2)
       [] cmd = "help"    -> Exit(0) \/ Raises
       [] OTHER           -> Goto("load")
  /\ UNCHANGED << fixed, surface, built, failed, stop, rounds, unclosed, world >>

\* load_config raises: the file is missing, or whatever else goes wrong with
\* reading, validating and announcing it (a valid one may be unreadable, and
\* the streams may be gone).
LoadFails ==
  /\ pc = "load"
  /\ \/ ~config.exists /\ Exit(2)
     \/ Raises
  /\ UNCHANGED << fixed, surface, built, failed, stop, rounds, unclosed, world >>

\* _load warns before anything is built; _cmd_validate has nothing else to do.
Load ==
  /\ pc = "load" /\ config.exists /\ Validates(config)
  /\ warned' = EgressTargets(config)
  /\ CASE cmd = "validate" -> Exit(0)
       [] cmd = "run"      -> Goto("surface")
       [] OTHER            -> Goto("sources")
  /\ UNCHANGED << config, cmd, surface, built, failed, stop, rounds, unclosed, world >>

\* run_on_demand and build_action_surface, whose audit log makes its directory
\* and may fail to.
BuildSurface ==
  /\ pc = "surface"
  /\ \/ surface' = BuildsSurface(config) /\ Goto("sources")
     \/ BuildsSurface(config) /\ Raises /\ UNCHANGED surface
  /\ UNCHANGED << fixed, built, failed, stop, rounds, unclosed, world >>

\* build_sources, for every analysis anew.
BuildSources ==
  /\ pc = "sources"
  /\ rounds' = rounds + 1
  /\ LET made == { i \in DOMAIN config.sources : \A k \in Refused : i < k } IN
     /\ built' = Kept(made)
     /\ unclosed' = unclosed \cup
          { << rounds + 1, << "source", i >> >> :
              i \in { k \in made : HoldsClient(config.sources[k]) } }
  /\ IF Refused = {} THEN Goto("store") ELSE Raises
  /\ UNCHANGED << fixed, surface, failed, stop, world >>

\* build_embeddings and build_llm: the openai provider holds an HTTP client.
ModelClient(part) ==
  IF config[part].provider = "openai" THEN { << part, 0 >> } ELSE {}

\* ChromaContextStore holds a Chroma client, the memory store nothing.
StoreClient == IF config.store.type = "chroma" THEN { << "vector_store", 0 >> } ELSE {}

Opens(parts) == unclosed' = unclosed \cup { << rounds, p >> : p \in parts }

\* The embeddings client is built before build_context_store, in which the
\* reserved types raise and Chroma may.
BuildStore ==
  /\ pc = "store"
  /\ \/ config.store.type \in { "memory", "chroma" } /\ Goto("index")
        /\ Opens(ModelClient("embeddings") \cup StoreClient)
     \/ config.store.type # "memory" /\ Raises
        /\ Opens(ModelClient("embeddings"))
  /\ UNCHANGED << fixed, surface, built, failed, stop, rounds, world >>

\* index_context, all loaders: a bad one raises, and a load or upsert may.
\* Nothing is closed: the try of run_analysis is not entered yet.
Index ==
  /\ pc = "index"
  /\ contacted' \in
       { contacted } \cup
       (IF config.loaders # << >> /\ Sends("embeddings")
          THEN { contacted \cup { << "embeddings", 0 >> } } ELSE {})
  /\ \/ (\A i \in DOMAIN config.loaders : Loads(config.loaders[i])) /\ Goto("analyzer")
     \/ config.loaders # << >> /\ Raises
  /\ UNCHANGED << fixed, surface, built, failed, stop, rounds, unclosed,
                  executed, served, told >>

\* The arguments of HealthAnalyzer: build_llm makes a client per analysis.
BuildAnalyzer ==
  /\ pc = "analyzer" /\ Goto("analyze")
  /\ Opens(ModelClient("llm"))
  /\ UNCHANGED << fixed, surface, built, failed, stop, rounds, world >>

\* analyzer.analyze: returns or raises, having asked whom it could.
Analyze ==
  /\ pc = "analyze" /\ Goto("close")
  /\ failed' \in BOOLEAN
  /\ \E asked \in SUBSET Askable : contacted' = contacted \cup asked
  /\ UNCHANGED << fixed, surface, built, stop, rounds, unclosed, executed, served, told >>

\* The finally: the sources of the dictionary one after the other (nothing
\* here tells their order).  A close that raises skips the rest.
\* Slip: closed in an except clause, so only when the analysis raised.
StillOpenIfFailed == IF failed THEN built ELSE {}

StillOpen == built

CloseSource ==
  /\ pc = "close" /\ StillOpen # {}
  /\ \/ \E i \in StillOpen :
          /\ built' = built \ {i}
          /\ unclosed' = unclosed \ { << rounds, << "source", i >> >> }
        /\ UNCHANGED << pc, code >>
     \/ Raises /\ UNCHANGED << built, unclosed >>
  /\ UNCHANGED << fixed, surface, failed, stop, rounds, world >>

\* The exception of an analysis that raised goes on up; otherwise `run` with a
\* surface acts on the proposals.
\* Slip: an analysis that raised is tried again at once.
AfterCloseRetried ==
  Goto(IF failed THEN "analyze" ELSE IF surface THEN "act" ELSE "emit")

AfterClose ==
  IF failed THEN Raises ELSE Goto(IF surface THEN "act" ELSE "emit")

\* The last of the finally is store.close(), which neither store overrides: it
\* releases nothing and cannot raise.  The model clients have no close at all.
CloseStore ==
  /\ pc = "close" /\ StillOpen = {}
  /\ AfterClose
  /\ UNCHANGED << fixed, surface, built, failed, stop, rounds, unclosed, world >>

\* process_pending: what it executed stays executed, even when it raises and
\* the report and the results are lost.
Act ==
  /\ pc = "act"
  /\ \E done \in SUBSET config.actions : executed' = executed \cup done
  /\ Goto("emit") \/ Raises
  /\ UNCHANGED << fixed, surface, built, failed, stop, rounds, unclosed,
                  contacted, served, told >>

\* ConsoleOutputSink.emit; the stream may be gone.  (The daemon's count of
\* proposals after it is never printed: without a surface there are none.)
Emit ==
  /\ pc = "emit"
  /\ \/ served' = served + 1 /\ Goto(IF surface THEN "print" ELSE "check")
     \/ Raises /\ UNCHANGED served
  /\ UNCHANGED << fixed, surface, built, failed, stop, rounds, unclosed,
                  contacted, executed, told >>

\* `run` prints the result of each action; the stream may go at any of them.
PrintResults ==
  /\ pc = "print"
  /\ \/ told' = executed /\ Goto("check")
     \/ told' \in SUBSET executed /\ Raises
  /\ UNCHANGED << fixed, surface, built, failed, stop, rounds, unclosed,
                  contacted, executed, served >>

\* if once or stop.is_set(): break
Check ==
  /\ pc = "check"
  /\ IF cmd # "daemon" \/ stop THEN Exit(0) ELSE Goto("wait")
  /\ UNCHANGED << fixed, surface, built, failed, stop, rounds, unclosed, world >>

\* wait_for(stop.wait(), timeout): the event or the timer ends it.
Wake ==
  /\ pc = "wait" /\ (stop \/ rounds < MaxRounds) /\ Goto("woken")
  /\ UNCHANGED << fixed, surface, built, failed, stop, rounds, unclosed, world >>

\* Slip: a wait that timed out goes on without looking at the event again.
GoOnUnseen == Goto("sources")

GoOn == IF stop THEN Exit(0) ELSE Goto("sources")

Woken ==
  /\ pc = "woken" /\ GoOn
  /\ UNCHANGED << fixed, surface, built, failed, stop, rounds, unclosed, world >>

\* SIGTERM or SIGINT, once the daemon has its handlers.
Signal ==
  /\ cmd \in { "daemon", "once" } /\ pc \notin { "parse", "load", "exit" }
  /\ ~stop /\ stop' = TRUE
  /\ UNCHANGED << fixed, pc, code, surface, built, failed, rounds, unclosed, world >>

\* The process is gone; and, past the bound on its analyses, the daemon waits.
Ended ==
  /\ pc = "exit" \/ (pc = "wait" /\ ~stop /\ rounds = MaxRounds)
  /\ UNCHANGED vars

Step ==
  \/ Parse \/ LoadFails \/ Load \/ BuildSurface
  \/ BuildSources \/ BuildStore \/ Index \/ BuildAnalyzer \/ Analyze
  \/ CloseSource \/ CloseStore \/ Act \/ Emit \/ PrintResults
  \/ Check \/ Wake \/ Woken

Next == Step \/ Signal \/ Ended

Spec == Init /\ [][Next]_vars

\* The process runs and its awaits return (every client has a timeout and
\* asyncio's timers fire); nobody owes it a signal.
FairSpec == Spec /\ WF_vars(Step)

----------------------------------------------------------------------------
TypeOK ==
  /\ config \in Configs /\ cmd \in Commands
  /\ pc \in { "parse", "load", "surface", "sources", "store", "index", "analyzer",
              "analyze", "close", "act", "emit", "print", "check", "wait", "woken", "exit" }
  /\ code \in 0..2 /\ surface \in BOOLEAN
  /\ failed \in BOOLEAN /\ stop \in BOOLEAN
  /\ built \subseteq DOMAIN config.sources
  /\ rounds \in 0..MaxRounds /\ served \in 0..rounds
  /\ executed \subseteq config.actions /\ told \subseteq executed

\* docs/configuration.md: egress is announced.  Nothing off-host is sent
\* anything the operator was not warned of before, by any command, whatever the
\* providers and whichever of two sources of one name the analysis kept.
EgressIsAnnounced ==
  \A part \in contacted :
    LET endpoint == IF part[1] = "source" THEN config.sources[part[2]].endpoint
                    ELSE config[part[1]].endpoint
    IN  endpoint # "local" => part \in warned

Shadowed ==
  { i \in DOMAIN config.sources : \E k \in DOMAIN config.sources :
      k > i /\ config.sources[k].name = config.sources[i].name }

\* What an analysis that comes back leaves open: the model clients and the
\* Chroma client, and the sources run_analysis has forgotten.
LeftOpen ==
  { << "source", i >> : i \in { k \in Shadowed : HoldsClient(config.sources[k]) } }
  \cup ModelClient("llm") \cup ModelClient("embeddings") \cup StoreClient

\* However often the daemon analyses: of every analysis that came back exactly
\* its model clients, its Chroma client and the sources whose name a later one
\* took stay open.  Nothing else does, nor anything of a failed analysis in a
\* process that goes on: a close that raises, an error before the try of
\* run_analysis and a failed analysis leave more, and end the process.
LeakIsKnown ==
  LET past == IF pc \in { "parse", "load", "surface", "sources", "act", "emit", "print",
                          "check", "wait", "woken" }
                THEN rounds ELSE rounds - 1
  IN  { u \in unclosed : u[1] <= past } = (1..past) \X LeftOpen

\* The target system is changed only by `run`, after an analysis that returned
\* and closed its sources, and only through an action the operator declared
\* with approval and enabled, with the audit log on, outside Tendwell's own
\* subsystems.  The daemon executes nothing.
ActionsNeedOptIn ==
  executed # {} =>
    /\ cmd = "run" /\ ~failed /\ built = {}
    /\ config.mode = "actions_enabled" /\ config.audit
    /\ \A a \in executed : a.requireApproval /\ a.words \cap ReservedSubstrings = {}

\* The exit code tells a scheduler what happened.  0: it asked for help or a
\* validation, or every analysis begun was served and every action executed was
\* reported.  1: nothing began, the last analysis was lost, or (with a surface
\* only) the results of its actions were.  2: nothing began, for want of a
\* usable command line or of the file.
ExitCodeTells ==
  pc = "exit" =>
    /\ code = 0 => /\ cmd # "misused" /\ (cmd # "help" => config.exists)
                   /\ rounds = 0 <=> cmd \in { "validate", "help" }
                   /\ served = rounds /\ told = executed
    /\ code = 1 => cmd # "misused" /\ (rounds = 0 \/ served < rounds \/ surface)
    /\ code = 2 => rounds = 0 /\ (cmd = "misused" \/ ~config.exists)
    /\ served >= rounds - 1

\* A signal that races the interval timer, or comes while an analysis runs, is
\* heard before another analysis begins.
NoAnalysisAfterStop == [][stop /\ pc # "sources" => pc' # "sources"]_vars

\* A stopped daemon exits, once the analysis it is in is done.
StopEnds == stop ~> pc = "exit"
=============================================================================
