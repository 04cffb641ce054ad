-------------------------- MODULE ApplicationProofs --------------------------
(***************************************************************************)
(* Proofs about Application, for every configuration file: what the        *)
(* process sends off-host it announced, what it executes the operator      *)
(* opted into, what a daemon leaves open, what its exit code says and that *)
(* a stopped daemon begins nothing.                                        *)
(***************************************************************************)
EXTENDS Application, TLAPS

PCs == { "parse", "load", "surface", "sources", "store", "index", "analyzer", "analyze",
         "close", "act", "emit", "print", "check", "wait", "woken", "exit" }

\* Before there is a configuration.
Early == { "parse", "load" }

\* Past loading the file was there and accepted, and its warnings are out.
Accepted ==
  /\ pc = "load" => cmd \notin { "help", "misused" }
  /\ pc \notin Early \cup { "exit" } =>
       /\ config.exists /\ Validates(config) /\ cmd \notin { "validate", "help", "misused" }
       /\ warned = EgressTargets(config)

Before ==
  pc \in Early => rounds = 0 /\ served = 0 /\ contacted = {} /\ executed = {}
                 /\ told = {} /\ unclosed = {} /\ ~surface /\ ~stop

\* Only the daemon hears a signal, and only `run` builds a surface.
Heard ==
  /\ pc = "surface" => cmd = "run"
  /\ cmd = "run" => ~stop

\* Only components with a host that a client is built for are sent anything.
Sendable ==
  { << "source", i >> : i \in { k \in DOMAIN config.sources :
      HostOf(config.sources[k].endpoint) # "" } }
  \cup { << p, 0 >> : p \in { q \in { "llm", "embeddings" } : Sends(q) } }

Announced ==
  /\ contacted \subseteq Sendable
  /\ contacted # {} => warned = EgressTargets(config)

\* An analysis begun is served, or lost with the process.
Counted ==
  /\ rounds \in Nat /\ served \in Nat
  /\ pc # "exit" => code = 0
  /\ pc \in { "store", "index", "analyzer", "analyze", "close", "act", "emit" } =>
       rounds = served + 1
  /\ pc \in { "surface", "sources", "print", "check", "wait", "woken" } => rounds = served
  /\ pc = "surface" => rounds = 0
  /\ pc \in { "print", "check", "wait", "woken" } => rounds # 0

\* Actions executed and not reported are still to be printed.
Reported ==
  /\ pc \notin { "emit", "print", "exit" } => told = executed
  /\ pc \in { "emit", "print" } => told = {}
  /\ pc = "emit" /\ ~surface => executed = {}
  /\ pc = "print" => surface

\* A surface was opted into; what was executed was executed after an analysis.
OptedIn ==
  /\ surface => cmd = "run" /\ Validates(config) /\ BuildsSurface(config)
  /\ executed \subseteq config.actions
  /\ executed # {} => surface /\ ~failed /\ built = {}
                      /\ pc \in { "emit", "print", "check", "exit" }
  /\ pc \in { "emit", "act", "print" } => ~failed /\ built = {}
  /\ pc = "act" => surface
  /\ pc = "check" /\ cmd = "daemon" => ~surface
  /\ pc \in { "sources", "wait", "woken" } => executed = {}

AppInv ==
  /\ config \in Configs /\ pc \in PCs /\ built \subseteq DOMAIN config.sources
  /\ Accepted /\ Before /\ Heard /\ Announced /\ Counted /\ Reported /\ OptedIn
  /\ ExitCodeTells

LEMMA AppInit == Init => AppInv
  BY DEF Init, AppInv, PCs, Early, Accepted, Before, Heard, Announced, Counted, Reported, OptedIn,
         ExitCodeTells

LEMMA SendableFixed ==
  ASSUME config' = config
  PROVE  Sendable' = Sendable
  BY DEF Sendable, Sends, HostOf

\* Whom an analysis may ask are components it can send to.
LEMMA AskableSendable ==
  ASSUME built \subseteq DOMAIN config.sources
  PROVE  Askable \subseteq Sendable
  BY DEF Askable, Sendable

LEMMA EmbeddingsSendable ==
  ASSUME Sends("embeddings")
  PROVE  << "embeddings", 0 >> \in Sendable
  BY DEF Sendable

LEMMA AppStep == AppInv /\ [Next]_vars => AppInv'
<1> SUFFICES ASSUME AppInv, [Next]_vars PROVE AppInv'
    OBVIOUS
<1> USE DEF AppInv, PCs, Early, fixed, world, Exit, Goto
<1>0. config' = config => Sendable' = Sendable
    BY SendableFixed
<1>1. CASE Parse
    BY <1>0, <1>1
       DEF Parse, Raises, Accepted, Before, Heard, Announced, Counted, Reported, OptedIn, ExitCodeTells
<1>2. CASE LoadFails
    BY <1>0, <1>2
       DEF LoadFails, Raises, Accepted, Before, Heard, Announced, Counted, Reported, OptedIn, ExitCodeTells
<1>3. CASE Load
    BY <1>0, <1>3
       DEF Load, Accepted, Before, Heard, Announced, Counted, Reported, OptedIn, ExitCodeTells
<1>4. CASE BuildSurface
    BY <1>0, <1>4
       DEF BuildSurface, Raises, Accepted, Before, Heard, Announced, Counted, Reported, OptedIn, ExitCodeTells
<1>5. CASE BuildSources
    BY <1>0, <1>5
       DEF BuildSources, Kept, Raises, Accepted, Before, Heard, Announced, Counted, Reported, OptedIn, ExitCodeTells
<1>6. CASE BuildStore
    BY <1>0, <1>6
       DEF BuildStore, Raises, Accepted, Before, Heard, Announced, Counted, Reported, OptedIn, ExitCodeTells
<1>7. CASE Index
    BY <1>0, <1>7, EmbeddingsSendable
       DEF Index, Raises, Accepted, Before, Heard, Announced, Counted, Reported, OptedIn, ExitCodeTells
<1>8. CASE BuildAnalyzer
    BY <1>0, <1>8
       DEF BuildAnalyzer, Accepted, Before, Heard, Announced, Counted, Reported, OptedIn, ExitCodeTells
<1>9. CASE Analyze
    BY <1>0, <1>9, AskableSendable
       DEF Analyze, Accepted, Before, Heard, Announced, Counted, Reported, OptedIn, ExitCodeTells
<1>10. CASE CloseSource
    BY <1>0, <1>10
       DEF CloseSource, Raises, Accepted, Before, Heard, Announced, Counted, Reported, OptedIn, ExitCodeTells
<1>11. CASE CloseStore
    BY <1>0, <1>11
       DEF CloseStore, AfterClose, StillOpen, Raises, Accepted, Before, Heard, Announced, Counted, Reported, OptedIn, ExitCodeTells
<1>12. CASE Act
    BY <1>0, <1>12
       DEF Act, Raises, Accepted, Before, Heard, Announced, Counted, Reported, OptedIn, ExitCodeTells
<1>13. CASE Emit
    BY <1>0, <1>13
       DEF Emit, Raises, Accepted, Before, Heard, Announced, Counted, Reported, OptedIn, ExitCodeTells
<1>14. CASE PrintResults
    BY <1>0, <1>14
       DEF PrintResults, Raises, Accepted, Before, Heard, Announced, Counted, Reported, OptedIn, ExitCodeTells
<1>15. CASE Check
    BY <1>0, <1>15
       DEF Check, Accepted, Before, Heard, Announced, Counted, Reported, OptedIn, ExitCodeTells
<1>16. CASE Wake \/ Woken
    BY <1>0, <1>16
       DEF Wake, Woken, GoOn, Accepted, Before, Heard, Announced, Counted, Reported, OptedIn, ExitCodeTells
<1>17. CASE Signal \/ UNCHANGED vars
    BY <1>0, <1>17
       DEF Signal, vars, Accepted, Before, Heard, Announced, Counted, Reported, OptedIn, ExitCodeTells
<1> QED
    BY <1>1, <1>2, <1>3, <1>4, <1>5, <1>6, <1>7, <1>8, <1>9, <1>10, <1>11, <1>12, <1>13, <1>14, <1>15, <1>16, <1>17
       DEF Next, Step, Ended

\* The inductive invariant holds whatever the configuration file and command.
THEOREM AppInvariant == Spec => []AppInv
  BY AppInit, AppStep, PTL DEF Spec

----------------------------------------------------------------------------
\* Whatever the file says and whatever the command: what is sent off-host was
\* announced before (EgressTargets and the clients that are built agree).
THEOREM EgressAnnounced == Spec => []EgressIsAnnounced
<1>1. AppInv => EgressIsAnnounced
  <2> SUFFICES ASSUME AppInv, NEW part \in contacted
               PROVE  LET endpoint == IF part[1] = "source" THEN config.sources[part[2]].endpoint
                                      ELSE config[part[1]].endpoint
                      IN  endpoint # "local" => part \in warned
      BY DEF EgressIsAnnounced
  <2>1. part \in Sendable /\ warned = EgressTargets(config)
      BY DEF AppInv, Announced
  <2>2. CASE part \in { << "source", i >> : i \in { k \in DOMAIN config.sources :
                          HostOf(config.sources[k].endpoint) # "" } }
    <3>1. PICK i \in DOMAIN config.sources :
            part = << "source", i >> /\ HostOf(config.sources[i].endpoint) # ""
        BY <2>2
    <3> QED
        BY <2>1, <3>1 DEF EgressTargets, OffHostSources, OffHost, HostOf
  <2>3. CASE part \in { << p, 0 >> : p \in { q \in { "llm", "embeddings" } : Sends(q) } }
    <3>1. PICK p \in { "llm", "embeddings" } : part = << p, 0 >> /\ Sends(p)
        BY <2>3
    <3> QED
        BY <2>1, <3>1 DEF EgressTargets, OffHost, Sends, HostOf
  <2> QED
      BY <2>1, <2>2, <2>3 DEF Sendable
<1> QED
    BY <1>1, AppInvariant, PTL

\* Nothing is executed but by `run`, after its analysis, and under an opt-in
\* the configuration's validators accepted.
THEOREM OptInNeeded == Spec => []ActionsNeedOptIn
<1>1. AppInv => ActionsNeedOptIn
    BY DEF AppInv, OptedIn, ActionsNeedOptIn, Validates, BuildsSurface, NameNotReserved
<1> QED
    BY <1>1, AppInvariant, PTL

\* The exit code agrees with what was analysed and served.
THEOREM ExitCodeTruthful == Spec => []ExitCodeTells
<1>1. AppInv => ExitCodeTells
    BY DEF AppInv
<1> QED
    BY <1>1, AppInvariant, PTL

\* Once the stop event is set no further analysis begins.
THEOREM StopIsHeard == Spec => NoAnalysisAfterStop
<1>1. AppInv /\ [Next]_vars => [stop /\ pc # "sources" => pc' # "sources"]_vars
  <2> SUFFICES ASSUME AppInv, Next, stop, pc # "sources" PROVE pc' # "sources"
      OBVIOUS
  <2> QED
      BY DEF AppInv, Before, Heard, Early, Accepted, Counted, Next, Step, Parse, LoadFails, Load,
             BuildSurface, BuildSources, BuildStore, Index, BuildAnalyzer, Analyze, CloseSource,
             CloseStore, AfterClose, Act, Emit, PrintResults, Check, Wake, Woken, GoOn, Raises,
             Exit, Goto, Signal, Ended, vars
<1> QED
    BY <1>1, AppInvariant, PTL DEF Spec, NoAnalysisAfterStop

----------------------------------------------------------------------------
\* What is open, at every point of an analysis: of every analysis so far what
\* it leaves open, and what the current one has opened and not closed yet.
HeldBy(indices) ==
  { << "source", i >> : i \in { k \in indices : HoldsClient(config.sources[k]) } }

Opened ==
  HeldBy(built \cup Shadowed)
  \cup (IF pc = "store" THEN {} ELSE ModelClient("embeddings") \cup StoreClient)
  \cup (IF pc \in { "store", "index", "analyzer" } THEN {} ELSE ModelClient("llm"))

Between == { "parse", "load", "surface", "sources", "act", "emit", "print", "check",
             "wait", "woken" }
During == { "store", "index", "analyzer", "analyze", "close" }

\* The analyses before the current one left open what they leave open.
PastLeft(parts) == unclosed = ((1..(rounds - 1)) \X LeftOpen) \cup ({rounds} \X parts)

LeakInv ==
  /\ pc \in Between => unclosed = (1..rounds) \X LeftOpen
  /\ pc \in During => rounds >= 1 /\ PastLeft(Opened) /\ built \cap Shadowed = {}
  /\ pc = "exit" => \/ rounds = 0 /\ unclosed = {}
                    \/ rounds >= 1 /\ \E parts : PastLeft(parts)

\* Every source constructed is kept or shadowed.
LEMMA KeptOrShadowed ==
  ASSUME config \in Configs
  PROVE  /\ Kept(DOMAIN config.sources) \cap Shadowed = {}
         /\ Kept(DOMAIN config.sources) \cup Shadowed = DOMAIN config.sources
  BY SourcesAssumption DEF Kept, Shadowed

\* The process ends from between two analyses ...
LEMMA EndsBetween ==
  ASSUME rounds \in Nat, unclosed = (1..rounds) \X LeftOpen
  PROVE  \/ rounds = 0 /\ unclosed = {}
         \/ rounds >= 1 /\ \E parts : PastLeft(parts)
<1>1. CASE rounds = 0
  <2>1. 1..rounds = {}
      BY <1>1
  <2> QED
      BY <1>1, <2>1
<1>2. CASE rounds # 0
  <2>1. 1..rounds = (1..(rounds - 1)) \cup {rounds} /\ rounds >= 1
      BY <1>2
  <2>2. PastLeft(LeftOpen)
      BY <2>1 DEF PastLeft
  <2> QED
      BY <2>1, <2>2
<1> QED
    BY <1>1, <1>2

\* What one analysis opens, as a product.
LEMMA Tagged ==
  ASSUME NEW n, NEW parts
  PROVE  { << n, p >> : p \in parts } = {n} \X parts
  OBVIOUS

LEMMA LeakStep == AppInv /\ LeakInv /\ [Next]_vars => LeakInv'
<1> SUFFICES ASSUME AppInv, LeakInv, [Next]_vars PROVE LeakInv'
    OBVIOUS
<1> USE DEF fixed, world, Exit, Goto
<1>a. config' = config /\ rounds \in Nat
    BY DEF AppInv, Counted, Next, Step, Parse, LoadFails, Load, BuildSurface, BuildSources,
           BuildStore, Index, BuildAnalyzer, Analyze, CloseSource, CloseStore, Act, Emit,
           PrintResults, Check, Wake, Woken, Signal, Ended, vars
<1>b. /\ Shadowed' = Shadowed
      /\ LeftOpen' = LeftOpen
      /\ ModelClient("llm")' = ModelClient("llm")
      /\ ModelClient("embeddings")' = ModelClient("embeddings")
      /\ StoreClient' = StoreClient
      /\ \A indices : HeldBy(indices)' = HeldBy(indices)
    BY <1>a DEF Shadowed, LeftOpen, ModelClient, StoreClient, HeldBy
<1>c. ASSUME rounds' = rounds, unclosed' = unclosed, pc \in Between,
             pc' \in Between \cup { "exit" }
      PROVE  LeakInv'
  <2>1. unclosed = (1..rounds) \X LeftOpen
      BY <1>c DEF LeakInv
  <2>2. unclosed' = (1..rounds') \X LeftOpen' /\ rounds' \in Nat
      BY <1>a, <1>b, <1>c, <2>1
  <2>3. \/ rounds' = 0 /\ unclosed' = {}
        \/ rounds' >= 1 /\ \E parts : PastLeft(parts)'
    <3>1. \/ rounds = 0 /\ unclosed = {}
          \/ rounds >= 1 /\ \E parts : PastLeft(parts)
        BY <1>a, <2>1, EndsBetween
    <3> QED
        BY <1>b, <1>c, <3>1 DEF PastLeft
  <2> QED
      BY <1>c, <2>2, <2>3 DEF LeakInv, Between, During
<1>1. CASE BuildSources
  <2> DEFINE made == { i \in DOMAIN config.sources : \A k \in Refused : i < k }
  <2>1. /\ pc = "sources" /\ rounds' = rounds + 1 /\ built' = Kept(made)
        /\ unclosed' = unclosed \cup { << rounds + 1, p >> : p \in HeldBy(made) }
        /\ IF Refused = {} THEN pc' = "store" ELSE pc' = "exit"
      BY <1>1 DEF BuildSources, Raises, HeldBy
  <2>2. unclosed = (1..rounds) \X LeftOpen
      BY <2>1 DEF LeakInv, Between
  <2>3. rounds' - 1 = rounds /\ rounds' >= 1
      BY <1>a, <2>1
  <2>4. unclosed' = ((1..(rounds' - 1)) \X LeftOpen') \cup ({rounds'} \X HeldBy(made))
    <3>1. { << rounds + 1, p >> : p \in HeldBy(made) } = {rounds + 1} \X HeldBy(made)
        BY Tagged
    <3> HIDE DEF made
    <3> QED
        BY <1>b, <2>1, <2>2, <2>3, <3>1
  <2>6. CASE Refused = {}
    <3>1. made = DOMAIN config.sources
        BY <2>6
    <3>2. built' \cap Shadowed' = {} /\ built' \cup Shadowed' = DOMAIN config.sources
        BY <1>b, <2>1, <3>1, KeptOrShadowed DEF AppInv
    <3>3. Opened' = HeldBy(made)
        BY <1>b, <2>1, <2>6, <3>1, <3>2 DEF Opened
    <3>4. PastLeft(Opened)'
        BY <2>4, <1>b, <3>3 DEF PastLeft
    <3> QED
        BY <2>1, <2>3, <2>6, <3>2, <3>4 DEF LeakInv, Between, During
  <2>7. CASE Refused # {}
    <3>1. \E parts : PastLeft(parts)'
        BY <2>4, <1>b DEF PastLeft
    <3> QED
        BY <2>1, <2>3, <2>7, <3>1 DEF LeakInv, Between, During
  <2> QED
      BY <2>6, <2>7
<1>d. pc \in During => rounds >= 1 /\ PastLeft(Opened) /\ built \cap Shadowed = {}
    BY DEF LeakInv
<1>e. ASSUME rounds' = rounds, pc \in During, pc' \in During \cup { "exit" },
             built' \subseteq built,
             \/ PastLeft(Opened)'
             \/ pc' = "exit" /\ \E parts : PastLeft(parts)'
      PROVE  LeakInv'
    BY <1>b, <1>d, <1>e DEF LeakInv, Between, During
<1>2. CASE BuildStore
  <2>1. rounds' = rounds /\ built' = built /\ pc = "store" /\ pc' \in { "index", "exit" }
      BY <1>2 DEF BuildStore, Raises
  <2>2. unclosed = ((1..(rounds - 1)) \X LeftOpen) \cup ({rounds} \X HeldBy(built \cup Shadowed))
      BY <1>d, <2>1 DEF During, PastLeft, Opened
  <2>3. PICK parts : /\ unclosed' = unclosed \cup ({rounds} \X parts)
                     /\ pc' = "index" => parts = ModelClient("embeddings") \cup StoreClient
    <3>1. \/ pc' = "index" /\ Opens(ModelClient("embeddings") \cup StoreClient)
          \/ pc' = "exit" /\ Opens(ModelClient("embeddings"))
        BY <1>2 DEF BuildStore, Raises
    <3>2. CASE pc' = "index" /\ Opens(ModelClient("embeddings") \cup StoreClient)
      <4>1. unclosed' = unclosed \cup ({rounds} \X (ModelClient("embeddings") \cup StoreClient))
          BY <3>2, Tagged DEF Opens
      <4> QED
          BY <4>1
    <3>3. CASE pc' = "exit" /\ Opens(ModelClient("embeddings"))
      <4>1. unclosed' = unclosed \cup ({rounds} \X ModelClient("embeddings"))
          BY <3>3, Tagged DEF Opens
      <4> QED
          BY <3>3, <4>1
    <3> QED
        BY <3>1, <3>2, <3>3
  <2>5. CASE pc' = "index"
    <3>1. Opened' = HeldBy(built \cup Shadowed) \cup parts
        BY <1>b, <2>1, <2>3, <2>5 DEF Opened
    <3>2. PastLeft(Opened)'
        BY <1>b, <2>1, <2>2, <2>3, <3>1 DEF PastLeft
    <3> QED
        BY <1>e, <2>1, <3>2 DEF During
  <2>6. CASE pc' = "exit"
    <3>1. unclosed' = ((1..(rounds - 1)) \X LeftOpen)
                      \cup ({rounds} \X (HeldBy(built \cup Shadowed) \cup parts))
        BY <2>2, <2>3
    <3>2. PICK q : q = HeldBy(built \cup Shadowed) \cup parts
        OBVIOUS
    <3>3. \E r : PastLeft(r)'
        BY <1>b, <2>1, <3>1, <3>2 DEF PastLeft
    <3> QED
        BY <1>e, <2>1, <2>6, <3>3 DEF During
  <2> QED
      BY <2>1, <2>5, <2>6
<1>3. CASE Index
  <2>1. /\ rounds' = rounds /\ built' = built /\ unclosed' = unclosed
        /\ pc = "index" /\ pc' \in { "analyzer", "exit" }
      BY <1>3 DEF Index, Raises
  <2>2. pc' = "analyzer" => Opened' = Opened
      BY <1>b, <2>1 DEF Opened
  <2>3. PastLeft(Opened)
      BY <1>d, <2>1 DEF During
  <2>4. pc' = "analyzer" => PastLeft(Opened)'
      BY <1>b, <2>1, <2>2, <2>3 DEF PastLeft
  <2>5. \E parts : PastLeft(parts)'
      BY <1>b, <2>1, <2>3 DEF PastLeft
  <2> QED
      BY <1>e, <2>1, <2>4, <2>5 DEF During
<1>4. CASE BuildAnalyzer
  <2>1. /\ rounds' = rounds /\ built' = built /\ pc = "analyzer" /\ pc' = "analyze"
        /\ unclosed' = unclosed \cup ({rounds} \X ModelClient("llm"))
      BY <1>4 DEF BuildAnalyzer, Opens
  <2>2. Opened' = Opened \cup ModelClient("llm")
      BY <1>b, <2>1 DEF Opened
  <2>3. PastLeft(Opened)
      BY <1>d, <2>1 DEF During
  <2>4. PastLeft(Opened)'
      BY <1>b, <2>1, <2>2, <2>3 DEF PastLeft
  <2> QED
      BY <1>e, <2>1, <2>4 DEF During
<1>5. CASE Analyze
  <2>1. /\ rounds' = rounds /\ built' = built /\ unclosed' = unclosed
        /\ pc = "analyze" /\ pc' = "close"
      BY <1>5 DEF Analyze
  <2>2. Opened' = Opened
      BY <1>b, <2>1 DEF Opened
  <2>3. PastLeft(Opened)'
      BY <1>b, <1>d, <2>1, <2>2 DEF PastLeft, During
  <2> QED
      BY <1>e, <2>1, <2>3 DEF During
<1>6. CASE CloseSource
  <2>1. rounds' = rounds /\ pc = "close" /\ PastLeft(Opened) /\ built \cap Shadowed = {}
      BY <1>6, <1>d DEF CloseSource, During
  <2>2. CASE pc' = "exit"
    <3>1. unclosed' = unclosed /\ built' = built
        BY <1>6, <2>1, <2>2 DEF CloseSource, Raises
    <3>2. \E parts : PastLeft(parts)'
        BY <1>b, <2>1, <3>1 DEF PastLeft
    <3> QED
        BY <1>e, <2>1, <2>2, <3>1, <3>2 DEF During
  <2>3. CASE pc' # "exit"
    <3>1. PICK i \in built : /\ built' = built \ {i} /\ pc' = pc
                             /\ unclosed' = unclosed \ { << rounds, << "source", i >> >> }
        BY <1>6, <2>3 DEF CloseSource, StillOpen, Raises
    <3>2. HeldBy((built \ {i}) \cup Shadowed) = HeldBy(built \cup Shadowed) \ { << "source", i >> }
        BY <2>1, <3>1 DEF HeldBy
    <3>3. << "source", i >> \notin ModelClient("embeddings") \cup StoreClient \cup ModelClient("llm")
        BY DEF ModelClient, StoreClient
    <3>4. Opened' = Opened \ { << "source", i >> }
        BY <1>b, <2>1, <3>1, <3>2, <3>3 DEF Opened
    <3>5. rounds \notin 1..(rounds - 1)
        BY <1>a
    <3>6. PastLeft(Opened)'
        BY <1>b, <2>1, <3>1, <3>4, <3>5 DEF PastLeft
    <3> QED
        BY <1>e, <2>1, <3>1, <3>6 DEF During
  <2> QED
      BY <2>2, <2>3
<1>7. CASE CloseStore
  <2>1. /\ rounds' = rounds /\ unclosed' = unclosed /\ pc = "close" /\ built = {}
        /\ built' = built /\ pc' \in { "act", "emit", "exit" }
      BY <1>7 DEF CloseStore, AfterClose, StillOpen, Raises
  <2>2. PastLeft(Opened) /\ rounds >= 1
      BY <1>d, <2>1 DEF During
  <2>3. Opened = LeftOpen
      BY <2>1 DEF Opened, LeftOpen, HeldBy
  <2>4. 1..rounds = (1..(rounds - 1)) \cup {rounds}
      BY <1>a, <2>2
  <2>5. unclosed' = (1..rounds') \X LeftOpen'
      BY <1>b, <2>1, <2>2, <2>3, <2>4 DEF PastLeft
  <2>6. \E parts : PastLeft(parts)'
      BY <1>b, <2>1, <2>2 DEF PastLeft
  <2> QED
      BY <2>1, <2>2, <2>5, <2>6 DEF LeakInv, Between, During
<1>8. CASE Parse \/ LoadFails \/ Load \/ BuildSurface
    BY <1>c, <1>8 DEF Parse, LoadFails, Load, BuildSurface, Raises, Between
<1>9. CASE Act \/ Emit \/ PrintResults \/ Check \/ Wake \/ Woken
    BY <1>c, <1>9 DEF Act, Emit, PrintResults, Check, Wake, Woken, GoOn, Raises, Between
<1>10. CASE Signal \/ UNCHANGED vars
  <2>1. pc' = pc /\ rounds' = rounds /\ unclosed' = unclosed /\ built' = built
      BY <1>10 DEF Signal, vars
  <2>2. Opened' = Opened
      BY <1>b, <2>1 DEF Opened
  <2> QED
      BY <1>b, <2>1, <2>2 DEF LeakInv, PastLeft
<1> QED
    BY <1>1, <1>2, <1>3, <1>4, <1>5, <1>6, <1>7, <1>8, <1>9, <1>10 DEF Next, Step, Ended

\* However many analyses a daemon makes, each that came back leaves open its
\* model clients, its Chroma client and the sources whose name another one
\* took, and nothing else.
THEOREM LeakIsAccounted == Spec => []LeakIsKnown
<1>1. Init => LeakInv
  <2> SUFFICES ASSUME Init PROVE LeakInv
      OBVIOUS
  <2>1. 1..rounds = {}
      BY DEF Init
  <2> QED
      BY <2>1 DEF Init, LeakInv, During
<1>2. AppInv /\ LeakInv => LeakIsKnown
  <2> SUFFICES ASSUME AppInv, LeakInv PROVE LeakIsKnown
      OBVIOUS
  <2>1. rounds \in Nat /\ pc \in PCs
      BY DEF AppInv, Counted
  <2>2. CASE pc \in Between
    <3>1. unclosed = (1..rounds) \X LeftOpen
        BY <2>2 DEF LeakInv
    <3>2. { u \in unclosed : u[1] <= rounds } = (1..rounds) \X LeftOpen
        BY <2>1, <3>1
    <3> QED
        BY <2>2, <3>2 DEF LeakIsKnown, Between
  <2>3. CASE pc \notin Between
    <3>1. \/ rounds = 0 /\ unclosed = {}
          \/ rounds >= 1 /\ \E parts : PastLeft(parts)
        BY <2>1, <2>3 DEF LeakInv, PCs, Between, During
    <3>2. { u \in unclosed : u[1] <= rounds - 1 } = (1..(rounds - 1)) \X LeftOpen
      <4>1. CASE rounds = 0 /\ unclosed = {}
        <5>1. 1..(rounds - 1) = {}
            BY <4>1
        <5> QED
            BY <4>1, <5>1
      <4>2. CASE rounds >= 1 /\ \E parts : PastLeft(parts)
        <5>1. PICK parts : unclosed = ((1..(rounds - 1)) \X LeftOpen) \cup ({rounds} \X parts)
            BY <4>2 DEF PastLeft
        <5>2. ~(rounds <= rounds - 1) /\ \A n \in 1..(rounds - 1) : n <= rounds - 1
            BY <2>1
        <5> QED
            BY <5>1, <5>2
      <4> QED
          BY <3>1, <4>1, <4>2
    <3> QED
        BY <2>3, <3>2 DEF LeakIsKnown, Between
  <2> QED
      BY <2>2, <2>3
<1> QED
    BY <1>1, <1>2, AppInvariant, LeakStep, PTL DEF Spec
=============================================================================
