SPECIFICATION FairSpec
CONSTANTS
  Configs <- AllConfigs
  Commands = {"validate", "run", "daemon", "once", "help", "misused"}
  MaxRounds = 2
INVARIANTS
  EgressIsAnnounced
  LeakIsKnown
  ActionsNeedOptIn
  ExitCodeTells
PROPERTIES
  NoAnalysisAfterStop
  StopEnds
