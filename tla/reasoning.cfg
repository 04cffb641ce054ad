SPECIFICATION FairSpec
CONSTANTS
  Configs <- MCConfigs
  Lines <- MCLines
  MaxLines = 3
  ToolCalls <- MCToolCalls
  MaxCalls = 2
INVARIANTS
  TypeOK
  ConversationIsAnswered
  AsksWithinBudget
  CutRepliesAreSafe
PROPERTIES
  KeepsContract
  RunEnds
