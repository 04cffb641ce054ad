SPECIFICATION FairSpec
CONSTANTS
  Calls = {c1, c2, c3}
  Ids = {p1, p2}
  NoId = NoId
  NoCall = NoCall
INVARIANTS
  UnanswerableIsOvertaken
PROPERTIES
  FirstAnswerStands
  KeepsContract
  DecideReturns
CHECK_DEADLOCK FALSE
