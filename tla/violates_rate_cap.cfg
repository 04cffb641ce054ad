SPECIFICATION Spec
CONSTANTS
  Allowlist <- MCAllowlist
  ReservedNames <- MCReserved
  NoLimit = NoLimit
  NoCall = NoCall
  NoProposal = NoProposal
  Calls = {c1, c2}
  Ids = {p1, p2}
  Proposals <- LoneProposals
  Requests <- MCRequests
  MaxActions = 1
  Window = 1
  Threshold = 1
  MaxTime = 0
  Answers = {"success"}
INVARIANTS
  RateCap
