SPECIFICATION Spec
CONSTANTS
  Allowlist <- MCAllowlist
  ReservedNames <- MCReserved
  NoLimit = NoLimit
  NoCall = NoCall
  NoProposal = NoProposal
  Calls = {c1, c2}
  Ids = {p1, p2, p3}
  Proposals <- LoneProposals
  Requests <- MCRequests
  MaxActions = 2
  Window = 1
  Threshold = 2
  MaxTime = 1
  Answers = {"success", "failure", "skipped"}
SYMMETRY MCSymmetry
INVARIANTS
  BreakerCountsFailures
  StampsCoverWindow
PROPERTIES
  AdmissionPolicy
