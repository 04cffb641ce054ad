SPECIFICATION Spec
CONSTANTS
  Allowlist <- MCAllowlist
  ReservedNames <- MCReserved
  NoLimit = NoLimit
  NoCall = NoCall
  NoProposal = NoProposal
  Calls = {c1, c2}
  Ids = {p1, p2}
  Proposals <- MixedProposals
  Requests <- MCRequests
  MaxActions = 2
  Window = 1
  Threshold = 2
  MaxTime = 0
  Answers = {"success", "skipped", "raise"}
SYMMETRY MCSymmetry
INVARIANTS
  TypeOK
  ApprovedBeforeMutation
  DryRunsAreInert
  AuditMatchesWorld
  RetryPolicy
  ResultsTellWhatHappened
PROPERTIES
  KilledStartsNothing
