SPECIFICATION Spec
CONSTANTS
  ApprovalIds = {a1}
  Ingests = {i1}
  Presents = {p1}
  Decides = {d1, d2}
  Retries = {}
  Cancels = {}
  Keys = {}
  Reviewers = {u1}
  AllowedActions <- AllowTwo
  Gated = {}
  Legacy = {}
  ReceiptPage = 100
  SinkModes = {TRUE}
  MaxCrashes = 1
  NoRequest = NoRequest
  NoApproval = NoApproval
  NoKey = NoKey
  NoReviewer = NoReviewer
  OldRequest = OldRequest
SYMMETRY Symmetry
CHECK_DEADLOCK FALSE
INVARIANTS SnapshotHolds DecisionMatchesStatus OneAcceptedAnswer ChainLinked ResumeOnlyAfterEvidence
PROPERTIES ClosedIsFinal
