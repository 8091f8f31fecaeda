SPECIFICATION Spec
CONSTANTS
  ApprovalIds = {a1}
  Ingests = {}
  Presents = {}
  Decides = {d1}
  Retries = {t1, t2}
  Cancels = {}
  Keys = {}
  Reviewers = {u1}
  AllowedActions <- AllowTwo
  Gated = {}
  Legacy = {a1}
  ReceiptPage = 100
  SinkModes = {TRUE}
  MaxCrashes = 1
  NoRequest = NoRequest
  NoApproval = NoApproval
  NoKey = NoKey
  NoReviewer = NoReviewer
  OldRequest = OldRequest
SYMMETRY Symmetry
CHECK_DEADLOCK FALSE
INVARIANTS TypeOK EvidenceOrder SettledMeansTold RetryKeepsDecider
