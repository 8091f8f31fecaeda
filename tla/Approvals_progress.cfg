SPECIFICATION FairSpec
CONSTANTS
  ApprovalIds = {a1}
  Ingests = {i1}
  Presents = {p1}
  Decides = {d1}
  Retries = {}
  Cancels = {c1}
  Keys = {}
  Reviewers = {u1}
  AllowedActions <- AllowTwo
  Gated = {}
  Legacy = {}
  ReceiptPage = 100
  SinkModes = {TRUE, FALSE}
  MaxCrashes = 1
  NoRequest = NoRequest
  NoApproval = NoApproval
  NoKey = NoKey
  NoReviewer = NoReviewer
  OldRequest = OldRequest
CHECK_DEADLOCK FALSE
INVARIANTS ReceiptSeqUnique
PROPERTIES RequestsFinish
