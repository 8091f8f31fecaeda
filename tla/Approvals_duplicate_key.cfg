SPECIFICATION Spec
CONSTANTS
  ApprovalIds = {a1, a2}
  Ingests = {i1, i2}
  Presents = {}
  Decides = {}
  Retries = {}
  Cancels = {}
  Keys = {k1}
  Reviewers = {u1}
  AllowedActions <- AllowTwo
  Gated = {}
  Legacy = {}
  ReceiptPage = 100
  SinkModes = {TRUE}
  MaxCrashes = 0
  NoRequest = NoRequest
  NoApproval = NoApproval
  NoKey = NoKey
  NoReviewer = NoReviewer
  OldRequest = OldRequest
SYMMETRY Symmetry
CHECK_DEADLOCK FALSE
INVARIANTS OneOpenPerKey
