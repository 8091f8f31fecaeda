SPECIFICATION Spec
CONSTANTS
  ApprovalIds = {a1, a2}
  Ingests = {i1, i2}
  Presents = {}
  Decides = {d1}
  Retries = {}
  Cancels = {c1}
  Keys = {k1}
  Reviewers = {u1, u2}
  AllowedActions <- AllowTwo
  Gated = {a1}
  Legacy = {}
  ReceiptPage = 100
  SinkModes = {FALSE}
  MaxCrashes = 0
  NoRequest = NoRequest
  NoApproval = NoApproval
  NoKey = NoKey
  NoReviewer = NoReviewer
  OldRequest = OldRequest
SYMMETRY Symmetry
CHECK_DEADLOCK FALSE
PROPERTIES RecordsAreDurable KeepsContract
