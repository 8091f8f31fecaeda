SPECIFICATION ExchangeSpec
CONSTANTS
  Tabs = {t1, t2}
  Sessions = {e1, e2, e3}
  MaxClicks = 2
  MaxErrors = 2
  NoSession = NoSession
  Requests <- RequestsMC
  Reviewers = {"u1", "u2"}
  WebForms = {"w1"}
  PhoneScreens = {"f1"}
  FieldValues = {1, 2}
  MaxShown = 2
  SinkConfigs <- SinkConfigsMC
  MaxAppends = 4
  MaxStops = 1
  Policies <- PoliciesMC
  CallKinds <- KindsMC
  Urls <- UrlsMC
  Literals <- AddressesMC
  NameAnswers <- AnswersMC
  AttemptTime = 2
  TotalTime = 4
  Exporters = {x1, x2}
  TraceEvents = {v1, v2}
  Admins = {g1, g2}
  MaxPageWork = 1
  OriginTraces = {w1, NoTrace, BadTrace}
  NoTrace = NoTrace
  BadTrace = BadTrace
  NoExporter = NoExporter
  Asks = {k1, k2}
  Modes = {"off", "closed", "open"}
  MaxResumes = 2
  NoApproval = NoApproval
  NoAnswer = NoAnswer
CHECK_DEADLOCK FALSE
INVARIANTS ExchangeTypeOK RedirectedMeansGone UnlockedIsAdmitted SentAtMostOnce ContactsAllowed OpenIsReturned NoneSkipped
PROPERTIES KeepsPromise
