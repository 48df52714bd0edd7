SPECIFICATION Spec
CONSTANTS
  Links = {c1, c2, c3}
  MaxConnections = 2
  NoLink = NoLink
  JournalLeases = {l1, l2, l3}
  NoLease = NoLease
  MaximumAuditEvents = 3
  MaxEvents = 6
  Symbols = {"p", "%2B", "+", " "}
  SecretValue <- MCSecret
  NoPassword = NoPassword
  URIPassword <- MCPassword
  Unescaped <- MCUnescaped
  Redacted = "redacted"
  Truncated = "truncated"
  MaximumCapturedStream = 3
  MaxWritten = 5
INVARIANTS TypeOK ConnectionLimit NoneServedAfterClose
  JournalIsWindow EndsOnce LivesUntilRecorded
  NothingWholeLeaks CapturesTheBeginning
PROPERTIES SlotsAreFreed OutputReturns
CHECK_DEADLOCK FALSE
