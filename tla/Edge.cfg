\* The audit pipeline, the rate limiter, MCP confirmations and the Vault store.
SPECIFICATION Spec
CONSTANTS
  MaxEvent = 3
  BufferSize = 2
  HookBuffer = 1
  BatchSize = 2
  MaxRetries = 2
  Hosts = {h1}
  Requests = {r1, r2, r3}
  BurstSize = 2
  Rate = 1
  MaxAge = 2
  NoBucket = NoBucket
  Sessions = {s1, s2}
  subjectA = subjectA
  subjectB = subjectB
  default = default
  Calls <- ToolCalls
  TTL = 1
  MaxToken = 2
  NoToken = NoToken
  x1 = x1
  Instances = {x1}
  Callers = {c1, c2}
  Home <- OneInstance
  Names = {n1, n2}
  Emails = {e1}
  MaxRow = 2
  VaultLoads <- Loads
  NoEmail = NoEmail
  Absent = Absent
  Deleted = Deleted
  NoCall = NoCall
\* The audit pipeline stops for good when it is closed.
CHECK_DEADLOCK FALSE
INVARIANTS
  AuditSound
  LimiterExact
  ConfirmedOnce
  VaultConsistent
PROPERTIES
  InOrder
  Progress
