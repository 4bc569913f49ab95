\* PostgreSQL and MySQL: interleaved writes, and every call in turn (module MCSQL).
SPECIFICATION Spec
CONSTANTS
  s1 = s1
  s2 = s2
  fpA = fpA
  fpB = fpB
  m0 = m0
  m1 = m1
  Clients = {c1, c2}
  Subjects = {s1, s2}
  Fingerprints = {fpA, fpB}
  Metas = {m0, m1}
  Refs <- RefBtoA
  Engines = {"postgres", "mysql"}
  Loads <- AllLoads
  Serial = {"deletes", "migration"}
  Calls <- LoadCalls
  NoRequest = norequest
  MaxRetries = 2
  MaxVersion = 2
  MaxID = 3
INVARIANTS
  TablesAgree
  AnswerDurable
  NoDuplicateVersion
PROPERTIES
  EveryCallEnds
