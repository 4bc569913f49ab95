\* Every operation, one call at a time, or two instances contending (module MCCassandraStore).
SPECIFICATION LoadedSpec
CONSTANTS
  s1 = s1
  s2 = s2
  fpA = fpA
  fpB = fpB
  fpC = fpC
  m1 = m1
  c1 = c1
  c2 = c2
  i1 = i1
  i2 = i2
  Instances = {i1, i2}
  Clients = {c1, c2}
  Home <- Apart
  NoClient = none
  BlockSize = 2
  MaxRetries = 2
  Targets = {}
  MaxNextID = 2
  Subjects = {s1, s2}
  Fingerprints = {fpA, fpB, fpC}
  NoContent = nocontent
  NoMeta = nometa
  Metas = {nometa}
  Refs <- RefBtoA
  LoadNames = {"serial", "contention"}
  Requests <- LoadedCalls
  NoRequest = norequest
  Faults = {}
  MaxVersion = 2
INVARIANTS
  TablesAgreeInTurn
PROPERTIES
  EveryCallEnds
