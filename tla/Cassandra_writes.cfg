\* Two instances registering and soft-deleting, with every fault (module MCCassandraStore).
SPECIFICATION LoadedSpec
CONSTANTS
  s1 = s1
  s2 = s2
  fpA = fpA
  fpB = fpB
  fpC = fpC
  m1 = m1
  c1 = c1
  c2 = c2
  i1 = i1
  i2 = i2
  Instances = {i1, i2}
  Clients = {c1, c2}
  Home <- Apart
  NoClient = none
  BlockSize = 1
  MaxRetries = 2
  Targets = {}
  MaxNextID = 2
  Subjects = {s1}
  Fingerprints = {fpA, fpB}
  NoContent = nocontent
  NoMeta = nometa
  Metas = {nometa}
  Refs <- NoRefs
  LoadNames = {"writes"}
  Requests <- LoadedCalls
  NoRequest = norequest
  Faults = {"abort", "swallow", "restart"}
  MaxVersion = 2
SYMMETRY Symmetry
INVARIANTS
  OneIDPerContent
  NoDanglingVersion
  AnswersTrue
