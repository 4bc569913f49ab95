\* One client, registrations, deletes and configs, or imports and modes (module MCRegistry).
SPECIFICATION LoadedSpec
CONSTANTS
  s1 = s1
  s2 = s2
  fpA = fpA
  fpB = fpB
  fpC = fpC
  m1 = m1
  Clients = {c1}
  Subjects = {s1, s2}
  Fingerprints = {fpA, fpB, fpC}
  NoMeta = nometa
  Metas = {nometa, m1}
  Configs <- MCConfigs
  Modes = {"IMPORT", "READONLY"}
  Unset = unset
  Ids = {}
  ImportVersions = {}
  MaxID = 3
  MaxVersion = 3
  NoRequest = none
  LoadNames = {"serial", "groups", "migration"}
  Requests <- LoadedRequests
  Refs <- RefBtoA
  Readable <- ChainReadable
  DefaultConfig = "BACKWARD"
  Properties = {"line"}
  Property <- MCProperty
  Reserved <- MCReserved
  TopLevel <- MCTopLevel
INVARIANTS
  ReferencesLive
  CreateFindsFreeID
PROPERTIES
  CompatibilityEnforced
  EveryRequestAnswered
