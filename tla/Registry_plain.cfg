\* Two clients registering and deleting, no import (module MCRegistry).
SPECIFICATION LoadedSpec
CONSTANTS
  s1 = s1
  s2 = s2
  fpA = fpA
  fpB = fpB
  fpC = fpC
  m1 = m1
  Clients = {c1, c2}
  Subjects = {s1, s2}
  Fingerprints = {fpA, fpB}
  NoMeta = nometa
  Metas = {nometa, m1}
  Configs <- MCConfigs
  Modes = {"IMPORT"}
  Unset = unset
  Ids = {}
  ImportVersions = {}
  MaxID = 2
  MaxVersion = 2
  NoRequest = none
  LoadNames = {"plain"}
  Requests <- LoadedRequests
  Refs <- NoRefs
  Readable <- AllReadable
  DefaultConfig = "BACKWARD"
  Properties = {"line"}
  Property <- MCProperty
  Reserved <- MCReserved
  TopLevel <- MCTopLevel
SYMMETRY Symmetry
INVARIANTS
  AnswersTrue
  NoDuplicates
PROPERTIES
  ImplementsLog
