\* The in-memory store under arbitrary callers.
SPECIFICATION StoreSpec
CONSTANTS
  Subjects = {s1, s2}
  Fingerprints = {fpA, fpB}
  NoMeta = nometa
  Metas = {nometa, m1}
  Configs = {NONE}
  Modes = {IMPORT}
  Unset = unset
  Ids = {1, 2}
  ImportVersions = {1}
  MaxID = 2
  MaxVersion = 2
SYMMETRY StoreSymmetry
INVARIANTS
  NoDanglingVersion
  FingerprintSound
PROPERTIES
  VersionsImmutable
