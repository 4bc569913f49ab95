\* The DEK registry and the exporters on the four backends (module MCRecords).
SPECIFICATION Spec
CONSTANTS
  Clients = {c1, c2}
  Loads <- AllLoads
  NoRow = norow
  KEKs = {k1}
  Subjects = {s1}
  Algorithms = {"AES256_GCM", "AES128_GCM"}
  MaxVersion = 1
  MaxGen = 2
  Names = {e1}
  Configs = {g1}
SYMMETRY AnyClient
INVARIANTS
  TablesAgree
  KeyMaterialKept
PROPERTIES
  KeysChangeAsAsked
  ExportersChangeAsAsked
