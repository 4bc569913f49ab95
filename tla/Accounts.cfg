\* Users, API keys and the authentication service (module MCAccounts).
SPECIFICATION Spec
CONSTANTS
  Clients = {c1, c2}
  Loads <- AllLoads
  NoRow = norow
  Nodes = {n1, n2}
  ann = ann
  bob = bob
  UserNames <- Everyone
  Passwords = {p1, p2}
  Emails = {mail}
  KeyNames = {ci, cd}
  NewNames = {new}
  MaxUser = 2
  MaxKey = 2
CHECK_DEADLOCK TRUE
INVARIANTS
  CachesCoherent
  NamesUnique
PROPERTIES
  KeysChangeAsAsked
  OldCredentialsRefused
