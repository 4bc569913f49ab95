\* A key whose user was deleted cannot be revoked (module MCAccounts).
SPECIFICATION Spec
CONSTANTS
  Clients = {c1}
  Loads <- OrphanLoads
  NoRow = norow
  Nodes = {n1}
  ann = ann
  bob = bob
  UserNames <- Everyone
  Passwords = {p1}
  Emails = {}
  KeyNames = {ci}
  NewNames = {new}
  MaxUser = 1
  MaxKey = 1
CHECK_DEADLOCK TRUE
PROPERTIES
  RevokeDisables
