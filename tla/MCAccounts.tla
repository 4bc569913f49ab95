------------------------------ MODULE MCAccounts ------------------------------
(* Workloads for the authentication service.                                *)
EXTENDS AuthService

CONSTANTS ann, bob

Load(ops, serial, on, who, stored) ==
  [ops |-> ops, serial |-> serial, alone |-> {}, on |-> on, names |-> who, stored |-> stored]
UserOps == {"CreateUser", "BootstrapAdmin", "UpdateUser", "DeleteUser"}
KeyOps == {"CreateAPIKey", "UpdateAPIKey", "RevokeAPIKey", "DeleteAPIKey", "RotateAPIKey"}
Everyone == {ann, bob}

\* validations against revocations, deletes and refreshes on two nodes
L1 == { Load({"ValidateAPIKey", "RevokeAPIKey", "DeleteAPIKey", "refresh"}, FALSE, {"memory", "postgres"}, {}, TRUE),
        Load({"ValidateAPIKey", "RevokeAPIKey", "refresh"}, FALSE, {"cassandra"}, {}, TRUE),
        Load({"ValidateAPIKey", "DeleteAPIKey", "refresh"}, FALSE, {"mysql", "cassandra"}, {}, TRUE) }
\* in memory, updates against revocations
L2 == Load({"UpdateAPIKey", "RevokeAPIKey"}, FALSE, {"memory"}, {}, TRUE)
\* logins against changes of the user
L3 == Load({"ValidateCredentials", "ChangePassword", "UpdateUser", "expire"}, FALSE, {"memory", "postgres"}, {ann}, TRUE)
\* creates and bootstraps
L4 == Load(UserOps \ {"UpdateUser"}, FALSE, {"memory", "postgres", "mysql"}, Everyone, FALSE)
\* everything, one request at a time
L5 == Load(UserOps \cup {"ValidateCredentials", "ChangePassword", "disconnect"}, TRUE, Backends, Everyone, TRUE)
L6 == Load(KeyOps \cup {"ValidateAPIKey", "DeleteUser", "disconnect"}, TRUE, Backends, {}, TRUE)
AllLoads == L1 \cup {L2, L3, L4, L5, L6}

ASSUME LoadsRefreshApart == RefreshesApart

OrphanLoads == { Load({"RevokeAPIKey", "DeleteUser"}, TRUE, {"postgres", "mysql"}, {}, TRUE) }
===============================================================================
