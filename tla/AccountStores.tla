--------------------------- MODULE AccountStores ---------------------------
(***************************************************************************)
(* The operations of the four backends on users and API keys.  Every query *)
(* is a step.                                                              *)
(***************************************************************************)
EXTENDS AccountTables

-----------------------------------------------------------------------------
(* Memory: maps of pointers, under one mutex.                              *)

MemGetUserByID(u) == users[u]
MemGetUserByUsername(name) == IF names[name] = 0 THEN NoRow ELSE users[names[name]]
MemListUsers == StoredUsers
MemCreateUser(c) ==
  /\ call[c].at = "createUser"
  /\ InsertUser(c, names[call[c].in.rec.name] # 0) /\ UNCHANGED keyTables
MemUpdateUser(c) ==
  /\ call[c].at = "updateUser"
  /\ ReplaceUser(c, users[UserOf(call[c].got).id] # NoRow, "notFound") /\ UNCHANGED keyTables

\* The keys of the user stay.
MemDeleteUser(c) ==
  LET u == call[c].in.id IN
  /\ call[c].at = "deleteUser"
  /\ IF users[u] = NoRow THEN Reply(c, "notFound") /\ UNCHANGED userTables
     ELSE /\ users' = [users EXCEPT ![u] = NoRow]
          /\ names' = [names EXCEPT ![User(u).name] = 0]
          /\ Reply(c, "nil")
          /\ UNCHANGED <<userObj, nextUser>>
  /\ UNCHANGED keyTables

MemGetAPIKeyByID(k) == keys[k]
MemGetAPIKeyByHash(k) == keys[k]
MemListAPIKeys == StoredKeys
MemListAPIKeysByUserID(u) == {k \in StoredKeys : Key(k).user = u}
MemGetAPIKeyByUserAndName(u, name) == {k \in MemListAPIKeysByUserID(u) : Key(k).name = name}
MemCreateAPIKey(c) == call[c].at = "createKey" /\ InsertKey(c) /\ UNCHANGED <<byUser, byHash, userTables>>
MemUpdateAPIKey(c) ==
  /\ call[c].at = "updateKey"
  /\ ReplaceKey(c, keys[KeyOf(call[c].got).id] # NoRow, "notFound") /\ UNCHANGED userTables
MemDeleteAPIKey(c) ==
  LET k == call[c].in.id IN
  /\ call[c].at = "deleteKey"
  /\ keys' = [keys EXCEPT ![k] = NoRow]
  /\ Reply(c, IF keys[k] = NoRow THEN "notFound" ELSE "nil")
  /\ UNCHANGED <<byUser, byHash, keyObj, nextKey, userTables>>
MemStep(c) ==
  \/ MemCreateUser(c) \/ MemUpdateUser(c) \/ MemDeleteUser(c)
  \/ MemCreateAPIKey(c) \/ MemUpdateAPIKey(c) \/ MemDeleteAPIKey(c)

-----------------------------------------------------------------------------
(* PostgreSQL: usernames, addresses and hashes are unique; user_id is a    *)
(* foreign key, set to null when the user is deleted and read as 0.        *)

PgGetUserByID(u) == users[u]
PgGetUserByUsername(name) ==
  LET found == {u \in StoredUsers : users[u].name = name} IN
  IF found = {} THEN NoRow ELSE users[Min(found)]
PgListUsers == StoredUsers
Taken(rec) ==
  \E u \in StoredUsers \ {rec.id} :
     users[u].name = rec.name \/ (rec.email # NoRow /\ users[u].email = rec.email)

\* Mutant: no unique index on the names.
PgCreateUserTwice(c) ==
  call[c].at = "createUser" /\ InsertUser(c, FALSE) /\ UNCHANGED keyTables

PgCreateUser(c) ==
  call[c].at = "createUser" /\ InsertUser(c, Taken(call[c].in.rec)) /\ UNCHANGED keyTables
PgUpdateUser(c) ==
  LET rec == call[c].got IN
  /\ call[c].at = "updateUser"
  /\ ReplaceUser(c, users[rec.id] # NoRow /\ ~Taken(rec), IF users[rec.id] = NoRow THEN "notFound" ELSE "exists")
  /\ UNCHANGED keyTables
PgDeleteUser(c) ==
  LET u == call[c].in.id IN
  /\ call[c].at = "deleteUser"
  /\ users' = [users EXCEPT ![u] = NoRow]
  /\ keys' = [k \in KeyIDs |-> IF keys[k] # NoRow /\ keys[k].user = u THEN [keys[k] EXCEPT !.user = 0] ELSE keys[k]]
  /\ Reply(c, IF users[u] = NoRow THEN "notFound" ELSE "nil")
  /\ UNCHANGED <<names, userObj, nextUser, byUser, byHash, keyObj, nextKey>>

PgGetAPIKeyByID(k) == keys[k]
PgGetAPIKeyByHash(k) == keys[k]
PgListAPIKeys == StoredKeys
PgListAPIKeysByUserID(u) == {k \in StoredKeys : keys[k].user = u /\ u # 0}
PgGetAPIKeyByUserAndName(u, name) == {k \in PgListAPIKeysByUserID(u) : keys[k].name = name}
PgCreateAPIKey(c) ==
  /\ call[c].at = "createKey"
  /\ IF call[c].in.user \notin StoredUsers THEN Reply(c, "foreignKey") /\ UNCHANGED keyTables
     ELSE InsertKey(c) /\ UNCHANGED <<byUser, byHash>>
  /\ UNCHANGED userTables

\* Every column is written: 0 for the user that was null is no user's ID.
PgUpdateAPIKey(c) ==
  LET rec == call[c].got IN
  /\ call[c].at = "updateKey"
  /\ ReplaceKey(c, keys[rec.id] # NoRow /\ rec.user \in StoredUsers,
                IF keys[rec.id] = NoRow THEN "notFound" ELSE "foreignKey")
  /\ UNCHANGED userTables
PgDeleteAPIKey(c) == MemDeleteAPIKey(c)
PgStep(c) ==
  \/ PgCreateUser(c) \/ PgUpdateUser(c) \/ PgDeleteUser(c)
  \/ PgCreateAPIKey(c) \/ PgUpdateAPIKey(c) \/ PgDeleteAPIKey(c)

-----------------------------------------------------------------------------
(* MySQL: the same tables.                                                 *)

MyGetUserByID(u) == users[u]
MyGetUserByUsername(name) == PgGetUserByUsername(name)
MyListUsers == StoredUsers
MyCreateUser(c) == PgCreateUser(c)
MyUpdateUser(c) == PgUpdateUser(c)
MyDeleteUser(c) == PgDeleteUser(c)
MyGetAPIKeyByID(k) == keys[k]
MyGetAPIKeyByHash(k) == keys[k]
MyListAPIKeys == StoredKeys
MyListAPIKeysByUserID(u) == PgListAPIKeysByUserID(u)
MyGetAPIKeyByUserAndName(u, name) == PgGetAPIKeyByUserAndName(u, name)
MyCreateAPIKey(c) == PgCreateAPIKey(c)

\* A row that the update leaves as it is does not count as affected.
MyUpdateAPIKey(c) ==
  LET rec == call[c].got IN
  /\ call[c].at = "updateKey"
  /\ ReplaceKey(c, keys[rec.id] \notin {NoRow, rec} /\ rec.user \in StoredUsers,
                IF keys[rec.id] \in {NoRow, rec} THEN "notFound" ELSE "foreignKey")
  /\ UNCHANGED userTables
MyDeleteAPIKey(c) == MemDeleteAPIKey(c)
MyStep(c) ==
  \/ MyCreateUser(c) \/ MyUpdateUser(c) \/ MyDeleteUser(c)
  \/ MyCreateAPIKey(c) \/ MyUpdateAPIKey(c) \/ MyDeleteAPIKey(c)

-----------------------------------------------------------------------------
(* Cassandra: tables by ID, by name, by user and by hash, written together *)
(* in logged batches after a read; an update inserts what is not there.    *)

CasGetUserByID(u) == users[u]
CasGetUserByUsername(name) == IF names[name] = 0 THEN NoRow ELSE users[names[name]]
CasListUsers == StoredUsers
CasCreateUser(c) ==
  \/ /\ call[c].at = "createUser"
     /\ IF CasGetUserByUsername(call[c].in.rec.name) # NoRow THEN Reply(c, "exists") ELSE Goto(c, "putUser", NoRow)
     /\ UNCHANGED <<userTables, keyTables>>
  \/ call[c].at = "putUser" /\ InsertUser(c, FALSE) /\ UNCHANGED keyTables
CasUpdateUser(c) ==
  LET rec == call[c].got IN
  \/ /\ call[c].at = "updateUser"
     /\ IF users[rec.id] = NoRow THEN Reply(c, "notFound") ELSE Goto(c, "writeUser", rec)
     /\ UNCHANGED <<userTables, keyTables>>
  \/ /\ call[c].at = "writeUser"
     /\ users' = [users EXCEPT ![rec.id] = rec]
     /\ names' = [names EXCEPT ![rec.name] = rec.id]
     /\ Goto(c, "invalidateUser", NoRow)
     /\ UNCHANGED <<userObj, nextUser, keyTables>>
CasDeleteUser(c) ==
  LET u == call[c].in.id IN
  \/ /\ call[c].at = "deleteUser"
     /\ IF users[u] = NoRow THEN Reply(c, "notFound") ELSE Goto(c, "dropUser", users[u])
     /\ UNCHANGED <<userTables, keyTables>>
  \/ /\ call[c].at = "dropUser"
     /\ users' = [users EXCEPT ![u] = NoRow]
     /\ names' = [names EXCEPT ![call[c].got.name] = 0]
     /\ Reply(c, "nil")
     /\ UNCHANGED <<userObj, nextUser, keyTables>>

\* A row without its hash, that an update of a deleted key has left.
Ghost(row) == row.user = 0
CasGetAPIKeyByID(k) == keys[k]
CasGetAPIKeyByHash(k) == byHash[k]
CasListAPIKeys == {k \in StoredKeys : ~Ghost(keys[k])}
CasListAPIKeysByUserID(u) == {k \in StoredKeys : <<u, k>> \in byUser}
CasGetAPIKeyByUserAndName(u, name) == {k \in CasListAPIKeysByUserID(u) : keys[k].name = name}
CasCreateAPIKey(c) ==
  /\ call[c].at = "createKey" /\ InsertKey(c)
  /\ byUser' = byUser \cup {<<call[c].in.user, nextKey>>}
  /\ byHash' = [byHash EXCEPT ![nextKey] = keys'[nextKey]]
  /\ UNCHANGED userTables

\* The columns of an update, in a row or in a new one that lacks the others.
Upsert(row, id, name, enabled) ==
  IF row = NoRow THEN [id |-> id, user |-> 0, name |-> name, enabled |-> enabled]
  ELSE [row EXCEPT !.name = name, !.enabled = enabled]

CasUpdateAPIKey(c) ==
  LET rec == call[c].got IN
  \/ /\ call[c].at = "updateKey"
     /\ IF keys[rec.id] = NoRow THEN Fail(c, "notFound") ELSE Goto(c, "putKey", rec)
     /\ UNCHANGED <<userTables, keyTables>>
  \/ /\ call[c].at = "putKey"
     /\ keys' = [keys EXCEPT ![rec.id] = Upsert(@, rec.id, rec.name, rec.enabled)]
     /\ byUser' = byUser \cup {<<rec.user, rec.id>>}
     /\ byHash' = IF Ghost(rec) THEN byHash
                  ELSE [byHash EXCEPT ![rec.id] = Upsert(@, 0, rec.name, rec.enabled)]
     /\ Goto(c, "invalidateKey", NoRow)
     /\ UNCHANGED <<keyObj, nextKey, userTables>>

CasDeleteAPIKey(c) ==
  LET k == call[c].in.id IN
  \/ /\ call[c].at = "deleteKey"
     /\ IF keys[k] = NoRow THEN Reply(c, "notFound") ELSE Goto(c, "dropKey", keys[k])
     /\ UNCHANGED <<userTables, keyTables>>
  \/ /\ call[c].at = "dropKey"
     /\ keys' = [keys EXCEPT ![k] = NoRow]
     /\ byUser' = byUser \ {<<call[c].got.user, k>>}
     /\ byHash' = IF Ghost(call[c].got) THEN byHash ELSE [byHash EXCEPT ![k] = NoRow]
     /\ Reply(c, "nil")
     /\ UNCHANGED <<keyObj, nextKey, userTables>>

\* The time of use goes into the three tables, and makes rows there too.
CasUpdateAPIKeyLastUsed(c) ==
  LET rec == call[c].got
      Touch(row, id) == IF row = NoRow THEN Upsert(row, id, NoRow, FALSE) ELSE row IN
  \/ /\ call[c].at = "lastUsed"
     /\ IF rec.id = 0 \/ keys[rec.id] = NoRow THEN Reply(c, "nil") ELSE Goto(c, "touch", keys[rec.id])
     /\ UNCHANGED <<userTables, keyTables>>
  \/ /\ call[c].at = "touch"
     /\ keys' = [keys EXCEPT ![rec.id] = Touch(@, rec.id)]
     /\ byUser' = byUser \cup {<<rec.user, rec.id>>}
     /\ byHash' = IF Ghost(rec) THEN byHash ELSE [byHash EXCEPT ![rec.id] = Touch(@, 0)]
     /\ Reply(c, "nil")
     /\ UNCHANGED <<keyObj, nextKey, userTables>>
CasStep(c) ==
  \/ CasCreateUser(c) \/ CasUpdateUser(c) \/ CasDeleteUser(c)
  \/ CasCreateAPIKey(c) \/ CasUpdateAPIKey(c) \/ CasDeleteAPIKey(c) \/ CasUpdateAPIKeyLastUsed(c)

-----------------------------------------------------------------------------
StoreStep(c) ==
  \/ backend = "memory" /\ MemStep(c)
  \/ backend = "postgres" /\ PgStep(c)
  \/ backend = "mysql" /\ MyStep(c)
  \/ backend = "cassandra" /\ CasStep(c)

\* What the service reads.
GetUserByID(u) ==
  CASE backend = "memory" -> MemGetUserByID(u) [] backend = "postgres" -> PgGetUserByID(u)
    [] backend = "mysql" -> MyGetUserByID(u) [] backend = "cassandra" -> CasGetUserByID(u)
GetUserByUsername(name) ==
  CASE backend = "memory" -> MemGetUserByUsername(name) [] backend = "postgres" -> PgGetUserByUsername(name)
    [] backend = "mysql" -> MyGetUserByUsername(name) [] backend = "cassandra" -> CasGetUserByUsername(name)
ListUsers ==
  CASE backend = "memory" -> MemListUsers [] backend = "postgres" -> PgListUsers
    [] backend = "mysql" -> MyListUsers [] backend = "cassandra" -> CasListUsers
GetAPIKeyByID(k) ==
  CASE backend = "memory" -> MemGetAPIKeyByID(k) [] backend = "postgres" -> PgGetAPIKeyByID(k)
    [] backend = "mysql" -> MyGetAPIKeyByID(k) [] backend = "cassandra" -> CasGetAPIKeyByID(k)
GetAPIKeyByHash(k) ==
  CASE backend = "memory" -> MemGetAPIKeyByHash(k) [] backend = "postgres" -> PgGetAPIKeyByHash(k)
    [] backend = "mysql" -> MyGetAPIKeyByHash(k) [] backend = "cassandra" -> CasGetAPIKeyByHash(k)
ListAPIKeys ==
  CASE backend = "memory" -> MemListAPIKeys [] backend = "postgres" -> PgListAPIKeys
    [] backend = "mysql" -> MyListAPIKeys [] backend = "cassandra" -> CasListAPIKeys
ListAPIKeysByUserID(u) ==
  CASE backend = "memory" -> MemListAPIKeysByUserID(u) [] backend = "postgres" -> PgListAPIKeysByUserID(u)
    [] backend = "mysql" -> MyListAPIKeysByUserID(u) [] backend = "cassandra" -> CasListAPIKeysByUserID(u)
GetAPIKeyByUserAndName(u, name) ==
  CASE backend = "memory" -> MemGetAPIKeyByUserAndName(u, name)
    [] backend = "postgres" -> PgGetAPIKeyByUserAndName(u, name)
    [] backend = "mysql" -> MyGetAPIKeyByUserAndName(u, name)
    [] backend = "cassandra" -> CasGetAPIKeyByUserAndName(u, name)
=============================================================================
