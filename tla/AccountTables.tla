--------------------------- MODULE AccountTables ---------------------------
(***************************************************************************)
(* Users and API keys as the four backends store them, and the caches that *)
(* every node of the registry keeps of them.  Roles, prefixes and expiry   *)
(* dates are left out; a key's hash is as unique as its ID and stands for  *)
(* it.  The memory backend hands out pointers: what a request or a cache   *)
(* holds is then the stored record itself.                                 *)
(***************************************************************************)
EXTENDS Records

CONSTANTS Nodes,       \* the processes of the registry
          UserNames, Passwords, Emails,
          KeyNames,    \* names of API keys
          NewNames,    \* names that rotations give: they hold the time
          MaxUser,     \* bound on the users ever created
          MaxKey       \* bound on the API keys ever created

VARIABLES users,       \* id -> user, or NoRow
          names,       \* username -> id or 0: the index of memory and Cassandra
          keys,        \* id -> API key, or NoRow (api_keys_by_id in Cassandra)
          byUser,      \* api_keys_by_user in Cassandra: <<user, key>>
          byHash,      \* api_keys_by_hash in Cassandra
          userObj, keyObj,     \* in memory: the records, by ID
          nextUser, nextKey,   \* the next IDs
          keyCache,    \* node -> hash -> API key, or NoRow
          credCache,   \* node -> credentials -> user they were valid for, or NoRow
          listed       \* node -> the keys its refresh has listed, or NoRow

userTables == <<users, names, userObj, nextUser>>
keyTables == <<keys, byUser, byHash, keyObj, nextKey>>
caches == <<keyCache, credCache, listed>>

UserIDs == 1..MaxUser
KeyIDs == 1..MaxKey
UserRow == [id : UserIDs, name : UserNames, pw : Passwords, email : Emails \cup {NoRow}, enabled : BOOLEAN]
KeyRow == [id : 0..MaxKey, user : 0..MaxUser, name : KeyNames \cup NewNames \cup {NoRow}, enabled : BOOLEAN]
Pointer(I) == [ptr : I]

\* There is somebody and something to name; NoRow is no record.
ASSUME AccountAssumption ==
  /\ Clients # {} /\ Nodes # {} /\ UserNames # {} /\ Passwords # {} /\ KeyNames # {}
  /\ MaxUser \in Nat \ {0} /\ MaxKey \in Nat \ {0}
  /\ NoRow \notin UserRow \cup KeyRow \cup Pointer(UserIDs) \cup Pointer(KeyIDs)
  /\ \A l \in Loads : l.names \subseteq UserNames

\* What is held: a pointer in memory, else a copy; and what it says now.
Held(row) == IF backend = "memory" THEN [ptr |-> row.id] ELSE row
UserOf(ref) == IF backend = "memory" THEN userObj[ref.ptr] ELSE ref
KeyOf(ref) == IF backend = "memory" THEN keyObj[ref.ptr] ELSE ref

StoredUsers == {u \in UserIDs : users[u] # NoRow}
StoredKeys == {k \in KeyIDs : keys[k] # NoRow}
User(u) == UserOf(users[u])
Key(k) == KeyOf(keys[k])

\* The HTTP status for the error of the service.
AccountCode(op, err) ==
  CASE err = "nil" -> IF op \in {"CreateUser", "CreateAPIKey"} THEN 201
                      ELSE IF op \in {"DeleteUser", "DeleteAPIKey", "ChangePassword"} THEN 204 ELSE 200
    [] err = "noTarget" -> 400
    [] err \in {"unauthorized", "disabled"} -> 401
    [] err = "denied" -> 403
    [] err = "notFound" -> 404
    [] err = "exists" /\ op \in {"CreateUser", "CreateAPIKey"} -> 409
    [] OTHER -> 500

\* The client reads the answer; where requests overlap nothing looks at it again.
Reply(c, err) == Answer(c, IF load.serial THEN AccountCode(call[c].op, err) ELSE 0)

\* The part of a rotation whose failure is ignored.
Revoking(c) == call[c].op = "RotateAPIKey" /\ call[c].at \in {"revoke", "updateKey", "putKey"}
Fail(c, err) == Reply(c, IF Revoking(c) THEN "nil" ELSE err)

\* A request changes fields of the record it has read, and goes on with it.
WithUser(c, at, ref, row) ==
  /\ Goto(c, at, Held(row))
  /\ userObj' = IF backend = "memory" THEN [userObj EXCEPT ![ref.ptr] = row] ELSE userObj
  /\ UNCHANGED <<users, names, nextUser>>
WithKey(c, at, ref, row) ==
  /\ Goto(c, at, Held(row))
  /\ keyObj' = IF backend = "memory" THEN [keyObj EXCEPT ![ref.ptr] = row] ELSE keyObj
  /\ UNCHANGED <<keys, byUser, byHash, nextKey>>

-----------------------------------------------------------------------------
(* Statements that backends share.                                         *)

InsertUser(c, clash) ==
  LET row == [call[c].in.rec EXCEPT !.id = nextUser] IN
  IF clash THEN Reply(c, "exists") /\ UNCHANGED userTables
  ELSE /\ nextUser <= MaxUser
       /\ users' = [users EXCEPT ![nextUser] = Held(row)]
       /\ names' = IF backend \in {"memory", "cassandra"} THEN [names EXCEPT ![row.name] = nextUser] ELSE names
       /\ userObj' = IF backend = "memory" THEN [userObj EXCEPT ![nextUser] = row] ELSE userObj
       /\ nextUser' = nextUser + 1
       /\ Reply(c, "nil")

ReplaceUser(c, when, err) ==
  LET ref == call[c].got
      u == UserOf(ref).id IN
  /\ IF ~when THEN Reply(c, err) /\ UNCHANGED users
     ELSE users' = [users EXCEPT ![u] = ref] /\ Goto(c, "invalidateUser", NoRow)
  /\ UNCHANGED <<names, userObj, nextUser>>

InsertKey(c) ==
  LET row == [id |-> nextKey, user |-> call[c].in.user, name |-> call[c].in.name, enabled |-> TRUE] IN
  /\ nextKey <= MaxKey
  /\ keys' = [keys EXCEPT ![nextKey] = Held(row)]
  /\ keyObj' = IF backend = "memory" THEN [keyObj EXCEPT ![nextKey] = row] ELSE keyObj
  /\ nextKey' = nextKey + 1
  /\ Goto(c, "cacheKey", Held(row))

ReplaceKey(c, when, err) ==
  LET ref == call[c].got
      k == KeyOf(ref).id IN
  /\ IF ~when THEN Fail(c, err) /\ UNCHANGED keys
     ELSE keys' = [keys EXCEPT ![k] = ref] /\ Goto(c, "invalidateKey", NoRow)
  /\ UNCHANGED <<byUser, byHash, keyObj, nextKey>>
=============================================================================
