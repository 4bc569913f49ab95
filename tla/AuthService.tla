---------------------------- MODULE AuthService ----------------------------
(***************************************************************************)
(* internal/auth/service.go on several nodes that share a backend, called  *)
(* by the handlers of internal/api/handlers/admin.go and account.go and by *)
(* the authenticator.  A node caches API keys, refreshes all of them now   *)
(* and then, and caches validated credentials for a while.                 *)
(***************************************************************************)
EXTENDS AccountStores

tableVars == <<userTables, keyTables>>
vars == <<backend, load, call, userTables, keyTables, caches>>

\* Memory is not shared: there is one node.  The nodes are alike, and so are the
\* clients: the administrators call the first node, and where requests come one
\* at a time they come from the first client.
FirstNode == CHOOSE n \in Nodes : TRUE
ActiveNodes == IF backend = "memory" \/ load.serial THEN {FirstNode} ELSE Nodes
ActiveClients == IF load.serial THEN {CHOOSE c \in Clients : TRUE} ELSE Clients
IssuedUsers == 1..(nextUser - 1)
IssuedKeys == 1..(nextKey - 1)

\* With load.stored there are an enabled user and an enabled key of hers.
Init ==
  /\ RecordsInit
  /\ LET name == CHOOSE n \in UserNames : TRUE
         user == [id |-> 1, name |-> name, pw |-> CHOOSE p \in Passwords : TRUE, email |-> NoRow, enabled |-> TRUE]
         key == [id |-> 1, user |-> 1, name |-> CHOOSE n \in KeyNames : TRUE, enabled |-> TRUE]
         First(I, row) == [i \in I |-> IF i = 1 /\ load.stored THEN row ELSE NoRow]
         indexed == load.stored /\ backend \in {"memory", "cassandra"}
     IN /\ users = First(UserIDs, Held(user))
        /\ keys = First(KeyIDs, Held(key))
        /\ names = [n \in UserNames |-> IF n = name /\ indexed THEN 1 ELSE 0]
        /\ byUser = IF load.stored /\ backend = "cassandra" THEN {<<1, 1>>} ELSE {}
        /\ byHash = IF backend = "cassandra" THEN First(KeyIDs, key) ELSE [k \in KeyIDs |-> NoRow]
        /\ userObj = IF backend = "memory" THEN First(UserIDs, user) ELSE [u \in UserIDs |-> NoRow]
        /\ keyObj = IF backend = "memory" THEN First(KeyIDs, key) ELSE [k \in KeyIDs |-> NoRow]
  /\ nextUser = IF load.stored THEN 2 ELSE 1
  /\ nextKey = IF load.stored THEN 2 ELSE 1
  /\ keyCache = [n \in Nodes |-> [k \in KeyIDs |-> NoRow]]
  /\ credCache = [n \in Nodes |-> [p \in UserNames \X Passwords |-> NoRow]]
  /\ listed = [n \in Nodes |-> NoRow]

Node(c) == call[c].in.node

-----------------------------------------------------------------------------
(* Users.                                                                  *)

\* The fields a request may set.
UserChanges ==
  [pw : Passwords] \cup [enabled : BOOLEAN] \cup (IF load.serial THEN [email : Emails] ELSE {})
Changed(row, change) == [f \in DOMAIN row |-> IF f \in DOMAIN change THEN change[f] ELSE row[f]]

HandleCreateUser(c) ==
  /\ nextUser <= MaxUser
  /\ \E name \in load.names, e \in (IF load.serial THEN Emails ELSE {}) \cup {NoRow} :
       Begin(c, "CreateUser", "createUser",
             [node |-> FirstNode, rec |-> [id |-> 0, name |-> name, pw |-> CHOOSE p \in Passwords : TRUE,
                                   email |-> e, enabled |-> TRUE]])
  /\ UNCHANGED <<tableVars, caches>>

\* At the start of a node: the administrator, if there is no user.
BootstrapAdmin(c) ==
  \/ /\ nextUser <= MaxUser
     /\ Begin(c, "BootstrapAdmin", "listUsers",
                [node |-> FirstNode, rec |-> [id |-> 0, name |-> CHOOSE u \in UserNames : TRUE,
                                      pw |-> CHOOSE p \in Passwords : TRUE, email |-> NoRow, enabled |-> TRUE]])
     /\ UNCHANGED <<tableVars, caches>>
  \/ /\ At(c, "BootstrapAdmin", "listUsers")
     /\ IF ListUsers # {} THEN Reply(c, "nil") ELSE Goto(c, "createUser", NoRow)
     /\ UNCHANGED <<tableVars, caches>>

HandleUpdateUser(c) ==
  /\ \E u \in IssuedUsers, change \in UserChanges :
       Begin(c, "UpdateUser", "getUser", [node |-> FirstNode, id |-> u, change |-> change])
  /\ UNCHANGED <<tableVars, caches>>
UpdateUser(c) ==
  LET ref == GetUserByID(call[c].in.id) IN
  /\ At(c, "UpdateUser", "getUser")
  /\ IF ref = NoRow THEN Reply(c, "notFound") /\ UNCHANGED userTables
     ELSE WithUser(c, "updateUser", ref, Changed(UserOf(ref), call[c].in.change))
  /\ UNCHANGED <<keyTables, caches>>

HandleChangePassword(c) ==
  /\ \E u \in IssuedUsers, old, new \in Passwords :
       Begin(c, "ChangePassword", "getUser", [node |-> FirstNode, id |-> u, old |-> old, change |-> [pw |-> new]])
  /\ UNCHANGED <<tableVars, caches>>
ChangePassword(c) ==
  LET ref == GetUserByID(call[c].in.id) IN
  /\ At(c, "ChangePassword", "getUser")
  /\ IF ref = NoRow THEN Reply(c, "notFound") /\ UNCHANGED userTables
     ELSE IF UserOf(ref).pw # call[c].in.old THEN Reply(c, "denied") /\ UNCHANGED userTables
     ELSE WithUser(c, "updateUser", ref, Changed(UserOf(ref), call[c].in.change))
  /\ UNCHANGED <<keyTables, caches>>

HandleDeleteUser(c) ==
  /\ \E u \in IssuedUsers : Begin(c, "DeleteUser", "invalidateUser", [node |-> FirstNode, id |-> u])
  /\ UNCHANGED <<tableVars, caches>>

\* Mutant: the credentials stay in the cache.
InvalidateNothing(c) ==
  /\ call[c].at = "invalidateUser"
  /\ IF call[c].op = "DeleteUser" THEN Goto(c, "deleteUser", NoRow) ELSE Reply(c, "nil")
  /\ UNCHANGED <<tableVars, caches>>

\* After an update, and before a delete.
InvalidateUserCredCacheByID(c) ==
  /\ call[c].at = "invalidateUser"
  /\ credCache' = [credCache EXCEPT ![Node(c)] = [p \in DOMAIN @ |->
       IF @[p] # NoRow /\ UserOf(@[p]).id = call[c].in.id THEN NoRow ELSE @[p]]]
  /\ IF call[c].op = "DeleteUser" THEN Goto(c, "deleteUser", NoRow) ELSE Reply(c, "nil")
  /\ UNCHANGED <<tableVars, keyCache, listed>>

\* The cache, else the user as stored, who goes into the cache if all is well.
ValidateCredentials(c) ==
  LET in == call[c].in
      entry == credCache[in.node][in.cred] IN
  \/ /\ \E n \in ActiveNodes, cred \in load.names \X Passwords :
          Begin(c, "ValidateCredentials", "cached", [node |-> n, cred |-> cred])
     /\ UNCHANGED <<tableVars, caches>>
  \/ /\ At(c, "ValidateCredentials", "cached")
     /\ IF entry = NoRow THEN Goto(c, "byName", NoRow) /\ UNCHANGED credCache
        ELSE IF UserOf(entry).enabled THEN Reply(c, "nil") /\ UNCHANGED credCache
        ELSE credCache' = [credCache EXCEPT ![in.node][in.cred] = NoRow] /\ Reply(c, "disabled")
     /\ UNCHANGED <<tableVars, keyCache, listed>>
  \/ /\ At(c, "ValidateCredentials", "byName")
     /\ LET ref == GetUserByUsername(in.cred[1]) IN
        IF ref = NoRow \/ ~UserOf(ref).enabled \/ UserOf(ref).pw # in.cred[2]
        THEN Reply(c, "unauthorized") ELSE Goto(c, "cacheCred", ref)
     /\ UNCHANGED <<tableVars, caches>>
  \/ /\ At(c, "ValidateCredentials", "cacheCred")
     /\ credCache' = [credCache EXCEPT ![in.node][in.cred] = call[c].got]
     /\ Reply(c, "nil")
     /\ UNCHANGED <<tableVars, keyCache, listed>>

\* An entry as old as UserCacheTTL counts no more.
Expire(n, cred) ==
  /\ credCache[n][cred] # NoRow /\ "expire" \in load.ops
  /\ credCache' = [credCache EXCEPT ![n][cred] = NoRow]
  /\ UNCHANGED <<backend, load, call, tableVars, keyCache, listed>>

-----------------------------------------------------------------------------
(* API keys.                                                               *)

\* For the caller herself, or for another user, who is looked up first.
HandleCreateAPIKey(c) ==
  \/ /\ nextKey <= MaxKey
     /\ \E u \in IssuedUsers, name \in KeyNames, self \in BOOLEAN :
          /\ self => u \in StoredUsers
          /\ Begin(c, "CreateAPIKey", IF self THEN "checkName" ELSE "target", [node |-> FirstNode, user |-> u, name |-> name])
     /\ UNCHANGED <<tableVars, caches>>
  \/ /\ At(c, "CreateAPIKey", "target")
     /\ IF GetUserByID(call[c].in.user) = NoRow THEN Reply(c, "noTarget") ELSE Goto(c, "checkName", NoRow)
     /\ UNCHANGED <<tableVars, caches>>

\* The name is looked up (an owner is needed: 0 is refused), the key is stored,
\* and put into the cache of this node.
CreateAPIKey(c) ==
  LET in == call[c].in IN
  \/ /\ call[c].at = "checkName"
     /\ IF in.user = 0 THEN Reply(c, "noOwner")
        ELSE IF GetAPIKeyByUserAndName(in.user, in.name) # {} THEN Reply(c, "exists")
        ELSE Goto(c, "createKey", NoRow)
     /\ UNCHANGED <<tableVars, caches>>
  \/ /\ call[c].at = "cacheKey"
     /\ keyCache' = [keyCache EXCEPT ![in.node][KeyOf(call[c].got).id] = call[c].got]
     /\ IF call[c].op = "RotateAPIKey" THEN Goto(c, "revoke", NoRow) ELSE Reply(c, "nil")
     /\ UNCHANGED <<tableVars, credCache, listed>>

\* An enabled key is let in, and Cassandra then notes the time, in the
\* background.  (Elsewhere that changes no modelled column.)
Verdict(c, ref) ==
  IF ~KeyOf(ref).enabled THEN Reply(c, "disabled")
  ELSE IF backend = "cassandra" THEN Goto(c, "lastUsed", ref) ELSE Reply(c, "nil")

\* The cache, else the key as stored, which goes into the cache.
ValidateAPIKey(c) ==
  LET in == call[c].in IN
  \/ /\ \E n \in ActiveNodes, k \in IssuedKeys :
          Begin(c, "ValidateAPIKey", "cached", [node |-> n, id |-> k])
     /\ UNCHANGED <<tableVars, caches>>
  \/ /\ At(c, "ValidateAPIKey", "cached")
     /\ LET entry == keyCache[in.node][in.id] IN
        IF entry = NoRow THEN Goto(c, "byHash", NoRow) ELSE Verdict(c, entry)
     /\ UNCHANGED <<tableVars, caches>>
  \/ /\ At(c, "ValidateAPIKey", "byHash")
     /\ LET ref == GetAPIKeyByHash(in.id) IN
        IF ref = NoRow THEN Reply(c, "unauthorized") ELSE Goto(c, "cacheFound", ref)
     /\ UNCHANGED <<tableVars, caches>>
  \/ /\ At(c, "ValidateAPIKey", "cacheFound")
     /\ keyCache' = [keyCache EXCEPT ![in.node][in.id] = call[c].got]
     /\ Verdict(c, call[c].got)
     /\ UNCHANGED <<tableVars, credCache, listed>>

HandleUpdateAPIKey(c) ==
  /\ \E k \in IssuedKeys, change \in [enabled : BOOLEAN] \cup [name : KeyNames] :
       Begin(c, "UpdateAPIKey", "getKey", [node |-> FirstNode, id |-> k, change |-> change])
  /\ UNCHANGED <<tableVars, caches>>

\* The key is read, the fields are set (a new name after a look whether the
\* owner has it on another key), and it is written back.
UpdateAPIKey(c) ==
  LET in == call[c].in
      ref == GetAPIKeyByID(in.id)
      renamed == "name" \in DOMAIN in.change /\ KeyOf(ref).name # in.change.name IN
  \/ /\ At(c, "UpdateAPIKey", "getKey")
     /\ IF ref = NoRow THEN Reply(c, "notFound") /\ UNCHANGED keyTables
        ELSE IF renamed THEN Goto(c, "rename", ref) /\ UNCHANGED keyTables
        ELSE WithKey(c, "updateKey", ref, Changed(KeyOf(ref), in.change))
     /\ UNCHANGED <<userTables, caches>>
  \/ /\ At(c, "UpdateAPIKey", "rename")
     /\ LET rec == KeyOf(call[c].got) IN
        IF \E k \in GetAPIKeyByUserAndName(rec.user, in.change.name) : k # rec.id
        THEN Reply(c, "exists") /\ UNCHANGED keyTables
        ELSE WithKey(c, "updateKey", call[c].got, Changed(rec, in.change))
     /\ UNCHANGED <<userTables, caches>>

HandleRevokeAPIKey(c) ==
  /\ \E k \in IssuedKeys : Begin(c, "RevokeAPIKey", "revoke", [node |-> FirstNode, id |-> k])
  /\ UNCHANGED <<tableVars, caches>>
RevokeAPIKey(c) ==
  LET ref == GetAPIKeyByID(call[c].in.id) IN
  /\ call[c].at = "revoke"
  /\ IF ref = NoRow THEN Fail(c, "notFound") /\ UNCHANGED keyTables
     ELSE WithKey(c, "updateKey", ref, [KeyOf(ref) EXCEPT !.enabled = FALSE])
  /\ UNCHANGED <<userTables, caches>>

HandleDeleteAPIKey(c) ==
  /\ \E k \in IssuedKeys : Begin(c, "DeleteAPIKey", "invalidateKey", [node |-> FirstNode, id |-> k])
  /\ UNCHANGED <<tableVars, caches>>

\* After an update, and before a delete.
InvalidateAPIKeyCache(c) ==
  /\ call[c].at = "invalidateKey"
  /\ keyCache' = [keyCache EXCEPT ![Node(c)] = [k \in KeyIDs |->
       IF @[k] # NoRow /\ KeyOf(@[k]).id = call[c].in.id THEN NoRow ELSE @[k]]]
  /\ IF call[c].op = "DeleteAPIKey" THEN Goto(c, "deleteKey", NoRow) ELSE Reply(c, "nil")
  /\ UNCHANGED <<tableVars, credCache, listed>>

HandleRotateAPIKey(c) ==
  /\ nextKey <= MaxKey
  /\ \E k \in IssuedKeys :
       Begin(c, "RotateAPIKey", "rotate", [node |-> FirstNode, id |-> k, user |-> 0, name |-> NoRow])
  /\ UNCHANGED <<tableVars, caches>>

\* Mutant: the old key is revoked before the new one is made.
RotateAPIKeyLate(c) ==
  LET ref == GetAPIKeyByID(call[c].in.id) IN
  /\ At(c, "RotateAPIKey", "rotate")
  /\ IF ref = NoRow THEN Reply(c, "notFound") /\ UNCHANGED keyTables
     ELSE WithKey(c, "updateKey", ref, [KeyOf(ref) EXCEPT !.enabled = FALSE])
  /\ UNCHANGED <<userTables, caches>>

\* A new key for the owner of the old one; CreateAPIKey and RevokeAPIKey follow.
RotateAPIKey(c) ==
  LET ref == GetAPIKeyByID(call[c].in.id) IN
  /\ At(c, "RotateAPIKey", "rotate")
  /\ IF ref = NoRow THEN Reply(c, "notFound")
     ELSE \E name \in NewNames :
            call' = [call EXCEPT ![c].at = "checkName", ![c].in.user = KeyOf(ref).user, ![c].in.name = name]
  /\ UNCHANGED <<tableVars, caches>>

-----------------------------------------------------------------------------
(* The background refresh, in two steps; and clients that disconnect.      *)

RefreshList(n) ==
  /\ "refresh" \in load.ops /\ n \in ActiveNodes /\ listed[n] = NoRow
  /\ listed' = [listed EXCEPT ![n] = [k \in ListAPIKeys |-> GetAPIKeyByID(k)]]
  /\ UNCHANGED <<backend, load, call, tableVars, keyCache, credCache>>

\* Mutant: keys that are gone stay in the cache.
RefreshStoreOnly(n) ==
  /\ listed[n] # NoRow
  /\ keyCache' = [keyCache EXCEPT ![n] = [k \in KeyIDs |-> IF k \in DOMAIN listed[n] THEN listed[n][k] ELSE @[k]]]
  /\ listed' = [listed EXCEPT ![n] = NoRow]
  /\ UNCHANGED <<backend, load, call, tableVars, credCache>>

RefreshStore(n) ==
  /\ listed[n] # NoRow
  /\ keyCache' = [keyCache EXCEPT ![n] = [k \in KeyIDs |-> IF k \in DOMAIN listed[n] THEN listed[n][k] ELSE NoRow]]
  /\ listed' = [listed EXCEPT ![n] = NoRow]
  /\ UNCHANGED <<backend, load, call, tableVars, credCache>>

\* A query fails; the steps in the node's own memory and the note of the time
\* of use do not.  A failed revocation in a rotation is ignored.
Disconnect(c) ==
  /\ "disconnect" \in load.ops /\ backend # "memory"
  /\ call[c].at \notin {"done", "cached", "cacheCred", "cacheKey", "cacheFound", "invalidateUser",
                        "invalidateKey", "lastUsed", "touch"}
  /\ Fail(c, "cancelled")
  /\ UNCHANGED <<tableVars, caches>>

BeginStep(c) ==
  \/ HandleCreateUser(c) \/ HandleUpdateUser(c) \/ HandleChangePassword(c) \/ HandleDeleteUser(c)
  \/ HandleUpdateAPIKey(c) \/ HandleRevokeAPIKey(c) \/ HandleDeleteAPIKey(c) \/ HandleRotateAPIKey(c)
ServiceStep(c) ==
  \/ BootstrapAdmin(c) \/ UpdateUser(c) \/ ChangePassword(c) \/ InvalidateUserCredCacheByID(c)
  \/ ValidateCredentials(c) \/ HandleCreateAPIKey(c) \/ CreateAPIKey(c) \/ ValidateAPIKey(c)
  \/ UpdateAPIKey(c) \/ RevokeAPIKey(c) \/ InvalidateAPIKeyCache(c) \/ RotateAPIKey(c)
  \/ StoreStep(c) /\ UNCHANGED caches

Next ==
  \/ \E c \in ActiveClients : (BeginStep(c) \/ ServiceStep(c) \/ Disconnect(c)) /\ UNCHANGED <<backend, load>>
  \/ \E n \in Nodes : RefreshList(n) \/ RefreshStore(n)
  \/ \E n \in Nodes, cred \in UserNames \X Passwords : Expire(n, cred)

\* A request that is under way goes on, the refresh comes round, time passes.
GoOn(c) == call[c].at # "done" /\ ServiceStep(c) /\ UNCHANGED <<backend, load>>
Fairness ==
  /\ \A c \in Clients : WF_vars(GoOn(c))
  /\ \A n \in Nodes : WF_vars(RefreshList(n)) /\ WF_vars(RefreshStore(n))
  /\ \A n \in Nodes, cred \in UserNames \X Passwords : WF_vars(Expire(n, cred))

Spec == Init /\ [][Next]_vars /\ Fairness

-----------------------------------------------------------------------------
(* Type correctness of the tables, the caches and the answers.             *)
TypeOK ==
  /\ load \in Loads /\ backend \in load.on
  /\ users \in [UserIDs -> UserRow \cup Pointer(UserIDs) \cup {NoRow}]
  /\ keys \in [KeyIDs -> KeyRow \cup Pointer(KeyIDs) \cup {NoRow}]
  /\ names \in [UserNames -> 0..MaxUser]
  /\ \A n \in Nodes : \A k \in KeyIDs : keyCache[n][k] \in KeyRow \cup Pointer(KeyIDs) \cup {NoRow}
  /\ \A n \in Nodes : \A p \in DOMAIN credCache[n] : credCache[n][p] \in UserRow \cup Pointer(UserIDs) \cup {NoRow}
  /\ \A c \in Clients : call[c].status \in {0, 200, 201, 204, 400, 401, 403, 404, 409, 500}

\* Where requests come one at a time the refresh does not run: between its listing
\* and its storing it would put back what a request has changed.
RefreshesApart == \A l \in Loads : l.serial => "refresh" \notin l.ops

AtRest == \A c \in Clients : call[c].at = "done"

\* One request at a time, a node's caches say what the store says: an update, a
\* revocation, a delete, a new password or a disabled user takes effect with the
\* answer.  (Of a validation that overlaps them, see the two properties below.)
CachesCoherent ==
  load.serial /\ AtRest =>
    \A n \in ActiveNodes :
      /\ \A k \in KeyIDs : keyCache[n][k] # NoRow =>
           /\ k \in ListAPIKeys
           /\ KeyOf(keyCache[n][k]).enabled = Key(k).enabled /\ KeyOf(keyCache[n][k]).name = Key(k).name
      /\ \A p \in DOMAIN credCache[n] : credCache[n][p] # NoRow =>
           \E u \in ListUsers : User(u).name = p[1] /\ User(u).pw = p[2] /\ User(u).enabled

\* No two users have a name, and a name leads to its user, whatever the order of
\* creates, bootstraps of several nodes, updates and deletes.  Cassandra checks
\* and writes in separate queries: there, one request at a time.
UsernamesUnique ==
  backend # "cassandra" \/ load.serial =>
    \A u \in ListUsers :
      /\ \A v \in ListUsers : User(u).name = User(v).name => u = v
      /\ GetUserByUsername(User(u).name) = GetUserByID(u)

\* A user has a key name once, and every key she has is listed for her.  The
\* name is looked up before the insert and no index guards it: one at a time.
KeyNamesUnique ==
  load.serial =>
    \A u \in ListUsers : \A k \in ListAPIKeys : Key(k).user = u =>
      /\ k \in ListAPIKeysByUserID(u)
      /\ GetAPIKeyByUserAndName(u, Key(k).name) = {k}

Enabled(k) == keys[k] # NoRow /\ Key(k).enabled

\* A revoked key works again only after a request that enables it: not by an
\* update that read it before.  In memory, and one request at a time; the other
\* backends write back all that the update had read.
RevocationSticks ==
  [][Undisturbed => \A k \in KeyIDs :
       (keys[k] # NoRow /\ ~Enabled(k) /\ Enabled(k)') =>
          \E c \in Clients : call[c].op = "UpdateAPIKey" /\ call[c].in.change = [enabled |-> TRUE]]_keyTables

\* Wherever a rotation is cut off, its owner is left with a key that works.
RotationKeepsAKey ==
  [][load.serial => \A k \in KeyIDs :
       (Enabled(k) /\ ~Enabled(k)' /\ \E c \in Clients : call[c].op = "RotateAPIKey" /\ call[c].at # "done") =>
          \E j \in KeyIDs \ {k} : Enabled(j)' /\ Key(j)'.user = Key(k).user]_keyTables

\* What a node answers for a key now.
Accepts(n, k) ==
  IF keyCache[n][k] # NoRow THEN KeyOf(keyCache[n][k]).enabled
  ELSE GetAPIKeyByHash(k) # NoRow /\ KeyOf(GetAPIKeyByHash(k)).enabled

\* A key that is revoked or deleted is in the end refused by every node, though
\* other nodes have it in their caches, and a validation or a refresh that read
\* it before may put it back.
RevokedKeysRefused ==
  \A k \in KeyIDs : <>[](~Enabled(k)) => <>[](\A n \in Nodes : ~Accepts(n, k))

\* A password that is no longer the user's is in the end refused by every node.
OldPasswordsRefused ==
  \A name \in UserNames, pw \in Passwords :
    <>[](~\E u \in StoredUsers : User(u).name = name /\ User(u).pw = pw /\ User(u).enabled)
      => <>[](\A n \in Nodes : credCache[n][<<name, pw>>] = NoRow)

\* The reference for POST /admin/apikeys/{id}/revoke: it revokes the key by
\* disabling it, so that it can no longer be used.
RevokeDisables ==
  [][\A c \in Clients, k \in KeyIDs :
       (/\ load.serial /\ call[c].op = "RevokeAPIKey" /\ call'[c].at = "done"
        /\ call[c].in.id = k /\ keys[k] # NoRow) => ~Enabled(k)']_vars

\* A name stands for one user and a key name for one key of its user, in rows that
\* have their types: the creates of the four backends and of several nodes.
NamesUnique == TypeOK /\ UsernamesUnique /\ KeyNamesUnique

\* A key changes only as a request asks for: UpdateAPIKey does not bring a revoked
\* one back, and RotateAPIKey never leaves its owner without one.
KeysChangeAsAsked == RevocationSticks /\ RotationKeepsAKey

\* What was revoked, deleted or changed is in the end refused by every node, keys
\* by the cache refresh and passwords by the expiry of the credential cache.
OldCredentialsRefused == RevokedKeysRefused /\ OldPasswordsRefused
=============================================================================
