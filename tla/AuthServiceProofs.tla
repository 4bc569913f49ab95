------------------------- MODULE AuthServiceProofs -------------------------
(***************************************************************************)
(* Theorems about AuthService, for any number of clients, nodes, users,    *)
(* keys and workloads.  AccountsInv is inductive.  Of every state it says  *)
(* what the tables, the pointers of the memory backend, the caches and the *)
(* requests hold (UsersInv, KeysInv, CachesInv, Request); where requests   *)
(* come one at a time, also what the request under way has read and what   *)
(* of it still holds (UserAlone, KeyAlone), that the three key tables of   *)
(* Cassandra agree, and that the caches of the node fit the tables but for *)
(* the record that is being written (CachedKey, CachedCred).  A step is    *)
(* proved on the users' side and on the keys' side (UserSide, KeySide);    *)
(* the latter also shows the two action properties of the keys.            *)
(***************************************************************************)
EXTENDS AuthService, WellFoundedInduction, TLAPS

\* What stands for user u, or for API key k: a pointer in memory, else a row.  The
\* row of api_keys_by_hash may lack the ID.
UserRef(ref, u) == IF backend = "memory" THEN ref = [ptr |-> u] ELSE ref \in UserRow /\ ref.id = u
KeyRef(ref, k) == IF backend = "memory" THEN ref = [ptr |-> k] ELSE ref \in KeyRow /\ ref.id = k
HashRef(ref, k) == IF backend = "memory" THEN ref = [ptr |-> k] ELSE ref \in KeyRow /\ ref.id \in {0, k}

-----------------------------------------------------------------------------
(* The tables and caches, in every state.                                  *)

UsersInv ==
  /\ users \in [UserIDs -> UserRow \cup Pointer(UserIDs) \cup {NoRow}]
  /\ userObj \in [UserIDs -> UserRow \cup {NoRow}]
  /\ names \in [UserNames -> 0..MaxUser]
  /\ nextUser \in 1..(MaxUser + 1)
  /\ \A n \in UserNames : names[n] < nextUser
  /\ \A u \in StoredUsers : UserRef(users[u], u) /\ u < nextUser
  /\ backend = "memory" => \A u \in IssuedUsers : userObj[u] \in UserRow /\ userObj[u].id = u

KeysInv ==
  /\ keys \in [KeyIDs -> KeyRow \cup Pointer(KeyIDs) \cup {NoRow}]
  /\ keyObj \in [KeyIDs -> KeyRow \cup {NoRow}]
  /\ byHash \in [KeyIDs -> KeyRow \cup {NoRow}]
  /\ nextKey \in 1..(MaxKey + 1)
  /\ \A k \in StoredKeys : KeyRef(keys[k], k) /\ k < nextKey
  /\ \A k \in KeyIDs : byHash[k] # NoRow => byHash[k].id \in {0, k}
  /\ backend = "memory" => \A k \in IssuedKeys : keyObj[k] \in KeyRow /\ keyObj[k].id = k

Creds == UserNames \X Passwords
CachesInv ==
  /\ keyCache \in [Nodes -> [KeyIDs -> KeyRow \cup Pointer(KeyIDs) \cup {NoRow}]]
  /\ credCache \in [Nodes -> [Creds -> UserRow \cup Pointer(UserIDs) \cup {NoRow}]]
  /\ listed = [n \in Nodes |-> listed[n]]
  /\ \A n \in Nodes, k \in KeyIDs : keyCache[n][k] # NoRow => HashRef(keyCache[n][k], k) /\ k < nextKey
  /\ \A n \in Nodes, p \in Creds : credCache[n][p] # NoRow =>
       \E u \in IssuedUsers : UserRef(credCache[n][p], u)
  /\ \A n \in Nodes : listed[n] # NoRow =>
       \A k \in KeyIDs \cap DOMAIN listed[n] : KeyRef(listed[n][k], k) /\ k < nextKey

\* A name stands for one user, and the index of memory and Cassandra leads to her.
OneUserPerName ==
  /\ \A u, v \in StoredUsers : User(u).name = User(v).name => u = v
  /\ backend \in {"memory", "cassandra"} =>
       /\ \A u \in StoredUsers : names[User(u).name] = u
       /\ \A n \in UserNames : names[n] \in StoredUsers => User(names[n]).name = n

-----------------------------------------------------------------------------
(* The requests.                                                           *)

NewUser == [id : {0}, name : UserNames, pw : Passwords, email : Emails \cup {NoRow}, enabled : BOOLEAN]
UserChange == [pw : Passwords] \cup [enabled : BOOLEAN] \cup [email : Emails]
KeyChange == [enabled : BOOLEAN] \cup [name : KeyNames]
AnyName == KeyNames \cup NewNames \cup {NoRow}
Codes == {0, 200, 201, 204, 400, 401, 403, 404, 409, 500}

\* The steps of each operation.
Stage(r) ==
  \/ r.op = "none" /\ r.at = "done"
  \/ r.op \in {"CreateUser", "BootstrapAdmin"} /\ r.at \in {"listUsers", "createUser", "putUser"}
  \/ r.op \in {"UpdateUser", "ChangePassword"} /\ r.at \in {"getUser", "updateUser", "writeUser", "invalidateUser"}
  \/ r.op = "DeleteUser" /\ r.at \in {"invalidateUser", "deleteUser", "dropUser"}
  \/ r.op = "ValidateCredentials" /\ r.at \in {"cached", "byName", "cacheCred"}
  \/ r.op = "CreateAPIKey" /\ r.at \in {"target", "checkName", "createKey", "cacheKey"}
  \/ r.op = "ValidateAPIKey" /\ r.at \in {"cached", "byHash", "cacheFound", "lastUsed", "touch"}
  \/ r.op = "UpdateAPIKey" /\ r.at \in {"getKey", "rename", "updateKey", "putKey", "invalidateKey"}
  \/ r.op = "RevokeAPIKey" /\ r.at \in {"revoke", "updateKey", "putKey", "invalidateKey"}
  \/ r.op = "DeleteAPIKey" /\ r.at \in {"invalidateKey", "deleteKey", "dropKey"}
  \/ r.op = "RotateAPIKey" /\ r.at \in {"rotate", "checkName", "createKey", "cacheKey", "revoke",
                                         "updateKey", "putKey", "invalidateKey"}

\* The parameters of a request.
Params(r) ==
  /\ r.op \in {"CreateUser", "BootstrapAdmin"} => r.in \in [node : Nodes, rec : NewUser]
  /\ r.op = "UpdateUser" => r.in \in [node : Nodes, id : UserIDs, change : UserChange]
  /\ r.op = "ChangePassword" => r.in \in [node : Nodes, id : UserIDs, old : Passwords, change : UserChange]
  /\ r.op = "DeleteUser" => r.in \in [node : Nodes, id : UserIDs]
  /\ r.op = "ValidateCredentials" => r.in \in [node : Nodes, cred : Creds]
  /\ r.op = "CreateAPIKey" => r.in \in [node : Nodes, user : 0..MaxUser, name : AnyName]
  /\ r.op = "RotateAPIKey" => r.in \in [node : Nodes, id : KeyIDs, user : 0..MaxUser, name : AnyName]
  /\ r.op \in {"ValidateAPIKey", "RevokeAPIKey", "DeleteAPIKey"} => r.in \in [node : Nodes, id : KeyIDs]
  /\ r.op = "UpdateAPIKey" => r.in \in [node : Nodes, id : KeyIDs, change : KeyChange]
  /\ load.serial /\ r.op # "none" => r.in.node = FirstNode

UserTarget == {"UpdateUser", "ChangePassword", "DeleteUser"}
KeyTarget == {"ValidateAPIKey", "RevokeAPIKey", "DeleteAPIKey", "UpdateAPIKey", "RotateAPIKey"}

\* What it has in hand.
InHand(r) ==
  /\ r.op \in UserTarget => r.in.id < nextUser
  /\ r.op \in KeyTarget => r.in.id < nextKey
  /\ r.at \in {"updateUser", "writeUser", "dropUser"} => UserRef(r.got, r.in.id)
  /\ r.at = "cacheCred" => \E u \in IssuedUsers : UserRef(r.got, u)
  /\ r.at \in {"rename", "updateKey", "putKey", "dropKey", "touch"} => KeyRef(r.got, r.in.id)
  /\ r.at \in {"cacheFound", "lastUsed"} => HashRef(r.got, r.in.id)
  /\ r.at = "cacheKey" => \E k \in IssuedKeys : KeyRef(r.got, k)

Request(r) ==
  /\ r = [op |-> r.op, at |-> r.at, in |-> r.in, got |-> r.got, status |-> r.status]
  /\ r.status \in Codes
  /\ Stage(r) /\ Params(r) /\ InHand(r)

-----------------------------------------------------------------------------
(* One request at a time.                                                  *)

FirstClient == CHOOSE c \in Clients : TRUE

OneKeyPerName ==
  \A j, k \in StoredKeys :
    Key(j).user = Key(k).user /\ Key(j).user # 0 /\ Key(j).name = Key(k).name => j = k

KeyTablesAgree ==
  backend = "cassandra" =>
    /\ \A k \in KeyIDs : keys[k] = NoRow => byHash[k] = NoRow
    /\ \A k \in StoredKeys :
         /\ keys[k].user # 0 /\ byHash[k] # NoRow
         /\ byHash[k].id = k /\ byHash[k].enabled = keys[k].enabled /\ byHash[k].name = keys[k].name
    /\ byUser = {<<keys[k].user, k>> : k \in StoredKeys}

\* Nobody else has the name of a key.
NameFree(user, name, k) ==
  \A j \in StoredKeys : j # k /\ user # 0 /\ Key(j).user = user => Key(j).name # name

\* The record is one that the tables have.
CredFits(ref, p) ==
  LET u == UserOf(ref).id IN
  users[u] # NoRow /\ User(u).name = p[1] /\ User(u).pw = p[2] /\ User(u).enabled
KeyFits(ref, k) ==
  /\ keys[k] # NoRow /\ KeyOf(ref).id = k
  /\ KeyOf(ref).enabled = Key(k).enabled /\ KeyOf(ref).name = Key(k).name

\* Another key of the owner works.
Spare(r) ==
  /\ keys[r.in.id] # NoRow /\ Key(r.in.id).user = r.in.user
  /\ \E j \in KeyIDs \ {r.in.id} : Enabled(j) /\ Key(j).user = r.in.user

UserAlone(r) ==
  /\ r.at = "putUser" => \A u \in StoredUsers : User(u).name # r.in.rec.name
  /\ r.at \in {"updateUser", "writeUser"} =>
       users[r.in.id] # NoRow /\ UserOf(r.got).name = User(r.in.id).name
  /\ r.at = "dropUser" => users[r.in.id] # NoRow /\ r.got = users[r.in.id]
  /\ r.at = "cacheCred" => CredFits(r.got, r.in.cred)
KeyAlone(r) ==
  /\ r.at = "createKey" => r.in.user # 0 /\ NameFree(r.in.user, r.in.name, 0)
  /\ r.at = "cacheKey" => KeyFits(r.got, KeyOf(r.got).id)
  /\ r.at = "rename" => keys[r.in.id] # NoRow /\ r.got = keys[r.in.id]
  /\ r.at \in {"updateKey", "putKey"} =>
       /\ keys[r.in.id] # NoRow /\ KeyOf(r.got).user = Key(r.in.id).user
       /\ NameFree(KeyOf(r.got).user, KeyOf(r.got).name, r.in.id)
       /\ KeyOf(r.got).enabled /\ ~Key(r.in.id).enabled =>
            r.op = "UpdateAPIKey" /\ r.in.change = [enabled |-> TRUE]
  /\ r.at \in {"dropKey", "touch"} => keys[r.in.id] # NoRow /\ r.got = keys[r.in.id]
  /\ r.at = "cacheFound" => KeyFits(r.got, r.in.id)
  /\ r.op = "RotateAPIKey" /\ r.at \in {"checkName", "createKey"} =>
       keys[r.in.id] # NoRow /\ Key(r.in.id).user = r.in.user
  /\ r.op = "RotateAPIKey" /\ r.at \in {"cacheKey", "revoke", "updateKey", "putKey"} => Spare(r)

\* Without the refresh the caches say what the tables say, but for a record that is
\* written and about to be dropped from them.
CachedKey(r, k) ==
  LET ref == keyCache[FirstNode][k] IN
  ref # NoRow =>
    /\ KeyOf(ref).id = k
    /\ ~(r.at \in {"deleteKey", "dropKey"} /\ r.in.id = k)
    /\ KeyFits(ref, k) \/ (r.at = "invalidateKey" /\ r.in.id = k)
Written(r) == r.at = "invalidateUser" \/ (r.at = "updateUser" /\ backend = "memory")
CachedCred(r, p) ==
  LET ref == credCache[FirstNode][p] IN
  ref # NoRow =>
    /\ ~(r.at \in {"deleteUser", "dropUser"} /\ r.in.id = UserOf(ref).id)
    /\ CredFits(ref, p) \/ (Written(r) /\ r.in.id = UserOf(ref).id)

Alone ==
  /\ \A c \in Clients : c # FirstClient => call[c].at = "done"
  /\ OneKeyPerName /\ KeyTablesAgree
  /\ UserAlone(call[FirstClient]) /\ KeyAlone(call[FirstClient])
  /\ "refresh" \notin load.ops =>
       /\ \A k \in KeyIDs : CachedKey(call[FirstClient], k)
       /\ \A p \in Creds : CachedCred(call[FirstClient], p)
       /\ \A n \in Nodes : listed[n] = NoRow

AccountsInv ==
  /\ load \in Loads /\ backend \in load.on
  /\ call = [c \in Clients |-> call[c]]
  /\ \A c \in Clients : Request(call[c])
  /\ UsersInv /\ KeysInv /\ CachesInv
  /\ backend # "cassandra" \/ load.serial => OneUserPerName
  /\ load.serial => Alone

-----------------------------------------------------------------------------
(* Facts about the operators.                                              *)

\* What the assumptions on the constants say.
LEMMA AccountConstants ==
  /\ Clients # {} /\ Nodes # {} /\ UserNames # {} /\ Passwords # {} /\ KeyNames # {}
  /\ MaxUser \in Nat \ {0} /\ MaxKey \in Nat \ {0}
  /\ NoRow \notin UserRow /\ NoRow \notin KeyRow
  /\ \A u \in UserIDs : NoRow # [ptr |-> u]
  /\ \A k \in KeyIDs : NoRow # [ptr |-> k]
  /\ FirstClient \in Clients /\ FirstNode \in Nodes
BY AccountAssumption DEF Pointer, FirstClient, FirstNode

\* A deployment has a backend.
LEMMA HasBackend ==
  ASSUME load \in Loads, backend \in load.on
  PROVE  /\ backend \in Backends /\ load.serial \in BOOLEAN /\ load.stored \in BOOLEAN
         /\ load.names \subseteq UserNames
BY LoadAssumption, AccountAssumption

\* The backends read alike, but for the tables of Cassandra.
LEMMA UserReads ==
  ASSUME backend \in Backends
  PROVE  ListUsers = StoredUsers /\ \A u : GetUserByID(u) = users[u]
BY DEF Backends, ListUsers, MemListUsers, PgListUsers, MyListUsers, CasListUsers,
       GetUserByID, MemGetUserByID, PgGetUserByID, MyGetUserByID, CasGetUserByID

\* Keys are read alike too: Cassandra has its own table by hash, and lists no row without its hash.
LEMMA KeyReads ==
  ASSUME backend \in Backends
  PROVE  /\ \A k : GetAPIKeyByID(k) = keys[k]
         /\ \A k : backend # "cassandra" => GetAPIKeyByHash(k) = keys[k]
         /\ \A k : backend = "cassandra" => GetAPIKeyByHash(k) = byHash[k]
         /\ ListAPIKeys \subseteq StoredKeys
         /\ \A k \in StoredKeys : k \in ListAPIKeys \/ (backend = "cassandra" /\ keys[k].user = 0)
<1>1. \A k : GetAPIKeyByID(k) = keys[k]
  BY DEF Backends, GetAPIKeyByID, MemGetAPIKeyByID, PgGetAPIKeyByID, MyGetAPIKeyByID, CasGetAPIKeyByID
<1>2. /\ \A k : backend # "cassandra" => GetAPIKeyByHash(k) = keys[k]
      /\ \A k : backend = "cassandra" => GetAPIKeyByHash(k) = byHash[k]
  BY DEF Backends, GetAPIKeyByHash, MemGetAPIKeyByHash, PgGetAPIKeyByHash, MyGetAPIKeyByHash, CasGetAPIKeyByHash
<1>3. /\ backend # "cassandra" => ListAPIKeys = StoredKeys
      /\ backend = "cassandra" => ListAPIKeys = {k \in StoredKeys : keys[k].user # 0}
  BY DEF Backends, ListAPIKeys, MemListAPIKeys, PgListAPIKeys, MyListAPIKeys, CasListAPIKeys, Ghost
<1>4. /\ ListAPIKeys \subseteq StoredKeys
      /\ \A k \in StoredKeys : k \in ListAPIKeys \/ (backend = "cassandra" /\ keys[k].user = 0)
  <2>1. CASE backend = "cassandra"
    BY <1>3, <2>1
  <2>2. CASE backend # "cassandra"
    BY <1>3, <2>2
  <2> QED BY <2>1, <2>2
<1> QED BY <1>1, <1>2, <1>4

\* The keys of a user, and those of a name.
OfUser(u) ==
  IF backend = "cassandra" THEN {k \in StoredKeys : <<u, k>> \in byUser}
  ELSE {k \in StoredKeys : Key(k).user = u /\ (u # 0 \/ backend = "memory")}

\* The look-ups of keys by user, and by user and name.
LEMMA KeyNameReads ==
  ASSUME backend \in Backends
  PROVE  /\ \A u : ListAPIKeysByUserID(u) = OfUser(u)
         /\ \A u, name : GetAPIKeyByUserAndName(u, name) = {k \in OfUser(u) : Key(k).name = name}
<1>1. \A k : backend # "memory" => Key(k) = keys[k]
  BY DEF Key, KeyOf
<1>2. \A u : ListAPIKeysByUserID(u) = OfUser(u)
  <2> TAKE u
  <2>1. /\ backend = "memory" => ListAPIKeysByUserID(u) = {k \in StoredKeys : Key(k).user = u}
        /\ backend \in {"postgres", "mysql"} =>
             ListAPIKeysByUserID(u) = {k \in StoredKeys : keys[k].user = u /\ u # 0}
        /\ backend = "cassandra" => ListAPIKeysByUserID(u) = {k \in StoredKeys : <<u, k>> \in byUser}
    BY DEF Backends, ListAPIKeysByUserID, MemListAPIKeysByUserID, PgListAPIKeysByUserID,
           MyListAPIKeysByUserID, CasListAPIKeysByUserID
  <2>2. CASE backend = "memory"
    BY <2>1, <2>2 DEF OfUser
  <2>3. CASE backend \in {"postgres", "mysql"}
    BY <1>1, <2>1, <2>3 DEF OfUser
  <2>4. CASE backend = "cassandra"
    BY <2>1, <2>4 DEF OfUser
  <2> QED BY <2>2, <2>3, <2>4 DEF Backends
<1>3. \A u, name : GetAPIKeyByUserAndName(u, name) = {k \in OfUser(u) : Key(k).name = name}
  BY <1>1 DEF Backends, GetAPIKeyByUserAndName, OfUser, MemListAPIKeysByUserID, PgListAPIKeysByUserID,
         CasListAPIKeysByUserID, MemGetAPIKeyByUserAndName, PgGetAPIKeyByUserAndName,
         MyGetAPIKeyByUserAndName, CasGetAPIKeyByUserAndName
<1> QED BY <1>2, <1>3

\* What a reference to an issued user or key says.
LEMMA UserOfRef ==
  ASSUME UsersInv, NEW u \in UserIDs, u < nextUser, NEW ref, UserRef(ref, u)
  PROVE  UserOf(ref) \in UserRow /\ UserOf(ref).id = u /\ ref # NoRow
<1>1. u \in IssuedUsers
  BY AccountConstants DEF UsersInv, IssuedUsers, UserIDs
<1> QED BY <1>1, AccountConstants DEF UsersInv, UserRef, UserOf

\* What a reference found by the hash of a key says.
LEMMA HashOfRef ==
  ASSUME KeysInv, NEW k \in KeyIDs, k < nextKey, NEW ref, HashRef(ref, k)
  PROVE  /\ KeyOf(ref) \in KeyRow /\ KeyOf(ref).id \in {0, k} /\ ref # NoRow
         /\ backend = "memory" => KeyOf(ref).id = k
<1>1. k \in IssuedKeys
  BY AccountConstants DEF KeysInv, IssuedKeys, KeyIDs
<1> QED BY <1>1, AccountConstants DEF KeysInv, HashRef, KeyOf

\* What a reference to an issued key says.
LEMMA KeyOfRef ==
  ASSUME KeysInv, NEW k \in KeyIDs, k < nextKey, NEW ref, KeyRef(ref, k)
  PROVE  KeyOf(ref) \in KeyRow /\ KeyOf(ref).id = k /\ ref # NoRow
<1>1. k \in IssuedKeys
  BY AccountConstants DEF KeysInv, IssuedKeys, KeyIDs
<1> QED BY <1>1, AccountConstants DEF KeysInv, KeyRef, KeyOf

\* What the users table holds for a user.
LEMMA UserStored ==
  ASSUME UsersInv, NEW u \in UserIDs, users[u] # NoRow
  PROVE  UserRef(users[u], u) /\ u < nextUser /\ User(u) \in UserRow /\ User(u).id = u
<1>1. UserRef(users[u], u) /\ u < nextUser
  BY DEF UsersInv, StoredUsers
<1> QED BY <1>1, UserOfRef DEF User

\* What the keys table holds for a key.
LEMMA KeyStored ==
  ASSUME KeysInv, NEW k \in KeyIDs, keys[k] # NoRow
  PROVE  KeyRef(keys[k], k) /\ k < nextKey /\ Key(k) \in KeyRow /\ Key(k).id = k
<1>1. KeyRef(keys[k], k) /\ k < nextKey
  BY DEF KeysInv, StoredKeys
<1> QED BY <1>1, KeyOfRef DEF Key

-----------------------------------------------------------------------------
(* What a step does to the requests.                                       *)

Moves(c) == call' = [call EXCEPT ![c] = call'[c]]

\* The parts of the invariant that every step needs.
LEMMA InvParts ==
  ASSUME AccountsInv
  PROVE  /\ load \in Loads /\ backend \in load.on
         /\ backend \in Backends /\ load.serial \in BOOLEAN /\ load.stored \in BOOLEAN
         /\ call = [c \in Clients |-> call[c]]
         /\ \A c \in Clients : Request(call[c])
         /\ UsersInv /\ KeysInv /\ CachesInv
BY HasBackend DEF AccountsInv

\* The client that moves, and the facts about it.
LEMMA ActiveClient ==
  ASSUME AccountsInv, NEW c \in ActiveClients
  PROVE  /\ c \in Clients /\ Request(call[c])
         /\ load.serial => c = FirstClient
         /\ load.serial => /\ OneUserPerName /\ OneKeyPerName /\ KeyTablesAgree
                           /\ UserAlone(call[c]) /\ KeyAlone(call[c])
         /\ load.serial /\ "refresh" \notin load.ops =>
              /\ \A k \in KeyIDs : CachedKey(call[c], k)
              /\ \A p \in Creds : CachedCred(call[c], p)
<1>1. c \in Clients /\ (load.serial => c = FirstClient)
  BY AccountConstants DEF ActiveClients, FirstClient
<1>2. Request(call[c])
  BY <1>1 DEF AccountsInv
<1>3. load.serial => Alone /\ OneUserPerName
  BY DEF AccountsInv
<1> QED BY <1>1, <1>2, <1>3 DEF Alone

\* The fields of a request that goes on.
LEMMA GotoFields ==
  ASSUME AccountsInv, NEW c \in ActiveClients, NEW at, NEW got, Goto(c, at, got)
  PROVE  /\ Moves(c)
         /\ call'[c].op = call[c].op /\ call'[c].at = at /\ call'[c].in = call[c].in
         /\ call'[c].got = got /\ call'[c].status = call[c].status
         /\ call'[c] = [op |-> call'[c].op, at |-> call'[c].at, in |-> call'[c].in, got |-> call'[c].got,
                        status |-> call'[c].status]
<1>1. call = [d \in Clients |-> call[d]] /\ Request(call[c]) /\ c \in Clients
  BY InvParts, ActiveClient
<1>2. PICK r : r = call[c]
  OBVIOUS
<1>3. r = [op |-> r.op, at |-> r.at, in |-> r.in, got |-> r.got, status |-> r.status]
  BY <1>1, <1>2 DEF Request
<1>4. PICK q : q = [[r EXCEPT !.at = at] EXCEPT !.got = got]
  OBVIOUS
<1>5. q = [op |-> r.op, at |-> at, in |-> r.in, got |-> got, status |-> r.status]
  BY <1>3, <1>4
<1>6. call' = [call EXCEPT ![c] = q]
  BY <1>2, <1>4 DEF Goto
<1>7. call'[c] = q
  BY <1>1, <1>6
<1>8. call' = [call EXCEPT ![c] = call'[c]]
  BY <1>6, <1>7
<1> QED BY <1>2, <1>5, <1>7, <1>8 DEF Moves

\* What of the request that leaves alone.
LEMMA GotoKeeps ==
  ASSUME AccountsInv, NEW c \in ActiveClients, NEW at, NEW got, Goto(c, at, got)
  PROVE  /\ Moves(c) /\ call'[c].op = call[c].op /\ call'[c].at = at /\ call'[c].in = call[c].in
         /\ call'[c].got = got
<1>1. /\ Moves(c)
      /\ call'[c].op = call[c].op /\ call'[c].at = at /\ call'[c].in = call[c].in
      /\ call'[c].got = got /\ call'[c].status = call[c].status
      /\ call'[c] = [op |-> call'[c].op, at |-> call'[c].at, in |-> call'[c].in, got |-> call'[c].got,
                     status |-> call'[c].status]
  BY GotoFields, Zenon
<1> QED BY <1>1

\* A request goes on to another step of its operation.
LEMMA GotoGood ==
  ASSUME AccountsInv, NEW c \in ActiveClients, UNCHANGED <<backend, load>>,
         nextUser <= nextUser', nextUser' \in Nat, nextKey <= nextKey', nextKey' \in Nat,
         NEW at, NEW got, Goto(c, at, got),
         Stage([op |-> call[c].op, at |-> at]),
         InHand(call[c])'
  PROVE  Moves(c) /\ Request(call[c])'
<1>1. Request(call[c])
  BY ActiveClient
<1>2. Stage(call[c])'
  <2>1. call'[c].op = call[c].op /\ call'[c].at = at
    BY GotoFields
  <2> QED BY <2>1 DEF Stage
<1>3. Params(call[c])'
  BY <1>1, GotoFields DEF Request, Params
<1> QED BY <1>1, <1>2, <1>3, GotoFields DEF Request

\* A request is answered.
LEMMA AnswerGood ==
  ASSUME AccountsInv, NEW c \in ActiveClients, NEW status \in Codes, Answer(c, status)
  PROVE  /\ Moves(c) /\ Request(call[c])' /\ call'[c].at = "done" /\ call'[c].op = "none"
<1>1. call = [d \in Clients |-> call[d]] /\ c \in Clients
  BY InvParts, ActiveClient
<1>2. PICK r : r = [op |-> "none", at |-> "done", in |-> NoRow, got |-> NoRow, status |-> status]
  OBVIOUS
<1>3. [Idle EXCEPT !.status = status] = r
  BY <1>2 DEF Idle
<1>4. call' = [call EXCEPT ![c] = r]
  BY <1>3 DEF Answer
<1>5. call'[c] = r
  BY <1>1, <1>4
<1>6. Request(call[c])'
  BY <1>2, <1>5 DEF Request, Stage, Params, InHand, UserTarget, KeyTarget
<1>7. call' = [call EXCEPT ![c] = call'[c]]
  BY <1>4, <1>5
<1> QED BY <1>2, <1>5, <1>6, <1>7 DEF Moves

\* A request that is answered is well formed.
LEMMA ReplyGood ==
  ASSUME AccountsInv, NEW c \in ActiveClients, NEW err, Reply(c, err)
  PROVE  /\ Moves(c) /\ Request(call[c])' /\ call'[c].at = "done" /\ call'[c].op = "none"
<1>1. AccountCode(call[c].op, err) \in Codes
  BY DEF AccountCode, Codes
<1>2. (IF load.serial THEN AccountCode(call[c].op, err) ELSE 0) \in Codes
  BY <1>1 DEF Codes
<1> QED BY <1>2, AnswerGood DEF Reply

\* So is one whose failure is reported, or ignored in a rotation.
LEMMA FailGood ==
  ASSUME AccountsInv, NEW c \in ActiveClients, NEW err, Fail(c, err)
  PROVE  /\ Moves(c) /\ Request(call[c])' /\ call'[c].at = "done" /\ call'[c].op = "none"
BY ReplyGood DEF Fail

\* A request begins.
LEMMA BeginGood ==
  ASSUME AccountsInv, NEW c \in ActiveClients, UNCHANGED <<backend, load, nextUser, nextKey>>,
         NEW op, NEW at, NEW in, Begin(c, op, at, in), op # "none",
         at \in {"createUser", "listUsers", "getUser", "invalidateUser", "cached", "checkName", "target",
                 "getKey", "revoke", "invalidateKey", "rotate"},
         Stage([op |-> op, at |-> at]), Params([op |-> op, in |-> in]),
         op \in UserTarget => in.id < nextUser,
         op \in KeyTarget => in.id < nextKey
  PROVE  /\ Moves(c) /\ Request(call[c])'
         /\ call'[c].at = at /\ call'[c].op = op /\ call[c].at = "done"
<1>1. call = [d \in Clients |-> call[d]] /\ c \in Clients
  BY InvParts, ActiveClient
<1>2. PICK r : r = [op |-> op, at |-> at, in |-> in, got |-> NoRow, status |-> 0]
  OBVIOUS
<1>3. /\ r.op = op /\ r.at = at /\ r.in = in /\ r.got = NoRow /\ r.status = 0
      /\ r = [op |-> r.op, at |-> r.at, in |-> r.in, got |-> r.got, status |-> r.status]
  BY <1>2
<1>4. call' = [call EXCEPT ![c] = r] /\ call'[c] = r
  BY <1>1, <1>2 DEF Begin
<1>5. Stage(call[c])'
  BY <1>3, <1>4 DEF Stage
<1>6. Params(call[c])'
  <2>1. Params(r)
    BY <1>3 DEF Params
  <2> QED BY <1>4, <2>1 DEF Params
<1>7. InHand(call[c])'
  BY <1>3, <1>4 DEF InHand
<1> QED BY <1>3, <1>4, <1>5, <1>6, <1>7 DEF Request, Codes, Begin, Moves

-----------------------------------------------------------------------------
(* What a step does to the users and to the keys.                          *)

Unrefreshed == load.serial /\ "refresh" \notin load.ops

UserSide(c) ==
  /\ UsersInv' /\ nextUser <= nextUser'
  /\ backend # "cassandra" \/ load.serial => OneUserPerName'
  /\ load.serial => UserAlone(call[c])'
  /\ Unrefreshed => \A p \in Creds : CachedCred(call[c], p)'

\* The steps of KeysChangeAsAsked.
EnabledAsAsked ==
  Undisturbed => \A k \in KeyIDs :
    (keys[k] # NoRow /\ ~Enabled(k) /\ Enabled(k)') =>
       \E c \in Clients : call[c].op = "UpdateAPIKey" /\ call[c].in.change = [enabled |-> TRUE]
KeyIsKept ==
  load.serial => \A k \in KeyIDs :
    (Enabled(k) /\ ~Enabled(k)' /\ \E c \in Clients : call[c].op = "RotateAPIKey" /\ call[c].at # "done") =>
       \E j \in KeyIDs \ {k} : Enabled(j)' /\ Key(j)'.user = Key(k).user

KeySide(c) ==
  /\ KeysInv' /\ nextKey <= nextKey'
  /\ load.serial => OneKeyPerName' /\ KeyTablesAgree' /\ KeyAlone(call[c])'
  /\ Unrefreshed => \A k \in KeyIDs : CachedKey(call[c], k)'
  /\ EnabledAsAsked /\ KeyIsKept

\* Numbers that are issued stay issued.
LEMMA IntervalGrows ==
  ASSUME NEW m \in Int, NEW n \in Int, m <= n
  PROVE  1..(m - 1) \subseteq 1..(n - 1)
OBVIOUS

\* What a request has in hand stays issued.
LEMMA InHandKept ==
  ASSUME UsersInv, UsersInv', KeysInv, KeysInv', UNCHANGED <<backend, load>>,
         nextUser <= nextUser', nextKey <= nextKey', NEW d \in Clients, call'[d] = call[d], Request(call[d])
  PROVE  Request(call[d])'
<1>1. nextUser \in Int /\ nextUser' \in Int /\ nextKey \in Int /\ nextKey' \in Int
  BY AccountConstants DEF UsersInv, KeysInv
<1>2. IssuedUsers \subseteq IssuedUsers' /\ IssuedKeys \subseteq IssuedKeys'
  BY <1>1, IntervalGrows DEF IssuedUsers, IssuedKeys
<1>3. Params(call[d])'
  BY DEF Request, Params
<1>4. Stage(call[d])'
  BY DEF Request, Stage
<1>5. InHand(call[d])'
  <2>1. call[d].op \in UserTarget => call[d].in.id \in Int
    BY AccountConstants DEF Request, Params, UserTarget, UserIDs
  <2>2. call[d].op \in KeyTarget => call[d].in.id \in Int
    BY AccountConstants DEF Request, Params, KeyTarget, KeyIDs
  <2> QED BY <1>1, <1>2, <2>1, <2>2 DEF Request, InHand, UserRef, KeyRef, HashRef
<1> QED BY <1>3, <1>4, <1>5 DEF Request

\* A step that leaves the caches alone keeps their invariant.
LEMMA CachesRest ==
  ASSUME UsersInv, UsersInv', KeysInv, KeysInv', CachesInv, UNCHANGED <<backend, load>>,
         nextUser <= nextUser', nextKey <= nextKey', UNCHANGED caches
  PROVE  CachesInv'
<1>1. nextUser \in Int /\ nextUser' \in Int /\ nextKey \in Int /\ nextKey' \in Int
  BY AccountConstants DEF UsersInv, KeysInv
<1>2. IssuedUsers \subseteq IssuedUsers'
  BY <1>1, IntervalGrows DEF IssuedUsers
<1>3. \A k \in KeyIDs : k < nextKey => k < nextKey'
  BY <1>1, AccountConstants DEF KeyIDs
<1>4. keyCache' = keyCache /\ credCache' = credCache /\ listed' = listed
  BY DEF caches
<1>5. /\ \A n \in Nodes, k \in KeyIDs : keyCache[n][k] # NoRow => HashRef(keyCache[n][k], k)' /\ k < nextKey'
      /\ \A n \in Nodes : listed[n] # NoRow =>
           \A k \in KeyIDs \cap DOMAIN listed[n] : KeyRef(listed[n][k], k)' /\ k < nextKey'
  BY <1>3, <1>4 DEF CachesInv, HashRef, KeyRef
<1>6. \A n \in Nodes, p \in Creds : credCache[n][p] # NoRow =>
       \E u \in IssuedUsers' : UserRef(credCache[n][p], u)'
  BY <1>2, <1>4 DEF CachesInv, UserRef
<1> QED BY <1>4, <1>5, <1>6 DEF CachesInv

\* The step of a client, from its parts.
LEMMA StepInv ==
  ASSUME AccountsInv, NEW c \in ActiveClients, UNCHANGED <<backend, load>>,
         Moves(c), Request(call[c])', UserSide(c), KeySide(c), CachesInv', listed' = listed
  PROVE  AccountsInv'
<1>1. /\ c \in Clients /\ call = [d \in Clients |-> call[d]]
      /\ UsersInv /\ KeysInv /\ \A d \in Clients : Request(call[d])
  BY InvParts, ActiveClient
<1>2. call' = [d \in Clients |-> call'[d]] /\ \A d \in Clients : d # c => call'[d] = call[d]
  BY <1>1 DEF Moves
<1>3. /\ UsersInv' /\ KeysInv' /\ nextUser <= nextUser' /\ nextKey <= nextKey'
  BY DEF UserSide, KeySide
<1>4. ASSUME NEW d \in Clients PROVE Request(call[d])'
  <2>1. CASE d = c
    BY <2>1
  <2>2. CASE d # c
    BY <1>1, <1>2, <1>3, <2>2, InHandKept
  <2> QED BY <2>1, <2>2
<1>5. load.serial => Alone'
  <2> SUFFICES ASSUME load.serial PROVE Alone'
    OBVIOUS
  <2>1. c = FirstClient /\ Alone
    BY ActiveClient DEF AccountsInv
  <2>2. \A d \in Clients : d # FirstClient => call'[d].at = "done"
    BY <1>2, <2>1 DEF Alone
  <2>3. "refresh" \notin load.ops => \A n \in Nodes : listed'[n] = NoRow
    BY <2>1 DEF Alone
  <2> QED BY <2>1, <2>2, <2>3 DEF Alone, UserSide, KeySide, Unrefreshed
<1>6. load' \in Loads /\ backend' \in load'.on
  BY InvParts
<1>7. backend' # "cassandra" \/ load'.serial => OneUserPerName'
  BY DEF UserSide
<1> QED BY <1>2, <1>3, <1>4, <1>5, <1>6, <1>7 DEF AccountsInv

\* The users' side of a step that leaves their tables and their cache alone.
LEMMA UserSideQuiet ==
  ASSUME AccountsInv, NEW c \in ActiveClients, UNCHANGED <<backend, load>>, UNCHANGED userTables,
         UNCHANGED credCache,
         load.serial => UserAlone(call'[c]),
         call[c].at # "invalidateUser", ~(backend = "memory" /\ call[c].at = "updateUser"),
         call'[c].at # "deleteUser",
         call'[c].at = "dropUser" => call[c].at = "deleteUser" /\ call'[c].in.id = call[c].in.id
  PROVE  UserSide(c)
<1>1. users' = users /\ names' = names /\ userObj' = userObj /\ nextUser' = nextUser
  BY DEF userTables
<1>2. UsersInv /\ UsersInv' /\ nextUser <= nextUser'
  <2>1. UsersInv
    BY InvParts
  <2>2. UsersInv'
    BY <1>1, <2>1 DEF UsersInv, StoredUsers, IssuedUsers, UserRef
  <2> QED BY <1>1, <2>1, <2>2, AccountConstants DEF UsersInv
<1>3. /\ \A ref : UserOf(ref)' = UserOf(ref)
      /\ \A u : User(u)' = User(u)
      /\ StoredUsers' = StoredUsers
  BY <1>1 DEF User, UserOf, StoredUsers
<1>4. backend # "cassandra" \/ load.serial => OneUserPerName'
  BY <1>1, <1>3 DEF AccountsInv, OneUserPerName
<1>5. load.serial => UserAlone(call[c])'
  BY <1>1, <1>3 DEF UserAlone, CredFits, User, UserOf
<1>6. Unrefreshed => \A p \in Creds : CachedCred(call[c], p)'
  <2> SUFFICES ASSUME Unrefreshed, NEW p \in Creds PROVE CachedCred(call[c], p)'
    OBVIOUS
  <2>1. CachedCred(call[c], p)
    BY ActiveClient DEF Unrefreshed
  <2> DEFINE ref == credCache[FirstNode][p]
  <2>2. (credCache[FirstNode][p])' = ref
    OBVIOUS
  <2>3. ref # NoRow => CredFits(ref, p) /\ ~(call[c].at \in {"deleteUser", "dropUser"} /\ call[c].in.id = UserOf(ref).id)
    BY <2>1 DEF CachedCred, Written
  <2>4. CredFits(ref, p) => CredFits(ref, p)'
    BY <1>1, <1>3 DEF CredFits, User, UserOf
  <2>5. CredFits(ref, p)' <=> CredFits((credCache[FirstNode][p]), p)'
    BY <2>2 DEF CredFits, User, UserOf
  <2>6. UserOf(credCache[FirstNode][p])' = UserOf(ref)
    BY <1>1, <2>2 DEF UserOf
  <2> QED BY <2>2, <2>3, <2>4, <2>5, <2>6 DEF CachedCred
<1> QED BY <1>2, <1>4, <1>5, <1>6 DEF UserSide

\* The stages of the requests on users that the invariant speaks of.
UserStages == {"putUser", "updateUser", "writeUser", "dropUser", "cacheCred", "deleteUser"}

\* The users' side of a step that has nothing to do with them.
LEMMA UserSideRest ==
  ASSUME AccountsInv, NEW c \in ActiveClients, UNCHANGED <<backend, load>>, UNCHANGED userTables,
         UNCHANGED credCache,
         call[c].at # "invalidateUser", ~(backend = "memory" /\ call[c].at = "updateUser"),
         call'[c].at \notin UserStages
  PROVE  UserSide(c)
<1>1. UserAlone(call'[c])
  BY DEF UserAlone, UserStages
<1> QED BY <1>1, UserSideQuiet DEF UserStages

\* The keys' side of a step that leaves their tables and their cache alone.
LEMMA KeySideQuiet ==
  ASSUME AccountsInv, NEW c \in ActiveClients, UNCHANGED <<backend, load>>, UNCHANGED keyTables,
         UNCHANGED keyCache,
         load.serial => KeyAlone(call'[c]),
         call[c].at # "invalidateKey", call'[c].at # "deleteKey",
         call'[c].at = "dropKey" => call[c].at = "deleteKey" /\ call'[c].in.id = call[c].in.id
  PROVE  KeySide(c)
<1>1. keys' = keys /\ byUser' = byUser /\ byHash' = byHash /\ keyObj' = keyObj /\ nextKey' = nextKey
  BY DEF keyTables
<1>2. KeysInv /\ KeysInv' /\ nextKey <= nextKey'
  <2>1. KeysInv
    BY InvParts
  <2>2. KeysInv'
    BY <1>1, <2>1 DEF KeysInv, StoredKeys, IssuedKeys, KeyRef
  <2> QED BY <1>1, <2>1, <2>2, AccountConstants DEF KeysInv
<1>3. /\ \A ref : KeyOf(ref)' = KeyOf(ref)
      /\ \A k : Key(k)' = Key(k)
      /\ \A k : Enabled(k)' <=> Enabled(k)
      /\ StoredKeys' = StoredKeys
  BY <1>1 DEF Key, KeyOf, StoredKeys, Enabled
<1>4. load.serial => OneKeyPerName' /\ KeyTablesAgree'
  <2> SUFFICES ASSUME load.serial PROVE OneKeyPerName' /\ KeyTablesAgree'
    OBVIOUS
  <2>1. OneKeyPerName /\ KeyTablesAgree
    BY ActiveClient
  <2> QED BY <1>1, <1>3, <2>1 DEF OneKeyPerName, KeyTablesAgree
<1>5. load.serial => KeyAlone(call[c])'
  <2>1. \A u, n, k : NameFree(u, n, k)' <=> NameFree(u, n, k)
    BY <1>3 DEF NameFree
  <2>2. \A ref, k : KeyFits(ref, k)' <=> KeyFits(ref, k)
    BY <1>1, <1>3 DEF KeyFits
  <2>3. \A r : Spare(r)' <=> Spare(r)
    BY <1>1, <1>3 DEF Spare
  <2> QED BY <1>1, <1>3, <2>1, <2>2, <2>3 DEF KeyAlone
<1>6. Unrefreshed => \A k \in KeyIDs : CachedKey(call[c], k)'
  <2> SUFFICES ASSUME Unrefreshed, NEW k \in KeyIDs PROVE CachedKey(call[c], k)'
    OBVIOUS
  <2>1. CachedKey(call[c], k)
    BY ActiveClient DEF Unrefreshed
  <2> DEFINE ref == keyCache[FirstNode][k]
  <2>2. (keyCache[FirstNode][k])' = ref
    OBVIOUS
  <2>3. ref # NoRow => KeyFits(ref, k) /\ ~(call[c].at \in {"deleteKey", "dropKey"} /\ call[c].in.id = k)
    BY <2>1 DEF CachedKey
  <2>4. KeyFits(keyCache[FirstNode][k], k)' <=> KeyFits(ref, k)
    BY <1>1, <2>2 DEF KeyFits, Key, KeyOf
  <2>5. KeyOf(keyCache[FirstNode][k])' = KeyOf(ref)
    BY <1>1, <2>2 DEF KeyOf
  <2> QED BY <2>1, <2>2, <2>3, <2>4, <2>5 DEF CachedKey
<1>7. EnabledAsAsked /\ KeyIsKept
  BY <1>3 DEF EnabledAsAsked, KeyIsKept
<1> QED BY <1>2, <1>4, <1>5, <1>6, <1>7 DEF KeySide

\* The stages of the requests on keys that the invariant speaks of.
KeyStages == {"checkName", "createKey", "cacheKey", "rename", "updateKey", "putKey", "dropKey", "touch",
              "cacheFound", "revoke", "deleteKey"}
\* The keys' side of a step that has nothing to do with them.
LEMMA KeySideRest ==
  ASSUME AccountsInv, NEW c \in ActiveClients, UNCHANGED <<backend, load>>, UNCHANGED keyTables,
         UNCHANGED keyCache, call[c].at # "invalidateKey", call'[c].at \notin KeyStages
  PROVE  KeySide(c)
<1>1. KeyAlone(call'[c])
  BY DEF KeyAlone, KeyStages
<1> QED BY <1>1, KeySideQuiet DEF KeyStages

\* A step that leaves the tables and caches alone.
LEMMA QuietStep ==
  ASSUME AccountsInv, NEW c \in ActiveClients, UNCHANGED <<backend, load>>, UNCHANGED tableVars, UNCHANGED caches,
         Moves(c), Request(call[c])',
         load.serial => UserAlone(call'[c]) /\ KeyAlone(call'[c]),
         call[c].at \notin {"invalidateUser", "invalidateKey"}, ~(backend = "memory" /\ call[c].at = "updateUser"),
         call'[c].at \notin {"deleteUser", "deleteKey"},
         call'[c].at = "dropUser" => call[c].at = "deleteUser" /\ call'[c].in.id = call[c].in.id,
         call'[c].at = "dropKey" => call[c].at = "deleteKey" /\ call'[c].in.id = call[c].in.id
  PROVE  AccountsInv' /\ EnabledAsAsked /\ KeyIsKept
<1>1. UNCHANGED userTables /\ UNCHANGED keyTables /\ UNCHANGED keyCache /\ UNCHANGED credCache /\ listed' = listed
  BY DEF tableVars, caches
<1>2. UserSide(c)
  BY <1>1, UserSideQuiet
<1>3. KeySide(c)
  BY <1>1, KeySideQuiet
<1>4. CachesInv'
  BY <1>2, <1>3, InvParts, CachesRest DEF UserSide, KeySide
<1> QED BY <1>1, <1>2, <1>3, <1>4, StepInv DEF KeySide

\* Such a step to a stage of which the invariant says nothing, as an answer is.
LEMMA PlainStep ==
  ASSUME AccountsInv, NEW c \in ActiveClients, UNCHANGED <<backend, load>>, UNCHANGED tableVars, UNCHANGED caches,
         Moves(c), Request(call[c])',
         call[c].at \notin {"invalidateUser", "invalidateKey"}, ~(backend = "memory" /\ call[c].at = "updateUser"),
         call'[c].at \notin UserStages \cup KeyStages
  PROVE  AccountsInv' /\ EnabledAsAsked /\ KeyIsKept
<1>1. UserAlone(call'[c]) /\ KeyAlone(call'[c])
  BY DEF UserAlone, KeyAlone, UserStages, KeyStages
<1> QED BY <1>1, QuietStep DEF UserStages, KeyStages

-----------------------------------------------------------------------------
(* Requests begin.                                                         *)

Good == AccountsInv' /\ EnabledAsAsked /\ KeyIsKept

\* A request begins, with parameters of its kind.
LEMMA RequestBegins ==
  ASSUME AccountsInv, NEW c \in ActiveClients, UNCHANGED <<backend, load>>, UNCHANGED <<tableVars, caches>>,
         NEW op, NEW at, NEW in, Begin(c, op, at, in), op # "none",
         at \in {"createUser", "listUsers", "getUser", "invalidateUser", "cached", "checkName", "target",
                 "getKey", "revoke", "invalidateKey", "rotate"},
         op = "RotateAPIKey" => at = "rotate",
         Stage([op |-> op, at |-> at]), Params([op |-> op, in |-> in]),
         op \in UserTarget => in.id < nextUser,
         op \in KeyTarget => in.id < nextKey
  PROVE  Good
<1>1. UNCHANGED tableVars /\ UNCHANGED caches /\ UNCHANGED nextUser /\ UNCHANGED nextKey
  BY DEF tableVars, userTables, keyTables
<1>2. /\ Moves(c) /\ Request(call[c])'
      /\ call'[c].at = at /\ call'[c].op = op /\ call[c].at = "done"
  BY <1>1, BeginGood
<1>3. UserAlone(call'[c])
  BY <1>2 DEF UserAlone
<1>4. KeyAlone(call'[c])
  BY <1>2 DEF KeyAlone
<1> QED BY <1>1, <1>2, <1>3, <1>4, QuietStep DEF Good

\* The issued IDs.
LEMMA Issued ==
  ASSUME AccountsInv
  PROVE  /\ \A u \in IssuedUsers : u \in UserIDs /\ u < nextUser
         /\ \A k \in IssuedKeys : k \in KeyIDs /\ k < nextKey
BY InvParts, AccountConstants DEF UsersInv, KeysInv, IssuedUsers, IssuedKeys, UserIDs, KeyIDs

\* The beginnings of the requests on users.
LEMMA UserBegins ==
  ASSUME AccountsInv, NEW c \in ActiveClients, UNCHANGED <<backend, load>>,
         \/ HandleCreateUser(c) \/ HandleUpdateUser(c) \/ HandleChangePassword(c) \/ HandleDeleteUser(c)
         \/ BootstrapAdmin(c) /\ call[c].at = "done"
  PROVE  Good
<1>1. FirstNode \in Nodes /\ load.names \subseteq UserNames /\ load.serial \in BOOLEAN
  BY InvParts, HasBackend, AccountConstants
<1>2. (CHOOSE p \in Passwords : TRUE) \in Passwords /\ (CHOOSE u \in UserNames : TRUE) \in UserNames
  BY AccountConstants
<1>3. CASE HandleCreateUser(c)
  <2>1. PICK name \in load.names, e \in (IF load.serial THEN Emails ELSE {}) \cup {NoRow} :
          Begin(c, "CreateUser", "createUser",
             [node |-> FirstNode, rec |-> [id |-> 0, name |-> name, pw |-> CHOOSE p \in Passwords : TRUE,
                                   email |-> e, enabled |-> TRUE]])
    BY <1>3 DEF HandleCreateUser
  <2> DEFINE in == [node |-> FirstNode, rec |-> [id |-> 0, name |-> name, pw |-> CHOOSE p \in Passwords : TRUE,
                                   email |-> e, enabled |-> TRUE]]
  <2>2. in \in [node : Nodes, rec : NewUser] /\ in.node = FirstNode
    BY <1>1, <1>2 DEF NewUser
  <2> HIDE DEF in
  <2>3. Params([op |-> "CreateUser", in |-> in])
    BY <2>2 DEF Params
  <2>4. Stage([op |-> "CreateUser", at |-> "createUser"])
    BY DEF Stage
  <2>5. UNCHANGED <<tableVars, caches>>
    BY <1>3 DEF HandleCreateUser
  <2>6. Begin(c, "CreateUser", "createUser", in)
    BY <2>1 DEF in
  <2> QED BY <2>3, <2>4, <2>5, <2>6, RequestBegins DEF UserTarget, KeyTarget
<1>4. CASE BootstrapAdmin(c) /\ call[c].at = "done"
  <2> DEFINE in == [node |-> FirstNode, rec |-> [id |-> 0, name |-> CHOOSE u \in UserNames : TRUE,
                                      pw |-> CHOOSE p \in Passwords : TRUE, email |-> NoRow, enabled |-> TRUE]]
  <2>1. Begin(c, "BootstrapAdmin", "listUsers", in) /\ UNCHANGED <<tableVars, caches>>
    BY <1>4 DEF BootstrapAdmin, At
  <2>2. in \in [node : Nodes, rec : NewUser] /\ in.node = FirstNode
    BY <1>1, <1>2 DEF NewUser
  <2> HIDE DEF in
  <2>3. Params([op |-> "BootstrapAdmin", in |-> in])
    BY <2>2 DEF Params
  <2>4. Stage([op |-> "BootstrapAdmin", at |-> "listUsers"])
    BY DEF Stage
  <2> QED BY <2>1, <2>3, <2>4, RequestBegins DEF UserTarget, KeyTarget
<1>5. CASE HandleUpdateUser(c)
  <2>1. PICK u \in IssuedUsers, change \in UserChanges :
          Begin(c, "UpdateUser", "getUser", [node |-> FirstNode, id |-> u, change |-> change])
    BY <1>5 DEF HandleUpdateUser
  <2>2. u \in UserIDs /\ u < nextUser /\ change \in UserChange
    BY <1>1, Issued DEF UserChanges, UserChange
  <2>3. Params([op |-> "UpdateUser", in |-> [node |-> FirstNode, id |-> u, change |-> change]])
    BY <1>1, <2>2 DEF Params
  <2>4. Stage([op |-> "UpdateUser", at |-> "getUser"])
    BY DEF Stage
  <2>5. UNCHANGED <<tableVars, caches>>
    BY <1>5 DEF HandleUpdateUser
  <2> QED BY <2>1, <2>2, <2>3, <2>4, <2>5, RequestBegins DEF KeyTarget
<1>6. CASE HandleChangePassword(c)
  <2>1. PICK u \in IssuedUsers, old \in Passwords, new \in Passwords :
          Begin(c, "ChangePassword", "getUser", [node |-> FirstNode, id |-> u, old |-> old, change |-> [pw |-> new]])
    BY <1>6 DEF HandleChangePassword
  <2>2. u \in UserIDs /\ u < nextUser /\ [pw |-> new] \in UserChange
    BY <1>1, Issued DEF UserChange
  <2>3. Params([op |-> "ChangePassword", in |-> [node |-> FirstNode, id |-> u, old |-> old, change |-> [pw |-> new]]])
    BY <1>1, <2>2 DEF Params
  <2>4. Stage([op |-> "ChangePassword", at |-> "getUser"])
    BY DEF Stage
  <2>5. UNCHANGED <<tableVars, caches>>
    BY <1>6 DEF HandleChangePassword
  <2> QED BY <2>1, <2>2, <2>3, <2>4, <2>5, RequestBegins DEF KeyTarget
<1>7. CASE HandleDeleteUser(c)
  <2>1. PICK u \in IssuedUsers : Begin(c, "DeleteUser", "invalidateUser", [node |-> FirstNode, id |-> u])
    BY <1>7 DEF HandleDeleteUser
  <2>2. u \in UserIDs /\ u < nextUser
    BY Issued
  <2>3. Params([op |-> "DeleteUser", in |-> [node |-> FirstNode, id |-> u]])
    BY <1>1, <2>2 DEF Params
  <2>4. Stage([op |-> "DeleteUser", at |-> "invalidateUser"])
    BY DEF Stage
  <2>5. UNCHANGED <<tableVars, caches>>
    BY <1>7 DEF HandleDeleteUser
  <2> QED BY <2>1, <2>2, <2>3, <2>4, <2>5, RequestBegins DEF KeyTarget
<1> QED BY <1>3, <1>4, <1>5, <1>6, <1>7

\* The beginnings of the validations.
LEMMA ValidationBegins ==
  ASSUME AccountsInv, NEW c \in ActiveClients, UNCHANGED <<backend, load>>, call[c].at = "done",
         ValidateCredentials(c) \/ ValidateAPIKey(c)
  PROVE  Good
<1>1. /\ FirstNode \in Nodes /\ load.names \subseteq UserNames
      /\ \A n \in ActiveNodes : n \in Nodes /\ (load.serial => n = FirstNode)
  BY InvParts, HasBackend, AccountConstants DEF ActiveNodes
<1>2. CASE ValidateCredentials(c)
  <2>1. PICK n \in ActiveNodes, cred \in load.names \X Passwords :
          Begin(c, "ValidateCredentials", "cached", [node |-> n, cred |-> cred])
    BY <1>2 DEF ValidateCredentials, At
  <2>2. Params([op |-> "ValidateCredentials", in |-> [node |-> n, cred |-> cred]])
    BY <1>1 DEF Params, Creds
  <2>3. Stage([op |-> "ValidateCredentials", at |-> "cached"])
    BY DEF Stage
  <2>4. UNCHANGED <<tableVars, caches>>
    BY <1>2 DEF ValidateCredentials, At
  <2> QED BY <2>1, <2>2, <2>3, <2>4, RequestBegins DEF UserTarget, KeyTarget
<1>3. CASE ValidateAPIKey(c)
  <2>1. PICK n \in ActiveNodes, k \in IssuedKeys :
          Begin(c, "ValidateAPIKey", "cached", [node |-> n, id |-> k])
    BY <1>3 DEF ValidateAPIKey, At
  <2>2. k \in KeyIDs /\ k < nextKey
    BY Issued
  <2>3. Params([op |-> "ValidateAPIKey", in |-> [node |-> n, id |-> k]])
    BY <1>1, <2>2 DEF Params
  <2>4. Stage([op |-> "ValidateAPIKey", at |-> "cached"])
    BY DEF Stage
  <2>5. UNCHANGED <<tableVars, caches>>
    BY <1>3 DEF ValidateAPIKey, At
  <2> QED BY <2>1, <2>2, <2>3, <2>4, <2>5, RequestBegins DEF UserTarget
<1> QED BY <1>2, <1>3

\* The beginnings of the requests on keys.
LEMMA KeyBegins ==
  ASSUME AccountsInv, NEW c \in ActiveClients, UNCHANGED <<backend, load>>,
         \/ HandleUpdateAPIKey(c) \/ HandleRevokeAPIKey(c) \/ HandleDeleteAPIKey(c) \/ HandleRotateAPIKey(c)
         \/ HandleCreateAPIKey(c) /\ call[c].at = "done"
  PROVE  Good
<1>1. FirstNode \in Nodes
  BY AccountConstants
<1>2. CASE HandleUpdateAPIKey(c)
  <2>1. PICK k \in IssuedKeys, change \in [enabled : BOOLEAN] \cup [name : KeyNames] :
          Begin(c, "UpdateAPIKey", "getKey", [node |-> FirstNode, id |-> k, change |-> change])
    BY <1>2 DEF HandleUpdateAPIKey
  <2>2. k \in KeyIDs /\ k < nextKey /\ change \in KeyChange
    BY Issued DEF KeyChange
  <2>3. Params([op |-> "UpdateAPIKey", in |-> [node |-> FirstNode, id |-> k, change |-> change]])
    BY <1>1, <2>2 DEF Params
  <2>4. Stage([op |-> "UpdateAPIKey", at |-> "getKey"])
    BY DEF Stage
  <2>5. UNCHANGED <<tableVars, caches>>
    BY <1>2 DEF HandleUpdateAPIKey
  <2> QED BY <2>1, <2>2, <2>3, <2>4, <2>5, RequestBegins DEF UserTarget
<1>3. CASE HandleRevokeAPIKey(c)
  <2>1. PICK k \in IssuedKeys : Begin(c, "RevokeAPIKey", "revoke", [node |-> FirstNode, id |-> k])
    BY <1>3 DEF HandleRevokeAPIKey
  <2>2. k \in KeyIDs /\ k < nextKey
    BY Issued
  <2>3. Params([op |-> "RevokeAPIKey", in |-> [node |-> FirstNode, id |-> k]])
    BY <1>1, <2>2 DEF Params
  <2>4. Stage([op |-> "RevokeAPIKey", at |-> "revoke"])
    BY DEF Stage
  <2>5. UNCHANGED <<tableVars, caches>>
    BY <1>3 DEF HandleRevokeAPIKey
  <2> QED BY <2>1, <2>2, <2>3, <2>4, <2>5, RequestBegins DEF UserTarget
<1>4. CASE HandleDeleteAPIKey(c)
  <2>1. PICK k \in IssuedKeys : Begin(c, "DeleteAPIKey", "invalidateKey", [node |-> FirstNode, id |-> k])
    BY <1>4 DEF HandleDeleteAPIKey
  <2>2. k \in KeyIDs /\ k < nextKey
    BY Issued
  <2>3. Params([op |-> "DeleteAPIKey", in |-> [node |-> FirstNode, id |-> k]])
    BY <1>1, <2>2 DEF Params
  <2>4. Stage([op |-> "DeleteAPIKey", at |-> "invalidateKey"])
    BY DEF Stage
  <2>5. UNCHANGED <<tableVars, caches>>
    BY <1>4 DEF HandleDeleteAPIKey
  <2> QED BY <2>1, <2>2, <2>3, <2>4, <2>5, RequestBegins DEF UserTarget
<1>5. CASE HandleRotateAPIKey(c)
  <2>1. PICK k \in IssuedKeys :
          Begin(c, "RotateAPIKey", "rotate", [node |-> FirstNode, id |-> k, user |-> 0, name |-> NoRow])
    BY <1>5 DEF HandleRotateAPIKey
  <2>2. k \in KeyIDs /\ k < nextKey /\ 0 \in 0..MaxUser
    BY Issued, AccountConstants
  <2>3. Params([op |-> "RotateAPIKey", in |-> [node |-> FirstNode, id |-> k, user |-> 0, name |-> NoRow]])
    BY <1>1, <2>2 DEF Params, AnyName
  <2>4. Stage([op |-> "RotateAPIKey", at |-> "rotate"])
    BY DEF Stage
  <2>5. UNCHANGED <<tableVars, caches>>
    BY <1>5 DEF HandleRotateAPIKey
  <2> QED BY <2>1, <2>2, <2>3, <2>4, <2>5, RequestBegins DEF UserTarget
<1>6. CASE HandleCreateAPIKey(c) /\ call[c].at = "done"
  <2>1. PICK u \in IssuedUsers, name \in KeyNames, self \in BOOLEAN :
          Begin(c, "CreateAPIKey", IF self THEN "checkName" ELSE "target",
                [node |-> FirstNode, user |-> u, name |-> name])
    BY <1>6 DEF HandleCreateAPIKey, At
  <2>2. u \in 0..MaxUser
    BY Issued, AccountConstants DEF UserIDs
  <2>3. Params([op |-> "CreateAPIKey", in |-> [node |-> FirstNode, user |-> u, name |-> name]])
    BY <1>1, <2>2 DEF Params, AnyName
  <2>4. PICK at : at = (IF self THEN "checkName" ELSE "target")
    OBVIOUS
  <2>5. at \in {"checkName", "target"} /\ Stage([op |-> "CreateAPIKey", at |-> at])
    BY <2>4 DEF Stage
  <2>6. UNCHANGED <<tableVars, caches>>
    BY <1>6 DEF HandleCreateAPIKey, At
  <2> QED BY <2>1, <2>3, <2>4, <2>5, <2>6, RequestBegins DEF UserTarget, KeyTarget
<1> QED BY <1>2, <1>3, <1>4, <1>5, <1>6

-----------------------------------------------------------------------------
(* Steps that only read.                                                   *)

\* A request is answered without a change.
LEMMA Answers ==
  ASSUME AccountsInv, NEW c \in ActiveClients, UNCHANGED <<backend, load>>, UNCHANGED <<tableVars, caches>>,
         NEW err, Reply(c, err) \/ Fail(c, err),
         call[c].at \notin {"invalidateUser", "invalidateKey"}, ~(backend = "memory" /\ call[c].at = "updateUser")
  PROVE  Good
<1>1. Moves(c) /\ Request(call[c])' /\ call'[c].at = "done"
  BY ReplyGood, FailGood
<1>2. UNCHANGED tableVars /\ UNCHANGED caches
  OBVIOUS
<1> QED BY <1>1, <1>2, PlainStep DEF Good, UserStages, KeyStages

\* A request goes on without a change.
LEMMA GoesOn ==
  ASSUME AccountsInv, NEW c \in ActiveClients, UNCHANGED <<backend, load>>, UNCHANGED <<tableVars, caches>>,
         NEW at, NEW got, Goto(c, at, got),
         call[c].at \notin {"invalidateUser", "invalidateKey"}, ~(backend = "memory" /\ call[c].at = "updateUser"),
         Stage([op |-> call[c].op, at |-> at]), InHand(call'[c]),
         at \notin {"deleteUser", "deleteKey"},
         at = "dropUser" => call[c].at = "deleteUser",
         at = "dropKey" => call[c].at = "deleteKey",
         load.serial => UserAlone(call'[c]) /\ KeyAlone(call'[c])
  PROVE  Good
<1>1. UNCHANGED tableVars /\ UNCHANGED caches /\ nextUser' = nextUser /\ nextKey' = nextKey
  BY DEF tableVars, userTables, keyTables
<1>2. UsersInv /\ KeysInv
  BY InvParts
<1>3. nextUser <= nextUser' /\ nextUser' \in Nat /\ nextKey <= nextKey' /\ nextKey' \in Nat
  BY <1>1, <1>2, AccountConstants DEF UsersInv, KeysInv
<1>4. InHand(call[c])'
  BY <1>1 DEF InHand, UserRef, KeyRef, HashRef, IssuedUsers, IssuedKeys
<1>5. Moves(c) /\ Request(call[c])'
  BY <1>3, <1>4, GotoGood
<1>6. call'[c].at = at /\ call'[c].in = call[c].in
  BY GotoFields
<1> QED BY <1>1, <1>5, <1>6, QuietStep DEF Good

\* It goes on, with nothing in hand, to a stage of which the invariant says nothing.
LEMMA GoesOnPlain ==
  ASSUME AccountsInv, NEW c \in ActiveClients, UNCHANGED <<backend, load>>, UNCHANGED <<tableVars, caches>>,
         NEW at, Goto(c, at, NoRow),
         call[c].at \notin {"invalidateUser", "invalidateKey", "updateUser"},
         at \in {"createUser", "byName", "byHash", "checkName"},
         call[c].op # "RotateAPIKey",
         Stage([op |-> call[c].op, at |-> at])
  PROVE  Good
<1>1. /\ call'[c].op = call[c].op /\ call'[c].at = at /\ call'[c].in = call[c].in
  BY GotoFields
<1>2. Request(call[c])
  BY ActiveClient
<1>3. InHand(call'[c])
  BY <1>1, <1>2 DEF Request, InHand
<1>4. UserAlone(call'[c]) /\ KeyAlone(call'[c])
  BY <1>1 DEF UserAlone, KeyAlone
<1> QED BY <1>3, <1>4, GoesOn

\* A non-empty set of numbers has a least one.
LEMMA MinInSet ==
  ASSUME NEW S \in SUBSET Nat, S # {}
  PROVE  Min(S) \in S
<1> DEFINE R == OpToRel(<, Nat)
<1>1. IsWellFoundedOn(R, Nat)
  BY NatLessThanWellFounded
<1>2. PICK x \in S : \A y \in S : <<y, x>> \notin R
  <2> HIDE DEF R
  <2> QED BY <1>1, WFMin
<1>3. ASSUME NEW y \in S PROVE x =< y
  <2>1. x \in Nat /\ y \in Nat
    OBVIOUS
  <2>2. ~(y < x)
    BY <1>2, <2>1 DEF OpToRel
  <2> QED BY <2>1, <2>2
<1> QED BY <1>3 DEF Min

\* What a look-up by name finds.
LEMMA NameRead ==
  ASSUME UsersInv, backend \in Backends, NEW name \in UserNames
  PROVE  /\ GetUserByUsername(name) # NoRow =>
              \E u \in StoredUsers :
                /\ GetUserByUsername(name) = users[u]
                /\ backend \in {"memory", "cassandra"} => names[name] = u
                /\ backend \in {"postgres", "mysql"} => User(u).name = name
         /\ \A u \in StoredUsers :
              \/ backend \in {"postgres", "mysql"} /\ User(u).name = name
              \/ backend \in {"memory", "cassandra"} /\ names[name] = u
              => GetUserByUsername(name) # NoRow
<1>1. CASE backend \in {"memory", "cassandra"}
  <2>1. GetUserByUsername(name) = (IF names[name] = 0 THEN NoRow ELSE users[names[name]])
    BY <1>1 DEF GetUserByUsername, MemGetUserByUsername, CasGetUserByUsername
  <2>2. names[name] # 0 => names[name] \in UserIDs
    BY AccountConstants DEF UsersInv, UserIDs
  <2>3. 0 \notin StoredUsers
    BY AccountConstants DEF StoredUsers, UserIDs
  <2> QED BY <1>1, <2>1, <2>2, <2>3 DEF StoredUsers
<1>2. CASE backend \in {"postgres", "mysql"}
  <2> DEFINE found == {u \in StoredUsers : users[u].name = name}
  <2>1. GetUserByUsername(name) = (IF found = {} THEN NoRow ELSE users[Min(found)])
    BY <1>2 DEF GetUserByUsername, MyGetUserByUsername, PgGetUserByUsername
  <2>2. found \in SUBSET Nat
    BY AccountConstants DEF StoredUsers, UserIDs
  <2>3. \A u \in StoredUsers : User(u) = users[u]
    BY <1>2 DEF User, UserOf
  <2>4. found # {} => Min(found) \in found
    BY <2>2, MinInSet
  <2> QED BY <1>2, <2>1, <2>3, <2>4 DEF StoredUsers
<1> QED BY <1>1, <1>2 DEF Backends

\* The requests on users read.
LEMMA UserReadSteps ==
  ASSUME AccountsInv, NEW c \in ActiveClients, UNCHANGED <<backend, load>>,
         \/ BootstrapAdmin(c) /\ call[c].at # "done"
         \/ ValidateCredentials(c) /\ call[c].at = "byName"
  PROVE  Good
<1>1. Request(call[c]) /\ backend \in Backends /\ UsersInv
  BY ActiveClient, InvParts
<1>2. CASE BootstrapAdmin(c) /\ call[c].at # "done"
  <2>1. At(c, "BootstrapAdmin", "listUsers") /\ UNCHANGED <<tableVars, caches>>
    BY <1>2 DEF BootstrapAdmin, Begin
  <2>2. Reply(c, "nil") \/ Goto(c, "createUser", NoRow)
    BY <1>2 DEF BootstrapAdmin, Begin
  <2>3. CASE Reply(c, "nil")
    BY <2>1, <2>3, Answers DEF At
  <2>4. CASE Goto(c, "createUser", NoRow)
    <3>1. Stage([op |-> "BootstrapAdmin", at |-> "createUser"])
      BY DEF Stage
    <3> QED BY <2>1, <2>4, <3>1, GoesOnPlain DEF At
  <2> QED BY <2>2, <2>3, <2>4
<1>3. CASE ValidateCredentials(c) /\ call[c].at = "byName"
  <2> DEFINE in == call[c].in
             ref == GetUserByUsername(in.cred[1])
  <2>1. At(c, "ValidateCredentials", "byName") /\ UNCHANGED <<tableVars, caches>>
    BY <1>3 DEF ValidateCredentials, At, Begin
  <2>2. \/ Reply(c, "unauthorized")
        \/ Goto(c, "cacheCred", ref) /\ ref # NoRow /\ UserOf(ref).enabled /\ UserOf(ref).pw = in.cred[2]
    BY <1>3 DEF ValidateCredentials, At, Begin
  <2>3. CASE Reply(c, "unauthorized")
    BY <2>1, <2>3, Answers DEF At
  <2>4. CASE Goto(c, "cacheCred", ref) /\ ref # NoRow /\ UserOf(ref).enabled /\ UserOf(ref).pw = in.cred[2]
    <3>1. in.cred \in Creds /\ in.cred[1] \in UserNames
      BY <1>1, <2>1 DEF Request, Params, At, Creds
    <3>2. PICK u \in StoredUsers : /\ ref = users[u]
                                   /\ backend \in {"memory", "cassandra"} => names[in.cred[1]] = u
                                   /\ backend \in {"postgres", "mysql"} => User(u).name = in.cred[1]
      BY <1>1, <2>4, <3>1, NameRead
    <3>3. u \in UserIDs /\ UserRef(ref, u) /\ u < nextUser /\ u \in IssuedUsers /\ UserOf(ref).id = u
      BY <1>1, <3>2, UserStored, AccountConstants DEF StoredUsers, IssuedUsers, UserIDs, User, UsersInv
    <3>4. load.serial => User(u).name = in.cred[1]
      <4> SUFFICES ASSUME load.serial PROVE User(u).name = in.cred[1]
        OBVIOUS
      <4>1. OneUserPerName
        BY ActiveClient
      <4> QED BY <1>1, <3>1, <3>2, <4>1 DEF OneUserPerName, Backends
    <3>5. /\ call'[c].op = call[c].op /\ call'[c].at = "cacheCred" /\ call'[c].in = call[c].in
          /\ call'[c].got = ref
      BY <2>4, GotoKeeps
    <3>6. InHand(call'[c])
      BY <1>1, <3>3, <3>5 DEF Request, InHand
    <3>7. load.serial => CredFits(ref, in.cred)
      BY <2>4, <3>2, <3>3, <3>4 DEF CredFits, User, StoredUsers
    <3>8. load.serial => UserAlone(call'[c]) /\ KeyAlone(call'[c])
      BY <2>1, <3>5, <3>7 DEF UserAlone, KeyAlone, At
    <3>9. Stage([op |-> call[c].op, at |-> "cacheCred"])
      BY <2>1 DEF Stage, At
    <3> QED BY <2>1, <2>4, <3>6, <3>8, <3>9, GoesOn DEF At
  <2> QED BY <2>2, <2>3, <2>4
<1> QED BY <1>2, <1>3

\* A name that is not found is free.
LEMMA NameNotFound ==
  ASSUME AccountsInv, NEW u, u # 0, NEW name, GetAPIKeyByUserAndName(u, name) = {},
         backend = "cassandra" => KeyTablesAgree
  PROVE  NameFree(u, name, 0)
<1>1. {k \in OfUser(u) : Key(k).name = name} = {}
  BY InvParts, KeyNameReads
<1>2. ASSUME NEW j \in StoredKeys, Key(j).user = u PROVE j \in OfUser(u)
  <2>1. CASE backend = "cassandra"
    <3>1. Key(j) = keys[j]
      BY <2>1 DEF Key, KeyOf
    <3> QED BY <1>2, <2>1, <3>1 DEF KeyTablesAgree, OfUser
  <2>2. CASE backend # "cassandra"
    BY <1>2, <2>2 DEF OfUser
  <2> QED BY <2>1, <2>2
<1> QED BY <1>1, <1>2 DEF NameFree

\* The creation of a key reads.
LEMMA CreateKeyReads ==
  ASSUME AccountsInv, NEW c \in ActiveClients, UNCHANGED <<backend, load>>,
         \/ HandleCreateAPIKey(c) /\ call[c].at # "done"
         \/ CreateAPIKey(c) /\ call[c].at = "checkName"
  PROVE  Good
<1>1. Request(call[c])
  BY ActiveClient
<1>2. CASE HandleCreateAPIKey(c) /\ call[c].at # "done"
  <2>1. At(c, "CreateAPIKey", "target") /\ UNCHANGED <<tableVars, caches>>
    BY <1>2 DEF HandleCreateAPIKey, Begin
  <2>2. Reply(c, "noTarget") \/ Goto(c, "checkName", NoRow)
    BY <1>2 DEF HandleCreateAPIKey, Begin
  <2>3. CASE Reply(c, "noTarget")
    BY <2>1, <2>3, Answers DEF At
  <2>4. CASE Goto(c, "checkName", NoRow)
    <3>1. Stage([op |-> "CreateAPIKey", at |-> "checkName"])
      BY DEF Stage
    <3> QED BY <2>1, <2>4, <3>1, GoesOnPlain DEF At
  <2> QED BY <2>2, <2>3, <2>4
<1>3. CASE CreateAPIKey(c) /\ call[c].at = "checkName"
  <2>1. UNCHANGED <<tableVars, caches>>
    BY <1>3 DEF CreateAPIKey
  <2>2. \/ Reply(c, "noOwner") \/ Reply(c, "exists")
        \/ /\ Goto(c, "createKey", NoRow) /\ call[c].in.user # 0
           /\ GetAPIKeyByUserAndName(call[c].in.user, call[c].in.name) = {}
    BY <1>3 DEF CreateAPIKey
  <2>3. CASE Reply(c, "noOwner") \/ Reply(c, "exists")
    BY <1>3, <2>1, <2>3, Answers
  <2>4. CASE /\ Goto(c, "createKey", NoRow) /\ call[c].in.user # 0
             /\ GetAPIKeyByUserAndName(call[c].in.user, call[c].in.name) = {}
    <3>1. /\ call'[c].op = call[c].op /\ call'[c].at = "createKey" /\ call'[c].in = call[c].in
      BY <2>4, GotoKeeps
    <3>2. call[c].op \in {"CreateAPIKey", "RotateAPIKey"}
      BY <1>1, <1>3 DEF Request, Stage
    <3>3. InHand(call'[c])
      BY <1>1, <3>1 DEF Request, InHand
    <3>4. Stage([op |-> call[c].op, at |-> "createKey"])
      BY <3>2 DEF Stage
    <3>5. load.serial => NameFree(call[c].in.user, call[c].in.name, 0)
      BY <2>4, NameNotFound, ActiveClient
    <3>6. load.serial => UserAlone(call'[c]) /\ KeyAlone(call'[c])
      <4> SUFFICES ASSUME load.serial PROVE UserAlone(call'[c]) /\ KeyAlone(call'[c])
        OBVIOUS
      <4>1. KeyAlone(call[c])
        BY ActiveClient
      <4> QED BY <1>3, <2>4, <3>1, <3>5, <4>1 DEF UserAlone, KeyAlone
    <3> QED BY <1>3, <2>1, <2>4, <3>3, <3>4, <3>6, GoesOn
  <2> QED BY <2>2, <2>3, <2>4
<1> QED BY <1>2, <1>3

\* What a look-up by hash finds.
LEMMA HashRead ==
  ASSUME AccountsInv, NEW k \in KeyIDs, GetAPIKeyByHash(k) # NoRow
  PROVE  /\ HashRef(GetAPIKeyByHash(k), k)
         /\ load.serial => KeyFits(GetAPIKeyByHash(k), k)
<1>1. KeysInv /\ backend \in Backends
  BY InvParts
<1>2. CASE backend = "cassandra"
  <2>1. GetAPIKeyByHash(k) = byHash[k]
    BY <1>1, <1>2, KeyReads
  <2>2. HashRef(byHash[k], k)
    BY <1>1, <1>2, <2>1 DEF HashRef, KeysInv
  <2>3. ASSUME load.serial PROVE KeyFits(byHash[k], k)
    <3>1. KeyTablesAgree
      BY <2>3 DEF AccountsInv, Alone
    <3> QED BY <1>2, <2>1, <3>1 DEF KeyTablesAgree, KeyFits, Key, KeyOf, StoredKeys
  <2> QED BY <2>1, <2>2, <2>3
<1>3. CASE backend # "cassandra"
  <2>1. GetAPIKeyByHash(k) = keys[k]
    BY <1>1, <1>3, KeyReads
  <2>2. KeyRef(keys[k], k) /\ Key(k).id = k
    BY <1>1, <2>1, KeyStored
  <2> QED BY <2>1, <2>2 DEF KeyRef, HashRef, KeyFits, Key
<1> QED BY <1>2, <1>3

\* The validation of a key reads.
LEMMA ValidateKeyReads ==
  ASSUME AccountsInv, NEW c \in ActiveClients, UNCHANGED <<backend, load>>,
         ValidateAPIKey(c), call[c].at \in {"cached", "byHash"}
  PROVE  Good
<1>1. Request(call[c]) /\ CachesInv
  BY ActiveClient, InvParts
<1>2. CASE call[c].at = "cached"
  <2> DEFINE entry == keyCache[call[c].in.node][call[c].in.id]
  <2>1. At(c, "ValidateAPIKey", "cached") /\ UNCHANGED <<tableVars, caches>>
    BY <1>2 DEF ValidateAPIKey, At, Begin
  <2>2. \/ Goto(c, "byHash", NoRow)
        \/ entry # NoRow /\ Reply(c, "disabled")
        \/ entry # NoRow /\ Reply(c, "nil")
        \/ entry # NoRow /\ Goto(c, "lastUsed", entry)
    BY <1>2 DEF ValidateAPIKey, Verdict, At, Begin
  <2>3. CASE Goto(c, "byHash", NoRow)
    <3>1. Stage([op |-> "ValidateAPIKey", at |-> "byHash"])
      BY DEF Stage
    <3> QED BY <2>1, <2>3, <3>1, GoesOnPlain DEF At
  <2>4. CASE Reply(c, "disabled") \/ Reply(c, "nil")
    BY <2>1, <2>4, Answers DEF At
  <2>5. CASE entry # NoRow /\ Goto(c, "lastUsed", entry)
    <3>1. call[c].in.node \in Nodes /\ call[c].in.id \in KeyIDs
      BY <1>1, <2>1 DEF Request, Params, At
    <3>2. HashRef(entry, call[c].in.id)
      BY <1>1, <2>5, <3>1 DEF CachesInv
    <3>3. PICK g : g = entry
      OBVIOUS
    <3>4. Goto(c, "lastUsed", g) /\ HashRef(g, call[c].in.id)
      BY <2>5, <3>2, <3>3
    <3>5. /\ call'[c].op = call[c].op /\ call'[c].at = "lastUsed" /\ call'[c].in = call[c].in /\ call'[c].got = g
      BY <3>4, GotoKeeps
    <3>6. InHand(call'[c])
      BY <1>1, <3>4, <3>5 DEF Request, InHand
    <3>7. UserAlone(call'[c]) /\ KeyAlone(call'[c])
      BY <2>1, <3>5 DEF UserAlone, KeyAlone, At
    <3>8. Stage([op |-> call[c].op, at |-> "lastUsed"])
      BY <2>1 DEF Stage, At
    <3> QED BY <2>1, <3>4, <3>6, <3>7, <3>8, GoesOn DEF At
  <2> QED BY <2>2, <2>3, <2>4, <2>5
<1>3. CASE call[c].at = "byHash"
  <2> DEFINE ref == GetAPIKeyByHash(call[c].in.id)
  <2>1. At(c, "ValidateAPIKey", "byHash") /\ UNCHANGED <<tableVars, caches>>
    BY <1>3 DEF ValidateAPIKey, At, Begin
  <2>2. Reply(c, "unauthorized") \/ (ref # NoRow /\ Goto(c, "cacheFound", ref))
    BY <1>3 DEF ValidateAPIKey, At, Begin
  <2>3. CASE Reply(c, "unauthorized")
    BY <2>1, <2>3, Answers DEF At
  <2>4. CASE ref # NoRow /\ Goto(c, "cacheFound", ref)
    <3>1. call[c].in.id \in KeyIDs
      BY <1>1, <2>1 DEF Request, Params, At
    <3>2. HashRef(ref, call[c].in.id) /\ (load.serial => KeyFits(ref, call[c].in.id))
      BY <2>4, <3>1, HashRead
    <3>3. PICK g : g = ref
      OBVIOUS
    <3>4. Goto(c, "cacheFound", g) /\ HashRef(g, call[c].in.id) /\ (load.serial => KeyFits(g, call[c].in.id))
      BY <2>4, <3>2, <3>3
    <3>5. /\ call'[c].op = call[c].op /\ call'[c].at = "cacheFound" /\ call'[c].in = call[c].in /\ call'[c].got = g
      BY <3>4, GotoKeeps
    <3>6. InHand(call'[c])
      BY <1>1, <3>4, <3>5 DEF Request, InHand
    <3>7. load.serial => UserAlone(call'[c]) /\ KeyAlone(call'[c])
      BY <2>1, <3>4, <3>5 DEF UserAlone, KeyAlone, At
    <3>8. Stage([op |-> call[c].op, at |-> "cacheFound"])
      BY <2>1 DEF Stage, At
    <3> QED BY <2>1, <3>4, <3>6, <3>7, <3>8, GoesOn DEF At
  <2> QED BY <2>2, <2>3, <2>4
<1> QED BY <1>2, <1>3

\* A rotation finds its key, and goes on to make another for its owner.
LEMMA RotateReads ==
  ASSUME AccountsInv, NEW c \in ActiveClients, UNCHANGED <<backend, load>>, RotateAPIKey(c)
  PROVE  Good
<1>1. /\ Request(call[c]) /\ backend \in Backends /\ KeysInv /\ UsersInv
      /\ call = [d \in Clients |-> call[d]] /\ c \in Clients
  BY ActiveClient, InvParts
<1>2. At(c, "RotateAPIKey", "rotate") /\ UNCHANGED <<tableVars, caches>>
  BY DEF RotateAPIKey
<1>3. GetAPIKeyByID(call[c].in.id) = keys[call[c].in.id]
  BY <1>1, KeyReads
<1>4. CASE Reply(c, "notFound")
  BY <1>2, <1>4, Answers DEF At
<1>5. CASE ~Reply(c, "notFound")
  <2> DEFINE k == call[c].in.id
  <2>1. keys[k] # NoRow /\ \E name \in NewNames :
            call' = [call EXCEPT ![c].at = "checkName", ![c].in.user = Key(k).user, ![c].in.name = name]
    BY <1>3, <1>5 DEF RotateAPIKey, Key
  <2>2. PICK name \in NewNames :
            call' = [call EXCEPT ![c].at = "checkName", ![c].in.user = Key(k).user, ![c].in.name = name]
    BY <2>1
  <2>3. PICK r, in, user : r = call[c] /\ in = r.in /\ user = Key(k).user
    OBVIOUS
  <2>4. /\ r = [op |-> r.op, at |-> r.at, in |-> r.in, got |-> r.got, status |-> r.status]
        /\ in \in [node : Nodes, id : KeyIDs, user : 0..MaxUser, name : AnyName]
        /\ r.op = "RotateAPIKey" /\ r.status \in Codes
    BY <1>1, <1>2, <2>3 DEF Request, Params, At
  <2>5. PICK in2 : in2 = [[in EXCEPT !.user = user] EXCEPT !.name = name]
    OBVIOUS
  <2>6. in2 = [node |-> in.node, id |-> in.id, user |-> user, name |-> name]
    BY <2>4, <2>5
  <2>7. PICK q : q = [[r EXCEPT !.at = "checkName"] EXCEPT !.in = in2]
    OBVIOUS
  <2>8. q = [op |-> r.op, at |-> "checkName", in |-> in2, got |-> r.got, status |-> r.status]
    BY <2>4, <2>7
  <2>9. q = [[[r EXCEPT !.at = "checkName"] EXCEPT !.in.user = user] EXCEPT !.in.name = name]
    BY <2>3, <2>4, <2>5, <2>7
  <2>10. call' = [call EXCEPT ![c] = q]
    BY <2>2, <2>3, <2>9
  <2>11. call'[c] = q
    BY <1>1, <2>10
  <2>12. Moves(c)
    BY <2>10, <2>11 DEF Moves
  <2>13. k \in KeyIDs /\ k = in.id /\ Key(k) \in KeyRow /\ user \in 0..MaxUser
    <3>1. k \in KeyIDs /\ k = in.id
      BY <2>3, <2>4
    <3>2. Key(k) \in KeyRow
      BY <1>1, <2>1, <3>1, KeyStored
    <3> QED BY <2>3, <3>1, <3>2 DEF KeyRow
  <2>14. nextKey' = nextKey /\ nextUser' = nextUser /\ UNCHANGED tableVars /\ UNCHANGED caches
    BY <1>2 DEF tableVars, userTables, keyTables
  <2>15. Request(call[c])'
    <3>1. in2 \in [node : Nodes, id : KeyIDs, user : 0..MaxUser, name : AnyName]
      BY <2>4, <2>6, <2>13 DEF AnyName
    <3>2. load.serial => in2.node = FirstNode
      BY <1>1, <1>2, <2>3, <2>6 DEF Request, Params, At
    <3>3. Params(call[c])'
      BY <2>4, <2>8, <2>11, <3>1, <3>2 DEF Params
    <3>4. Stage(call[c])'
      BY <2>4, <2>8, <2>11 DEF Stage
    <3>5. in2.id < nextKey
      BY <1>1, <1>2, <2>3, <2>6 DEF Request, InHand, At, KeyTarget
    <3>6. InHand(call[c])'
      BY <2>4, <2>8, <2>11, <2>14, <3>5 DEF InHand, UserTarget
    <3> QED BY <2>4, <2>8, <2>11, <3>3, <3>4, <3>6 DEF Request
  <2>16. UserAlone(call'[c])
    BY <2>8, <2>11 DEF UserAlone
  <2>17. KeyAlone(call'[c])
    <3>1. q.in.id = k /\ q.in.user = Key(k).user /\ q.at = "checkName"
      BY <2>3, <2>6, <2>8, <2>13
    <3> QED BY <2>1, <2>11, <3>1 DEF KeyAlone
  <2>18. call'[c].at = "checkName" /\ call[c].at = "rotate"
    BY <1>2, <2>8, <2>11 DEF At
  <2> QED BY <2>12, <2>14, <2>15, <2>16, <2>17, <2>18, QuietStep DEF Good
<1> QED BY <1>4, <1>5

\* An update finds the key it is to rename.
LEMMA RenameReads ==
  ASSUME AccountsInv, NEW c \in ActiveClients, UNCHANGED <<backend, load>>, UNCHANGED <<tableVars, caches>>,
         At(c, "UpdateAPIKey", "getKey"), Goto(c, "rename", keys[call[c].in.id]), keys[call[c].in.id] # NoRow
  PROVE  Good
<1>1. Request(call[c]) /\ KeysInv
  BY ActiveClient, InvParts
<1>2. call[c].in.id \in KeyIDs
  BY <1>1 DEF Request, Params, At
<1>3. PICK g : g = keys[call[c].in.id]
  OBVIOUS
<1>4. Goto(c, "rename", g) /\ KeyRef(g, call[c].in.id)
  BY <1>1, <1>2, <1>3, KeyStored
<1>5. /\ call'[c].op = call[c].op /\ call'[c].at = "rename" /\ call'[c].in = call[c].in /\ call'[c].got = g
  BY <1>4, GotoKeeps
<1>6. InHand(call'[c])
  BY <1>1, <1>4, <1>5 DEF Request, InHand
<1>7. UserAlone(call'[c]) /\ KeyAlone(call'[c])
  BY <1>3, <1>5 DEF UserAlone, KeyAlone, At
<1>8. Stage([op |-> call[c].op, at |-> "rename"])
  BY DEF Stage, At
<1> QED BY <1>4, <1>6, <1>7, <1>8, GoesOn DEF At

\* A client disconnects.
LEMMA DisconnectGood ==
  ASSUME AccountsInv, NEW c \in ActiveClients, UNCHANGED <<backend, load>>, Disconnect(c)
  PROVE  Good
BY Answers DEF Disconnect

-----------------------------------------------------------------------------
(* The reads of Cassandra.                                                 *)

\* The reads before a write of users.
LEMMA CasUserReads ==
  ASSUME AccountsInv, NEW c \in ActiveClients, UNCHANGED <<backend, load>>, UNCHANGED caches,
         backend = "cassandra",
         \/ CasCreateUser(c) /\ call[c].at = "createUser"
         \/ CasUpdateUser(c) /\ call[c].at = "updateUser"
         \/ CasDeleteUser(c) /\ call[c].at = "deleteUser"
  PROVE  Good
<1>1. Request(call[c]) /\ UsersInv /\ backend \in Backends
  BY ActiveClient, InvParts
<1>2. CASE CasCreateUser(c) /\ call[c].at = "createUser"
  <2>1. UNCHANGED <<tableVars, caches>>
    BY <1>2 DEF CasCreateUser, tableVars
  <2>2. \/ Reply(c, "exists")
        \/ Goto(c, "putUser", NoRow) /\ CasGetUserByUsername(call[c].in.rec.name) = NoRow
    BY <1>2 DEF CasCreateUser
  <2>3. CASE Reply(c, "exists")
    BY <1>2, <2>1, <2>3, Answers
  <2>4. CASE Goto(c, "putUser", NoRow) /\ CasGetUserByUsername(call[c].in.rec.name) = NoRow
    <3>1. /\ call'[c].op = call[c].op /\ call'[c].at = "putUser" /\ call'[c].in = call[c].in
      BY <2>4, GotoKeeps
    <3>2. InHand(call'[c])
      BY <1>1, <3>1 DEF Request, InHand
    <3>3. call[c].op \in {"CreateUser", "BootstrapAdmin"} /\ call[c].in.rec.name \in UserNames
      BY <1>1, <1>2 DEF Request, Stage, Params, NewUser
    <3>4. Stage([op |-> call[c].op, at |-> "putUser"])
      BY <3>3 DEF Stage
    <3>5. load.serial => \A u \in StoredUsers : User(u).name # call[c].in.rec.name
      <4> SUFFICES ASSUME load.serial, NEW u \in StoredUsers, User(u).name = call[c].in.rec.name PROVE FALSE
        OBVIOUS
      <4>1. names[call[c].in.rec.name] = u
        BY ActiveClient DEF OneUserPerName
      <4>2. u # 0 /\ users[u] # NoRow
        BY AccountConstants DEF StoredUsers, UserIDs
      <4> QED BY <2>4, <4>1, <4>2 DEF CasGetUserByUsername
    <3>6. load.serial => UserAlone(call'[c]) /\ KeyAlone(call'[c])
      BY <3>1, <3>3, <3>5 DEF UserAlone, KeyAlone
    <3> QED BY <1>2, <2>1, <2>4, <3>2, <3>4, <3>6, GoesOn
  <2> QED BY <2>2, <2>3, <2>4
<1>3. CASE CasUpdateUser(c) /\ call[c].at = "updateUser"
  <2>1. UNCHANGED <<tableVars, caches>>
    BY <1>3 DEF CasUpdateUser, tableVars
  <2>2. Reply(c, "notFound") \/ Goto(c, "writeUser", call[c].got)
    BY <1>3 DEF CasUpdateUser
  <2>3. CASE Reply(c, "notFound")
    BY <1>3, <2>1, <2>3, Answers
  <2>4. CASE Goto(c, "writeUser", call[c].got)
    <3>1. PICK g : g = call[c].got
      OBVIOUS
    <3>2. Goto(c, "writeUser", g)
      BY <2>4, <3>1
    <3>3. /\ call'[c].op = call[c].op /\ call'[c].at = "writeUser" /\ call'[c].in = call[c].in
          /\ call'[c].got = g
      BY <3>2, GotoKeeps
    <3>4. InHand(call'[c])
      BY <1>1, <1>3, <3>1, <3>3 DEF Request, InHand
    <3>5. Stage([op |-> call[c].op, at |-> "writeUser"])
      BY <1>1, <1>3 DEF Request, Stage
    <3>6. load.serial => UserAlone(call'[c]) /\ KeyAlone(call'[c])
      <4> SUFFICES ASSUME load.serial PROVE UserAlone(call'[c]) /\ KeyAlone(call'[c])
        OBVIOUS
      <4>1. UserAlone(call[c])
        BY ActiveClient
      <4> QED BY <1>3, <3>1, <3>3, <4>1 DEF UserAlone, KeyAlone
    <3> QED BY <1>3, <2>1, <3>2, <3>4, <3>5, <3>6, GoesOn
  <2> QED BY <2>2, <2>3, <2>4
<1>4. CASE CasDeleteUser(c) /\ call[c].at = "deleteUser"
  <2>1. UNCHANGED <<tableVars, caches>>
    BY <1>4 DEF CasDeleteUser, tableVars
  <2>2. Reply(c, "notFound") \/ (users[call[c].in.id] # NoRow /\ Goto(c, "dropUser", users[call[c].in.id]))
    BY <1>4 DEF CasDeleteUser
  <2>3. CASE Reply(c, "notFound")
    BY <1>4, <2>1, <2>3, Answers
  <2>4. CASE users[call[c].in.id] # NoRow /\ Goto(c, "dropUser", users[call[c].in.id])
    <3>1. PICK g : g = users[call[c].in.id]
      OBVIOUS
    <3>2. Goto(c, "dropUser", g)
      BY <2>4, <3>1
    <3>3. /\ call'[c].op = call[c].op /\ call'[c].at = "dropUser" /\ call'[c].in = call[c].in
          /\ call'[c].got = g
      BY <3>2, GotoKeeps
    <3>4. call[c].op = "DeleteUser" /\ call[c].in.id \in UserIDs
      BY <1>1, <1>4 DEF Request, Stage, Params
    <3>5. UserRef(g, call[c].in.id)
      BY <1>1, <2>4, <3>1, <3>4, UserStored
    <3>6. InHand(call'[c])
      BY <1>1, <3>3, <3>5 DEF Request, InHand
    <3>7. Stage([op |-> call[c].op, at |-> "dropUser"])
      BY <3>4 DEF Stage
    <3>8. UserAlone(call'[c]) /\ KeyAlone(call'[c])
      BY <2>4, <3>1, <3>3, <3>4 DEF UserAlone, KeyAlone
    <3> QED BY <1>4, <2>1, <3>2, <3>6, <3>7, <3>8, GoesOn
  <2> QED BY <2>2, <2>3, <2>4
<1> QED BY <1>2, <1>3, <1>4

\* The reads before a write of keys.
LEMMA CasKeyReads ==
  ASSUME AccountsInv, NEW c \in ActiveClients, UNCHANGED <<backend, load>>, UNCHANGED caches,
         backend = "cassandra",
         \/ CasUpdateAPIKey(c) /\ call[c].at = "updateKey"
         \/ CasDeleteAPIKey(c) /\ call[c].at = "deleteKey"
         \/ CasUpdateAPIKeyLastUsed(c) /\ call[c].at = "lastUsed"
  PROVE  Good
<1>1. Request(call[c]) /\ KeysInv /\ backend \in Backends
  BY ActiveClient, InvParts
<1>2. CASE CasUpdateAPIKey(c) /\ call[c].at = "updateKey"
  <2>1. UNCHANGED <<tableVars, caches>>
    BY <1>2 DEF CasUpdateAPIKey, tableVars
  <2>2. Fail(c, "notFound") \/ Goto(c, "putKey", call[c].got)
    BY <1>2 DEF CasUpdateAPIKey
  <2>3. CASE Fail(c, "notFound")
    BY <1>2, <2>1, <2>3, Answers
  <2>4. CASE Goto(c, "putKey", call[c].got)
    <3>1. PICK g : g = call[c].got
      OBVIOUS
    <3>2. Goto(c, "putKey", g)
      BY <2>4, <3>1
    <3>3. /\ call'[c].op = call[c].op /\ call'[c].at = "putKey" /\ call'[c].in = call[c].in
          /\ call'[c].got = g
      BY <3>2, GotoKeeps
    <3>4. InHand(call'[c])
      BY <1>1, <1>2, <3>1, <3>3 DEF Request, InHand
    <3>5. Stage([op |-> call[c].op, at |-> "putKey"])
      BY <1>1, <1>2 DEF Request, Stage
    <3>6. load.serial => UserAlone(call'[c]) /\ KeyAlone(call'[c])
      <4> SUFFICES ASSUME load.serial PROVE UserAlone(call'[c]) /\ KeyAlone(call'[c])
        OBVIOUS
      <4>1. KeyAlone(call[c])
        BY ActiveClient
      <4>2. Spare(call[c]) => Spare(call'[c])
        BY <3>3 DEF Spare
      <4> QED BY <1>2, <3>1, <3>3, <4>1, <4>2 DEF UserAlone, KeyAlone
    <3> QED BY <1>2, <2>1, <3>2, <3>4, <3>5, <3>6, GoesOn
  <2> QED BY <2>2, <2>3, <2>4
<1>3. CASE CasDeleteAPIKey(c) /\ call[c].at = "deleteKey"
  <2>1. UNCHANGED <<tableVars, caches>>
    BY <1>3 DEF CasDeleteAPIKey, tableVars
  <2>2. Reply(c, "notFound") \/ (keys[call[c].in.id] # NoRow /\ Goto(c, "dropKey", keys[call[c].in.id]))
    BY <1>3 DEF CasDeleteAPIKey
  <2>3. CASE Reply(c, "notFound")
    BY <1>3, <2>1, <2>3, Answers
  <2>4. CASE keys[call[c].in.id] # NoRow /\ Goto(c, "dropKey", keys[call[c].in.id])
    <3>1. PICK g : g = keys[call[c].in.id]
      OBVIOUS
    <3>2. Goto(c, "dropKey", g)
      BY <2>4, <3>1
    <3>3. /\ call'[c].op = call[c].op /\ call'[c].at = "dropKey" /\ call'[c].in = call[c].in
          /\ call'[c].got = g
      BY <3>2, GotoKeeps
    <3>4. call[c].op = "DeleteAPIKey" /\ call[c].in.id \in KeyIDs
      BY <1>1, <1>3 DEF Request, Stage, Params
    <3>5. KeyRef(g, call[c].in.id)
      BY <1>1, <2>4, <3>1, <3>4, KeyStored
    <3>6. InHand(call'[c])
      BY <1>1, <3>3, <3>5 DEF Request, InHand
    <3>7. Stage([op |-> call[c].op, at |-> "dropKey"])
      BY <3>4 DEF Stage
    <3>8. UserAlone(call'[c]) /\ KeyAlone(call'[c])
      BY <2>4, <3>1, <3>3, <3>4 DEF UserAlone, KeyAlone
    <3> QED BY <1>3, <2>1, <3>2, <3>6, <3>7, <3>8, GoesOn
  <2> QED BY <2>2, <2>3, <2>4
<1>4. CASE CasUpdateAPIKeyLastUsed(c) /\ call[c].at = "lastUsed"
  <2> DEFINE rec == call[c].got
  <2>1. UNCHANGED <<tableVars, caches>>
    BY <1>4 DEF CasUpdateAPIKeyLastUsed, tableVars
  <2>2. Reply(c, "nil") \/ (rec.id # 0 /\ keys[rec.id] # NoRow /\ Goto(c, "touch", keys[rec.id]))
    BY <1>4 DEF CasUpdateAPIKeyLastUsed
  <2>3. CASE Reply(c, "nil")
    BY <1>4, <2>1, <2>3, Answers
  <2>4. CASE rec.id # 0 /\ keys[rec.id] # NoRow /\ Goto(c, "touch", keys[rec.id])
    <3>1. call[c].op = "ValidateAPIKey" /\ call[c].in.id \in KeyIDs /\ rec.id = call[c].in.id
      BY <1>1, <1>4, <2>4 DEF Request, Stage, Params, InHand, HashRef
    <3>2. PICK g : g = keys[call[c].in.id]
      OBVIOUS
    <3>3. Goto(c, "touch", g) /\ keys[call[c].in.id] # NoRow
      BY <2>4, <3>1, <3>2
    <3>4. /\ call'[c].op = call[c].op /\ call'[c].at = "touch" /\ call'[c].in = call[c].in
          /\ call'[c].got = g
      BY <3>3, GotoKeeps
    <3>5. KeyRef(g, call[c].in.id)
      BY <1>1, <3>1, <3>2, <3>3, KeyStored
    <3>6. InHand(call'[c])
      BY <1>1, <3>4, <3>5 DEF Request, InHand
    <3>7. Stage([op |-> call[c].op, at |-> "touch"])
      BY <3>1 DEF Stage
    <3>8. UserAlone(call'[c]) /\ KeyAlone(call'[c])
      BY <3>1, <3>2, <3>3, <3>4 DEF UserAlone, KeyAlone
    <3> QED BY <1>4, <2>1, <3>3, <3>6, <3>7, <3>8, GoesOn
  <2> QED BY <2>2, <2>3, <2>4
<1> QED BY <1>2, <1>3, <1>4

-----------------------------------------------------------------------------
(* Users are written.                                                      *)

\* The entries of the cache that are not about user u0 say what they said.
LEMMA CredsKept ==
  ASSUME AccountsInv, NEW c \in ActiveClients, UNCHANGED <<backend, load>>, UNCHANGED credCache, UsersInv',
         nextUser <= nextUser', Unrefreshed, NEW u0,
         \A u \in UserIDs : u # u0 => users'[u] = users[u] /\ userObj'[u] = userObj[u],
         \A p \in Creds : credCache[FirstNode][p] # NoRow /\ UserOf(credCache[FirstNode][p]).id = u0 =>
            Written(call'[c]) /\ call'[c].in.id = u0,
         Written(call[c]) => call[c].in.id = u0,
         call'[c].at \notin {"deleteUser", "dropUser"}
  PROVE  \A p \in Creds : CachedCred(call[c], p)'
<1> SUFFICES ASSUME NEW p \in Creds PROVE CachedCred(call[c], p)'
  OBVIOUS
<1>1. UsersInv /\ CachesInv /\ CachedCred(call[c], p) /\ FirstNode \in Nodes
  BY InvParts, ActiveClient, AccountConstants DEF Unrefreshed
<1>2. PICK ref : ref = credCache[FirstNode][p]
  OBVIOUS
<1>3. (credCache[FirstNode][p])' = ref
  BY <1>2
<1>4. CASE ref = NoRow
  BY <1>3, <1>4 DEF CachedCred
<1>5. CASE ref # NoRow
  <2>1. PICK u \in IssuedUsers : UserRef(ref, u)
    BY <1>1, <1>2, <1>5 DEF CachesInv
  <2>2. u \in UserIDs /\ u < nextUser /\ u < nextUser'
    BY <1>1, AccountConstants DEF IssuedUsers, UserIDs, UsersInv
  <2>3. UserOf(ref) \in UserRow /\ UserOf(ref).id = u
    BY <1>1, <2>1, <2>2, UserOfRef
  <2>4. UserOf(ref)'.id = u
    <3>1. backend = "memory" => u \in IssuedUsers' /\ userObj'[u].id = u
      BY <2>2, AccountConstants DEF UsersInv, IssuedUsers, UserIDs
    <3>2. backend = "memory" => ref.ptr = u
      BY <2>1 DEF UserRef
    <3> QED BY <2>3, <3>1, <3>2 DEF UserOf
  <2>5. UserOf(credCache[FirstNode][p])' = UserOf(ref)'
    BY <1>3 DEF UserOf
  <2>6. CASE u = u0
    <3>1. Written(call'[c]) /\ call'[c].in.id = u0
      BY <1>2, <1>5, <2>3, <2>6
    <3>2. Written(call[c])'
      BY <3>1 DEF Written
    <3> QED BY <2>4, <2>5, <2>6, <3>1, <3>2 DEF CachedCred
  <2>7. CASE u # u0
    <3>1. CredFits(ref, p)
      BY <1>1, <1>2, <1>5, <2>3, <2>7 DEF CachedCred
    <3>2. users'[u] = users[u] /\ userObj'[u] = userObj[u]
      BY <2>2, <2>7
    <3>3. users[u] # NoRow /\ User(u).name = p[1] /\ User(u).pw = p[2] /\ User(u).enabled
      BY <2>3, <3>1 DEF CredFits
    <3>4. User(u)' = User(u)
      <4>1. UserRef(users[u], u)
        BY <1>1, <2>2, <3>3, UserStored
      <4>2. backend = "memory" => users[u].ptr = u
        BY <4>1 DEF UserRef
      <4> QED BY <3>2, <4>2 DEF User, UserOf
    <3>5. /\ (users[u] # NoRow)' /\ (User(u).name = p[1])' /\ (User(u).pw = p[2])' /\ (User(u).enabled)'
      BY <3>2, <3>3, <3>4
    <3>6. CredFits(credCache[FirstNode][p], p)'
      BY <2>4, <2>5, <3>5 DEF CredFits
    <3> QED BY <3>6 DEF CachedCred
  <2> QED BY <2>6, <2>7
<1> QED BY <1>4, <1>5

\* A change leaves the ID and the name of a user alone.
LEMMA ChangedUser ==
  ASSUME NEW row \in UserRow, NEW change \in UserChange
  PROVE  /\ Changed(row, change) \in UserRow
         /\ Changed(row, change).id = row.id /\ Changed(row, change).name = row.name
<1>1. DOMAIN row = {"id", "name", "pw", "email", "enabled"}
  BY DEF UserRow
<1>2. DOMAIN change \in {{"pw"}, {"enabled"}, {"email"}}
  BY DEF UserChange
<1>3. /\ "pw" \in DOMAIN change => change["pw"] \in Passwords
      /\ "enabled" \in DOMAIN change => change["enabled"] \in BOOLEAN
      /\ "email" \in DOMAIN change => change["email"] \in Emails
  BY DEF UserChange
<1>4. PICK new : new = Changed(row, change)
  OBVIOUS
<1>5. new = [f \in {"id", "name", "pw", "email", "enabled"} |-> IF f \in DOMAIN change THEN change[f] ELSE row[f]]
  BY <1>1, <1>4 DEF Changed
<1>6. /\ new.id = row.id /\ new.name = row.name
      /\ new.pw \in Passwords /\ new.email \in Emails \cup {NoRow} /\ new.enabled \in BOOLEAN
  BY <1>2, <1>3, <1>5 DEF UserRow
<1>7. new = [id |-> new.id, name |-> new.name, pw |-> new.pw, email |-> new.email, enabled |-> new.enabled]
  BY <1>5
<1>8. row.id \in UserIDs /\ row.name \in UserNames
  BY DEF UserRow
<1>9. new \in UserRow
  BY <1>6, <1>7, <1>8 DEF UserRow
<1> QED BY <1>4, <1>6, <1>9

\* A step that concerns users only.
LEMMA UserStep ==
  ASSUME AccountsInv, NEW c \in ActiveClients, UNCHANGED <<backend, load>>, UNCHANGED keyTables, UNCHANGED caches,
         Moves(c), Request(call[c])', UserSide(c), call[c].at # "invalidateKey", call'[c].at \notin KeyStages
  PROVE  Good
<1>1. UNCHANGED keyCache /\ listed' = listed
  BY DEF caches
<1>2. KeySide(c)
  BY <1>1, KeySideRest
<1>3. CachesInv'
  BY <1>2, InvParts, CachesRest DEF UserSide, KeySide
<1> QED BY <1>1, <1>2, <1>3, StepInv DEF Good, KeySide

\* An update or a change of the password sets fields of the user it has read, in
\* memory those of the stored record.
LEMMA UserFetched ==
  ASSUME AccountsInv, NEW c \in ActiveClients, UNCHANGED <<backend, load>>, UNCHANGED keyTables, UNCHANGED caches,
         call[c].op \in {"UpdateUser", "ChangePassword"}, call[c].at = "getUser",
         users[call[c].in.id] # NoRow,
         WithUser(c, "updateUser", users[call[c].in.id], Changed(User(call[c].in.id), call[c].in.change))
  PROVE  Good
<1>1. Request(call[c]) /\ UsersInv /\ KeysInv /\ backend \in Backends
  BY ActiveClient, InvParts
<1>2. PICK id, change, ref, row : /\ id = call[c].in.id /\ change = call[c].in.change /\ ref = users[id]
                                  /\ row = Changed(User(id), change)
  OBVIOUS
<1>3. id \in UserIDs /\ change \in UserChange
  BY <1>1, <1>2 DEF Request, Params
<1>4. UserRef(users[id], id) /\ id < nextUser /\ User(id) \in UserRow /\ User(id).id = id
  BY <1>1, <1>2, <1>3, UserStored
<1>5. row \in UserRow /\ row.id = id /\ row.name = User(id).name
  BY <1>2, <1>3, <1>4, ChangedUser
<1>6. /\ Goto(c, "updateUser", Held(row))
      /\ userObj' = IF backend = "memory" THEN [userObj EXCEPT ![ref.ptr] = row] ELSE userObj
      /\ users' = users /\ names' = names /\ nextUser' = nextUser
  BY <1>2 DEF WithUser
<1>7. Stage([op |-> call[c].op, at |-> "updateUser"])
  BY DEF Stage
<1>8. CASE backend # "memory"
  <2>1. Goto(c, "updateUser", row)
    BY <1>6, <1>8 DEF Held
  <2>2. /\ call'[c].op = call[c].op /\ call'[c].at = "updateUser" /\ call'[c].in = call[c].in
        /\ call'[c].got = row
    BY <2>1, GotoKeeps
  <2>3. UNCHANGED <<tableVars, caches>>
    BY <1>6, <1>8 DEF tableVars, userTables
  <2>4. InHand(call'[c])
    BY <1>1, <1>2, <1>5, <1>8, <2>2 DEF Request, InHand, UserRef
  <2>5. UserAlone(call'[c]) /\ KeyAlone(call'[c])
    BY <1>2, <1>5, <1>8, <2>2 DEF UserAlone, KeyAlone, UserOf
  <2> QED BY <1>7, <2>1, <2>3, <2>4, <2>5, GoesOn
<1>9. CASE backend = "memory"
  <2>1. ref = [ptr |-> id]
    BY <1>2, <1>4, <1>9 DEF UserRef
  <2>2. PICK g : g = [ptr |-> id]
    OBVIOUS
  <2>3. Goto(c, "updateUser", g) /\ userObj' = [userObj EXCEPT ![id] = row]
    BY <1>5, <1>6, <1>9, <2>1, <2>2 DEF Held
  <2>4. /\ Moves(c) /\ call'[c].op = call[c].op /\ call'[c].at = "updateUser" /\ call'[c].in = call[c].in
        /\ call'[c].got = g
    BY <2>3, GotoKeeps
  <2>5. /\ userObj'[id] = row /\ \A u \in UserIDs : u # id => userObj'[u] = userObj[u]
        /\ userObj' \in [UserIDs -> UserRow \cup {NoRow}]
    BY <1>1, <1>3, <1>5, <2>3 DEF UsersInv
  <2>6. UsersInv'
    <3>1. \A u \in StoredUsers : UserRef(users[u], u)' /\ u < nextUser'
      BY <1>1, <1>6 DEF UsersInv, UserRef
    <3>2. \A u \in IssuedUsers : userObj'[u] \in UserRow /\ userObj'[u].id = u
      <4>1. \A u \in IssuedUsers : u \in UserIDs
        BY Issued
      <4> QED BY <1>1, <1>5, <1>9, <2>5, <4>1 DEF UsersInv
    <3> QED BY <1>1, <1>6, <2>5, <3>1, <3>2 DEF UsersInv, StoredUsers, IssuedUsers
  <2>7. \A u \in StoredUsers : User(u)'.name = User(u).name
    <3> SUFFICES ASSUME NEW u \in StoredUsers PROVE User(u)'.name = User(u).name
      OBVIOUS
    <3>1. u \in UserIDs /\ users[u] = [ptr |-> u]
      BY <1>1, <1>9 DEF UsersInv, UserRef, StoredUsers
    <3>2. User(u) = userObj[u] /\ User(u)' = userObj'[u]
      BY <1>6, <1>9, <3>1 DEF User, UserOf
    <3> QED BY <1>5, <2>5, <3>1, <3>2
  <2>8. OneUserPerName'
    <3>1. OneUserPerName
      BY <1>9 DEF AccountsInv
    <3>2. StoredUsers' = StoredUsers
      BY <1>6 DEF StoredUsers
    <3> QED BY <1>6, <2>7, <3>1, <3>2 DEF OneUserPerName
  <2>9. nextUser <= nextUser' /\ nextUser' \in Nat /\ nextKey <= nextKey' /\ nextKey' \in Nat
    BY <1>1, <1>6, AccountConstants DEF UsersInv, KeysInv, keyTables
  <2>10. Request(call[c])'
    <3>1. InHand(call[c])'
      BY <1>1, <1>2, <1>6, <1>9, <2>2, <2>4 DEF Request, InHand, UserRef, UserTarget, KeyTarget
    <3> QED BY <1>7, <2>3, <2>9, <3>1, GotoGood
  <2>11. UserAlone(call[c])'
    <3>1. UserOf(g)' = row /\ User(id)' = row
      BY <1>2, <1>6, <1>9, <2>1, <2>2, <2>5 DEF UserOf, User
    <3>2. (UserOf(call[c].got))' = row
      BY <2>4, <3>1 DEF UserOf
    <3>3. (User(call[c].in.id))' = row
      BY <1>2, <2>4, <3>1 DEF User, UserOf
    <3> QED BY <1>2, <1>6, <2>4, <3>2, <3>3 DEF UserAlone
  <2>12. Unrefreshed => \A p \in Creds : CachedCred(call[c], p)'
    <3> SUFFICES ASSUME Unrefreshed PROVE \A p \in Creds : CachedCred(call[c], p)'
      OBVIOUS
    <3>1. Written(call'[c]) /\ call'[c].in.id = id
      BY <1>2, <1>9, <2>4 DEF Written
    <3>2. ~Written(call[c])
      BY DEF Written
    <3>3. \A u \in UserIDs : u # id => users'[u] = users[u] /\ userObj'[u] = userObj[u]
      BY <1>6, <2>5
    <3>4. UNCHANGED credCache
      BY DEF caches
    <3> QED BY <2>4, <2>6, <2>9, <3>1, <3>2, <3>3, <3>4, CredsKept
  <2>13. UserSide(c)
    BY <2>6, <2>8, <2>9, <2>11, <2>12 DEF UserSide
  <2> QED BY <2>4, <2>10, <2>13, UserStep DEF KeyStages
<1> QED BY <1>8, <1>9

\* The first step of an update and of a change of the password.
LEMMA UserGets ==
  ASSUME AccountsInv, NEW c \in ActiveClients, UNCHANGED <<backend, load>>, UpdateUser(c) \/ ChangePassword(c)
  PROVE  Good
<1>1. backend \in Backends /\ GetUserByID(call[c].in.id) = users[call[c].in.id]
  BY InvParts, UserReads
<1>2. call[c].op \in {"UpdateUser", "ChangePassword"} /\ call[c].at = "getUser" /\ UNCHANGED <<keyTables, caches>>
  BY DEF UpdateUser, ChangePassword, At
<1>3. \/ (Reply(c, "notFound") \/ Reply(c, "denied")) /\ UNCHANGED userTables
      \/ /\ users[call[c].in.id] # NoRow
         /\ WithUser(c, "updateUser", users[call[c].in.id], Changed(User(call[c].in.id), call[c].in.change))
  BY <1>1 DEF UpdateUser, ChangePassword, User
<1>4. CASE (Reply(c, "notFound") \/ Reply(c, "denied")) /\ UNCHANGED userTables
  <2>1. UNCHANGED <<tableVars, caches>>
    BY <1>2, <1>4 DEF tableVars
  <2> QED BY <1>2, <1>4, <2>1, Answers
<1> QED BY <1>2, <1>3, <1>4, UserFetched

\* A user is created, under a name that nobody has.
LEMMA UserInserted ==
  ASSUME AccountsInv, NEW c \in ActiveClients, UNCHANGED <<backend, load>>, UNCHANGED keyTables, UNCHANGED caches,
         call[c].at \in {"createUser", "putUser"}, InsertUser(c, FALSE),
         backend # "cassandra" \/ load.serial => \A u \in StoredUsers : User(u).name # call[c].in.rec.name
  PROVE  Good
<1>1. Request(call[c]) /\ UsersInv /\ KeysInv /\ backend \in Backends /\ CachesInv
  BY ActiveClient, InvParts
<1>2. PICK rec, new, row : rec = call[c].in.rec /\ new = nextUser /\ row = [rec EXCEPT !.id = new]
  OBVIOUS
<1>3. rec \in NewUser
  BY <1>1, <1>2 DEF Request, Stage, Params
<1>4. /\ new <= MaxUser
      /\ users' = [users EXCEPT ![new] = Held(row)]
      /\ names' = IF backend \in {"memory", "cassandra"} THEN [names EXCEPT ![row.name] = new] ELSE names
      /\ userObj' = IF backend = "memory" THEN [userObj EXCEPT ![new] = row] ELSE userObj
      /\ nextUser' = new + 1
      /\ Reply(c, "nil")
  BY <1>2 DEF InsertUser
<1>5. new \in UserIDs /\ new \in Nat /\ users[new] = NoRow
  <2>1. new \in UserIDs /\ new \in Nat
    BY <1>1, <1>2, <1>4, AccountConstants DEF UsersInv, UserIDs
  <2>2. ~(new < nextUser)
    BY <1>2, <2>1
  <2> QED BY <1>1, <2>1, <2>2, UserStored
<1>6. row \in UserRow /\ row.id = new /\ row.name = rec.name /\ row.name \in UserNames
  BY <1>2, <1>3, <1>5 DEF NewUser, UserRow
<1>7. PICK held : held = Held(row)
  OBVIOUS
<1>8. (backend = "memory" => held = [ptr |-> new]) /\ (backend # "memory" => held = row)
  BY <1>6, <1>7 DEF Held
<1>9. /\ users' \in [UserIDs -> UserRow \cup Pointer(UserIDs) \cup {NoRow}]
      /\ users'[new] = held /\ held # NoRow /\ \A u \in UserIDs : u # new => users'[u] = users[u]
  <2>1. held \in UserRow \cup Pointer(UserIDs)
    BY <1>5, <1>6, <1>8 DEF Pointer
  <2>2. held # NoRow
    BY <1>5, <1>6, <1>8, AccountConstants
  <2> QED BY <1>1, <1>4, <1>5, <1>7, <2>1, <2>2 DEF UsersInv
<1>10. /\ userObj' \in [UserIDs -> UserRow \cup {NoRow}] /\ \A u \in UserIDs : u # new => userObj'[u] = userObj[u]
       /\ backend = "memory" => userObj'[new] = row
  BY <1>1, <1>4, <1>5, <1>6 DEF UsersInv
<1>11. /\ names' \in [UserNames -> 0..MaxUser]
       /\ \A n \in UserNames : n # row.name => names'[n] = names[n]
       /\ backend \in {"memory", "cassandra"} => names'[row.name] = new
       /\ \A n \in UserNames : names'[n] \in {names[n], new}
  <2>1. new \in 0..MaxUser
    BY <1>5, AccountConstants DEF UserIDs
  <2> QED BY <1>1, <1>4, <1>6, <2>1 DEF UsersInv
<1>12. UsersInv'
  <2>1. \A u \in UserIDs : users'[u] # NoRow => UserRef(users[u], u)' /\ u < nextUser'
    <3> SUFFICES ASSUME NEW u \in UserIDs, users'[u] # NoRow PROVE UserRef(users[u], u)' /\ u < nextUser'
      OBVIOUS
    <3>1. CASE u = new
      BY <1>4, <1>5, <1>6, <1>8, <1>9, <3>1 DEF UserRef
    <3>2. CASE u # new
      <4>1. UserRef(users[u], u) /\ u < nextUser
        BY <1>1, <1>9, <3>2, UserStored
      <4> QED BY <1>2, <1>4, <1>5, <1>9, <3>2, <4>1, AccountConstants DEF UserRef, UserIDs
    <3> QED BY <3>1, <3>2
  <2>2. backend = "memory" => \A u \in 1..new : userObj'[u] \in UserRow /\ userObj'[u].id = u
    <3> SUFFICES ASSUME backend = "memory", NEW u \in 1..new PROVE userObj'[u] \in UserRow /\ userObj'[u].id = u
      OBVIOUS
    <3>1. u \in UserIDs
      BY <1>5, AccountConstants DEF UserIDs
    <3>2. CASE u = new
      BY <1>6, <1>10, <3>2
    <3>3. CASE u # new
      <4>1. u \in IssuedUsers
        BY <1>2, <1>5, <3>3 DEF IssuedUsers
      <4> QED BY <1>1, <1>10, <3>1, <3>3, <4>1 DEF UsersInv
    <3> QED BY <3>2, <3>3
  <2>3. nextUser' \in 1..(MaxUser + 1) /\ IssuedUsers' = 1..new
    BY <1>4, <1>5, AccountConstants DEF IssuedUsers, UserIDs
  <2>4. \A n \in UserNames : names'[n] < nextUser'
    <3>1. \A n \in UserNames : names[n] < new /\ names[n] \in Int
      BY <1>1, <1>2, AccountConstants DEF UsersInv
    <3> QED BY <1>4, <1>5, <1>11, <3>1
  <2> QED BY <1>9, <1>10, <1>11, <2>1, <2>2, <2>3, <2>4 DEF UsersInv, StoredUsers
<1>13. /\ StoredUsers' = StoredUsers \cup {new} /\ new \notin StoredUsers
       /\ User(new)'.name = row.name /\ \A u \in StoredUsers : User(u)' = User(u)
  <2>1. StoredUsers' = StoredUsers \cup {new} /\ new \notin StoredUsers
    <3>1. StoredUsers' = {u \in UserIDs : users'[u] # NoRow}
      BY DEF StoredUsers
    <3>2. \A u \in UserIDs : users'[u] # NoRow <=> users[u] # NoRow \/ u = new
      BY <1>9
    <3> QED BY <1>5, <3>1, <3>2 DEF StoredUsers
  <2>2. User(new)' = row
    BY <1>8, <1>9, <1>10 DEF User, UserOf
  <2>3. ASSUME NEW u \in StoredUsers PROVE User(u)' = User(u)
    <3>1. u \in UserIDs /\ u # new /\ users'[u] = users[u] /\ userObj'[u] = userObj[u]
      BY <1>9, <1>10, <2>1 DEF StoredUsers
    <3>2. backend = "memory" => users[u] = [ptr |-> u]
      BY <1>1 DEF UsersInv, UserRef
    <3> QED BY <3>1, <3>2 DEF User, UserOf
  <2> QED BY <2>1, <2>2, <2>3
<1>14. backend # "cassandra" \/ load.serial => OneUserPerName'
  <2> SUFFICES ASSUME backend # "cassandra" \/ load.serial PROVE OneUserPerName'
    OBVIOUS
  <2>1. OneUserPerName /\ \A u \in StoredUsers : User(u).name # row.name
    BY <1>2, <1>6 DEF AccountsInv
  <2>2. \A u, v \in StoredUsers' : User(u)'.name = User(v)'.name => u = v
    BY <1>13, <2>1 DEF OneUserPerName
  <2>3. ASSUME backend \in {"memory", "cassandra"}
        PROVE  /\ \A u \in StoredUsers' : names'[User(u)'.name] = u
               /\ \A n \in UserNames : names'[n] \in StoredUsers' => User(names[n])'.name = n
    <3>1. \A u \in StoredUsers : User(u).name \in UserNames
      BY <1>1, UserStored DEF StoredUsers, UserRow
    <3>2. \A u \in StoredUsers' : names'[User(u)'.name] = u
      BY <1>11, <1>13, <2>1, <2>3, <3>1 DEF OneUserPerName
    <3>3. ASSUME NEW n \in UserNames, names'[n] \in StoredUsers' PROVE User(names[n])'.name = n
      <4>1. CASE n = row.name
        <5>1. names'[n] = new
          BY <1>11, <2>3, <4>1
        <5>2. User(names[n])' = User(new)'
          BY <5>1 DEF User, UserOf
        <5> QED BY <1>13, <4>1, <5>2
      <4>2. CASE n # row.name
        <5>1. names'[n] = names[n]
          BY <1>11, <4>2
        <5>2. names[n] < new /\ names[n] \in Int
          BY <1>1, <1>2, AccountConstants DEF UsersInv
        <5>3. names[n] \in StoredUsers
          BY <1>5, <1>13, <3>3, <5>1, <5>2
        <5>4. User(names[n])' = User(names[n])
          <6>1. PICK m : m = names[n]
            OBVIOUS
          <6>2. User(m)' = User(m)
            BY <1>13, <5>3, <6>1
          <6> QED BY <5>1, <6>1, <6>2 DEF User, UserOf
        <5> QED BY <2>1, <2>3, <5>3, <5>4 DEF OneUserPerName
      <4> QED BY <4>1, <4>2
    <3> QED BY <3>2, <3>3
  <2> QED BY <2>2, <2>3 DEF OneUserPerName
<1>15. Moves(c) /\ Request(call[c])' /\ call'[c].at = "done" /\ call'[c].op = "none"
  BY <1>4, ReplyGood
<1>16. nextUser <= nextUser'
  BY <1>2, <1>4, <1>5
<1>17. Unrefreshed => \A p \in Creds : CachedCred(call[c], p)'
  <2> SUFFICES ASSUME Unrefreshed PROVE \A p \in Creds : CachedCred(call[c], p)'
    OBVIOUS
  <2>1. ASSUME NEW p \in Creds, credCache[FirstNode][p] # NoRow
        PROVE  UserOf(credCache[FirstNode][p]).id # new
    <3>1. PICK u \in IssuedUsers : UserRef(credCache[FirstNode][p], u)
      BY <1>1, <2>1, AccountConstants DEF CachesInv
    <3>2. u \in UserIDs /\ u < nextUser
      BY Issued
    <3>3. UserOf(credCache[FirstNode][p]).id = u
      BY <1>1, <3>1, <3>2, UserOfRef
    <3>4. u # new
      BY <1>2, <1>5, <3>2
    <3> QED BY <3>3, <3>4
  <2>2. ~Written(call[c])
    BY DEF Written
  <2>3. UNCHANGED credCache
    BY DEF caches
  <2> QED BY <1>9, <1>10, <1>12, <1>15, <1>16, <2>1, <2>2, <2>3, CredsKept
<1>18. UserAlone(call[c])'
  BY <1>15 DEF UserAlone
<1>19. UserSide(c)
  BY <1>12, <1>14, <1>16, <1>17, <1>18 DEF UserSide
<1> QED BY <1>15, <1>19, UserStep DEF KeyStages

\* The user that an update has in hand is written back.
LEMMA UserReplaced ==
  ASSUME AccountsInv, NEW c \in ActiveClients, UNCHANGED <<backend, load>>, UNCHANGED keyTables, UNCHANGED caches,
         call[c].at \in {"updateUser", "writeUser"},
         users' = [users EXCEPT ![call[c].in.id] = call[c].got],
         names' = IF backend = "cassandra" THEN [names EXCEPT ![call[c].got.name] = call[c].in.id] ELSE names,
         userObj' = userObj, nextUser' = nextUser,
         Goto(c, "invalidateUser", NoRow),
         backend # "cassandra" \/ load.serial => users[call[c].in.id] # NoRow,
         backend \in {"postgres", "mysql"} =>
           \A u \in StoredUsers : u # call[c].in.id => User(u).name # call[c].got.name
  PROVE  Good
<1>1. Request(call[c]) /\ UsersInv /\ KeysInv /\ backend \in Backends /\ CachesInv
  BY ActiveClient, InvParts
<1>2. PICK id, g : id = call[c].in.id /\ g = call[c].got
  OBVIOUS
<1>3. call[c].op \in {"UpdateUser", "ChangePassword"} /\ id \in UserIDs /\ id < nextUser /\ UserRef(g, id)
  BY <1>1, <1>2 DEF Request, Stage, Params, InHand, UserTarget
<1>4. UserOf(g) \in UserRow /\ UserOf(g).id = id /\ g # NoRow
  BY <1>1, <1>3, UserOfRef
<1>5. /\ users' \in [UserIDs -> UserRow \cup Pointer(UserIDs) \cup {NoRow}]
      /\ users'[id] = g /\ \A u \in UserIDs : u # id => users'[u] = users[u]
  <2>1. g \in UserRow \cup Pointer(UserIDs)
    BY <1>3 DEF UserRef, Pointer
  <2> QED BY <1>1, <1>2, <1>3, <2>1 DEF UsersInv
<1>6. /\ names' \in [UserNames -> 0..MaxUser]
      /\ \A n \in UserNames : n # UserOf(g).name => names'[n] = names[n]
      /\ backend = "cassandra" => names'[UserOf(g).name] = id
      /\ backend # "cassandra" => names' = names
  <2>1. UserOf(g).name \in UserNames /\ id \in 0..MaxUser
    BY <1>3, <1>4, AccountConstants DEF UserRow, UserIDs
  <2>2. backend = "cassandra" => g = UserOf(g)
    BY DEF UserOf
  <2> QED BY <1>1, <1>2, <2>1, <2>2 DEF UsersInv
<1>7. UsersInv'
  <2>1. \A u \in UserIDs : users'[u] # NoRow => UserRef(users[u], u)' /\ u < nextUser'
    <3> SUFFICES ASSUME NEW u \in UserIDs, users'[u] # NoRow PROVE UserRef(users[u], u)' /\ u < nextUser'
      OBVIOUS
    <3>1. CASE u = id
      BY <1>3, <1>5, <3>1 DEF UserRef
    <3>2. CASE u # id
      <4>1. UserRef(users[u], u) /\ u < nextUser
        BY <1>1, <1>5, <3>2, UserStored
      <4> QED BY <1>5, <3>2, <4>1 DEF UserRef
    <3> QED BY <3>1, <3>2
  <2>2. \A n \in UserNames : names'[n] < nextUser'
    BY <1>1, <1>3, <1>6 DEF UsersInv
  <2> QED BY <1>1, <1>5, <1>6, <2>1, <2>2 DEF UsersInv, StoredUsers, IssuedUsers
<1>8. User(id)' = UserOf(g) /\ \A u \in UserIDs : u # id => User(u)' = User(u)
  BY <1>5 DEF User, UserOf
<1>9. backend # "cassandra" \/ load.serial => OneUserPerName'
  <2> SUFFICES ASSUME backend # "cassandra" \/ load.serial PROVE OneUserPerName'
    OBVIOUS
  <2>1. OneUserPerName /\ users[id] # NoRow
    BY <1>2 DEF AccountsInv
  <2>2. StoredUsers' = StoredUsers /\ id \in StoredUsers
    <3>1. StoredUsers' = {u \in UserIDs : users'[u] # NoRow}
      BY DEF StoredUsers
    <3>2. \A u \in UserIDs : users'[u] # NoRow <=> users[u] # NoRow
      BY <1>4, <1>5, <2>1
    <3> QED BY <1>3, <2>1, <3>1, <3>2 DEF StoredUsers
  <2>3. CASE backend \in {"memory", "cassandra"}
    <3>1. UserOf(g).name = User(id).name
      <4>1. CASE backend = "memory"
        <5>1. UserRef(users[id], id)
          BY <1>1, <1>3, <2>1, UserStored
        <5> QED BY <1>3, <4>1, <5>1 DEF UserRef, User
      <4>2. CASE backend # "memory"
        <5>1. load.serial
          BY <2>3, <4>2
        <5>2. UserAlone(call[c])
          BY <5>1, ActiveClient
        <5> QED BY <1>2, <5>2 DEF UserAlone
      <4> QED BY <4>1, <4>2
    <3>2. \A u \in StoredUsers : User(u)'.name = User(u).name
      BY <1>8, <3>1 DEF StoredUsers
    <3>3. names[UserOf(g).name] = id
      BY <2>1, <2>2, <2>3, <3>1 DEF OneUserPerName
    <3>4. names' = names
      <4>1. UserOf(g).name \in UserNames
        BY <1>4 DEF UserRow
      <4>2. \A n \in UserNames : names'[n] = names[n]
        BY <1>6, <3>3
      <4> QED BY <1>1, <1>6, <4>2 DEF UsersInv
    <3> QED BY <2>1, <2>2, <3>2, <3>4 DEF OneUserPerName
  <2>4. CASE backend \in {"postgres", "mysql"}
    <3>1. \A u \in StoredUsers : u # id => User(u).name # UserOf(g).name
      BY <1>2, <2>4 DEF UserOf
    <3>2. \A u, v \in StoredUsers : User(u)'.name = User(v)'.name => u = v
      BY <1>8, <2>1, <3>1 DEF OneUserPerName, StoredUsers
    <3> QED BY <2>2, <2>4, <3>2 DEF OneUserPerName
  <2> QED BY <1>1, <2>3, <2>4 DEF Backends
<1>10. /\ Moves(c) /\ call'[c].op = call[c].op /\ call'[c].at = "invalidateUser" /\ call'[c].in = call[c].in
  BY GotoKeeps
<1>11. nextUser <= nextUser' /\ nextUser' \in Nat /\ nextKey <= nextKey' /\ nextKey' \in Nat
  BY <1>1, AccountConstants DEF UsersInv, KeysInv, keyTables
<1>12. Request(call[c])'
  <2>1. InHand(call[c])'
    BY <1>1, <1>2, <1>3, <1>10 DEF InHand, KeyTarget
  <2>2. Stage([op |-> call[c].op, at |-> "invalidateUser"])
    BY <1>3 DEF Stage
  <2> QED BY <1>11, <2>1, <2>2, GotoGood
<1>13. UserAlone(call[c])'
  BY <1>10 DEF UserAlone
<1>14. Unrefreshed => \A p \in Creds : CachedCred(call[c], p)'
  <2> SUFFICES ASSUME Unrefreshed PROVE \A p \in Creds : CachedCred(call[c], p)'
    OBVIOUS
  <2>1. Written(call'[c]) /\ call'[c].in.id = id
    BY <1>2, <1>10 DEF Written
  <2>2. UNCHANGED credCache
    BY DEF caches
  <2> QED BY <1>2, <1>5, <1>7, <1>10, <1>11, <2>1, <2>2, CredsKept
<1>15. UserSide(c)
  BY <1>7, <1>9, <1>11, <1>13, <1>14 DEF UserSide
<1> QED BY <1>10, <1>12, <1>15, UserStep DEF KeyStages

\* A user is deleted: the users' side.
LEMMA UserDropped ==
  ASSUME AccountsInv, NEW c \in ActiveClients, UNCHANGED <<backend, load>>, UNCHANGED caches,
         call[c].at \in {"deleteUser", "dropUser"}, call'[c].at = "done",
         users' = [users EXCEPT ![call[c].in.id] = NoRow],
         NEW name \in UserNames,
         names' = IF backend \in {"memory", "cassandra"} THEN [names EXCEPT ![name] = 0] ELSE names,
         userObj' = userObj, nextUser' = nextUser,
         backend = "memory" \/ (backend = "cassandra" /\ load.serial) =>
           users[call[c].in.id] # NoRow /\ User(call[c].in.id).name = name
  PROVE  UserSide(c)
<1>1. Request(call[c]) /\ UsersInv /\ backend \in Backends /\ CachesInv
  BY ActiveClient, InvParts
<1>2. PICK id : id = call[c].in.id
  OBVIOUS
<1>3. call[c].op = "DeleteUser" /\ id \in UserIDs
  BY <1>1, <1>2 DEF Request, Stage, Params
<1>4. /\ users' \in [UserIDs -> UserRow \cup Pointer(UserIDs) \cup {NoRow}]
      /\ users'[id] = NoRow /\ \A u \in UserIDs : u # id => users'[u] = users[u]
  BY <1>1, <1>2, <1>3 DEF UsersInv
<1>5. /\ names' \in [UserNames -> 0..MaxUser]
      /\ \A n \in UserNames : n # name => names'[n] = names[n]
      /\ backend \in {"memory", "cassandra"} => names'[name] = 0
      /\ \A n \in UserNames : names'[n] \in {names[n], 0}
  <2>1. 0 \in 0..MaxUser
    BY AccountConstants
  <2> QED BY <1>1, <2>1 DEF UsersInv
<1>6. UsersInv'
  <2>1. \A u \in UserIDs : users'[u] # NoRow => UserRef(users[u], u)' /\ u < nextUser'
    <3> SUFFICES ASSUME NEW u \in UserIDs, users'[u] # NoRow PROVE UserRef(users[u], u)' /\ u < nextUser'
      OBVIOUS
    <3>1. u # id
      BY <1>4
    <3>2. UserRef(users[u], u) /\ u < nextUser
      BY <1>1, <1>4, <3>1, UserStored
    <3> QED BY <1>4, <3>1, <3>2 DEF UserRef
  <2>2. \A n \in UserNames : names'[n] < nextUser'
    BY <1>1, <1>5, AccountConstants DEF UsersInv
  <2> QED BY <1>1, <1>4, <1>5, <2>1, <2>2 DEF UsersInv, StoredUsers, IssuedUsers
<1>7. StoredUsers' = StoredUsers \ {id}
  <2>1. StoredUsers' = {u \in UserIDs : users'[u] # NoRow}
    BY DEF StoredUsers
  <2>2. \A u \in UserIDs : users'[u] # NoRow <=> users[u] # NoRow /\ u # id
    BY <1>4
  <2> QED BY <2>1, <2>2 DEF StoredUsers
<1>8. \A u \in UserIDs : u # id => User(u)' = User(u)
  BY <1>4 DEF User, UserOf
<1>9. backend # "cassandra" \/ load.serial => OneUserPerName'
  <2> SUFFICES ASSUME backend # "cassandra" \/ load.serial PROVE OneUserPerName'
    OBVIOUS
  <2>1. OneUserPerName
    BY DEF AccountsInv
  <2>2. \A u, v \in StoredUsers' : User(u)'.name = User(v)'.name => u = v
    BY <1>7, <1>8, <2>1 DEF OneUserPerName, StoredUsers
  <2>3. ASSUME backend \in {"memory", "cassandra"}
        PROVE  /\ \A u \in StoredUsers' : names'[User(u)'.name] = u
               /\ \A n \in UserNames : names'[n] \in StoredUsers' => User(names[n])'.name = n
    <3>1. id \in StoredUsers /\ User(id).name = name
      BY <1>2, <1>3, <2>3 DEF StoredUsers
    <3>2. ASSUME NEW u \in StoredUsers' PROVE names'[User(u)'.name] = u
      <4>1. u \in StoredUsers /\ u # id /\ u \in UserIDs
        BY <1>7, <3>2 DEF StoredUsers
      <4>2. User(u).name # name /\ User(u).name \in UserNames
        <5>1. User(u).name # name
          BY <2>1, <3>1, <4>1 DEF OneUserPerName
        <5>2. User(u) \in UserRow
          BY <1>1, <4>1, UserStored DEF StoredUsers
        <5> QED BY <5>1, <5>2 DEF UserRow
      <4> QED BY <1>5, <1>8, <2>1, <2>3, <4>1, <4>2 DEF OneUserPerName
    <3>3. ASSUME NEW n \in UserNames, names'[n] \in StoredUsers' PROVE User(names[n])'.name = n
      <4>1. 0 \notin StoredUsers
        BY AccountConstants DEF StoredUsers, UserIDs
      <4>2. n # name
        BY <1>5, <1>7, <2>3, <3>3, <4>1
      <4>3. PICK m : m = names[n]
        OBVIOUS
      <4>4. names'[n] = m /\ m \in StoredUsers /\ m # id /\ m \in UserIDs
        BY <1>5, <1>7, <3>3, <4>2, <4>3 DEF StoredUsers
      <4>5. User(m).name = n
        BY <2>1, <2>3, <4>3, <4>4 DEF OneUserPerName
      <4>6. User(m)' = User(m)
        BY <1>8, <4>4
      <4>7. User(names[n])' = User(m)'
        BY <4>4 DEF User, UserOf
      <4> QED BY <4>5, <4>6, <4>7
    <3> QED BY <3>2, <3>3
  <2> QED BY <2>2, <2>3 DEF OneUserPerName
<1>10. nextUser <= nextUser'
  BY <1>1, AccountConstants DEF UsersInv
<1>11. Unrefreshed => \A p \in Creds : CachedCred(call[c], p)'
  <2> SUFFICES ASSUME Unrefreshed PROVE \A p \in Creds : CachedCred(call[c], p)'
    OBVIOUS
  <2>1. \A p \in Creds : credCache[FirstNode][p] # NoRow => UserOf(credCache[FirstNode][p]).id # id
    <3>1. \A p \in Creds : CachedCred(call[c], p)
      BY ActiveClient DEF Unrefreshed
    <3> QED BY <1>2, <3>1 DEF CachedCred
  <2>2. ~Written(call[c])
    BY DEF Written
  <2>3. UNCHANGED credCache
    BY DEF caches
  <2> QED BY <1>4, <1>6, <1>10, <2>1, <2>2, <2>3, CredsKept
<1>12. UserAlone(call[c])'
  BY DEF UserAlone
<1> QED BY <1>6, <1>9, <1>10, <1>11, <1>12 DEF UserSide

-----------------------------------------------------------------------------
(* The cache of credentials.                                               *)

\* A step changes that cache only.
LEMMA CredCacheStep ==
  ASSUME AccountsInv, NEW c \in ActiveClients, UNCHANGED <<backend, load>>, UNCHANGED <<tableVars, keyCache, listed>>,
         Moves(c), Request(call[c])', call[c].at # "invalidateKey", call'[c].at \in {"done", "deleteUser"},
         credCache' \in [Nodes -> [Creds -> UserRow \cup Pointer(UserIDs) \cup {NoRow}]],
         \A n \in Nodes, p \in Creds : credCache'[n][p] # NoRow =>
           \E u \in IssuedUsers : UserRef(credCache'[n][p], u),
         Unrefreshed => \A p \in Creds : credCache'[FirstNode][p] # NoRow =>
           /\ CredFits(credCache'[FirstNode][p], p)
           /\ call'[c].at = "deleteUser" => call'[c].in.id # UserOf(credCache'[FirstNode][p]).id
  PROVE  Good
<1>1. /\ users' = users /\ names' = names /\ userObj' = userObj /\ nextUser' = nextUser
      /\ nextKey' = nextKey /\ UNCHANGED keyTables /\ UNCHANGED keyCache /\ listed' = listed
  BY DEF tableVars, userTables, keyTables
<1>2. UsersInv /\ KeysInv /\ CachesInv /\ UsersInv' /\ nextUser <= nextUser'
  <2>1. UsersInv /\ KeysInv /\ CachesInv
    BY InvParts
  <2>2. UsersInv'
    BY <1>1, <2>1 DEF UsersInv, StoredUsers, IssuedUsers, UserRef
  <2> QED BY <1>1, <2>1, <2>2, AccountConstants DEF UsersInv
<1>3. /\ \A ref : UserOf(ref)' = UserOf(ref)
      /\ \A u : User(u)' = User(u)
      /\ StoredUsers' = StoredUsers
  BY <1>1 DEF User, UserOf, StoredUsers
<1>4. backend # "cassandra" \/ load.serial => OneUserPerName'
  BY <1>1, <1>3 DEF AccountsInv, OneUserPerName
<1>5. UserAlone(call[c])'
  BY DEF UserAlone
<1>6. Unrefreshed => \A p \in Creds : CachedCred(call[c], p)'
  <2> SUFFICES ASSUME Unrefreshed, NEW p \in Creds, credCache'[FirstNode][p] # NoRow PROVE CachedCred(call[c], p)'
    BY DEF CachedCred
  <2>1. PICK ref : ref = credCache'[FirstNode][p]
    OBVIOUS
  <2>2. CredFits(ref, p) /\ (call'[c].at = "deleteUser" => call'[c].in.id # UserOf(ref).id)
    BY <2>1
  <2>3. CredFits(credCache[FirstNode][p], p)'
    BY <1>1, <2>1, <2>2 DEF CredFits, User, UserOf
  <2>4. UserOf(credCache[FirstNode][p])' = UserOf(ref)
    BY <1>1, <2>1 DEF UserOf
  <2> QED BY <2>2, <2>3, <2>4 DEF CachedCred
<1>7. UserSide(c)
  BY <1>2, <1>4, <1>5, <1>6 DEF UserSide
<1>8. KeySide(c)
  BY <1>1, KeySideRest DEF KeyStages
<1>9. CachesInv'
  <2>1. \A n \in Nodes, p \in Creds : credCache'[n][p] # NoRow => \E u \in IssuedUsers' : UserRef(credCache[n][p], u)'
    BY <1>1 DEF IssuedUsers, UserRef
  <2>2. /\ \A n \in Nodes, k \in KeyIDs : keyCache[n][k] # NoRow => HashRef(keyCache[n][k], k)' /\ k < nextKey'
        /\ \A n \in Nodes : listed[n] # NoRow =>
             \A k \in KeyIDs \cap DOMAIN listed[n] : KeyRef(listed[n][k], k)' /\ k < nextKey'
    BY <1>1, <1>2 DEF CachesInv, HashRef, KeyRef
  <2> QED BY <1>1, <1>2, <2>1, <2>2 DEF CachesInv
<1> QED BY <1>1, <1>7, <1>8, <1>9, StepInv DEF Good, KeySide

\* The credentials of a user leave the cache of the node.
LEMMA UserInvalidated ==
  ASSUME AccountsInv, NEW c \in ActiveClients, UNCHANGED <<backend, load>>, InvalidateUserCredCacheByID(c)
  PROVE  Good
<1>1. Request(call[c]) /\ UsersInv /\ CachesInv
  BY ActiveClient, InvParts
<1>2. PICK node, id : node = call[c].in.node /\ id = call[c].in.id
  OBVIOUS
<1>3. call[c].op \in UserTarget /\ node \in Nodes /\ id \in UserIDs /\ (load.serial => node = FirstNode)
  BY <1>1, <1>2 DEF InvalidateUserCredCacheByID, Request, Stage, Params, UserTarget
<1>4. PICK new : new = [p \in Creds |-> IF /\ credCache[node][p] # NoRow
                                           /\ UserOf(credCache[node][p]).id = id
                                        THEN NoRow ELSE credCache[node][p]]
  OBVIOUS
<1>5. credCache' = [credCache EXCEPT ![node] = new]
  <2>1. DOMAIN credCache[node] = Creds
    BY <1>1, <1>3 DEF CachesInv
  <2> QED BY <1>2, <1>4, <2>1 DEF InvalidateUserCredCacheByID, Node
<1>6. \A p \in Creds : new[p] \in {NoRow, credCache[node][p]} /\ (new[p] # NoRow => UserOf(new[p]).id # id)
  BY <1>4
<1>7. credCache' \in [Nodes -> [Creds -> UserRow \cup Pointer(UserIDs) \cup {NoRow}]]
  <2>1. new \in [Creds -> UserRow \cup Pointer(UserIDs) \cup {NoRow}]
    BY <1>1, <1>3, <1>4 DEF CachesInv
  <2> QED BY <1>1, <1>5, <2>1 DEF CachesInv
<1>8. /\ credCache'[node] = new /\ \A n \in Nodes : n # node => credCache'[n] = credCache[n]
  BY <1>1, <1>3, <1>5 DEF CachesInv
<1>9. \A n \in Nodes, p \in Creds : credCache'[n][p] \in {NoRow, credCache[n][p]}
  BY <1>6, <1>8
<1>10. \A n \in Nodes, p \in Creds : credCache'[n][p] # NoRow => \E u \in IssuedUsers : UserRef(credCache'[n][p], u)
  BY <1>1, <1>9 DEF CachesInv
<1>11. Unrefreshed => \A p \in Creds : credCache'[FirstNode][p] # NoRow =>
          CredFits(credCache'[FirstNode][p], p) /\ id # UserOf(credCache'[FirstNode][p]).id
  <2> SUFFICES ASSUME Unrefreshed, NEW p \in Creds, credCache'[FirstNode][p] # NoRow
               PROVE  CredFits(credCache'[FirstNode][p], p) /\ id # UserOf(credCache'[FirstNode][p]).id
    OBVIOUS
  <2>1. node = FirstNode /\ CachedCred(call[c], p)
    BY <1>3, ActiveClient DEF Unrefreshed
  <2>2. credCache'[FirstNode][p] = credCache[FirstNode][p] /\ id # UserOf(credCache[FirstNode][p]).id
    BY <1>6, <1>8, <2>1
  <2> QED BY <1>2, <2>1, <2>2 DEF CachedCred
<1>12. /\ call[c].at = "invalidateUser" /\ UNCHANGED <<tableVars, keyCache, listed>>
       /\ nextUser' = nextUser /\ nextKey' = nextKey
  BY DEF InvalidateUserCredCacheByID, tableVars, userTables, keyTables
<1>13. CASE call[c].op = "DeleteUser" /\ Goto(c, "deleteUser", NoRow)
  <2>1. /\ Moves(c) /\ call'[c].op = call[c].op /\ call'[c].at = "deleteUser" /\ call'[c].in = call[c].in
    BY <1>13, GotoKeeps
  <2>2. nextUser <= nextUser' /\ nextUser' \in Nat /\ nextKey <= nextKey' /\ nextKey' \in Nat
    BY <1>1, <1>12, InvParts, AccountConstants DEF UsersInv, KeysInv
  <2>3. InHand(call[c])'
    BY <1>1, <1>12, <1>13, <2>1 DEF Request, InHand, KeyTarget
  <2>4. Stage([op |-> call[c].op, at |-> "deleteUser"])
    BY <1>13 DEF Stage
  <2>5. Request(call[c])'
    BY <1>13, <2>2, <2>3, <2>4, GotoGood
  <2> QED BY <1>2, <1>7, <1>10, <1>11, <1>12, <2>1, <2>5, CredCacheStep
<1>14. CASE Reply(c, "nil")
  <2>1. Moves(c) /\ Request(call[c])' /\ call'[c].at = "done"
    BY <1>14, ReplyGood
  <2> QED BY <1>7, <1>10, <1>11, <1>12, <2>1, CredCacheStep
<1> QED BY <1>13, <1>14 DEF InvalidateUserCredCacheByID

\* A login looks into the cache, and puts the user it has found there.
LEMMA CredsValidated ==
  ASSUME AccountsInv, NEW c \in ActiveClients, UNCHANGED <<backend, load>>, ValidateCredentials(c),
         call[c].at \in {"cached", "cacheCred"}
  PROVE  Good
<1>1. Request(call[c]) /\ UsersInv /\ CachesInv
  BY ActiveClient, InvParts
<1>2. call[c].op = "ValidateCredentials" /\ UNCHANGED <<tableVars, keyCache, listed>>
  BY DEF ValidateCredentials, At, Begin, caches
<1>3. PICK node, cred, g : node = call[c].in.node /\ cred = call[c].in.cred /\ g = call[c].got
  OBVIOUS
<1>4. node \in Nodes /\ cred \in Creds /\ (load.serial => node = FirstNode)
  BY <1>1, <1>2, <1>3 DEF Request, Params
<1>5. Unrefreshed => \A p \in Creds : credCache[FirstNode][p] # NoRow => CredFits(credCache[FirstNode][p], p)
  <2> SUFFICES ASSUME Unrefreshed, NEW p \in Creds, credCache[FirstNode][p] # NoRow
               PROVE  CredFits(credCache[FirstNode][p], p)
    OBVIOUS
  <2>1. CachedCred(call[c], p)
    BY ActiveClient DEF Unrefreshed
  <2> QED BY <2>1 DEF CachedCred, Written
<1>6. ASSUME NEW err, Reply(c, err), NEW ref \in UserRow \cup Pointer(UserIDs) \cup {NoRow},
             credCache' = [credCache EXCEPT ![node][cred] = ref],
             ref # NoRow => \E u \in IssuedUsers : UserRef(ref, u),
             Unrefreshed => ref = NoRow \/ CredFits(ref, cred)
      PROVE  Good
  <2>1. Moves(c) /\ Request(call[c])' /\ call'[c].at = "done"
    BY <1>6, ReplyGood
  <2>2. PICK new : new = [credCache[node] EXCEPT ![cred] = ref]
    OBVIOUS
  <2>3. credCache' = [credCache EXCEPT ![node] = new]
    BY <1>6, <2>2
  <2>4. credCache[node] \in [Creds -> UserRow \cup Pointer(UserIDs) \cup {NoRow}]
    BY <1>1, <1>4 DEF CachesInv
  <2>5. /\ new \in [Creds -> UserRow \cup Pointer(UserIDs) \cup {NoRow}]
        /\ new[cred] = ref /\ \A p \in Creds : p # cred => new[p] = credCache[node][p]
    BY <1>4, <2>2, <2>4
  <2>6. /\ credCache' \in [Nodes -> [Creds -> UserRow \cup Pointer(UserIDs) \cup {NoRow}]]
        /\ credCache'[node] = new /\ \A n \in Nodes : n # node => credCache'[n] = credCache[n]
    BY <1>1, <1>4, <2>3, <2>5 DEF CachesInv
  <2>7. /\ credCache'[node][cred] = ref
        /\ \A n \in Nodes, p \in Creds : n # node \/ p # cred => credCache'[n][p] = credCache[n][p]
    BY <2>5, <2>6
  <2>8. ASSUME NEW n \in Nodes, NEW p \in Creds, credCache'[n][p] # NoRow
        PROVE  \E u \in IssuedUsers : UserRef(credCache'[n][p], u)
    <3>1. CASE n = node /\ p = cred
      BY <1>6, <2>7, <2>8, <3>1
    <3>2. CASE n # node \/ p # cred
      BY <1>1, <2>7, <2>8, <3>2 DEF CachesInv
    <3> QED BY <3>1, <3>2
  <2>9. ASSUME Unrefreshed, NEW p \in Creds, credCache'[FirstNode][p] # NoRow
        PROVE  CredFits(credCache'[FirstNode][p], p)
    <3>1. node = FirstNode
      BY <1>4, <2>9 DEF Unrefreshed
    <3>2. CASE p = cred
      BY <1>6, <2>7, <2>9, <3>1, <3>2
    <3>3. CASE p # cred
      BY <1>4, <1>5, <2>7, <2>9, <3>1, <3>3
    <3> QED BY <3>2, <3>3
  <2> QED BY <1>2, <2>1, <2>6, <2>8, <2>9, CredCacheStep
<1>7. CASE call[c].at = "cached"
  <2>1. \/ Goto(c, "byName", NoRow) /\ UNCHANGED credCache
        \/ Reply(c, "nil") /\ UNCHANGED credCache
        \/ credCache' = [credCache EXCEPT ![node][cred] = NoRow] /\ Reply(c, "disabled")
    BY <1>3, <1>7 DEF ValidateCredentials, At, Begin
  <2>2. CASE Goto(c, "byName", NoRow) /\ UNCHANGED credCache
    <3>1. UNCHANGED <<tableVars, caches>>
      BY <1>2, <2>2 DEF caches
    <3>2. Stage([op |-> call[c].op, at |-> "byName"])
      BY <1>2 DEF Stage
    <3> QED BY <1>2, <1>7, <2>2, <3>1, <3>2, GoesOnPlain
  <2>3. CASE Reply(c, "nil") /\ UNCHANGED credCache
    <3>1. UNCHANGED <<tableVars, caches>>
      BY <1>2, <2>3 DEF caches
    <3> QED BY <1>7, <2>3, <3>1, Answers
  <2>4. CASE credCache' = [credCache EXCEPT ![node][cred] = NoRow] /\ Reply(c, "disabled")
    BY <1>6, <2>4
  <2> QED BY <2>1, <2>2, <2>3, <2>4
<1>8. CASE call[c].at = "cacheCred"
  <2>1. credCache' = [credCache EXCEPT ![node][cred] = g] /\ Reply(c, "nil")
    BY <1>3, <1>8 DEF ValidateCredentials, At, Begin
  <2>2. \E u \in IssuedUsers : UserRef(g, u)
    BY <1>1, <1>3, <1>8 DEF Request, InHand
  <2>3. g \in UserRow \cup Pointer(UserIDs)
    <3>1. \A u \in IssuedUsers : u \in UserIDs
      BY Issued
    <3> QED BY <2>2, <3>1 DEF UserRef, Pointer
  <2>4. Unrefreshed => CredFits(g, cred)
    <3> SUFFICES ASSUME load.serial PROVE CredFits(g, cred)
      BY DEF Unrefreshed
    <3>1. UserAlone(call[c])
      BY ActiveClient
    <3> QED BY <1>3, <1>8, <3>1 DEF UserAlone
  <2> QED BY <1>6, <2>1, <2>2, <2>3, <2>4
<1> QED BY <1>7, <1>8

-----------------------------------------------------------------------------
(* What happens in the background.                                         *)

\* A step that changes the caches only, and is no step of a request.
LEMMA Background ==
  ASSUME AccountsInv, UNCHANGED <<backend, load, call, tableVars>>, CachesInv',
         Unrefreshed => /\ \A k \in KeyIDs : CachedKey(call[FirstClient], k)'
                        /\ \A p \in Creds : CachedCred(call[FirstClient], p)'
                        /\ \A n \in Nodes : listed'[n] = NoRow
  PROVE  Good
<1>1. /\ users' = users /\ names' = names /\ userObj' = userObj /\ nextUser' = nextUser
      /\ keys' = keys /\ byUser' = byUser /\ byHash' = byHash /\ keyObj' = keyObj /\ nextKey' = nextKey
      /\ call' = call /\ backend' = backend /\ load' = load
  BY DEF tableVars, userTables, keyTables
<1>2. /\ load \in Loads /\ backend \in load.on /\ call = [d \in Clients |-> call[d]]
      /\ UsersInv /\ KeysInv /\ \A d \in Clients : Request(call[d])
  BY InvParts
<1>3. UsersInv' /\ nextUser <= nextUser'
  <2>1. UsersInv'
    BY <1>1, <1>2 DEF UsersInv, StoredUsers, IssuedUsers, UserRef
  <2> QED BY <1>1, <1>2, <2>1, AccountConstants DEF UsersInv
<1>4. KeysInv' /\ nextKey <= nextKey'
  <2>1. KeysInv'
    BY <1>1, <1>2 DEF KeysInv, StoredKeys, IssuedKeys, KeyRef
  <2> QED BY <1>1, <1>2, <2>1, AccountConstants DEF KeysInv
<1>5. \A d \in Clients : Request(call[d])'
  BY <1>1, <1>2, <1>3, <1>4, InHandKept
<1>6. /\ \A ref : UserOf(ref)' = UserOf(ref)
      /\ \A u : User(u)' = User(u)
      /\ StoredUsers' = StoredUsers
  BY <1>1 DEF User, UserOf, StoredUsers
<1>7. /\ \A ref : KeyOf(ref)' = KeyOf(ref)
      /\ \A k : Key(k)' = Key(k)
      /\ \A k : Enabled(k)' <=> Enabled(k)
      /\ StoredKeys' = StoredKeys
  BY <1>1 DEF Key, KeyOf, StoredKeys, Enabled
<1>8. backend # "cassandra" \/ load.serial => OneUserPerName'
  BY <1>1, <1>6 DEF AccountsInv, OneUserPerName
<1>9. EnabledAsAsked /\ KeyIsKept
  BY <1>7 DEF EnabledAsAsked, KeyIsKept
<1>10. load.serial => Alone'
  <2> SUFFICES ASSUME load.serial PROVE Alone'
    OBVIOUS
  <2>1. Alone
    BY DEF AccountsInv
  <2>2. OneKeyPerName' /\ KeyTablesAgree'
    BY <1>1, <1>7, <2>1 DEF Alone, OneKeyPerName, KeyTablesAgree
  <2>3. UserAlone(call[FirstClient])'
    BY <1>1, <1>6, <2>1 DEF Alone, UserAlone, CredFits, User, UserOf
  <2>4. KeyAlone(call[FirstClient])'
    <3>1. \A u, n, k : NameFree(u, n, k)' <=> NameFree(u, n, k)
      BY <1>7 DEF NameFree
    <3>2. \A ref, k : KeyFits(ref, k)' <=> KeyFits(ref, k)
      BY <1>1, <1>7 DEF KeyFits
    <3>3. \A r : Spare(r)' <=> Spare(r)
      BY <1>1, <1>7 DEF Spare
    <3> QED BY <1>1, <1>7, <2>1, <3>1, <3>2, <3>3 DEF Alone, KeyAlone
  <2>5. \A d \in Clients : d # FirstClient => call'[d].at = "done"
    BY <1>1, <2>1 DEF Alone
  <2> QED BY <1>1, <2>2, <2>3, <2>4, <2>5 DEF Alone, Unrefreshed
<1> QED BY <1>1, <1>2, <1>3, <1>4, <1>5, <1>8, <1>9, <1>10 DEF Good, AccountsInv

\* Credentials expire.
LEMMA ExpireGood ==
  ASSUME AccountsInv, NEW n \in Nodes, NEW cred \in Creds, Expire(n, cred)
  PROVE  Good
<1>1. CachesInv
  BY InvParts
<1>2. /\ UNCHANGED <<backend, load, call, tableVars>> /\ keyCache' = keyCache /\ listed' = listed
      /\ nextKey' = nextKey /\ nextUser' = nextUser /\ users' = users /\ userObj' = userObj
      /\ keys' = keys /\ keyObj' = keyObj /\ call' = call /\ backend' = backend
  BY DEF Expire, tableVars, userTables, keyTables
<1>3. PICK new : new = [credCache[n] EXCEPT ![cred] = NoRow]
  OBVIOUS
<1>4. credCache' = [credCache EXCEPT ![n] = new]
  BY <1>3 DEF Expire
<1>5. credCache[n] \in [Creds -> UserRow \cup Pointer(UserIDs) \cup {NoRow}]
  BY <1>1 DEF CachesInv
<1>6. /\ new \in [Creds -> UserRow \cup Pointer(UserIDs) \cup {NoRow}]
      /\ \A p \in Creds : new[p] \in {NoRow, credCache[n][p]}
  BY <1>3, <1>5
<1>7. /\ credCache' \in [Nodes -> [Creds -> UserRow \cup Pointer(UserIDs) \cup {NoRow}]]
      /\ \A m \in Nodes, p \in Creds : credCache'[m][p] \in {NoRow, credCache[m][p]}
  BY <1>1, <1>4, <1>6 DEF CachesInv
<1>8. CachesInv'
  <2>1. \A m \in Nodes, p \in Creds : credCache'[m][p] # NoRow => \E u \in IssuedUsers' : UserRef(credCache[m][p], u)'
    <3> SUFFICES ASSUME NEW m \in Nodes, NEW p \in Creds, credCache'[m][p] # NoRow
                 PROVE  \E u \in IssuedUsers' : UserRef(credCache[m][p], u)'
      OBVIOUS
    <3>1. credCache'[m][p] = credCache[m][p]
      BY <1>7
    <3>2. PICK u \in IssuedUsers : UserRef(credCache[m][p], u)
      BY <1>1, <3>1 DEF CachesInv
    <3>3. UserRef(credCache[m][p], u)' /\ u \in IssuedUsers'
      BY <1>2, <3>1, <3>2 DEF IssuedUsers, UserRef
    <3> QED BY <3>3
  <2>2. /\ \A m \in Nodes, k \in KeyIDs : keyCache[m][k] # NoRow => HashRef(keyCache[m][k], k)' /\ k < nextKey'
        /\ \A m \in Nodes : listed[m] # NoRow =>
             \A k \in KeyIDs \cap DOMAIN listed[m] : KeyRef(listed[m][k], k)' /\ k < nextKey'
    BY <1>1, <1>2 DEF CachesInv, HashRef, KeyRef
  <2> QED BY <1>1, <1>2, <1>7, <2>1, <2>2 DEF CachesInv
<1>9. ASSUME Unrefreshed
      PROVE  /\ \A k \in KeyIDs : CachedKey(call[FirstClient], k)'
             /\ \A p \in Creds : CachedCred(call[FirstClient], p)'
             /\ \A m \in Nodes : listed'[m] = NoRow
  <2>1. /\ \A k \in KeyIDs : CachedKey(call[FirstClient], k)
        /\ \A p \in Creds : CachedCred(call[FirstClient], p)
        /\ \A m \in Nodes : listed[m] = NoRow
    BY <1>9 DEF AccountsInv, Alone, Unrefreshed
  <2>2. ASSUME NEW k \in KeyIDs PROVE CachedKey(call[FirstClient], k)'
    <3>1. CachedKey(call[FirstClient], k)
      BY <2>1
    <3> QED BY <1>2, <3>1 DEF CachedKey, KeyFits, Key, KeyOf
  <2>3. ASSUME NEW p \in Creds PROVE CachedCred(call[FirstClient], p)'
    <3>1. CASE credCache'[FirstNode][p] = NoRow
      BY <3>1 DEF CachedCred
    <3>2. CASE credCache'[FirstNode][p] # NoRow
      <4>1. credCache'[FirstNode][p] = credCache[FirstNode][p]
        BY <1>7, <3>2, AccountConstants
      <4>2. CachedCred(call[FirstClient], p)
        BY <2>1
      <4>3. PICK ref : ref = credCache[FirstNode][p]
        OBVIOUS
      <4>4. /\ UserOf(credCache[FirstNode][p])' = UserOf(ref)
            /\ CredFits(credCache[FirstNode][p], p)' <=> CredFits(ref, p)
        BY <1>2, <4>1, <4>3 DEF CredFits, User, UserOf
      <4>5. Written(call[FirstClient])' <=> Written(call[FirstClient])
        BY <1>2 DEF Written
      <4> QED BY <1>2, <3>2, <4>1, <4>2, <4>3, <4>4, <4>5 DEF CachedCred
    <3> QED BY <3>1, <3>2
  <2> QED BY <1>2, <2>1, <2>2, <2>3
<1> QED BY <1>2, <1>8, <1>9, Background

\* The refresh lists the keys that are stored.
LEMMA RefreshListGood ==
  ASSUME AccountsInv, NEW n \in Nodes, RefreshList(n)
  PROVE  Good
<1>1. CachesInv /\ KeysInv /\ backend \in Backends
  BY InvParts
<1>2. /\ UNCHANGED <<backend, load, call, tableVars>> /\ keyCache' = keyCache /\ credCache' = credCache
      /\ nextKey' = nextKey /\ nextUser' = nextUser /\ backend' = backend
  BY DEF RefreshList, tableVars, userTables, keyTables
<1>3. PICK new : new = [k \in ListAPIKeys |-> keys[k]]
  OBVIOUS
<1>4. listed' = [listed EXCEPT ![n] = new]
  <2>1. \A k : GetAPIKeyByID(k) = keys[k]
    BY <1>1, KeyReads
  <2>2. [k \in ListAPIKeys |-> GetAPIKeyByID(k)] = new
    BY <1>3, <2>1
  <2> QED BY <2>2 DEF RefreshList
<1>5. \A k \in KeyIDs \cap DOMAIN new : KeyRef(new[k], k) /\ k < nextKey
  <2>1. ListAPIKeys \subseteq StoredKeys
    BY <1>1, KeyReads
  <2> QED BY <1>1, <1>3, <2>1 DEF KeysInv
<1>6. /\ listed' = [m \in Nodes |-> listed'[m]]
      /\ listed'[n] = new /\ \A m \in Nodes : m # n => listed'[m] = listed[m]
  BY <1>1, <1>4 DEF CachesInv
<1>7. CachesInv'
  <2>1. \A m \in Nodes, p \in Creds : credCache[m][p] # NoRow => \E u \in IssuedUsers' : UserRef(credCache[m][p], u)'
    BY <1>1, <1>2 DEF CachesInv, IssuedUsers, UserRef
  <2>2. \A m \in Nodes, k \in KeyIDs : keyCache[m][k] # NoRow => HashRef(keyCache[m][k], k)' /\ k < nextKey'
    BY <1>1, <1>2 DEF CachesInv, HashRef
  <2>3. ASSUME NEW m \in Nodes, listed'[m] # NoRow, NEW k \in KeyIDs \cap DOMAIN listed'[m]
        PROVE  KeyRef(listed[m][k], k)' /\ k < nextKey'
    <3>1. CASE m = n
      BY <1>2, <1>5, <1>6, <2>3, <3>1 DEF KeyRef
    <3>2. CASE m # n
      BY <1>1, <1>2, <1>6, <2>3, <3>2 DEF KeyRef, CachesInv
    <3> QED BY <3>1, <3>2
  <2> QED BY <1>1, <1>2, <1>6, <2>1, <2>2, <2>3 DEF CachesInv
<1>8. ~Unrefreshed
  BY DEF RefreshList, Unrefreshed
<1> QED BY <1>2, <1>7, <1>8, Background

\* The refresh puts what it has listed into the cache.
LEMMA RefreshStoreGood ==
  ASSUME AccountsInv, NEW n \in Nodes, RefreshStore(n)
  PROVE  Good
<1>1. CachesInv /\ KeysInv
  BY InvParts
<1>2. /\ UNCHANGED <<backend, load, call, tableVars>> /\ credCache' = credCache
      /\ nextKey' = nextKey /\ nextUser' = nextUser /\ backend' = backend
  BY DEF RefreshStore, tableVars, userTables, keyTables
<1>3. PICK new : new = [k \in KeyIDs |-> IF k \in DOMAIN listed[n] THEN listed[n][k] ELSE NoRow]
  OBVIOUS
<1>4. keyCache' = [keyCache EXCEPT ![n] = new] /\ listed' = [listed EXCEPT ![n] = NoRow] /\ listed[n] # NoRow
  BY <1>3 DEF RefreshStore
<1>5. \A k \in KeyIDs : new[k] # NoRow => KeyRef(new[k], k) /\ k < nextKey
  BY <1>1, <1>3, <1>4 DEF CachesInv
<1>6. \A k \in KeyIDs : new[k] # NoRow => HashRef(new[k], k) /\ new[k] \in KeyRow \cup Pointer(KeyIDs)
  BY <1>5 DEF KeyRef, HashRef, Pointer
<1>7. new \in [KeyIDs -> KeyRow \cup Pointer(KeyIDs) \cup {NoRow}]
  BY <1>3, <1>6
<1>8. /\ keyCache' \in [Nodes -> [KeyIDs -> KeyRow \cup Pointer(KeyIDs) \cup {NoRow}]]
      /\ keyCache'[n] = new /\ \A m \in Nodes : m # n => keyCache'[m] = keyCache[m]
      /\ listed' = [m \in Nodes |-> listed'[m]]
      /\ listed'[n] = NoRow /\ \A m \in Nodes : m # n => listed'[m] = listed[m]
  BY <1>1, <1>4, <1>7 DEF CachesInv
<1>9. CachesInv'
  <2>1. \A m \in Nodes, p \in Creds : credCache[m][p] # NoRow => \E u \in IssuedUsers' : UserRef(credCache[m][p], u)'
    BY <1>1, <1>2 DEF CachesInv, IssuedUsers, UserRef
  <2>2. ASSUME NEW m \in Nodes, NEW k \in KeyIDs, keyCache'[m][k] # NoRow
        PROVE  HashRef(keyCache[m][k], k)' /\ k < nextKey'
    <3>1. CASE m = n
      BY <1>2, <1>5, <1>6, <1>8, <2>2, <3>1 DEF HashRef
    <3>2. CASE m # n
      BY <1>1, <1>2, <1>8, <2>2, <3>2 DEF HashRef, CachesInv
    <3> QED BY <3>1, <3>2
  <2>3. ASSUME NEW m \in Nodes, listed'[m] # NoRow, NEW k \in KeyIDs \cap DOMAIN listed'[m]
        PROVE  KeyRef(listed[m][k], k)' /\ k < nextKey'
    <3>1. m # n
      BY <1>8, <2>3
    <3> QED BY <1>1, <1>2, <1>8, <2>3, <3>1 DEF KeyRef, CachesInv
  <2> QED BY <1>1, <1>2, <1>8, <2>1, <2>2, <2>3 DEF CachesInv
<1>10. ~Unrefreshed
  BY <1>4 DEF Unrefreshed, AccountsInv, Alone
<1> QED BY <1>2, <1>9, <1>10, Background

-----------------------------------------------------------------------------
(* The backends write users.                                               *)

\* An update in memory finds that the user is gone, deleted by another request.
LEMMA UserGone ==
  ASSUME AccountsInv, NEW c \in ActiveClients, UNCHANGED <<backend, load>>, UNCHANGED <<tableVars, caches>>,
         ~load.serial, call[c].at = "updateUser", NEW err, Reply(c, err)
  PROVE  Good
<1>1. Moves(c) /\ Request(call[c])' /\ call'[c].at = "done"
  BY ReplyGood
<1>2. users' = users /\ names' = names /\ userObj' = userObj /\ nextUser' = nextUser /\ UNCHANGED keyTables
  BY DEF tableVars, userTables
<1>3. UsersInv' /\ nextUser <= nextUser'
  <2>1. UsersInv
    BY InvParts
  <2>2. UsersInv'
    BY <1>2, <2>1 DEF UsersInv, StoredUsers, IssuedUsers, UserRef
  <2> QED BY <1>2, <2>1, <2>2, AccountConstants DEF UsersInv
<1>4. backend # "cassandra" => OneUserPerName'
  <2>1. (\A u : User(u)' = User(u)) /\ StoredUsers' = StoredUsers
    BY <1>2 DEF User, UserOf, StoredUsers
  <2> QED BY <1>2, <2>1 DEF AccountsInv, OneUserPerName
<1>5. UserSide(c)
  BY <1>3, <1>4 DEF UserSide, Unrefreshed
<1> QED BY <1>1, <1>2, <1>5, UserStep DEF KeyStages

\* A user is deleted in a database with foreign keys: her keys lose their owner.
LEMMA KeysOrphaned ==
  ASSUME AccountsInv, NEW c \in ActiveClients, UNCHANGED <<backend, load>>, UNCHANGED caches,
         backend \in {"postgres", "mysql"}, call[c].at = "deleteUser", call'[c].at = "done", NEW u0,
         keys' = [k \in KeyIDs |-> IF keys[k] # NoRow /\ keys[k].user = u0 THEN [keys[k] EXCEPT !.user = 0] ELSE keys[k]],
         UNCHANGED <<byUser, byHash, keyObj, nextKey>>
  PROVE  KeySide(c)
<1>1. KeysInv /\ CachesInv
  BY InvParts
<1>2. \A k \in KeyIDs : Key(k) = keys[k] /\ Key(k)' = keys'[k]
  BY DEF Key, KeyOf
<1>3. ASSUME NEW k \in KeyIDs, keys[k] # NoRow
      PROVE  /\ keys'[k] \in KeyRow /\ keys'[k] # NoRow /\ keys'[k].id = k /\ keys[k].id = k
             /\ keys'[k].name = keys[k].name /\ keys'[k].enabled = keys[k].enabled
             /\ keys'[k].user \in {0, keys[k].user}
  <2>1. keys[k] \in KeyRow /\ keys[k].id = k
    BY <1>1, <1>2, <1>3, KeyStored
  <2>2. PICK row : row = [keys[k] EXCEPT !.user = 0]
    OBVIOUS
  <2>3. row \in KeyRow /\ row.id = k /\ row.name = keys[k].name /\ row.enabled = keys[k].enabled /\ row.user = 0
    <3>1. 0 \in 0..MaxUser
      BY AccountConstants
    <3> QED BY <2>1, <2>2, <3>1 DEF KeyRow
  <2>4. keys'[k] \in {row, keys[k]}
    BY <2>2
  <2> QED BY <2>1, <2>3, <2>4, AccountConstants
<1>4. \A k \in KeyIDs : keys[k] = NoRow => keys'[k] = NoRow
  OBVIOUS
<1>5. KeysInv' /\ nextKey <= nextKey'
  <2>1. keys' \in [KeyIDs -> KeyRow \cup Pointer(KeyIDs) \cup {NoRow}]
    BY <1>3, <1>4
  <2>2. \A k \in KeyIDs : keys'[k] # NoRow => KeyRef(keys[k], k)' /\ k < nextKey'
    <3> SUFFICES ASSUME NEW k \in KeyIDs, keys'[k] # NoRow PROVE KeyRef(keys[k], k)' /\ k < nextKey'
      OBVIOUS
    <3>1. keys[k] # NoRow
      BY <1>4
    <3>2. k < nextKey
      BY <1>1, <3>1, KeyStored
    <3> QED BY <1>3, <3>1, <3>2 DEF KeyRef
  <2> QED BY <1>1, <2>1, <2>2, AccountConstants DEF KeysInv, StoredKeys
<1>6. ASSUME NEW k \in KeyIDs PROVE Enabled(k)' <=> Enabled(k)
  <2>1. CASE keys[k] = NoRow
    BY <1>4, <2>1 DEF Enabled
  <2>2. CASE keys[k] # NoRow
    <3>1. keys'[k] # NoRow /\ Key(k)'.enabled = Key(k).enabled
      BY <1>2, <1>3, <2>2
    <3> QED BY <2>2, <3>1 DEF Enabled
  <2> QED BY <2>1, <2>2
<1>7. load.serial => OneKeyPerName' /\ KeyTablesAgree' /\ KeyAlone(call[c])'
  <2> SUFFICES ASSUME load.serial PROVE OneKeyPerName' /\ KeyTablesAgree' /\ KeyAlone(call[c])'
    OBVIOUS
  <2>1. OneKeyPerName
    BY ActiveClient
  <2>2. OneKeyPerName'
    <3>1. StoredKeys' = StoredKeys
      <4>1. StoredKeys' = {k \in KeyIDs : keys'[k] # NoRow}
        BY DEF StoredKeys
      <4> QED BY <1>3, <1>4, <4>1 DEF StoredKeys
    <3> SUFFICES ASSUME NEW j \in StoredKeys, NEW k \in StoredKeys, Key(j)'.user = Key(k)'.user,
                        Key(j)'.user # 0, Key(j)'.name = Key(k)'.name
                 PROVE  j = k
      BY <3>1 DEF OneKeyPerName
    <3>2. j \in KeyIDs /\ k \in KeyIDs /\ keys[j] # NoRow /\ keys[k] # NoRow
      BY DEF StoredKeys
    <3>3. /\ Key(j)'.user \in {0, Key(j).user} /\ Key(j)'.name = Key(j).name
          /\ Key(k)'.user \in {0, Key(k).user} /\ Key(k)'.name = Key(k).name
      <4>1. Key(j)' = keys'[j] /\ Key(j) = keys[j] /\ Key(k)' = keys'[k] /\ Key(k) = keys[k]
        BY <1>2, <3>2
      <4> QED BY <1>3, <3>2, <4>1
    <3> QED BY <2>1, <3>3 DEF OneKeyPerName
  <2> QED BY <2>2 DEF KeyTablesAgree, KeyAlone
<1>8. Unrefreshed => \A k \in KeyIDs : CachedKey(call[c], k)'
  <2> SUFFICES ASSUME Unrefreshed, NEW k \in KeyIDs, keyCache[FirstNode][k] # NoRow PROVE CachedKey(call[c], k)'
    BY DEF CachedKey, caches
  <2>1. CachedKey(call[c], k)
    BY ActiveClient DEF Unrefreshed
  <2>2. PICK ref : ref = keyCache[FirstNode][k]
    OBVIOUS
  <2>3. KeyFits(ref, k)
    BY <2>1, <2>2 DEF CachedKey
  <2>4. keyCache' = keyCache
    BY DEF caches
  <2>5. KeyOf(ref) = ref /\ KeyOf(keyCache[FirstNode][k])' = ref
    BY <2>2, <2>4 DEF KeyOf
  <2>6. KeyFits(keyCache[FirstNode][k], k)'
    <3>1. keys[k] # NoRow /\ ref.id = k /\ ref.enabled = keys[k].enabled /\ ref.name = keys[k].name
      BY <1>2, <2>3, <2>5 DEF KeyFits
    <3>2. keys'[k] # NoRow /\ ref.enabled = Key(k)'.enabled /\ ref.name = Key(k)'.name
      BY <1>2, <1>3, <3>1
    <3> QED BY <2>5, <3>1, <3>2 DEF KeyFits
  <2> QED BY <2>3, <2>5, <2>6 DEF CachedKey, KeyFits
<1>9. EnabledAsAsked /\ KeyIsKept
  BY <1>6 DEF EnabledAsAsked, KeyIsKept
<1> QED BY <1>5, <1>7, <1>8, <1>9 DEF KeySide

\* The four backends create a user.
LEMMA UserCreates ==
  ASSUME AccountsInv, NEW c \in ActiveClients, UNCHANGED <<backend, load>>, UNCHANGED caches,
         \/ backend = "memory" /\ MemCreateUser(c)
         \/ backend \in {"postgres", "mysql"} /\ PgCreateUser(c)
         \/ backend = "cassandra" /\ CasCreateUser(c)
  PROVE  Good
<1>1. Request(call[c]) /\ UsersInv
  BY ActiveClient, InvParts
<1>2. ASSUME NEW clash \in BOOLEAN, InsertUser(c, clash), UNCHANGED keyTables, call[c].at \in {"createUser", "putUser"},
             (backend # "cassandra" \/ load.serial) /\ ~clash =>
               \A u \in StoredUsers : User(u).name # call[c].in.rec.name
      PROVE  Good
  <2>1. CASE clash
    <3>1. Reply(c, "exists") /\ UNCHANGED userTables
      BY <1>2, <2>1 DEF InsertUser
    <3>2. UNCHANGED <<tableVars, caches>>
      BY <1>2, <3>1 DEF tableVars
    <3> QED BY <1>2, <3>1, <3>2, Answers
  <2>2. CASE ~clash
    <3>1. InsertUser(c, FALSE)
      BY <1>2, <2>2
    <3> QED BY <1>2, <2>2, <3>1, UserInserted
  <2> QED BY <2>1, <2>2
<1>3. CASE backend = "memory" /\ MemCreateUser(c)
  <2>1. PICK clash \in BOOLEAN : clash <=> names[call[c].in.rec.name] # 0
    OBVIOUS
  <2>2. call[c].at = "createUser" /\ InsertUser(c, clash) /\ UNCHANGED keyTables
    BY <1>3, <2>1 DEF MemCreateUser, InsertUser
  <2>3. ASSUME ~clash, NEW u \in StoredUsers PROVE User(u).name # call[c].in.rec.name
    <3>1. names[User(u).name] = u /\ u # 0
      BY <1>3, AccountConstants DEF AccountsInv, OneUserPerName, StoredUsers, UserIDs
    <3> QED BY <2>1, <2>3, <3>1
  <2> QED BY <1>2, <2>2, <2>3
<1>4. CASE backend \in {"postgres", "mysql"} /\ PgCreateUser(c)
  <2>1. PICK clash \in BOOLEAN : clash <=> Taken(call[c].in.rec)
    OBVIOUS
  <2>2. call[c].at = "createUser" /\ InsertUser(c, clash) /\ UNCHANGED keyTables
    BY <1>4, <2>1 DEF PgCreateUser, InsertUser
  <2>3. ASSUME ~clash, NEW u \in StoredUsers PROVE User(u).name # call[c].in.rec.name
    <3>1. call[c].in.rec.id = 0
      BY <1>1, <2>2 DEF Request, Stage, Params, NewUser
    <3>2. u \in StoredUsers \ {call[c].in.rec.id}
      BY <2>3, <3>1, AccountConstants DEF StoredUsers, UserIDs
    <3>3. User(u) = users[u]
      BY <1>4 DEF User, UserOf
    <3> QED BY <2>1, <2>3, <3>2, <3>3 DEF Taken
  <2> QED BY <1>2, <2>2, <2>3
<1>5. CASE backend = "cassandra" /\ CasCreateUser(c)
  <2>1. CASE call[c].at = "createUser"
    BY <1>5, <2>1, CasUserReads
  <2>2. CASE call[c].at # "createUser"
    <3>1. call[c].at = "putUser" /\ InsertUser(c, FALSE) /\ UNCHANGED keyTables
      BY <1>5, <2>2 DEF CasCreateUser
    <3>2. load.serial => \A u \in StoredUsers : User(u).name # call[c].in.rec.name
      <4> SUFFICES ASSUME load.serial PROVE \A u \in StoredUsers : User(u).name # call[c].in.rec.name
        OBVIOUS
      <4>1. UserAlone(call[c])
        BY ActiveClient
      <4> QED BY <3>1, <4>1 DEF UserAlone
    <3> QED BY <1>5, <3>1, <3>2, UserInserted
  <2> QED BY <2>1, <2>2
<1> QED BY <1>3, <1>4, <1>5

\* The four backends update a user.
LEMMA UserUpdates ==
  ASSUME AccountsInv, NEW c \in ActiveClients, UNCHANGED <<backend, load>>, UNCHANGED caches,
         \/ backend = "memory" /\ MemUpdateUser(c)
         \/ backend \in {"postgres", "mysql"} /\ PgUpdateUser(c)
         \/ backend = "cassandra" /\ CasUpdateUser(c)
  PROVE  Good
<1>1. Request(call[c]) /\ UsersInv
  BY ActiveClient, InvParts
<1>2. PICK id, g : id = call[c].in.id /\ g = call[c].got
  OBVIOUS
<1>3. call[c].at \in {"updateUser", "writeUser"}
  BY DEF MemUpdateUser, PgUpdateUser, CasUpdateUser
<1>4. UserRef(g, id) /\ id \in UserIDs /\ id < nextUser
  BY <1>1, <1>2, <1>3 DEF Request, Stage, Params, InHand, UserTarget
<1>5. UserOf(g).id = id /\ (backend # "memory" => g.id = id)
  BY <1>1, <1>4, UserOfRef DEF UserOf
<1>6. ASSUME NEW when \in BOOLEAN, NEW err, ReplaceUser(c, when, err), UNCHANGED keyTables, backend # "cassandra",
             when => users[id] # NoRow,
             ~when => (load.serial => backend # "memory"),
             when /\ backend \in {"postgres", "mysql"} => \A u \in StoredUsers : u # id => User(u).name # g.name
      PROVE  Good
  <2>1. CASE ~when
    <3>1. UNCHANGED <<tableVars, caches>> /\ Reply(c, err)
      BY <1>6, <2>1 DEF ReplaceUser, tableVars, userTables
    <3>2. CASE backend = "memory"
      <4>1. ~load.serial /\ call[c].at = "updateUser"
        BY <1>6, <2>1, <3>2 DEF MemUpdateUser
      <4> QED BY <3>1, <4>1, UserGone
    <3>3. CASE backend # "memory"
      BY <1>3, <3>1, <3>3, Answers
    <3> QED BY <3>2, <3>3
  <2>2. CASE when
    <3>1. /\ users' = [users EXCEPT ![id] = g] /\ Goto(c, "invalidateUser", NoRow)
          /\ names' = names /\ userObj' = userObj /\ nextUser' = nextUser
      BY <1>2, <1>5, <1>6, <2>2 DEF ReplaceUser
    <3> QED BY <1>2, <1>3, <1>6, <2>2, <3>1, UserReplaced
  <2> QED BY <2>1, <2>2
<1>7. CASE backend = "memory" /\ MemUpdateUser(c)
  <2>1. PICK when \in BOOLEAN : when <=> users[id] # NoRow
    OBVIOUS
  <2>2. ReplaceUser(c, when, "notFound") /\ UNCHANGED keyTables /\ call[c].at = "updateUser"
    BY <1>2, <1>5, <1>7, <2>1 DEF MemUpdateUser, ReplaceUser
  <2>3. load.serial => when
    <3> SUFFICES ASSUME load.serial PROVE when
      OBVIOUS
    <3>1. UserAlone(call[c])
      BY ActiveClient
    <3> QED BY <1>2, <2>1, <2>2, <3>1 DEF UserAlone
  <2> QED BY <1>6, <1>7, <2>1, <2>2, <2>3
<1>8. CASE backend \in {"postgres", "mysql"} /\ PgUpdateUser(c)
  <2>1. PICK when \in BOOLEAN : when <=> users[id] # NoRow /\ ~Taken(g)
    OBVIOUS
  <2>2. PICK err : err = IF users[id] = NoRow THEN "notFound" ELSE "exists"
    OBVIOUS
  <2>3. ReplaceUser(c, when, err) /\ UNCHANGED keyTables
    BY <1>2, <1>5, <1>8, <2>1, <2>2 DEF PgUpdateUser, ReplaceUser
  <2>4. when => \A u \in StoredUsers : u # id => User(u).name # g.name
    BY <1>5, <1>8, <2>1 DEF Taken, User, UserOf
  <2> QED BY <1>6, <1>8, <2>1, <2>3, <2>4
<1>9. CASE backend = "cassandra" /\ CasUpdateUser(c)
  <2>1. CASE call[c].at = "updateUser"
    BY <1>9, <2>1, CasUserReads
  <2>2. CASE call[c].at # "updateUser"
    <3>1. /\ users' = [users EXCEPT ![id] = g] /\ names' = [names EXCEPT ![g.name] = id]
          /\ Goto(c, "invalidateUser", NoRow)
          /\ userObj' = userObj /\ nextUser' = nextUser /\ UNCHANGED keyTables
      BY <1>2, <1>5, <1>9, <2>2 DEF CasUpdateUser
    <3>2. load.serial => users[id] # NoRow
      <4> SUFFICES ASSUME load.serial PROVE users[id] # NoRow
        OBVIOUS
      <4>1. UserAlone(call[c])
        BY ActiveClient
      <4> QED BY <1>2, <1>3, <4>1 DEF UserAlone
    <3> QED BY <1>2, <1>3, <1>9, <3>1, <3>2, UserReplaced
  <2> QED BY <2>1, <2>2
<1> QED BY <1>7, <1>8, <1>9

\* The four backends delete a user.
LEMMA UserDeletes ==
  ASSUME AccountsInv, NEW c \in ActiveClients, UNCHANGED <<backend, load>>, UNCHANGED caches,
         \/ backend = "memory" /\ MemDeleteUser(c)
         \/ backend \in {"postgres", "mysql"} /\ PgDeleteUser(c)
         \/ backend = "cassandra" /\ CasDeleteUser(c)
  PROVE  Good
<1>1. Request(call[c]) /\ UsersInv
  BY ActiveClient, InvParts
<1>2. PICK id : id = call[c].in.id
  OBVIOUS
<1>3. call[c].at \in {"deleteUser", "dropUser"}
  BY DEF MemDeleteUser, PgDeleteUser, CasDeleteUser
<1>4. call[c].op = "DeleteUser" /\ id \in UserIDs
  BY <1>1, <1>2, <1>3 DEF Request, Stage, Params
<1>5. CASE backend = "memory" /\ MemDeleteUser(c)
  <2>1. CASE users[id] = NoRow
    <3>1. Reply(c, "notFound") /\ UNCHANGED <<tableVars, caches>>
      BY <1>2, <1>5, <2>1 DEF MemDeleteUser, tableVars
    <3> QED BY <1>3, <3>1, Answers
  <2>2. CASE users[id] # NoRow
    <3>1. PICK name : name = User(id).name
      OBVIOUS
    <3>2. /\ users' = [users EXCEPT ![id] = NoRow] /\ names' = [names EXCEPT ![name] = 0]
          /\ Reply(c, "nil") /\ userObj' = userObj /\ nextUser' = nextUser /\ UNCHANGED keyTables
      BY <1>2, <1>5, <2>2, <3>1 DEF MemDeleteUser
    <3>3. name \in UserNames
      <4>1. User(id) \in UserRow
        BY <1>1, <1>4, <2>2, UserStored
      <4> QED BY <3>1, <4>1 DEF UserRow
    <3>4. Moves(c) /\ Request(call[c])' /\ call'[c].at = "done"
      BY <3>2, ReplyGood
    <3>5. UserSide(c)
      BY <1>2, <1>3, <1>5, <2>2, <3>1, <3>2, <3>3, <3>4, UserDropped
    <3> QED BY <1>3, <3>2, <3>4, <3>5, UserStep DEF KeyStages
  <2> QED BY <2>1, <2>2
<1>6. CASE backend \in {"postgres", "mysql"} /\ PgDeleteUser(c)
  <2>1. PICK err : err = IF users[id] = NoRow THEN "notFound" ELSE "nil"
    OBVIOUS
  <2>2. /\ call[c].at = "deleteUser" /\ users' = [users EXCEPT ![id] = NoRow] /\ Reply(c, err)
        /\ names' = names /\ userObj' = userObj /\ nextUser' = nextUser
        /\ UNCHANGED <<byUser, byHash, keyObj, nextKey>>
        /\ keys' = [k \in KeyIDs |-> IF keys[k] # NoRow /\ keys[k].user = id
                                     THEN [keys[k] EXCEPT !.user = 0] ELSE keys[k]]
    BY <1>2, <1>6, <2>1 DEF PgDeleteUser
  <2>3. Moves(c) /\ Request(call[c])' /\ call'[c].at = "done"
    BY <2>2, ReplyGood
  <2>4. PICK name \in UserNames : TRUE
    BY AccountConstants
  <2>5. UserSide(c)
    BY <1>2, <1>3, <1>6, <2>2, <2>3, UserDropped
  <2>6. KeySide(c)
    BY <1>6, <2>2, <2>3, KeysOrphaned
  <2>7. CachesInv'
    BY <2>5, <2>6, InvParts, CachesRest DEF UserSide, KeySide
  <2>8. listed' = listed
    BY DEF caches
  <2> QED BY <2>3, <2>5, <2>6, <2>7, <2>8, StepInv DEF Good, KeySide
<1>7. CASE backend = "cassandra" /\ CasDeleteUser(c)
  <2>1. CASE call[c].at = "deleteUser"
    BY <1>7, <2>1, CasUserReads
  <2>2. CASE call[c].at # "deleteUser"
    <3>1. PICK name : name = call[c].got.name
      OBVIOUS
    <3>2. /\ call[c].at = "dropUser" /\ users' = [users EXCEPT ![id] = NoRow] /\ names' = [names EXCEPT ![name] = 0]
          /\ Reply(c, "nil") /\ userObj' = userObj /\ nextUser' = nextUser /\ UNCHANGED keyTables
      BY <1>2, <1>7, <2>2, <3>1 DEF CasDeleteUser
    <3>3. name \in UserNames
      <4>1. call[c].got \in UserRow
        BY <1>1, <1>7, <3>2 DEF Request, InHand, UserRef
      <4> QED BY <3>1, <4>1 DEF UserRow
    <3>4. Moves(c) /\ Request(call[c])' /\ call'[c].at = "done"
      BY <3>2, ReplyGood
    <3>5. load.serial => users[id] # NoRow /\ User(id).name = name
      <4> SUFFICES ASSUME load.serial PROVE users[id] # NoRow /\ User(id).name = name
        OBVIOUS
      <4>1. UserAlone(call[c])
        BY ActiveClient
      <4> QED BY <1>2, <1>7, <3>1, <3>2, <4>1 DEF UserAlone, User, UserOf
    <3>6. UserSide(c)
      BY <1>2, <1>3, <1>7, <3>2, <3>3, <3>4, <3>5, UserDropped
    <3> QED BY <3>2, <3>4, <3>6, UserStep DEF KeyStages
  <2> QED BY <2>1, <2>2
<1> QED BY <1>5, <1>6, <1>7

-----------------------------------------------------------------------------
(* Keys are written.                                                       *)

\* A step that concerns keys only.
LEMMA KeyStep ==
  ASSUME AccountsInv, NEW c \in ActiveClients, UNCHANGED <<backend, load>>, UNCHANGED userTables, UNCHANGED caches,
         Moves(c), Request(call[c])', KeySide(c), call[c].at \notin {"invalidateUser", "updateUser"},
         call'[c].at \notin UserStages
  PROVE  Good
<1>1. UNCHANGED credCache /\ listed' = listed
  BY DEF caches
<1>2. UserSide(c)
  BY <1>1, UserSideRest
<1>3. CachesInv'
  BY <1>2, InvParts, CachesRest DEF UserSide, KeySide
<1> QED BY <1>1, <1>2, <1>3, StepInv DEF Good, KeySide

\* The keys' side of a step that writes one key.
LEMMA KeyWritten ==
  ASSUME AccountsInv, NEW c \in ActiveClients, UNCHANGED <<backend, load>>, UNCHANGED keyCache,
         NEW k0 \in KeyIDs, KeysInv', nextKey <= nextKey',
         \A k \in KeyIDs : k # k0 => keys'[k] = keys[k] /\ keyObj'[k] = keyObj[k],
         load.serial => KeyTablesAgree' /\ KeyAlone(call[c])',
         load.serial /\ keys'[k0] # NoRow => NameFree(Key(k0)'.user, Key(k0)'.name, k0),
         Undisturbed /\ keys[k0] # NoRow /\ ~Enabled(k0) /\ Enabled(k0)' =>
           call[c].op = "UpdateAPIKey" /\ call[c].in.change = [enabled |-> TRUE],
         load.serial /\ Enabled(k0) /\ ~Enabled(k0)' /\ call[c].op = "RotateAPIKey" =>
           Spare(call[c]) /\ call[c].in.id = k0,
         Unrefreshed => CachedKey(call[c], k0)',
         call[c].at # "invalidateKey", call'[c].at \notin {"deleteKey", "dropKey"}
  PROVE  KeySide(c)
<1>1. KeysInv /\ CachesInv /\ c \in Clients /\ (load.serial => c = FirstClient)
  BY InvParts, ActiveClient
<1>2. ASSUME NEW k \in KeyIDs, k # k0, keys[k] # NoRow PROVE Key(k)' = Key(k)
  <2>1. keys'[k] = keys[k] /\ keyObj'[k] = keyObj[k]
    BY <1>2
  <2>2. backend = "memory" => keys[k].ptr = k
    <3>1. KeyRef(keys[k], k)
      BY <1>1, <1>2, KeyStored
    <3> QED BY <3>1 DEF KeyRef
  <2> QED BY <2>1, <2>2 DEF Key, KeyOf
<1>3. ASSUME NEW k \in KeyIDs, k # k0 PROVE Enabled(k)' <=> Enabled(k)
  <2>1. keys'[k] = keys[k]
    BY <1>3
  <2>2. keys[k] # NoRow => Key(k)' = Key(k)
    BY <1>2, <1>3
  <2> QED BY <2>1, <2>2 DEF Enabled
<1>4. load.serial => OneKeyPerName'
  <2> SUFFICES ASSUME load.serial, NEW j \in StoredKeys', NEW k \in StoredKeys', j # k,
                      Key(j)'.user = Key(k)'.user, Key(j)'.user # 0, Key(j)'.name = Key(k)'.name
               PROVE  FALSE
    BY DEF OneKeyPerName
  <2>1. OneKeyPerName
    BY ActiveClient
  <2>2. j \in KeyIDs /\ k \in KeyIDs /\ keys'[j] # NoRow /\ keys'[k] # NoRow
    BY DEF StoredKeys
  <2>3. j # k0 => j \in StoredKeys /\ Key(j)' = Key(j)
    BY <1>2, <2>2 DEF StoredKeys
  <2>4. k # k0 => k \in StoredKeys /\ Key(k)' = Key(k)
    BY <1>2, <2>2 DEF StoredKeys
  <2>5. CASE j # k0 /\ k # k0
    BY <2>1, <2>3, <2>4, <2>5 DEF OneKeyPerName
  <2>6. CASE j = k0
    <3>1. NameFree(Key(k0)'.user, Key(k0)'.name, k0)
      BY <2>2, <2>6
    <3> QED BY <2>4, <2>6, <3>1 DEF NameFree
  <2>7. CASE k = k0
    <3>1. NameFree(Key(k0)'.user, Key(k0)'.name, k0)
      BY <2>2, <2>7
    <3> QED BY <2>3, <2>7, <3>1 DEF NameFree
  <2> QED BY <2>5, <2>6, <2>7
<1>5. Unrefreshed => \A k \in KeyIDs : CachedKey(call[c], k)'
  <2> SUFFICES ASSUME Unrefreshed, NEW k \in KeyIDs, k # k0, keyCache[FirstNode][k] # NoRow PROVE CachedKey(call[c], k)'
    BY DEF CachedKey
  <2>1. PICK ref : ref = keyCache[FirstNode][k]
    OBVIOUS
  <2>2. CachedKey(call[c], k) /\ HashRef(ref, k)
    BY <1>1, <2>1, ActiveClient, AccountConstants DEF Unrefreshed, CachesInv
  <2>3. KeyFits(ref, k) /\ KeyOf(ref).id = k /\ keys[k] # NoRow
    BY <2>1, <2>2 DEF CachedKey, KeyFits
  <2>4. keys'[k] = keys[k] /\ keyObj'[k] = keyObj[k] /\ Key(k)' = Key(k)
    BY <1>2, <2>3
  <2>5. KeyOf(keyCache[FirstNode][k])' = KeyOf(ref)
    BY <2>1, <2>2, <2>4 DEF KeyOf, HashRef
  <2>6. KeyFits(keyCache[FirstNode][k], k)'
    BY <2>3, <2>4, <2>5 DEF KeyFits
  <2> QED BY <2>3, <2>5, <2>6 DEF CachedKey
<1>6. EnabledAsAsked
  <2> SUFFICES ASSUME Undisturbed, NEW k \in KeyIDs, keys[k] # NoRow, ~Enabled(k), Enabled(k)'
               PROVE  call[c].op = "UpdateAPIKey" /\ call[c].in.change = [enabled |-> TRUE]
    BY <1>1 DEF EnabledAsAsked
  <2>1. k = k0
    BY <1>3
  <2> QED BY <2>1
<1>7. KeyIsKept
  <2> SUFFICES ASSUME load.serial, NEW k \in KeyIDs, Enabled(k), ~Enabled(k)',
                      NEW d \in Clients, call[d].op = "RotateAPIKey", call[d].at # "done"
               PROVE  \E j \in KeyIDs \ {k} : Enabled(j)' /\ Key(j)'.user = Key(k).user
    BY DEF KeyIsKept
  <2>1. k = k0
    BY <1>3
  <2>2. d = c
    BY <1>1 DEF AccountsInv, Alone
  <2>3. Spare(call[c]) /\ call[c].in.id = k
    BY <2>1, <2>2
  <2>4. PICK j \in KeyIDs \ {k} : Enabled(j) /\ Key(j).user = Key(k).user
    BY <2>3 DEF Spare
  <2>5. Enabled(j)' /\ Key(j)' = Key(j)
    <3>1. j # k0 /\ j \in KeyIDs /\ keys[j] # NoRow
      BY <2>1, <2>4 DEF Enabled
    <3> QED BY <1>2, <1>3, <2>4, <3>1
  <2> QED BY <2>4, <2>5
<1> QED BY <1>4, <1>5, <1>6, <1>7 DEF KeySide

\* A change leaves the ID and the owner of a key alone, and one field besides.
LEMMA ChangedKey ==
  ASSUME NEW row \in KeyRow, NEW change \in KeyChange
  PROVE  /\ Changed(row, change) \in KeyRow
         /\ Changed(row, change).id = row.id /\ Changed(row, change).user = row.user
         /\ "name" \notin DOMAIN change => Changed(row, change).name = row.name
         /\ "name" \in DOMAIN change => Changed(row, change).name = change.name
         /\ Changed(row, change).enabled /\ ~row.enabled => change = [enabled |-> TRUE]
<1>1. DOMAIN row = {"id", "user", "name", "enabled"}
  BY DEF KeyRow
<1>2. DOMAIN change \in {{"enabled"}, {"name"}}
  BY DEF KeyChange
<1>3. /\ "enabled" \in DOMAIN change => change["enabled"] \in BOOLEAN /\ change = [enabled |-> change["enabled"]]
      /\ "name" \in DOMAIN change => change["name"] \in KeyNames
  BY DEF KeyChange
<1>4. PICK new : new = Changed(row, change)
  OBVIOUS
<1>5. new = [f \in {"id", "user", "name", "enabled"} |-> IF f \in DOMAIN change THEN change[f] ELSE row[f]]
  BY <1>1, <1>4 DEF Changed
<1>6. row.id \in 0..MaxKey /\ row.user \in 0..MaxUser /\ row.name \in KeyNames \cup NewNames \cup {NoRow} /\ row.enabled \in BOOLEAN
  BY DEF KeyRow
<1>7. /\ new.id = row.id /\ new.user = row.user
      /\ new.name = (IF "name" \in DOMAIN change THEN change["name"] ELSE row.name)
      /\ new.enabled = (IF "enabled" \in DOMAIN change THEN change["enabled"] ELSE row.enabled)
  BY <1>2, <1>5
<1>8. new = [id |-> new.id, user |-> new.user, name |-> new.name, enabled |-> new.enabled]
  BY <1>5
<1>9. new.name \in KeyNames \cup NewNames \cup {NoRow} /\ new.enabled \in BOOLEAN
  BY <1>3, <1>6, <1>7
<1>10. new \in KeyRow
  BY <1>6, <1>7, <1>8, <1>9 DEF KeyRow
<1>11. new.enabled /\ ~row.enabled => change = [enabled |-> TRUE]
  BY <1>3, <1>6, <1>7
<1> QED BY <1>4, <1>7, <1>10, <1>11

\* An update or a revocation sets fields of the key it has read, in memory those of
\* the stored record.
LEMMA KeyFetched ==
  ASSUME AccountsInv, NEW c \in ActiveClients, UNCHANGED <<backend, load>>, UNCHANGED userTables, UNCHANGED caches,
         call[c].op \in {"UpdateAPIKey", "RevokeAPIKey", "RotateAPIKey"},
         call[c].at \in {"getKey", "rename", "revoke"},
         NEW ref, KeyRef(ref, call[c].in.id), load.serial => ref = keys[call[c].in.id] /\ ref # NoRow,
         NEW row \in KeyRow, row.id = call[c].in.id, row.user = KeyOf(ref).user,
         load.serial => NameFree(row.user, row.name, call[c].in.id),
         row.enabled /\ ~KeyOf(ref).enabled =>
           call[c].op = "UpdateAPIKey" /\ call[c].in.change = [enabled |-> TRUE],
         WithKey(c, "updateKey", ref, row)
  PROVE  Good
<1>1. Request(call[c]) /\ UsersInv /\ KeysInv /\ backend \in Backends /\ CachesInv
  BY ActiveClient, InvParts
<1>2. PICK id : id = call[c].in.id
  OBVIOUS
<1>3. id \in KeyIDs /\ id < nextKey
  BY <1>1, <1>2 DEF Request, Params, InHand, KeyTarget
<1>4. /\ Goto(c, "updateKey", Held(row))
      /\ keyObj' = IF backend = "memory" THEN [keyObj EXCEPT ![ref.ptr] = row] ELSE keyObj
      /\ keys' = keys /\ byUser' = byUser /\ byHash' = byHash /\ nextKey' = nextKey
  BY DEF WithKey
<1>5. Stage([op |-> call[c].op, at |-> "updateKey"])
  BY <1>1 DEF Stage
<1>6. call[c].op = "RotateAPIKey" => call[c].at = "revoke"
  BY <1>1 DEF Request, Stage
<1>7. load.serial /\ call[c].op = "RotateAPIKey" => Spare(call[c])
  <2> SUFFICES ASSUME load.serial, call[c].op = "RotateAPIKey" PROVE Spare(call[c])
    OBVIOUS
  <2>1. KeyAlone(call[c])
    BY ActiveClient
  <2> QED BY <1>6, <2>1 DEF KeyAlone
<1>8. CASE backend # "memory"
  <2>1. Goto(c, "updateKey", row)
    BY <1>4, <1>8 DEF Held
  <2>2. /\ call'[c].op = call[c].op /\ call'[c].at = "updateKey" /\ call'[c].in = call[c].in
        /\ call'[c].got = row
    BY <2>1, GotoKeeps
  <2>3. UNCHANGED <<tableVars, caches>>
    BY <1>4, <1>8 DEF tableVars, keyTables
  <2>4. InHand(call'[c])
    BY <1>1, <1>2, <1>8, <2>2 DEF Request, InHand, KeyRef
  <2>5. load.serial => UserAlone(call'[c]) /\ KeyAlone(call'[c])
    <3> SUFFICES ASSUME load.serial PROVE UserAlone(call'[c]) /\ KeyAlone(call'[c])
      OBVIOUS
    <3>1. KeyOf(call'[c].got) = row /\ KeyOf(ref) = Key(id) /\ keys[id] # NoRow
      BY <1>2, <1>8, <2>2 DEF KeyOf, Key
    <3>2. Spare(call[c]) => Spare(call'[c])
      BY <2>2 DEF Spare
    <3> QED BY <1>2, <1>7, <2>2, <3>1, <3>2 DEF UserAlone, KeyAlone
  <2> QED BY <1>5, <2>1, <2>3, <2>4, <2>5, GoesOn
<1>9. CASE backend = "memory"
  <2>1. ref = [ptr |-> id]
    BY <1>2, <1>9 DEF KeyRef
  <2>2. PICK g : g = [ptr |-> id]
    OBVIOUS
  <2>3. Goto(c, "updateKey", g) /\ keyObj' = [keyObj EXCEPT ![id] = row]
    BY <1>2, <1>4, <1>9, <2>1, <2>2 DEF Held
  <2>4. /\ Moves(c) /\ call'[c].op = call[c].op /\ call'[c].at = "updateKey" /\ call'[c].in = call[c].in
        /\ call'[c].got = g
    BY <2>3, GotoKeeps
  <2>5. /\ keyObj'[id] = row /\ \A k \in KeyIDs : k # id => keyObj'[k] = keyObj[k]
        /\ keyObj' \in [KeyIDs -> KeyRow \cup {NoRow}]
    BY <1>1, <1>3, <2>3 DEF KeysInv
  <2>6. KeysInv' /\ nextUser <= nextUser' /\ nextUser' \in Nat /\ nextKey <= nextKey' /\ nextKey' \in Nat
    <3>1. \A k \in StoredKeys : KeyRef(keys[k], k)' /\ k < nextKey'
      BY <1>1, <1>4 DEF KeysInv, KeyRef
    <3>2. \A k \in IssuedKeys : keyObj'[k] \in KeyRow /\ keyObj'[k].id = k
      <4>1. \A k \in IssuedKeys : k \in KeyIDs
        BY Issued
      <4> QED BY <1>1, <1>2, <1>9, <2>5, <4>1 DEF KeysInv
    <3>3. KeysInv'
      BY <1>1, <1>4, <2>5, <3>1, <3>2 DEF KeysInv, StoredKeys, IssuedKeys
    <3> QED BY <1>1, <1>4, <3>3, AccountConstants DEF UsersInv, KeysInv, userTables
  <2>7. keys[id] # NoRow => keys[id] = [ptr |-> id] /\ Key(id) = keyObj[id] /\ Key(id)' = row
    <3> SUFFICES ASSUME keys[id] # NoRow PROVE keys[id] = [ptr |-> id] /\ Key(id) = keyObj[id] /\ Key(id)' = row
      OBVIOUS
    <3>1. KeyRef(keys[id], id)
      BY <1>1, <1>3, KeyStored
    <3>2. keys[id] = [ptr |-> id]
      BY <1>9, <3>1 DEF KeyRef
    <3> QED BY <1>4, <1>9, <2>5, <3>2 DEF Key, KeyOf
  <2>8. KeyOf(ref) = keyObj[id]
    BY <1>9, <2>1 DEF KeyOf
  <2>9. Request(call[c])'
    <3>1. InHand(call[c])'
      BY <1>1, <1>2, <1>4, <1>9, <2>2, <2>4 DEF Request, InHand, KeyRef, UserTarget, KeyTarget
    <3> QED BY <1>5, <2>3, <2>6, <3>1, GotoGood
  <2>10. ASSUME NEW k \in KeyIDs, k # id, keys[k] # NoRow PROVE Key(k)' = Key(k)
    <3>1. KeyRef(keys[k], k)
      BY <1>1, <2>10, KeyStored
    <3> QED BY <1>4, <1>9, <2>5, <2>10, <3>1 DEF Key, KeyOf, KeyRef
  <2>11. load.serial => KeyTablesAgree' /\ KeyAlone(call[c])'
    <3> SUFFICES ASSUME load.serial PROVE KeyTablesAgree' /\ KeyAlone(call[c])'
      OBVIOUS
    <3>1. keys[id] # NoRow
      BY <1>2
    <3>2. (KeyOf(call[c].got))' = row /\ (Key(call[c].in.id))' = row /\ (keys[call[c].in.id])' # NoRow
      BY <1>2, <1>4, <1>9, <2>2, <2>4, <2>5, <2>7, <3>1 DEF KeyOf, Key
    <3>3. NameFree(row.user, row.name, id)'
      <4> SUFFICES ASSUME NEW j \in StoredKeys', j # id, row.user # 0, Key(j)'.user = row.user
                   PROVE  Key(j)'.name # row.name
        BY DEF NameFree
      <4>1. j \in StoredKeys /\ j \in KeyIDs /\ keys[j] # NoRow
        BY <1>4 DEF StoredKeys
      <4>2. Key(j)' = Key(j)
        BY <2>10, <4>1
      <4> QED BY <1>2, <4>1, <4>2 DEF NameFree
    <3>4. (NameFree(KeyOf(call[c].got).user, KeyOf(call[c].got).name, call[c].in.id))'
      BY <1>2, <2>4, <3>2, <3>3 DEF NameFree
    <3>5. call[c].op = "RotateAPIKey" => Spare(call[c])'
      <4> SUFFICES ASSUME call[c].op = "RotateAPIKey" PROVE Spare(call[c])'
        OBVIOUS
      <4>1. Spare(call[c])
        BY <1>7
      <4>2. PICK user : user = call[c].in.user
        OBVIOUS
      <4>3. PICK j \in KeyIDs \ {id} : Enabled(j) /\ Key(j).user = user
        BY <1>2, <4>1, <4>2 DEF Spare
      <4>4. Key(j)' = Key(j) /\ keys'[j] = keys[j]
        BY <1>4, <2>10, <4>3 DEF Enabled
      <4>5. Enabled(j)' /\ Key(j)'.user = user
        BY <4>3, <4>4 DEF Enabled
      <4>6. row.user = user
        BY <1>2, <2>7, <2>8, <3>1, <4>1, <4>2 DEF Spare
      <4> QED BY <1>2, <2>4, <3>2, <4>2, <4>3, <4>5, <4>6 DEF Spare
    <3>6. KeyTablesAgree'
      BY <1>9 DEF KeyTablesAgree
    <3> QED BY <2>4, <3>2, <3>4, <3>5, <3>6 DEF KeyAlone
  <2>12. load.serial /\ keys'[id] # NoRow => NameFree(Key(id)'.user, Key(id)'.name, id)
    BY <1>2, <1>4, <2>7
  <2>13. keys[id] # NoRow /\ ~Enabled(id) /\ Enabled(id)' =>
           call[c].op = "UpdateAPIKey" /\ call[c].in.change = [enabled |-> TRUE]
    BY <2>7, <2>8 DEF Enabled
  <2>14. Unrefreshed => CachedKey(call[c], id)'
    <3> SUFFICES ASSUME Unrefreshed, keyCache[FirstNode][id] # NoRow PROVE CachedKey(call[c], id)'
      BY DEF CachedKey, caches
    <3>1. HashRef(keyCache[FirstNode][id], id)
      BY <1>1, <1>3, AccountConstants DEF CachesInv
    <3>2. KeyOf(keyCache[FirstNode][id])' = row /\ keyCache' = keyCache
      BY <1>9, <2>5, <3>1 DEF HashRef, KeyOf, caches
    <3>3. keys[id] # NoRow
      BY <1>2 DEF Unrefreshed
    <3>4. KeyFits(keyCache[FirstNode][id], id)'
      BY <1>2, <1>4, <2>7, <3>2, <3>3 DEF KeyFits
    <3> QED BY <1>2, <2>4, <3>2, <3>4 DEF CachedKey
  <2>15. /\ \A k \in KeyIDs : k # id => keys'[k] = keys[k] /\ keyObj'[k] = keyObj[k]
         /\ UNCHANGED keyCache
    BY <1>4, <2>5 DEF caches
  <2>16. KeySide(c)
    BY <1>2, <1>3, <1>7, <2>4, <2>6, <2>11, <2>12, <2>13, <2>14, <2>15, KeyWritten
  <2> QED BY <2>4, <2>9, <2>16, KeyStep DEF UserStages
<1> QED BY <1>8, <1>9

\* The name that a key has is nobody else's.
LEMMA OwnName ==
  ASSUME AccountsInv, load.serial, NEW k \in KeyIDs, keys[k] # NoRow
  PROVE  NameFree(Key(k).user, Key(k).name, k)
<1>1. OneKeyPerName
  BY DEF AccountsInv, Alone
<1> QED BY <1>1 DEF OneKeyPerName, NameFree, StoredKeys

\* A new name that is found on no other key is free.
LEMMA NewName ==
  ASSUME AccountsInv, load.serial, NEW k, NEW user, NEW name,
         ~\E j \in GetAPIKeyByUserAndName(user, name) : j # k
  PROVE  NameFree(user, name, k)
<1>1. GetAPIKeyByUserAndName(user, name) = {j \in OfUser(user) : Key(j).name = name}
  BY InvParts, KeyNameReads
<1>2. KeyTablesAgree
  BY DEF AccountsInv, Alone
<1>3. ASSUME NEW j \in StoredKeys, Key(j).user = user, user # 0 PROVE j \in OfUser(user)
  <2>1. CASE backend = "cassandra"
    <3>1. Key(j) = keys[j]
      BY <2>1 DEF Key, KeyOf
    <3> QED BY <1>2, <1>3, <2>1, <3>1 DEF KeyTablesAgree, OfUser
  <2>2. CASE backend # "cassandra"
    BY <1>3, <2>2 DEF OfUser
  <2> QED BY <2>1, <2>2
<1> QED BY <1>1, <1>3 DEF NameFree

\* The steps of an update of a key that read and change it.
LEMMA KeyGets ==
  ASSUME AccountsInv, NEW c \in ActiveClients, UNCHANGED <<backend, load>>, UpdateAPIKey(c)
  PROVE  Good
<1>1. Request(call[c]) /\ KeysInv /\ backend \in Backends
  BY ActiveClient, InvParts
<1>2. PICK id, change : id = call[c].in.id /\ change = call[c].in.change
  OBVIOUS
<1>3. /\ call[c].op = "UpdateAPIKey" /\ call[c].at \in {"getKey", "rename"}
      /\ UNCHANGED userTables /\ UNCHANGED caches
  BY DEF UpdateAPIKey, At
<1>4. id \in KeyIDs /\ id < nextKey /\ change \in KeyChange
  BY <1>1, <1>2, <1>3 DEF Request, Params, InHand, KeyTarget
<1>5. CASE call[c].at = "getKey"
  <2>1. GetAPIKeyByID(id) = keys[id]
    BY <1>1, KeyReads
  <2>2. \/ Reply(c, "notFound") /\ UNCHANGED keyTables
        \/ keys[id] # NoRow /\ Goto(c, "rename", keys[id]) /\ UNCHANGED keyTables
        \/ /\ keys[id] # NoRow /\ ("name" \in DOMAIN change => Key(id).name = change.name)
           /\ WithKey(c, "updateKey", keys[id], Changed(Key(id), change))
    BY <1>2, <1>5, <2>1 DEF UpdateAPIKey, At, Key
  <2>3. CASE Reply(c, "notFound") /\ UNCHANGED keyTables
    <3>1. UNCHANGED <<tableVars, caches>>
      BY <1>3, <2>3 DEF tableVars
    <3> QED BY <1>5, <2>3, <3>1, Answers
  <2>4. CASE keys[id] # NoRow /\ Goto(c, "rename", keys[id]) /\ UNCHANGED keyTables
    <3>1. UNCHANGED <<tableVars, caches>>
      BY <1>3, <2>4 DEF tableVars
    <3> QED BY <1>2, <1>3, <1>5, <2>4, <3>1, RenameReads DEF At
  <2>5. CASE /\ keys[id] # NoRow /\ ("name" \in DOMAIN change => Key(id).name = change.name)
             /\ WithKey(c, "updateKey", keys[id], Changed(Key(id), change))
    <3>1. KeyRef(keys[id], id) /\ Key(id) \in KeyRow /\ Key(id).id = id
      BY <1>1, <1>4, <2>5, KeyStored
    <3>2. PICK ref, row : ref = keys[id] /\ row = Changed(Key(id), change)
      OBVIOUS
    <3>3. /\ row \in KeyRow /\ row.id = id /\ row.user = Key(id).user /\ row.name = Key(id).name
          /\ row.enabled /\ ~Key(id).enabled => change = [enabled |-> TRUE]
      BY <1>4, <2>5, <3>1, <3>2, ChangedKey
    <3>4. KeyOf(ref) = Key(id)
      BY <3>2 DEF Key
    <3>5. load.serial => NameFree(row.user, row.name, id)
      BY <1>4, <2>5, <3>3, OwnName
    <3>6. WithKey(c, "updateKey", ref, row)
      BY <2>5, <3>2
    <3> QED BY <1>2, <1>3, <2>5, <3>1, <3>2, <3>3, <3>4, <3>5, <3>6, KeyFetched
  <2> QED BY <2>2, <2>3, <2>4, <2>5
<1>6. CASE call[c].at = "rename"
  <2>1. PICK g, rec : g = call[c].got /\ rec = KeyOf(g)
    OBVIOUS
  <2>2. \/ Reply(c, "exists") /\ UNCHANGED keyTables
        \/ /\ ~\E k \in GetAPIKeyByUserAndName(rec.user, change.name) : k # rec.id
           /\ WithKey(c, "updateKey", g, Changed(rec, change))
    BY <1>2, <1>6, <2>1 DEF UpdateAPIKey, At
  <2>3. CASE Reply(c, "exists") /\ UNCHANGED keyTables
    <3>1. UNCHANGED <<tableVars, caches>>
      BY <1>3, <2>3 DEF tableVars
    <3> QED BY <1>6, <2>3, <3>1, Answers
  <2>4. CASE /\ ~\E k \in GetAPIKeyByUserAndName(rec.user, change.name) : k # rec.id
             /\ WithKey(c, "updateKey", g, Changed(rec, change))
    <3>1. KeyRef(g, id)
      BY <1>1, <1>2, <1>6, <2>1 DEF Request, InHand
    <3>2. rec \in KeyRow /\ rec.id = id /\ g # NoRow
      BY <1>1, <1>4, <2>1, <3>1, KeyOfRef
    <3>3. PICK row : row = Changed(rec, change)
      OBVIOUS
    <3>4. /\ row \in KeyRow /\ row.id = id /\ row.user = rec.user
          /\ "name" \notin DOMAIN change => row.name = rec.name
          /\ "name" \in DOMAIN change => row.name = change.name
          /\ row.enabled /\ ~rec.enabled => change = [enabled |-> TRUE]
      BY <1>4, <3>2, <3>3, ChangedKey
    <3>5. load.serial => g = keys[id] /\ NameFree(row.user, row.name, id)
      <4> SUFFICES ASSUME load.serial PROVE g = keys[id] /\ NameFree(row.user, row.name, id)
        OBVIOUS
      <4>1. KeyAlone(call[c])
        BY ActiveClient
      <4>2. g = keys[id] /\ keys[id] # NoRow
        BY <1>2, <1>6, <2>1, <4>1 DEF KeyAlone
      <4>3. rec = Key(id)
        BY <2>1, <4>2 DEF Key
      <4>4. CASE "name" \in DOMAIN change
        <5>1. NameFree(rec.user, change.name, rec.id)
          BY <2>4, NewName
        <5> QED BY <3>2, <3>4, <4>2, <4>4, <5>1
      <4>5. CASE "name" \notin DOMAIN change
        <5>1. NameFree(Key(id).user, Key(id).name, id)
          BY <1>4, <4>2, OwnName
        <5> QED BY <3>4, <4>2, <4>3, <4>5, <5>1
      <4> QED BY <4>4, <4>5
    <3>6. WithKey(c, "updateKey", g, row)
      BY <2>4, <3>3
    <3> QED BY <1>2, <1>3, <2>1, <3>1, <3>2, <3>4, <3>5, <3>6, KeyFetched
  <2> QED BY <2>2, <2>3, <2>4
<1> QED BY <1>3, <1>5, <1>6

\* A revocation disables the key it has read.
LEMMA KeyRevoked ==
  ASSUME AccountsInv, NEW c \in ActiveClients, UNCHANGED <<backend, load>>, RevokeAPIKey(c)
  PROVE  Good
<1>1. Request(call[c]) /\ KeysInv /\ backend \in Backends
  BY ActiveClient, InvParts
<1>2. PICK id : id = call[c].in.id
  OBVIOUS
<1>3. call[c].at = "revoke" /\ UNCHANGED userTables /\ UNCHANGED caches
  BY DEF RevokeAPIKey
<1>4. call[c].op \in {"RevokeAPIKey", "RotateAPIKey"} /\ id \in KeyIDs
  BY <1>1, <1>2, <1>3 DEF Request, Stage, Params
<1>5. GetAPIKeyByID(id) = keys[id]
  BY <1>1, KeyReads
<1>6. \/ Fail(c, "notFound") /\ UNCHANGED keyTables
      \/ keys[id] # NoRow /\ WithKey(c, "updateKey", keys[id], [Key(id) EXCEPT !.enabled = FALSE])
  BY <1>2, <1>5 DEF RevokeAPIKey, Key
<1>7. CASE Fail(c, "notFound") /\ UNCHANGED keyTables
  <2>1. UNCHANGED <<tableVars, caches>>
    BY <1>3, <1>7 DEF tableVars
  <2> QED BY <1>3, <1>7, <2>1, Answers
<1>8. CASE keys[id] # NoRow /\ WithKey(c, "updateKey", keys[id], [Key(id) EXCEPT !.enabled = FALSE])
  <2>1. KeyRef(keys[id], id) /\ Key(id) \in KeyRow /\ Key(id).id = id
    BY <1>1, <1>4, <1>8, KeyStored
  <2>2. PICK ref, row : ref = keys[id] /\ row = [Key(id) EXCEPT !.enabled = FALSE]
    OBVIOUS
  <2>3. row \in KeyRow /\ row.id = id /\ row.user = Key(id).user /\ row.name = Key(id).name /\ ~row.enabled
    BY <2>1, <2>2 DEF KeyRow
  <2>4. KeyOf(ref) = Key(id)
    BY <2>2 DEF Key
  <2>5. load.serial => NameFree(row.user, row.name, id)
    BY <1>4, <1>8, <2>3, OwnName
  <2>6. WithKey(c, "updateKey", ref, row)
    BY <1>8, <2>2
  <2> QED BY <1>2, <1>3, <1>4, <1>8, <2>1, <2>2, <2>3, <2>4, <2>5, <2>6, KeyFetched
<1> QED BY <1>6, <1>7, <1>8

\* A key is created.
LEMMA KeyInserted ==
  ASSUME AccountsInv, NEW c \in ActiveClients, UNCHANGED <<backend, load>>, UNCHANGED userTables, UNCHANGED caches,
         call[c].at = "createKey", InsertKey(c),
         byUser' = IF backend = "cassandra" THEN byUser \cup {<<call[c].in.user, nextKey>>} ELSE byUser,
         byHash' = IF backend = "cassandra" THEN [byHash EXCEPT ![nextKey] = keys'[nextKey]] ELSE byHash
  PROVE  Good
<1>1. Request(call[c]) /\ UsersInv /\ KeysInv /\ backend \in Backends /\ CachesInv
  BY ActiveClient, InvParts
<1>2. PICK user, name, new : user = call[c].in.user /\ name = call[c].in.name /\ new = nextKey
  OBVIOUS
<1>3. call[c].op \in {"CreateAPIKey", "RotateAPIKey"} /\ user \in 0..MaxUser /\ name \in AnyName
  BY <1>1, <1>2 DEF Request, Stage, Params
<1>4. PICK row : row = [id |-> new, user |-> user, name |-> name, enabled |-> TRUE]
  OBVIOUS
<1>5. PICK held : held = Held(row)
  OBVIOUS
<1>6. /\ new <= MaxKey /\ keys' = [keys EXCEPT ![new] = held]
      /\ keyObj' = IF backend = "memory" THEN [keyObj EXCEPT ![new] = row] ELSE keyObj
      /\ nextKey' = new + 1 /\ Goto(c, "cacheKey", held)
  BY <1>2, <1>4, <1>5 DEF InsertKey
<1>7. new \in KeyIDs /\ new \in Nat /\ keys[new] = NoRow
  <2>1. new \in KeyIDs /\ new \in Nat
    BY <1>1, <1>2, <1>6, AccountConstants DEF KeysInv, KeyIDs
  <2>2. ~(new < nextKey)
    BY <1>2, <2>1
  <2> QED BY <1>1, <2>1, <2>2, KeyStored
<1>8. row \in KeyRow /\ row.id = new /\ row.user = user /\ row.name = name /\ row.enabled = TRUE
  BY <1>3, <1>4, <1>7, AccountConstants DEF KeyRow, AnyName, KeyIDs
<1>9. (backend = "memory" => held = [ptr |-> new]) /\ (backend # "memory" => held = row)
  BY <1>5, <1>8 DEF Held
<1>10. /\ keys' \in [KeyIDs -> KeyRow \cup Pointer(KeyIDs) \cup {NoRow}]
       /\ keys'[new] = held /\ held # NoRow /\ \A k \in KeyIDs : k # new => keys'[k] = keys[k]
  <2>1. held \in KeyRow \cup Pointer(KeyIDs)
    BY <1>7, <1>8, <1>9 DEF Pointer
  <2>2. held # NoRow
    BY <1>7, <1>8, <1>9, AccountConstants
  <2> QED BY <1>1, <1>6, <1>7, <2>1, <2>2 DEF KeysInv
<1>11. /\ keyObj' \in [KeyIDs -> KeyRow \cup {NoRow}] /\ \A k \in KeyIDs : k # new => keyObj'[k] = keyObj[k]
       /\ backend = "memory" => keyObj'[new] = row
  BY <1>1, <1>6, <1>7, <1>8 DEF KeysInv
<1>12. /\ byHash' \in [KeyIDs -> KeyRow \cup {NoRow}] /\ \A k \in KeyIDs : k # new => byHash'[k] = byHash[k]
       /\ byHash'[new] \in {byHash[new], row} /\ (backend = "cassandra" => byHash'[new] = row)
  BY <1>1, <1>2, <1>7, <1>8, <1>9, <1>10 DEF KeysInv
<1>13. KeysInv'
  <2>1. \A k \in KeyIDs : keys'[k] # NoRow => KeyRef(keys[k], k)' /\ k < nextKey'
    <3> SUFFICES ASSUME NEW k \in KeyIDs, keys'[k] # NoRow PROVE KeyRef(keys[k], k)' /\ k < nextKey'
      OBVIOUS
    <3>1. CASE k = new
      BY <1>6, <1>7, <1>8, <1>9, <1>10, <3>1 DEF KeyRef
    <3>2. CASE k # new
      <4>1. KeyRef(keys[k], k) /\ k < nextKey
        BY <1>1, <1>10, <3>2, KeyStored
      <4> QED BY <1>2, <1>6, <1>7, <1>10, <3>2, <4>1, AccountConstants DEF KeyRef, KeyIDs
    <3> QED BY <3>1, <3>2
  <2>2. backend = "memory" => \A k \in 1..new : keyObj'[k] \in KeyRow /\ keyObj'[k].id = k
    <3> SUFFICES ASSUME backend = "memory", NEW k \in 1..new PROVE keyObj'[k] \in KeyRow /\ keyObj'[k].id = k
      OBVIOUS
    <3>1. k \in KeyIDs
      BY <1>7, AccountConstants DEF KeyIDs
    <3>2. CASE k = new
      BY <1>8, <1>11, <3>2
    <3>3. CASE k # new
      <4>1. k \in IssuedKeys
        BY <1>2, <1>7, <3>3 DEF IssuedKeys
      <4> QED BY <1>1, <1>11, <3>1, <3>3, <4>1 DEF KeysInv
    <3> QED BY <3>2, <3>3
  <2>3. nextKey' \in 1..(MaxKey + 1) /\ IssuedKeys' = 1..new
    BY <1>6, <1>7, AccountConstants DEF IssuedKeys, KeyIDs
  <2>4. \A k \in KeyIDs : byHash'[k] # NoRow => byHash'[k].id \in {0, k}
    BY <1>1, <1>8, <1>12 DEF KeysInv
  <2> QED BY <1>10, <1>11, <1>12, <2>1, <2>2, <2>3, <2>4 DEF KeysInv, StoredKeys
<1>14. nextUser <= nextUser' /\ nextUser' \in Nat /\ nextKey <= nextKey' /\ nextKey' \in Nat
  BY <1>1, <1>2, <1>6, <1>7, AccountConstants DEF UsersInv, userTables
<1>15. /\ Moves(c) /\ call'[c].op = call[c].op /\ call'[c].at = "cacheKey" /\ call'[c].in = call[c].in
       /\ call'[c].got = held
  BY <1>6, GotoKeeps
<1>16. call[c].op = "RotateAPIKey" => call[c].in.id \in KeyIDs /\ call[c].in.id < nextKey
  BY <1>1 DEF Request, Params, InHand, KeyTarget
<1>17. Request(call[c])'
  <2>1. Stage([op |-> call[c].op, at |-> "cacheKey"])
    BY <1>3 DEF Stage
  <2>2. new \in IssuedKeys' /\ KeyRef(held, new)'
    <3>1. new \in IssuedKeys'
      BY <1>6, <1>7, AccountConstants DEF IssuedKeys, KeyIDs
    <3> QED BY <1>8, <1>9, <3>1 DEF KeyRef
  <2>3. KeyRef(call[c].got, new)'
    BY <1>15, <2>2 DEF KeyRef
  <2>4. call[c].op = "RotateAPIKey" => call[c].in.id < nextKey'
    BY <1>2, <1>6, <1>7, <1>16, AccountConstants DEF KeyIDs
  <2>5. InHand(call[c])'
    BY <1>3, <1>15, <2>2, <2>3, <2>4 DEF InHand, UserTarget, KeyTarget
  <2> QED BY <1>6, <1>14, <2>1, <2>5, GotoGood
<1>18. Key(new)' = row /\ keys'[new] # NoRow
  BY <1>9, <1>10, <1>11 DEF Key, KeyOf
<1>19. load.serial => KeyTablesAgree' /\ KeyAlone(call[c])'
  <2> SUFFICES ASSUME load.serial PROVE KeyTablesAgree' /\ KeyAlone(call[c])'
    OBVIOUS
  <2>1. KeyAlone(call[c]) /\ KeyTablesAgree
    BY ActiveClient
  <2>2. user # 0
    BY <1>2, <2>1 DEF KeyAlone
  <2>3. KeyTablesAgree'
    <3> SUFFICES ASSUME backend = "cassandra" PROVE KeyTablesAgree'
      BY DEF KeyTablesAgree
    <3>1. StoredKeys' = StoredKeys \cup {new}
      <4>1. StoredKeys' = {k \in KeyIDs : keys'[k] # NoRow}
        BY DEF StoredKeys
      <4>2. \A k \in KeyIDs : keys'[k] # NoRow <=> keys[k] # NoRow \/ k = new
        BY <1>10
      <4> QED BY <1>7, <4>1, <4>2 DEF StoredKeys
    <3>2. keys'[new] = row /\ byHash'[new] = row
      BY <1>9, <1>10, <1>12
    <3>3. \A k \in StoredKeys : k \in KeyIDs /\ k # new /\ keys'[k] = keys[k] /\ byHash'[k] = byHash[k]
      BY <1>7, <1>10, <1>12 DEF StoredKeys
    <3>4. \A k \in KeyIDs : keys'[k] = NoRow => byHash'[k] = NoRow
      BY <1>10, <1>12, <2>1 DEF KeyTablesAgree
    <3>5. ASSUME NEW k \in StoredKeys'
          PROVE  /\ keys'[k].user # 0 /\ byHash'[k] # NoRow
                 /\ byHash'[k].id = k /\ byHash'[k].enabled = keys'[k].enabled /\ byHash'[k].name = keys'[k].name
      <4>1. CASE k = new
        BY <1>8, <1>18, <2>2, <3>2, <4>1
      <4>2. CASE k # new
        <5>1. k \in StoredKeys
          BY <3>1, <3>5, <4>2
        <5> QED BY <2>1, <3>3, <5>1 DEF KeyTablesAgree
      <4> QED BY <4>1, <4>2
    <3>6. byUser' = {<<keys'[k].user, k>> : k \in StoredKeys'}
      <4>1. byUser = {<<keys[k].user, k>> : k \in StoredKeys}
        BY <2>1 DEF KeyTablesAgree
      <4>2. byUser' = byUser \cup {<<keys'[new].user, new>>}
        BY <1>2, <1>8, <3>2
      <4>3. \A x : x \in {<<keys[k].user, k>> : k \in StoredKeys} <=> x \in {<<keys'[k].user, k>> : k \in StoredKeys}
        BY <3>3
      <4> QED BY <3>1, <4>1, <4>2, <4>3
    <3> QED BY <3>4, <3>5, <3>6 DEF KeyTablesAgree
  <2>4. KeyOf(call[c].got)' = row
    BY <1>9, <1>11, <1>15 DEF KeyOf
  <2>5. KeyFits(call[c].got, KeyOf(call[c].got).id)'
    <3>1. (KeyOf(call[c].got).id)' = new
      BY <1>8, <2>4
    <3>2. KeyFits(call[c].got, new)'
      BY <1>8, <1>18, <2>4 DEF KeyFits
    <3> QED BY <3>1, <3>2 DEF KeyFits, Key, KeyOf
  <2>6. call[c].op = "RotateAPIKey" => Spare(call[c])'
    <3> SUFFICES ASSUME call[c].op = "RotateAPIKey" PROVE Spare(call[c])'
      OBVIOUS
    <3>1. PICK id : id = call[c].in.id
      OBVIOUS
    <3>2. keys[id] # NoRow /\ Key(id).user = user
      BY <1>2, <2>1, <3>1 DEF KeyAlone
    <3>3. id \in KeyIDs /\ id # new
      BY <1>2, <1>7, <1>16, <3>1
    <3>4. KeyRef(keys[id], id)
      BY <1>1, <3>2, <3>3, KeyStored
    <3>5. keys'[id] # NoRow /\ Key(id)'.user = user
      BY <1>10, <1>11, <3>2, <3>3, <3>4 DEF Key, KeyOf, KeyRef
    <3>6. Enabled(new)' /\ Key(new)'.user = user
      BY <1>8, <1>18 DEF Enabled
    <3> QED BY <1>2, <1>7, <1>15, <3>1, <3>3, <3>5, <3>6 DEF Spare
  <2> QED BY <1>15, <2>3, <2>5, <2>6 DEF KeyAlone
<1>20. load.serial => NameFree(Key(new)'.user, Key(new)'.name, new)
  <2> SUFFICES ASSUME load.serial PROVE NameFree(Key(new)'.user, Key(new)'.name, new)
    OBVIOUS
  <2>1. KeyAlone(call[c])
    BY ActiveClient
  <2>2. NameFree(user, name, 0)
    BY <1>2, <2>1 DEF KeyAlone
  <2>3. 0 \notin StoredKeys
    BY AccountConstants DEF StoredKeys, KeyIDs
  <2> QED BY <1>8, <1>18, <2>2, <2>3 DEF NameFree
<1>21. Unrefreshed => CachedKey(call[c], new)'
  <2>1. keyCache[FirstNode][new] = NoRow
    <3>1. ~(new < nextKey)
      BY <1>2, <1>7
    <3> QED BY <1>1, <1>7, <3>1, AccountConstants DEF CachesInv
  <2> QED BY <2>1 DEF CachedKey, caches
<1>22. ~Enabled(new) /\ UNCHANGED keyCache
  BY <1>7 DEF Enabled, caches
<1>23. KeySide(c)
  BY <1>7, <1>10, <1>11, <1>13, <1>14, <1>15, <1>19, <1>20, <1>21, <1>22, KeyWritten
<1> QED BY <1>15, <1>17, <1>23, KeyStep DEF UserStages

\* A key that an update or a revocation has in hand is written back.
LEMMA KeyRewritten ==
  ASSUME AccountsInv, NEW c \in ActiveClients, UNCHANGED <<backend, load>>, UNCHANGED userTables, UNCHANGED caches,
         call[c].at \in {"updateKey", "putKey"}, Goto(c, "invalidateKey", NoRow),
         KeysInv', keyObj' = keyObj, nextKey' = nextKey,
         \A k \in KeyIDs : k # call[c].in.id => keys'[k] = keys[k],
         backend = "memory" => keys' = keys,
         NEW id, id = call[c].in.id,
         load.serial => /\ KeyTablesAgree'
                        /\ Key(id)'.user = KeyOf(call[c].got).user
                        /\ Key(id)'.name = KeyOf(call[c].got).name
                        /\ Key(id)'.enabled = KeyOf(call[c].got).enabled
  PROVE  Good
<1>1. Request(call[c]) /\ UsersInv /\ KeysInv /\ backend \in Backends /\ CachesInv
  BY ActiveClient, InvParts
<1>2. PICK g : g = call[c].got
  OBVIOUS
<1>3. /\ call[c].op \in {"UpdateAPIKey", "RevokeAPIKey", "RotateAPIKey"}
      /\ id \in KeyIDs /\ id < nextKey
  BY <1>1, <1>2 DEF Request, Stage, Params, InHand, KeyTarget
<1>4. /\ Moves(c) /\ call'[c].op = call[c].op /\ call'[c].at = "invalidateKey" /\ call'[c].in = call[c].in
  BY GotoKeeps
<1>5. nextUser <= nextUser' /\ nextUser' \in Nat /\ nextKey <= nextKey' /\ nextKey' \in Nat
  BY <1>1, AccountConstants DEF UsersInv, KeysInv, userTables
<1>6. Request(call[c])'
  <2>1. InHand(call[c])'
    BY <1>1, <1>2, <1>3, <1>4 DEF InHand, UserTarget
  <2>2. Stage([op |-> call[c].op, at |-> "invalidateKey"])
    BY <1>3 DEF Stage
  <2> QED BY <1>5, <2>1, <2>2, GotoGood
<1>7. load.serial => KeyAlone(call[c])
  BY ActiveClient
<1>8. KeyAlone(call[c])'
  BY <1>4 DEF KeyAlone
<1>9. load.serial => NameFree(Key(id)'.user, Key(id)'.name, id)
  BY <1>2, <1>7 DEF KeyAlone
<1>10. Undisturbed /\ keys[id] # NoRow /\ ~Enabled(id) /\ Enabled(id)' =>
          call[c].op = "UpdateAPIKey" /\ call[c].in.change = [enabled |-> TRUE]
  <2> SUFFICES ASSUME Undisturbed, keys[id] # NoRow, ~Enabled(id), Enabled(id)'
               PROVE  call[c].op = "UpdateAPIKey" /\ call[c].in.change = [enabled |-> TRUE]
    OBVIOUS
  <2>1. CASE load.serial
    <3>1. KeyOf(g).enabled /\ ~Key(id).enabled
      BY <1>2, <2>1 DEF Enabled
    <3> QED BY <1>2, <1>7, <2>1, <3>1 DEF KeyAlone
  <2>2. CASE backend = "memory"
    BY <2>2 DEF Enabled, Key, KeyOf
  <2> QED BY <2>1, <2>2 DEF Undisturbed
<1>11. load.serial /\ call[c].op = "RotateAPIKey" => Spare(call[c])
  BY <1>7 DEF KeyAlone
<1>12. Unrefreshed => CachedKey(call[c], id)'
  <2> SUFFICES ASSUME Unrefreshed PROVE CachedKey(call[c], id)'
    OBVIOUS
  <2>1. CachedKey(call[c], id)
    BY <1>3, ActiveClient DEF Unrefreshed
  <2>2. keyCache' = keyCache
    BY DEF caches
  <2>3. KeyOf(keyCache[FirstNode][id])' = KeyOf(keyCache[FirstNode][id])
    BY <2>2 DEF KeyOf
  <2> QED BY <1>2, <1>4, <2>1, <2>2, <2>3 DEF CachedKey
<1>13. UNCHANGED keyCache /\ \A k \in KeyIDs : k # id => keys'[k] = keys[k] /\ keyObj'[k] = keyObj[k]
  BY <1>2 DEF caches
<1>14. KeySide(c)
  BY <1>2, <1>3, <1>4, <1>5, <1>8, <1>9, <1>10, <1>11, <1>12, <1>13, KeyWritten
<1> QED BY <1>4, <1>6, <1>14, KeyStep DEF UserStages

\* It is written back as a row, or is the stored record.
LEMMA KeyReplaced ==
  ASSUME AccountsInv, NEW c \in ActiveClients, UNCHANGED <<backend, load>>, UNCHANGED userTables, UNCHANGED caches,
         backend # "cassandra", call[c].at = "updateKey", keys[call[c].in.id] # NoRow,
         keys' = [keys EXCEPT ![call[c].in.id] = call[c].got], Goto(c, "invalidateKey", NoRow),
         UNCHANGED <<byUser, byHash, keyObj, nextKey>>
  PROVE  Good
<1>1. Request(call[c]) /\ KeysInv
  BY ActiveClient, InvParts
<1>2. PICK id, g : id = call[c].in.id /\ g = call[c].got
  OBVIOUS
<1>3. id \in KeyIDs /\ id < nextKey /\ KeyRef(g, id)
  BY <1>1, <1>2 DEF Request, Stage, Params, InHand, KeyTarget
<1>4. /\ keys' \in [KeyIDs -> KeyRow \cup Pointer(KeyIDs) \cup {NoRow}]
      /\ keys'[id] = g /\ \A k \in KeyIDs : k # id => keys'[k] = keys[k]
  <2>1. g \in KeyRow \cup Pointer(KeyIDs)
    BY <1>3 DEF KeyRef, Pointer
  <2> QED BY <1>1, <1>2, <1>3, <2>1 DEF KeysInv
<1>5. KeysInv'
  <2>1. \A k \in KeyIDs : keys'[k] # NoRow => KeyRef(keys[k], k)' /\ k < nextKey'
    <3> SUFFICES ASSUME NEW k \in KeyIDs, keys'[k] # NoRow PROVE KeyRef(keys[k], k)' /\ k < nextKey'
      OBVIOUS
    <3>1. CASE k = id
      BY <1>3, <1>4, <3>1 DEF KeyRef
    <3>2. CASE k # id
      <4>1. KeyRef(keys[k], k) /\ k < nextKey
        BY <1>1, <1>4, <3>2, KeyStored
      <4> QED BY <1>4, <3>2, <4>1 DEF KeyRef
    <3> QED BY <3>1, <3>2
  <2> QED BY <1>1, <1>4, <2>1 DEF KeysInv, StoredKeys, IssuedKeys
<1>6. backend = "memory" => keys' = keys
  <2> SUFFICES ASSUME backend = "memory" PROVE keys' = keys
    OBVIOUS
  <2>1. KeyRef(keys[id], id)
    BY <1>1, <1>2, <1>3, KeyStored
  <2>2. keys[id] = g
    BY <1>3, <2>1 DEF KeyRef
  <2> QED BY <1>1, <1>2, <2>2 DEF KeysInv
<1>7. Key(id)' = KeyOf(g)
  BY <1>4 DEF Key, KeyOf
<1>8. KeyTablesAgree'
  BY DEF KeyTablesAgree
<1>9. /\ Key(id)'.user = KeyOf(call[c].got).user
      /\ Key(id)'.name = KeyOf(call[c].got).name
      /\ Key(id)'.enabled = KeyOf(call[c].got).enabled
  BY <1>2, <1>7
<1> QED BY <1>2, <1>4, <1>5, <1>6, <1>8, <1>9, KeyRewritten

\* The columns of an update.
LEMMA Upserted ==
  ASSUME NEW row \in KeyRow \cup {NoRow}, NEW id \in 0..MaxKey, NEW name \in AnyName, NEW enabled \in BOOLEAN
  PROVE  /\ Upsert(row, id, name, enabled) \in KeyRow
         /\ Upsert(row, id, name, enabled).name = name /\ Upsert(row, id, name, enabled).enabled = enabled
         /\ row = NoRow => Upsert(row, id, name, enabled).id = id
         /\ row # NoRow => /\ Upsert(row, id, name, enabled).id = row.id
                           /\ Upsert(row, id, name, enabled).user = row.user
<1>1. CASE row = NoRow
  <2>1. Upsert(row, id, name, enabled) = [id |-> id, user |-> 0, name |-> name, enabled |-> enabled]
    BY <1>1 DEF Upsert
  <2>2. 0 \in 0..MaxUser
    BY AccountConstants
  <2> QED BY <1>1, <2>1, <2>2 DEF KeyRow, AnyName
<1>2. CASE row # NoRow
  <2>1. row \in KeyRow
    BY <1>2
  <2>2. PICK mid : mid = [row EXCEPT !.name = name]
    OBVIOUS
  <2>3. mid \in KeyRow /\ mid.id = row.id /\ mid.user = row.user /\ mid.name = name
    BY <2>1, <2>2 DEF KeyRow, AnyName
  <2>4. Upsert(row, id, name, enabled) = [mid EXCEPT !.enabled = enabled]
    BY <1>2, <2>2 DEF Upsert
  <2> QED BY <1>2, <2>3, <2>4 DEF KeyRow
<1> QED BY <1>1, <1>2

\* Cassandra writes the row of a key, and that of its hash or not.
LEMMA CasRows ==
  ASSUME KeysInv, backend = "cassandra", backend' = backend, NEW id \in KeyIDs, id < nextKey,
         NEW row \in KeyRow, row.id = id, keys' = [keys EXCEPT ![id] = row],
         NEW hash \in KeyRow, hash.id \in {0, id}, byHash' \in {byHash, [byHash EXCEPT ![id] = hash]},
         keyObj' = keyObj, nextKey' = nextKey
  PROVE  /\ KeysInv' /\ keys'[id] = row
         /\ \A k \in KeyIDs : k # id => keys'[k] = keys[k] /\ byHash'[k] = byHash[k]
<1>1. /\ keys' \in [KeyIDs -> KeyRow \cup Pointer(KeyIDs) \cup {NoRow}]
      /\ keys'[id] = row /\ \A k \in KeyIDs : k # id => keys'[k] = keys[k]
  BY DEF KeysInv
<1>2. /\ byHash' \in [KeyIDs -> KeyRow \cup {NoRow}] /\ byHash'[id] \in {byHash[id], hash}
      /\ \A k \in KeyIDs : k # id => byHash'[k] = byHash[k]
  BY DEF KeysInv
<1>3. \A k \in KeyIDs : keys'[k] # NoRow => KeyRef(keys[k], k)' /\ k < nextKey'
  <2> SUFFICES ASSUME NEW k \in KeyIDs, keys'[k] # NoRow PROVE KeyRef(keys[k], k)' /\ k < nextKey'
    OBVIOUS
  <2>1. CASE k = id
    BY <1>1, <2>1 DEF KeyRef
  <2>2. CASE k # id
    <3>1. KeyRef(keys[k], k) /\ k < nextKey
      BY <1>1, <2>2, KeyStored
    <3> QED BY <1>1, <2>2, <3>1 DEF KeyRef
  <2> QED BY <2>1, <2>2
<1>4. \A k \in KeyIDs : byHash'[k] # NoRow => byHash'[k].id \in {0, k}
  BY <1>2 DEF KeysInv
<1>5. KeysInv'
  BY <1>1, <1>2, <1>3, <1>4 DEF KeysInv, StoredKeys, IssuedKeys
<1> QED BY <1>1, <1>2, <1>5

\* The tables of Cassandra agree still, when the rows of a key do.
LEMMA CasAgree ==
  ASSUME KeyTablesAgree, backend = "cassandra", backend' = backend, NEW id \in KeyIDs, keys[id] # NoRow,
         \A k \in KeyIDs : k # id => keys'[k] = keys[k] /\ byHash'[k] = byHash[k],
         keys'[id] # NoRow, keys'[id].user = keys[id].user, byHash'[id] # NoRow, byHash'[id].id = id,
         byHash'[id].enabled = keys'[id].enabled, byHash'[id].name = keys'[id].name,
         byUser' = byUser \cup {<<keys[id].user, id>>}
  PROVE  KeyTablesAgree'
<1>1. StoredKeys' = StoredKeys /\ id \in StoredKeys
  <2>1. StoredKeys' = {k \in KeyIDs : keys'[k] # NoRow}
    BY DEF StoredKeys
  <2>2. \A k \in KeyIDs : keys'[k] # NoRow <=> keys[k] # NoRow
    OBVIOUS
  <2> QED BY <2>1, <2>2 DEF StoredKeys
<1>2. \A k \in StoredKeys : k \in KeyIDs /\ keys'[k].user = keys[k].user
  BY DEF StoredKeys
<1>3. byUser' = {<<keys'[k].user, k>> : k \in StoredKeys'}
  <2>1. byUser = {<<keys[k].user, k>> : k \in StoredKeys}
    BY DEF KeyTablesAgree
  <2>2. byUser' = byUser
    BY <1>1, <2>1
  <2>3. {<<keys[k].user, k>> : k \in StoredKeys} = {<<keys'[k].user, k>> : k \in StoredKeys}
    BY <1>2
  <2> QED BY <1>1, <2>1, <2>2, <2>3
<1>4. \A k \in KeyIDs : keys'[k] = NoRow => byHash'[k] = NoRow
  BY DEF KeyTablesAgree
<1>5. ASSUME NEW k \in StoredKeys
      PROVE  /\ keys'[k].user # 0 /\ byHash'[k] # NoRow
             /\ byHash'[k].id = k /\ byHash'[k].enabled = keys'[k].enabled /\ byHash'[k].name = keys'[k].name
  <2>1. keys[k].user # 0 /\ keys'[k].user = keys[k].user
    BY <1>2 DEF KeyTablesAgree
  <2>2. CASE k = id
    BY <2>1, <2>2
  <2>3. CASE k # id
    BY <1>2, <2>1, <2>3 DEF KeyTablesAgree
  <2> QED BY <2>2, <2>3
<1> QED BY <1>1, <1>3, <1>4, <1>5 DEF KeyTablesAgree

\* Cassandra writes a key that a request has in hand.
LEMMA CasKeyPut ==
  ASSUME AccountsInv, NEW c \in ActiveClients, UNCHANGED <<backend, load>>, UNCHANGED caches, backend = "cassandra",
         CasUpdateAPIKey(c), call[c].at = "putKey"
  PROVE  Good
<1>1. Request(call[c]) /\ KeysInv
  BY ActiveClient, InvParts
<1>2. PICK id, rec : id = call[c].in.id /\ rec = call[c].got
  OBVIOUS
<1>3. id \in KeyIDs /\ id < nextKey /\ rec \in KeyRow /\ rec.id = id
  BY <1>1, <1>2 DEF Request, Stage, Params, InHand, KeyTarget, KeyRef
<1>4. PICK row, hash : /\ row = Upsert(keys[id], id, rec.name, rec.enabled)
                       /\ hash = Upsert(byHash[id], 0, rec.name, rec.enabled)
  OBVIOUS
<1>5. /\ keys' = [keys EXCEPT ![id] = row] /\ byUser' = byUser \cup {<<rec.user, id>>}
      /\ byHash' = IF Ghost(rec) THEN byHash ELSE [byHash EXCEPT ![id] = hash]
      /\ Goto(c, "invalidateKey", NoRow)
      /\ keyObj' = keyObj /\ nextKey' = nextKey /\ UNCHANGED userTables
  BY <1>2, <1>3, <1>4 DEF CasUpdateAPIKey
<1>6. keys[id] \in KeyRow \cup {NoRow} /\ (keys[id] # NoRow => keys[id].id = id /\ Key(id) = keys[id])
  <2>1. keys[id] # NoRow => KeyRef(keys[id], id)
    BY <1>1, <1>3, KeyStored
  <2> QED BY <2>1 DEF KeyRef, Key, KeyOf
<1>7. rec.name \in AnyName /\ rec.enabled \in BOOLEAN /\ 0 \in 0..MaxKey /\ id \in 0..MaxKey
  BY <1>3, AccountConstants DEF KeyRow, AnyName, KeyIDs
<1>8. /\ row \in KeyRow /\ row.id = id /\ row.name = rec.name /\ row.enabled = rec.enabled
      /\ keys[id] # NoRow => row.user = keys[id].user
  BY <1>4, <1>6, <1>7, Upserted
<1>9. byHash[id] \in KeyRow \cup {NoRow} /\ (byHash[id] # NoRow => byHash[id].id \in {0, id})
  BY <1>1, <1>3 DEF KeysInv
<1>10. /\ hash \in KeyRow /\ hash.id \in {0, id} /\ hash.name = rec.name /\ hash.enabled = rec.enabled
       /\ byHash[id] # NoRow => hash.id = byHash[id].id
  <2>1. PICK old, nm, en, z : old = byHash[id] /\ nm = rec.name /\ en = rec.enabled /\ z = 0
    OBVIOUS
  <2>2. old \in KeyRow \cup {NoRow} /\ nm \in AnyName /\ en \in BOOLEAN /\ z \in 0..MaxKey
    BY <1>7, <1>9, <2>1
  <2>3. hash = Upsert(old, z, nm, en)
    BY <1>4, <2>1
  <2>4. /\ Upsert(old, z, nm, en) \in KeyRow
        /\ Upsert(old, z, nm, en).name = nm /\ Upsert(old, z, nm, en).enabled = en
        /\ old = NoRow => Upsert(old, z, nm, en).id = z
        /\ old # NoRow => /\ Upsert(old, z, nm, en).id = old.id
                          /\ Upsert(old, z, nm, en).user = old.user
    BY <2>2, Upserted
  <2> QED BY <1>9, <2>1, <2>3, <2>4
<1>11. /\ KeysInv' /\ keys'[id] = row
       /\ \A k \in KeyIDs : k # id => keys'[k] = keys[k] /\ byHash'[k] = byHash[k]
  <2>1. byHash' \in {byHash, [byHash EXCEPT ![id] = hash]}
    BY <1>5
  <2> QED BY <1>1, <1>3, <1>5, <1>8, <1>10, <2>1, CasRows
<1>12. Key(id)' = row
  BY <1>11 DEF Key, KeyOf
<1>13. ASSUME load.serial
       PROVE  /\ KeyTablesAgree' /\ Key(id)'.user = KeyOf(call[c].got).user
              /\ Key(id)'.name = KeyOf(call[c].got).name /\ Key(id)'.enabled = KeyOf(call[c].got).enabled
  <2>1. KeyAlone(call[c]) /\ KeyTablesAgree
    BY <1>13, ActiveClient
  <2>2. KeyOf(call[c].got) = rec
    BY <1>2 DEF KeyOf
  <2>3. keys[id] # NoRow /\ rec.user = keys[id].user
    BY <1>2, <1>6, <2>1, <2>2 DEF KeyAlone
  <2>4. rec.user # 0 /\ byHash[id] # NoRow /\ byHash[id].id = id
    BY <1>3, <2>1, <2>3 DEF KeyTablesAgree, StoredKeys
  <2>5. byHash'[id] = hash
    BY <1>1, <1>3, <1>5, <2>4 DEF Ghost, KeysInv
  <2>6. KeyTablesAgree'
    BY <1>3, <1>5, <1>8, <1>10, <1>11, <2>1, <2>3, <2>4, <2>5, AccountConstants, CasAgree
  <2> QED BY <1>8, <1>12, <2>2, <2>3, <2>6
<1> QED BY <1>2, <1>5, <1>11, <1>13, KeyRewritten

\* Cassandra notes the time of use of a key.
LEMMA CasTouched ==
  ASSUME AccountsInv, NEW c \in ActiveClients, UNCHANGED <<backend, load>>, UNCHANGED caches, backend = "cassandra",
         CasUpdateAPIKeyLastUsed(c), call[c].at = "touch"
  PROVE  Good
<1>1. Request(call[c]) /\ KeysInv /\ UsersInv
  BY ActiveClient, InvParts
<1>2. PICK id, rec : id = call[c].in.id /\ rec = call[c].got
  OBVIOUS
<1>3. id \in KeyIDs /\ id < nextKey /\ rec \in KeyRow /\ rec.id = id /\ call[c].op = "ValidateAPIKey"
  BY <1>1, <1>2 DEF Request, Stage, Params, InHand, KeyTarget, KeyRef
<1>4. PICK row, hash : /\ row = IF keys[id] = NoRow THEN Upsert(keys[id], id, NoRow, FALSE) ELSE keys[id]
                       /\ hash = IF byHash[id] = NoRow THEN Upsert(byHash[id], 0, NoRow, FALSE) ELSE byHash[id]
  OBVIOUS
<1>5. /\ keys' = [keys EXCEPT ![id] = row] /\ byUser' = byUser \cup {<<rec.user, id>>}
      /\ byHash' = IF Ghost(rec) THEN byHash ELSE [byHash EXCEPT ![id] = hash]
      /\ Reply(c, "nil")
      /\ keyObj' = keyObj /\ nextKey' = nextKey /\ UNCHANGED userTables
  BY <1>2, <1>3, <1>4 DEF CasUpdateAPIKeyLastUsed
<1>6. keys[id] \in KeyRow \cup {NoRow} /\ (keys[id] # NoRow => keys[id].id = id)
  <2>1. keys[id] # NoRow => KeyRef(keys[id], id)
    BY <1>1, <1>3, KeyStored
  <2> QED BY <2>1 DEF KeyRef
<1>7. NoRow \in AnyName /\ 0 \in 0..MaxKey /\ id \in 0..MaxKey
  BY <1>3, AccountConstants DEF AnyName, KeyIDs
<1>8. row \in KeyRow /\ row.id = id /\ (keys[id] # NoRow => row = keys[id])
  <2>1. PICK new : new = [id |-> id, user |-> 0, name |-> NoRow, enabled |-> FALSE]
    OBVIOUS
  <2>2. Upsert(NoRow, id, NoRow, FALSE) = new
    BY <2>1 DEF Upsert
  <2>3. new \in KeyRow /\ new.id = id
    BY <1>7, <2>1, AccountConstants DEF KeyRow, AnyName
  <2> QED BY <1>4, <1>6, <2>2, <2>3
<1>9. byHash[id] \in KeyRow \cup {NoRow} /\ (byHash[id] # NoRow => byHash[id].id \in {0, id})
  BY <1>1, <1>3 DEF KeysInv
<1>10. hash \in KeyRow /\ hash.id \in {0, id} /\ (byHash[id] # NoRow => hash = byHash[id])
  <2>1. PICK new : new = [id |-> 0, user |-> 0, name |-> NoRow, enabled |-> FALSE]
    OBVIOUS
  <2>2. Upsert(NoRow, 0, NoRow, FALSE) = new
    BY <2>1 DEF Upsert
  <2>3. new \in KeyRow /\ new.id = 0
    BY <1>7, <2>1, AccountConstants DEF KeyRow, AnyName
  <2> QED BY <1>4, <1>9, <2>2, <2>3
<1>11. /\ KeysInv' /\ keys'[id] = row
       /\ \A k \in KeyIDs : k # id => keys'[k] = keys[k] /\ byHash'[k] = byHash[k]
  <2>1. byHash' \in {byHash, [byHash EXCEPT ![id] = hash]}
    BY <1>5
  <2> QED BY <1>1, <1>3, <1>5, <1>8, <1>10, <2>1, CasRows
<1>12. Moves(c) /\ Request(call[c])' /\ call'[c].at = "done"
  BY <1>5, ReplyGood
<1>13. ASSUME load.serial PROVE keys[id] # NoRow /\ keys'[id] = keys[id] /\ Key(id)' = Key(id) /\ KeyTablesAgree'
  <2>1. KeyAlone(call[c]) /\ KeyTablesAgree
    BY <1>13, ActiveClient
  <2>2. keys[id] # NoRow /\ rec = keys[id]
    BY <1>2, <2>1 DEF KeyAlone
  <2>3. keys'[id] = keys[id]
    BY <1>8, <1>11, <2>2
  <2>4. /\ rec.user # 0 /\ byHash[id] # NoRow /\ byHash[id].id = id
        /\ byHash[id].enabled = keys[id].enabled /\ byHash[id].name = keys[id].name
    BY <1>3, <2>1, <2>2 DEF KeyTablesAgree, StoredKeys
  <2>5. byHash'[id] = byHash[id]
    BY <1>1, <1>3, <1>5, <1>10, <2>4 DEF Ghost, KeysInv
  <2>6. KeyTablesAgree'
    BY <1>3, <1>5, <1>11, <2>1, <2>2, <2>3, <2>4, <2>5, CasAgree
  <2> QED BY <2>2, <2>3, <2>6 DEF Key, KeyOf
<1>14. KeyAlone(call[c])'
  BY <1>12 DEF KeyAlone
<1>15. load.serial => NameFree(Key(id)'.user, Key(id)'.name, id)
  BY <1>3, <1>13, OwnName
<1>16. load.serial => (Enabled(id)' <=> Enabled(id))
  BY <1>13 DEF Enabled
<1>17. Undisturbed => load.serial
  BY DEF Undisturbed
<1>18. Unrefreshed => CachedKey(call[c], id)'
  <2> SUFFICES ASSUME Unrefreshed, keyCache[FirstNode][id] # NoRow PROVE CachedKey(call[c], id)'
    BY DEF CachedKey, caches
  <2>1. CachedKey(call[c], id)
    BY <1>3, ActiveClient DEF Unrefreshed
  <2>2. PICK ref : ref = keyCache[FirstNode][id]
    OBVIOUS
  <2>3. keyCache'[FirstNode][id] = ref /\ KeyOf(keyCache[FirstNode][id])' = KeyOf(ref)
    BY <2>2 DEF caches, KeyOf
  <2>4. KeyFits(ref, id) /\ KeyOf(ref).id = id
    BY <2>1, <2>2 DEF CachedKey
  <2>5. KeyFits(keyCache[FirstNode][id], id)'
    BY <1>13, <2>3, <2>4 DEF KeyFits, Unrefreshed
  <2> QED BY <1>12, <2>3, <2>4, <2>5 DEF CachedKey
<1>19. UNCHANGED keyCache /\ nextKey <= nextKey'
  BY <1>1, <1>5, AccountConstants DEF caches, KeysInv
<1>20. KeySide(c)
  BY <1>3, <1>5, <1>11, <1>12, <1>13, <1>14, <1>15, <1>16, <1>17, <1>18, <1>19, KeyWritten
<1> QED BY <1>5, <1>12, <1>20, KeyStep DEF UserStages


\* The tables of Cassandra agree still, when a key is gone from them.
LEMMA CasGone ==
  ASSUME KeyTablesAgree, backend = "cassandra", backend' = backend, NEW id \in KeyIDs,
         \A k \in KeyIDs : k # id => keys'[k] = keys[k] /\ byHash'[k] = byHash[k],
         keys'[id] = NoRow, byHash'[id] = NoRow, byUser' = byUser \ {<<keys[id].user, id>>}
  PROVE  KeyTablesAgree'
<1>1. StoredKeys' = StoredKeys \ {id}
  <2>1. StoredKeys' = {k \in KeyIDs : keys'[k] # NoRow}
    BY DEF StoredKeys
  <2>2. \A k \in KeyIDs : keys'[k] # NoRow <=> (keys[k] # NoRow /\ k # id)
    OBVIOUS
  <2> QED BY <2>1, <2>2 DEF StoredKeys
<1>2. \A k \in StoredKeys' : k \in KeyIDs /\ k # id /\ keys'[k] = keys[k] /\ byHash'[k] = byHash[k] /\ k \in StoredKeys
  BY <1>1 DEF StoredKeys
<1>3. byUser' = {<<keys'[k].user, k>> : k \in StoredKeys'}
  <2>1. byUser = {<<keys[k].user, k>> : k \in StoredKeys}
    BY DEF KeyTablesAgree
  <2>2. {<<keys'[k].user, k>> : k \in StoredKeys'} = {<<keys[k].user, k>> : k \in StoredKeys \ {id}}
    BY <1>1, <1>2
  <2>3. {<<keys[k].user, k>> : k \in StoredKeys} \ {<<keys[id].user, id>>} = {<<keys[k].user, k>> : k \in StoredKeys \ {id}}
    OBVIOUS
  <2> QED BY <2>1, <2>2, <2>3
<1>4. \A k \in KeyIDs : keys'[k] = NoRow => byHash'[k] = NoRow
  BY DEF KeyTablesAgree
<1>5. \A k \in StoredKeys' :
        /\ keys'[k].user # 0 /\ byHash'[k] # NoRow
        /\ byHash'[k].id = k /\ byHash'[k].enabled = keys'[k].enabled /\ byHash'[k].name = keys'[k].name
  BY <1>2 DEF KeyTablesAgree
<1> QED BY <1>3, <1>4, <1>5 DEF KeyTablesAgree

\* A key is deleted.
LEMMA KeyDropped ==
  ASSUME AccountsInv, NEW c \in ActiveClients, UNCHANGED <<backend, load>>, UNCHANGED userTables, UNCHANGED caches,
         call[c].at \in {"deleteKey", "dropKey"}, NEW id, id = call[c].in.id,
         keys' = [keys EXCEPT ![id] = NoRow], NEW err, Reply(c, err), keyObj' = keyObj, nextKey' = nextKey,
         byHash' \in {byHash, [byHash EXCEPT ![id] = NoRow]},
         backend = "cassandra" /\ load.serial =>
           byHash' = [byHash EXCEPT ![id] = NoRow] /\ byUser' = byUser \ {<<keys[id].user, id>>}
  PROVE  Good
<1>1. Request(call[c]) /\ KeysInv
  BY ActiveClient, InvParts
<1>2. call[c].op = "DeleteAPIKey" /\ id \in KeyIDs
  BY <1>1 DEF Request, Stage, Params
<1>3. /\ keys' \in [KeyIDs -> KeyRow \cup Pointer(KeyIDs) \cup {NoRow}]
      /\ keys'[id] = NoRow /\ \A k \in KeyIDs : k # id => keys'[k] = keys[k]
  BY <1>1, <1>2 DEF KeysInv
<1>4. /\ byHash' \in [KeyIDs -> KeyRow \cup {NoRow}] /\ byHash'[id] \in {byHash[id], NoRow}
      /\ \A k \in KeyIDs : k # id => byHash'[k] = byHash[k]
  BY <1>1, <1>2 DEF KeysInv
<1>5. KeysInv'
  <2>1. \A k \in KeyIDs : keys'[k] # NoRow => KeyRef(keys[k], k)' /\ k < nextKey'
    <3> SUFFICES ASSUME NEW k \in KeyIDs, keys'[k] # NoRow PROVE KeyRef(keys[k], k)' /\ k < nextKey'
      OBVIOUS
    <3>1. k # id /\ keys'[k] = keys[k]
      BY <1>3
    <3>2. KeyRef(keys[k], k) /\ k < nextKey
      BY <1>1, <3>1, KeyStored
    <3> QED BY <3>1, <3>2 DEF KeyRef
  <2>2. \A k \in KeyIDs : byHash'[k] # NoRow => byHash'[k].id \in {0, k}
    BY <1>1, <1>4 DEF KeysInv
  <2> QED BY <1>1, <1>3, <1>4, <2>1, <2>2 DEF KeysInv, StoredKeys, IssuedKeys
<1>6. Moves(c) /\ Request(call[c])' /\ call'[c].at = "done"
  BY ReplyGood
<1>7. KeyAlone(call[c])'
  BY <1>6 DEF KeyAlone
<1>8. load.serial => KeyTablesAgree'
  <2> SUFFICES ASSUME load.serial PROVE KeyTablesAgree'
    OBVIOUS
  <2>1. KeyTablesAgree
    BY ActiveClient
  <2>2. CASE backend = "cassandra"
    <3>1. byHash'[id] = NoRow
      BY <1>1, <1>2, <2>2 DEF KeysInv
    <3> QED BY <1>2, <1>3, <1>4, <2>1, <2>2, <3>1, CasGone
  <2>3. CASE backend # "cassandra"
    BY <2>3 DEF KeyTablesAgree
  <2> QED BY <2>2, <2>3
<1>9. Unrefreshed => CachedKey(call[c], id)'
  <2> SUFFICES ASSUME Unrefreshed PROVE CachedKey(call[c], id)'
    OBVIOUS
  <2>1. CachedKey(call[c], id)
    BY <1>2, ActiveClient DEF Unrefreshed
  <2>2. keyCache[FirstNode][id] = NoRow
    BY <2>1 DEF CachedKey
  <2> QED BY <2>2 DEF CachedKey, caches
<1>10. ~Enabled(id)'
  BY <1>3 DEF Enabled
<1>11. UNCHANGED keyCache /\ nextKey <= nextKey'
  BY <1>1, AccountConstants DEF caches, KeysInv
<1>12. \A k \in KeyIDs : k # id => keys'[k] = keys[k] /\ keyObj'[k] = keyObj[k]
  BY <1>3
<1>13. KeySide(c)
  BY <1>2, <1>3, <1>5, <1>6, <1>7, <1>8, <1>9, <1>10, <1>11, <1>12, KeyWritten
<1> QED BY <1>6, <1>13, KeyStep DEF UserStages


-----------------------------------------------------------------------------
(* The cache of keys.                                                      *)

\* A step changes that cache only.
LEMMA KeyCacheStep ==
  ASSUME AccountsInv, NEW c \in ActiveClients, UNCHANGED <<backend, load>>, UNCHANGED <<tableVars, credCache, listed>>,
         Moves(c), Request(call[c])', call[c].at \in {"cacheKey", "cacheFound", "invalidateKey"},
         call'[c].at \in {"done", "deleteKey", "revoke", "lastUsed"},
         load.serial => KeyAlone(call'[c]),
         keyCache' \in [Nodes -> [KeyIDs -> KeyRow \cup Pointer(KeyIDs) \cup {NoRow}]],
         \A n \in Nodes, k \in KeyIDs : keyCache'[n][k] # NoRow => HashRef(keyCache'[n][k], k) /\ k < nextKey,
         Unrefreshed => \A k \in KeyIDs : keyCache'[FirstNode][k] # NoRow =>
           /\ KeyFits(keyCache'[FirstNode][k], k)
           /\ call'[c].at = "deleteKey" => call'[c].in.id # k
  PROVE  Good
<1>1. /\ keys' = keys /\ byUser' = byUser /\ byHash' = byHash /\ keyObj' = keyObj /\ nextKey' = nextKey
      /\ nextUser' = nextUser /\ UNCHANGED userTables /\ UNCHANGED credCache /\ listed' = listed /\ backend' = backend
  BY DEF tableVars, userTables, keyTables
<1>2. KeysInv /\ CachesInv /\ KeysInv' /\ nextKey <= nextKey'
  <2>1. KeysInv /\ CachesInv
    BY InvParts
  <2>2. KeysInv'
    BY <1>1, <2>1 DEF KeysInv, StoredKeys, IssuedKeys, KeyRef
  <2> QED BY <1>1, <2>1, <2>2, AccountConstants DEF KeysInv
<1>3. /\ \A ref : KeyOf(ref)' = KeyOf(ref)
      /\ \A k : Key(k)' = Key(k)
      /\ \A k : Enabled(k)' <=> Enabled(k)
      /\ StoredKeys' = StoredKeys
  BY <1>1 DEF Key, KeyOf, StoredKeys, Enabled
<1>4. load.serial => OneKeyPerName' /\ KeyTablesAgree'
  <2> SUFFICES ASSUME load.serial PROVE OneKeyPerName' /\ KeyTablesAgree'
    OBVIOUS
  <2>1. OneKeyPerName /\ KeyTablesAgree
    BY ActiveClient
  <2> QED BY <1>1, <1>3, <2>1 DEF OneKeyPerName, KeyTablesAgree
<1>5. load.serial => KeyAlone(call[c])'
  <2>1. \A r : Spare(r)' <=> Spare(r)
    BY <1>1, <1>3 DEF Spare
  <2> QED BY <1>1, <1>3, <2>1 DEF KeyAlone
<1>6. Unrefreshed => \A k \in KeyIDs : CachedKey(call[c], k)'
  <2> SUFFICES ASSUME Unrefreshed, NEW k \in KeyIDs, keyCache'[FirstNode][k] # NoRow PROVE CachedKey(call[c], k)'
    BY DEF CachedKey
  <2>1. PICK ref : ref = keyCache'[FirstNode][k]
    OBVIOUS
  <2>2. KeyFits(ref, k) /\ (call'[c].at = "deleteKey" => call'[c].in.id # k)
    BY <2>1
  <2>3. KeyOf(keyCache[FirstNode][k])' = KeyOf(ref)
    BY <1>1, <2>1 DEF KeyOf
  <2>4. KeyFits(keyCache[FirstNode][k], k)'
    BY <1>1, <1>3, <2>2, <2>3 DEF KeyFits
  <2>5. KeyOf(ref).id = k
    BY <2>2 DEF KeyFits
  <2> QED BY <2>2, <2>3, <2>4, <2>5 DEF CachedKey
<1>7. EnabledAsAsked /\ KeyIsKept
  BY <1>3 DEF EnabledAsAsked, KeyIsKept
<1>8. KeySide(c)
  BY <1>2, <1>4, <1>5, <1>6, <1>7 DEF KeySide
<1>9. UserSide(c)
  BY <1>1, UserSideRest DEF UserStages
<1>10. CachesInv'
  <2>1. \A n \in Nodes, p \in Creds : credCache[n][p] # NoRow => \E u \in IssuedUsers' : UserRef(credCache[n][p], u)'
    <3>1. \A n \in Nodes, p \in Creds : credCache[n][p] # NoRow => \E u \in IssuedUsers : UserRef(credCache[n][p], u)
      BY <1>2 DEF CachesInv
    <3>2. IssuedUsers' = IssuedUsers
      BY <1>1 DEF IssuedUsers
    <3> QED BY <1>1, <3>1, <3>2 DEF UserRef
  <2>2. \A n \in Nodes, k \in KeyIDs : keyCache'[n][k] # NoRow => HashRef(keyCache[n][k], k)' /\ k < nextKey'
    BY <1>1 DEF HashRef
  <2>3. \A n \in Nodes : listed[n] # NoRow =>
          \A k \in KeyIDs \cap DOMAIN listed[n] : KeyRef(listed[n][k], k)' /\ k < nextKey'
    BY <1>1, <1>2 DEF CachesInv, KeyRef
  <2> QED BY <1>1, <1>2, <2>1, <2>2, <2>3 DEF CachesInv
<1> QED BY <1>1, <1>8, <1>9, <1>10, StepInv DEF Good, KeySide

\* A key that a request has made or found goes into the cache of the node.
LEMMA KeyCached ==
  ASSUME AccountsInv, NEW c \in ActiveClients, UNCHANGED <<backend, load>>, UNCHANGED <<tableVars, credCache, listed>>,
         Moves(c), Request(call[c])', call[c].at \in {"cacheKey", "cacheFound"}, call'[c].at \in {"done", "revoke", "lastUsed"},
         load.serial => KeyAlone(call'[c]),
         NEW node \in Nodes, load.serial => node = FirstNode,
         NEW id \in KeyIDs, id < nextKey, NEW ref, HashRef(ref, id), load.serial => KeyFits(ref, id),
         keyCache' = [keyCache EXCEPT ![node][id] = ref]
  PROVE  Good
<1>1. CachesInv
  BY InvParts
<1>2. ref \in KeyRow \cup Pointer(KeyIDs) \cup {NoRow}
  BY DEF HashRef, Pointer
<1>3. PICK new : new = [keyCache[node] EXCEPT ![id] = ref]
  OBVIOUS
<1>4. keyCache' = [keyCache EXCEPT ![node] = new]
  BY <1>3
<1>5. keyCache[node] \in [KeyIDs -> KeyRow \cup Pointer(KeyIDs) \cup {NoRow}]
  BY <1>1 DEF CachesInv
<1>6. /\ new \in [KeyIDs -> KeyRow \cup Pointer(KeyIDs) \cup {NoRow}]
      /\ new[id] = ref /\ \A k \in KeyIDs : k # id => new[k] = keyCache[node][k]
  BY <1>2, <1>3, <1>5
<1>7. /\ keyCache' \in [Nodes -> [KeyIDs -> KeyRow \cup Pointer(KeyIDs) \cup {NoRow}]]
      /\ keyCache'[node] = new /\ \A n \in Nodes : n # node => keyCache'[n] = keyCache[n]
  BY <1>1, <1>4, <1>6 DEF CachesInv
<1>8. /\ keyCache'[node][id] = ref
      /\ \A n \in Nodes, k \in KeyIDs : n # node \/ k # id => keyCache'[n][k] = keyCache[n][k]
  BY <1>6, <1>7
<1>9. ASSUME NEW n \in Nodes, NEW k \in KeyIDs, keyCache'[n][k] # NoRow PROVE HashRef(keyCache'[n][k], k) /\ k < nextKey
  <2>1. CASE n = node /\ k = id
    BY <1>8, <2>1
  <2>2. CASE n # node \/ k # id
    BY <1>1, <1>8, <1>9, <2>2 DEF CachesInv
  <2> QED BY <2>1, <2>2
<1>10. ASSUME Unrefreshed, NEW k \in KeyIDs, keyCache'[FirstNode][k] # NoRow PROVE KeyFits(keyCache'[FirstNode][k], k)
  <2>1. node = FirstNode
    BY <1>10 DEF Unrefreshed
  <2>2. CASE k = id
    BY <1>8, <1>10, <2>1, <2>2 DEF Unrefreshed
  <2>3. CASE k # id
    <3>1. CachedKey(call[c], k)
      BY <1>10, ActiveClient DEF Unrefreshed
    <3>2. keyCache'[FirstNode][k] = keyCache[FirstNode][k]
      BY <1>8, <2>1, <2>3
    <3> QED BY <1>10, <3>1, <3>2 DEF CachedKey
  <2> QED BY <2>2, <2>3
<1> QED BY <1>7, <1>9, <1>10, KeyCacheStep

\* A key that is created goes there, and a rotation goes on to revoke the old one.
LEMMA CreatedCached ==
  ASSUME AccountsInv, NEW c \in ActiveClients, UNCHANGED <<backend, load>>, CreateAPIKey(c), call[c].at = "cacheKey"
  PROVE  Good
<1>1. Request(call[c]) /\ KeysInv /\ UsersInv
  BY ActiveClient, InvParts
<1>2. PICK node, g : node = call[c].in.node /\ g = call[c].got
  OBVIOUS
<1>3. call[c].op \in {"CreateAPIKey", "RotateAPIKey"} /\ node \in Nodes /\ (load.serial => node = FirstNode)
  BY <1>1, <1>2 DEF Request, Stage, Params
<1>4. PICK id \in IssuedKeys : KeyRef(g, id)
  BY <1>1, <1>2 DEF Request, InHand
<1>5. id \in KeyIDs /\ id < nextKey /\ HashRef(g, id)
  BY <1>4, Issued DEF KeyRef, HashRef
<1>6. KeyOf(g).id = id
  BY <1>1, <1>4, <1>5, KeyOfRef
<1>7. /\ keyCache' = [keyCache EXCEPT ![node][id] = g]
      /\ IF call[c].op = "RotateAPIKey" THEN Goto(c, "revoke", NoRow) ELSE Reply(c, "nil")
      /\ UNCHANGED <<tableVars, credCache, listed>>
  BY <1>2, <1>6 DEF CreateAPIKey
<1>8. load.serial => KeyAlone(call[c])
  BY ActiveClient
<1>9. load.serial => KeyFits(g, id)
  BY <1>2, <1>6, <1>8 DEF KeyAlone
<1>10. nextUser' = nextUser /\ nextKey' = nextKey
  BY <1>7 DEF tableVars, userTables, keyTables
<1>11. CASE call[c].op = "RotateAPIKey"
  <2>1. Goto(c, "revoke", NoRow)
    BY <1>7, <1>11
  <2>2. /\ Moves(c) /\ call'[c].op = call[c].op /\ call'[c].at = "revoke" /\ call'[c].in = call[c].in
    BY <2>1, GotoKeeps
  <2>3. nextUser <= nextUser' /\ nextUser' \in Nat /\ nextKey <= nextKey' /\ nextKey' \in Nat
    BY <1>1, <1>10, AccountConstants DEF UsersInv, KeysInv
  <2>4. InHand(call[c])'
    BY <1>1, <1>10, <1>11, <2>2 DEF Request, InHand, UserTarget
  <2>5. Stage([op |-> call[c].op, at |-> "revoke"])
    BY <1>11 DEF Stage
  <2>6. Request(call[c])'
    BY <2>1, <2>3, <2>4, <2>5, GotoGood
  <2>7. load.serial => KeyAlone(call'[c])
    <3>1. load.serial => Spare(call[c])
      BY <1>8, <1>11 DEF KeyAlone
    <3>2. load.serial => Spare(call'[c])
      BY <2>2, <3>1 DEF Spare
    <3> QED BY <2>2, <3>2 DEF KeyAlone
  <2> QED BY <1>3, <1>5, <1>7, <1>9, <2>2, <2>6, <2>7, KeyCached
<1>12. CASE call[c].op # "RotateAPIKey"
  <2>1. Moves(c) /\ Request(call[c])' /\ call'[c].at = "done"
    BY <1>7, <1>12, ReplyGood
  <2>2. KeyAlone(call'[c])
    BY <2>1 DEF KeyAlone
  <2> QED BY <1>3, <1>5, <1>7, <1>9, <2>1, <2>2, KeyCached
<1> QED BY <1>11, <1>12

\* A key that a validation has found goes there, and the validation ends or notes the time.
LEMMA FoundCached ==
  ASSUME AccountsInv, NEW c \in ActiveClients, UNCHANGED <<backend, load>>, ValidateAPIKey(c), call[c].at = "cacheFound"
  PROVE  Good
<1>1. Request(call[c]) /\ KeysInv /\ UsersInv
  BY ActiveClient, InvParts
<1>2. PICK node, id, g : node = call[c].in.node /\ id = call[c].in.id /\ g = call[c].got
  OBVIOUS
<1>3. /\ call[c].op = "ValidateAPIKey" /\ node \in Nodes /\ (load.serial => node = FirstNode)
      /\ id \in KeyIDs /\ id < nextKey /\ HashRef(g, id)
  BY <1>1, <1>2 DEF Request, Stage, Params, InHand, KeyTarget
<1>4. /\ keyCache' = [keyCache EXCEPT ![node][id] = g] /\ UNCHANGED <<tableVars, credCache, listed>>
      /\ Reply(c, "disabled") \/ Goto(c, "lastUsed", g) \/ Reply(c, "nil")
  BY <1>2 DEF ValidateAPIKey, At, Begin, Verdict
<1>5. load.serial => KeyFits(g, id)
  <2> SUFFICES ASSUME load.serial PROVE KeyFits(g, id)
    OBVIOUS
  <2>1. KeyAlone(call[c])
    BY ActiveClient
  <2> QED BY <1>2, <2>1 DEF KeyAlone
<1>6. nextUser' = nextUser /\ nextKey' = nextKey
  BY <1>4 DEF tableVars, userTables, keyTables
<1>7. CASE Goto(c, "lastUsed", g)
  <2>1. /\ Moves(c) /\ call'[c].op = call[c].op /\ call'[c].at = "lastUsed" /\ call'[c].in = call[c].in /\ call'[c].got = g
    BY <1>7, GotoKeeps
  <2>2. nextUser <= nextUser' /\ nextUser' \in Nat /\ nextKey <= nextKey' /\ nextKey' \in Nat
    BY <1>1, <1>6, AccountConstants DEF UsersInv, KeysInv
  <2>3. InHand(call[c])'
    BY <1>2, <1>3, <1>6, <2>1 DEF InHand, UserTarget, HashRef
  <2>4. Stage([op |-> call[c].op, at |-> "lastUsed"])
    BY <1>3 DEF Stage
  <2>5. Request(call[c])'
    BY <1>7, <2>2, <2>3, <2>4, GotoGood
  <2>6. KeyAlone(call'[c])
    BY <2>1 DEF KeyAlone
  <2> QED BY <1>3, <1>4, <1>5, <2>1, <2>5, <2>6, KeyCached
<1>8. CASE Reply(c, "disabled") \/ Reply(c, "nil")
  <2>1. Moves(c) /\ Request(call[c])' /\ call'[c].at = "done"
    BY <1>8, ReplyGood
  <2>2. KeyAlone(call'[c])
    BY <2>1 DEF KeyAlone
  <2> QED BY <1>3, <1>4, <1>5, <2>1, <2>2, KeyCached
<1> QED BY <1>4, <1>7, <1>8

\* A key leaves the cache of the node.
LEMMA KeyInvalidated ==
  ASSUME AccountsInv, NEW c \in ActiveClients, UNCHANGED <<backend, load>>, InvalidateAPIKeyCache(c)
  PROVE  Good
<1>1. Request(call[c]) /\ KeysInv /\ UsersInv /\ CachesInv
  BY ActiveClient, InvParts
<1>2. PICK node, id : node = call[c].in.node /\ id = call[c].in.id
  OBVIOUS
<1>3. call[c].op \in KeyTarget /\ node \in Nodes /\ id \in KeyIDs /\ id < nextKey /\ (load.serial => node = FirstNode)
  BY <1>1, <1>2 DEF InvalidateAPIKeyCache, Request, Stage, Params, InHand, KeyTarget
<1>4. PICK new : new = [k \in KeyIDs |-> IF /\ keyCache[node][k] # NoRow
                                            /\ KeyOf(keyCache[node][k]).id = id
                                         THEN NoRow ELSE keyCache[node][k]]
  OBVIOUS
<1>5. keyCache' = [keyCache EXCEPT ![node] = new]
  BY <1>2, <1>4 DEF InvalidateAPIKeyCache, Node
<1>6. \A k \in KeyIDs : new[k] \in {NoRow, keyCache[node][k]} /\ (new[k] # NoRow => KeyOf(new[k]).id # id)
  BY <1>4
<1>7. keyCache' \in [Nodes -> [KeyIDs -> KeyRow \cup Pointer(KeyIDs) \cup {NoRow}]]
  <2>1. new \in [KeyIDs -> KeyRow \cup Pointer(KeyIDs) \cup {NoRow}]
    BY <1>1, <1>3, <1>4 DEF CachesInv
  <2> QED BY <1>1, <1>5, <2>1 DEF CachesInv
<1>8. /\ keyCache'[node] = new /\ \A n \in Nodes : n # node => keyCache'[n] = keyCache[n]
  BY <1>1, <1>3, <1>5 DEF CachesInv
<1>9. \A n \in Nodes, k \in KeyIDs : keyCache'[n][k] \in {NoRow, keyCache[n][k]}
  BY <1>6, <1>8
<1>10. \A n \in Nodes, k \in KeyIDs : keyCache'[n][k] # NoRow => HashRef(keyCache'[n][k], k) /\ k < nextKey
  BY <1>1, <1>9 DEF CachesInv
<1>11. Unrefreshed => \A k \in KeyIDs : keyCache'[FirstNode][k] # NoRow => KeyFits(keyCache'[FirstNode][k], k) /\ id # k
  <2> SUFFICES ASSUME Unrefreshed, NEW k \in KeyIDs, keyCache'[FirstNode][k] # NoRow
               PROVE  KeyFits(keyCache'[FirstNode][k], k) /\ id # k
    OBVIOUS
  <2>1. node = FirstNode /\ CachedKey(call[c], k)
    BY <1>3, ActiveClient DEF Unrefreshed
  <2>2. keyCache'[FirstNode][k] = keyCache[FirstNode][k] /\ KeyOf(keyCache[FirstNode][k]).id # id
    BY <1>6, <1>8, <2>1
  <2> QED BY <1>2, <2>1, <2>2 DEF CachedKey
<1>12. /\ call[c].at = "invalidateKey" /\ UNCHANGED <<tableVars, credCache, listed>>
       /\ nextUser' = nextUser /\ nextKey' = nextKey
  BY DEF InvalidateAPIKeyCache, tableVars, userTables, keyTables
<1>13. CASE call[c].op = "DeleteAPIKey" /\ Goto(c, "deleteKey", NoRow)
  <2>1. /\ Moves(c) /\ call'[c].op = call[c].op /\ call'[c].at = "deleteKey" /\ call'[c].in = call[c].in
    BY <1>13, GotoKeeps
  <2>2. nextUser <= nextUser' /\ nextUser' \in Nat /\ nextKey <= nextKey' /\ nextKey' \in Nat
    BY <1>1, <1>12, AccountConstants DEF UsersInv, KeysInv
  <2>3. InHand(call[c])'
    BY <1>1, <1>12, <1>13, <2>1 DEF Request, InHand, UserTarget
  <2>4. Stage([op |-> call[c].op, at |-> "deleteKey"])
    BY <1>13 DEF Stage
  <2>5. Request(call[c])'
    BY <1>13, <2>2, <2>3, <2>4, GotoGood
  <2>6. KeyAlone(call'[c])
    BY <1>13, <2>1 DEF KeyAlone
  <2> QED BY <1>2, <1>7, <1>10, <1>11, <1>12, <2>1, <2>5, <2>6, KeyCacheStep
<1>14. CASE Reply(c, "nil")
  <2>1. Moves(c) /\ Request(call[c])' /\ call'[c].at = "done"
    BY <1>14, ReplyGood
  <2>2. KeyAlone(call'[c])
    BY <2>1 DEF KeyAlone
  <2> QED BY <1>7, <1>10, <1>11, <1>12, <2>1, <2>2, KeyCacheStep
<1> QED BY <1>13, <1>14 DEF InvalidateAPIKeyCache


-----------------------------------------------------------------------------
(* The stores write keys.                                                  *)

\* The four backends create a key.
LEMMA KeyCreates ==
  ASSUME AccountsInv, NEW c \in ActiveClients, UNCHANGED <<backend, load>>, UNCHANGED caches,
         \/ backend = "memory" /\ MemCreateAPIKey(c)
         \/ backend \in {"postgres", "mysql"} /\ PgCreateAPIKey(c)
         \/ backend = "cassandra" /\ CasCreateAPIKey(c)
  PROVE  Good
<1>1. CASE backend = "memory" /\ MemCreateAPIKey(c)
  BY <1>1, KeyInserted DEF MemCreateAPIKey
<1>2. CASE backend \in {"postgres", "mysql"} /\ PgCreateAPIKey(c)
  <2>1. call[c].at = "createKey" /\ UNCHANGED userTables
    BY <1>2 DEF PgCreateAPIKey
  <2>2. CASE call[c].in.user \notin StoredUsers
    <3>1. Reply(c, "foreignKey") /\ UNCHANGED <<tableVars, caches>>
      BY <1>2, <2>2 DEF PgCreateAPIKey, tableVars
    <3> QED BY <2>1, <3>1, Answers
  <2>3. CASE call[c].in.user \in StoredUsers
    <3>1. InsertKey(c) /\ byUser' = byUser /\ byHash' = byHash
      BY <1>2, <2>3 DEF PgCreateAPIKey
    <3> QED BY <1>2, <2>1, <3>1, KeyInserted
  <2> QED BY <2>2, <2>3
<1>3. CASE backend = "cassandra" /\ CasCreateAPIKey(c)
  BY <1>3, KeyInserted DEF CasCreateAPIKey
<1> QED BY <1>1, <1>2, <1>3

\* The four backends update a key.
LEMMA KeyUpdates ==
  ASSUME AccountsInv, NEW c \in ActiveClients, UNCHANGED <<backend, load>>, UNCHANGED caches,
         \/ backend = "memory" /\ MemUpdateAPIKey(c)
         \/ backend = "postgres" /\ PgUpdateAPIKey(c)
         \/ backend = "mysql" /\ MyUpdateAPIKey(c)
         \/ backend = "cassandra" /\ CasUpdateAPIKey(c)
  PROVE  Good
<1>1. Request(call[c]) /\ KeysInv
  BY ActiveClient, InvParts
<1>2. PICK id, g : id = call[c].in.id /\ g = call[c].got
  OBVIOUS
<1>3. call[c].at \in {"updateKey", "putKey"}
  BY DEF MemUpdateAPIKey, PgUpdateAPIKey, MyUpdateAPIKey, CasUpdateAPIKey
<1>4. KeyRef(g, id) /\ id \in KeyIDs /\ id < nextKey
  BY <1>1, <1>2, <1>3 DEF Request, Stage, Params, InHand, KeyTarget
<1>5. KeyOf(g).id = id /\ (backend # "memory" => g.id = id)
  BY <1>1, <1>4, KeyOfRef DEF KeyOf
<1>6. ASSUME NEW when \in BOOLEAN, NEW err, ReplaceKey(c, when, err), UNCHANGED userTables, backend # "cassandra",
             call[c].at = "updateKey", when => keys[id] # NoRow
      PROVE  Good
  <2>1. CASE ~when
    <3>1. UNCHANGED <<tableVars, caches>> /\ Fail(c, err)
      BY <1>6, <2>1 DEF ReplaceKey, tableVars, keyTables
    <3> QED BY <1>6, <3>1, Answers
  <2>2. CASE when
    <3>1. /\ keys' = [keys EXCEPT ![id] = g] /\ Goto(c, "invalidateKey", NoRow)
          /\ UNCHANGED <<byUser, byHash, keyObj, nextKey>>
      BY <1>2, <1>5, <1>6, <2>2 DEF ReplaceKey
    <3>2. /\ keys[call[c].in.id] # NoRow /\ keys' = [keys EXCEPT ![call[c].in.id] = call[c].got]
      BY <1>2, <1>6, <2>2, <3>1
    <3> QED BY <1>6, <3>1, <3>2, KeyReplaced
  <2> QED BY <2>1, <2>2
<1>7. CASE backend = "memory" /\ MemUpdateAPIKey(c)
  <2>1. PICK when \in BOOLEAN : when <=> keys[id] # NoRow
    OBVIOUS
  <2>2. ReplaceKey(c, when, "notFound") /\ UNCHANGED userTables /\ call[c].at = "updateKey"
    BY <1>2, <1>5, <1>7, <2>1 DEF MemUpdateAPIKey, ReplaceKey
  <2> QED BY <1>6, <1>7, <2>1, <2>2
<1>8. CASE backend = "postgres" /\ PgUpdateAPIKey(c)
  <2>1. PICK when \in BOOLEAN : when <=> keys[id] # NoRow /\ g.user \in StoredUsers
    OBVIOUS
  <2>2. PICK err : err = IF keys[id] = NoRow THEN "notFound" ELSE "foreignKey"
    OBVIOUS
  <2>3. ReplaceKey(c, when, err) /\ UNCHANGED userTables /\ call[c].at = "updateKey"
    BY <1>2, <1>5, <1>8, <2>1, <2>2 DEF PgUpdateAPIKey, ReplaceKey
  <2> QED BY <1>6, <1>8, <2>1, <2>3
<1>9. CASE backend = "mysql" /\ MyUpdateAPIKey(c)
  <2>1. PICK when \in BOOLEAN : when <=> keys[id] \notin {NoRow, g} /\ g.user \in StoredUsers
    OBVIOUS
  <2>2. PICK err : err = IF keys[id] \in {NoRow, g} THEN "notFound" ELSE "foreignKey"
    OBVIOUS
  <2>3. ReplaceKey(c, when, err) /\ UNCHANGED userTables /\ call[c].at = "updateKey"
    BY <1>2, <1>5, <1>9, <2>1, <2>2 DEF MyUpdateAPIKey, ReplaceKey
  <2> QED BY <1>6, <1>9, <2>1, <2>3
<1>10. CASE backend = "cassandra" /\ CasUpdateAPIKey(c)
  BY <1>3, <1>10, CasKeyReads, CasKeyPut
<1> QED BY <1>7, <1>8, <1>9, <1>10

\* The four backends delete a key.
LEMMA KeyDeletes ==
  ASSUME AccountsInv, NEW c \in ActiveClients, UNCHANGED <<backend, load>>, UNCHANGED caches,
         \/ backend \in {"memory", "postgres", "mysql"} /\ MemDeleteAPIKey(c)
         \/ backend = "cassandra" /\ CasDeleteAPIKey(c)
  PROVE  Good
<1>1. Request(call[c]) /\ KeysInv
  BY ActiveClient, InvParts
<1>2. PICK id, g : id = call[c].in.id /\ g = call[c].got
  OBVIOUS
<1>3. CASE backend \in {"memory", "postgres", "mysql"} /\ MemDeleteAPIKey(c)
  <2>1. PICK err : err = IF keys[id] = NoRow THEN "notFound" ELSE "nil"
    OBVIOUS
  <2>2. /\ call[c].at = "deleteKey" /\ keys' = [keys EXCEPT ![id] = NoRow] /\ Reply(c, err)
        /\ byHash' = byHash /\ keyObj' = keyObj /\ nextKey' = nextKey /\ UNCHANGED userTables
    BY <1>2, <1>3, <2>1 DEF MemDeleteAPIKey
  <2> QED BY <1>2, <1>3, <2>2, KeyDropped
<1>4. CASE backend = "cassandra" /\ CasDeleteAPIKey(c)
  <2>1. CASE call[c].at = "deleteKey"
    BY <1>4, <2>1, CasKeyReads
  <2>2. CASE call[c].at # "deleteKey"
    <3>1. /\ call[c].at = "dropKey" /\ keys' = [keys EXCEPT ![id] = NoRow]
          /\ byUser' = byUser \ {<<g.user, id>>}
          /\ byHash' = IF Ghost(g) THEN byHash ELSE [byHash EXCEPT ![id] = NoRow]
          /\ Reply(c, "nil") /\ keyObj' = keyObj /\ nextKey' = nextKey /\ UNCHANGED userTables
      BY <1>2, <1>4, <2>2 DEF CasDeleteAPIKey
    <3>2. id \in KeyIDs
      BY <1>1, <1>2, <3>1 DEF Request, Stage, Params
    <3>3. ASSUME load.serial
          PROVE  byHash' = [byHash EXCEPT ![id] = NoRow] /\ byUser' = byUser \ {<<keys[id].user, id>>}
      <4>1. KeyAlone(call[c]) /\ KeyTablesAgree
        BY <3>3, ActiveClient
      <4>2. keys[id] # NoRow /\ g = keys[id]
        BY <1>2, <3>1, <4>1 DEF KeyAlone
      <4>3. g.user # 0
        BY <1>4, <3>2, <4>1, <4>2 DEF KeyTablesAgree, StoredKeys
      <4> QED BY <3>1, <4>2, <4>3 DEF Ghost
    <3>4. byHash' \in {byHash, [byHash EXCEPT ![id] = NoRow]}
      BY <3>1
    <3> QED BY <1>2, <3>1, <3>3, <3>4, KeyDropped
  <2> QED BY <2>1, <2>2
<1> QED BY <1>3, <1>4

\* Every write of a store.
LEMMA StoreGood ==
  ASSUME AccountsInv, NEW c \in ActiveClients, UNCHANGED <<backend, load>>, StoreStep(c), UNCHANGED caches
  PROVE  Good
<1>1. CASE backend = "memory" /\ MemStep(c)
  BY <1>1, UserCreates, UserUpdates, UserDeletes, KeyCreates, KeyUpdates, KeyDeletes DEF MemStep
<1>2. CASE backend = "postgres" /\ PgStep(c)
  BY <1>2, UserCreates, UserUpdates, UserDeletes, KeyCreates, KeyUpdates, KeyDeletes DEF PgStep, PgDeleteAPIKey
<1>3. CASE backend = "mysql" /\ MyStep(c)
  BY <1>3, UserCreates, UserUpdates, UserDeletes, KeyCreates, KeyUpdates, KeyDeletes
     DEF MyStep, MyCreateUser, MyUpdateUser, MyDeleteUser, MyCreateAPIKey, MyDeleteAPIKey
<1>4. CASE backend = "cassandra" /\ CasStep(c)
  <2>1. CASE CasUpdateAPIKeyLastUsed(c)
    BY <1>4, <2>1, CasKeyReads, CasTouched DEF CasUpdateAPIKeyLastUsed
  <2>2. CASE ~CasUpdateAPIKeyLastUsed(c)
    BY <1>4, <2>2, UserCreates, UserUpdates, UserDeletes, KeyCreates, KeyUpdates, KeyDeletes DEF CasStep
  <2> QED BY <2>1, <2>2
<1> QED BY <1>1, <1>2, <1>3, <1>4 DEF StoreStep

-----------------------------------------------------------------------------
(* Every step.                                                             *)

\* Every step of the service.
LEMMA ServiceGood ==
  ASSUME AccountsInv, NEW c \in ActiveClients, UNCHANGED <<backend, load>>, ServiceStep(c)
  PROVE  Good
<1>1. CASE BootstrapAdmin(c)
  BY <1>1, UserBegins, UserReadSteps
<1>2. CASE UpdateUser(c) \/ ChangePassword(c)
  BY <1>2, UserGets
<1>3. CASE InvalidateUserCredCacheByID(c)
  BY <1>3, UserInvalidated
<1>4. CASE ValidateCredentials(c)
  <2>1. call[c].at \in {"done", "cached", "byName", "cacheCred"}
    BY <1>4 DEF ValidateCredentials, At, Begin
  <2> QED BY <1>4, <2>1, ValidationBegins, UserReadSteps, CredsValidated
<1>5. CASE HandleCreateAPIKey(c)
  BY <1>5, KeyBegins, CreateKeyReads
<1>6. CASE CreateAPIKey(c)
  <2>1. call[c].at \in {"checkName", "cacheKey"}
    BY <1>6 DEF CreateAPIKey
  <2> QED BY <1>6, <2>1, CreateKeyReads, CreatedCached
<1>7. CASE ValidateAPIKey(c)
  <2>1. call[c].at \in {"done", "cached", "byHash", "cacheFound"}
    BY <1>7 DEF ValidateAPIKey, At, Begin
  <2> QED BY <1>7, <2>1, ValidationBegins, ValidateKeyReads, FoundCached
<1>8. CASE UpdateAPIKey(c)
  BY <1>8, KeyGets
<1>9. CASE RevokeAPIKey(c)
  BY <1>9, KeyRevoked
<1>10. CASE InvalidateAPIKeyCache(c)
  BY <1>10, KeyInvalidated
<1>11. CASE RotateAPIKey(c)
  BY <1>11, RotateReads
<1>12. CASE StoreStep(c) /\ UNCHANGED caches
  BY <1>12, StoreGood
<1> QED BY <1>1, <1>2, <1>3, <1>4, <1>5, <1>6, <1>7, <1>8, <1>9, <1>10, <1>11, <1>12 DEF ServiceStep

\* Every step keeps the invariant and changes keys only as asked.
LEMMA NextGood ==
  ASSUME AccountsInv, Next
  PROVE  Good
<1>1. ASSUME NEW c \in ActiveClients, BeginStep(c) \/ ServiceStep(c) \/ Disconnect(c), UNCHANGED <<backend, load>>
      PROVE  Good
  <2>1. CASE BeginStep(c)
    BY <1>1, <2>1, UserBegins, KeyBegins DEF BeginStep
  <2>2. CASE ServiceStep(c)
    BY <1>1, <2>2, ServiceGood
  <2>3. CASE Disconnect(c)
    BY <1>1, <2>3, DisconnectGood
  <2> QED BY <1>1, <2>1, <2>2, <2>3
<1>2. ASSUME NEW n \in Nodes, RefreshList(n) \/ RefreshStore(n)
      PROVE  Good
  BY <1>2, RefreshListGood, RefreshStoreGood
<1>3. ASSUME NEW n \in Nodes, NEW cred \in UserNames \X Passwords, Expire(n, cred)
      PROVE  Good
  BY <1>3, ExpireGood DEF Creds
<1> QED BY <1>1, <1>2, <1>3 DEF Next


\* A step that changes nothing keeps the invariant.
LEMMA AccountsStutter ==
  ASSUME AccountsInv, UNCHANGED vars
  PROVE  AccountsInv'
<1>1. /\ UNCHANGED <<backend, load, call, tableVars>> /\ UNCHANGED caches
      /\ users' = users /\ names' = names /\ userObj' = userObj /\ nextUser' = nextUser
      /\ keys' = keys /\ byUser' = byUser /\ byHash' = byHash /\ keyObj' = keyObj /\ nextKey' = nextKey
      /\ call' = call /\ backend' = backend /\ load' = load
      /\ keyCache' = keyCache /\ credCache' = credCache /\ listed' = listed
  BY DEF vars, tableVars, userTables, keyTables, caches
<1>2. CachesInv
  BY InvParts
<1>3. CachesInv'
  <2>1. UsersInv /\ KeysInv /\ UNCHANGED <<backend, load>>
    BY <1>1, InvParts
  <2>2. UsersInv'
    BY <1>1, <2>1 DEF UsersInv, StoredUsers, IssuedUsers, UserRef
  <2>3. KeysInv'
    BY <1>1, <2>1 DEF KeysInv, StoredKeys, IssuedKeys, KeyRef
  <2>4. nextUser <= nextUser' /\ nextKey <= nextKey'
    BY <1>1, <2>1, AccountConstants DEF UsersInv, KeysInv
  <2> QED BY <1>1, <1>2, <2>1, <2>2, <2>3, <2>4, CachesRest
<1>4. Unrefreshed => /\ \A k \in KeyIDs : CachedKey(call[FirstClient], k)'
                     /\ \A p \in Creds : CachedCred(call[FirstClient], p)'
                     /\ \A n \in Nodes : listed'[n] = NoRow
  <2> SUFFICES ASSUME Unrefreshed
               PROVE  /\ \A k \in KeyIDs : CachedKey(call[FirstClient], k)'
                      /\ \A p \in Creds : CachedCred(call[FirstClient], p)'
                      /\ \A n \in Nodes : listed'[n] = NoRow
    OBVIOUS
  <2>1. Alone
    BY DEF AccountsInv, Unrefreshed
  <2>2. \A k \in KeyIDs : CachedKey(call[FirstClient], k)'
    <3>1. \A k \in KeyIDs : CachedKey(call[FirstClient], k)
      BY <2>1 DEF Alone, Unrefreshed
    <3> QED BY <1>1, <3>1 DEF CachedKey, KeyFits, Key, KeyOf
  <2>3. \A p \in Creds : CachedCred(call[FirstClient], p)'
    <3>1. \A p \in Creds : CachedCred(call[FirstClient], p)
      BY <2>1 DEF Alone, Unrefreshed
    <3> QED BY <1>1, <3>1 DEF CachedCred, Written, CredFits, User, UserOf
  <2> QED BY <1>1, <2>1, <2>2, <2>3 DEF Alone, Unrefreshed
<1> QED BY <1>1, <1>3, <1>4, Background DEF Good

-----------------------------------------------------------------------------
(* The initial states.                                                     *)

\* The tables at the start: empty, or with a user and a key of hers.
LEMMA FirstRows ==
  ASSUME Init
  PROVE  \E name \in UserNames, user \in UserRow, key \in KeyRow :
           /\ user.id = 1 /\ user.name = name /\ key.id = 1 /\ key.user = 1
           /\ users = [i \in UserIDs |-> IF i = 1 /\ load.stored THEN Held(user) ELSE NoRow]
           /\ keys = [i \in KeyIDs |-> IF i = 1 /\ load.stored THEN Held(key) ELSE NoRow]
           /\ names = [n \in UserNames |-> IF n = name /\ load.stored /\ backend \in {"memory", "cassandra"} THEN 1 ELSE 0]
           /\ byUser = IF load.stored /\ backend = "cassandra" THEN {<<1, 1>>} ELSE {}
           /\ byHash = [i \in KeyIDs |-> IF i = 1 /\ load.stored /\ backend = "cassandra" THEN key ELSE NoRow]
           /\ userObj = [i \in UserIDs |-> IF i = 1 /\ load.stored /\ backend = "memory" THEN user ELSE NoRow]
           /\ keyObj = [i \in KeyIDs |-> IF i = 1 /\ load.stored /\ backend = "memory" THEN key ELSE NoRow]
<1>1. PICK name, user, key :
        /\ name = CHOOSE n \in UserNames : TRUE
        /\ user = [id |-> 1, name |-> name, pw |-> CHOOSE p \in Passwords : TRUE, email |-> NoRow, enabled |-> TRUE]
        /\ key = [id |-> 1, user |-> 1, name |-> CHOOSE n \in KeyNames : TRUE, enabled |-> TRUE]
  OBVIOUS
<1>2. /\ name \in UserNames /\ (CHOOSE p \in Passwords : TRUE) \in Passwords /\ (CHOOSE n \in KeyNames : TRUE) \in KeyNames
      /\ 1 \in UserIDs /\ 1 \in 0..MaxKey /\ 1 \in 0..MaxUser
  BY <1>1, AccountConstants DEF UserIDs
<1>3. user \in UserRow /\ user.id = 1 /\ user.name = name
  BY <1>1, <1>2 DEF UserRow
<1>4. key \in KeyRow /\ key.id = 1 /\ key.user = 1
  BY <1>1, <1>2 DEF KeyRow
<1>5. /\ users = [i \in UserIDs |-> IF i = 1 /\ load.stored THEN Held(user) ELSE NoRow]
      /\ keys = [i \in KeyIDs |-> IF i = 1 /\ load.stored THEN Held(key) ELSE NoRow]
      /\ names = [n \in UserNames |-> IF n = name /\ (load.stored /\ backend \in {"memory", "cassandra"}) THEN 1 ELSE 0]
      /\ byUser = IF load.stored /\ backend = "cassandra" THEN {<<1, 1>>} ELSE {}
      /\ byHash = IF backend = "cassandra" THEN [i \in KeyIDs |-> IF i = 1 /\ load.stored THEN key ELSE NoRow]
                  ELSE [k \in KeyIDs |-> NoRow]
      /\ userObj = IF backend = "memory" THEN [i \in UserIDs |-> IF i = 1 /\ load.stored THEN user ELSE NoRow]
                   ELSE [u \in UserIDs |-> NoRow]
      /\ keyObj = IF backend = "memory" THEN [i \in KeyIDs |-> IF i = 1 /\ load.stored THEN key ELSE NoRow]
                  ELSE [k \in KeyIDs |-> NoRow]
  BY <1>1 DEF Init
<1>6. byHash = [i \in KeyIDs |-> IF i = 1 /\ load.stored /\ backend = "cassandra" THEN key ELSE NoRow]
  <2>1. CASE backend = "cassandra"
    BY <1>5, <2>1
  <2>2. CASE backend # "cassandra"
    BY <1>5, <2>2
  <2> QED BY <2>1, <2>2
<1>7. /\ userObj = [i \in UserIDs |-> IF i = 1 /\ load.stored /\ backend = "memory" THEN user ELSE NoRow]
      /\ keyObj = [i \in KeyIDs |-> IF i = 1 /\ load.stored /\ backend = "memory" THEN key ELSE NoRow]
  <2>1. CASE backend = "memory"
    BY <1>5, <2>1
  <2>2. CASE backend # "memory"
    BY <1>5, <2>2
  <2> QED BY <2>1, <2>2
<1>8. names = [n \in UserNames |-> IF n = name /\ load.stored /\ backend \in {"memory", "cassandra"} THEN 1 ELSE 0]
  BY <1>5
<1> name \in UserNames /\ user \in UserRow /\ key \in KeyRow
  BY <1>2, <1>3, <1>4
<1> WITNESS name \in UserNames, user \in UserRow, key \in KeyRow
<1> QED BY <1>3, <1>4, <1>5, <1>6, <1>7, <1>8

\* The invariant holds at the start.
LEMMA AccountsStart ==
  ASSUME Init
  PROVE  AccountsInv
<1>1. /\ load \in Loads /\ backend \in load.on /\ call = [c \in Clients |-> Idle]
      /\ nextUser = (IF load.stored THEN 2 ELSE 1) /\ nextKey = (IF load.stored THEN 2 ELSE 1)
      /\ keyCache = [n \in Nodes |-> [k \in KeyIDs |-> NoRow]]
      /\ credCache = [n \in Nodes |-> [p \in Creds |-> NoRow]]
      /\ listed = [n \in Nodes |-> NoRow]
  BY DEF Init, RecordsInit, Creds
<1>2. backend \in Backends /\ load.serial \in BOOLEAN /\ load.stored \in BOOLEAN
  BY <1>1, HasBackend
<1>3. PICK name \in UserNames, user \in UserRow, key \in KeyRow :
        /\ user.id = 1 /\ user.name = name /\ key.id = 1 /\ key.user = 1
        /\ users = [i \in UserIDs |-> IF i = 1 /\ load.stored THEN Held(user) ELSE NoRow]
        /\ keys = [i \in KeyIDs |-> IF i = 1 /\ load.stored THEN Held(key) ELSE NoRow]
        /\ names = [n \in UserNames |-> IF n = name /\ load.stored /\ backend \in {"memory", "cassandra"} THEN 1 ELSE 0]
        /\ byUser = IF load.stored /\ backend = "cassandra" THEN {<<1, 1>>} ELSE {}
        /\ byHash = [i \in KeyIDs |-> IF i = 1 /\ load.stored /\ backend = "cassandra" THEN key ELSE NoRow]
        /\ userObj = [i \in UserIDs |-> IF i = 1 /\ load.stored /\ backend = "memory" THEN user ELSE NoRow]
        /\ keyObj = [i \in KeyIDs |-> IF i = 1 /\ load.stored /\ backend = "memory" THEN key ELSE NoRow]
  BY FirstRows
<1>4. 1 \in UserIDs /\ 1 \in KeyIDs /\ MaxUser \in Nat /\ MaxKey \in Nat /\ MaxUser >= 1 /\ MaxKey >= 1
  BY AccountConstants DEF UserIDs, KeyIDs
<1>5. PICK hu, hk : hu = Held(user) /\ hk = Held(key)
  OBVIOUS
<1>6. /\ backend = "memory" => hu = [ptr |-> 1] /\ hk = [ptr |-> 1]
      /\ backend # "memory" => hu = user /\ hk = key
      /\ hu \in UserRow \cup Pointer(UserIDs) /\ hk \in KeyRow \cup Pointer(KeyIDs) /\ hu # NoRow /\ hk # NoRow
      /\ UserRef(hu, 1) /\ KeyRef(hk, 1)
  <2>1. /\ backend = "memory" => hu = [ptr |-> 1] /\ hk = [ptr |-> 1]
        /\ backend # "memory" => hu = user /\ hk = key
    BY <1>3, <1>5 DEF Held
  <2>2. hu \in UserRow \cup Pointer(UserIDs) /\ hk \in KeyRow \cup Pointer(KeyIDs)
    BY <1>3, <1>4, <2>1 DEF Pointer
  <2>3. hu # NoRow /\ hk # NoRow
    BY <1>3, <1>4, <2>1, AccountConstants
  <2>4. UserRef(hu, 1) /\ KeyRef(hk, 1)
    BY <1>3, <2>1 DEF UserRef, KeyRef
  <2> QED BY <2>1, <2>2, <2>3, <2>4
<1>7. /\ load.stored => users[1] = hu /\ keys[1] = hk
      /\ ~load.stored => users[1] = NoRow /\ keys[1] = NoRow
      /\ \A u \in UserIDs : u # 1 => users[u] = NoRow
      /\ \A k \in KeyIDs : k # 1 => keys[k] = NoRow
  BY <1>3, <1>4, <1>5
<1>8. StoredUsers = (IF load.stored THEN {1} ELSE {}) /\ StoredKeys = (IF load.stored THEN {1} ELSE {})
  <2>1. \A u \in UserIDs : users[u] # NoRow <=> (load.stored /\ u = 1)
    BY <1>2, <1>6, <1>7
  <2>2. \A k \in KeyIDs : keys[k] # NoRow <=> (load.stored /\ k = 1)
    BY <1>2, <1>6, <1>7
  <2> QED BY <1>2, <1>4, <2>1, <2>2 DEF StoredUsers, StoredKeys
<1>9. load.stored => User(1) = user /\ Key(1) = key
  <2> SUFFICES ASSUME load.stored PROVE User(1) = user /\ Key(1) = key
    OBVIOUS
  <2>1. CASE backend = "memory"
    <3>1. userObj[1] = user /\ keyObj[1] = key /\ hu.ptr = 1 /\ hk.ptr = 1
      BY <1>3, <1>4, <1>6, <2>1
    <3> QED BY <1>7, <2>1, <3>1 DEF User, UserOf, Key, KeyOf
  <2>2. CASE backend # "memory"
    BY <1>6, <1>7, <2>2 DEF User, UserOf, Key, KeyOf
  <2> QED BY <2>1, <2>2
<1>10. UsersInv
  <2>1. users \in [UserIDs -> UserRow \cup Pointer(UserIDs) \cup {NoRow}]
    BY <1>3, <1>5, <1>6
  <2>2. userObj \in [UserIDs -> UserRow \cup {NoRow}]
    BY <1>3
  <2>3. names \in [UserNames -> 0..MaxUser] /\ \A n \in UserNames : names[n] < nextUser
    BY <1>1, <1>2, <1>3, <1>4
  <2>4. nextUser \in 1..(MaxUser + 1)
    BY <1>1, <1>2, <1>4
  <2>5. \A u \in StoredUsers : UserRef(users[u], u) /\ u < nextUser
    BY <1>1, <1>2, <1>6, <1>7, <1>8
  <2>6. backend = "memory" => \A u \in IssuedUsers : userObj[u] \in UserRow /\ userObj[u].id = u
    <3> SUFFICES ASSUME backend = "memory", NEW u \in IssuedUsers PROVE userObj[u] \in UserRow /\ userObj[u].id = u
      OBVIOUS
    <3>1. load.stored /\ u = 1
      BY <1>1, <1>2 DEF IssuedUsers
    <3> QED BY <1>3, <1>4, <3>1
  <2> QED BY <2>1, <2>2, <2>3, <2>4, <2>5, <2>6 DEF UsersInv
<1>11. KeysInv
  <2>1. keys \in [KeyIDs -> KeyRow \cup Pointer(KeyIDs) \cup {NoRow}]
    BY <1>3, <1>5, <1>6
  <2>2. keyObj \in [KeyIDs -> KeyRow \cup {NoRow}] /\ byHash \in [KeyIDs -> KeyRow \cup {NoRow}]
    BY <1>3
  <2>3. nextKey \in 1..(MaxKey + 1)
    BY <1>1, <1>2, <1>4
  <2>4. \A k \in StoredKeys : KeyRef(keys[k], k) /\ k < nextKey
    BY <1>1, <1>2, <1>6, <1>7, <1>8
  <2>5. \A k \in KeyIDs : byHash[k] # NoRow => byHash[k].id \in {0, k}
    BY <1>3
  <2>6. backend = "memory" => \A k \in IssuedKeys : keyObj[k] \in KeyRow /\ keyObj[k].id = k
    <3> SUFFICES ASSUME backend = "memory", NEW k \in IssuedKeys PROVE keyObj[k] \in KeyRow /\ keyObj[k].id = k
      OBVIOUS
    <3>1. load.stored /\ k = 1
      BY <1>1, <1>2 DEF IssuedKeys
    <3> QED BY <1>3, <1>4, <3>1
  <2> QED BY <2>1, <2>2, <2>3, <2>4, <2>5, <2>6 DEF KeysInv
<1>12. CachesInv
  BY <1>1 DEF CachesInv
<1>13. OneUserPerName
  <2>1. backend \in {"memory", "cassandra"} => /\ \A u \in StoredUsers : names[User(u).name] = u
                                               /\ \A n \in UserNames : names[n] \in StoredUsers => User(names[n]).name = n
    BY <1>2, <1>3, <1>8, <1>9
  <2> QED BY <1>8, <2>1 DEF OneUserPerName
<1>14. \A c \in Clients : call[c] = Idle /\ call[c].at = "done" /\ call[c].op = "none" /\ call[c].status = 0
  BY <1>1 DEF Idle
<1>15. ASSUME NEW c \in Clients PROVE Request(call[c])
  <2>1. Stage(call[c]) /\ Params(call[c]) /\ InHand(call[c])
    BY <1>14 DEF Stage, Params, InHand, UserTarget, KeyTarget
  <2>2. call[c] = [op |-> call[c].op, at |-> call[c].at, in |-> call[c].in, got |-> call[c].got, status |-> call[c].status]
    BY <1>14 DEF Idle
  <2> QED BY <1>14, <2>1, <2>2 DEF Request, Codes
<1>16. Alone
  <2>1. OneKeyPerName
    BY <1>8 DEF OneKeyPerName
  <2>2. KeyTablesAgree
    <3> SUFFICES ASSUME backend = "cassandra" PROVE KeyTablesAgree
      BY DEF KeyTablesAgree
    <3>1. CASE load.stored
      <4>1. byHash[1] = key /\ keys[1] = key /\ byUser = {<<1, 1>>} /\ StoredKeys = {1}
        BY <1>3, <1>4, <1>6, <1>7, <1>8, <3>1
      <4>2. \A k \in KeyIDs : keys[k] = NoRow => byHash[k] = NoRow
        BY <1>3, <1>6, <1>7, <3>1
      <4>3. key # NoRow
        BY AccountConstants
      <4> QED BY <1>3, <4>1, <4>2, <4>3 DEF KeyTablesAgree
    <3>2. CASE ~load.stored
      BY <1>3, <1>8, <3>2 DEF KeyTablesAgree
    <3> QED BY <3>1, <3>2
  <2>3. UserAlone(call[FirstClient]) /\ KeyAlone(call[FirstClient])
    BY <1>14, AccountConstants DEF UserAlone, KeyAlone
  <2>4. /\ \A k \in KeyIDs : keyCache[FirstNode][k] = NoRow
        /\ \A p \in Creds : credCache[FirstNode][p] = NoRow
        /\ \A n \in Nodes : listed[n] = NoRow
    BY <1>1, AccountConstants
  <2>5. (\A k \in KeyIDs : CachedKey(call[FirstClient], k)) /\ (\A p \in Creds : CachedCred(call[FirstClient], p))
    BY <2>4 DEF CachedKey, CachedCred
  <2> QED BY <1>14, <2>1, <2>2, <2>3, <2>4, <2>5 DEF Alone
<1>17. call = [c \in Clients |-> call[c]]
  BY <1>1
<1> QED BY <1>1, <1>10, <1>11, <1>12, <1>13, <1>15, <1>16, <1>17 DEF AccountsInv


-----------------------------------------------------------------------------
(* The theorems.                                                           *)

\* The invariant: whatever the clients, nodes and refreshes do, on each backend, the
\* tables, the caches and the requests of the authentication service fit together.
THEOREM AccountsIntegrity == Spec => []AccountsInv
<1>1. Init => AccountsInv
  BY AccountsStart
<1>2. AccountsInv /\ [Next]_vars => AccountsInv'
  BY NextGood, AccountsStutter DEF Good
<1> QED BY <1>1, <1>2, PTL DEF Spec

\* NamesUnique holds in every state: the creates, updates and deletes of every
\* backend leave a name to one user, to whom it leads, and a key name to one key.
THEOREM AccountsNamesUnique == Spec => []NamesUnique
<1> SUFFICES ASSUME AccountsInv PROVE NamesUnique
  BY AccountsIntegrity, PTL
<1>1. /\ load \in Loads /\ backend \in load.on /\ backend \in Backends
      /\ \A c \in Clients : Request(call[c])
      /\ UsersInv /\ KeysInv /\ CachesInv
  BY InvParts
<1>2. TypeOK
  <2>1. \A c \in Clients : call[c].status \in Codes
    BY <1>1 DEF Request
  <2>2. \A n \in Nodes : \A k \in KeyIDs : keyCache[n][k] \in KeyRow \cup Pointer(KeyIDs) \cup {NoRow}
    BY <1>1 DEF CachesInv
  <2>3. \A n \in Nodes : \A p \in DOMAIN credCache[n] : credCache[n][p] \in UserRow \cup Pointer(UserIDs) \cup {NoRow}
    <3> SUFFICES ASSUME NEW n \in Nodes, NEW p \in DOMAIN credCache[n]
                 PROVE  credCache[n][p] \in UserRow \cup Pointer(UserIDs) \cup {NoRow}
      OBVIOUS
    <3>1. credCache[n] \in [Creds -> UserRow \cup Pointer(UserIDs) \cup {NoRow}]
      BY <1>1 DEF CachesInv
    <3> QED BY <3>1
  <2> QED BY <1>1, <2>1, <2>2, <2>3 DEF TypeOK, UsersInv, KeysInv, Codes
<1>3. UsernamesUnique
  <2> SUFFICES ASSUME backend # "cassandra" \/ load.serial, NEW u \in StoredUsers
               PROVE  /\ \A v \in StoredUsers : User(u).name = User(v).name => u = v
                      /\ GetUserByUsername(User(u).name) = users[u]
    BY <1>1, UserReads DEF UsernamesUnique
  <2>1. OneUserPerName
    BY DEF AccountsInv
  <2>2. PICK name : name = User(u).name
    OBVIOUS
  <2>3. name \in UserNames
    <3>1. u \in UserIDs /\ users[u] # NoRow
      BY DEF StoredUsers
    <3>2. User(u) \in UserRow
      BY <1>1, <3>1, UserStored
    <3> QED BY <2>2, <3>2 DEF UserRow
  <2>4. backend \in {"memory", "cassandra"} => names[name] = u
    BY <2>1, <2>2 DEF OneUserPerName
  <2>5. GetUserByUsername(name) # NoRow
    BY <1>1, <2>2, <2>3, <2>4, NameRead DEF Backends
  <2>6. PICK v \in StoredUsers : /\ GetUserByUsername(name) = users[v]
                                 /\ backend \in {"memory", "cassandra"} => names[name] = v
                                 /\ backend \in {"postgres", "mysql"} => User(v).name = name
    BY <1>1, <2>3, <2>5, NameRead
  <2>7. v = u
    BY <1>1, <2>1, <2>2, <2>4, <2>6 DEF OneUserPerName, Backends
  <2> QED BY <2>1, <2>2, <2>6, <2>7 DEF OneUserPerName
<1>4. KeyNamesUnique
  <2> SUFFICES ASSUME load.serial, NEW u \in StoredUsers, NEW k \in StoredKeys, Key(k).user = u
               PROVE  k \in OfUser(u) /\ {j \in OfUser(u) : Key(j).name = Key(k).name} = {k}
    <3>1. ListUsers = StoredUsers /\ ListAPIKeys \subseteq StoredKeys
      BY <1>1, UserReads, KeyReads
    <3>2. /\ \A v : ListAPIKeysByUserID(v) = OfUser(v)
          /\ \A v, name : GetAPIKeyByUserAndName(v, name) = {j \in OfUser(v) : Key(j).name = name}
      BY <1>1, KeyNameReads
    <3> QED BY <3>1, <3>2 DEF KeyNamesUnique
  <2>1. OneKeyPerName /\ KeyTablesAgree
    BY DEF AccountsInv, Alone
  <2>2. u # 0
    BY AccountConstants DEF StoredUsers, UserIDs
  <2>3. \A j \in StoredKeys : j \in OfUser(u) <=> Key(j).user = u
    <3>1. CASE backend = "cassandra"
      <4>1. byUser = {<<keys[j].user, j>> : j \in StoredKeys}
        BY <2>1, <3>1 DEF KeyTablesAgree
      <4>2. \A j \in StoredKeys : <<u, j>> \in byUser <=> keys[j].user = u
        BY <4>1
      <4>3. \A j \in StoredKeys : Key(j) = keys[j]
        BY <3>1 DEF Key, KeyOf
      <4> QED BY <3>1, <4>2, <4>3 DEF OfUser
    <3>2. CASE backend # "cassandra"
      BY <2>2, <3>2 DEF OfUser
    <3> QED BY <3>1, <3>2
  <2>4. OfUser(u) \subseteq StoredKeys
    BY DEF OfUser
  <2>5. \A j \in OfUser(u) : Key(j).name = Key(k).name => j = k
    BY <2>1, <2>2, <2>3, <2>4 DEF OneKeyPerName
  <2> QED BY <2>3, <2>5
<1> QED BY <1>2, <1>3, <1>4 DEF NamesUnique

\* CachesCoherent holds in every state where the refresh does not come between the
\* steps of a request: when no request is under way a node's caches hold only keys
\* and credentials that the store would accept, with what the store says of them.
THEOREM AccountsCachesCoherent ==
  ASSUME RefreshesApart
  PROVE  Spec => []CachesCoherent
<1> SUFFICES ASSUME AccountsInv PROVE CachesCoherent
  BY AccountsIntegrity, PTL
<1> SUFFICES ASSUME load.serial, AtRest, NEW n \in ActiveNodes
             PROVE  /\ \A k \in KeyIDs : keyCache[n][k] # NoRow =>
                         /\ k \in ListAPIKeys
                         /\ KeyOf(keyCache[n][k]).enabled = Key(k).enabled /\ KeyOf(keyCache[n][k]).name = Key(k).name
                    /\ \A p \in DOMAIN credCache[n] : credCache[n][p] # NoRow =>
                         \E u \in ListUsers : User(u).name = p[1] /\ User(u).pw = p[2] /\ User(u).enabled
  BY DEF CachesCoherent
<1>1. load \in Loads /\ backend \in Backends /\ UsersInv /\ KeysInv /\ CachesInv
  BY InvParts
<1>2. n = FirstNode /\ FirstNode \in Nodes /\ FirstClient \in Clients /\ "refresh" \notin load.ops
  BY <1>1, AccountConstants DEF ActiveNodes, RefreshesApart
<1>3. /\ KeyTablesAgree /\ call[FirstClient].at = "done"
      /\ \A k \in KeyIDs : CachedKey(call[FirstClient], k)
      /\ \A p \in Creds : CachedCred(call[FirstClient], p)
  BY <1>2 DEF AccountsInv, Alone, AtRest
<1>4. ASSUME NEW k \in KeyIDs, keyCache[n][k] # NoRow
      PROVE  /\ k \in ListAPIKeys
             /\ KeyOf(keyCache[n][k]).enabled = Key(k).enabled /\ KeyOf(keyCache[n][k]).name = Key(k).name
  <2>1. KeyFits(keyCache[n][k], k)
    BY <1>2, <1>3, <1>4 DEF CachedKey
  <2>2. k \in StoredKeys
    BY <2>1 DEF KeyFits, StoredKeys
  <2>3. k \in ListAPIKeys
    <3>1. k \in ListAPIKeys \/ (backend = "cassandra" /\ keys[k].user = 0)
      BY <1>1, <2>2, KeyReads
    <3> QED BY <1>3, <2>2, <3>1 DEF KeyTablesAgree
  <2> QED BY <2>1, <2>3 DEF KeyFits
<1>5. ASSUME NEW p \in DOMAIN credCache[n], credCache[n][p] # NoRow
      PROVE  \E u \in ListUsers : User(u).name = p[1] /\ User(u).pw = p[2] /\ User(u).enabled
  <2>1. p \in Creds
    <3>1. credCache[n] \in [Creds -> UserRow \cup Pointer(UserIDs) \cup {NoRow}]
      BY <1>1, <1>2 DEF CachesInv
    <3> QED BY <3>1
  <2>2. PICK ref : ref = credCache[n][p]
    OBVIOUS
  <2>3. CredFits(ref, p)
    BY <1>2, <1>3, <1>5, <2>1, <2>2 DEF CachedCred, Written
  <2>4. PICK u \in IssuedUsers : UserRef(ref, u)
    BY <1>1, <1>2, <1>5, <2>1, <2>2 DEF CachesInv
  <2>5. u \in UserIDs /\ UserOf(ref).id = u
    BY <1>1, <2>4, Issued, UserOfRef
  <2>6. u \in StoredUsers /\ User(u).name = p[1] /\ User(u).pw = p[2] /\ User(u).enabled
    BY <2>3, <2>5 DEF CredFits, StoredUsers
  <2> QED BY <1>1, <2>6, UserReads
<1> QED BY <1>4, <1>5

\* KeysChangeAsAsked holds of every step: a disabled key is enabled again only by an
\* update that asks for it, and a rotation leaves its owner with a key that works.
THEOREM AccountsKeysChangeAsAsked == Spec => KeysChangeAsAsked
<1>1. UNCHANGED vars => UNCHANGED keyTables
  BY DEF vars
<1>2. AccountsInv /\ [Next]_vars =>
        [Undisturbed => \A k \in KeyIDs :
           (keys[k] # NoRow /\ ~Enabled(k) /\ Enabled(k)') =>
              \E c \in Clients : call[c].op = "UpdateAPIKey" /\ call[c].in.change = [enabled |-> TRUE]]_keyTables
  BY <1>1, NextGood DEF Good, EnabledAsAsked
<1>3. AccountsInv /\ [Next]_vars =>
        [load.serial => \A k \in KeyIDs :
           (Enabled(k) /\ ~Enabled(k)' /\ \E c \in Clients : call[c].op = "RotateAPIKey" /\ call[c].at # "done") =>
              \E j \in KeyIDs \ {k} : Enabled(j)' /\ Key(j)'.user = Key(k).user]_keyTables
  BY <1>1, NextGood DEF Good, KeyIsKept
<1>4. Spec => RevocationSticks
  BY <1>2, AccountsIntegrity, PTL DEF Spec, RevocationSticks
<1>5. Spec => RotationKeepsAKey
  BY <1>3, AccountsIntegrity, PTL DEF Spec, RotationKeepsAKey
<1> QED BY <1>4, <1>5 DEF KeysChangeAsAsked
=============================================================================
