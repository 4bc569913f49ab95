----------------------------- MODULE VaultStore -----------------------------
(***************************************************************************)
(* Users and API keys in Vault (internal/storage/vault/store.go).  The KV  *)
(* engine has no transactions: a write of the store is a row of KV calls,  *)
(* any of which may fail, or be the last before the process dies.  A mutex *)
(* per process keeps the writes of one instance apart; the IDs come from a *)
(* counter that the instance reads at its start and writes through.        *)
(*                                                                         *)
(* The two tables are alike: a record under its ID, an index from a unique *)
(* name (the username, the hash of the key) to the ID, a counter.          *)
(***************************************************************************)
EXTENDS Integers, FiniteSets

CONSTANTS Instances, Callers,
          Home,            \* caller -> the instance that serves it
          Names, Emails,   \* usernames and key hashes; the addresses users give
          MaxRow,          \* bound on the IDs handed out
          VaultLoads,      \* operations, tables, and whether KV calls fail
          NoEmail, Absent, Deleted, NoCall

Tables == {"users", "apikeys"}
Rows == 1..MaxRow
RowType == [name : Names, email : Emails \cup {NoEmail}, enabled : BOOLEAN]
Change == [email : Emails \cup {NoEmail}, enabled : BOOLEAN]    \* what an update sets
Places == {"lookup", "list", "sequence", "put", "index", "get", "unindex", "remove"}
CallType == [op : {"create", "update", "touch", "delete"}, table : Tables, id : 0..MaxRow,
             at : Places, row : RowType \cup Change \cup BOOLEAN]

ASSUME VaultAssumption ==
  /\ Home \in [Callers -> Instances] /\ MaxRow \in Nat
  /\ {Absent, Deleted} \cap RowType = {} /\ NoCall \notin CallType
  /\ \A load \in VaultLoads : load.tables \subseteq Tables /\ load.faults \in BOOLEAN

VARIABLES rows,      \* table -> ID -> the record; Absent; Deleted, a version without data
          index,     \* table -> name -> ID, or 0
          counter,   \* table -> the counter in Vault
          idSeq,     \* instance -> table -> its counter
          vcall,     \* caller -> the call it is in, or NoCall
          vload

vaultVars == <<rows, index, counter, idSeq, vcall, vload>>

VaultInit ==
  /\ rows = [t \in Tables |-> [i \in Rows |-> Absent]]
  /\ index = [t \in Tables |-> [n \in Names |-> 0]]
  /\ counter = [t \in Tables |-> 0]
  /\ idSeq = [x \in Instances |-> [t \in Tables |-> 0]]
  /\ vcall = [c \in Callers |-> NoCall]
  /\ vload \in VaultLoads

Stored(t, i) == i \in Rows /\ rows[t][i] \notin {Absent, Deleted}

\* The mutex of the instance is free; a caller that waits for it has not begun.
Mutex(c, op) == \A d \in Callers : Home[d] = Home[c] => vcall[d] = NoCall

\* row: the record to be written, or what an update sets in it.  The name of an ID
\* never changes, since the service changes neither the username nor the hash.
KVCall(op, t, i, at, row) == [op |-> op, table |-> t, id |-> i, at |-> at, row |-> row]
Begin(c, op, t, i, at, row) ==
  /\ vcall[c] = NoCall /\ op \in vload.ops /\ Mutex(c, op)
  /\ vcall' = [vcall EXCEPT ![c] = KVCall(op, t, i, at, row)]
  /\ UNCHANGED <<rows, index, counter, idSeq, vload>>

Row(n, e, on) == [name |-> n, email |-> e, enabled |-> on]
Create(c) ==
  \E t \in vload.tables, n \in Names, e \in Emails \cup {NoEmail} :
    (t = "apikeys" => e = NoEmail) /\ Begin(c, "create", t, 0, "lookup", Row(n, e, TRUE))
\* The service has read the record before it calls the store, which overwrites
\* whatever it finds: the values may be the request's or out of date.
Update(c) ==
  \E t \in vload.tables, i \in Rows, e \in Emails \cup {NoEmail}, on \in BOOLEAN :
    /\ t = "apikeys" => e = NoEmail
    /\ Begin(c, "update", t, i, "get", [email |-> e, enabled |-> on])
Touch(c) == \E t \in vload.tables \cap {"apikeys"}, i \in Rows : Begin(c, "touch", t, i, "get", TRUE)
Delete(c) == \E t \in vload.tables, i \in Rows : Begin(c, "delete", t, i, "get", TRUE)

At(c, at) == vcall[c] # NoCall /\ vcall[c].at = at
Goto(c, at) == vcall' = [vcall EXCEPT ![c].at = at]
Return(c) == vcall' = [vcall EXCEPT ![c] = NoCall]

\* The outcome of a write: done, refused, or done although the answer is an error.
Outcomes == IF vload.faults THEN {"ok", "refused", "unanswered"} ELSE {"ok"}
Went(outcome) == outcome # "refused"
After(c, outcome, at) == IF outcome = "ok" /\ at # "end" THEN Goto(c, at) ELSE Return(c)

-----------------------------------------------------------------------------
(* CreateUser, CreateAPIKey.                                               *)

\* A lookup that fails is taken for a name that is free.
LookupName(c) ==
  LET t == vcall[c].table
      taken == Stored(t, index[t][vcall[c].row.name]) IN
  /\ At(c, "lookup")
  /\ \E failed \in {FALSE, vload.faults} :
       IF taken /\ ~failed THEN Return(c)
       ELSE Goto(c, IF vcall[c].row.email = NoEmail THEN "sequence" ELSE "list")
  /\ UNCHANGED <<rows, index, counter, idSeq, vload>>

\* Users that cannot be read are left out of the list.
ListEmails(c) ==
  LET taken == \E i \in Rows : Stored("users", i) /\ rows["users"][i].email = vcall[c].row.email IN
  /\ At(c, "list")
  /\ \E failed \in {FALSE, vload.faults} :
       IF taken /\ ~failed THEN Return(c) ELSE Goto(c, "sequence")
  /\ UNCHANGED <<rows, index, counter, idSeq, vload>>

\* nextUserID, nextAPIKeyID: the instance's counter goes on even if the write fails.
NextID(c) ==
  LET x == Home[c]
      t == vcall[c].table
      id == idSeq[x][t] + 1 IN
  /\ At(c, "sequence") /\ id \in Rows
  /\ idSeq' = [idSeq EXCEPT ![x][t] = id]
  /\ \E outcome \in Outcomes :
       /\ counter' = IF Went(outcome) THEN [counter EXCEPT ![t] = id] ELSE counter
       /\ vcall' = [vcall EXCEPT ![c] = IF outcome = "ok" THEN KVCall(@.op, t, id, "put", @.row) ELSE NoCall]
  /\ UNCHANGED <<rows, index, vload>>

\* writeUser, writeAPIKey; the index is next if the record is new.
Put(c) ==
  LET call == vcall[c] IN
  /\ At(c, "put")
  /\ \E outcome \in Outcomes :
       /\ rows' = IF Went(outcome) THEN [rows EXCEPT ![call.table][call.id] = call.row] ELSE rows
       /\ After(c, outcome, IF call.op = "create" THEN "index" ELSE "end")
  /\ UNCHANGED <<index, counter, idSeq, vload>>

\* writeUsernameIndex, writeAPIKeyHashIndex
PutIndex(c) ==
  LET call == vcall[c] IN
  /\ At(c, "index")
  /\ \E outcome \in Outcomes :
       index' = IF Went(outcome) THEN [index EXCEPT ![call.table][call.row.name] = call.id] ELSE index
  /\ Return(c)
  /\ UNCHANGED <<rows, counter, idSeq, vload>>

-----------------------------------------------------------------------------
(* UpdateUser, UpdateAPIKey, UpdateAPIKeyLastUsed, DeleteUser, DeleteAPIKey *)

\* What an update makes of the record: the email is written without a look at
\* those of other users.
Updated(call, current) ==
  IF call.op = "update" THEN Row(current.name, call.row.email, call.row.enabled) ELSE current

\* Mutant: a delete begins with the record.
GetRowFirst(c) ==
  LET call == vcall[c]
      row == Updated(call, rows[call.table][call.id]) IN
  /\ At(c, "get")
  /\ vcall' = [vcall EXCEPT ![c] =
       IF Stored(call.table, call.id)
       THEN KVCall(call.op, call.table, call.id, IF call.op = "delete" THEN "remove" ELSE "put", row)
       ELSE NoCall]
  /\ UNCHANGED <<rows, index, counter, idSeq, vload>>

\* The current record: what an update and a use of the key change, a delete removes.
GetRow(c) ==
  LET call == vcall[c]
      row == Updated(call, rows[call.table][call.id]) IN
  /\ At(c, "get")
  /\ \E failed \in {FALSE, vload.faults} :
       vcall' = [vcall EXCEPT ![c] =
         IF ~failed /\ Stored(call.table, call.id)
         THEN KVCall(call.op, call.table, call.id, IF call.op = "delete" THEN "unindex" ELSE "put", row)
         ELSE NoCall]
  /\ UNCHANGED <<rows, index, counter, idSeq, vload>>

\* deleteUsernameIndex, deleteAPIKeyHashIndex
RemoveIndex(c) ==
  LET call == vcall[c] IN
  /\ At(c, "unindex")
  /\ \E outcome \in Outcomes :
       /\ index' = IF Went(outcome) THEN [index EXCEPT ![call.table][call.row.name] = 0] ELSE index
       /\ After(c, outcome, "remove")
  /\ UNCHANGED <<rows, counter, idSeq, vload>>

RemoveRow(c) ==
  LET call == vcall[c] IN
  /\ At(c, "remove")
  /\ \E outcome \in Outcomes :
       rows' = IF Went(outcome) THEN [rows EXCEPT ![call.table][call.id] = Deleted] ELSE rows
  /\ Return(c)
  /\ UNCHANGED <<index, counter, idSeq, vload>>

\* The process dies between two KV calls and is started again: initSequences.
Restart(x) ==
  /\ vload.faults
  /\ vcall' = [c \in Callers |-> IF Home[c] = x THEN NoCall ELSE vcall[c]]
  /\ idSeq' = [idSeq EXCEPT ![x] = counter]
  /\ UNCHANGED <<rows, index, counter, vload>>

VaultStep(c) ==
  \/ Create(c) \/ Update(c) \/ Touch(c) \/ Delete(c)
  \/ LookupName(c) \/ ListEmails(c) \/ NextID(c) \/ Put(c) \/ PutIndex(c)
  \/ GetRow(c) \/ RemoveIndex(c) \/ RemoveRow(c)
VaultNext == (\E c \in Callers : VaultStep(c)) \/ (\E x \in Instances : Restart(x))

-----------------------------------------------------------------------------
\* Type correctness.
VaultTypeOK ==
  /\ \A t \in Tables : counter[t] \in 0..MaxRow /\ \A n \in Names : index[t][n] \in 0..MaxRow
  /\ \A c \in Callers : vcall[c] # NoCall => vcall[c].id \in 0..MaxRow /\ vcall[c].table \in Tables

\* An ID is given to one record: a create finds its place empty, never the record
\* of another user or key nor the place of a deleted one, whatever failed before
\* and however often the instance died.  (Of one instance: two have a counter each.)
IDsFresh ==
  \A c \in Callers : At(c, "put") /\ vcall[c].op = "create" => rows[vcall[c].table][vcall[c].id] = Absent

\* A name leads to the record that has it: no login and no key is looked up to a
\* deleted or a foreign record, also after writes that were cut off.
IndexLeadsHome ==
  \A t \in Tables, n \in Names :
    index[t][n] # 0 => Stored(t, index[t][n]) /\ rows[t][index[t][n]].name = n

\* Recording the use of a key writes back the record as it is, so that it undoes
\* no revocation.
TouchIsCurrent ==
  \A c \in Callers : At(c, "put") /\ vcall[c].op = "touch" => vcall[c].row = rows["apikeys"][vcall[c].id]

\* When nothing fails: a create writes no name and no email that a record has by
\* then (an update may still give a second user its email), and the records and
\* the index agree whenever no call is under way, so that every user and key can
\* be looked up and no name has two.
IndexComplete ==
  ~vload.faults =>
    /\ \A c \in Callers : At(c, "put") /\ vcall[c].op = "create" =>
         \A j \in Rows : Stored(vcall[c].table, j) =>
           LET row == rows[vcall[c].table][j] IN
           row.name # vcall[c].row.name /\ (row.email # vcall[c].row.email \/ row.email = NoEmail)
    /\ (\A c \in Callers : vcall[c] = NoCall) =>
         \A t \in Tables, i \in Rows : Stored(t, i) => index[t][rows[t][i].name] = i
=============================================================================
