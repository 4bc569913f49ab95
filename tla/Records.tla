------------------------------- MODULE Records -------------------------------
(***************************************************************************)
(* Requests that read and write single records (key encryption keys, data  *)
(* encryption keys, exporters) in one of the four storage backends.  A     *)
(* request runs through an HTTP handler, the registry service and the      *)
(* backend; each database query, and each call of the key service, is a    *)
(* step of its own, and the steps of the clients interleave.  In the       *)
(* memory backend a store operation is one step: it holds the mutex.       *)
(***************************************************************************)
EXTENDS Integers, FiniteSets, FiniteSetsExt

CONSTANTS Clients,   \* the requests that may be under way at a time
          Loads,     \* the workloads: records of the fields below
          NoRow      \* no record

Backends == {"memory", "cassandra", "postgres", "mysql"}

\* ops: what the clients call; serial: one request at a time; alone: the operations
\* of which the clients have one under way at a time; on: the backends it is run on;
\* algs: the DEK algorithms the requests name; stored: the exporters exist at the
\* start.
ASSUME LoadAssumption ==
  \A l \in Loads : l.serial \in BOOLEAN /\ l.stored \in BOOLEAN /\ l.on \subseteq Backends /\ l.on # {}

VARIABLES backend, load,   \* the deployment: chosen at the start, never changed
          call             \* client -> the request it is in, or its answer

\* at: the next step; in: the request's parameters; got: what it has read;
\* status: the HTTP status, once answered.
Idle == [op |-> "none", at |-> "done", in |-> NoRow, got |-> NoRow, status |-> 0]

RecordsInit ==
  /\ load \in Loads
  /\ backend \in load.on
  /\ call = [c \in Clients |-> Idle]

\* A client sends a request; step `at` is the first.
Begin(c, op, at, in) ==
  /\ op \in load.ops
  /\ call[c].at = "done"
  /\ load.serial => \A d \in Clients : call[d].at = "done"
  /\ op \in load.alone => \A d \in Clients : call[d].op # op
  /\ call' = [call EXCEPT ![c] = [op |-> op, at |-> at, in |-> in, got |-> NoRow, status |-> 0]]

At(c, op, at) == call[c].op = op /\ call[c].at = at

Goto(c, at, got) == call' = [call EXCEPT ![c].at = at, ![c].got = got]

\* The HTTP status a handler answers with for the error of the store, or "nil".
StatusCode(op, err) ==
  CASE err = "nil" -> IF op \in {"DeleteKEK", "UndeleteKEK", "DeleteDEK", "UndeleteDEK"} THEN 204 ELSE 200
    [] err \in {"kekNotFound", "dekNotFound", "notFound"} /\ op # "UpdateKEK" -> 404
    [] err \in {"kekExists", "dekExists", "exists"} -> 409
    [] OTHER -> IF op \in {"CreateKEK", "CreateDEK", "RewrapDEK", "CreateExporter", "UpdateExporter"}
                THEN 422 ELSE 500

Answer(c, status) == call' = [call EXCEPT ![c] = [Idle EXCEPT !.status = status]]

\* The store operation returns to the handler, which answers.
Return(c, err) == Answer(c, StatusCode(call[c].op, err))

\* The client disconnects and its context is cancelled: the next query fails.
\* The memory backend does not look at the context.
Cancel(c) ==
  /\ backend # "memory"
  /\ call[c].at # "done"
  /\ Return(c, "cancelled")

\* The step is one of an operation in ops.
StepOf(ops) == \E c \in Clients : call[c].op \in ops /\ call'[c].at # call[c].at

\* No two requests overlap, or the backend makes every store operation atomic.
Undisturbed == load.serial \/ backend = "memory"
=============================================================================
