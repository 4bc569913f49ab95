----------------------------- MODULE Exporters -----------------------------
(***************************************************************************)
(* Exporters: the handlers of internal/api/handlers/exporter.go, the       *)
(* service of internal/registry/registry_exporter.go and the tables of the *)
(* four backends.  An exporter has a record and a status; both are read    *)
(* and written whole.  (Nothing in the repository advances a status's      *)
(* offset, so it is left out: a reset writes back the state it read.)      *)
(***************************************************************************)
EXTENDS Records

CONSTANTS Names,      \* exporter names
          Configs     \* configurations

VARIABLES exporters,  \* name -> configuration, or NoRow
          statuses    \* name -> status, or NoRow

exporterVars == <<exporters, statuses>>

\* obj: in memory, which record the map points to; 0 elsewhere.
States == {"PAUSED", "RUNNING", "UNSET"}
Status == [state : States, obj : Nat]

ASSUME ExporterAssumption ==
  IsFiniteSet(Clients) /\ IsFiniteSet(Names) /\ NoRow \notin Configs /\ NoRow \notin Status

ExportersInit ==
  \/ /\ ~load.stored
     /\ exporters = [n \in Names |-> NoRow] /\ statuses = [n \in Names |-> NoRow]
  \/ /\ load.stored
     /\ exporters \in [Names -> Configs]
     /\ statuses = [n \in Names |-> [state |-> "PAUSED", obj |-> IF backend = "memory" THEN 1 ELSE 0]]

\* A record that no map entry and no request points to.
Objects == {statuses[n].obj : n \in {m \in Names : statuses[m] # NoRow}}
           \cup {call[c].got.obj : c \in {d \in Clients : call[d].at \in {"set", "write"}}}
NewStatus(state) ==
  [state |-> state,
   obj |-> IF backend = "memory" THEN Min((1..(Cardinality(Objects) + 1)) \ Objects) ELSE 0]

\* One statement that changes a record and its status, if the record is there.
IfExporter(c, config, status) ==
  LET n == call[c].in.name IN
  IF exporters[n] = NoRow THEN Return(c, "notFound") /\ UNCHANGED exporterVars
  ELSE /\ exporters' = [exporters EXCEPT ![n] = config]
       /\ statuses' = [statuses EXCEPT ![n] = status]
       /\ Return(c, "nil")

\* The record is inserted unless it is there; the service then sets the status.
InsertExporter(c) ==
  LET n == call[c].in.name IN
  IF exporters[n] # NoRow THEN Return(c, "exists") /\ UNCHANGED exporterVars
  ELSE /\ exporters' = [exporters EXCEPT ![n] = call[c].in.config]
       /\ Goto(c, "set", NewStatus("PAUSED"))
       /\ UNCHANGED statuses

\* The status as the backends return it; "UNSET" when the exporter is gone and the
\* service, which ignores the error, starts from an empty record.
StatusRead(n) ==
  CASE exporters[n] = NoRow -> NewStatus("UNSET")
    [] exporters[n] # NoRow /\ statuses[n] = NoRow -> NewStatus("PAUSED")
    [] OTHER -> statuses[n]

-----------------------------------------------------------------------------
\* In memory: maps under a mutex; a status is handed out as a pointer.
MemCreateExporter(c) == At(c, "CreateExporter", "store") /\ InsertExporter(c)
MemGetExporter(n) == exporters[n]
MemUpdateExporter(c) ==
  At(c, "UpdateExporter", "store") /\ IfExporter(c, call[c].in.config, statuses[call[c].in.name])
MemDeleteExporter(c) == At(c, "DeleteExporter", "store") /\ IfExporter(c, NoRow, NoRow)
MemListExporters == {n \in Names : exporters[n] # NoRow}
MemGetExporterStatus(n) == StatusRead(n)
MemUpdateExporterConfig(c) ==
  At(c, "UpdateExporterConfig", "store") /\ IfExporter(c, call[c].in.config, statuses[call[c].in.name])
\* The map now points to the record in hand: nothing changes if it did already.
MemSetExporterStatus(c) ==
  LET n == call[c].in.name IN
  /\ call[c].at = "set"
  /\ IfExporter(c, exporters[n],
       IF statuses[n] # NoRow /\ statuses[n].obj = call[c].got.obj THEN statuses[n] ELSE call[c].got)
MemExporterStep(c) ==
  \/ MemCreateExporter(c) \/ MemUpdateExporter(c) \/ MemDeleteExporter(c)
  \/ MemUpdateExporterConfig(c) \/ MemSetExporterStatus(c)

\* PostgreSQL: the status has a foreign key, and goes with its exporter.
PgCreateExporter(c) == At(c, "CreateExporter", "store") /\ InsertExporter(c)
PgGetExporter(n) == exporters[n]
PgUpdateExporter(c) ==
  At(c, "UpdateExporter", "store") /\ IfExporter(c, call[c].in.config, statuses[call[c].in.name])

PgDeleteExporter(c) == At(c, "DeleteExporter", "store") /\ IfExporter(c, NoRow, NoRow)
PgListExporters == {n \in Names : exporters[n] # NoRow}
PgGetExporterStatus(n) == StatusRead(n)
PgSetExporterStatus(c) ==
  LET n == call[c].in.name IN
  \/ /\ call[c].at = "set"
     /\ IF exporters[n] = NoRow THEN Return(c, "notFound") ELSE Goto(c, "write", call[c].got)
     /\ UNCHANGED exporterVars
  \/ /\ call[c].at = "write"
     /\ IF exporters[n] = NoRow THEN Return(c, "foreignKey") /\ UNCHANGED exporterVars
        ELSE statuses' = [statuses EXCEPT ![n] = call[c].got] /\ Return(c, "nil") /\ UNCHANGED exporters
PgUpdateExporterConfig(c) ==
  At(c, "UpdateExporterConfig", "store") /\ IfExporter(c, call[c].in.config, statuses[call[c].in.name])
PgExporterStep(c) ==
  \/ PgCreateExporter(c) \/ PgUpdateExporter(c) \/ PgDeleteExporter(c)
  \/ PgUpdateExporterConfig(c) \/ PgSetExporterStatus(c)

\* MySQL: the same statements.
MyCreateExporter(c) == PgCreateExporter(c)
MyGetExporter(n) == exporters[n]
MyUpdateExporter(c) == PgUpdateExporter(c)
MyDeleteExporter(c) == At(c, "DeleteExporter", "store") /\ IfExporter(c, NoRow, NoRow)
MyListExporters == {n \in Names : exporters[n] # NoRow}
MyGetExporterStatus(n) == StatusRead(n)
MySetExporterStatus(c) == PgSetExporterStatus(c)
MyUpdateExporterConfig(c) == PgUpdateExporterConfig(c)
MyExporterStep(c) ==
  \/ MyCreateExporter(c) \/ MyUpdateExporter(c) \/ MyDeleteExporter(c)
  \/ MyUpdateExporterConfig(c) \/ MySetExporterStatus(c)

\* Cassandra: a read for existence, and a write that does not ask again.
CasExists(c, op, found, err) ==
  /\ At(c, op, "store")
  /\ IF (exporters[call[c].in.name] # NoRow) = found THEN Goto(c, "put", NoRow) ELSE Return(c, err)
  /\ UNCHANGED exporterVars
CasPut(c, op) ==
  /\ At(c, op, "put")
  /\ exporters' = [exporters EXCEPT ![call[c].in.name] = call[c].in.config]
  /\ UNCHANGED statuses
CasCreateExporter(c) ==
  \/ CasExists(c, "CreateExporter", FALSE, "exists")
  \/ CasPut(c, "CreateExporter") /\ Goto(c, "set", NewStatus("PAUSED"))
CasGetExporter(n) == exporters[n]
CasUpdateExporter(c) ==
  \/ CasExists(c, "UpdateExporter", TRUE, "notFound")
  \/ CasPut(c, "UpdateExporter") /\ Return(c, "nil")
CasDeleteExporter(c) ==
  LET n == call[c].in.name IN
  \/ CasExists(c, "DeleteExporter", TRUE, "notFound")
  \/ /\ At(c, "DeleteExporter", "put")
     /\ exporters' = [exporters EXCEPT ![n] = NoRow]
     /\ statuses' = [statuses EXCEPT ![n] = NoRow]
     /\ Return(c, "nil")
CasListExporters == {n \in Names : exporters[n] # NoRow}
CasGetExporterStatus(n) == StatusRead(n)
CasSetExporterStatus(c) ==
  LET n == call[c].in.name IN
  \/ /\ call[c].at = "set"
     /\ IF exporters[n] = NoRow THEN Return(c, "notFound") ELSE Goto(c, "write", call[c].got)
     /\ UNCHANGED exporterVars
  \/ /\ call[c].at = "write"
     /\ statuses' = [statuses EXCEPT ![n] = call[c].got]
     /\ Return(c, "nil")
     /\ UNCHANGED exporters

CasUpdateExporterConfig(c) ==
  \/ CasExists(c, "UpdateExporterConfig", TRUE, "notFound")
  \/ CasPut(c, "UpdateExporterConfig") /\ Return(c, "nil")
CasExporterStep(c) ==
  \/ CasCreateExporter(c) \/ CasUpdateExporter(c) \/ CasDeleteExporter(c)
  \/ CasUpdateExporterConfig(c) \/ CasSetExporterStatus(c)

-----------------------------------------------------------------------------
GetExporterStatus(n) ==
  CASE backend = "memory" -> MemGetExporterStatus(n) [] backend = "cassandra" -> CasGetExporterStatus(n)
    [] backend = "postgres" -> PgGetExporterStatus(n) [] backend = "mysql" -> MyGetExporterStatus(n)
GetExporter(n) ==
  CASE backend = "memory" -> MemGetExporter(n) [] backend = "cassandra" -> CasGetExporter(n)
    [] backend = "postgres" -> PgGetExporter(n) [] backend = "mysql" -> MyGetExporter(n)
ListExporters ==
  CASE backend = "memory" -> MemListExporters [] backend = "cassandra" -> CasListExporters
    [] backend = "postgres" -> PgListExporters [] backend = "mysql" -> MyListExporters

\* In memory requests have the record itself in hand, not a copy of it.
Holds(c, n, obj) ==
  /\ backend = "memory" /\ call[c].at = "set"
  /\ call[c].in.name = n /\ call[c].got.obj = obj

\* Is the exporter there?  Its status is read and one field of it is set; in
\* memory that is a field of the stored record, which others may have in hand
\* too.  Then the record is stored.
ChangeStatus(c, op, state) ==
  LET n == call[c].in.name
      new == [StatusRead(n) EXCEPT !.state = IF state = "same" THEN @ ELSE state] IN
  \/ /\ At(c, op, "exists")
     /\ IF GetExporter(n) = NoRow THEN Return(c, "notFound") ELSE Goto(c, "status", NoRow)
     /\ UNCHANGED exporterVars
  \/ /\ At(c, op, "status")
     /\ call' = [d \in Clients |->
                   IF d = c THEN [call[c] EXCEPT !.at = "set", !.got = new]
                   ELSE IF Holds(d, n, new.obj) THEN [call[d] EXCEPT !.got = new] ELSE call[d]]
     /\ statuses' = IF statuses[n] # NoRow /\ statuses[n].obj = new.obj /\ backend = "memory"
                    THEN [statuses EXCEPT ![n] = new] ELSE statuses
     /\ UNCHANGED exporters

PauseExporter(c) == ChangeStatus(c, "PauseExporter", "PAUSED")
ResumeExporter(c) == ChangeStatus(c, "ResumeExporter", "RUNNING")

\* Mutant: a reset starts the exporter again.
ResetExporterRuns(c) == ChangeStatus(c, "ResetExporter", "RUNNING")

ResetExporter(c) == ChangeStatus(c, "ResetExporter", "same")

\* Each handler starts the request.
HandleCreateExporter(c) ==
  /\ \E n \in Names, g \in Configs : Begin(c, "CreateExporter", "store", [name |-> n, config |-> g])
  /\ UNCHANGED exporterVars
HandleUpdateExporter(c) ==
  /\ \E n \in Names, g \in Configs : Begin(c, "UpdateExporter", "store", [name |-> n, config |-> g])
  /\ UNCHANGED exporterVars
HandleDeleteExporter(c) ==
  /\ \E n \in Names : Begin(c, "DeleteExporter", "store", [name |-> n])
  /\ UNCHANGED exporterVars
HandleUpdateExporterConfig(c) ==
  /\ \E n \in Names, g \in Configs : Begin(c, "UpdateExporterConfig", "store", [name |-> n, config |-> g])
  /\ UNCHANGED exporterVars
HandlePauseExporter(c) ==
  /\ \E n \in Names : Begin(c, "PauseExporter", "exists", [name |-> n])
  /\ UNCHANGED exporterVars
HandleResumeExporter(c) ==
  /\ \E n \in Names : Begin(c, "ResumeExporter", "exists", [name |-> n])
  /\ UNCHANGED exporterVars
HandleResetExporter(c) ==
  /\ \E n \in Names : Begin(c, "ResetExporter", "exists", [name |-> n])
  /\ UNCHANGED exporterVars

ExporterStep(c) ==
  \/ HandleCreateExporter(c) \/ HandleUpdateExporter(c) \/ HandleDeleteExporter(c)
  \/ HandleUpdateExporterConfig(c) \/ HandlePauseExporter(c) \/ HandleResumeExporter(c)
  \/ HandleResetExporter(c) \/ PauseExporter(c) \/ ResumeExporter(c) \/ ResetExporter(c)
  \/ backend = "memory" /\ MemExporterStep(c)
  \/ backend = "cassandra" /\ CasExporterStep(c)
  \/ backend = "postgres" /\ PgExporterStep(c)
  \/ backend = "mysql" /\ MyExporterStep(c)

-----------------------------------------------------------------------------
ExporterTypeOK ==
  /\ exporters \in [Names -> Configs \cup {NoRow}]
  /\ \A n \in Names : statuses[n] \in Status \cup {NoRow}

\* Cassandra checks and writes in separate queries: only one request at a time.
Checked == backend # "cassandra" \/ load.serial

\* A status belongs to an exporter, so that a new exporter of the name does not
\* start with the old one's status.
StatusHasExporter == Checked => \A n \in Names : statuses[n] # NoRow => n \in ListExporters

Running(n) == GetExporter(n) # NoRow /\ GetExporterStatus(n).state = "RUNNING"

\* The status of an exporter stays one record: in memory, unless creates or
\* deletes overlap with requests that have the record in hand.
OneRecord ==
  backend = "memory" => load.serial \/ {"CreateExporter", "DeleteExporter"} \cap load.ops = {}

\* An exporter that is paused, or new, runs only when it is resumed: a reset, an
\* update or a late write of another request does not start it.  (A reset that
\* overlaps a pause does, in the three databases: it writes back what it read.  In
\* memory a pause that overlaps a resume does, if the exporter is deleted and
\* created before the pause stores the record that the resume changed.)
RunsOnlyIfResumed ==
  [][Checked /\ OneRecord =>
       \A n \in Names : (~Running(n) /\ Running(n)') => StepOf({"ResumeExporter"})]_exporterVars

\* An exporter comes into being by a create only.
ExporterByCreate ==
  [][Checked => \A n \in Names : (GetExporter(n) = NoRow /\ GetExporter(n)' # NoRow)
                                    => StepOf({"CreateExporter"})]_exporterVars
=============================================================================
