------------------------------ MODULE MCRecords ------------------------------
(* Workloads for the DEK registry and the exporters.                        *)
EXTENDS RegistryRecords, TLC

KeyOps == {"CreateKEK", "DeleteKEK", "UndeleteKEK", "CreateDEK", "DeleteDEK", "UndeleteDEK"}
ExporterOps == {"UpdateExporter", "UpdateExporterConfig", "PauseExporter", "ResumeExporter"}
OneAlg == {"AES256_GCM"}

Load(ops, serial, alone, on, algs, stored) ==
  [ops |-> ops, serial |-> serial, alone |-> alone, on |-> on, algs |-> algs, stored |-> stored]

AllLoads ==
  { \* creates, soft deletes and a sweep of rewraps, interleaved
    Load({"CreateKEK", "DeleteKEK", "CreateDEK", "DeleteDEK", "RewrapDEK", "rotate"},
         FALSE, {"RewrapDEK"}, Backends, OneAlg, FALSE),
    \* rewraps at once
    Load({"CreateKEK", "CreateDEK", "RewrapDEK", "rotate"}, FALSE, {}, Backends, OneAlg, FALSE),
    \* undeletes and purges, interleaved; PostgreSQL with the updates of KEKs besides
    Load(KeyOps \cup {"purge"}, FALSE, {}, {"memory", "mysql"}, OneAlg, FALSE),
    Load({"CreateKEK", "UpdateKEK", "DeleteKEK", "CreateDEK", "purge"}, FALSE, {}, {"postgres"}, OneAlg, FALSE),
    \* every operation, one at a time
    Load(KeyOps \cup {"UpdateKEK", "RewrapDEK", "purge", "rotate"}, TRUE, {}, Backends,
         Algorithms \cup {AnyAlg}, FALSE),
    \* exporters: with no resets; with no creates and deletes; and one request at a time
    Load(ExporterOps \cup {"CreateExporter", "DeleteExporter"}, FALSE, {}, Backends, {}, FALSE),
    Load(ExporterOps \cup {"ResetExporter"}, FALSE, {}, {"memory"}, {}, TRUE),
    Load(ExporterOps \cup {"CreateExporter", "ResetExporter", "DeleteExporter"}, TRUE, {}, Backends, {}, FALSE) }

\* They leave out what the properties except.
ASSUME LoadsApart == PurgesApart /\ RewrapsApart /\ UpdatesApart /\ ResetsApart

AnyClient == Permutations(Clients)
=============================================================================
