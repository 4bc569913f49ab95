-------------------------- MODULE RegistryRecords --------------------------
(***************************************************************************)
(* The DEK registry and the exporters of one registry, on one backend.     *)
(***************************************************************************)
EXTENDS DEKRegistry, Exporters

vars == <<backend, load, call, keyVars, exporterVars>>

Init == RecordsInit /\ KeysInit /\ ExportersInit

Next ==
  \/ \E c \in Clients :
       \/ KeyStep(c) /\ UNCHANGED <<backend, load, exporterVars>>
       \/ ExporterStep(c) /\ UNCHANGED <<backend, load, keyVars>>
       \/ Cancel(c) /\ UNCHANGED <<backend, load, keyVars, exporterVars>>
  \/ KmsRotate /\ UNCHANGED exporterVars

Spec == Init /\ [][Next]_vars

-----------------------------------------------------------------------------
\* What the workloads leave out for a property to hold.  Each names requests
\* whose overlap breaks it, in the code as in the model.

\* Cassandra: a purge drops the listing entry that a create has just written.
PurgesApart == \A l \in Loads : l.serial \/ "purge" \notin l.ops \/ "cassandra" \notin l.on

\* A rewrap writes the material of a DEK that was purged and made again.
RewrapsApart == \A l \in Loads : l.serial \/ "purge" \notin l.ops \/ "RewrapDEK" \notin l.ops

\* An update of a KEK writes the deleted flag it read; PostgreSQL's leaves it.
UpdatesApart == \A l \in Loads : l.serial \/ "UpdateKEK" \notin l.ops \/ l.on \subseteq {"postgres"}

\* A reset writes the state it read; in memory it has the record itself in hand.
ResetsApart == \A l \in Loads : l.serial \/ "ResetExporter" \notin l.ops \/ l.on \subseteq {"memory"}

-----------------------------------------------------------------------------
(* Type correctness of the tables and of the requests under way.           *)
TypeOK ==
  /\ load \in Loads /\ backend \in load.on
  /\ \A c \in Clients : call[c].status \in {0, 200, 204, 404, 409, 422, 500}
  /\ KeyTypeOK
  /\ ExporterTypeOK

\* The tables hold together: a DEK has its KEK, a status its exporter, and the
\* listings show exactly what is there, whatever creates, deletes and purges of
\* the four backends came before and between.
TablesAgree == TypeOK /\ NoOrphanDEK /\ StatusHasExporter /\ ListingComplete

\* Keys change as asked for: a deleted one comes back by an undelete only, a
\* purged one by a create only, and a sweep of rewraps never goes back to an older key.
KeysChangeAsAsked == DeletionSticks /\ AppearsByCreate /\ RewrapAdvances

\* Exporters change as asked for: one comes into being by a create only, and runs
\* only when it is resumed.
ExportersChangeAsAsked == ExporterByCreate /\ RunsOnlyIfResumed
=============================================================================
