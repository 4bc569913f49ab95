------------------------------- MODULE MCSQL -------------------------------
(* Workloads for the run of the relational backends.                       *)
EXTENDS SQLBackends, TLC

CONSTANTS s1, s2, fpA, fpB, m0, m1

Create(S, F, M) == [op : {"create"}, subject : S, fp : F, meta : M]
Import(S, F, I, V) == [op : {"import"}, subject : S, fp : F, id : I, version : V, meta : {m0}]
DeleteV(S, V, P) == [op : {"deleteVersion"}, subject : S, version : V, permanent : P]
DeleteS(S, P) == [op : {"deleteSubject"}, subject : S, permanent : P]

\* Registrations, interleaved with one another and with a setting.
Creates ==
  Create({s1, s2}, {fpA}, {m0}) \cup Create({s1}, {fpB}, {m0, m1})
  \cup [op : {"unset"}, subject : {s1}, table : {"modes"}]

\* Registrations and soft deletes, interleaved.
SoftDeletes == Create({s1}, {fpA, fpB}, {m0}) \cup DeleteS({s1}, {FALSE}) \cup DeleteV({s1}, {1}, {FALSE})

\* Every delete, one call at a time.
Deletes ==
  Create({s1}, {fpA, fpB}, {m0}) \cup Create({s2}, {fpA}, {m0})
  \cup DeleteV({s1}, {1, 2}, BOOLEAN) \cup DeleteS({s1, s2}, BOOLEAN)
  \cup [op : {"set", "unset"}, subject : {s2}, table : {"configs", "modes"}]

\* Imports of contents that are, or are not, registered already.
Migration ==
  Create({s1}, {fpA, fpB}, {m0, m1}) \cup Import({s2}, {fpA}, {2, 3}, {2}) \cup DeleteS({s1}, {FALSE})

AllLoads == {"creates", "softDeletes", "deletes", "migration"}
LoadCalls == ("creates" :> Creates) @@ ("softDeletes" :> SoftDeletes)
             @@ ("deletes" :> Deletes) @@ ("migration" :> Migration)
RefBtoA == [fp \in Fingerprints |-> IF fp = fpB THEN {<<s1, 1>>} ELSE {}]
=============================================================================
