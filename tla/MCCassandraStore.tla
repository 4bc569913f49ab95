-------------------------- MODULE MCCassandraStore --------------------------
(* Calls and placements for the runs of the Cassandra backend.             *)
EXTENDS CassandraStore, TLC

CONSTANTS s1, s2, fpA, fpB, fpC, m1, c1, c2, i1, i2,
          LoadNames     \* the loads of a run

Create(S, F, M) == [op : {"create"}, subject : S, fp : F, meta : M]
Import(S, F, I, V) == [op : {"import"}, subject : S, fp : F, id : I, version : V]
DeleteV(S, V, P) == [op : {"deleteVersion"}, subject : S, version : V, permanent : P]
DeleteS(S, P) == [op : {"deleteSubject"}, subject : S, permanent : P]
Setting(S) == [op : {"setting"}, subject : S, table : {"subject_configs", "modes"}]

\* Registrations of two contents in one subject, and its soft delete.
WriteCalls ==
  Create({s1}, Fingerprints, Metas) \cup DeleteS({s1}, {FALSE})

\* Everything, for one call at a time.
SerialCalls ==
  Create({s1}, {fpA, fpB}, {NoMeta}) \cup Create({s2}, {fpA}, {NoMeta})
  \cup Import({s2}, {fpB}, {3}, {2})
  \cup DeleteV({s1}, {1, 2}, BOOLEAN) \cup DeleteS({s1, s2}, BOOLEAN)
  \cup [op : {"setting"}, subject : {s2}, table : {"modes"}]

\* Two instances contending for one subject.
ContentionCalls == Create({s1}, {fpA, fpC}, {NoMeta}) \cup Setting({s1})

\* A behaviour keeps to the calls of one load; the serial one has one client.
VARIABLE load
Loads == "writes" :> WriteCalls @@ "serial" :> SerialCalls @@ "contention" :> ContentionCalls
LoadedCalls == UNION {Loads[l] : l \in LoadNames}
LoadedInit == Init /\ load \in LoadNames /\ turns = (load = "serial")
Starts(c) == req[c] = NoRequest /\ req'[c] # NoRequest
LoadedNext ==
  /\ Next
  /\ \A c \in Clients : Starts(c) => req'[c] \in Loads[load] /\ (load = "serial" => c = c1)
  /\ UNCHANGED load
LoadedSpec == LoadedInit /\ [][LoadedNext]_<<vars, turns, load>> /\ Fairness

NoRefs == [fp \in Fingerprints |-> {}]
RefBtoA == [fp \in Fingerprints |-> IF fp = fpB THEN {<<s1, 1>>} ELSE {}]
Apart == c1 :> i1 @@ c2 :> i2
\* The instances, each with its clients, are alike, and so are the contents.
Placements ==
  {p \in Permutations(Clients \cup Instances) :
     \A c \in Clients : p[c] \in Clients /\ p[Home[c]] = Home[p[c]]}
Symmetry == Placements \cup Permutations(Fingerprints)
=============================================================================
