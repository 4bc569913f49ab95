----------------------------- MODULE MCRegistry -----------------------------
(* Request sets and relations for the runs of the registry service.        *)
EXTENDS Registry, TLC

CONSTANTS s1, s2, fpA, fpB, fpC, m1,
          LoadNames     \* the loads of a run

Register(S, F, M, CV) ==
  [op : {"register"}, subject : S, fp : F, meta : M, cv : CV]
Import(S, F, I, V) ==
  [op : {"import"}, subject : S, fp : F, id : I, version : V]
DeleteV(S, V, P) ==
  [op : {"deleteVersion"}, subject : S, version : V, permanent : P]
DeleteS(S, P) == [op : {"deleteSubject"}, subject : S, permanent : P]

Bulk(Items) == [op : {"bulk"}, items : Items]
Item(s, fp, i, v) == [subject |-> s, fp |-> fp, id |-> i, version |-> v]
SetModeOf(S, M, F) == [op : {"setMode"}, subject : S, mode : M, force : F]

ConfigOf(level, group, validate) == [level |-> level, group |-> group, validate |-> validate]
PlainConfigs == {ConfigOf(l, "", "unset") : l \in {"NONE", "FULL", "BACKWARD_TRANSITIVE"}}
GroupConfigs == {ConfigOf("FULL", "line", "off"), ConfigOf("BACKWARD_TRANSITIVE", "line", "unset")}
MCConfigs == PlainConfigs \cup GroupConfigs \cup {ConfigOf("BACKWARD", "", "on")}
\* The metadata m1 is of a line of its own and reserves a field that fpC has.
MCProperty == [m \in Metas |-> "line" :> (IF m = NoMeta THEN "" ELSE "one")]
MCReserved == [m \in Metas |-> IF m = NoMeta THEN {} ELSE {"f"}]
MCTopLevel == [fp \in Fingerprints |-> IF fp = fpC THEN {"f"} ELSE {}]

\* Registrations and deletes, no import.
PlainRequests ==
  Register({s1}, Fingerprints, Metas, {0}) \cup Register({s2}, Fingerprints, {NoMeta}, {0})
  \cup DeleteV({s1}, {0, 1}, {TRUE, FALSE}) \cup DeleteS({s1}, {TRUE, FALSE})

\* One client at a time: registrations, deletes and configs.
SerialRequests ==
  Register({s1}, Fingerprints, {NoMeta}, {0}) \cup Register({s1}, {fpA}, {NoMeta}, {2})
  \cup Register({s2}, {fpB}, {NoMeta}, {0})
  \cup DeleteV({s1}, {0, 1}, {TRUE, FALSE}) \cup DeleteS(Subjects, {TRUE, FALSE})
  \cup [op : {"setConfig"}, subject : {s1}, config : PlainConfigs]
  \cup [op : {"deleteConfig"}, subject : {s1}]

\* One client at a time: two lines of versions in a subject, reserved fields, and
\* the config of the context.
GroupRequests ==
  Register({s1}, Fingerprints, Metas, {0}) \cup DeleteV({s1}, {0}, {FALSE})
  \cup [op : {"setConfig"}, subject : {s1}, config : GroupConfigs]
  \cup [op : {"setGlobalConfig"}, config : {ConfigOf("BACKWARD", "", "on")}]
  \cup [op : {"setGlobalMode"}, mode : {"READONLY"}, force : {FALSE}]
  \cup [op : {"deleteGlobalConfig", "deleteGlobalMode"}]

\* One client at a time: both imports, with the modes that admit them.
MigrationRequests ==
  Register({s2}, {fpA, fpB}, {NoMeta}, {0})
  \cup Import({s1}, {fpA, fpB}, {1, 3}, {0, 1})
  \cup Bulk({<<Item(s1, fpA, 2, 1), Item(s1, fpB, 3, 0), Item(s2, fpB, 1, 1)>>})
  \cup DeleteV({s1}, {1}, {TRUE, FALSE}) \cup DeleteS({s2}, {TRUE, FALSE})
  \cup SetModeOf({s1}, {"IMPORT"}, BOOLEAN)
  \cup [op : {"setGlobalMode"}, mode : Modes, force : {FALSE}]
  \cup [op : {"deleteMode"}, subject : {s1}] \cup [op : {"deleteGlobalMode"}]

\* A behaviour keeps to the requests of one load.
VARIABLE load
Loads == "plain" :> PlainRequests @@ "serial" :> SerialRequests @@ "groups" :> GroupRequests
         @@ "migration" :> MigrationRequests
LoadedRequests == UNION {Loads[l] : l \in LoadNames}
LoadedInit == Init /\ load \in LoadNames
\* Bound: with imports, no registration starts above the second ID or version.
Small(r) ==
  load = "migration" /\ r.op = "register" => nextID <= 2 /\ nextSubjectVersion[r.subject] < 2
LoadedNext ==
  /\ \E c \in Clients : Step(c) \/ \E r \in Loads[load] : Small(r) /\ Begin(c, r)
  /\ UNCHANGED load
LoadedSpec == LoadedInit /\ [][LoadedNext]_<<vars, load>> /\ \A c \in Clients : WF_vars(Step(c))

NoRefs == [fp \in Fingerprints |-> {}]
RefBtoA == [fp \in Fingerprints |-> IF fp = fpB THEN {<<s1, 1>>} ELSE {}]
AllReadable == Fingerprints \X Fingerprints
\* Every content reads itself; fpA and fpB do not read each other.
SelfReadable == {<<fp, fp>> : fp \in Fingerprints}
\* fpA and fpB read each other, fpC reads fpB only.
ChainReadable == SelfReadable \cup {<<fpA, fpB>>, <<fpB, fpA>>, <<fpC, fpB>>}
Symmetry == Permutations(Clients)
=============================================================================
