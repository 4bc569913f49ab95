------------------------------ MODULE Registry ------------------------------
(***************************************************************************)
(* The registry service (internal/registry/registry.go) over the in-memory *)
(* store.  Each HTTP request runs in a goroutine of its own and holds no   *)
(* lock across its storage calls, so a request is a sequence of steps, one *)
(* per storage call (adjacent reads that decide one early return are one   *)
(* step), and the steps of several clients interleave.                     *)
(***************************************************************************)
EXTENDS MemoryStore, Compatibility, Sequences

CONSTANTS Clients,       \* request goroutines
          Requests,      \* the requests a client may send
          NoRequest,     \* no request in progress
          Refs,          \* content -> the subject-versions it references
          Readable,      \* pairs <<reader, writer>> the type checkers accept
          DefaultConfig, \* r.defaultConfig
          Properties,    \* metadata properties a config may group versions by
          Property,      \* metadata -> property -> its value
          Reserved,      \* metadata -> the fields its confluent:reserved names
          TopLevel       \* content -> its top-level fields

\* What of a config decides whether a registration is let in; group "" is none.
ConfigRecord == [level : AllLevels, group : Properties \cup {""}, validate : {"unset", "on", "off"}]

ItemType == [subject : Subjects, fp : Fingerprints, id : Nat, version : Nat]

\* meta is the request's metadata without confluent:version, cv the version
\* that property names (0: absent).  Version 0 of an import is "next", and of
\* a delete "latest".
RequestType ==
  [op : {"register"}, subject : Subjects, fp : Fingerprints, meta : Metas, cv : Nat]
  \cup [op : {"import"}, subject : Subjects, fp : Fingerprints, id : Nat \ {0}, version : Nat]
  \cup [op : {"bulk"}, items : Seq(ItemType)]
  \cup [op : {"deleteVersion"}, subject : Subjects, version : Nat, permanent : BOOLEAN]
  \cup [op : {"deleteSubject"}, subject : Subjects, permanent : BOOLEAN]
  \cup [op : {"setConfig"}, subject : Subjects, config : Configs]
  \cup [op : {"setGlobalConfig"}, config : Configs]
  \cup [op : {"setMode"}, subject : Subjects, mode : Modes, force : BOOLEAN]
  \cup [op : {"setGlobalMode"}, mode : Modes, force : BOOLEAN]
  \cup [op : {"deleteConfig", "deleteMode"}, subject : Subjects]
  \cup [op : {"deleteGlobalConfig", "deleteGlobalMode"}]

ASSUME RegistryAssumption ==
  /\ Requests \subseteq RequestType
  /\ NoRequest \notin Requests
  /\ Refs \in [Fingerprints -> SUBSET (Subjects \X Nat)]
  /\ Readable \subseteq Fingerprints \X Fingerprints
  /\ Configs \subseteq ConfigRecord
  /\ DOMAIN Reserved = Metas /\ Reserved[NoMeta] = {}
  /\ DefaultConfig \in AllLevels

VARIABLES pc,       \* where each client's request is
          req,      \* the request in progress
          loc,      \* what the request remembers between storage calls
          promised  \* <<id, content>> pairs that registrations answered

serviceVars == <<pc, req, loc>>
vars == <<storeVars, serviceVars, promised>>

Labels == {"idle", "error", "resolve", "lookup", "compat", "reserved", "prev",
           "create", "refetch", "assign", "import", "item", "store", "advance",
           "setNext", "check", "apply", "cleanup", "cleanupMode"}
Done == {"idle", "error"}

\* version: the version resolved or assigned; meta: the metadata to store;
\* next: the ID the sequence must reach; idx: the item of a bulk import.
Locals == [version : Nat, meta : Metas, next : Nat, idx : Nat]
NoLocals == [version |-> 0, meta |-> NoMeta, next |-> 0, idx |-> 1]

Init ==
  /\ StoreInit
  /\ pc = [c \in Clients |-> "idle"]
  /\ req = [c \in Clients |-> NoRequest]
  /\ loc = [c \in Clients |-> NoLocals]
  /\ promised = {}

-----------------------------------------------------------------------------
(* Settings with their fallback chains, within one context.                *)

GetConfig(s) == IF configs[s] # Unset THEN configs[s].level
                ELSE IF globalConfig # Unset THEN globalConfig.level ELSE DefaultConfig

isValidateFieldsEnabled(s) ==
  IF configs[s] # Unset /\ configs[s].validate # "unset"
    THEN configs[s].validate = "on"
    ELSE globalConfig # Unset /\ globalConfig.validate = "on"

\* filterByCompatibilityGroup keeps these of the versions V for a schema with
\* metadata m; only the subject's own config can name the group.
InGroup(s, m, V) ==
  {v \in V : configs[s] # Unset /\ configs[s].group # "" =>
               Property[subjectVersions[s][v].meta][configs[s].group] = Property[m][configs[s].group]}

\* GetMode(""): the mode of the context.
GetGlobalMode == IF globalMode # Unset THEN globalMode ELSE "READWRITE"

GetMode(s) ==
  IF globalMode = "READONLY_OVERRIDE" \/ modes[s] = Unset THEN GetGlobalMode
                                                          ELSE modes[s]

ReadOnly == {"READONLY", "READONLY_OVERRIDE"}
CheckModeForWrite(s) == GetMode(s) \notin ReadOnly

\* resolveReferences succeeds when every reference reached from these ones is
\* a live version, that is when some closed set of live versions holds them.
Resolves(refs) ==
  \E R \in SUBSET LiveVersions :
     /\ refs \subseteq R
     /\ \A sv \in R : Refs[Content(sv[1], sv[2])] \subseteq R

-----------------------------------------------------------------------------
Goto(c, label) == pc' = [pc EXCEPT ![c] = label]

Continue(c, label) == Goto(c, label) /\ UNCHANGED <<req, loc, promised>>

Remember(c, label, l) ==
  /\ Goto(c, label) /\ loc' = [loc EXCEPT ![c] = l]
  /\ UNCHANGED <<req, promised>>

Finish(c, label) ==
  /\ Goto(c, label)
  /\ req' = [req EXCEPT ![c] = NoRequest]
  /\ loc' = [loc EXCEPT ![c] = NoLocals]

Fail(c) == Finish(c, "error") /\ UNCHANGED promised

Return(c) == Finish(c, "idle") /\ UNCHANGED promised

\* A registration answers with a schema ID, which producers put in messages.
Answer(c, i) ==
  /\ Finish(c, "idle")
  /\ promised' = promised \cup {<<i, req[c].fp>>}

-----------------------------------------------------------------------------
(* The handlers: the mode decides whether a request is let in at all.      *)

Admitted(r) ==
  CASE r.op = "register" -> /\ CheckModeForWrite(r.subject) /\ GetMode(r.subject) # "IMPORT"
                            /\ nextID <= MaxID
                            /\ nextSubjectVersion[r.subject] < MaxVersion
    [] r.op = "import" -> GetMode(r.subject) = "IMPORT"
    [] r.op = "bulk" -> GetGlobalMode = "IMPORT"
    [] r.op \in {"deleteVersion", "deleteSubject", "setConfig", "deleteConfig"} ->
         CheckModeForWrite(r.subject)
    [] r.op \in {"setGlobalConfig", "deleteGlobalConfig"} -> GetGlobalMode \notin ReadOnly
    [] OTHER -> TRUE

FirstStep(r) ==
  CASE r.op \in {"register", "import"} -> "resolve"
    [] r.op = "bulk" -> "item"
    [] r.op \in {"deleteVersion", "deleteSubject", "setMode", "setGlobalMode"} -> "check"
    [] OTHER -> "apply"

Begin(c, r) ==
  /\ pc[c] \in Done
  /\ Admitted(r)
  /\ Goto(c, FirstStep(r))
  /\ req' = [req EXCEPT ![c] = r]
  /\ UNCHANGED <<storeVars, loc, promised>>

ResolveReferences(c) ==
  /\ pc[c] = "resolve"
  /\ IF Resolves(Refs[req[c].fp]) THEN Continue(c, "lookup") ELSE Fail(c)
  /\ UNCHANGED storeVars

-----------------------------------------------------------------------------
(* RegisterSchema                                                          *)

\* The answer an existing version may give: same metadata, and the version
\* confluent:version asks for, if it asks for one.
AcceptExisting(c, v, meta) ==
  /\ subjectVersions[req[c].subject][v].meta = meta
  /\ req[c].cv = 0 \/ req[c].cv = v

RegisterLookup(c) ==
  /\ pc[c] = "lookup" /\ req[c].op = "register"
  /\ LET s == req[c].subject
         found == GetSchemaByFingerprint(s, req[c].fp)
     IN \/ found = {} /\ Continue(c, "compat")
        \/ \E v \in found : IF AcceptExisting(c, v, req[c].meta)
                              THEN Answer(c, subjectVersions[s][v].id)
                              ELSE Continue(c, "compat")
  /\ UNCHANGED storeVars

RegisterCompat(c) ==
  /\ pc[c] = "compat"
  /\ LET s == req[c].subject
         level == GetConfig(s)
         existing == [v \in InGroup(s, req[c].meta, GetSchemasBySubject(s)) |-> Content(s, v)]
     IN IF /\ level # "NONE" => \A v \in DOMAIN existing : Resolves(Refs[existing[v]])
           /\ Check(Readable, level, req[c].fp, existing)
          THEN Continue(c, "reserved")
          ELSE Fail(c)
  /\ UNCHANGED storeVars

\* validateReservedFields: what the latest version reserves stays reserved, and
\* what is reserved is not a field.
KeepsReserved(s, fp, m) ==
  /\ Live(s) # {} => Reserved[subjectVersions[s][GetLatestVersion(s)].meta] \subseteq Reserved[m]
  /\ Reserved[m] \cap TopLevel[fp] = {}

RegisterReserved(c) ==
  /\ pc[c] = "reserved"
  /\ LET s == req[c].subject
     IN IF isValidateFieldsEnabled(s) => KeepsReserved(s, req[c].fp, req[c].meta)
          THEN Continue(c, "prev") ELSE Fail(c)
  /\ UNCHANGED storeVars

\* A request without metadata inherits the metadata of the latest version.
RegisterPrev(c) ==
  /\ pc[c] = "prev"
  /\ LET s == req[c].subject
         inherits == req[c].meta = NoMeta /\ req[c].cv = 0 /\ Live(s) # {}
         meta == IF inherits THEN subjectVersions[s][GetLatestVersion(s)].meta
                             ELSE req[c].meta
     IN Remember(c, "create", [loc[c] EXCEPT !.meta = meta])
  /\ UNCHANGED storeVars

RegisterCreate(c) ==
  /\ pc[c] = "create"
  /\ \/ /\ CreateSchema(req[c].subject, req[c].fp, loc[c].meta)
        /\ Answer(c, IF req[c].fp \in DOMAIN fingerprints
                       THEN fingerprints[req[c].fp] ELSE nextID)
     \/ /\ Duplicate(req[c].subject, req[c].fp, loc[c].meta)
        /\ Continue(c, "refetch")
        /\ UNCHANGED storeVars

RegisterRefetch(c) ==
  /\ pc[c] = "refetch"
  /\ LET s == req[c].subject
         found == GetSchemaByFingerprint(s, req[c].fp)
     IN \/ found = {} /\ Fail(c)
        \/ \E v \in found : IF AcceptExisting(c, v, loc[c].meta)
                              THEN Answer(c, subjectVersions[s][v].id)
                              ELSE Fail(c)
  /\ UNCHANGED storeVars

-----------------------------------------------------------------------------
(* RegisterSchemaWithID                                                    *)

ImportLookup(c) ==
  /\ pc[c] = "lookup" /\ req[c].op = "import"
  /\ IF GetSchemaByFingerprint(req[c].subject, req[c].fp) # {} THEN Return(c)
     ELSE IF req[c].version > 0
       THEN Remember(c, "import", [loc[c] EXCEPT !.version = req[c].version])
       ELSE Continue(c, "assign")
  /\ UNCHANGED storeVars

ImportAssign(c) ==
  /\ pc[c] = "assign"
  /\ LET taken == {v \in Versions(req[c].subject) : HasContent(req[c].subject, v)}
         next == IF taken = {} THEN 1 ELSE MaxOf(taken) + 1
     IN Remember(c, "import", [loc[c] EXCEPT !.version = next])
  /\ UNCHANGED storeVars

\* A version that exists is answered with the existing version, whatever its
\* content, if it can be read.
ImportStore(c) ==
  /\ pc[c] = "import"
  /\ LET s == req[c].subject
         v == loc[c].version
     IN \/ /\ ImportSchema(s, req[c].fp, req[c].id, v)
           /\ Goto(c, "advance")
           /\ loc' = [loc EXCEPT ![c].next = req[c].id + 1]
           /\ promised' = promised \cup {<<req[c].id, req[c].fp>>}
           /\ UNCHANGED req
        \/ /\ IDConflict(req[c].id, req[c].fp) \/ v \in Versions(s)
           /\ IF ~IDConflict(req[c].id, req[c].fp) /\ v \in Live(s) /\ HasContent(s, v)
                THEN Return(c) ELSE Fail(c)
           /\ UNCHANGED storeVars

\* Mutant: the sequence follows the last item instead of the highest ID.
BulkStoreLastID(c) ==
  /\ pc[c] = "store" /\ Goto(c, "item")
  /\ LET it == req[c].items[loc[c].idx]
     IN \/ /\ ImportSchema(it.subject, it.fp, it.id, it.version)
           /\ loc' = [loc EXCEPT ![c].idx = @ + 1, ![c].next = it.id + 1]
           /\ promised' = promised \cup {<<it.id, it.fp>>}
           /\ UNCHANGED req
        \/ /\ IDConflict(it.id, it.fp) \/ it.version \in Versions(it.subject)
           /\ loc' = [loc EXCEPT ![c].idx = @ + 1]
           /\ UNCHANGED <<req, promised, storeVars>>

\* ImportSchemas, one item after the other: an item that fails, or has no ID or
\* version, is skipped.
\* Mutant: an item that fails is not passed over.
SkipItemAgain(c) == UNCHANGED <<loc, req, promised>>

SkipItem(c) == loc' = [loc EXCEPT ![c].idx = @ + 1] /\ UNCHANGED <<req, promised>>

BulkResolve(c) ==
  /\ pc[c] = "item" /\ loc[c].idx <= Len(req[c].items)
  /\ LET it == req[c].items[loc[c].idx]
     IN IF it.id > 0 /\ it.version > 0 /\ Resolves(Refs[it.fp])
          THEN Continue(c, "store")
          ELSE Goto(c, "item") /\ SkipItem(c)
  /\ UNCHANGED storeVars

BulkStore(c) ==
  /\ pc[c] = "store" /\ Goto(c, "item")
  /\ LET it == req[c].items[loc[c].idx]
         reached == IF it.id + 1 > loc[c].next THEN it.id + 1 ELSE loc[c].next
     IN \/ /\ ImportSchema(it.subject, it.fp, it.id, it.version)
           /\ loc' = [loc EXCEPT ![c].idx = @ + 1, ![c].next = reached]
           /\ promised' = promised \cup {<<it.id, it.fp>>}
           /\ UNCHANGED req
        \/ /\ IDConflict(it.id, it.fp) \/ it.version \in Versions(it.subject)
           /\ SkipItem(c)
           /\ UNCHANGED storeVars

BulkEnd(c) ==
  /\ pc[c] = "item" /\ loc[c].idx > Len(req[c].items)
  /\ IF loc[c].next > 0 THEN Continue(c, "advance") ELSE Return(c)
  /\ UNCHANGED storeVars

\* Both imports end alike: read the highest ID, then set the sequence.
AdvanceRead(c) ==
  /\ pc[c] = "advance"
  /\ LET next == IF GetMaxSchemaID + 1 > loc[c].next THEN GetMaxSchemaID + 1
                                                     ELSE loc[c].next
     IN Remember(c, "setNext", [loc[c] EXCEPT !.next = next])
  /\ UNCHANGED storeVars

AdvanceSet(c) ==
  /\ pc[c] = "setNext"
  /\ SetNextID(loc[c].next)
  /\ Return(c)

-----------------------------------------------------------------------------
(* DeleteVersion and DeleteSubject                                         *)

\* Mutant: only the highest version is looked at.
UnreferencedLatest(s, V) ==
  V # {} => GetReferencedBy(Refs, s, MaxOf(V)) = {}

Unreferenced(s, V) == \A v \in V : GetReferencedBy(Refs, s, v) = {}

DeleteVersionCheck(c) ==
  /\ pc[c] = "check" /\ req[c].op = "deleteVersion"
  /\ LET s == req[c].subject
         perm == req[c].permanent
         candidates == IF perm THEN Versions(s) \ Live(s) ELSE GetSchemasBySubject(s)
         v == IF req[c].version > 0 THEN req[c].version ELSE MaxOf(candidates)
     IN IF /\ req[c].version = 0 => candidates # {}
           /\ ~perm => v \in candidates /\ Unreferenced(s, {v})
          THEN Remember(c, "apply", [loc[c] EXCEPT !.version = v])
          ELSE Fail(c)
  /\ UNCHANGED storeVars

DeleteVersionApply(c) ==
  /\ pc[c] = "apply" /\ req[c].op = "deleteVersion"
  /\ LET s == req[c].subject
         v == loc[c].version
     IN \/ ~req[c].permanent /\ DeleteSchema(s, v) /\ Return(c)
        \/ req[c].permanent /\ DeleteSchemaPermanent(s, v) /\ Return(c)
        \/ /\ \/ v \notin Versions(s)
              \/ req[c].permanent /\ v \in Live(s)
           /\ Fail(c)
           /\ UNCHANGED storeVars

DeleteSubjectCheck(c) ==
  /\ pc[c] = "check" /\ req[c].op = "deleteSubject"
  /\ LET s == req[c].subject
     IN IF req[c].permanent \/ Unreferenced(s, GetSchemasBySubject(s))
          THEN Continue(c, "apply") ELSE Fail(c)
  /\ UNCHANGED storeVars

DeleteSubjectApply(c) ==
  /\ pc[c] = "apply" /\ req[c].op = "deleteSubject"
  /\ LET s == req[c].subject
     IN \/ ~req[c].permanent /\ DeleteSubject(s) /\ Return(c)
        \/ req[c].permanent /\ DeleteSubjectPermanent(s) /\ Continue(c, "cleanup")
        \/ /\ Versions(s) = {} \/ (req[c].permanent <=> Live(s) # {})
           /\ Fail(c)
           /\ UNCHANGED storeVars

\* The service drops the subject's config and then its mode again, after the
\* store did, and ignores the errors.
DeleteSubjectCleanup(c) ==
  \/ /\ pc[c] = "cleanup"
     /\ configs' = [configs EXCEPT ![req[c].subject] = Unset]
     /\ Continue(c, "cleanupMode")
     /\ UNCHANGED <<schemaVars, globalConfig, modes, globalMode>>
  \/ /\ pc[c] = "cleanupMode"
     /\ modes' = [modes EXCEPT ![req[c].subject] = Unset]
     /\ Return(c)
     /\ UNCHANGED <<schemaVars, configs, globalConfig, globalMode>>

-----------------------------------------------------------------------------
(* Configs and modes                                                       *)

RegistrySetConfig(c) ==
  /\ pc[c] = "apply"
  /\ \/ req[c].op = "setConfig" /\ SetConfig(req[c].subject, req[c].config)
     \/ req[c].op = "setGlobalConfig" /\ SetGlobalConfig(req[c].config)
  /\ Return(c)

RegistryDeleteConfig(c) ==
  /\ pc[c] = "apply"
  /\ \/ req[c].op = "deleteConfig" /\ DeleteConfig(req[c].subject) /\ Return(c)
     \/ /\ req[c].op = "deleteConfig" /\ configs[req[c].subject] = Unset
        /\ Fail(c) /\ UNCHANGED storeVars
     \/ req[c].op = "deleteGlobalConfig" /\ DeleteGlobalConfig /\ Return(c)

\* Switching to IMPORT needs force if the subject, or for the mode of the
\* context any subject, has live versions.
SetModeCheck(c) ==
  /\ pc[c] = "check" /\ req[c].op \in {"setMode", "setGlobalMode"}
  /\ LET one == req[c].op = "setMode"
         mode == IF one THEN GetMode(req[c].subject) ELSE GetGlobalMode
         hasSubjects == \E s \in Subjects :
                          Live(s) # {} /\ (one => s = req[c].subject)
     IN IF req[c].mode = "IMPORT" /\ ~req[c].force /\ mode # "IMPORT" /\ hasSubjects
          THEN Fail(c) ELSE Continue(c, "apply")
  /\ UNCHANGED storeVars

RegistrySetMode(c) ==
  /\ pc[c] = "apply"
  /\ \/ req[c].op = "setMode" /\ SetMode(req[c].subject, req[c].mode)
     \/ req[c].op = "setGlobalMode" /\ SetGlobalMode(req[c].mode)
  /\ Return(c)

RegistryDeleteMode(c) ==
  /\ pc[c] = "apply"
  /\ \/ req[c].op = "deleteMode" /\ DeleteMode(req[c].subject) /\ Return(c)
     \/ /\ req[c].op = "deleteMode" /\ modes[req[c].subject] = Unset
        /\ Fail(c) /\ UNCHANGED storeVars
     \/ req[c].op = "deleteGlobalMode" /\ DeleteGlobalMode /\ Return(c)

-----------------------------------------------------------------------------
Step(c) ==
  \/ ResolveReferences(c)
  \/ RegisterLookup(c) \/ RegisterCompat(c) \/ RegisterReserved(c) \/ RegisterPrev(c)
  \/ RegisterCreate(c) \/ RegisterRefetch(c)
  \/ ImportLookup(c) \/ ImportAssign(c) \/ ImportStore(c)
  \/ BulkResolve(c) \/ BulkStore(c) \/ BulkEnd(c) \/ AdvanceRead(c) \/ AdvanceSet(c)
  \/ DeleteVersionCheck(c) \/ DeleteVersionApply(c)
  \/ DeleteSubjectCheck(c) \/ DeleteSubjectApply(c) \/ DeleteSubjectCleanup(c)
  \/ RegistrySetConfig(c) \/ RegistryDeleteConfig(c)
  \/ SetModeCheck(c) \/ RegistrySetMode(c) \/ RegistryDeleteMode(c)

Next == \E c \in Clients : Step(c) \/ \E r \in Requests : Begin(c, r)

Spec == Init /\ [][Next]_vars /\ \A c \in Clients : WF_vars(Step(c))

-----------------------------------------------------------------------------
(* Type correctness of the service and its store.                          *)
TypeOK ==
  /\ StoreTypeOK
  /\ pc \in [Clients -> Labels]
  /\ \A c \in Clients : req[c] \in Requests \cup {NoRequest}
  /\ loc \in [Clients -> Locals]
  /\ promised \subseteq Nat \X Fingerprints

\* An ID that a registration or an import has answered never comes to stand
\* for other content, however requests interleave: consumers decode messages
\* by the ID alone.
PromiseKept ==
  \A p \in promised : p[1] \in DOMAIN schemas => schemas[p[1]] = p[2]

\* RegisterSchema only calls CreateSchema when the next ID is unused, which is
\* what the store's integrity rests on (MemoryStore!NextIDFree).
CreateFindsFreeID == \A c \in Clients : pc[c] = "create" => NextIDFree

\* Registrations alone never give one content two IDs, nor one subject two
\* live versions with the same content and metadata: CreateSchema decides
\* both under the store's lock, whatever stale reads preceded it.
NoDuplicates ==
  /\ \A i, j \in DOMAIN schemas : schemas[i] = schemas[j] => i = j
  /\ \A s \in Subjects : \A v, w \in Live(s) :
        /\ Content(s, v) = Content(s, w)
        /\ subjectVersions[s][v].meta = subjectVersions[s][w].meta
        => v = w

\* Every reference of a live version is a live version itself: a referenced
\* version cannot be deleted, and a deleted one cannot be referenced.
ReferencesLive ==
  \A sv \in LiveVersions : Refs[Content(sv[1], sv[2])] \subseteq LiveVersions

\* The version a registration adds is compatible with the live versions of its
\* group, under the subject's level at that moment: in the BACKWARD and FULL
\* levels it reads the latest of them, in the FORWARD and FULL levels the latest
\* reads it, and in the transitive levels that holds of each.  The group is that
\* of the request's metadata; all versions are of one group if the config names
\* none.  And where the config asks for it, the version that is stored, be its
\* metadata inherited or not, reserves what the one before it reserved and has
\* none of that for a field.
CompatibleStep ==
  \A c \in Clients : pc[c] = "create" /\ pc'[c] = "idle" =>
     LET s == req[c].subject
         level == GetConfig(s)
         new == req[c].fp
         kin == InGroup(s, req[c].meta, Live(s))
     IN /\ \A v \in kin :
             (\A w \in kin : w <= v)
               \/ level \in {"BACKWARD_TRANSITIVE", "FORWARD_TRANSITIVE", "FULL_TRANSITIVE"}
             => /\ level \in {"BACKWARD", "BACKWARD_TRANSITIVE", "FULL", "FULL_TRANSITIVE"}
                     => <<new, Content(s, v)>> \in Readable
                /\ level \in {"FORWARD", "FORWARD_TRANSITIVE", "FULL", "FULL_TRANSITIVE"}
                     => <<Content(s, v), new>> \in Readable
        /\ isValidateFieldsEnabled(s) => KeepsReserved(s, new, loc[c].meta)

CompatibilityEnforced == [][CompatibleStep]_vars

\* Every request is answered.
EveryRequestAnswered == \A c \in Clients : pc[c] \notin Done ~> pc[c] \in Done
-----------------------------------------------------------------------------
(* Without imports the service implements the abstract schema log.         *)

\* The log the version rows stand for.
LogOf == [s \in Subjects |-> [v \in Versions(s) |->
            [id |-> subjectVersions[s][v].id, live |-> ~subjectVersions[s][v].deleted]]]

Log == INSTANCE SchemaLog WITH content <- schemas, issued <- nextID - 1, log <- LogOf

\* Whatever stale reads registrations and deletes act on, what a client can
\* observe of the store is a behaviour of the abstract log, in which no ID that
\* was given out ever gets another content.
ImplementsLog == Log!LogSpec /\ Log!IDsNeverRebound

\* What clients were told stays true: the tables and the requests have their
\* types, and an ID that was answered stands for the content it was answered for.
AnswersTrue == TypeOK /\ PromiseKept
=============================================================================
