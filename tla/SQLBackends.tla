----------------------------- MODULE SQLBackends -----------------------------
(***************************************************************************)
(* A registry context kept in PostgreSQL or in MySQL: the steps of the     *)
(* backend in use, and what holds of the tables whichever it is.           *)
(***************************************************************************)
EXTENDS PostgresStore, MySQLStore

Step(c) == PgStep(c) \/ MyStep(c)

Next == \E c \in Clients : Step(c) \/ \E r \in Calls[load] : Begin(c, r)

\* The database answers every statement.
Fairness == \A c \in Clients : WF_vars(Step(c))

Spec == Init /\ [][Next]_vars /\ Fairness

-----------------------------------------------------------------------------
(* Type correctness of the tables and of the calls in progress.            *)
TypeOK ==
  /\ engine \in Engines /\ load \in Loads
  /\ DOMAIN schemas \subseteq SubjectVersion
  /\ \A k \in DOMAIN schemas :
        schemas[k] \in [fp : Fingerprints, meta : Metas, deleted : BOOLEAN]
  /\ DOMAIN fingerprints \subseteq Fingerprints
  /\ \A fp \in DOMAIN fingerprints : fingerprints[fp] \in Nat \ {0}
  /\ references \subseteq Nat \X SubjectVersion
  /\ nextId \in Nat \ {0}
  /\ settings \subseteq Subjects \X {"configs", "modes"}
  /\ \A c \in Clients : req[c] \in RequestType \cup {NoRequest} /\ loc[c] \in Locals

Idle == \A c \in Clients : pc[c] = "idle"

\* A live version is found by every read path of the backend, under one ID and
\* with its references: the lookups by version, content, ID, subject and
\* reference go through different tables, and agree at every moment.
ReadPathsAgree ==
  \A s \in Subjects : \A v \in Live(s) :
     LET id == GlobalSchemaID(schemas[<<s, v>>].fp) IN
     IF engine = "postgres" THEN PgShows(<<s, v>>, id) ELSE MyShows(<<s, v>>, id)

\* An ID that was answered never stands for another content.  Without permanent
\* deletes an answered content also stays in its subject and under the ID;
\* registered again after a soft delete it moves to another version.
AnswerDurable ==
  \A p \in promised :
     /\ \A fp \in DOMAIN fingerprints : fingerprints[fp] = p.id => fp = p.fp
     /\ load # "deletes" =>
          /\ GlobalSchemaID(p.fp) = p.id
          /\ \E v \in VersionsOf(p.subject) : schemas[<<p.subject, v>>].fp = p.fp

\* A subject holds a content with the same metadata in one live version only,
\* though the check and the insert of a registration are separate statements.
\* Soft deletes in between break it: the purge of a deleted version frees its number.
NoDuplicateVersion ==
  load # "softDeletes" =>
  \A s \in Subjects : \A v, w \in Live(s) :
     schemas[<<s, v>>].fp = schemas[<<s, w>>].fp /\ schemas[<<s, v>>].meta = schemas[<<s, w>>].meta
     => v = w

\* The next ID is free: a registration would otherwise lose its claim, fail
\* without a retry, and roll the allocator back to the same ID.
CreateFindsFreeID ==
  (\A c \in Clients : loc[c].alloc = 0) => nextId \notin IDsInUse

\* When no call is in progress, mappings and references are those of the
\* contents in use, and each content in use has its mapping.
NothingOrphaned ==
  Idle => /\ DOMAIN fingerprints = {schemas[k].fp : k \in DOMAIN schemas}
          /\ references = UNION {{fingerprints[fp]} \X Refs[fp] : fp \in DOMAIN fingerprints}

\* The tables of either backend hold together: the read paths, the mappings and
\* references, and the allocator of IDs.
TablesAgree == TypeOK /\ ReadPathsAgree /\ NothingOrphaned /\ CreateFindsFreeID

\* Every call comes to an end: the retries are bounded, and two transactions
\* that wait for each other are told apart.
EveryCallEnds == \A c \in Clients : pc[c] # "idle" ~> pc[c] = "idle"
=============================================================================
