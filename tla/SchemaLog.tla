----------------------------- MODULE SchemaLog -----------------------------
(***************************************************************************)
(* What a schema registry context promises its users when nobody imports:  *)
(* subjects are logs of versions, each version names a schema ID, an ID    *)
(* stands for one content for ever, and equal contents share one ID.       *)
(* The steps are what clients can observe, whatever happens inside.        *)
(***************************************************************************)
EXTENDS Naturals

CONSTANTS Subjects, Fingerprints

VARIABLES content,  \* schema ID -> content, for the IDs in use
          issued,   \* the highest ID ever given out
          log       \* subject -> version -> [id, live]

logVars == <<content, issued, log>>

EmptyLog == [j \in {} |-> 0]
\* The IDs that some version of a log names.
Used(l) == UNION {{l[s][v].id : v \in DOMAIN l[s]} : s \in Subjects}

LogInit ==
  /\ content = EmptyLog
  /\ issued = 0
  /\ log = [s \in Subjects |-> EmptyLog]

\* A registration: a new highest version, with the ID the content already has
\* or else an ID that was never given out.
Publish(s, fp) ==
  LET known == {i \in DOMAIN content : content[i] = fp}
  IN \E i \in known \cup {issued + 1} :
        /\ known # {} => i \in known
        /\ issued' = IF known # {} THEN issued ELSE i
        /\ content' = [j \in DOMAIN content \cup {i} |-> IF j = i THEN fp ELSE content[j]]
        /\ \E v \in DOMAIN log'[s] :
              /\ \A w \in DOMAIN log[s] : w < v
              /\ log' = [log EXCEPT ![s] =
                   [w \in DOMAIN @ \cup {v} |-> IF w = v THEN [id |-> i, live |-> TRUE] ELSE @[w]]]

\* A soft delete: some live versions of a subject are retired, none comes back.
Retire(s, V) ==
  /\ log' = [log EXCEPT ![s] = [v \in DOMAIN @ |->
                IF v \in V THEN [id |-> @[v].id, live |-> FALSE] ELSE @[v]]]
  /\ UNCHANGED <<content, issued>>

\* A permanent delete: retired versions vanish, and with them the content of
\* the IDs that no version names any more.
Purge(s, V) ==
  /\ V # {} /\ \A v \in V : ~log[s][v].live
  /\ log' = [log EXCEPT ![s] = [v \in DOMAIN @ \ V |-> @[v]]]
  /\ content' = [i \in DOMAIN content \cap Used(log') |-> content[i]]
  /\ UNCHANGED issued

LogNext ==
  \E s \in Subjects :
     \/ \E fp \in Fingerprints : Publish(s, fp)
     \/ \E V \in SUBSET DOMAIN log[s] : Retire(s, V) \/ Purge(s, V)

LogSpec == LogInit /\ [][LogNext]_logVars

\* Whatever is registered and deleted, an ID that was given out keeps its
\* content as long as it is in use, and never gets another one after that.
IDsNeverRebound ==
  [][\A i \in DOMAIN content' :
        i <= issued => i \in DOMAIN content /\ content'[i] = content[i]]_logVars
=============================================================================
