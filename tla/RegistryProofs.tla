--------------------------- MODULE RegistryProofs ---------------------------
(***************************************************************************)
(* The service over the in-memory store, proved for every set of clients,  *)
(* requests, subjects, contents and levels, in two regimes.                *)
(*                                                                         *)
(* NoImports: any number of clients register and delete, and their storage *)
(* calls interleave in any way.  The invariant PlainInv holds; from it     *)
(* follow AnswersTrue, NoDuplicates, CreateFindsFreeID and the refinement  *)
(* of SchemaLog.  It needs more than those properties: an answered ID      *)
(* stays true only because every ID in use or answered is below the        *)
(* sequence (IDsBelowNext), and one content has one ID only because the    *)
(* fingerprint table finds every stored content (EveryContentIndexed).     *)
(* Both fail when imports interleave: SetNextID may rewind the sequence.   *)
(*                                                                         *)
(* Serial: requests run one at a time, imports included.  The invariant    *)
(* SerialInv holds; from it follow ReferencesLive, CompatibilityEnforced   *)
(* and CreateFindsFreeID.  Its part Owed carries what a check established  *)
(* from the step that made it to the step that writes, and IDsCovered      *)
(* says that an import in progress knows the ID it is going to set.  When  *)
(* requests overlap Owed fails: another request writes between the check   *)
(* and the write.                                                          *)
(*                                                                         *)
(* The argument is in three layers: ControlInv ties a request's place to   *)
(* its operation and its locals; StepEffect reduces every step to one of   *)
(* five effects on the store; each regime shows that the effects keep its  *)
(* invariant.                                                              *)
(***************************************************************************)
EXTENDS Registry, MemoryStoreProofs, WellFoundedInduction

-----------------------------------------------------------------------------
(* Facts about the operators and the requests.                             *)

\* A bounded non-empty set of numbers has a greatest element, which MaxOf finds.
LEMMA MaxOfBounded ==
  ASSUME NEW V \in SUBSET Nat, V # {}, NEW b \in Nat, \A v \in V : v <= b
  PROVE  MaxOf(V) \in V /\ \A w \in V : w <= MaxOf(V)
<1> DEFINE U == {u \in Nat : \A w \in V : w <= u}
           R == OpToRel(<, Nat)
<1>1. IsWellFoundedOn(R, Nat)
  BY NatLessThanWellFounded
<1>2. U \subseteq Nat /\ U # {}
  OBVIOUS
<1>3. PICK u \in U : \A y \in U : <<y, u>> \notin R
  <2> HIDE DEF U, R
  <2> QED BY <1>1, <1>2, WFMin
<1>4. \A y \in U : ~(y < u)
  BY <1>3 DEF OpToRel
<1>5. u \in V
  <2> SUFFICES ASSUME u \notin V PROVE FALSE
    OBVIOUS
  <2>1. \A w \in V : w < u
    OBVIOUS
  <2>2. PICK w \in V : TRUE
    OBVIOUS
  <2>3. u - 1 \in U
    BY <2>1, <2>2
  <2> QED BY <1>4, <2>3
<1> QED BY <1>5 DEF MaxOf

\* The fields of a request, by its operation.
LEMMA RequestFields ==
  ASSUME NEW r \in Requests
  PROVE  /\ r.op = "register" => /\ r.subject \in Subjects /\ r.fp \in Fingerprints
                                 /\ r.meta \in Metas /\ r.cv \in Nat
         /\ r.op = "import" => /\ r.subject \in Subjects /\ r.fp \in Fingerprints
                               /\ r.id \in Nat \ {0} /\ r.version \in Nat
         /\ r.op = "bulk" => r.items \in Seq(ItemType)
         /\ r.op = "deleteVersion" => /\ r.subject \in Subjects /\ r.version \in Nat
                                      /\ r.permanent \in BOOLEAN
         /\ r.op = "deleteSubject" => r.subject \in Subjects /\ r.permanent \in BOOLEAN
         /\ r.op = "setConfig" => r.subject \in Subjects /\ r.config \in Configs
         /\ r.op = "setGlobalConfig" => r.config \in Configs
         /\ r.op = "setMode" => r.subject \in Subjects /\ r.mode \in Modes
         /\ r.op = "setGlobalMode" => r.mode \in Modes
         /\ r.op \in {"deleteConfig", "deleteMode"} => r.subject \in Subjects
         /\ r.op \in {"register", "import", "bulk", "deleteVersion", "deleteSubject",
                      "setConfig", "setMode", "setGlobalMode", "deleteConfig",
                      "deleteMode", "setGlobalConfig", "deleteGlobalConfig",
                      "deleteGlobalMode"}
<1>1. r \in RequestType
  BY RegistryAssumption
<1>2. CASE r \in [op : {"register"}, subject : Subjects, fp : Fingerprints,
                  meta : Metas, cv : Nat]
  BY <1>2
<1>3. CASE r \in [op : {"import"}, subject : Subjects, fp : Fingerprints,
                  id : Nat \ {0}, version : Nat]
  BY <1>3
<1>4. CASE r \in [op : {"bulk"}, items : Seq(ItemType)]
  BY <1>4
<1>5. CASE r \in [op : {"deleteVersion"}, subject : Subjects, version : Nat,
                  permanent : BOOLEAN]
  BY <1>5
<1>6. CASE r \in [op : {"deleteSubject"}, subject : Subjects, permanent : BOOLEAN]
  BY <1>6
<1>7. CASE r \in [op : {"setConfig"}, subject : Subjects, config : Configs]
  BY <1>7
<1>8. CASE r \in [op : {"setMode"}, subject : Subjects, mode : Modes, force : BOOLEAN]
  BY <1>8
<1>9. CASE r \in [op : {"setGlobalMode"}, mode : Modes, force : BOOLEAN]
  BY <1>9
<1>10. CASE r \in [op : {"deleteConfig", "deleteMode"}, subject : Subjects]
  BY <1>10
<1>11. CASE r \in [op : {"deleteGlobalConfig", "deleteGlobalMode"}]
  BY <1>11
<1>12. CASE r \in [op : {"setGlobalConfig"}, config : Configs]
  BY <1>12
<1> QED
  BY <1>1, <1>2, <1>3, <1>4, <1>5, <1>6, <1>7, <1>8, <1>9, <1>10, <1>11, <1>12
     DEF RequestType

-----------------------------------------------------------------------------
(* Control: where a request is tells which request it is and what it has   *)
(* remembered.                                                             *)

\* Request r with locals x may be at label l.
Fits(l, r, x) ==
  /\ l \in Labels /\ x \in Locals
  /\ l \in Done => r = NoRequest /\ x = NoLocals
  /\ l \notin Done => r \in Requests
  /\ l \in {"resolve", "lookup"} => r.op \in {"register", "import"}
  /\ l \in {"compat", "reserved", "prev", "create", "refetch"} => r.op = "register"
  /\ l \in {"assign", "import"} => r.op = "import"
  /\ l \in {"item", "store"} => r.op = "bulk" /\ x.idx > 0
  /\ l \in {"advance", "setNext"} => r.op \in {"import", "bulk"}
  /\ l = "check" => r.op \in {"deleteVersion", "deleteSubject", "setMode", "setGlobalMode"}
  /\ l = "apply" => r.op \notin {"register", "import", "bulk"}
  /\ l \in {"cleanup", "cleanupMode"} => r.op = "deleteSubject"
  /\ l = "import" => x.version > 0
  /\ l = "store" => /\ x.idx <= Len(r.items)
                    /\ r.items[x.idx].id > 0 /\ r.items[x.idx].version > 0

\* Every client is at a label that fits its request.
ControlInv ==
  /\ pc \in [Clients -> Labels]
  /\ req \in [Clients -> Requests \cup {NoRequest}]
  /\ loc \in [Clients -> Locals]
  /\ \A c \in Clients : Fits(pc[c], req[c], loc[c])

\* One client moves: its label, request and locals become l, r and x.
MoveTo(c, l, r, x) ==
  /\ pc' = [pc EXCEPT ![c] = l]
  /\ req' = [req EXCEPT ![c] = r]
  /\ loc' = [loc EXCEPT ![c] = x]

\* A client that moves to a fitting place keeps the control invariant.
LEMMA ControlMove ==
  ASSUME ControlInv, NEW c \in Clients, NEW l, NEW r, NEW x,
         MoveTo(c, l, r, x), Fits(l, r, x)
  PROVE  ControlInv'
<1>1. l \in Labels /\ x \in Locals /\ r \in Requests \cup {NoRequest}
  BY DEF Fits
<1>2. /\ pc' \in [Clients -> Labels]
      /\ req' \in [Clients -> Requests \cup {NoRequest}]
      /\ loc' \in [Clients -> Locals]
  BY <1>1 DEF ControlInv, MoveTo
<1>3. ASSUME NEW d \in Clients PROVE Fits(pc[d], req[d], loc[d])'
  <2>1. CASE d = c
    <3>1. pc'[d] = l /\ req'[d] = r /\ loc'[d] = x
      BY <2>1 DEF ControlInv, MoveTo
    <3> QED BY <3>1 DEF Fits
  <2>2. CASE d # c
    <3>1. pc'[d] = pc[d] /\ req'[d] = req[d] /\ loc'[d] = loc[d]
      BY <2>2 DEF ControlInv, MoveTo
    <3>2. Fits(pc[d], req[d], loc[d])
      BY DEF ControlInv
    <3> QED BY <3>1, <3>2 DEF Fits
  <2> QED BY <2>1, <2>2
<1> QED BY <1>2, <1>3 DEF ControlInv

\* How the helpers of the service move a client.
LEMMA Moves ==
  ASSUME ControlInv, NEW c \in Clients, NEW l, NEW x
  PROVE  /\ Continue(c, l) => MoveTo(c, l, req[c], loc[c]) /\ promised' = promised
         /\ Remember(c, l, x) => MoveTo(c, l, req[c], x) /\ promised' = promised
         /\ Finish(c, l) => MoveTo(c, l, NoRequest, NoLocals)
         /\ Fail(c) => MoveTo(c, "error", NoRequest, NoLocals) /\ promised' = promised
         /\ Return(c) => MoveTo(c, "idle", NoRequest, NoLocals) /\ promised' = promised
  BY DEF ControlInv, Continue, Remember, Finish, Fail, Return, Goto, MoveTo

\* A finished request leaves nothing behind.
LEMMA DoneFits == \A l \in Done : Fits(l, NoRequest, NoLocals)
<1>1. NoLocals \in Locals
  BY StoreAssumption DEF NoLocals, Locals
<1> QED BY <1>1 DEF Fits, Done, Labels

\* The numbers of a subject's versions, and of its live ones, have a greatest.
LEMMA LatestExists ==
  ASSUME StoreInv, NEW s \in Subjects, NEW V \in SUBSET Versions(s), V # {}
  PROVE  /\ MaxOf(V) \in V /\ \A w \in V : w <= MaxOf(V)
         /\ MaxOf(V) \in Nat \ {0}
<1>1. /\ Versions(s) \subseteq Nat \ {0}
      /\ nextSubjectVersion[s] \in Nat
      /\ \A v \in Versions(s) : v <= nextSubjectVersion[s]
  BY DEF StoreInv, StoreTypeOK, CounterCoversVersions
<1>2. V \in SUBSET Nat /\ \A v \in V : v <= nextSubjectVersion[s]
  BY <1>1
<1>3. MaxOf(V) \in V /\ \A w \in V : w <= MaxOf(V)
  BY <1>1, <1>2, MaxOfBounded
<1> QED BY <1>1, <1>3

\* A request that begins is at the first step of its operation.
LEMMA BeginControl ==
  ASSUME ControlInv, NEW c \in Clients, NEW r \in Requests, Begin(c, r)
  PROVE  ControlInv'
<1>1. MoveTo(c, FirstStep(r), r, loc[c])
  BY DEF Begin, Goto, MoveTo, ControlInv
<1>2. loc[c] = NoLocals /\ loc[c] \in Locals
  BY DEF Begin, ControlInv, Fits
<1>3. Fits(FirstStep(r), r, loc[c])
  <2>1. loc[c].idx = 1
    BY <1>2 DEF NoLocals
  <2>2. /\ r.op \in {"register", "import"} => FirstStep(r) = "resolve"
        /\ r.op = "bulk" => FirstStep(r) = "item"
        /\ r.op \in {"deleteVersion", "deleteSubject", "setMode", "setGlobalMode"}
              => FirstStep(r) = "check"
        /\ r.op \in {"setConfig", "setGlobalConfig", "deleteConfig", "deleteGlobalConfig",
                     "deleteMode", "deleteGlobalMode"}
              => FirstStep(r) = "apply"
    BY DEF FirstStep
  <2> QED BY <1>2, <2>1, <2>2, RequestFields DEF Fits, Labels, Done
<1> QED BY <1>1, <1>3, ControlMove

\* Every step of a request leads to a fitting place.
LEMMA StepControl ==
  ASSUME StoreInv, ControlInv, NEW c \in Clients, Step(c)
  PROVE  ControlInv'
<1> DEFINE r == req[c]
           x == loc[c]
<1>0. /\ Fits(pc[c], r, x) /\ x \in Locals
      /\ \A l \in Done : Fits(l, NoRequest, NoLocals)
  BY DoneFits DEF ControlInv
<1> SUFFICES \E l, q, y : Fits(l, q, y) /\ MoveTo(c, l, q, y)
  BY ControlMove
<1>1. ASSUME NEW l, Finish(c, l), l \in Done
      PROVE  \E k, q, y : Fits(k, q, y) /\ MoveTo(c, k, q, y)
  BY <1>0, <1>1, Moves
<1>2. ASSUME Fail(c) \/ Return(c)
      PROVE  \E k, q, y : Fits(k, q, y) /\ MoveTo(c, k, q, y)
  BY <1>1, <1>2 DEF Fail, Return, Done
<1>3. ASSUME NEW i, Answer(c, i)
      PROVE  \E k, q, y : Fits(k, q, y) /\ MoveTo(c, k, q, y)
  BY <1>1, <1>3 DEF Answer, Done
<1>4. ASSUME NEW l, Continue(c, l), Fits(l, r, x)
      PROVE  \E k, q, y : Fits(k, q, y) /\ MoveTo(c, k, q, y)
  BY <1>4, Moves
<1>5. ASSUME NEW l, NEW y, Remember(c, l, y), Fits(l, r, y)
      PROVE  \E k, q, z : Fits(k, q, z) /\ MoveTo(c, k, q, z)
  BY <1>5, Moves
<1>6. pc[c] \notin Done => r \in Requests
  BY <1>0 DEF Fits
<1> HIDE DEF r, x
<1>7. CASE ResolveReferences(c)
  <2>1. pc[c] = "resolve" /\ (Continue(c, "lookup") \/ Fail(c))
    BY <1>7 DEF ResolveReferences
  <2>2. Fits("lookup", r, x)
    BY <1>0, <2>1 DEF Fits, Labels, Done
  <2> QED BY <1>2, <1>4, <2>1, <2>2
<1>8. CASE RegisterLookup(c)
  <2>1. pc[c] = "lookup" /\ r.op = "register"
    BY <1>8 DEF RegisterLookup, r
  <2>2. Continue(c, "compat") \/ \E i : Answer(c, i)
    BY <1>8 DEF RegisterLookup
  <2>3. Fits("compat", r, x)
    BY <1>0, <2>1 DEF Fits, Labels, Done
  <2> QED BY <1>3, <1>4, <2>2, <2>3
<1>9. CASE RegisterCompat(c)
  <2>1. pc[c] = "compat" /\ (Continue(c, "reserved") \/ Fail(c))
    BY <1>9 DEF RegisterCompat
  <2>2. Fits("reserved", r, x)
    BY <1>0, <2>1 DEF Fits, Labels, Done
  <2> QED BY <1>2, <1>4, <2>1, <2>2
<1>28. CASE RegisterReserved(c)
  <2>1. pc[c] = "reserved" /\ (Continue(c, "prev") \/ Fail(c))
    BY <1>28 DEF RegisterReserved
  <2>2. Fits("prev", r, x)
    BY <1>0, <2>1 DEF Fits, Labels, Done
  <2> QED BY <1>2, <1>4, <2>1, <2>2
<1>10. CASE RegisterPrev(c)
  <2>1. pc[c] = "prev" /\ r.op = "register" /\ r \in Requests
    BY <1>0, <1>10 DEF RegisterPrev, Fits, Done
  <2>2. r.subject \in Subjects /\ r.meta \in Metas
    BY <2>1, RequestFields
  <2> DEFINE s == r.subject
             inherits == r.meta = NoMeta /\ r.cv = 0 /\ Live(s) # {}
             meta == IF inherits THEN subjectVersions[s][GetLatestVersion(s)].meta
                                 ELSE r.meta
  <2>3. meta \in Metas
    <3>1. CASE inherits
      <4>1. Live(s) \in SUBSET Versions(s) /\ Live(s) # {}
        BY <3>1 DEF Live
      <4>2. GetLatestVersion(s) \in Versions(s)
        BY <2>2, <4>1, LatestExists DEF GetLatestVersion
      <4>3. subjectVersions[s][GetLatestVersion(s)] \in VersionInfo
        BY <2>2, <4>2 DEF StoreInv, StoreTypeOK
      <4> QED BY <3>1, <4>3 DEF VersionInfo
    <3>2. CASE ~inherits
      BY <2>2, <3>2
    <3> QED BY <3>1, <3>2
  <2>4. Remember(c, "create", [x EXCEPT !.meta = meta])
    BY <1>10 DEF RegisterPrev, r, x
  <2> HIDE DEF meta
  <2>5. Fits("create", r, [x EXCEPT !.meta = meta])
    BY <1>0, <2>1, <2>3 DEF Fits, Labels, Done, Locals
  <2> QED BY <1>5, <2>4, <2>5
<1>11. CASE RegisterCreate(c)
  <2>1. pc[c] = "create" /\ (Continue(c, "refetch") \/ \E i : Answer(c, i))
    BY <1>11 DEF RegisterCreate
  <2>2. Fits("refetch", r, x)
    BY <1>0, <2>1 DEF Fits, Labels, Done
  <2> QED BY <1>3, <1>4, <2>1, <2>2
<1>12. CASE RegisterRefetch(c)
  <2>1. Fail(c) \/ \E i : Answer(c, i)
    BY <1>12 DEF RegisterRefetch
  <2> QED BY <1>2, <1>3, <2>1
<1>13. CASE ImportLookup(c)
  <2>1. pc[c] = "lookup" /\ r.op = "import" /\ r \in Requests
    BY <1>0, <1>13 DEF ImportLookup, Fits, Done, r
  <2>2. r.version \in Nat
    BY <2>1, RequestFields
  <2>3. \/ Return(c) \/ Continue(c, "assign")
        \/ r.version > 0 /\ Remember(c, "import", [x EXCEPT !.version = r.version])
    BY <1>13 DEF ImportLookup, r, x
  <2>4. Fits("assign", r, x)
    BY <1>0, <2>1 DEF Fits, Labels, Done
  <2>5. r.version > 0 => Fits("import", r, [x EXCEPT !.version = r.version])
    BY <1>0, <2>1, <2>2 DEF Fits, Labels, Done, Locals
  <2> QED BY <1>2, <1>4, <1>5, <2>3, <2>4, <2>5
<1>14. CASE ImportAssign(c)
  <2>1. pc[c] = "assign" /\ r.op = "import" /\ r \in Requests
    BY <1>0, <1>14 DEF ImportAssign, Fits, Done
  <2>2. r.subject \in Subjects
    BY <2>1, RequestFields
  <2> DEFINE taken == {v \in Versions(r.subject) : HasContent(r.subject, v)}
             next == IF taken = {} THEN 1 ELSE MaxOf(taken) + 1
  <2>3. next \in Nat \ {0}
    <3>1. taken \in SUBSET Versions(r.subject)
      OBVIOUS
    <3> HIDE DEF taken
    <3> QED BY <2>2, <3>1, LatestExists
  <2>4. Remember(c, "import", [x EXCEPT !.version = next])
    BY <1>14 DEF ImportAssign, r, x
  <2> HIDE DEF next
  <2>5. Fits("import", r, [x EXCEPT !.version = next])
    BY <1>0, <2>1, <2>3 DEF Fits, Labels, Done, Locals
  <2> QED BY <1>5, <2>4, <2>5
<1>15. CASE ImportStore(c)
  <2>1. pc[c] = "import" /\ r.op = "import" /\ r \in Requests
    BY <1>0, <1>15 DEF ImportStore, Fits, Done
  <2>2. r.id \in Nat
    BY <2>1, RequestFields
  <2>3. \/ Return(c) \/ Fail(c)
        \/ MoveTo(c, "advance", r, [x EXCEPT !.next = r.id + 1])
    BY <1>15 DEF ImportStore, ControlInv, MoveTo, Goto, r, x
  <2>4. Fits("advance", r, [x EXCEPT !.next = r.id + 1])
    BY <1>0, <2>1, <2>2 DEF Fits, Labels, Done, Locals
  <2> QED BY <1>2, <2>3, <2>4
<1>16. CASE BulkResolve(c)
  <2>1. /\ pc[c] = "item" /\ r.op = "bulk" /\ r \in Requests
        /\ x.idx \in Nat \ {0} /\ x.idx <= Len(r.items)
    BY <1>0, <1>16 DEF BulkResolve, Fits, Done, Locals, r, x
  <2>2. \/ /\ r.items[x.idx].id > 0 /\ r.items[x.idx].version > 0
           /\ Continue(c, "store")
        \/ MoveTo(c, "item", r, [x EXCEPT !.idx = @ + 1])
    BY <1>16 DEF BulkResolve, SkipItem, ControlInv, MoveTo, Goto, r, x
  <2>3. r.items[x.idx].id > 0 /\ r.items[x.idx].version > 0 => Fits("store", r, x)
    BY <1>0, <2>1 DEF Fits, Labels, Done
  <2>4. Fits("item", r, [x EXCEPT !.idx = @ + 1])
    BY <1>0, <2>1 DEF Fits, Labels, Done, Locals
  <2> QED BY <1>4, <2>2, <2>3, <2>4
<1>17. CASE BulkStore(c)
  <2> DEFINE it == r.items[x.idx]
             reached == IF it.id + 1 > x.next THEN it.id + 1 ELSE x.next
  <2>0. pc[c] = "store"
    BY <1>17 DEF BulkStore
  <2>1. /\ pc[c] = "store" /\ r.op = "bulk" /\ r \in Requests
        /\ x.idx \in Nat \ {0} /\ x.idx <= Len(r.items) /\ x.next \in Nat
    BY <1>0, <2>0 DEF Fits, Done, Locals
  <2>2. it \in ItemType
    BY <2>1, RequestFields
  <2>3. reached \in Nat
    BY <2>1, <2>2 DEF ItemType
  <2>4. \/ MoveTo(c, "item", r, [[x EXCEPT !.idx = @ + 1] EXCEPT !.next = reached])
        \/ MoveTo(c, "item", r, [x EXCEPT !.idx = @ + 1])
    BY <1>17 DEF BulkStore, SkipItem, ControlInv, MoveTo, Goto, r, x
  <2> HIDE DEF reached
  <2>5. ASSUME NEW y \in Locals, y.idx > 0 PROVE Fits("item", r, y)
    BY <2>1, <2>5 DEF Fits, Labels, Done
  <2>6. /\ [x EXCEPT !.idx = @ + 1] \in Locals
        /\ [x EXCEPT !.idx = @ + 1].idx > 0
    BY <1>0, <2>1 DEF Locals
  <2>7. ASSUME NEW y \in Locals, y.idx > 0
        PROVE  [y EXCEPT !.next = reached] \in Locals /\ [y EXCEPT !.next = reached].idx > 0
    BY <2>3, <2>7 DEF Locals
  <2> QED BY <2>4, <2>5, <2>6, <2>7
<1>18. CASE BulkEnd(c)
  <2>1. pc[c] = "item" /\ (Continue(c, "advance") \/ Return(c))
    BY <1>18 DEF BulkEnd
  <2>2. Fits("advance", r, x)
    BY <1>0, <2>1 DEF Fits, Labels, Done
  <2> QED BY <1>2, <1>4, <2>1, <2>2
<1>19. CASE AdvanceRead(c)
  <2> DEFINE next == IF GetMaxSchemaID + 1 > x.next THEN GetMaxSchemaID + 1 ELSE x.next
  <2>1. pc[c] = "advance" /\ Remember(c, "setNext", [x EXCEPT !.next = next])
    BY <1>19 DEF AdvanceRead, x
  <2>2. next \in Nat
    BY <1>0 DEF StoreInv, StoreTypeOK, GetMaxSchemaID, Locals
  <2> HIDE DEF next
  <2>3. Fits("setNext", r, [x EXCEPT !.next = next])
    BY <1>0, <2>1, <2>2 DEF Fits, Labels, Done, Locals
  <2> QED BY <1>5, <2>1, <2>3
<1>20. CASE AdvanceSet(c)
  BY <1>2, <1>20 DEF AdvanceSet
<1>21. CASE DeleteVersionCheck(c)
  <2>1. pc[c] = "check" /\ r.op = "deleteVersion" /\ r \in Requests
    BY <1>0, <1>21 DEF DeleteVersionCheck, Fits, Done, r
  <2>2. r.subject \in Subjects /\ r.version \in Nat
    BY <2>1, RequestFields
  <2> DEFINE s == r.subject
             candidates == IF r.permanent THEN Versions(s) \ Live(s)
                                          ELSE GetSchemasBySubject(s)
             v == IF r.version > 0 THEN r.version ELSE MaxOf(candidates)
  <2>3. \/ Fail(c)
        \/ /\ r.version = 0 => candidates # {}
           /\ Remember(c, "apply", [x EXCEPT !.version = v])
    BY <1>21 DEF DeleteVersionCheck, r, x
  <2>4. candidates \in SUBSET Versions(s)
    BY DEF GetSchemasBySubject, Live
  <2> HIDE DEF candidates
  <2>5. (r.version = 0 => candidates # {}) => v \in Nat
    BY <2>2, <2>4, LatestExists
  <2> HIDE DEF v
  <2>6. v \in Nat => Fits("apply", r, [x EXCEPT !.version = v])
    BY <1>0, <2>1 DEF Fits, Labels, Done, Locals
  <2> QED BY <1>2, <1>5, <2>3, <2>5, <2>6
<1>22. CASE DeleteVersionApply(c)
  BY <1>2, <1>22 DEF DeleteVersionApply
<1>23. CASE DeleteSubjectCheck(c)
  <2>1. pc[c] = "check" /\ r.op = "deleteSubject" /\ (Continue(c, "apply") \/ Fail(c))
    BY <1>23 DEF DeleteSubjectCheck, r
  <2>2. Fits("apply", r, x)
    BY <1>0, <2>1 DEF Fits, Labels, Done
  <2> QED BY <1>2, <1>4, <2>1, <2>2
<1>24. CASE DeleteSubjectApply(c)
  <2>1. /\ pc[c] = "apply" /\ r.op = "deleteSubject"
        /\ Continue(c, "cleanup") \/ Return(c) \/ Fail(c)
    BY <1>24 DEF DeleteSubjectApply, r
  <2>2. Fits("cleanup", r, x)
    BY <1>0, <2>1 DEF Fits, Labels, Done
  <2> QED BY <1>2, <1>4, <2>1, <2>2
<1>25. CASE DeleteSubjectCleanup(c)
  <2>1. Return(c) \/ (pc[c] = "cleanup" /\ Continue(c, "cleanupMode"))
    BY <1>25 DEF DeleteSubjectCleanup
  <2>2. pc[c] = "cleanup" => Fits("cleanupMode", r, x)
    BY <1>0 DEF Fits, Labels, Done
  <2> QED BY <1>2, <1>4, <2>1, <2>2
<1>26. CASE SetModeCheck(c)
  <2>1. /\ pc[c] = "check" /\ r.op \in {"setMode", "setGlobalMode"}
        /\ Continue(c, "apply") \/ Fail(c)
    BY <1>26 DEF SetModeCheck, r
  <2>2. Fits("apply", r, x)
    BY <1>0, <2>1 DEF Fits, Labels, Done
  <2> QED BY <1>2, <1>4, <2>1, <2>2
<1>27. CASE RegistrySetConfig(c) \/ RegistryDeleteConfig(c)
            \/ RegistrySetMode(c) \/ RegistryDeleteMode(c)
  BY <1>2, <1>27 DEF RegistrySetConfig, RegistryDeleteConfig, RegistrySetMode,
                     RegistryDeleteMode
<1> QED
  BY <1>7, <1>8, <1>9, <1>10, <1>11, <1>12, <1>13, <1>14, <1>15, <1>16, <1>17,
     <1>18, <1>19, <1>20, <1>21, <1>22, <1>23, <1>24, <1>25, <1>26, <1>27,
     <1>28 DEF Step

-----------------------------------------------------------------------------
(* What a step of a request does to the schema tables and the answers.     *)

SettingsTyped ==
  /\ configs \in [Subjects -> Configs \cup {Unset}]
  /\ globalConfig \in Configs \cup {Unset}
  /\ modes \in [Subjects -> Modes \cup {Unset}]
  /\ globalMode \in Modes \cup {Unset}

Quiet == UNCHANGED <<schemaVars, promised>> /\ SettingsTyped'

\* An existing version answers a registration.
Answered ==
  \E s \in Subjects, fp \in Fingerprints : \E v \in GetSchemaByFingerprint(s, fp) :
     /\ UNCHANGED storeVars
     /\ promised' = promised \cup {<<subjectVersions[s][v].id, fp>>}

\* A registration adds a version.
Created(c) ==
  /\ pc[c] = "create" /\ req[c].op = "register" /\ req[c] \in Requests
  /\ loc[c].meta \in Metas
  /\ CreateSchema(req[c].subject, req[c].fp, loc[c].meta)
  /\ promised' = promised \cup
       {<<IF req[c].fp \in DOMAIN fingerprints THEN fingerprints[req[c].fp] ELSE nextID,
          req[c].fp>>}

\* An import, or one item of a bulk import, stores a version.
Imported(c) ==
  \E s \in Subjects, fp \in Fingerprints, i \in Nat \ {0}, v \in Nat \ {0} :
     /\ \/ pc[c] = "import" /\ fp = req[c].fp /\ pc'[c] = "advance" /\ loc'[c].next = i + 1
        \/ /\ pc[c] = "store" /\ fp = req[c].items[loc[c].idx].fp /\ pc'[c] = "item"
           /\ loc'[c].next >= i + 1 /\ loc'[c].next >= loc[c].next
     /\ ImportSchema(s, fp, i, v)
     /\ promised' = promised \cup {<<i, fp>>}

\* A delete that passed its checks marks or removes versions.
Deleted(c) ==
  /\ pc[c] = "apply"
  /\ promised' = promised
  /\ \E s \in Subjects :
        \/ \E v \in Versions(s) :
              /\ req[c].op = "deleteVersion" /\ s = req[c].subject /\ v = loc[c].version
              /\ \/ ~req[c].permanent /\ DeleteSchema(s, v)
                 \/ DeleteSchemaPermanent(s, v)
        \/ /\ req[c].op = "deleteSubject" /\ s = req[c].subject
           /\ \/ ~req[c].permanent /\ DeleteSubject(s)
              \/ DeleteSubjectPermanent(s)

\* Every step of a request is one of these.
LEMMA StepEffect ==
  ASSUME StoreInv, ControlInv, NEW c \in Clients, Step(c)
  PROVE  Quiet \/ Answered \/ Created(c) \/ Imported(c) \/ AdvanceSet(c) \/ Deleted(c)
<1> DEFINE r == req[c]
           x == loc[c]
<1>0. /\ Fits(pc[c], r, x) /\ x \in Locals
      /\ SettingsTyped
  BY DEF ControlInv, StoreInv, StoreTypeOK, SettingsTyped
<1>1. ASSUME UNCHANGED storeVars, promised' = promised
      PROVE  Quiet
  BY <1>0, <1>1 DEF Quiet, SettingsTyped, storeVars, settingVars, schemaVars
<1>2. Fail(c) \/ Return(c) \/ (\E l : Continue(c, l)) \/ (\E l, y : Remember(c, l, y))
         => promised' = promised
  BY DEF Fail, Return, Continue, Remember
<1>3. ASSUME NEW s, NEW v \in GetSchemaByFingerprint(s, r.fp), s = r.subject,
             r.op = "register", r \in Requests,
             UNCHANGED storeVars, Answer(c, subjectVersions[s][v].id)
      PROVE  Answered
  BY <1>3, RequestFields DEF Answered, Answer
<1>4. CASE ResolveReferences(c) \/ RegisterCompat(c) \/ RegisterReserved(c)
           \/ BulkEnd(c) \/ RegisterPrev(c)
           \/ ImportLookup(c) \/ ImportAssign(c) \/ AdvanceRead(c)
           \/ DeleteVersionCheck(c) \/ DeleteSubjectCheck(c) \/ SetModeCheck(c)
  <2>1. UNCHANGED storeVars
    BY <1>4 DEF ResolveReferences, RegisterCompat, RegisterReserved, BulkEnd,
                RegisterPrev, ImportLookup, ImportAssign, AdvanceRead,
                DeleteVersionCheck, DeleteSubjectCheck,
                SetModeCheck
  <2>2. Fail(c) \/ Return(c) \/ (\E l : Continue(c, l)) \/ (\E l, y : Remember(c, l, y))
    BY <1>4 DEF ResolveReferences, RegisterCompat, RegisterReserved, BulkEnd,
                RegisterPrev, ImportLookup, ImportAssign, AdvanceRead,
                DeleteVersionCheck, DeleteSubjectCheck,
                SetModeCheck
  <2> QED BY <1>1, <1>2, <2>1, <2>2
<1>5. CASE RegisterLookup(c)
  <2>1. /\ pc[c] = "lookup" /\ r.op = "register" /\ r \in Requests
        /\ UNCHANGED storeVars
    BY <1>0, <1>5 DEF RegisterLookup, Fits, Done
  <2>2. \/ Continue(c, "compat")
        \/ \E v \in GetSchemaByFingerprint(r.subject, r.fp) :
              Answer(c, subjectVersions[r.subject][v].id)
    BY <1>5 DEF RegisterLookup
  <2> QED BY <1>1, <1>2, <1>3, <2>1, <2>2
<1>6. CASE RegisterRefetch(c)
  <2>1. /\ pc[c] = "refetch" /\ r.op = "register" /\ r \in Requests
        /\ UNCHANGED storeVars
    BY <1>0, <1>6 DEF RegisterRefetch, Fits, Done
  <2>2. \/ Fail(c)
        \/ \E v \in GetSchemaByFingerprint(r.subject, r.fp) :
              Answer(c, subjectVersions[r.subject][v].id)
    BY <1>6 DEF RegisterRefetch
  <2> QED BY <1>1, <1>2, <1>3, <2>1, <2>2
<1>7. CASE RegisterCreate(c)
  <2>1. pc[c] = "create" /\ r.op = "register" /\ r \in Requests /\ x.meta \in Metas
    BY <1>0, <1>7 DEF RegisterCreate, Fits, Done, Locals
  <2>2. CASE Continue(c, "refetch") /\ UNCHANGED storeVars
    BY <1>1, <1>2, <2>2
  <2>3. CASE /\ CreateSchema(r.subject, r.fp, x.meta)
             /\ Answer(c, IF r.fp \in DOMAIN fingerprints
                            THEN fingerprints[r.fp] ELSE nextID)
    BY <2>1, <2>3 DEF Created, Answer
  <2> QED BY <1>7, <2>2, <2>3 DEF RegisterCreate
<1>8. CASE ImportStore(c)
  <2>1. /\ pc[c] = "import" /\ r.op = "import" /\ r \in Requests
        /\ x.version \in Nat \ {0}
    BY <1>0, <1>8 DEF ImportStore, Fits, Done, Locals
  <2>2. r.subject \in Subjects /\ r.fp \in Fingerprints /\ r.id \in Nat \ {0}
    BY <2>1, RequestFields
  <2>3. CASE (Return(c) \/ Fail(c)) /\ UNCHANGED storeVars
    BY <1>1, <1>2, <2>3
  <2>4. CASE /\ ImportSchema(r.subject, r.fp, r.id, x.version)
             /\ Goto(c, "advance")
             /\ loc' = [loc EXCEPT ![c].next = r.id + 1]
             /\ promised' = promised \cup {<<r.id, r.fp>>}
    <3>1. pc'[c] = "advance" /\ loc'[c].next = r.id + 1
      BY <2>4, <1>0 DEF Goto, ControlInv, Locals
    <3> QED BY <2>1, <2>2, <2>4, <3>1 DEF Imported
  <2> QED BY <1>8, <2>3, <2>4 DEF ImportStore
<1>9. CASE BulkResolve(c)
  BY <1>1, <1>2, <1>9 DEF BulkResolve, SkipItem
<1>10. CASE BulkStore(c)
  <2> DEFINE it == r.items[x.idx]
             reached == IF it.id + 1 > x.next THEN it.id + 1 ELSE x.next
  <2>0. pc[c] = "store" /\ Goto(c, "item")
    BY <1>10 DEF BulkStore
  <2>1. /\ r.op = "bulk" /\ r \in Requests
        /\ x.idx \in Nat \ {0} /\ x.idx <= Len(r.items) /\ x.next \in Nat
        /\ it.id > 0 /\ it.version > 0
    BY <1>0, <2>0 DEF Fits, Done, Locals
  <2>2. it \in ItemType
    BY <2>1, RequestFields
  <2>3. /\ it.subject \in Subjects /\ it.fp \in Fingerprints
        /\ it.id \in Nat \ {0} /\ it.version \in Nat \ {0}
    BY <2>1, <2>2 DEF ItemType
  <2>4. CASE SkipItem(c) /\ UNCHANGED storeVars
    BY <1>1, <2>4 DEF SkipItem
  <2>5. CASE /\ ImportSchema(it.subject, it.fp, it.id, it.version)
             /\ loc' = [loc EXCEPT ![c].idx = @ + 1, ![c].next = reached]
             /\ promised' = promised \cup {<<it.id, it.fp>>}
    <3>1. pc'[c] = "item" /\ loc'[c].next = reached
      <4> HIDE DEF reached
      <4>1. pc'[c] = "item" /\ loc'[c] = [[x EXCEPT !.idx = @ + 1] EXCEPT !.next = reached]
        BY <2>0, <2>5 DEF Goto, ControlInv
      <4>2. ASSUME NEW y \in Locals PROVE [y EXCEPT !.next = reached].next = reached
        BY DEF Locals
      <4>3. [x EXCEPT !.idx = @ + 1] \in Locals
        BY <1>0 DEF Locals
      <4> QED BY <4>1, <4>2, <4>3
    <3>2. reached \in Nat /\ reached >= it.id + 1 /\ reached >= x.next
      <4>1. it.id \in Nat /\ x.next \in Nat
        BY <2>1, <2>3
      <4> HIDE DEF it, x
      <4> QED BY <4>1 DEF reached
    <3> HIDE DEF reached
    <3> QED BY <2>0, <2>3, <2>5, <3>1, <3>2 DEF Imported
  <2> QED BY <1>10, <2>4, <2>5 DEF BulkStore
<1>11. CASE DeleteVersionApply(c)
  <2>1. pc[c] = "apply" /\ r.op = "deleteVersion" /\ r \in Requests
    BY <1>0, <1>11 DEF DeleteVersionApply, Fits, Done
  <2>2. r.subject \in Subjects
    BY <2>1, RequestFields
  <2>3. CASE Fail(c) /\ UNCHANGED storeVars
    BY <1>1, <1>2, <2>3
  <2>4. CASE /\ \/ ~r.permanent /\ DeleteSchema(r.subject, x.version)
                \/ DeleteSchemaPermanent(r.subject, x.version)
             /\ Return(c)
    <3>1. x.version \in Versions(r.subject)
      BY <2>4 DEF DeleteSchema, DeleteSchemaPermanent
    <3> QED BY <1>2, <2>1, <2>2, <2>4, <3>1 DEF Deleted
  <2> QED BY <1>11, <2>3, <2>4 DEF DeleteVersionApply
<1>12. CASE DeleteSubjectApply(c)
  <2>1. pc[c] = "apply" /\ r.op = "deleteSubject" /\ r \in Requests
    BY <1>0, <1>12 DEF DeleteSubjectApply, Fits, Done
  <2>2. r.subject \in Subjects
    BY <2>1, RequestFields
  <2>3. CASE Fail(c) /\ UNCHANGED storeVars
    BY <1>1, <1>2, <2>3
  <2>4. CASE ~r.permanent /\ DeleteSubject(r.subject) /\ Return(c)
    BY <1>2, <2>1, <2>2, <2>4 DEF Deleted
  <2>5. CASE DeleteSubjectPermanent(r.subject) /\ Continue(c, "cleanup")
    BY <1>2, <2>1, <2>2, <2>5 DEF Deleted
  <2> QED BY <1>12, <2>3, <2>4, <2>5 DEF DeleteSubjectApply
<1>13. CASE DeleteSubjectCleanup(c)
  <2>1. promised' = promised /\ UNCHANGED schemaVars
    BY <1>2, <1>13 DEF DeleteSubjectCleanup
  <2>2. SettingsTyped'
    BY <1>0, <1>13 DEF DeleteSubjectCleanup, SettingsTyped
  <2> QED BY <2>1, <2>2 DEF Quiet
<1>14. CASE RegistrySetConfig(c) \/ RegistryDeleteConfig(c)
            \/ RegistrySetMode(c) \/ RegistryDeleteMode(c)
  <2>1. pc[c] = "apply" /\ r \in Requests
    BY <1>0, <1>14 DEF RegistrySetConfig, RegistryDeleteConfig, RegistrySetMode,
                       RegistryDeleteMode, Fits, Done
  <2>2. promised' = promised
    BY <1>2, <1>14 DEF RegistrySetConfig, RegistryDeleteConfig, RegistrySetMode,
                       RegistryDeleteMode
  <2>3. CASE RegistrySetConfig(c)
    <3>1. r.config \in Configs
      BY <2>1, <2>3, RequestFields DEF RegistrySetConfig
    <3> QED BY <1>0, <2>2, <2>3, <3>1
            DEF RegistrySetConfig, SetConfig, SetGlobalConfig, Quiet, SettingsTyped
  <2>4. CASE RegistryDeleteConfig(c)
    BY <1>0, <1>1, <2>2, <2>4
       DEF RegistryDeleteConfig, DeleteConfig, DeleteGlobalConfig, Quiet, SettingsTyped
  <2>5. CASE RegistrySetMode(c)
    <3>1. r.mode \in Modes
      BY <2>1, <2>5, RequestFields DEF RegistrySetMode
    <3> QED BY <1>0, <2>2, <2>5, <3>1
            DEF RegistrySetMode, SetMode, SetGlobalMode, Quiet, SettingsTyped
  <2>6. CASE RegistryDeleteMode(c)
    BY <1>0, <1>1, <2>2, <2>6
       DEF RegistryDeleteMode, DeleteMode, DeleteGlobalMode, Quiet, SettingsTyped
  <2> QED BY <1>14, <2>3, <2>4, <2>5, <2>6
<1> QED
  BY <1>4, <1>5, <1>6, <1>7, <1>8, <1>9, <1>10, <1>11, <1>12, <1>13, <1>14 DEF Step

-----------------------------------------------------------------------------
(* What the store's writes do to the tables, in terms of rows and contents. *)

\* A row (s, v) with ID i and metadata m is new, the other rows stay.
RowAdded(s, v, i, m) ==
  /\ v \notin Versions(s)
  /\ DOMAIN subjectVersions' = Subjects
  /\ \A t \in Subjects :
       /\ Versions(t)' = IF t = s THEN Versions(t) \cup {v} ELSE Versions(t)
       /\ \A w \in Versions(t) : subjectVersions'[t][w] = subjectVersions[t][w]
  /\ subjectVersions'[s][v].id = i
  /\ subjectVersions'[s][v].deleted = FALSE
  /\ subjectVersions'[s][v].meta = m

\* Linking a new version adds its row.
LEMMA LinkAdds ==
  ASSUME StoreInv,
         NEW s \in Subjects, NEW v \in Nat \ {0}, NEW i \in Nat, NEW m \in Metas,
         v \notin Versions(s),
         LinkVersion(s, v, i, m)
  PROVE  RowAdded(s, v, i, m)
<1> DEFINE row == [id |-> i, deleted |-> FALSE, meta |-> m]
<1>1. /\ DOMAIN subjectVersions' = Subjects
      /\ \A t \in Subjects :
            /\ Versions(t)' = IF t = s THEN Versions(t) \cup {v} ELSE Versions(t)
            /\ \A w \in Versions(t) : subjectVersions'[t][w] = subjectVersions[t][w]
      /\ subjectVersions'[s][v] = row
      /\ DOMAIN idToSubjectVersions' = DOMAIN idToSubjectVersions \cup {i}
      /\ \A j \in DOMAIN idToSubjectVersions' :
            idToSubjectVersions'[j] \subseteq Subjects \X Nat
      /\ IndexExact'
  BY LinkExact
<1>2. row.id = i /\ row.deleted = FALSE /\ row.meta = m
  OBVIOUS
<1> HIDE DEF row
<1> QED BY <1>1, <1>2 DEF RowAdded

\* ID i stands for content fp, the other IDs stand for what they stood for.
ContentAdded(i, fp) ==
  /\ DOMAIN schemas' = DOMAIN schemas \cup {i} /\ schemas'[i] = fp
  /\ \A j \in DOMAIN schemas : schemas'[j] = schemas[j]
  /\ DOMAIN fingerprints' = DOMAIN fingerprints \cup {fp} /\ fingerprints'[fp] = i
  /\ \A g \in DOMAIN fingerprints : g # fp => fingerprints'[g] = fingerprints[g]

IDFor(fp) == IF fp \in DOMAIN fingerprints THEN fingerprints[fp] ELSE nextID

\* CreateSchema adds one row, with the ID of the content.
LEMMA CreateEffect ==
  ASSUME StoreInv, NextIDFree,
         NEW s \in Subjects, NEW fp \in Fingerprints, NEW m \in Metas,
         CreateSchema(s, fp, m)
  PROVE  /\ StoreInv' /\ VersionFrozen
         /\ IDFor(fp) \in Nat
         /\ RowAdded(s, nextSubjectVersion[s] + 1, IDFor(fp), m)
         /\ ContentAdded(IDFor(fp), fp)
         /\ nextID' = IF fp \in DOMAIN fingerprints THEN nextID ELSE nextID + 1
         /\ \/ schemas' = schemas
            \/ schemas' = [j \in DOMAIN schemas' |-> schemas'[j]]
         /\ UNCHANGED settingVars
<1> DEFINE v == nextSubjectVersion[s] + 1
           i == IDFor(fp)
<1>1. /\ nextSubjectVersion[s] \in Nat /\ nextID \in Nat
      /\ v \in Nat \ {0} /\ v \notin Versions(s)
  BY DEF StoreInv, StoreTypeOK, CounterCoversVersions
<1>2. i \in Nat
  BY <1>1 DEF IDFor, StoreInv, StoreTypeOK
<1>3. StoreInv' /\ VersionFrozen
  BY CreateInv
<1>4. LinkVersion(s, v, i, m) /\ UNCHANGED settingVars
  BY DEF CreateSchema, IDFor
<1> HIDE DEF i, v
<1>5. RowAdded(s, v, i, m)
  BY <1>1, <1>2, <1>4, LinkAdds
<1>6. ContentAdded(i, fp)
  <2>1. CASE fp \in DOMAIN fingerprints
    BY <2>1 DEF CreateSchema, IDFor, ContentAdded, i, StoreInv, FingerprintSound
  <2>2. CASE fp \notin DOMAIN fingerprints
    <3>1. /\ schemas' = Put(schemas, nextID, fp)
          /\ fingerprints' = Put(fingerprints, fp, nextID)
          /\ i = nextID
      BY <2>2 DEF CreateSchema, IDFor, i
    <3> QED BY <3>1 DEF ContentAdded, Put, NextIDFree
  <2> QED BY <2>1, <2>2
<1>7. nextID' = IF fp \in DOMAIN fingerprints THEN nextID ELSE nextID + 1
  BY DEF CreateSchema
<1>8. schemas' = schemas \/ schemas' = [j \in DOMAIN schemas' |-> schemas'[j]]
  BY DEF CreateSchema, Put
<1> QED BY <1>2, <1>3, <1>4, <1>5, <1>6, <1>7, <1>8 DEF i, v

\* A delete only takes away: rows, live rows, contents and their fingerprints.
Shrinks(dead) ==
  /\ nextID' = nextID
  /\ \A t \in Subjects : Versions(t)' \subseteq Versions(t) /\ Live(t)' \subseteq Live(t)
  /\ DOMAIN schemas' = DOMAIN schemas \ dead
  /\ \A i \in DOMAIN schemas' : schemas'[i] = schemas[i]
  /\ DOMAIN fingerprints' =
       DOMAIN fingerprints \ {schemas[i] : i \in dead \cap DOMAIN schemas}
  /\ \A fp \in DOMAIN fingerprints' : fingerprints'[fp] = fingerprints[fp]
  /\ schemas' = schemas \/ schemas' = [j \in DOMAIN schemas' |-> schemas'[j]]

\* A soft delete of the versions V of a subject.
LEMMA SoftEffect ==
  ASSUME StoreInv, NEW s \in Subjects, NEW V \in SUBSET Versions(s),
         SoftDelete(s, V),
         UNCHANGED <<schemas, fingerprints, nextSubjectVersion, idToSubjectVersions,
                     nextID, settingVars>>
  PROVE  /\ StoreInv' /\ VersionFrozen /\ Shrinks({})
         /\ \A t \in Subjects : Versions(t)' = Versions(t)
         /\ \A t \in Subjects : \A w \in Versions(t) :
              subjectVersions'[t][w] =
                IF t = s /\ w \in V THEN [subjectVersions[t][w] EXCEPT !.deleted = TRUE]
                                    ELSE subjectVersions[t][w]
         /\ Live(s)' = Live(s) \ V
<1>1. StoreInv' /\ VersionFrozen
  BY SoftInv
<1>2. /\ DOMAIN subjectVersions = Subjects
      /\ \A t \in Subjects : \A w \in Versions(t) : subjectVersions[t][w] \in VersionInfo
  BY DEF StoreInv, StoreTypeOK
<1>3. /\ \A t \in Subjects : t # s => subjectVersions'[t] = subjectVersions[t]
      /\ subjectVersions'[s] = [v \in DOMAIN subjectVersions[s] |->
             IF v \in V THEN [subjectVersions[s][v] EXCEPT !.deleted = TRUE]
                        ELSE subjectVersions[s][v]]
  BY <1>2 DEF SoftDelete
<1>4. \A t \in Subjects : Versions(t)' = Versions(t)
  BY <1>3 DEF Versions
<1>5. \A t \in Subjects : \A w \in Versions(t) :
         subjectVersions'[t][w] =
           IF t = s /\ w \in V THEN [subjectVersions[t][w] EXCEPT !.deleted = TRUE]
                               ELSE subjectVersions[t][w]
  BY <1>3 DEF Versions
<1>6. \A w \in Versions(s) : [subjectVersions[s][w] EXCEPT !.deleted = TRUE].deleted = TRUE
  BY <1>2 DEF VersionInfo
<1>7. \A t \in Subjects : \A w \in Versions(t) :
         subjectVersions'[t][w].deleted =
           IF t = s /\ w \in V THEN TRUE ELSE subjectVersions[t][w].deleted
  BY <1>5, <1>6
<1>8. Live(s)' = Live(s) \ V
  BY <1>4, <1>7 DEF Live
<1>9. \A t \in Subjects : Live(t)' \subseteq Live(t)
  BY <1>4, <1>7 DEF Live
<1>10. Shrinks({})
  BY <1>4, <1>9 DEF Shrinks
<1> QED BY <1>1, <1>4, <1>5, <1>8, <1>10

\* A permanent delete of soft-deleted versions V of a subject.
LEMMA PurgeEffect ==
  ASSUME StoreInv, NEW s \in Subjects, NEW V \in SUBSET Versions(s), V \cap Live(s) = {},
         Unlink({s} \X V),
         subjectVersions' = [subjectVersions EXCEPT ![s] = Drop(subjectVersions[s], V)],
         nextSubjectVersion' \in [Subjects -> Nat],
         \A t \in Subjects : \/ nextSubjectVersion'[t] = nextSubjectVersion[t]
                             \/ t = s /\ V = Versions(s),
         nextID' = nextID, SettingsTyped'
  PROVE  /\ StoreInv' /\ VersionFrozen /\ \E dead : Shrinks(dead)
         /\ \A t \in Subjects :
              /\ Versions(t)' = IF t = s THEN Versions(t) \ V ELSE Versions(t)
              /\ \A w \in Versions(t)' : subjectVersions'[t][w] = subjectVersions[t][w]
              /\ Live(t)' = Live(t)
<1>1. nextID' \in Nat /\ DOMAIN subjectVersions = Subjects
  BY DEF StoreInv, StoreTypeOK
<1>2. StoreInv' /\ VersionFrozen
  BY <1>1, UnlinkInv DEF SettingsTyped
<1>3. \A t \in Subjects :
         /\ Versions(t)' = IF t = s THEN Versions(t) \ V ELSE Versions(t)
         /\ \A w \in Versions(t)' : subjectVersions'[t][w] = subjectVersions[t][w]
  BY <1>1 DEF Versions, Drop
<1>4. \A t \in Subjects : Live(t)' = Live(t)
  BY <1>3 DEF Live
<1> DEFINE touched == {subjectVersions[sv[1]][sv[2]].id : sv \in {s} \X V}
           dead == {i \in touched : SubjectVersionsOf(i) \subseteq {s} \X V}
<1>5. /\ fingerprints' = Drop(fingerprints, {schemas[i] : i \in dead \cap DOMAIN schemas})
      /\ schemas' = Drop(schemas, dead)
  BY DEF Unlink
<1> HIDE DEF dead
<1>6. Shrinks(dead)
  BY <1>3, <1>4, <1>5 DEF Shrinks, Drop
<1> QED BY <1>2, <1>3, <1>4, <1>6

\* Which rows a delete step marks or removes.
LEMMA DeletedEffect ==
  ASSUME StoreInv, NEW c \in Clients, Deleted(c)
  PROVE  /\ StoreInv' /\ VersionFrozen
         /\ \E dead : Shrinks(dead)
<1>1. PICK s \in Subjects :
        \/ \E v \in Versions(s) : DeleteSchema(s, v) \/ DeleteSchemaPermanent(s, v)
        \/ DeleteSubject(s) \/ DeleteSubjectPermanent(s)
  BY DEF Deleted
<1>2. SettingsTyped /\ nextSubjectVersion \in [Subjects -> Nat]
  BY DEF StoreInv, StoreTypeOK, SettingsTyped
<1>3. ASSUME NEW v \in Versions(s), DeleteSchema(s, v)
      PROVE  StoreInv' /\ VersionFrozen /\ Shrinks({})
  <2>1. {v} \in SUBSET Versions(s)
    OBVIOUS
  <2> QED BY <1>3, <2>1, SoftEffect DEF DeleteSchema
<1>4. ASSUME NEW v \in Versions(s), DeleteSchemaPermanent(s, v)
      PROVE  StoreInv' /\ VersionFrozen /\ \E dead : Shrinks(dead)
  <2>1. {v} \in SUBSET Versions(s) /\ {<<s, v>>} = {s} \X {v}
    OBVIOUS
  <2>2. /\ {v} \cap Live(s) = {}
        /\ Unlink({s} \X {v})
        /\ subjectVersions' = [subjectVersions EXCEPT ![s] = Drop(subjectVersions[s], {v})]
        /\ UNCHANGED <<nextSubjectVersion, nextID, settingVars>>
    BY <1>4, <2>1 DEF DeleteSchemaPermanent, Live
  <2>3. SettingsTyped'
    BY <1>2, <2>2 DEF SettingsTyped, settingVars
  <2> QED BY <1>2, <2>1, <2>2, <2>3, PurgeEffect
<1>5. ASSUME DeleteSubject(s)
      PROVE  StoreInv' /\ VersionFrozen /\ Shrinks({})
  <2>1. Versions(s) \in SUBSET Versions(s)
    OBVIOUS
  <2> QED BY <1>5, <2>1, SoftEffect DEF DeleteSubject
<1>6. ASSUME DeleteSubjectPermanent(s)
      PROVE  StoreInv' /\ VersionFrozen /\ \E dead : Shrinks(dead)
  <2>1. Versions(s) \in SUBSET Versions(s) /\ Versions(s) \cap Live(s) = {}
    BY <1>6 DEF DeleteSubjectPermanent, Live
  <2>2. EmptyMap = Drop(subjectVersions[s], Versions(s))
    BY DEF EmptyMap, Drop, Versions
  <2>3. /\ subjectVersions' = [subjectVersions EXCEPT ![s] = Drop(subjectVersions[s], Versions(s))]
        /\ Unlink({s} \X Versions(s)) /\ nextID' = nextID
    BY <1>6, <2>2 DEF DeleteSubjectPermanent
  <2>4. /\ nextSubjectVersion' \in [Subjects -> Nat]
        /\ \A t \in Subjects : t # s => nextSubjectVersion'[t] = nextSubjectVersion[t]
    BY <1>2, <1>6 DEF DeleteSubjectPermanent
  <2>5. SettingsTyped'
    BY <1>2, <1>6 DEF DeleteSubjectPermanent, SettingsTyped
  <2> QED BY <2>1, <2>3, <2>4, <2>5, PurgeEffect
<1> QED BY <1>1, <1>3, <1>4, <1>5, <1>6

-----------------------------------------------------------------------------
(* Registrations and deletes of any number of clients.                     *)

\* Nobody imports, so only CreateSchema gives out IDs.
NoImports == \A r \in Requests : r.op \notin {"import", "bulk"}

\* Every ID in use, and every ID ever answered, is below the next one.
IDsBelowNext ==
  /\ nextID > 0
  /\ \A i \in DOMAIN schemas : i < nextID
  /\ \A p \in promised : p[1] < nextID

\* The fingerprint table finds the ID of every stored content.
EveryContentIndexed ==
  \A i \in DOMAIN schemas : /\ schemas[i] \in DOMAIN fingerprints
                            /\ fingerprints[schemas[i]] = i

\* The inductive invariant of the regime without imports.
PlainInv ==
  /\ StoreInv /\ ControlInv
  /\ promised \subseteq Nat \X Fingerprints
  /\ IDsBelowNext /\ EveryContentIndexed
  /\ PromiseKept /\ NoDuplicates
  /\ schemas = [i \in DOMAIN schemas |-> schemas[i]]

\* The initial state satisfies the invariant.
LEMMA PlainInit == Init => PlainInv
<1> SUFFICES ASSUME Init PROVE PlainInv
  OBVIOUS
<1>1. StoreInv
  BY InitInv DEF Init
<1>2. ControlInv
  BY DoneFits DEF Init, ControlInv, Done, Labels, Fits
<1>3. /\ promised = {} /\ DOMAIN schemas = {} /\ nextID = 1
      /\ schemas = [i \in DOMAIN schemas |-> schemas[i]]
      /\ \A s \in Subjects : Live(s) = {}
  BY DEF Init, StoreInit, EmptyMap, Live, Versions
<1> QED BY <1>1, <1>2, <1>3 DEF PlainInv, IDsBelowNext, EveryContentIndexed, PromiseKept,
                                NoDuplicates

\* A step that leaves the schema tables and the answers alone.
LEMMA PlainQuiet ==
  ASSUME PlainInv, Quiet, ControlInv'
  PROVE  PlainInv'
<1>1. StoreInv'
  BY SettingInv DEF PlainInv, Quiet, SettingsTyped, schemaVars, StoreInv, StoreTypeOK
<1> QED BY <1>1 DEF PlainInv, Quiet, schemaVars, IDsBelowNext, EveryContentIndexed, PromiseKept,
                    NoDuplicates, Live, Versions, Content

\* Under the invariant the next ID is free.
LEMMA PlainFree == PlainInv => NextIDFree
  BY DEF PlainInv, IDsBelowNext, NextIDFree, StoreInv, StoreTypeOK

\* A registration that adds a version: an ID that was answered before keeps its
\* content, because a new ID is above all of them.
LEMMA PlainCreate ==
  ASSUME PlainInv, NEW s \in Subjects, NEW fp \in Fingerprints, NEW m \in Metas,
         CreateSchema(s, fp, m), promised' = promised \cup {<<IDFor(fp), fp>>},
         ControlInv'
  PROVE  PlainInv'
<1>0. PICK i, v : i = IDFor(fp) /\ v = nextSubjectVersion[s] + 1
  OBVIOUS
<1>1. /\ StoreInv /\ NextIDFree /\ promised \subseteq Nat \X Fingerprints
      /\ IDsBelowNext /\ EveryContentIndexed /\ PromiseKept /\ NoDuplicates
      /\ schemas = [j \in DOMAIN schemas |-> schemas[j]]
  BY PlainFree DEF PlainInv
<1>2. /\ nextID \in Nat /\ DOMAIN schemas \subseteq Nat
      /\ \A t \in Subjects : \A w \in Versions(t) : HasContent(t, w)
  BY <1>1 DEF StoreInv, StoreTypeOK, NoDanglingVersion
<1>3. /\ StoreInv' /\ i \in Nat
      /\ RowAdded(s, v, i, m) /\ ContentAdded(i, fp)
      /\ nextID' = IF fp \in DOMAIN fingerprints THEN nextID ELSE nextID + 1
      /\ schemas' = schemas \/ schemas' = [j \in DOMAIN schemas' |-> schemas'[j]]
  BY <1>0, <1>1, CreateEffect
<1>4. /\ fp \in DOMAIN fingerprints => i \in DOMAIN schemas /\ schemas[i] = fp
      /\ fp \notin DOMAIN fingerprints => i = nextID
  BY <1>0, <1>1 DEF IDFor, StoreInv, FingerprintSound
<1>5. ~Duplicate(s, fp, m)
  BY DEF CreateSchema
<1>6. promised' = promised \cup {<<i, fp>>}
  BY <1>0
<1>7. promised' \subseteq Nat \X Fingerprints
  BY <1>1, <1>3, <1>6
<1>8. IDsBelowNext'
  BY <1>1, <1>2, <1>3, <1>4, <1>6 DEF IDsBelowNext, ContentAdded
<1>9. EveryContentIndexed'
  <2> SUFFICES ASSUME NEW j \in DOMAIN schemas'
               PROVE  schemas'[j] \in DOMAIN fingerprints' /\ fingerprints'[schemas'[j]] = j
    BY DEF EveryContentIndexed
  <2>1. CASE j = i
    BY <1>3, <2>1 DEF ContentAdded
  <2>2. CASE j # i
    <3>1. j \in DOMAIN schemas /\ schemas'[j] = schemas[j]
      BY <1>3, <2>2 DEF ContentAdded
    <3>2. schemas[j] \in DOMAIN fingerprints /\ fingerprints[schemas[j]] = j
      BY <1>1, <3>1 DEF EveryContentIndexed
    <3>3. schemas[j] # fp
      BY <1>1, <1>4, <2>2, <3>2 DEF EveryContentIndexed
    <3> QED BY <1>3, <3>1, <3>2, <3>3 DEF ContentAdded
  <2> QED BY <2>1, <2>2
<1>10. PromiseKept'
  <2> SUFFICES ASSUME NEW p \in promised', p[1] \in DOMAIN schemas'
               PROVE  schemas'[p[1]] = p[2]
    BY DEF PromiseKept
  <2>1. CASE p = <<i, fp>>
    BY <1>3, <2>1 DEF ContentAdded
  <2>2. CASE p \in promised
    <3>1. p[1] < nextID /\ p[1] \in Nat
      BY <1>1, <2>2 DEF IDsBelowNext
    <3>2. p[1] \in DOMAIN schemas
      BY <1>2, <1>3, <1>4, <3>1 DEF ContentAdded
    <3> QED BY <1>1, <1>3, <2>2, <3>2 DEF ContentAdded, PromiseKept
  <2> QED BY <1>6, <2>1, <2>2
<1>11. NoDuplicates'
  <2>1. \A j, k \in DOMAIN schemas' : schemas'[j] = schemas'[k] => j = k
    BY <1>9 DEF EveryContentIndexed
  <2>2. ASSUME NEW t \in Subjects, NEW w \in Live(t), w \in Versions(t)
        PROVE  Content(t, w)' = Content(t, w)
    <3>1. subjectVersions'[t][w] = subjectVersions[t][w]
      BY <1>3, <2>2 DEF RowAdded
    <3>2. subjectVersions[t][w].id \in DOMAIN schemas
      BY <1>2, <2>2 DEF HasContent
    <3> QED BY <1>3, <3>1, <3>2 DEF ContentAdded, Content
  <2>3. ASSUME NEW w \in Live(s), w \in Versions(s), Content(s, w) = fp
        PROVE  subjectVersions[s][w].meta # m
    BY <1>2, <1>5, <2>3 DEF Duplicate, GetSchemaByFingerprint
  <2>4. Content(s, v)' = fp
    BY <1>3 DEF RowAdded, ContentAdded, Content
  <2>5. ASSUME NEW t \in Subjects, NEW w \in Live(t)'
        PROVE  \/ w \in Live(t) /\ w \in Versions(t)
               \/ t = s /\ w = v
    BY <1>3, <2>5 DEF RowAdded, Live
  <2>6. ASSUME NEW t \in Subjects, NEW w \in Live(t)', NEW u \in Live(t)',
               Content(t, w)' = Content(t, u)',
               subjectVersions'[t][w].meta = subjectVersions'[t][u].meta
        PROVE  w = u
    <3>1. CASE w \in Live(t) /\ w \in Versions(t) /\ u \in Live(t) /\ u \in Versions(t)
      <4>1. /\ Content(t, w) = Content(t, u)
            /\ subjectVersions[t][w].meta = subjectVersions[t][u].meta
        BY <1>3, <2>2, <2>6, <3>1 DEF RowAdded
      <4> QED BY <1>1, <3>1, <4>1 DEF NoDuplicates
    <3>2. CASE t = s /\ w = v /\ u \in Live(t) /\ u \in Versions(t)
      <4>1. Content(s, u) = fp /\ subjectVersions[s][u].meta = m
        BY <1>3, <2>2, <2>4, <2>6, <3>2 DEF RowAdded
      <4> QED BY <2>3, <3>2, <4>1
    <3>3. CASE t = s /\ u = v /\ w \in Live(t) /\ w \in Versions(t)
      <4>1. Content(s, w) = fp /\ subjectVersions[s][w].meta = m
        BY <1>3, <2>2, <2>4, <2>6, <3>3 DEF RowAdded
      <4> QED BY <2>3, <3>3, <4>1
    <3> QED BY <2>5, <3>1, <3>2, <3>3
  <2> QED BY <2>1, <2>6 DEF NoDuplicates
<1>12. schemas' = [j \in DOMAIN schemas' |-> schemas'[j]]
  BY <1>1, <1>3
<1> QED BY <1>3, <1>7, <1>8, <1>9, <1>10, <1>11, <1>12 DEF PlainInv

\* A delete takes away rows and contents and gives nothing a new meaning.
LEMMA PlainShrink ==
  ASSUME PlainInv, StoreInv', VersionFrozen, NEW dead, Shrinks(dead),
         promised' = promised, ControlInv'
  PROVE  PlainInv'
<1>1. /\ StoreInv /\ promised \subseteq Nat \X Fingerprints
      /\ IDsBelowNext /\ EveryContentIndexed /\ PromiseKept /\ NoDuplicates
      /\ schemas = [j \in DOMAIN schemas |-> schemas[j]]
  BY DEF PlainInv
<1>2. IDsBelowNext' /\ PromiseKept'
  BY <1>1 DEF IDsBelowNext, PromiseKept, Shrinks
<1>3. EveryContentIndexed'
  <2> SUFFICES ASSUME NEW j \in DOMAIN schemas'
               PROVE  schemas'[j] \in DOMAIN fingerprints' /\ fingerprints'[schemas'[j]] = j
    BY DEF EveryContentIndexed
  <2>1. j \in DOMAIN schemas /\ j \notin dead /\ schemas'[j] = schemas[j]
    BY DEF Shrinks
  <2>2. schemas[j] \in DOMAIN fingerprints /\ fingerprints[schemas[j]] = j
    BY <1>1, <2>1 DEF EveryContentIndexed
  <2>3. schemas[j] \notin {schemas[i] : i \in dead \cap DOMAIN schemas}
    BY <1>1, <2>1, <2>2 DEF EveryContentIndexed
  <2> QED BY <2>1, <2>2, <2>3 DEF Shrinks
<1>4. NoDuplicates'
  <2>1. \A j, k \in DOMAIN schemas' : schemas'[j] = schemas'[k] => j = k
    BY <1>3 DEF EveryContentIndexed
  <2>2. ASSUME NEW t \in Subjects, NEW w \in Live(t)'
        PROVE  /\ w \in Live(t)
               /\ subjectVersions'[t][w].meta = subjectVersions[t][w].meta
               /\ Content(t, w)' = Content(t, w)
    <3>1. w \in Live(t) /\ w \in Versions(t) /\ w \in DOMAIN subjectVersions'[t]
      BY <2>2 DEF Shrinks, Live, Versions
    <3> QED BY <3>1 DEF VersionFrozen, Content
  <2> QED BY <1>1, <2>1, <2>2 DEF NoDuplicates
<1>5. schemas' = [j \in DOMAIN schemas' |-> schemas'[j]]
  BY <1>1 DEF Shrinks
<1> QED BY <1>1, <1>2, <1>3, <1>4, <1>5 DEF PlainInv

\* Every step keeps the invariant when nobody imports.
LEMMA PlainStep ==
  ASSUME NoImports, PlainInv, [Next]_vars
  PROVE  PlainInv'
<1>0. StoreInv /\ ControlInv
  BY DEF PlainInv
<1>1. CASE UNCHANGED vars
  <2>1. ControlInv'
    BY <1>0, <1>1 DEF ControlInv, vars, serviceVars, Fits
  <2>2. Quiet
    BY <1>0, <1>1 DEF Quiet, SettingsTyped, vars, storeVars, settingVars, schemaVars,
                      StoreInv, StoreTypeOK
  <2> QED BY <2>1, <2>2, PlainQuiet
<1>2. ASSUME NEW c \in Clients, NEW r \in Requests, Begin(c, r)
      PROVE  PlainInv'
  <2>1. ControlInv'
    BY <1>0, <1>2, BeginControl
  <2>2. Quiet
    BY <1>0, <1>2 DEF Begin, Quiet, SettingsTyped, storeVars, settingVars, schemaVars,
                      StoreInv, StoreTypeOK
  <2> QED BY <2>1, <2>2, PlainQuiet
<1>3. ASSUME NEW c \in Clients, Step(c)
      PROVE  PlainInv'
  <2>1. ControlInv'
    BY <1>0, <1>3, StepControl
  <2>2. pc[c] \notin {"import", "store", "setNext"}
    <3>1. Fits(pc[c], req[c], loc[c])
      BY <1>0 DEF ControlInv
    <3> QED BY <3>1 DEF Fits, NoImports, Done
  <2>3. ~Imported(c) /\ ~AdvanceSet(c)
    BY <2>2 DEF Imported, AdvanceSet
  <2>4. CASE Quiet
    BY <2>1, <2>4, PlainQuiet
  <2>5. CASE Answered
    <3>1. PICK s \in Subjects, fp \in Fingerprints : \E v \in GetSchemaByFingerprint(s, fp) :
            /\ UNCHANGED storeVars
            /\ promised' = promised \cup {<<subjectVersions[s][v].id, fp>>}
      BY <2>5 DEF Answered
    <3>2. PICK v \in GetSchemaByFingerprint(s, fp) :
            /\ UNCHANGED storeVars
            /\ promised' = promised \cup {<<subjectVersions[s][v].id, fp>>}
      BY <3>1
    <3>3. PICK i : i = subjectVersions[s][v].id
      OBVIOUS
    <3>4. i \in DOMAIN schemas /\ schemas[i] = fp
      BY <3>2, <3>3 DEF GetSchemaByFingerprint, HasContent, Content
    <3>5. i \in Nat /\ i < nextID
      BY <1>0, <3>4 DEF PlainInv, IDsBelowNext, StoreInv, StoreTypeOK
    <3>6. StoreInv'
      BY <1>0, <3>2, SettingInv DEF StoreInv, StoreTypeOK, storeVars, schemaVars, settingVars
    <3>7. /\ UNCHANGED <<schemas, fingerprints, subjectVersions, nextID>>
          /\ promised' = promised \cup {<<i, fp>>}
      BY <3>2, <3>3 DEF storeVars, schemaVars
    <3>8. promised' \subseteq Nat \X Fingerprints /\ IDsBelowNext' /\ PromiseKept'
      BY <3>4, <3>5, <3>7 DEF PlainInv, IDsBelowNext, PromiseKept
    <3>9. EveryContentIndexed' /\ NoDuplicates' /\ schemas' = [j \in DOMAIN schemas' |-> schemas'[j]]
      BY <3>7 DEF PlainInv, EveryContentIndexed, NoDuplicates, Live, Versions, Content
    <3> QED BY <2>1, <3>6, <3>8, <3>9 DEF PlainInv
  <2>6. CASE Created(c)
    <3>1. /\ req[c].subject \in Subjects /\ req[c].fp \in Fingerprints /\ loc[c].meta \in Metas
          /\ CreateSchema(req[c].subject, req[c].fp, loc[c].meta)
          /\ promised' = promised \cup {<<IDFor(req[c].fp), req[c].fp>>}
      BY <2>6, RequestFields DEF Created, IDFor
    <3>2. PICK s, fp, m : s = req[c].subject /\ fp = req[c].fp /\ m = loc[c].meta
      OBVIOUS
    <3> QED BY <2>1, <3>1, <3>2, PlainCreate
  <2>7. CASE Deleted(c)
    <3>1. StoreInv' /\ VersionFrozen /\ (\E dead : Shrinks(dead)) /\ promised' = promised
      BY <1>0, <2>7, DeletedEffect DEF Deleted
    <3> QED BY <2>1, <3>1, PlainShrink
  <2> QED BY <1>0, <1>3, <2>3, <2>4, <2>5, <2>6, <2>7, StepEffect
<1> QED BY <1>1, <1>2, <1>3 DEF Next

\* Without imports every reachable state satisfies the invariant, for every
\* number of clients and every interleaving of their storage calls.
THEOREM PlainIntegrity ==
  ASSUME NoImports PROVE Spec => []PlainInv
<1>1. Init => PlainInv
  BY PlainInit
<1>2. PlainInv /\ [Next]_vars => PlainInv'
  BY PlainStep
<1> QED BY <1>1, <1>2, PTL DEF Spec

\* What clients were told stays true: no interleaving of registrations and
\* deletes makes an ID that was answered stand for other content.
THEOREM AnswersStayTrue ==
  ASSUME NoImports PROVE Spec => []AnswersTrue
<1>1. PlainInv => AnswersTrue
  BY DEF PlainInv, AnswersTrue, TypeOK, ControlInv, StoreInv
<1> QED BY <1>1, PlainIntegrity, PTL

\* However requests interleave, registrations alone give one content one ID,
\* and one subject no two live versions with equal content and metadata.
THEOREM NoDuplicateRegistered ==
  ASSUME NoImports PROVE Spec => []NoDuplicates
<1>1. PlainInv => NoDuplicates
  BY DEF PlainInv
<1> QED BY <1>1, PlainIntegrity, PTL

-----------------------------------------------------------------------------
(* Without imports the service implements the abstract log of SchemaLog.   *)

\* The rows of the log, one by one.
LEMMA LogRows ==
  /\ DOMAIN LogOf = Subjects
  /\ \A s \in Subjects :
        /\ LogOf[s] = [v \in Versions(s) |-> LogOf[s][v]]
        /\ DOMAIN LogOf[s] = Versions(s)
        /\ \A v \in Versions(s) :
              LogOf[s][v] = [id |-> subjectVersions[s][v].id,
                             live |-> ~subjectVersions[s][v].deleted]
  BY DEF LogOf

\* The IDs the log names are the IDs with content.
LEMMA LogUsed == StoreInv => Log!Used(LogOf) = DOMAIN schemas
<1> SUFFICES ASSUME StoreInv PROVE Log!Used(LogOf) = DOMAIN schemas
  OBVIOUS
<1>1. IndexExact /\ NoDanglingVersion /\ FingerprintSound
  BY DEF StoreInv
<1>2. Log!Used(LogOf) = UNION {{LogOf[s][v].id : v \in DOMAIN LogOf[s]} : s \in Subjects}
  BY DEF Log!Used
<1>3. \A s \in Subjects : \A v \in Versions(s) : LogOf[s][v].id = subjectVersions[s][v].id
  BY DEF LogOf
<1>4. \A s \in Subjects : DOMAIN LogOf[s] = Versions(s)
  BY LogRows
<1>5. ASSUME NEW i \in Log!Used(LogOf) PROVE i \in DOMAIN schemas
  <2>1. PICK s \in Subjects : \E v \in Versions(s) : i = subjectVersions[s][v].id
    BY <1>2, <1>3, <1>4
  <2> QED BY <1>1, <2>1 DEF NoDanglingVersion, HasContent
<1>6. ASSUME NEW i \in DOMAIN schemas PROVE i \in Log!Used(LogOf)
  <2>1. PICK sv \in idToSubjectVersions[i] : i \in DOMAIN idToSubjectVersions
    BY <1>1 DEF IndexExact, FingerprintSound
  <2>2. PICK s \in Subjects : \E v \in Versions(s) : subjectVersions[s][v].id = i
    BY <1>1, <2>1 DEF IndexExact
  <2> QED BY <1>2, <1>3, <1>4, <2>2
<1> QED BY <1>5, <1>6

\* The same in the next state.
LEMMA LogUsedNext == StoreInv' => Log!Used(LogOf') = DOMAIN schemas'
<1>1. (StoreInv => Log!Used(LogOf) = DOMAIN schemas)'
  BY LogUsed, PTL
<1> QED BY <1>1 DEF Log!Used

\* A registration that adds a version publishes it in the log.
LEMMA LogCreate ==
  ASSUME PlainInv, PlainInv', NEW s \in Subjects, NEW fp \in Fingerprints, NEW m \in Metas,
         CreateSchema(s, fp, m)
  PROVE  /\ Log!Publish(s, fp)
         /\ \A i \in DOMAIN schemas' : i <= nextID - 1 =>
               i \in DOMAIN schemas /\ schemas'[i] = schemas[i]
<1>0. PICK i, v : i = IDFor(fp) /\ v = nextSubjectVersion[s] + 1
  OBVIOUS
<1>1. /\ StoreInv /\ NextIDFree /\ EveryContentIndexed
      /\ schemas' = [j \in DOMAIN schemas' |-> schemas'[j]]
  BY PlainFree DEF PlainInv
<1>2. /\ StoreInv' /\ i \in Nat
      /\ RowAdded(s, v, i, m) /\ ContentAdded(i, fp)
      /\ nextID' = IF fp \in DOMAIN fingerprints THEN nextID ELSE nextID + 1
  BY <1>0, <1>1, CreateEffect
<1>3. /\ fp \in DOMAIN fingerprints => i \in DOMAIN schemas /\ schemas[i] = fp
      /\ fp \notin DOMAIN fingerprints => i = nextID
      /\ nextID \in Nat /\ DOMAIN schemas \subseteq Nat
      /\ v \in Nat /\ \A w \in Versions(s) : w < v
  BY <1>0, <1>1 DEF IDFor, StoreInv, FingerprintSound, StoreTypeOK, CounterCoversVersions
<1> DEFINE known == {j \in DOMAIN schemas : schemas[j] = fp}
<1>4. /\ known # {} <=> fp \in DOMAIN fingerprints
      /\ known # {} => i \in known
      /\ known = {} => i = (nextID - 1) + 1
  BY <1>1, <1>3 DEF EveryContentIndexed
<1>5. schemas' = [j \in DOMAIN schemas \cup {i} |-> IF j = i THEN fp ELSE schemas[j]]
  BY <1>1, <1>2 DEF ContentAdded
<1>6. nextID' - 1 = IF known # {} THEN nextID - 1 ELSE i
  BY <1>2, <1>3, <1>4
<1>7. LogOf' = [LogOf EXCEPT ![s] = [w \in DOMAIN @ \cup {v} |->
                   IF w = v THEN [id |-> i, live |-> TRUE] ELSE @[w]]]
  <2>1. ASSUME NEW t \in Subjects, t # s
        PROVE  LogOf'[t] = LogOf[t]
    <3>1. /\ Versions(t)' = Versions(t)
          /\ \A w \in Versions(t) : subjectVersions'[t][w] = subjectVersions[t][w]
      BY <1>2, <2>1 DEF RowAdded
    <3> QED BY <3>1 DEF LogOf
  <2>2. LogOf'[s] = [w \in Versions(s) \cup {v} |->
                       IF w = v THEN [id |-> i, live |-> TRUE] ELSE LogOf[s][w]]
    <3>1. /\ Versions(s)' = Versions(s) \cup {v} /\ v \notin Versions(s)
          /\ \A w \in Versions(s) : subjectVersions'[s][w] = subjectVersions[s][w]
          /\ subjectVersions'[s][v].id = i /\ subjectVersions'[s][v].deleted = FALSE
      BY <1>2 DEF RowAdded
    <3>2. LogOf'[s] = [w \in Versions(s)' |->
                         [id |-> subjectVersions'[s][w].id,
                          live |-> ~subjectVersions'[s][w].deleted]]
      BY DEF LogOf
    <3>3. \A w \in Versions(s) : [id |-> subjectVersions'[s][w].id,
                                  live |-> ~subjectVersions'[s][w].deleted] = LogOf[s][w]
      BY <3>1, LogRows
    <3>4. [id |-> subjectVersions'[s][v].id, live |-> ~subjectVersions'[s][v].deleted]
            = [id |-> i, live |-> TRUE]
      BY <3>1
    <3> QED BY <3>1, <3>2, <3>3, <3>4
  <2>3. DOMAIN LogOf' = Subjects /\ LogOf' = [t \in Subjects |-> LogOf'[t]]
    BY DEF LogOf
  <2> QED BY <2>1, <2>2, <2>3, LogRows
<1>8. v \in DOMAIN LogOf'[s] /\ \A w \in DOMAIN LogOf[s] : w < v
  <2>1. DOMAIN LogOf'[s] = Versions(s)'
    BY DEF LogOf
  <2> QED BY <1>2, <1>3, <2>1, LogRows DEF RowAdded
<1>9. \A j \in DOMAIN schemas' : j <= nextID - 1 =>
         j \in DOMAIN schemas /\ schemas'[j] = schemas[j]
  BY <1>2, <1>3 DEF ContentAdded
<1>10. Log!Publish(s, fp)
  <2> HIDE DEF known
  <2>1. i \in known \cup {(nextID - 1) + 1}
    BY <1>4
  <2>2. \E w \in DOMAIN LogOf'[s] :
           /\ \A u \in DOMAIN LogOf[s] : u < w
           /\ LogOf' = [LogOf EXCEPT ![s] = [u \in DOMAIN @ \cup {w} |->
                           IF u = w THEN [id |-> i, live |-> TRUE] ELSE @[u]]]
    BY <1>7, <1>8
  <2> QED BY <1>4, <1>5, <1>6, <2>1, <2>2 DEF Log!Publish, known
<1> QED BY <1>9, <1>10

\* A soft delete retires versions of the log.
LEMMA LogRetire ==
  ASSUME StoreInv, NEW s \in Subjects, NEW V \in SUBSET Versions(s),
         SoftDelete(s, V),
         UNCHANGED <<schemas, fingerprints, nextSubjectVersion, idToSubjectVersions,
                     nextID, settingVars>>
  PROVE  Log!Retire(s, V)
<1>1. /\ \A t \in Subjects : Versions(t)' = Versions(t)
      /\ \A t \in Subjects : \A w \in Versions(t) :
           subjectVersions'[t][w] =
             IF t = s /\ w \in V THEN [subjectVersions[t][w] EXCEPT !.deleted = TRUE]
                                 ELSE subjectVersions[t][w]
  BY SoftEffect
<1>2. \A t \in Subjects : \A w \in Versions(t) : subjectVersions[t][w] \in VersionInfo
  BY DEF StoreInv, StoreTypeOK
<1>3. ASSUME NEW t \in Subjects, t # s
      PROVE  LogOf'[t] = LogOf[t]
  BY <1>1, <1>3 DEF LogOf
<1>4. LogOf'[s] = [v \in DOMAIN LogOf[s] |->
                     IF v \in V THEN [id |-> LogOf[s][v].id, live |-> FALSE] ELSE LogOf[s][v]]
  <2>1. LogOf'[s] = [w \in Versions(s) |-> [id |-> subjectVersions'[s][w].id,
                                            live |-> ~subjectVersions'[s][w].deleted]]
    BY <1>1 DEF LogOf
  <2>2. \A w \in Versions(s) : LogOf[s][w] = [id |-> subjectVersions[s][w].id,
                                              live |-> ~subjectVersions[s][w].deleted]
    BY DEF LogOf
  <2>3. ASSUME NEW w \in Versions(s), w \in V
        PROVE  [id |-> subjectVersions'[s][w].id, live |-> ~subjectVersions'[s][w].deleted]
                 = [id |-> LogOf[s][w].id, live |-> FALSE]
    <3>1. /\ subjectVersions'[s][w].id = subjectVersions[s][w].id
          /\ subjectVersions'[s][w].deleted = TRUE
      BY <1>1, <1>2, <2>3 DEF VersionInfo
    <3>2. LogOf[s][w].id = subjectVersions[s][w].id
      BY DEF LogOf
    <3> QED BY <3>1, <3>2
  <2>4. ASSUME NEW w \in Versions(s), w \notin V
        PROVE  [id |-> subjectVersions'[s][w].id, live |-> ~subjectVersions'[s][w].deleted]
                 = LogOf[s][w]
    BY <1>1, <2>2, <2>4
  <2>5. DOMAIN LogOf[s] = Versions(s)
    BY LogRows
  <2> QED BY <2>1, <2>3, <2>4, <2>5
<1>5. DOMAIN LogOf' = Subjects /\ LogOf' = [t \in Subjects |-> LogOf'[t]]
  BY DEF LogOf
<1>6. LogOf' = [LogOf EXCEPT ![s] = [v \in DOMAIN @ |->
                   IF v \in V THEN [id |-> @[v].id, live |-> FALSE] ELSE @[v]]]
  BY <1>3, <1>4, <1>5, LogRows
<1> QED BY <1>6 DEF Log!Retire

\* A permanent delete purges retired versions and the contents nobody names.
LEMMA LogPurge ==
  ASSUME PlainInv, PlainInv', NEW s \in Subjects, NEW V \in SUBSET Versions(s), V # {},
         V \cap Live(s) = {}, nextID' = nextID,
         NEW dead, Shrinks(dead),
         \A t \in Subjects :
            /\ Versions(t)' = IF t = s THEN Versions(t) \ V ELSE Versions(t)
            /\ \A w \in Versions(t)' : subjectVersions'[t][w] = subjectVersions[t][w]
  PROVE  Log!Purge(s, V)
<1>1. \A v \in V : ~LogOf[s][v].live
  <2>1. \A v \in V : LogOf[s][v].live = ~subjectVersions[s][v].deleted
    BY DEF LogOf
  <2>2. \A v \in V : subjectVersions[s][v].deleted
    BY DEF Live
  <2> QED BY <2>1, <2>2
<1>2. ASSUME NEW t \in Subjects, t # s
      PROVE  LogOf'[t] = LogOf[t]
  BY <1>2 DEF LogOf
<1>3. LogOf'[s] = [v \in DOMAIN LogOf[s] \ V |-> LogOf[s][v]]
  <2>1. LogOf'[s] = [w \in Versions(s) \ V |-> [id |-> subjectVersions'[s][w].id,
                                                live |-> ~subjectVersions'[s][w].deleted]]
    BY DEF LogOf
  <2>2. \A w \in Versions(s) \ V : LogOf[s][w] = [id |-> subjectVersions'[s][w].id,
                                                  live |-> ~subjectVersions'[s][w].deleted]
    BY DEF LogOf
  <2>3. DOMAIN LogOf[s] = Versions(s)
    BY LogRows
  <2> QED BY <2>1, <2>2, <2>3
<1>4. DOMAIN LogOf' = Subjects /\ LogOf' = [t \in Subjects |-> LogOf'[t]]
  BY DEF LogOf
<1>5. LogOf' = [LogOf EXCEPT ![s] = [v \in DOMAIN @ \ V |-> @[v]]]
  BY <1>2, <1>3, <1>4, LogRows
<1>6. Log!Used(LogOf') = DOMAIN schemas'
  BY LogUsedNext DEF PlainInv
<1>7. schemas' = [i \in DOMAIN schemas \cap Log!Used(LogOf') |-> schemas[i]]
  BY <1>6 DEF Shrinks, PlainInv
<1> QED BY <1>1, <1>5, <1>7 DEF Log!Purge

\* Every delete step retires or purges versions of the log.
LEMMA LogDelete ==
  ASSUME PlainInv, PlainInv', NEW c \in Clients, Deleted(c)
  PROVE  /\ \E s \in Subjects : \E V \in SUBSET DOMAIN LogOf[s] :
               Log!Retire(s, V) \/ Log!Purge(s, V)
         /\ \A i \in DOMAIN schemas' : i \in DOMAIN schemas /\ schemas'[i] = schemas[i]
<1>0. StoreInv /\ \A s \in Subjects : DOMAIN LogOf[s] = Versions(s)
  BY LogRows DEF PlainInv
<1>1. PICK s \in Subjects :
        \/ \E v \in Versions(s) : DeleteSchema(s, v) \/ DeleteSchemaPermanent(s, v)
        \/ DeleteSubject(s) \/ DeleteSubjectPermanent(s)
  BY DEF Deleted
<1>2. SettingsTyped /\ nextSubjectVersion \in [Subjects -> Nat]
  BY <1>0 DEF StoreInv, StoreTypeOK, SettingsTyped
<1>3. ASSUME NEW v \in Versions(s), DeleteSchema(s, v)
      PROVE  \E V \in SUBSET Versions(s) : Log!Retire(s, V)
  <2>1. {v} \in SUBSET Versions(s) /\ SoftDelete(s, {v})
    BY <1>3 DEF DeleteSchema
  <2> QED BY <1>0, <1>3, <2>1, LogRetire DEF DeleteSchema
<1>4. ASSUME NEW v \in Versions(s), DeleteSchemaPermanent(s, v)
      PROVE  \E V \in SUBSET Versions(s) : Log!Purge(s, V)
  <2>1. {v} \in SUBSET Versions(s) /\ {<<s, v>>} = {s} \X {v} /\ {v} # {}
    OBVIOUS
  <2>2. /\ {v} \cap Live(s) = {}
        /\ Unlink({s} \X {v})
        /\ subjectVersions' = [subjectVersions EXCEPT ![s] = Drop(subjectVersions[s], {v})]
        /\ UNCHANGED <<nextSubjectVersion, nextID, settingVars>>
    BY <1>4, <2>1 DEF DeleteSchemaPermanent, Live
  <2>3. SettingsTyped'
    BY <1>2, <2>2 DEF SettingsTyped, settingVars
  <2>4. /\ \E dead : Shrinks(dead)
        /\ \A t \in Subjects :
              /\ Versions(t)' = IF t = s THEN Versions(t) \ {v} ELSE Versions(t)
              /\ \A w \in Versions(t)' : subjectVersions'[t][w] = subjectVersions[t][w]
    BY <1>0, <1>2, <2>1, <2>2, <2>3, PurgeEffect
  <2> QED BY <2>1, <2>2, <2>4, LogPurge
<1>5. ASSUME DeleteSubject(s)
      PROVE  \E V \in SUBSET Versions(s) : Log!Retire(s, V)
  <2>1. Versions(s) \in SUBSET Versions(s) /\ SoftDelete(s, Versions(s))
    BY <1>5 DEF DeleteSubject
  <2> QED BY <1>0, <1>5, <2>1, LogRetire DEF DeleteSubject
<1>6. ASSUME DeleteSubjectPermanent(s)
      PROVE  \E V \in SUBSET Versions(s) : Log!Purge(s, V)
  <2>1. /\ Versions(s) \in SUBSET Versions(s) /\ Versions(s) \cap Live(s) = {}
        /\ Versions(s) # {}
    BY <1>6 DEF DeleteSubjectPermanent, Live
  <2>2. EmptyMap = Drop(subjectVersions[s], Versions(s))
    BY DEF EmptyMap, Drop, Versions
  <2>3. /\ subjectVersions' = [subjectVersions EXCEPT ![s] = Drop(subjectVersions[s], Versions(s))]
        /\ Unlink({s} \X Versions(s)) /\ nextID' = nextID
    BY <1>6, <2>2 DEF DeleteSubjectPermanent
  <2>4. /\ nextSubjectVersion' \in [Subjects -> Nat]
        /\ \A t \in Subjects : t # s => nextSubjectVersion'[t] = nextSubjectVersion[t]
    BY <1>2, <1>6 DEF DeleteSubjectPermanent
  <2>5. SettingsTyped'
    BY <1>2, <1>6 DEF DeleteSubjectPermanent, SettingsTyped
  <2>6. PICK V \in SUBSET Versions(s) : V = Versions(s)
    BY <2>1
  <2>7. /\ \E dead : Shrinks(dead)
        /\ \A t \in Subjects :
              /\ Versions(t)' = IF t = s THEN Versions(t) \ V ELSE Versions(t)
              /\ \A w \in Versions(t)' : subjectVersions'[t][w] = subjectVersions[t][w]
    BY <1>0, <2>1, <2>3, <2>4, <2>5, <2>6, PurgeEffect
  <2> QED BY <2>1, <2>3, <2>6, <2>7, LogPurge
<1>7. \A i \in DOMAIN schemas' : i \in DOMAIN schemas /\ schemas'[i] = schemas[i]
  BY <1>0, DeletedEffect DEF Shrinks
<1> QED BY <1>0, <1>1, <1>3, <1>4, <1>5, <1>6, <1>7

\* Every step of the service is a step of the log or leaves the log alone, and
\* gives no ID that was issued another content.
LEMMA LogStep ==
  ASSUME NoImports, PlainInv, PlainInv', [Next]_vars
  PROVE  /\ [Log!LogNext]_(Log!logVars)
         /\ UNCHANGED Log!logVars \/
            \A i \in DOMAIN schemas' : i <= nextID - 1 =>
               i \in DOMAIN schemas /\ schemas'[i] = schemas[i]
<1>0. StoreInv /\ ControlInv
  BY DEF PlainInv
<1>1. ASSUME UNCHANGED <<schemas, subjectVersions, nextID>>
      PROVE  UNCHANGED Log!logVars
  BY <1>1 DEF Log!logVars, LogOf, Versions
<1>2. CASE UNCHANGED vars
  BY <1>1, <1>2 DEF vars, storeVars, schemaVars
<1>3. ASSUME NEW c \in Clients, NEW r \in Requests, Begin(c, r)
      PROVE  UNCHANGED Log!logVars
  BY <1>1, <1>3 DEF Begin, storeVars, schemaVars
<1>4. ASSUME NEW c \in Clients, Step(c)
      PROVE  \/ UNCHANGED Log!logVars
             \/ /\ Log!LogNext
                /\ \A i \in DOMAIN schemas' : i <= nextID - 1 =>
                      i \in DOMAIN schemas /\ schemas'[i] = schemas[i]
  <2>1. ~Imported(c) /\ ~AdvanceSet(c)
    <3>1. Fits(pc[c], req[c], loc[c])
      BY <1>0 DEF ControlInv
    <3>2. pc[c] \notin {"import", "store", "setNext"}
      BY <3>1 DEF Fits, NoImports, Done
    <3> QED BY <3>2 DEF Imported, AdvanceSet
  <2>2. CASE Quiet \/ Answered
    BY <1>1, <2>2 DEF Quiet, Answered, storeVars, schemaVars
  <2>3. CASE Created(c)
    <3>1. PICK s, fp, m : s = req[c].subject /\ fp = req[c].fp /\ m = loc[c].meta
      OBVIOUS
    <3>2. s \in Subjects /\ fp \in Fingerprints /\ m \in Metas /\ CreateSchema(s, fp, m)
      BY <2>3, <3>1, RequestFields DEF Created
    <3>3. /\ Log!Publish(s, fp)
          /\ \A i \in DOMAIN schemas' : i <= nextID - 1 =>
                i \in DOMAIN schemas /\ schemas'[i] = schemas[i]
      BY <3>2, LogCreate
    <3> QED BY <3>2, <3>3 DEF Log!LogNext
  <2>4. CASE Deleted(c)
    BY <2>4, LogDelete DEF Log!LogNext
  <2> QED BY <1>0, <1>4, <2>1, <2>2, <2>3, <2>4, StepEffect
<1> QED BY <1>2, <1>3, <1>4 DEF Next

\* Without imports the registry service implements the abstract schema log,
\* whatever stale reads its requests act on, and rebinds no issued ID.
THEOREM ServiceImplementsLog ==
  ASSUME NoImports PROVE Spec => ImplementsLog
<1>1. Init => Log!LogInit
  BY DEF Init, StoreInit, Log!LogInit, Log!EmptyLog, EmptyMap, LogOf, Versions
<1>2. PlainInv /\ PlainInv' /\ [Next]_vars => [Log!LogNext]_(Log!logVars)
  BY LogStep
<1>3. PlainInv /\ PlainInv' /\ [Next]_vars =>
        [\A i \in DOMAIN schemas' : i <= nextID - 1 =>
            i \in DOMAIN schemas /\ schemas'[i] = schemas[i]]_(Log!logVars)
  BY LogStep
<1> QED BY <1>1, <1>2, <1>3, PlainIntegrity, PTL
        DEF Spec, ImplementsLog, Log!LogSpec, Log!IDsNeverRebound

-----------------------------------------------------------------------------
(* One client at a time, imports included.                                 *)

\* One client, so requests do not overlap.
Serial == \A c, d \in Clients : c = d

\* Every ID in use is below the next one, or below the one that an import in
\* progress is going to set.
IDsCovered ==
  /\ \A i \in DOMAIN schemas :
        \/ i < nextID
        \/ \E c \in Clients : /\ pc[c] \in {"item", "store", "advance", "setNext"}
                              /\ i < loc[c].next
  /\ \A c \in Clients : pc[c] = "setNext" => nextID <= loc[c].next

\* What a registration with metadata m is compared with.
Compared(s, m) == [v \in InGroup(s, m, GetSchemasBySubject(s)) |-> Content(s, v)]

\* The rule on reserved fields, where the config asks for it.
Kept(s, fp, m) == isValidateFieldsEnabled(s) => KeepsReserved(s, fp, m)

\* What the checks a request has passed say of the store at its next step.
Owed(l, r, x) ==
  /\ l \in {"lookup", "compat", "reserved", "prev", "create", "assign", "import"}
        => Refs[r.fp] \subseteq LiveVersions
  /\ l = "store" => Refs[r.items[x.idx].fp] \subseteq LiveVersions
  /\ l = "apply" /\ r.op = "deleteVersion" /\ ~r.permanent
        => Unreferenced(r.subject, {x.version})
  /\ l = "apply" /\ r.op = "deleteSubject" /\ ~r.permanent
        => Unreferenced(r.subject, GetSchemasBySubject(r.subject))
  /\ l \in {"reserved", "prev", "create"}
        => Check(Readable, GetConfig(r.subject), r.fp, Compared(r.subject, r.meta))
  /\ l = "prev" => Kept(r.subject, r.fp, r.meta)
  /\ l = "create" => Kept(r.subject, r.fp, x.meta)

\* The inductive invariant of the serial regime.
SerialInv ==
  /\ StoreInv /\ ControlInv
  /\ IDsCovered
  /\ ReferencesLive
  /\ \A c \in Clients : Owed(pc[c], req[c], loc[c])

\* A stored version is live exactly when its row says so.
LEMMA LiveRows ==
  StoreInv => \A s, v : <<s, v>> \in LiveVersions <=> s \in Subjects /\ v \in Live(s)
<1> SUFFICES ASSUME StoreInv, NEW s, NEW v
             PROVE  <<s, v>> \in LiveVersions <=> s \in Subjects /\ v \in Live(s)
  OBVIOUS
<1>1. <<s, v>> \in LiveVersions => s \in Subjects /\ v \in Live(s)
  BY DEF LiveVersions
<1>2. ASSUME s \in Subjects, v \in Live(s) PROVE <<s, v>> \in LiveVersions
  <2>1. <<s, v>> \in UNION {{t} \X Live(t) : t \in Subjects}
    BY <1>2
  <2>2. HasContent(s, v)
    BY <1>2 DEF StoreInv, NoDanglingVersion, Live
  <2> QED BY <2>1, <2>2 DEF LiveVersions
<1> QED BY <1>1, <1>2

\* The same in the next state.
LEMMA LiveRowsNext ==
  StoreInv' => \A s, v : <<s, v>> \in LiveVersions' <=> s \in Subjects /\ v \in Live(s)'
<1>1. (StoreInv => \A s, v : <<s, v>> \in LiveVersions <=> s \in Subjects /\ v \in Live(s))'
  BY LiveRows, PTL
<1> QED BY <1>1

\* References of live versions are live, said of subjects and versions.
LEMMA ReferencesByRow ==
  ASSUME StoreInv
  PROVE  ReferencesLive <=>
           \A s \in Subjects : \A v \in Live(s) : Refs[Content(s, v)] \subseteq LiveVersions
<1>1. ASSUME ReferencesLive, NEW s \in Subjects, NEW v \in Live(s)
      PROVE  Refs[Content(s, v)] \subseteq LiveVersions
  <2>1. <<s, v>> \in LiveVersions
    BY LiveRows
  <2> QED BY <1>1, <2>1 DEF ReferencesLive
<1>2. ASSUME \A s \in Subjects : \A v \in Live(s) : Refs[Content(s, v)] \subseteq LiveVersions,
             NEW sv \in LiveVersions
      PROVE  Refs[Content(sv[1], sv[2])] \subseteq LiveVersions
  BY <1>2 DEF LiveVersions
<1> QED BY <1>1, <1>2 DEF ReferencesLive

\* The same in the next state.
LEMMA ReferencesByRowNext ==
  ASSUME StoreInv',
         \A s \in Subjects : \A v \in Live(s)' : Refs[Content(s, v)'] \subseteq LiveVersions'
  PROVE  ReferencesLive'
<1>1. ASSUME NEW sv \in LiveVersions'
      PROVE  Refs[Content(sv[1], sv[2])'] \subseteq LiveVersions'
  BY DEF LiveVersions
<1> QED BY <1>1 DEF ReferencesLive

\* A new version whose references are live keeps the references live.
LEMMA ReferencesGrow ==
  ASSUME StoreInv, StoreInv', ReferencesLive,
         NEW s \in Subjects, NEW v, NEW i, NEW m, NEW fp,
         RowAdded(s, v, i, m), ContentAdded(i, fp), Refs[fp] \subseteq LiveVersions
  PROVE  ReferencesLive'
<1>1. \A t \in Subjects : Live(t)' = IF t = s THEN Live(t) \cup {v} ELSE Live(t)
  BY DEF RowAdded, Live
<1>2. LiveVersions \subseteq LiveVersions'
  <2> SUFFICES ASSUME NEW sv \in LiveVersions PROVE sv \in LiveVersions'
    OBVIOUS
  <2>1. sv = <<sv[1], sv[2]>> /\ sv[1] \in Subjects /\ sv[2] \in Live(sv[1])
    BY DEF LiveVersions
  <2>2. sv[2] \in Live(sv[1])'
    BY <1>1, <2>1
  <2>3. <<sv[1], sv[2]>> \in LiveVersions'
    BY <2>1, <2>2, LiveRowsNext
  <2> QED BY <2>1, <2>3
<1>3. ASSUME NEW t \in Subjects, NEW w \in Live(t)'
      PROVE  Refs[Content(t, w)'] \subseteq LiveVersions
  <2>1. CASE t = s /\ w = v
    <3>1. Content(t, w)' = fp
      BY <2>1 DEF RowAdded, ContentAdded, Content
    <3> QED BY <3>1
  <2>2. CASE w \in Live(t) /\ w \in Versions(t)
    <3>1. subjectVersions[t][w].id \in DOMAIN schemas
      BY <2>2 DEF StoreInv, NoDanglingVersion, HasContent
    <3>2. Content(t, w)' = Content(t, w)
      BY <2>2, <3>1 DEF RowAdded, ContentAdded, Content
    <3> QED BY <2>2, <3>2, ReferencesByRow
  <2> QED BY <1>1, <2>1, <2>2 DEF Live
<1>4. \A t \in Subjects : \A w \in Live(t)' : Refs[Content(t, w)'] \subseteq LiveVersions'
  BY <1>2, <1>3
<1> QED BY <1>4, ReferencesByRowNext

\* Taking away live versions nobody references keeps the references live.
LEMMA ReferencesShrink ==
  ASSUME StoreInv, StoreInv', VersionFrozen, ReferencesLive,
         NEW s \in Subjects, NEW V,
         \A t \in Subjects : Live(t)' = IF t = s THEN Live(t) \ V ELSE Live(t),
         \A w \in V \cap Live(s) : GetReferencedBy(Refs, s, w) = {}
  PROVE  ReferencesLive'
<1>1. ASSUME NEW t \in Subjects, NEW w \in Live(t)'
      PROVE  Refs[Content(t, w)'] \subseteq LiveVersions'
  <2>1. w \in Live(t) /\ w \in Versions(t) /\ w \in DOMAIN subjectVersions'[t]
    BY DEF Live, Versions
  <2>2. Content(t, w)' = Content(t, w)
    BY <2>1 DEF VersionFrozen, Content
  <2>3. Refs[Content(t, w)] \subseteq LiveVersions
    BY <2>1, ReferencesByRow
  <2>4. <<t, w>> \in LiveVersions
    BY <2>1, LiveRows
  <2>5. ASSUME NEW sv \in Refs[Content(t, w)] PROVE sv \in LiveVersions'
    <3>1. sv = <<sv[1], sv[2]>> /\ sv[1] \in Subjects /\ sv[2] \in Live(sv[1])
      BY <2>3, <2>5 DEF LiveVersions
    <3>2. ~(sv[1] = s /\ sv[2] \in V)
      <4> SUFFICES ASSUME sv[1] = s, sv[2] \in V PROVE FALSE
        OBVIOUS
      <4>1. GetReferencedBy(Refs, s, sv[2]) = {} /\ sv = <<s, sv[2]>>
        BY <3>1
      <4>2. <<t, w>> \in GetReferencedBy(Refs, s, sv[2])
        BY <2>4, <2>5, <4>1 DEF GetReferencedBy
      <4> QED BY <4>1, <4>2
    <3>3. <<sv[1], sv[2]>> \in LiveVersions'
      BY <3>1, <3>2, LiveRowsNext
    <3> QED BY <3>1, <3>3
  <2> QED BY <2>2, <2>5
<1> QED BY <1>1, ReferencesByRowNext

\* ImportSchema adds one row, with the ID and version it was given.
LEMMA ImportEffect ==
  ASSUME StoreInv, NEW s \in Subjects, NEW fp \in Fingerprints,
         NEW i \in Nat, NEW v \in Nat \ {0}, ImportSchema(s, fp, i, v)
  PROVE  /\ StoreInv' /\ RowAdded(s, v, i, NoMeta) /\ ContentAdded(i, fp)
         /\ nextID' = nextID
<1>1. StoreInv'
  BY ImportInv
<1>2. v \notin Versions(s) /\ LinkVersion(s, v, i, NoMeta) /\ nextID' = nextID
  BY DEF ImportSchema
<1>3. RowAdded(s, v, i, NoMeta)
  BY <1>2, LinkAdds, StoreAssumption
<1>4. ContentAdded(i, fp)
  BY DEF ImportSchema, IDConflict, ContentAdded, Put
<1> QED BY <1>1, <1>2, <1>3, <1>4

\* A request that moves to a place where its checks oblige to nothing.
FreeLabels == {"idle", "error", "resolve", "refetch", "item", "advance", "setNext", "check",
               "cleanup", "cleanupMode"}

\* Moving without touching the store keeps what the checks have established.
LEMMA OwedMove ==
  ASSUME ControlInv, NEW c \in Clients, NEW l, NEW r, NEW x, MoveTo(c, l, r, x),
         l \in FreeLabels \/ (UNCHANGED storeVars /\ Owed(l, r, x))
  PROVE  Owed(pc[c], req[c], loc[c])'
<1>1. pc'[c] = l /\ req'[c] = r /\ loc'[c] = x
  BY DEF ControlInv, MoveTo
<1>2. CASE l \in FreeLabels
  BY <1>1, <1>2 DEF Owed, FreeLabels
<1>3. CASE UNCHANGED storeVars /\ Owed(l, r, x)
  <2>1. UNCHANGED <<schemas, subjectVersions, configs, globalConfig>>
    BY <1>3 DEF storeVars, schemaVars, settingVars
  <2>2. LiveVersions' = LiveVersions
    BY <2>1 DEF LiveVersions, Live, Versions, HasContent
  <2>3. \A s : /\ GetSchemasBySubject(s)' = GetSchemasBySubject(s)
               /\ GetConfig(s)' = GetConfig(s)
               /\ \A v : Content(s, v)' = Content(s, v)
    BY <2>1 DEF GetSchemasBySubject, GetConfig, Content, Live, Versions, HasContent
  <2>4. \A s, V : Unreferenced(s, V)' <=> Unreferenced(s, V)
    BY <2>2, <2>3 DEF Unreferenced, GetReferencedBy
  <2>5. \A s, m, V : InGroup(s, m, V)' = InGroup(s, m, V)
    BY <2>1 DEF InGroup
  <2>6. \A s, m : Compared(s, m)' = Compared(s, m)
    BY <2>3, <2>5 DEF Compared
  <2>7. \A s, fp, m : Kept(s, fp, m)' = Kept(s, fp, m)
    BY <2>1 DEF Kept, isValidateFieldsEnabled, KeepsReserved, GetLatestVersion, Live, Versions
  <2> QED BY <1>1, <1>3, <2>2, <2>3, <2>4, <2>6, <2>7 DEF Owed
<1> QED BY <1>2, <1>3

\* Each check a request makes establishes what its next step needs.
LEMMA OwedStep ==
  ASSUME StoreInv, ControlInv, NEW c \in Clients, Owed(pc[c], req[c], loc[c]), Step(c)
  PROVE  Owed(pc[c], req[c], loc[c])'
<1> DEFINE r == req[c]
           x == loc[c]
<1> SUFFICES \E l, q, y : /\ MoveTo(c, l, q, y)
                          /\ l \in FreeLabels \/ (UNCHANGED storeVars /\ Owed(l, q, y))
  BY OwedMove
<1>0. Owed(pc[c], r, x) /\ Fits(pc[c], r, x)
  BY DEF ControlInv
<1>1. ASSUME Fail(c) \/ Return(c) \/ \E i : Answer(c, i)
      PROVE  \E l, q, y : MoveTo(c, l, q, y) /\ l \in FreeLabels
  <2>1. Finish(c, "idle") \/ Finish(c, "error")
    BY <1>1 DEF Fail, Return, Answer
  <2> QED BY <2>1, Moves DEF FreeLabels
<1>2. ASSUME NEW l, Continue(c, l)
      PROVE  MoveTo(c, l, r, x)
  BY <1>2, Moves
<1>3. ASSUME NEW l, NEW y, Remember(c, l, y)
      PROVE  MoveTo(c, l, r, y)
  BY <1>3, Moves
<1>4. \A refs : Resolves(refs) => refs \subseteq LiveVersions
  BY DEF Resolves
<1>5. x \in Locals
  BY <1>0 DEF Fits
<1> HIDE DEF r, x
<1>6. CASE ResolveReferences(c)
  <2>1. UNCHANGED storeVars /\ (Fail(c) \/ (Resolves(Refs[r.fp]) /\ Continue(c, "lookup")))
    BY <1>6 DEF ResolveReferences, r
  <2>2. Resolves(Refs[r.fp]) => Owed("lookup", r, x)
    BY <1>4 DEF Owed
  <2> QED BY <1>1, <1>2, <2>1, <2>2
<1>7. CASE RegisterLookup(c)
  <2>1. /\ pc[c] = "lookup" /\ UNCHANGED storeVars
        /\ Continue(c, "compat") \/ \E i : Answer(c, i)
    BY <1>7 DEF RegisterLookup
  <2>2. Owed("compat", r, x)
    BY <1>0, <2>1 DEF Owed
  <2> QED BY <1>1, <1>2, <2>1, <2>2
<1>8. CASE RegisterCompat(c)
  <2> DEFINE existing == Compared(r.subject, r.meta)
  <2>1. /\ pc[c] = "compat" /\ UNCHANGED storeVars
        /\ \/ Fail(c)
           \/ /\ Check(Readable, GetConfig(r.subject), r.fp, existing)
              /\ Continue(c, "reserved")
    BY <1>8 DEF RegisterCompat, Compared, r
  <2>2. Check(Readable, GetConfig(r.subject), r.fp, existing) => Owed("reserved", r, x)
    BY <1>0, <2>1 DEF Owed
  <2> QED BY <1>1, <1>2, <2>1, <2>2
<1>26. CASE RegisterReserved(c)
  <2>1. /\ pc[c] = "reserved" /\ UNCHANGED storeVars
        /\ Fail(c) \/ (Kept(r.subject, r.fp, r.meta) /\ Continue(c, "prev"))
    BY <1>26 DEF RegisterReserved, Kept, r
  <2>2. Kept(r.subject, r.fp, r.meta) => Owed("prev", r, x)
    BY <1>0, <2>1 DEF Owed
  <2> QED BY <1>1, <1>2, <2>1, <2>2
<1>9. CASE RegisterPrev(c)
  <2> DEFINE s == r.subject
             inherits == r.meta = NoMeta /\ r.cv = 0 /\ Live(s) # {}
             meta == IF inherits THEN subjectVersions[s][GetLatestVersion(s)].meta
                                 ELSE r.meta
  <2>1. /\ pc[c] = "prev" /\ UNCHANGED storeVars
        /\ Remember(c, "create", [x EXCEPT !.meta = meta])
    BY <1>9 DEF RegisterPrev, r, x
  <2>2. Kept(s, r.fp, r.meta)
    BY <1>0, <2>1 DEF Owed
  <2>3. Kept(s, r.fp, meta)
    <3>1. CASE inherits
      <4>1. Reserved[NoMeta] = {}
        BY RegistryAssumption
      <4>2. KeepsReserved(s, r.fp, r.meta) => Reserved[meta] = {}
        BY <3>1, <4>1 DEF KeepsReserved
      <4>3. Reserved[meta] = {} => KeepsReserved(s, r.fp, meta)
        BY <3>1 DEF KeepsReserved
      <4> QED BY <2>2, <4>2, <4>3 DEF Kept
    <3>2. CASE ~inherits
      BY <2>2, <3>2
    <3> QED BY <3>1, <3>2
  <2> HIDE DEF meta
  <2>4. [x EXCEPT !.meta = meta].meta = meta
    BY <1>5 DEF Locals
  <2>5. Owed("create", r, [x EXCEPT !.meta = meta])
    BY <1>0, <2>1, <2>3, <2>4 DEF Owed
  <2> QED BY <1>3, <2>1, <2>5
<1>10. CASE RegisterCreate(c)
  <2>1. Continue(c, "refetch") \/ \E i : Answer(c, i)
    BY <1>10 DEF RegisterCreate
  <2> QED BY <1>1, <1>2, <2>1 DEF FreeLabels
<1>11. CASE RegisterRefetch(c)
  <2>1. Fail(c) \/ \E i : Answer(c, i)
    BY <1>11 DEF RegisterRefetch
  <2> QED BY <1>1, <2>1
<1>12. CASE ImportLookup(c)
  <2>1. /\ pc[c] = "lookup" /\ UNCHANGED storeVars
        /\ Return(c) \/ Continue(c, "assign") \/ \E y : Remember(c, "import", y)
    BY <1>12 DEF ImportLookup
  <2>2. Owed("assign", r, x) /\ \A y : Owed("import", r, y)
    BY <1>0, <2>1 DEF Owed
  <2> QED BY <1>1, <1>2, <1>3, <2>1, <2>2
<1>13. CASE ImportAssign(c)
  <2>1. /\ pc[c] = "assign" /\ UNCHANGED storeVars
        /\ \E y : Remember(c, "import", y)
    BY <1>13 DEF ImportAssign
  <2>2. \A y : Owed("import", r, y)
    BY <1>0, <2>1 DEF Owed
  <2> QED BY <1>3, <2>1, <2>2
<1>14. CASE ImportStore(c)
  <2>1. \/ Return(c) \/ Fail(c)
        \/ MoveTo(c, "advance", r, [x EXCEPT !.next = r.id + 1])
    BY <1>14 DEF ImportStore, ControlInv, MoveTo, Goto, r, x
  <2> QED BY <1>1, <2>1 DEF FreeLabels
<1>15. CASE BulkResolve(c)
  <2>1. \/ /\ UNCHANGED storeVars /\ Continue(c, "store")
           /\ Resolves(Refs[r.items[x.idx].fp])
        \/ MoveTo(c, "item", r, [x EXCEPT !.idx = @ + 1])
    BY <1>15 DEF BulkResolve, SkipItem, ControlInv, MoveTo, Goto, r, x
  <2>2. Resolves(Refs[r.items[x.idx].fp]) => Owed("store", r, x)
    BY <1>4 DEF Owed
  <2> QED BY <1>2, <2>1, <2>2 DEF FreeLabels
<1>16. CASE BulkStore(c)
  <2>1. \E y : MoveTo(c, "item", r, y)
    BY <1>16 DEF BulkStore, SkipItem, ControlInv, MoveTo, Goto, r, x
  <2> QED BY <2>1 DEF FreeLabels
<1>17. CASE BulkEnd(c)
  <2>1. Continue(c, "advance") \/ Return(c)
    BY <1>17 DEF BulkEnd
  <2> QED BY <1>1, <1>2, <2>1 DEF FreeLabels
<1>18. CASE AdvanceRead(c)
  <2>1. \E y : Remember(c, "setNext", y)
    BY <1>18 DEF AdvanceRead
  <2> QED BY <1>3, <2>1 DEF FreeLabels
<1>19. CASE AdvanceSet(c) \/ DeleteVersionApply(c)
  BY <1>1, <1>19 DEF AdvanceSet, DeleteVersionApply
<1>20. CASE DeleteVersionCheck(c)
  <2>1. /\ UNCHANGED storeVars /\ r.op = "deleteVersion"
        /\ \/ Fail(c)
           \/ \E v : /\ ~r.permanent => Unreferenced(r.subject, {v})
                     /\ Remember(c, "apply", [x EXCEPT !.version = v])
    BY <1>20 DEF DeleteVersionCheck, r, x
  <2>2. ASSUME NEW v, ~r.permanent => Unreferenced(r.subject, {v})
        PROVE  Owed("apply", r, [x EXCEPT !.version = v])
    <3>1. [x EXCEPT !.version = v].version = v
      BY <1>5 DEF Locals
    <3> QED BY <2>1, <2>2, <3>1 DEF Owed
  <2> QED BY <1>1, <1>3, <2>1, <2>2
<1>21. CASE DeleteSubjectCheck(c)
  <2>1. /\ UNCHANGED storeVars /\ r.op = "deleteSubject"
        /\ \/ Fail(c)
           \/ /\ ~r.permanent => Unreferenced(r.subject, GetSchemasBySubject(r.subject))
              /\ Continue(c, "apply")
    BY <1>21 DEF DeleteSubjectCheck, r
  <2>2. (~r.permanent => Unreferenced(r.subject, GetSchemasBySubject(r.subject)))
           => Owed("apply", r, x)
    BY <2>1 DEF Owed
  <2> QED BY <1>1, <1>2, <2>1, <2>2
<1>22. CASE DeleteSubjectApply(c)
  <2>1. Return(c) \/ Fail(c) \/ Continue(c, "cleanup")
    BY <1>22 DEF DeleteSubjectApply
  <2> QED BY <1>1, <1>2, <2>1 DEF FreeLabels
<1>23. CASE DeleteSubjectCleanup(c)
  <2>1. Return(c) \/ Continue(c, "cleanupMode")
    BY <1>23 DEF DeleteSubjectCleanup
  <2> QED BY <1>1, <1>2, <2>1 DEF FreeLabels
<1>24. CASE SetModeCheck(c)
  <2>1. /\ UNCHANGED storeVars /\ r.op \in {"setMode", "setGlobalMode"}
        /\ Fail(c) \/ Continue(c, "apply")
    BY <1>24 DEF SetModeCheck, r
  <2>2. Owed("apply", r, x)
    BY <2>1 DEF Owed
  <2> QED BY <1>1, <1>2, <2>1, <2>2
<1>25. CASE RegistrySetConfig(c) \/ RegistryDeleteConfig(c)
            \/ RegistrySetMode(c) \/ RegistryDeleteMode(c)
  BY <1>1, <1>25 DEF RegistrySetConfig, RegistryDeleteConfig, RegistrySetMode,
                     RegistryDeleteMode
<1> QED
  BY <1>6, <1>7, <1>8, <1>9, <1>10, <1>11, <1>12, <1>13, <1>14, <1>15, <1>16, <1>17,
     <1>18, <1>19, <1>20, <1>21, <1>22, <1>23, <1>24, <1>25, <1>26 DEF Step

\* How an import in progress goes on: what it has to set only grows until it is
\* set, and it is read after the last item and before it is set.
LEMMA ImportGoesOn ==
  ASSUME StoreInv, ControlInv, NEW c \in Clients, Step(c)
  PROVE  /\ pc[c] \in {"item", "store", "advance"} =>
              \/ /\ pc'[c] \in {"item", "store", "advance", "setNext"}
                 /\ loc'[c].next \in Nat /\ loc'[c].next >= loc[c].next
              \/ loc[c].next = 0
         /\ pc'[c] = "setNext" => /\ pc[c] = "advance" /\ nextID' = nextID
                                  /\ nextID <= loc'[c].next
         /\ pc[c] = "setNext" => AdvanceSet(c)
<1> DEFINE r == req[c]
           x == loc[c]
           G == /\ pc[c] \in {"item", "store", "advance"} =>
                     \/ /\ pc'[c] \in {"item", "store", "advance", "setNext"}
                        /\ loc'[c].next \in Nat /\ loc'[c].next >= loc[c].next
                     \/ loc[c].next = 0
                /\ pc'[c] = "setNext" => /\ pc[c] = "advance" /\ nextID' = nextID
                                         /\ nextID <= loc'[c].next
                /\ pc[c] = "setNext" => AdvanceSet(c)
<1>0. /\ Fits(pc[c], r, x) /\ x \in Locals /\ x.next \in Nat /\ nextID \in Nat
      /\ pc \in [Clients -> Labels]
  BY DEF ControlInv, Locals, StoreInv, StoreTypeOK
<1>1. \A l, q, y : MoveTo(c, l, q, y) => pc'[c] = l /\ loc'[c] = y
  BY DEF ControlInv, MoveTo
<1>2. ASSUME Fail(c) \/ Return(c) \/ \E i : Answer(c, i)
      PROVE  pc'[c] \in {"idle", "error"}
  BY <1>0, <1>2 DEF Fail, Return, Answer, Finish, Goto
<1>3. \A l : Continue(c, l) => pc'[c] = l /\ loc'[c] = x
  BY <1>1, Moves
<1>4. \A l, y : Remember(c, l, y) => pc'[c] = l /\ loc'[c] = y
  BY <1>1, Moves
<1>5. CASE BulkResolve(c)
  <2>1. /\ pc[c] = "item"
        /\ \/ Continue(c, "store")
           \/ MoveTo(c, "item", r, [x EXCEPT !.idx = @ + 1])
    BY <1>5 DEF BulkResolve, SkipItem, ControlInv, MoveTo, Goto
  <2>2. [x EXCEPT !.idx = @ + 1].next = x.next
    BY <1>0 DEF Locals
  <2>3. pc'[c] \in {"item", "store"} /\ loc'[c].next = x.next
    BY <1>1, <1>3, <2>1, <2>2
  <2> QED BY <1>0, <2>1, <2>3
<1>6. CASE BulkStore(c)
  <2> DEFINE it == r.items[x.idx]
             reached == IF it.id + 1 > x.next THEN it.id + 1 ELSE x.next
  <2>0. pc[c] = "store"
    BY <1>6 DEF BulkStore
  <2>1. /\ r.op = "bulk" /\ r \in Requests
        /\ x.idx \in Nat \ {0} /\ x.idx <= Len(r.items)
    BY <1>0, <2>0 DEF Fits, Done, Locals
  <2>2. it \in ItemType
    BY <2>1, RequestFields
  <2>3. it.id \in Nat
    BY <2>2 DEF ItemType
  <2>4. reached \in Nat /\ reached >= x.next
    <3> HIDE DEF it, x
    <3> QED BY <1>0, <2>3
  <2> HIDE DEF reached
  <2>5. \/ MoveTo(c, "item", r, [[x EXCEPT !.idx = @ + 1] EXCEPT !.next = reached])
        \/ MoveTo(c, "item", r, [x EXCEPT !.idx = @ + 1])
    BY <1>6 DEF BulkStore, SkipItem, ControlInv, MoveTo, Goto, reached
  <2>6. [x EXCEPT !.idx = @ + 1] \in Locals /\ [x EXCEPT !.idx = @ + 1].next = x.next
    BY <1>0 DEF Locals
  <2>7. \A y \in Locals : [y EXCEPT !.next = reached].next = reached
    BY DEF Locals
  <2>8. pc'[c] = "item" /\ (loc'[c].next = reached \/ loc'[c].next = x.next)
    BY <1>1, <2>5, <2>6, <2>7
  <2> QED BY <1>0, <2>0, <2>4, <2>8
<1>7. CASE BulkEnd(c)
  <2>1. /\ pc[c] = "item"
        /\ Continue(c, "advance") \/ (~(x.next > 0) /\ Return(c))
    BY <1>7 DEF BulkEnd
  <2> QED BY <1>0, <1>2, <1>3, <2>1
<1>8. CASE AdvanceRead(c)
  <2> DEFINE next == IF GetMaxSchemaID + 1 > x.next THEN GetMaxSchemaID + 1 ELSE x.next
  <2>1. /\ pc[c] = "advance" /\ Remember(c, "setNext", [x EXCEPT !.next = next])
        /\ UNCHANGED storeVars
    BY <1>8 DEF AdvanceRead
  <2>2. next \in Nat /\ next >= x.next /\ nextID <= next
    <3> HIDE DEF x
    <3> QED BY <1>0 DEF GetMaxSchemaID
  <2> HIDE DEF next
  <2>3. [x EXCEPT !.next = next].next = next
    BY <1>0 DEF Locals
  <2>4. pc'[c] = "setNext" /\ loc'[c].next = next /\ nextID' = nextID
    BY <1>4, <2>1, <2>3 DEF storeVars, schemaVars
  <2> QED BY <1>0, <2>1, <2>2, <2>4
<1>9. CASE AdvanceSet(c)
  BY <1>2, <1>9 DEF AdvanceSet
<1>10. CASE ImportStore(c)
  <2>1. /\ pc[c] = "import"
        /\ pc'[c] \in {"idle", "error", "advance"}
    BY <1>0, <1>2, <1>10 DEF ImportStore, Goto
  <2> QED BY <2>1
<1>11. ASSUME pc[c] \notin {"item", "store", "advance", "setNext"}, pc'[c] # "setNext"
       PROVE  G
  BY <1>11
<1> HIDE DEF G
<1>12. CASE ResolveReferences(c) \/ RegisterLookup(c) \/ RegisterCompat(c)
            \/ RegisterReserved(c) \/ RegisterPrev(c)
            \/ RegisterCreate(c) \/ RegisterRefetch(c) \/ ImportLookup(c) \/ ImportAssign(c)
  <2>1. pc[c] \in {"resolve", "lookup", "compat", "reserved", "prev", "create", "refetch",
                   "assign"}
    BY <1>12 DEF ResolveReferences, RegisterLookup, RegisterCompat, RegisterReserved,
                 RegisterPrev, RegisterCreate, RegisterRefetch, ImportLookup, ImportAssign
  <2>2. \/ Fail(c) \/ Return(c) \/ \E i : Answer(c, i)
        \/ \E l \in {"lookup", "compat", "reserved", "prev", "create", "refetch", "assign",
                   "import"} :
              Continue(c, l) \/ \E y : Remember(c, l, y)
    BY <1>12 DEF ResolveReferences, RegisterLookup, RegisterCompat, RegisterReserved,
                 RegisterPrev, RegisterCreate, RegisterRefetch, ImportLookup, ImportAssign
  <2>3. pc'[c] # "setNext"
    BY <1>2, <1>3, <1>4, <2>2
  <2> QED BY <1>11, <2>1, <2>3
<1>13. CASE DeleteVersionCheck(c) \/ DeleteVersionApply(c) \/ DeleteSubjectCheck(c)
            \/ DeleteSubjectApply(c) \/ DeleteSubjectCleanup(c) \/ SetModeCheck(c)
            \/ RegistrySetConfig(c) \/ RegistryDeleteConfig(c)
            \/ RegistrySetMode(c) \/ RegistryDeleteMode(c)
  <2>1. pc[c] \in {"check", "apply", "cleanup", "cleanupMode"}
    BY <1>13 DEF DeleteVersionCheck, DeleteVersionApply, DeleteSubjectCheck,
                 DeleteSubjectApply, DeleteSubjectCleanup, SetModeCheck,
                 RegistrySetConfig, RegistryDeleteConfig, RegistrySetMode, RegistryDeleteMode
  <2>2. \/ Fail(c) \/ Return(c)
        \/ \E l \in {"apply", "cleanup", "cleanupMode"} :
              Continue(c, l) \/ \E y : Remember(c, l, y)
    BY <1>13 DEF DeleteVersionCheck, DeleteVersionApply, DeleteSubjectCheck,
                 DeleteSubjectApply, DeleteSubjectCleanup, SetModeCheck,
                 RegistrySetConfig, RegistryDeleteConfig, RegistrySetMode, RegistryDeleteMode
  <2>3. pc'[c] # "setNext"
    BY <1>2, <1>3, <1>4, <2>2
  <2> QED BY <1>11, <2>1, <2>3
<1>14. G
  BY <1>5, <1>6, <1>7, <1>8, <1>9, <1>10, <1>12, <1>13 DEF Step, G
<1> QED BY <1>14 DEF G

\* A delete that was checked takes away no version somebody references.
LEMMA DeletedReferences ==
  ASSUME StoreInv, StoreInv', VersionFrozen, ReferencesLive, NEW c \in Clients,
         Owed(pc[c], req[c], loc[c]), Deleted(c)
  PROVE  ReferencesLive'
<1>0. /\ \A s \in Subjects : GetSchemasBySubject(s) = Live(s)
      /\ \A s \in Subjects : Live(s) \subseteq Versions(s)
  BY DEF GetSchemasBySubject, Live, StoreInv, NoDanglingVersion
<1>1. PICK s \in Subjects :
        \/ \E v \in Versions(s) :
              \/ Unreferenced(s, {v}) /\ DeleteSchema(s, v)
              \/ DeleteSchemaPermanent(s, v)
        \/ Unreferenced(s, Live(s)) /\ DeleteSubject(s)
        \/ DeleteSubjectPermanent(s)
  <2>1. PICK s \in Subjects :
          \/ \E v \in Versions(s) :
                /\ req[c].op = "deleteVersion" /\ s = req[c].subject /\ v = loc[c].version
                /\ \/ ~req[c].permanent /\ DeleteSchema(s, v)
                   \/ DeleteSchemaPermanent(s, v)
          \/ /\ req[c].op = "deleteSubject" /\ s = req[c].subject
             /\ \/ ~req[c].permanent /\ DeleteSubject(s)
                \/ DeleteSubjectPermanent(s)
    BY DEF Deleted
  <2>2. pc[c] = "apply"
    BY DEF Deleted
  <2> QED BY <1>0, <2>1, <2>2 DEF Owed
<1>2. SettingsTyped /\ nextSubjectVersion \in [Subjects -> Nat] /\ DOMAIN subjectVersions = Subjects
  BY DEF StoreInv, StoreTypeOK, SettingsTyped
<1>3. ASSUME NEW V \in SUBSET Versions(s), SoftDelete(s, V), Unreferenced(s, V \cap Live(s)),
             UNCHANGED <<schemas, fingerprints, nextSubjectVersion, idToSubjectVersions,
                         nextID, settingVars>>
      PROVE  ReferencesLive'
  <2>1. \A t \in Subjects : Live(t)' = IF t = s THEN Live(t) \ V ELSE Live(t)
    <3>1. Live(s)' = Live(s) \ V
      BY <1>3, SoftEffect
    <3>2. \A t \in Subjects : t # s => subjectVersions'[t] = subjectVersions[t]
      BY <1>2, <1>3 DEF SoftDelete
    <3> QED BY <3>1, <3>2 DEF Live, Versions
  <2>2. \A w \in V \cap Live(s) : GetReferencedBy(Refs, s, w) = {}
    BY <1>3 DEF Unreferenced
  <2> QED BY <2>1, <2>2, ReferencesShrink
<1>4. ASSUME NEW v \in Versions(s), Unreferenced(s, {v}), DeleteSchema(s, v)
      PROVE  ReferencesLive'
  <2>1. {v} \in SUBSET Versions(s) /\ Unreferenced(s, {v} \cap Live(s))
    BY <1>4 DEF Unreferenced
  <2> QED BY <1>3, <1>4, <2>1 DEF DeleteSchema
<1>5. ASSUME Unreferenced(s, Live(s)), DeleteSubject(s)
      PROVE  ReferencesLive'
  <2>1. Versions(s) \in SUBSET Versions(s) /\ Versions(s) \cap Live(s) = Live(s)
    BY <1>0
  <2> QED BY <1>3, <1>5, <2>1 DEF DeleteSubject
<1>6. ASSUME NEW V \in SUBSET Versions(s), V \cap Live(s) = {},
             subjectVersions' = [subjectVersions EXCEPT ![s] = Drop(subjectVersions[s], V)]
      PROVE  ReferencesLive'
  <2>1. \A t \in Subjects :
           /\ Versions(t)' = IF t = s THEN Versions(t) \ V ELSE Versions(t)
           /\ \A w \in Versions(t)' : subjectVersions'[t][w] = subjectVersions[t][w]
    BY <1>2, <1>6 DEF Versions, Drop
  <2>2. \A t \in Subjects : Live(t)' = Live(t)
    BY <1>6, <2>1 DEF Live
  <2>3. \A t \in Subjects : Live(t)' = IF t = s THEN Live(t) \ {} ELSE Live(t)
    BY <2>2
  <2>4. \A w \in {} \cap Live(s) : GetReferencedBy(Refs, s, w) = {}
    OBVIOUS
  <2> QED BY <2>3, <2>4, ReferencesShrink
<1>7. ASSUME NEW v \in Versions(s), DeleteSchemaPermanent(s, v)
      PROVE  ReferencesLive'
  <2>1. {v} \in SUBSET Versions(s) /\ {v} \cap Live(s) = {}
    BY <1>7 DEF DeleteSchemaPermanent, Live
  <2> QED BY <1>6, <1>7, <2>1 DEF DeleteSchemaPermanent
<1>8. ASSUME DeleteSubjectPermanent(s)
      PROVE  ReferencesLive'
  <2>1. Versions(s) \in SUBSET Versions(s) /\ Versions(s) \cap Live(s) = {}
    BY <1>8 DEF DeleteSubjectPermanent, Live
  <2>2. EmptyMap = Drop(subjectVersions[s], Versions(s))
    BY DEF EmptyMap, Drop, Versions
  <2> QED BY <1>6, <1>8, <2>1, <2>2 DEF DeleteSubjectPermanent
<1> QED BY <1>1, <1>4, <1>5, <1>7, <1>8

\* A client alone finds the next ID free when it creates.
LEMMA SerialFree ==
  ASSUME Serial, SerialInv, NEW c \in Clients,
         pc[c] \notin {"item", "store", "advance", "setNext"}
  PROVE  NextIDFree /\ \A i \in DOMAIN schemas : i < nextID
<1>1. \A i \in DOMAIN schemas : i < nextID
  BY DEF SerialInv, IDsCovered, Serial
<1> QED BY <1>1 DEF SerialInv, NextIDFree, StoreInv, StoreTypeOK

\* The initial state satisfies the invariant.
LEMMA SerialInit == Init => SerialInv
<1> SUFFICES ASSUME Init PROVE SerialInv
  OBVIOUS
<1>1. StoreInv
  BY InitInv DEF Init
<1>2. ControlInv
  BY DoneFits DEF Init, ControlInv, Done, Labels, Fits
<1>3. /\ DOMAIN schemas = {} /\ \A c \in Clients : pc[c] = "idle"
      /\ \A s \in Subjects : Live(s) = {}
  BY DEF Init, StoreInit, EmptyMap, Live, Versions
<1>4. LiveVersions = {}
  BY <1>3 DEF LiveVersions
<1> QED BY <1>1, <1>2, <1>3, <1>4 DEF SerialInv, IDsCovered, ReferencesLive, Owed

\* A step of a client alone keeps the tables, the references and the IDs sound.
LEMMA SerialStores ==
  ASSUME Serial, SerialInv, NEW c \in Clients, Step(c)
  PROVE  StoreInv' /\ ReferencesLive' /\ IDsCovered'
<1>0. /\ StoreInv /\ ControlInv /\ IDsCovered /\ ReferencesLive
      /\ Owed(pc[c], req[c], loc[c]) /\ \A d \in Clients : d = c
      /\ loc[c].next \in Nat /\ nextID \in Nat /\ DOMAIN schemas \subseteq Nat
  BY DEF SerialInv, Serial, ControlInv, Locals, StoreInv, StoreTypeOK
<1>1. /\ pc[c] \in {"item", "store", "advance"} =>
              \/ /\ pc'[c] \in {"item", "store", "advance", "setNext"}
                 /\ loc'[c].next \in Nat /\ loc'[c].next >= loc[c].next
              \/ loc[c].next = 0
      /\ pc'[c] = "setNext" => /\ pc[c] = "advance" /\ nextID' = nextID
                               /\ nextID <= loc'[c].next
      /\ pc[c] = "setNext" => AdvanceSet(c)
  BY <1>0, ImportGoesOn
<1>2. ASSUME UNCHANGED <<schemas, subjectVersions>>, StoreInv'
      PROVE  ReferencesLive'
  <2>1. LiveVersions' = LiveVersions /\ \A s, v : Content(s, v)' = Content(s, v)
    BY <1>2 DEF LiveVersions, Live, Versions, HasContent, Content
  <2> QED BY <1>0, <2>1 DEF ReferencesLive
<1>3. \A i \in DOMAIN schemas :
         i < nextID \/ (pc[c] \in {"item", "store", "advance", "setNext"} /\ i < loc[c].next)
  BY <1>0 DEF IDsCovered
<1>4. ASSUME nextID' = nextID, pc[c] # "setNext",
             \A i \in DOMAIN schemas' :
                \/ i \in DOMAIN schemas
                \/ i \in Nat /\ i < loc'[c].next
                   /\ pc'[c] \in {"item", "store", "advance", "setNext"}
      PROVE  IDsCovered'
  <2>1. ASSUME NEW i \in DOMAIN schemas, i \in DOMAIN schemas'
        PROVE  \/ i < nextID
               \/ pc'[c] \in {"item", "store", "advance", "setNext"} /\ i < loc'[c].next
    BY <1>0, <1>1, <1>3, <1>4
  <2> QED BY <1>0, <1>1, <1>4, <2>1 DEF IDsCovered
<1>5. CASE AdvanceSet(c)
  <2>1. /\ nextID' = loc[c].next /\ nextID <= loc[c].next
        /\ UNCHANGED <<schemas, fingerprints, subjectVersions, nextSubjectVersion,
                       idToSubjectVersions, settingVars>>
        /\ pc' = [pc EXCEPT ![c] = "idle"]
    BY <1>0, <1>5 DEF AdvanceSet, SetNextID, Return, Finish, Goto, IDsCovered
  <2>2. SettingsTyped'
    BY <1>0, <2>1 DEF SettingsTyped, settingVars, StoreInv, StoreTypeOK
  <2>3. StoreInv'
    BY <1>0, <2>1, <2>2, SettingInv DEF SettingsTyped
  <2>4. IDsCovered'
    <3>1. pc'[c] = "idle" /\ \A i \in DOMAIN schemas' : i < nextID'
      BY <1>0, <1>3, <2>1 DEF ControlInv
    <3> QED BY <1>0, <3>1 DEF IDsCovered
  <2> QED BY <1>2, <2>1, <2>3, <2>4
<1>6. CASE pc[c] # "setNext" /\ (Quiet \/ Answered)
  <2>1. UNCHANGED schemaVars /\ SettingsTyped'
    BY <1>0, <1>6 DEF Quiet, Answered, storeVars, settingVars, SettingsTyped,
                      StoreInv, StoreTypeOK
  <2>2. StoreInv'
    BY <1>0, <2>1, SettingInv DEF SettingsTyped, schemaVars
  <2>3. ReferencesLive'
    BY <1>2, <2>1, <2>2 DEF schemaVars
  <2>4. IDsCovered'
    BY <1>4, <1>6, <2>1 DEF schemaVars
  <2> QED BY <2>2, <2>3, <2>4
<1>7. CASE Created(c)
  <2>1. PICK s, fp, m : s = req[c].subject /\ fp = req[c].fp /\ m = loc[c].meta
    OBVIOUS
  <2>2. /\ s \in Subjects /\ fp \in Fingerprints /\ m \in Metas /\ CreateSchema(s, fp, m)
        /\ pc[c] = "create" /\ Refs[fp] \subseteq LiveVersions
    BY <1>0, <1>7, <2>1, RequestFields DEF Created, Owed
  <2>3. NextIDFree /\ \A i \in DOMAIN schemas : i < nextID
    BY <2>2, SerialFree
  <2>4. PICK i, v : i = IDFor(fp) /\ v = nextSubjectVersion[s] + 1
    OBVIOUS
  <2>5. /\ StoreInv' /\ RowAdded(s, v, i, m) /\ ContentAdded(i, fp)
        /\ nextID' = IF fp \in DOMAIN fingerprints THEN nextID ELSE nextID + 1
    BY <1>0, <2>2, <2>3, <2>4, CreateEffect
  <2>6. ReferencesLive'
    BY <1>0, <2>2, <2>5, ReferencesGrow
  <2>7. \A j \in DOMAIN schemas' : j < nextID'
    <3>1. /\ fp \in DOMAIN fingerprints => i \in DOMAIN schemas
          /\ fp \notin DOMAIN fingerprints => i = nextID
      BY <1>0, <2>4 DEF IDFor, StoreInv, FingerprintSound
    <3> QED BY <1>0, <2>3, <2>5, <3>1 DEF ContentAdded
  <2>8. IDsCovered'
    BY <1>0, <1>1, <2>2, <2>7 DEF IDsCovered
  <2> QED BY <2>5, <2>6, <2>8
<1>8. CASE Imported(c)
  <2>1. PICK s \in Subjects, fp \in Fingerprints, i \in Nat \ {0}, v \in Nat \ {0} :
     /\ \/ pc[c] = "import" /\ fp = req[c].fp /\ pc'[c] = "advance" /\ loc'[c].next = i + 1
        \/ /\ pc[c] = "store" /\ fp = req[c].items[loc[c].idx].fp /\ pc'[c] = "item"
           /\ loc'[c].next >= i + 1 /\ loc'[c].next >= loc[c].next
     /\ ImportSchema(s, fp, i, v)
    BY <1>8 DEF Imported
  <2>2. /\ StoreInv' /\ RowAdded(s, v, i, NoMeta) /\ ContentAdded(i, fp)
        /\ nextID' = nextID
    BY <1>0, <2>1, ImportEffect
  <2>3. Refs[fp] \subseteq LiveVersions
    BY <1>0, <2>1 DEF Owed
  <2>4. ReferencesLive'
    BY <1>0, <2>2, <2>3, ReferencesGrow
  <2>5. loc'[c].next \in Nat
    <3>1. ControlInv'
      BY <1>0, StepControl
    <3> QED BY <3>1 DEF ControlInv, Locals
  <2>6. i < loc'[c].next /\ pc'[c] \in {"item", "advance"} /\ pc[c] # "setNext"
    BY <2>1, <2>5
  <2>7. DOMAIN schemas' = DOMAIN schemas \cup {i}
    BY <2>2 DEF ContentAdded
  <2>8. IDsCovered'
    BY <1>4, <2>2, <2>6, <2>7
  <2> QED BY <2>2, <2>4, <2>8
<1>9. CASE Deleted(c)
  <2>0. pc[c] = "apply"
    BY <1>9 DEF Deleted
  <2>1. StoreInv' /\ VersionFrozen /\ \E dead : Shrinks(dead)
    BY <1>0, <1>9, DeletedEffect
  <2>2. IDsCovered'
    <3>1. nextID' = nextID /\ DOMAIN schemas' \subseteq DOMAIN schemas
      BY <2>1 DEF Shrinks
    <3> QED BY <1>4, <2>0, <3>1
  <2>3. ReferencesLive'
    BY <1>0, <1>9, <2>1, DeletedReferences
  <2> QED BY <2>1, <2>2, <2>3
<1> QED BY <1>0, <1>1, <1>5, <1>6, <1>7, <1>8, <1>9, StepEffect DEF Created, Imported, Deleted

\* Every step of a client alone keeps the invariant.
LEMMA SerialStep ==
  ASSUME Serial, SerialInv, [Next]_vars
  PROVE  SerialInv'
<1>0. /\ StoreInv /\ ControlInv /\ IDsCovered /\ ReferencesLive
      /\ \A c \in Clients : Owed(pc[c], req[c], loc[c])
  BY DEF SerialInv
<1>1. ASSUME UNCHANGED storeVars
      PROVE  /\ StoreInv' /\ ReferencesLive'
             /\ UNCHANGED <<schemas, subjectVersions, nextID, configs>>
  <2>1. /\ UNCHANGED <<schemas, subjectVersions, nextID, configs>>
        /\ UNCHANGED schemaVars /\ SettingsTyped'
    BY <1>0, <1>1 DEF storeVars, schemaVars, settingVars, SettingsTyped, StoreInv, StoreTypeOK
  <2>2. StoreInv'
    BY <1>0, <2>1, SettingInv DEF SettingsTyped, schemaVars, StoreInv, StoreTypeOK
  <2>3. LiveVersions' = LiveVersions /\ \A s, v : Content(s, v)' = Content(s, v)
    BY <2>1 DEF LiveVersions, Live, Versions, HasContent, Content
  <2> QED BY <1>0, <2>1, <2>2, <2>3 DEF ReferencesLive
<1>2. CASE UNCHANGED vars
  <2>1. UNCHANGED storeVars /\ UNCHANGED <<pc, req, loc>>
    BY <1>2 DEF vars, serviceVars
  <2>2. ControlInv' /\ IDsCovered'
    BY <1>0, <1>1, <2>1 DEF ControlInv, Fits, IDsCovered
  <2>3. ASSUME NEW c \in Clients PROVE Owed(pc[c], req[c], loc[c])'
    <3>1. MoveTo(c, pc[c], req[c], loc[c])
      BY <1>0, <2>1 DEF MoveTo, ControlInv
    <3> QED BY <1>0, <2>1, <3>1, OwedMove
  <2> QED BY <1>1, <2>1, <2>2, <2>3 DEF SerialInv
<1>3. ASSUME NEW c \in Clients, NEW r \in Requests, Begin(c, r)
      PROVE  SerialInv'
  <2>1. ControlInv'
    BY <1>0, <1>3, BeginControl
  <2>2. /\ UNCHANGED storeVars /\ pc[c] \in Done /\ pc' = [pc EXCEPT ![c] = FirstStep(r)]
        /\ req' = [req EXCEPT ![c] = r] /\ loc' = loc
    BY <1>3 DEF Begin, Goto
  <2>3. FirstStep(r) \in {"resolve", "item", "check"} \/
        (FirstStep(r) = "apply" /\ r.op \notin {"deleteVersion", "deleteSubject"})
    BY RequestFields DEF FirstStep
  <2>4. \A d \in Clients : d = c
    BY DEF Serial
  <2>5. IDsCovered'
    <3>1. pc[c] \notin {"item", "store", "advance", "setNext"}
      BY <2>2 DEF Done
    <3>2. \A i \in DOMAIN schemas : i < nextID
      BY <3>1, SerialFree
    <3>3. pc'[c] # "setNext"
      BY <1>0, <2>2, <2>3 DEF ControlInv
    <3> QED BY <1>1, <2>2, <2>4, <3>2, <3>3 DEF IDsCovered
  <2>6. Owed(pc[c], req[c], loc[c])'
    <3>1. pc'[c] = FirstStep(r) /\ req'[c] = r
      BY <1>0, <2>2 DEF ControlInv
    <3> QED BY <2>3, <3>1 DEF Owed
  <2> QED BY <1>1, <2>1, <2>2, <2>4, <2>5, <2>6 DEF SerialInv
<1>4. ASSUME NEW c \in Clients, Step(c)
      PROVE  SerialInv'
  <2>1. ControlInv' /\ Owed(pc[c], req[c], loc[c])'
    BY <1>0, <1>4, StepControl, OwedStep
  <2>2. StoreInv' /\ ReferencesLive' /\ IDsCovered'
    BY <1>4, SerialStores
  <2> QED BY <2>1, <2>2 DEF SerialInv, Serial
<1> QED BY <1>2, <1>3, <1>4 DEF Next

\* With one client at a time, imports included, every reachable state satisfies
\* the invariant.
THEOREM SerialIntegrity ==
  ASSUME Serial PROVE Spec => []SerialInv
<1>1. Init => SerialInv
  BY SerialInit
<1>2. SerialInv /\ [Next]_vars => SerialInv'
  BY SerialStep
<1> QED BY <1>1, <1>2, PTL DEF Spec

\* CreateSchema is only reached with an unused next ID, when nobody imports or
\* when requests do not overlap: both imports leave the sequence above every ID.
THEOREM CreatesFindFreeID ==
  ASSUME NoImports \/ Serial PROVE Spec => []CreateFindsFreeID
<1>1. CASE NoImports
  <2>1. PlainInv => CreateFindsFreeID
    BY PlainFree DEF CreateFindsFreeID
  <2>2. Spec => []PlainInv
    BY <1>1, PlainIntegrity
  <2> QED BY <2>1, <2>2, PTL
<1>2. CASE Serial
  <2>1. SerialInv => CreateFindsFreeID
    BY <1>2, SerialFree DEF CreateFindsFreeID
  <2>2. Spec => []SerialInv
    BY <1>2, SerialIntegrity
  <2> QED BY <2>1, <2>2, PTL
<1> QED BY <1>1, <1>2

\* When requests do not overlap, the reference checks of registrations, imports
\* and deletes keep every reference of a live version live.
THEOREM ReferencesStayLive ==
  ASSUME Serial PROVE Spec => []ReferencesLive
<1>1. SerialInv => ReferencesLive
  BY DEF SerialInv
<1> QED BY <1>1, SerialIntegrity, PTL

\* When requests do not overlap, a version that a registration adds is compatible
\* with the versions of its group, in the directions and over the versions that
\* the subject's level asks for, and keeps the reserved fields where the config
\* asks for it.
THEOREM RegistrationsCompatible ==
  ASSUME Serial PROVE Spec => CompatibilityEnforced
<1>1. SerialInv => CompatibleStep
  <2> SUFFICES ASSUME SerialInv, NEW c \in Clients, pc[c] = "create"
               PROVE  LET s == req[c].subject
                          level == GetConfig(s)
                          new == req[c].fp
                          kin == InGroup(s, req[c].meta, Live(s))
                      IN /\ \A v \in kin :
                              (\A w \in kin : w <= v)
                                \/ level \in {"BACKWARD_TRANSITIVE", "FORWARD_TRANSITIVE", "FULL_TRANSITIVE"}
                              => /\ level \in {"BACKWARD", "BACKWARD_TRANSITIVE", "FULL", "FULL_TRANSITIVE"}
                                      => <<new, Content(s, v)>> \in Readable
                                 /\ level \in {"FORWARD", "FORWARD_TRANSITIVE", "FULL", "FULL_TRANSITIVE"}
                                      => <<Content(s, v), new>> \in Readable
                         /\ isValidateFieldsEnabled(s) => KeepsReserved(s, new, loc[c].meta)
    BY DEF CompatibleStep
  <2> DEFINE s == req[c].subject
             level == GetConfig(s)
             existing == Compared(s, req[c].meta)
             kin == InGroup(s, req[c].meta, Live(s))
  <2>1. /\ StoreInv /\ Check(Readable, level, req[c].fp, existing)
        /\ Kept(s, req[c].fp, loc[c].meta)
    BY DEF SerialInv, Owed
  <2>2. s \in Subjects
    <3>1. Fits(pc[c], req[c], loc[c])
      BY DEF SerialInv, ControlInv
    <3>2. req[c] \in Requests /\ req[c].op = "register"
      BY <3>1 DEF Fits, Done
    <3> QED BY <3>2, RequestFields
  <2>3. GetSchemasBySubject(s) = Live(s)
    BY <2>1, <2>2 DEF GetSchemasBySubject, Live, StoreInv, NoDanglingVersion
  <2>4. DOMAIN existing = kin /\ \A v \in kin : existing[v] = Content(s, v)
    BY <2>3 DEF Compared
  <2>5. ASSUME NEW v \in kin, (\A w \in kin : w <= v) \/ IsTransitive(level), level # "NONE"
        PROVE  PairCompatible(Readable, level, req[c].fp, Content(s, v))
    <3> HIDE DEF existing, level, kin
    <3>1. v \in SchemasToCheck(level, existing)
      BY <2>4, <2>5 DEF SchemasToCheck
    <3>2. PairCompatible(Readable, level, req[c].fp, existing[v])
      BY <2>1, <2>5, <3>1 DEF Check
    <3> QED BY <2>4, <3>2
  <2>6. isValidateFieldsEnabled(s) => KeepsReserved(s, req[c].fp, loc[c].meta)
    BY <2>1 DEF Kept
  <2> HIDE DEF level, kin
  <2> QED BY <2>5, <2>6
          DEF level, kin, PairCompatible, RequiresBackward, RequiresForward, IsTransitive
<1>2. SerialInv => [CompatibleStep]_vars
  BY <1>1
<1> QED BY <1>2, SerialIntegrity, PTL DEF CompatibilityEnforced

=============================================================================
