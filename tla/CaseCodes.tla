------------------------------ MODULE CaseCodes ------------------------------
(***************************************************************************)
(* How the test cases of one project get their codes (TC-AUTH-001), at the *)
(* granularity of the statements sent to Postgres (READ COMMITTED).        *)
(*                                                                         *)
(*   Creates    POST /projects/:id/test-cases, and each item of the MCP    *)
(*              tool create_test_cases       (TestCasesService.create)     *)
(*   Links      POST .../results/:id/test-case, which makes a case of an   *)
(*              unlinked result              (UnlinkedResultsService)      *)
(*   Confirms   POST .../import/confirm      (ImportService)               *)
(*                                                                         *)
(*   AddModule  POST /projects/:id/modules, the MCP tool create_module     *)
(*                                                                         *)
(* A code is its module and its number.  Links and Confirms write in one   *)
(* transaction: what it inserted or updated is held until it ends, and     *)
(* whoever wants the same row waits.                                       *)
(***************************************************************************)
EXTENDS ImportFiles

CONSTANTS
  Existing,                   \* the modules at the start: their names, by code
  MaxAttempts,                \* maxAttempts of create
  Creates, Links, Confirms,   \* request ids
  Previews,                   \* ids of the previews in the import store
  Files,                      \* what a file may contain: sequences of RawRows
  NewModules,                 \* modules people or agents may add: [code, name]
  MaxChanges,                 \* bound on approvals, deletions and added modules
  MaxRequests                 \* bound on the requests that are made in all

Writers == Creates \cup Links \cup Confirms

ASSUME WritersDisjoint ==
  /\ Creates \cap (Links \cup Confirms) = {}
  /\ Links \cap Confirms = {}
  /\ None \notin Writers
Maps(S, T) == UNION {[D -> T] : D \in SUBSET S}

ASSUME ModulesAssumption ==
  /\ Existing \in Maps(Modules, Names) /\ Modules \cap Codes = {}
  /\ NewModules \subseteq [code : Modules, name : Names]
ASSUME BoundsAssumption == MaxAttempts \in Nat \ {0} /\ MaxChanges \in Nat /\ MaxRequests \in Nat
ASSUME FilesAssumption == Files \subseteq Seq(RawRows)

VARIABLES
  cases,      \* cases[code]: the committed TestCase row
  modules,    \* the committed ProjectModule rows: their names, by code
  held,       \* held[x]: whose open transaction wrote row x, a case or a module
  linked,     \* the code of the case the unlinked result was linked to, or None
  store,      \* store[v]: the import store's entry
  changes,    \* how many cases were approved or deleted, and modules added
  pc, local

vars == <<cases, modules, held, linked, store, changes, pc, local>>

\* by: the request that created the case.
Case == [state : {"none", "approved", "draft", "deleted"}, by : Writers \cup {None}]
Entry == [state : {"absent", "kept", "gone"}, rows : Seq(Rows)]
Plans == [to : Maps(Modules, Modules), create : Seq([code : Modules, name : Names])]
\* attempt, code: of a create; rows, next: what an import took and the row it is at; known,
\* updatable: the sets allCodes and updatable of confirm; plan: what ensureModules decided.
Local == [attempt : 0 .. MaxAttempts, code : Codes \cup {None}, rows : Seq(Rows), next : Nat \ {0},
          known : SUBSET Codes, updatable : SUBSET Codes,
          plan : Plans]
Blank == [attempt |-> 0, code |-> None, rows |-> <<>>, next |-> 1, known |-> {}, updatable |-> {},
          plan |-> [to |-> <<>>, create |-> <<>>]]

Ends == {"done", "refused", "outrun", "dead"}
Steps == {"new", "read", "insert", "modules", "create modules", "codes", "updatable", "rows"} \cup Ends

TypeOK ==
  /\ cases \in [Codes -> Case]
  /\ modules \in Maps(Modules, Names)
  /\ held \in [Codes \cup Modules -> Links \cup Confirms \cup {None}]
  /\ linked \in Codes \cup {None}
  /\ store \in [Previews -> Entry]
  /\ changes \in 0 .. MaxChanges
  /\ pc \in [Writers -> Steps]
  /\ local \in [Writers -> Local]

Init ==
  /\ cases = [c \in Codes |-> [state |-> "none", by |-> None]]
  /\ modules = Existing
  /\ held = [x \in Codes \cup Modules |-> None]
  /\ linked = None
  /\ store = [v \in Previews |-> [state |-> "absent", rows |-> <<>>]]
  /\ changes = 0
  /\ pc = [q \in Writers |-> "new"]
  /\ local = [q \in Writers |-> Blank]

Goto(q, step) == pc' = [pc EXCEPT ![q] = step]
\* Deleted cases keep their rows, and with them their codes.
Used == {c \in Codes : cases[c].state # "none"}
Approved == {c \in Codes : cases[c].state = "approved"}
HeldByOther(q, x) == held[x] \notin {q, None}

\* The unique index on (projectId, code).  Mutant: it leaves out deleted cases.
TakenIfActive(code) == cases[code].state \notin {"none", "deleted"}
Taken(code) == code \in Used

\* The end of a transaction: what q held becomes visible, or is gone.
Release(q) == held' = [x \in DOMAIN held |-> IF held[x] = q THEN None ELSE held[x]]
Inserted(q) == {c \in Codes \ Used : held[c] = q}
Rollback(q, step) == Release(q) /\ Goto(q, step)

\* nextCaseCode: the highest number among codes, plus one.
NextCode(m, codes) == <<m, Max({0} \cup {c[2] : c \in {d \in codes : d[1] = m}}) + 1>>

------------------------------------------------------------------------------
(* TestCasesService.create *)

\* Mutant of ReadCodes: the codes of deleted cases count as free.
ReadCodesOfActive(q, m) ==
  LET code == NextCode(m, {c \in Used : cases[c].state # "deleted"}) IN
  local' = [local EXCEPT ![q].attempt = @ + 1, ![q].code = code]

\* One attempt: read every code of the module, deleted cases included, and take the next.
ReadCodes(q, m) ==
  /\ NextCode(m, Used) \in Codes          \* bound
  /\ local' = [local EXCEPT ![q].attempt = @ + 1, ![q].code = NextCode(m, Used)]

CreateRead(c) ==
  /\ \/ pc[c] = "new" /\ \E m \in DOMAIN modules : ReadCodes(c, m)
     \/ pc[c] = "read" /\ ReadCodes(c, local[c].code[1])
  /\ Goto(c, "insert")
  /\ UNCHANGED <<cases, modules, held, linked, store, changes>>

\* Mutant of MayRetry: one attempt too many.
MayRetryOnceMore(c) == local[c].attempt <= MaxAttempts
MayRetry(c) == local[c].attempt < MaxAttempts

\* The INSERT waits for an open transaction that inserted the same code; a unique violation starts
\* the next attempt.  Cases made on the web are approved, those of an agent are drafts.
CreateInsert(c) ==
  LET code == local[c].code IN
  /\ pc[c] = "insert"
  /\ ~HeldByOther(c, code)
  /\ IF Taken(code)
       THEN /\ Goto(c, IF MayRetry(c) THEN "read" ELSE "outrun")
            /\ UNCHANGED cases
       ELSE /\ \E state \in {"approved", "draft"} :
                 cases' = [cases EXCEPT ![code] = [state |-> state, by |-> c]]
            /\ Goto(c, "done")
  /\ UNCHANGED <<modules, held, linked, store, local, changes>>

------------------------------------------------------------------------------
(* UnlinkedResultsService.createCase: create inside its own transaction *)

LinkRead(l) ==
  /\ pc[l] = "new"
  /\ IF linked # None THEN Goto(l, "refused") /\ UNCHANGED local
                      ELSE Goto(l, "insert") /\ \E m \in DOMAIN modules : ReadCodes(l, m)
  /\ UNCHANGED <<cases, modules, held, linked, store, changes>>

\* A unique violation aborts the transaction: the next attempt can only fail.
LinkInsert(l) ==
  LET code == local[l].code IN
  /\ pc[l] = "insert" /\ held[code] # l
  /\ ~HeldByOther(l, code)
  /\ IF Taken(code) THEN Goto(l, "outrun") /\ UNCHANGED held
                      ELSE held' = [held EXCEPT ![code] = l] /\ UNCHANGED pc
  /\ UNCHANGED <<cases, modules, linked, store, local, changes>>

\* Mutant of LinkCommit: the case stays when somebody else linked the result.
LinkCommitAnyway(l) ==
  LET code == local[l].code IN
  /\ pc[l] = "insert" /\ held[code] = l
  /\ cases' = [cases EXCEPT ![code] = [state |-> "approved", by |-> l]]
  /\ linked' = IF linked = None THEN code ELSE linked
  /\ Release(l) /\ Goto(l, "done")
  /\ UNCHANGED <<modules, store, local, changes>>

\* UPDATE ... WHERE testCaseId IS NULL, then the commit, or the rollback of the case as well.
LinkCommit(l) ==
  LET code == local[l].code IN
  /\ pc[l] = "insert" /\ held[code] = l
  /\ IF linked # None
       THEN Rollback(l, "refused") /\ UNCHANGED <<cases, linked>>
       ELSE /\ cases' = [cases EXCEPT ![code] = [state |-> "approved", by |-> l]]
            /\ linked' = code
            /\ Release(l) /\ Goto(l, "done")
  /\ UNCHANGED <<modules, store, local, changes>>

------------------------------------------------------------------------------
(* ImportService and ImportStore *)

\* preview: the parsed rows are kept in memory.
Preview(v) ==
  /\ store[v].state = "absent"
  /\ \E table \in Files :
       /\ \A r \in Range(ParsedRows(table)) : r.module # None          \* bound
       /\ store' = [store EXCEPT ![v] = [state |-> "kept", rows |-> ParsedRows(table)]]
  /\ UNCHANGED <<cases, modules, held, linked, pc, local, changes>>

Gone == [state |-> "gone", rows |-> <<>>]

\* Half an hour passes, or the process restarts.
Forget(v) ==
  /\ store[v].state = "kept"
  /\ store' = [store EXCEPT ![v] = Gone]
  /\ UNCHANGED <<cases, modules, held, linked, pc, local, changes>>

\* take: the entry leaves the store before the transaction starts.
Take(i, v) ==
  /\ store[v].state = "kept"
  /\ local' = [local EXCEPT ![i].rows = store[v].rows]
  /\ store' = [store EXCEPT ![v] = Gone]
  /\ Goto(i, "modules")

ConfirmTake(i) ==
  /\ pc[i] = "new"
  /\ \E v \in Previews :
       \/ Take(i, v)
       \/ store[v].state = "gone" /\ Goto(i, "refused") /\ UNCHANGED <<store, local>>
  /\ UNCHANGED <<cases, modules, held, linked, changes>>

\* ensureModules reads the modules (the last of a name wins, in no particular order), then creates
\* those the file wants and the project has not, one INSERT each.
ReadModules(i) ==
  /\ pc[i] = "modules"
  /\ \E byName \in [Range(modules) -> DOMAIN modules] :
       LET plan == Plan(local[i].rows, DOMAIN modules, byName) IN
       /\ \A n \in Range(modules) : modules[byName[n]] = n
       /\ \A m \in Range(plan.create) : m.code # None          \* bound
       /\ local' = [local EXCEPT ![i].plan = plan]
  /\ Goto(i, "create modules")
  /\ UNCHANGED <<cases, modules, held, linked, store, changes>>

CreateModule(i) ==
  LET create == local[i].plan.create
      left == {k \in DOMAIN create : held[create[k].code] # i}
      code == create[Min(left)].code
  IN
  /\ pc[i] = "create modules"
  /\ IF left = {}
       THEN Goto(i, "codes") /\ UNCHANGED held
       ELSE /\ ~HeldByOther(i, code)
            /\ IF code \in DOMAIN modules THEN Rollback(i, "refused")
                                         ELSE held' = [held EXCEPT ![code] = i] /\ UNCHANGED pc
  /\ UNCHANGED <<cases, modules, linked, store, local, changes>>

\* allCodes and updatable are read by two statements.
ReadAllCodes(i) ==
  /\ pc[i] = "codes"
  /\ local' = [local EXCEPT ![i].known = Used]
  /\ Goto(i, "updatable")
  /\ UNCHANGED <<cases, modules, held, linked, store, changes>>

ReadUpdatable(i) ==
  /\ pc[i] = "updatable"
  /\ local' = [local EXCEPT ![i].updatable = Approved]
  /\ Goto(i, "rows")
  /\ UNCHANGED <<cases, modules, held, linked, store, changes>>

Row(i) == local[i].rows[local[i].next]
RowCode(i) ==
  IF Row(i).code = None THEN NextCode(local[i].plan.to[Row(i).module], local[i].known) ELSE Row(i).code
Unhandled(i) == pc[i] = "rows" /\ local[i].next <= Len(local[i].rows)
Drop(i) == local' = [local EXCEPT ![i].next = @ + 1]

\* A row whose ID belongs to an approved case: skipped, or updated, which locks that case's row.
UpdateRow(i) ==
  /\ Unhandled(i) /\ Row(i).valid
  /\ Row(i).code \in local[i].updatable
  /\ \/ UNCHANGED held
     \/ ~HeldByOther(i, Row(i).code) /\ held' = [held EXCEPT ![Row(i).code] = i]
  /\ Drop(i)
  /\ UNCHANGED <<cases, modules, linked, store, pc, changes>>

\* A row with errors, or whose ID is used by a draft or a deleted case.
SkipRow(i) ==
  /\ Unhandled(i)
  /\ ~Row(i).valid \/ Row(i).code \in local[i].known \ local[i].updatable
  /\ Drop(i)
  /\ UNCHANGED <<cases, modules, held, linked, store, pc, changes>>

\* Mutant of AddRow: allCodes does not learn the new code.
AddRowForgets(i, code) == Drop(i)
AddRow(i, code) ==
  local' = [local EXCEPT ![i].next = @ + 1, ![i].known = @ \cup {code}]

\* Any other row becomes a new case.  A unique violation rolls the whole import back.
CreateRow(i) ==
  LET code == RowCode(i) IN
  /\ Unhandled(i) /\ Row(i).valid
  /\ Row(i).code \notin local[i].known \cup local[i].updatable
  /\ code \in Codes          \* bound
  /\ ~HeldByOther(i, code)
  /\ IF Taken(code) \/ held[code] = i
       THEN Rollback(i, "outrun") /\ UNCHANGED local
       ELSE held' = [held EXCEPT ![code] = i] /\ AddRow(i, code) /\ UNCHANGED pc
  /\ UNCHANGED <<cases, modules, linked, store, changes>>

\* The modules, those that i inserted among them.
WithCreated(i) ==
  LET create == local[i].plan.create
      created == {create[k].code : k \in DOMAIN create}
  IN [code \in DOMAIN modules \cup created |->
        IF code \in created THEN create[CHOOSE k \in DOMAIN create : create[k].code = code].name
                            ELSE modules[code]]

ConfirmCommit(i) ==
  /\ pc[i] = "rows" /\ ~Unhandled(i)
  /\ cases' = [c \in Codes |-> IF c \in Inserted(i) THEN [state |-> "approved", by |-> i] ELSE cases[c]]
  /\ modules' = WithCreated(i)
  /\ Release(i) /\ Goto(i, "done")
  /\ UNCHANGED <<linked, store, local, changes>>

------------------------------------------------------------------------------
(* Other writers of the cases, and failures *)

\* approve and remove, one UPDATE each as far as codes are concerned.
ChangeCase(c) ==
  /\ changes < MaxChanges          \* bound
  /\ changes' = changes + 1
  /\ held[c] = None
  /\ \/ cases[c].state = "draft" /\ cases' = [cases EXCEPT ![c].state = "approved"]
     \/ cases[c].state \in {"draft", "approved"} /\ cases' = [cases EXCEPT ![c].state = "deleted"]
  /\ UNCHANGED <<modules, held, linked, store, pc, local>>

\* A code is refused when it is taken, by the check before the INSERT or by the INSERT itself; the
\* MCP tool derives a free one from the modules it read (ProjectModulesService.create, createModule).
AddModule(m) ==
  /\ changes < MaxChanges          \* bound
  /\ changes' = changes + 1
  /\ m.code \notin DOMAIN modules /\ held[m.code] = None
  /\ modules' = Put(modules, m.code, m.name)
  /\ UNCHANGED <<cases, held, linked, store, pc, local>>

\* The process dies, the transaction times out, or Postgres picks q as the victim of a deadlock.
Abort(q) ==
  /\ \E x \in DOMAIN held : held[x] = q
  /\ Rollback(q, "dead")
  /\ UNCHANGED <<cases, modules, linked, store, local, changes>>

Create(c) == CreateRead(c) \/ CreateInsert(c)
Link(l) == LinkRead(l) \/ LinkInsert(l) \/ LinkCommit(l)
Confirm(i) ==
  \/ ConfirmTake(i) \/ ReadModules(i) \/ CreateModule(i) \/ ReadAllCodes(i) \/ ReadUpdatable(i)
  \/ UpdateRow(i) \/ SkipRow(i) \/ CreateRow(i) \/ ConfirmCommit(i)

Made == Cardinality({q \in Writers : pc[q] # "new"})
MayAct(q) == pc[q] # "new" \/ Made < MaxRequests          \* bound

\* Every request was answered.
Finished ==
  /\ \A q \in Writers : pc[q] \in Ends \/ ~MayAct(q)
  /\ UNCHANGED vars

Next ==
  \/ \E c \in Creates : MayAct(c) /\ Create(c)
  \/ \E l \in Links : MayAct(l) /\ Link(l)
  \/ \E i \in Confirms : MayAct(i) /\ Confirm(i)
  \/ \E v \in Previews : Preview(v) \/ Forget(v)
  \/ \E c \in Codes : ChangeCase(c)
  \/ \E m \in NewModules : AddModule(m)
  \/ \E q \in Links \cup Confirms : Abort(q)
  \/ Finished

Spec == Init /\ [][Next]_vars

------------------------------------------------------------------------------
(* Properties *)

\* A code belongs to the case that got it first, for ever: a rejected draft's code is never given
\* to another case, by any of the four ways to create one (nextCaseCode, the unique index).
CodeIsForever ==
  [][\A c \in Codes : cases[c].by # None =>
       cases'[c].by = cases[c].by /\ cases'[c].state # "none"]_vars

\* create gives up only in a module that has at least as many used codes as it made attempts: each of
\* them read a free code, another one each time, and found it taken when it inserted (create).
OnlyOutrunByRivals ==
  \A c \in Creates : pc[c] = "outrun" =>
    Cardinality({code \in Used : code[1] = local[c].code[1]}) >= MaxAttempts

\* A clash that undoes an import comes from another request that took a code since the import read
\* them, never from the rows of the file itself (confirm).
ImportClashesOnlyWithOthers ==
  \A i \in Confirms : pc[i] = "outrun" => \E c \in Used : c \notin local[i].known

\* A result is linked to one case, and a case made from it is the one it is linked to: a request that
\* lost the race leaves no case behind (createCase).
CaseOfResultIsLinked ==
  \A l \in Links, c \in Codes : cases[c].by = l => linked = c

\* The rows of a module name without ID prefix end up in the project's module of that name, however
\* the derived codes of the file and of the project collide and whoever creates modules meanwhile;
\* only a row of another name whose own ID names their code may take them along (buildRow,
\* ensureModules).
RowsJoinTheirModule ==
  \A i \in Confirms : pc[i] = "done" =>
    \A r \in Range(local[i].rows) : r.valid /\ r.derived =>
      \/ modules[local[i].plan.to[r.module]] = r.name
      \/ \E s \in Range(local[i].rows) : s.name # r.name /\ ~s.derived /\ s.module = r.module
==============================================================================
